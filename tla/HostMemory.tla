----------------------------- MODULE HostMemory -----------------------------
(***************************************************************************)
(* The memory of the host VM: how its pages are converted to confidential  *)
(* memory, fenced, assigned to guest VMs, released, reclaimed and shared,  *)
(* while the host runs on several CPUs (src/vm_pages.rs, src/vm.rs,        *)
(* src/vm_cpu.rs).                                                         *)
(*                                                                         *)
(* A page is named by its number in the host's guest physical address      *)
(* space, which is also the number of the physical page behind it: the     *)
(* host keeps the invalidated PTE of a converted page, and reclaiming maps *)
(* the same page at the same address.  One operation of the code is one    *)
(* action where the code holds a lock throughout, and otherwise several    *)
(* actions with the pc of the CPU between them:                            *)
(*                                                                         *)
(*   "out"      the host's address space is not active on the CPU: its     *)
(*              vCPU is not started, swapped out for a guest vCPU, or in   *)
(*              the middle of sync_tlb()                                   *)
(*   "host"     the host runs, or its next ecall is about to be handled    *)
(*   "convert"  do_convert_pages has read the TLB version                  *)
(*   "invalid"  ... holds the page-table lock and invalidates page by page *)
(*   "fence"    initiate_fence has incremented the version                 *)
(*   "sync"     ... has fenced the IOMMU; sync_tlb() comes next            *)
(*   "lock"     do_get_converted_pages has read the minimum version        *)
(*   "locked"   the operation owns a LockedPageList                        *)
(*   "remap"    reclaim_pages has locked the PTEs for mapping              *)
(***************************************************************************)
EXTENDS PageTracker, TlbTracker, FiniteSets

CONSTANTS
    Cpu,            \* the physical CPUs, each with its host vCPU
    Guest,          \* owner ids of the guest VMs
    NumPages,       \* number of RAM pages of the host
    Holder,         \* names of references to shared pages (guest mappings, pins)
    MaxVersion      \* bound on the TLB version

ASSUME HostMemoryAssumption ==
    /\ IsFiniteSet(Cpu) /\ Cpu # {}
    /\ Guest \subseteq PageOwnerId \ {HostId, HypervisorId}
    /\ NumPages \in Nat \ {0}
    /\ MaxVersion \in Nat
    /\ IsFiniteSet(Holder)

Page == 1..NumPages

\* The contiguous, non-empty ranges an ecall may name.
PageRange == {S \in SUBSET Page : \E a, b \in Page : a <= b /\ S = a..b}

VARIABLES
    pages,      \* the page map of the page tracker
    pte,        \* the host's guest-stage PTE of each page
    ptLock,     \* the CPU that holds the page-table lock across steps, as a set
    tracker,    \* the TlbTracker of the host's VmPages
    pc,         \* what the CPU is doing
    op,         \* the operation a LockedPageList is for: "assign" or "reclaim"
    arg,        \* the pages the operation still has to treat
    ver,        \* the TLB version the operation has read
    held,       \* tlb_version of the host vCPU's ActiveVmPages, or NoVersion
    prevTlb,    \* version the CPU's host translations were last entered with
    tlb,        \* pages with a host translation in the CPU's TLB
    iotlb,      \* pages with a host translation in the IOMMU's TLB
    refs,       \* holders of a reference to a shared page
    raced       \* pages marked Converting at a version that was no longer current

vars == <<pages, pte, ptLock, tracker, pc, op, arg, ver, held, prevTlb, tlb,
          iotlb, refs, raced>>

Pc == {"out", "host", "convert", "invalid", "fence", "sync", "lock", "locked", "remap"}
Pte == {"Leaf", "Invalidated", "LockedUnmapped"}

HostPage(st) == [mem |-> "Ram", state |-> st, arg |-> 0, owners |-> <<HostId>>]

Init ==
    /\ pages = [p \in Page |-> HostPage("Mapped")]
    /\ pte = [p \in Page |-> "Leaf"]
    /\ ptLock = {}
    /\ tracker = TlbTrackerNew
    /\ pc = [c \in Cpu |-> "out"]
    /\ op = [c \in Cpu |-> "assign"]
    /\ arg = [c \in Cpu |-> {}]
    /\ ver = [c \in Cpu |-> 0]
    /\ held = [c \in Cpu |-> NoVersion]
    /\ prevTlb = [c \in Cpu |-> NoVersion]
    /\ tlb = [c \in Cpu |-> {}]
    /\ iotlb = {}
    /\ refs = [p \in Page |-> {}]
    /\ raced = {}

cpuOp == <<op, arg, ver>>
hw == <<tlb, iotlb>>
active == <<tracker, held, prevTlb>>
Goto(c, label) == pc' = [pc EXCEPT ![c] = label]
PtUnlocked == ptLock = {}

\* Clears the operation's scratch state when it returns to the host.
Return(c) ==
    /\ Goto(c, "host")
    /\ op' = [op EXCEPT ![c] = "assign"]
    /\ arg' = [arg EXCEPT ![c] = {}]
    /\ ver' = [ver EXCEPT ![c] = 0]

\* One page of the operation is done; the last one ends it.
Treated(c, p) ==
    IF arg[c] = {p} THEN Return(c)
    ELSE arg' = [arg EXCEPT ![c] = @ \ {p}] /\ UNCHANGED <<pc, op, ver>>

-----------------------------------------------------------------------------
(* The address space on a CPU.                                             *)

\* Mutant: translations of an older version survive.
EnterSameVmidNoFlush(c) ==
    /\ pc[c] = "out" /\ prevTlb[c] # NoVersion
    /\ tracker' = get_version(tracker)
    /\ held' = [held EXCEPT ![c] = current_version(tracker)]
    /\ prevTlb' = [prevTlb EXCEPT ![c] = current_version(tracker)]
    /\ Goto(c, "host")
    /\ UNCHANGED <<pages, pte, ptLock, cpuOp, hw, refs, raced>>

\* ActiveVmPages::new with the VMID the vCPU had before: the translations tagged
\* with it are flushed if they were entered at an older version.
EnterSameVmid(c) ==
    /\ pc[c] = "out" /\ prevTlb[c] # NoVersion
    /\ tracker' = get_version(tracker)
    /\ held' = [held EXCEPT ![c] = current_version(tracker)]
    /\ prevTlb' = [prevTlb EXCEPT ![c] = current_version(tracker)]
    /\ tlb' = IF prevTlb[c] < current_version(tracker)
              THEN [tlb EXCEPT ![c] = {}] ELSE tlb
    /\ Goto(c, "host")
    /\ UNCHANGED <<pages, pte, ptLock, cpuOp, iotlb, refs, raced>>

\* ActiveVmPages::new with a VMID just allocated: no translation is tagged with it.
EnterNewVmid(c) ==
    /\ pc[c] = "out"
    /\ tracker' = get_version(tracker)
    /\ held' = [held EXCEPT ![c] = current_version(tracker)]
    /\ prevTlb' = [prevTlb EXCEPT ![c] = current_version(tracker)]
    /\ tlb' = [tlb EXCEPT ![c] = {}]
    /\ Goto(c, "host")
    /\ UNCHANGED <<pages, pte, ptLock, cpuOp, iotlb, refs, raced>>

\* Drop of ActiveVmPages: when the vCPU is saved to run a guest vCPU, when it stops
\* and in sync_tlb(), which tvm local_fence and a successful fence end with.  The
\* host has no regions to share, so a completed flush has nothing else to do.
Leave(c) ==
    /\ pc[c] \in {"host", "sync"}
    /\ tracker' = put_version(tracker, held[c])
    /\ held' = [held EXCEPT ![c] = NoVersion]
    /\ Goto(c, "out")
    /\ UNCHANGED <<pages, pte, ptLock, cpuOp, prevTlb, hw, refs, raced>>

\* The page-table walker caches a mapped page at any time the address space is
\* active on the CPU; the IOMMU does so at any time.
TlbFill(c, p) ==
    /\ held[c] # NoVersion /\ pte[p] = "Leaf" /\ p \notin tlb[c]
    /\ tlb' = [tlb EXCEPT ![c] = @ \cup {p}]
    /\ UNCHANGED <<pages, pte, ptLock, active, pc, cpuOp, iotlb, refs, raced>>

IotlbFill(p) ==
    /\ pte[p] = "Leaf" /\ p \notin iotlb
    /\ iotlb' = iotlb \cup {p}
    /\ UNCHANGED <<pages, pte, ptLock, active, pc, cpuOp, tlb, refs, raced>>

-----------------------------------------------------------------------------
(* Conversion and fences.                                                  *)

\* do_convert_pages reads the current version ...
ConvertBegin(c, S) ==
    /\ pc[c] = "host"
    /\ Goto(c, "convert")
    /\ arg' = [arg EXCEPT ![c] = S]
    /\ ver' = [ver EXCEPT ![c] = current_version(tracker)]
    /\ UNCHANGED <<pages, pte, ptLock, active, op, hw, refs, raced>>

\* ... invalidate_range takes the page-table lock and verifies the whole range ...
ConvertLock(c) ==
    /\ pc[c] = "convert" /\ PtUnlocked
    /\ \A p \in arg[c] : pte[p] = "Leaf" /\ is_mapped_page(pages, p, HostId, "Ram")
    /\ Goto(c, "invalid")
    /\ ptLock' = {c}
    /\ UNCHANGED <<pages, pte, active, cpuOp, hw, refs, raced>>

ConvertFail(c) ==
    /\ pc[c] = "convert" /\ PtUnlocked
    /\ \E p \in arg[c] : pte[p] # "Leaf" \/ ~is_mapped_page(pages, p, HostId, "Ram")
    /\ Return(c)
    /\ UNCHANGED <<pages, pte, ptLock, active, hw, refs, raced>>

\* ... and each page its iterator yields, just invalidated, starts conversion at
\* the version read first.  The iterator holds the lock until it is used up.
ConvertPage(c, p) ==
    /\ pc[c] = "invalid" /\ p \in arg[c]
    /\ pte' = [pte EXCEPT ![p] = "Invalidated"]
    /\ pages' = convert_page(pages, p, ver[c])
    /\ raced' = IF ver[c] < current_version(tracker) THEN raced \cup {p} ELSE raced
    /\ ptLock' = IF arg[c] = {p} THEN {} ELSE ptLock
    /\ Treated(c, p)
    /\ UNCHANGED <<active, hw, refs>>

\* initiate_fence: increment the version, fence the IOMMU, then sync_tlb().  It
\* fails, and nothing follows, while an earlier fence is incomplete.
FenceBegin(c) ==
    /\ pc[c] = "host"
    /\ CanIncrement(tracker) /\ current_version(tracker) < MaxVersion
    /\ tracker' = Increment(tracker)
    /\ Goto(c, "fence")
    /\ UNCHANGED <<pages, pte, ptLock, cpuOp, held, prevTlb, hw, refs, raced>>

\* Mutant: the IOMMU keeps its translations.
FenceIommuSkipped(c) ==
    /\ pc[c] = "fence"
    /\ Goto(c, "sync")
    /\ UNCHANGED <<pages, pte, ptLock, active, cpuOp, hw, refs, raced>>

FenceIommu(c) ==
    /\ pc[c] = "fence"
    /\ iotlb' = {}
    /\ Goto(c, "sync")
    /\ UNCHANGED <<pages, pte, ptLock, active, cpuOp, tlb, refs, raced>>

-----------------------------------------------------------------------------
(* Converted pages: locked for assignment to a guest or for reclaim.       *)

\* do_get_converted_pages reads the minimum version ...
LockBegin(c, S, o) ==
    /\ pc[c] = "host"
    /\ Goto(c, "lock")
    /\ op' = [op EXCEPT ![c] = o]
    /\ arg' = [arg EXCEPT ![c] = S]
    /\ ver' = [ver EXCEPT ![c] = min_version(tracker)]
    /\ UNCHANGED <<pages, pte, ptLock, active, hw, refs, raced>>

Lockable(c) ==
    \A p \in arg[c] : /\ pte[p] = "Invalidated"
                      /\ is_converted_page(pages, p, HostId, "Ram", ver[c])

\* ... and, under the page-table lock, verifies and locks the whole range.
LockPages(c) ==
    /\ pc[c] = "lock" /\ PtUnlocked
    /\ Lockable(c)
    /\ pages' = get_converted_pages(pages, arg[c])
    /\ Goto(c, "locked")
    /\ UNCHANGED <<pte, ptLock, active, cpuOp, hw, refs, raced>>

LockFail(c) ==
    /\ pc[c] = "lock" /\ PtUnlocked
    /\ ~Lockable(c)
    /\ Return(c)
    /\ UNCHANGED <<pages, pte, ptLock, active, hw, refs, raced>>

\* Mutant: the page is assigned from a list that was not locked.
AssignPageUnlocked(c, p, g, st) ==
    /\ pc[c] = "lock" /\ op[c] = "assign" /\ p \in arg[c] /\ pte[p] = "Invalidated"
    /\ pages' = assign_page(pages, p, g, st)
    /\ Treated(c, p)
    /\ UNCHANGED <<pte, ptLock, active, hw, refs, raced>>

\* A page of the list becomes a mapped page or an internal-state page of a guest
\* (tvm create, add_vcpu, add_page_table_pages, add_zero_pages, ...).
AssignPage(c, p, g, st) ==
    /\ pc[c] = "locked" /\ op[c] = "assign" /\ p \in arg[c]
    /\ pages' = assign_page(pages, p, g, st)
    /\ Treated(c, p)
    /\ UNCHANGED <<pte, ptLock, active, hw, refs, raced>>

\* Drop of the LockedPageList on an error path unlocks what is left on it.
UnlockPage(c, p) ==
    /\ pc[c] = "locked" /\ op[c] = "assign" /\ p \in arg[c]
    /\ pages' = unlock_page(pages, p)
    /\ Treated(c, p)
    /\ UNCHANGED <<pte, ptLock, active, hw, refs, raced>>

\* reclaim_pages: map_zero_pages locks the PTEs of the range ...
ReclaimLock(c) ==
    /\ pc[c] = "locked" /\ op[c] = "reclaim" /\ PtUnlocked
    /\ pte' = [p \in Page |-> IF p \in arg[c] THEN "LockedUnmapped" ELSE pte[p]]
    /\ Goto(c, "remap")
    /\ UNCHANGED <<pages, ptLock, active, cpuOp, hw, refs, raced>>

\* ... then each page is zeroed, reclaimed and mapped.
ReclaimPage(c, p) ==
    /\ pc[c] = "remap" /\ p \in arg[c] /\ PtUnlocked
    /\ pages' = reclaim_page(pages, p)
    /\ pte' = [pte EXCEPT ![p] = "Leaf"]
    /\ raced' = raced \ {p}
    /\ Treated(c, p)
    /\ UNCHANGED <<ptLock, active, hw, refs>>

-----------------------------------------------------------------------------
(* Sharing, and pages that come back.                                      *)

\* guest_add_shared_pages, pin_shared_pages, map_in_umode_slot: under the page-table
\* lock every page of the range must be mapped and shareable.
ShareRange(c, S, h) ==
    /\ pc[c] = "host" /\ PtUnlocked
    /\ \A p \in S : /\ pte[p] = "Leaf"
                    /\ is_shareable_page(pages, p, HostId, "Ram")
                    /\ h \notin refs[p]
    /\ pages' = share_pages(pages, S)
    /\ refs' = [p \in Page |-> IF p \in S THEN refs[p] \cup {h} ELSE refs[p]]
    /\ UNCHANGED <<pte, ptLock, active, pc, cpuOp, hw, raced>>

\* release_page_by_addr on a page the holder has a reference to: the pin is dropped,
\* the guest unshares the page or is destroyed.
Unshare(h, p) ==
    /\ h \in refs[p]
    /\ pages' = release_page_by_addr(pages, p)
    /\ refs' = [refs EXCEPT ![p] = @ \ {h}]
    /\ UNCHANGED <<pte, ptLock, active, pc, cpuOp, hw, raced>>

\* A guest gives a page back: it is destroyed, or has shared the page's region.
GuestRelease(g, p) ==
    /\ is_owned(pages, p, g)
    /\ pages' = release_page_by_addr(pages, p)
    /\ UNCHANGED <<pte, ptLock, active, pc, cpuOp, hw, refs, raced>>

-----------------------------------------------------------------------------
\* The address space becomes active or inactive on a CPU, or is used.
SpaceStep(c) ==
    \/ EnterSameVmid(c) \/ EnterNewVmid(c) \/ Leave(c)
    \/ \E p \in Page : TlbFill(c, p)

\* tvm convert_pages, initiate_fence and local_fence.
ConvertStep(c) ==
    \/ \E S \in PageRange : ConvertBegin(c, S)
    \/ ConvertLock(c) \/ ConvertFail(c)
    \/ \E p \in Page : ConvertPage(c, p)
    \/ FenceBegin(c) \/ FenceIommu(c)

\* The calls that take converted pages.
LockStep(c) ==
    \/ \E S \in PageRange, o \in {"assign", "reclaim"} : LockBegin(c, S, o)
    \/ LockPages(c) \/ LockFail(c)
    \/ \E p \in Page, g \in Guest, st \in {"Mapped", "VmState"} : AssignPage(c, p, g, st)
    \/ \E p \in Page : UnlockPage(c, p)
    \/ ReclaimLock(c)
    \/ \E p \in Page : ReclaimPage(c, p)

\* Steps that do not belong to a host vCPU.
OtherStep ==
    \/ \E p \in Page : IotlbFill(p)
    \/ \E p \in Page, h \in Holder : Unshare(h, p)
    \/ \E p \in Page, g \in Guest : GuestRelease(g, p)

Next ==
    \/ \E c \in Cpu : SpaceStep(c) \/ ConvertStep(c) \/ LockStep(c)
    \/ \E c \in Cpu, S \in PageRange, h \in Holder : ShareRange(c, S, h)
    \/ OtherStep

Spec == Init /\ [][Next]_vars

-----------------------------------------------------------------------------
(* Properties.                                                             *)

\* The variables have the types their comments state.
TypeOK ==
    /\ pages \in [Page -> PageInfoType]
    /\ pte \in [Page -> Pte]
    /\ ptLock \subseteq Cpu
    /\ tracker \in TlbTrackerType
    /\ pc \in [Cpu -> Pc]
    /\ op \in [Cpu -> {"assign", "reclaim"}]
    /\ arg \in [Cpu -> SUBSET Page]
    /\ ver \in [Cpu -> Nat]
    /\ held \in [Cpu -> Nat \cup {NoVersion}]
    /\ prevTlb \in [Cpu -> Nat \cup {NoVersion}]
    /\ tlb \in [Cpu -> SUBSET Page]
    /\ iotlb \subseteq Page
    /\ refs \in [Page -> SUBSET Holder]
    /\ raced \subseteq Page

\* The CPUs that have the address space active at version v.
Users(v) == {c \in Cpu : held[c] = v}

\* The tracker counts exactly the CPUs that use each version, no CPU uses a third
\* one, and so the put_version().unwrap() in the drop of ActiveVmPages cannot panic.
TlbRefCounts ==
    /\ tracker.current.count = Cardinality(Users(tracker.current.version))
    /\ tracker.prev # NoPrev =>
          /\ tracker.prev.version < tracker.current.version
          /\ tracker.prev.count = Cardinality(Users(tracker.prev.version))
    /\ \A c \in Cpu : held[c] # NoVersion => CanPutVersion(tracker, held[c])

\* The host may still be using the page: a page it owns, mapped, shared or with a
\* conversion that waits for a fence.
HostAccessible(p) ==
    /\ is_owned(pages, p, HostId)
    /\ pages[p].state \in {"Mapped", "Shared", "Converting"}

\* A CPU on which the host runs has no translation to a page that has completed
\* conversion, is assigned to a guest, or is being reclaimed, unless the page was
\* marked Converting at a version older than the one in which its PTE was
\* invalidated.
NoStaleHostTranslation ==
    \A c \in Cpu : held[c] # NoVersion =>
        \A p \in tlb[c] \ raced : HostAccessible(p)

\* The same for the host's devices, whose translations the IOMMU caches: the fence
\* reaches the IOMMU before the version that completes the conversion does.
NoStaleDma == \A p \in iotlb \ raced : HostAccessible(p)

\* What MEMORY.md promises: no CPU uses a stale translation, without exception.
NoStaleTranslationEver ==
    \A c \in Cpu : held[c] # NoVersion => \A p \in tlb[c] : HostAccessible(p)

\* A locked page is on the LockedPageList of exactly one operation, and every page
\* on such a list is locked.
LocksExclusive ==
    \A p \in Page :
        LET owners == {c \in Cpu : pc[c] \in {"locked", "remap"} /\ p \in arg[c]}
        IN  IF pages[p].state = "ConvertedLocked" THEN Cardinality(owners) = 1
                                                  ELSE owners = {}

\* The host's PTE is valid exactly for the pages it owns and has mapped or shared,
\* so a page of a guest is never reachable through the host's page table.
PteMatchesOwnership ==
    \A p \in Page : pte[p] = "Leaf" <=>
        is_owned(pages, p, HostId) /\ pages[p].state \in {"Mapped", "Shared"}

\* The unwrap()s after a check that was made earlier, or under a lock since dropped,
\* do not panic: in do_convert_pages, in assignment, in the drop of a
\* LockedPageList, in reclaim_pages (locking the PTEs, then each page) and in the
\* release of shared and of guest pages.
UnwrapsSucceed ==
    /\ \A c \in Cpu, p \in Page : p \in arg[c] =>
        /\ pc[c] = "invalid" => pte[p] = "Leaf" /\ CanBeginConversion(pages[p])
        /\ pc[c] = "locked" => /\ CanUnlock(pages[p])
                               /\ \A g \in Guest : can_assign_page(pages, p, g, "Mapped")
                               /\ pte[p] = "Invalidated"
        /\ pc[c] = "remap" => CanReclaim(pages[p]) /\ pte[p] = "LockedUnmapped"
    /\ \A p \in Page :
        /\ refs[p] # {} => can_release_page_by_addr(pages, p, HostId)
        /\ \A g \in Guest : is_owned(pages, p, g) => can_release_page_by_addr(pages, p, g)

\* The count of a shared page is the number of references to it; a page that has
\* references stays shared, and with it mapped in the host.
SharedCount ==
    \A p \in Page :
        IF pages[p].state = "Shared" THEN pages[p].arg = Cardinality(refs[p])
                                     ELSE refs[p] = {}

\* The minimum version never goes back, so a conversion that was complete stays so.
MinVersionMonotone == [][min_version(tracker) <= min_version(tracker')]_vars

\* A page goes from the host to a guest only out of the converted and locked state:
\* a mapped, shared or converting page is never assigned.
AssignOnlyConverted ==
    [][\A p \in Page : is_owned(pages, p, HostId) /\ ~is_owned(pages', p, HostId)
         => pages[p].state = "ConvertedLocked" /\ pte[p] = "Invalidated"]_vars

-----------------------------------------------------------------------------
(* The inductive invariant behind them, in named parts.                    *)

\* Every version in use is the current or the previous one, and is counted.
RefInv ==
    /\ tracker.current.count = Cardinality(Users(tracker.current.version))
    /\ tracker.prev # NoPrev =>
          /\ tracker.prev.version < tracker.current.version
          /\ tracker.prev.version \in Nat
          /\ tracker.prev.count > 0
          /\ tracker.prev.count = Cardinality(Users(tracker.prev.version))
    /\ \A c \in Cpu : held[c] \in {NoVersion, tracker.current.version, tracker.prev.version}

\* What the pc says of the versions a CPU holds and has read.
ActiveInv ==
    \A c \in Cpu :
        /\ held[c] = NoVersion <=> pc[c] = "out"
        /\ held[c] # NoVersion => prevTlb[c] = held[c]
        /\ prevTlb[c] <= tracker.current.version
        /\ pc[c] = "fence" => held[c] = tracker.prev.version
        /\ pc[c] \in {"convert", "invalid"} => ver[c] <= tracker.current.version
        /\ pc[c] = "lock" => ver[c] <= min_version(tracker)

\* The ownership chain of a page the host owns, and of one it assigned to a guest.
HostOwned(info) == Len(info.owners) = 1 /\ info.owners[1] = HostId
GuestOwned(info) ==
    Len(info.owners) = 2 /\ info.owners[1] = HostId /\ info.owners[2] \in Guest

\* The states a page of the host can be in, and the PTE that goes with each.
PageInv ==
    \A p \in Page :
        /\ pages[p].mem = "Ram"
        /\ \/ /\ HostOwned(pages[p])
              /\ pages[p].state \in {"Mapped", "Shared", "Converting", "Converted",
                                     "ConvertedLocked"}
           \/ /\ GuestOwned(pages[p])
              /\ pages[p].state \in {"Mapped", "VmState"}
        /\ pte[p] = "Leaf" <=> /\ HostOwned(pages[p])
                               /\ pages[p].state \in {"Mapped", "Shared"}
        /\ pages[p].state = "Converting" => pages[p].arg <= tracker.current.version

\* What an operation knows of the pages it works on.
OpInv ==
    /\ \A c \in Cpu : \A p \in arg[c] :
        /\ pc[c] = "invalid" => pte[p] = "Leaf" /\ pages[p].state = "Mapped"
        /\ pc[c] \in {"locked", "remap"} =>
              pages[p].state = "ConvertedLocked"
        /\ pc[c] = "locked" => pte[p] = "Invalidated"
        /\ pc[c] = "remap" => pte[p] = "LockedUnmapped"
    /\ \A c \in Cpu : pc[c] = "invalid" <=> c \in ptLock
    /\ \A c, d \in ptLock : c = d
    /\ \A c, d \in Cpu :
        /\ pc[c] \in {"locked", "remap"} /\ pc[d] \in {"locked", "remap"}
        /\ arg[c] \cap arg[d] # {}
        => c = d
    /\ \A p \in Page : pages[p].state = "ConvertedLocked" =>
        \E c \in Cpu : pc[c] \in {"locked", "remap"} /\ p \in arg[c]

\* A translation to an unmapped page is no newer than the version the page is
\* converting at, and older than every version in use once it is converted.
TlbInv ==
    \A c \in Cpu : \A p \in tlb[c] \ raced : pte[p] # "Leaf" =>
        IF pages[p].state = "Converting" THEN prevTlb[c] <= pages[p].arg
                                         ELSE prevTlb[c] < min_version(tracker)

\* The IOMMU has a translation to an unmapped page only if the page is converting at
\* the current version, or at the previous one while its fence is about to flush it.
IotlbInv ==
    \A p \in iotlb \ raced : pte[p] # "Leaf" =>
        /\ pages[p].state = "Converting"
        /\ \/ pages[p].arg = tracker.current.version
           \/ /\ pages[p].arg = tracker.prev.version
              /\ \E c \in Cpu : pc[c] = "fence"

IInv == TypeOK /\ RefInv /\ ActiveInv /\ PageInv /\ OpInv /\ SharedCount /\ TlbInv /\ IotlbInv
=============================================================================
