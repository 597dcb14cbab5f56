----------------------------- MODULE GuestMemory -----------------------------
(***************************************************************************)
(* The memory of a guest VM that runs: the host maps confidential and      *)
(* shared pages into it, its vCPUs convert regions between confidential    *)
(* and shared, and the host's fences complete the conversions, while the   *)
(* vCPUs enter and leave the address space (src/vm_pages.rs, src/vm.rs,    *)
(* src/vm_cpu.rs).                                                         *)
(*                                                                         *)
(* Gpa are the pages of the guest's address space, Frame the host's pages  *)
(* behind them.  The actors are the vCPUs, each running on some CPU or     *)
(* not, and the CPUs on which the host makes calls about the guest:        *)
(*                                                                         *)
(*   vCPU   "exited"   no CPU runs it                                      *)
(*          "guest"    it runs, or its next trap is about to be handled    *)
(*          "share"    share_mem_region_begin has verified the range       *)
(*          "zap"      ... and has read the TLB version                    *)
(*          "unzap"    unshare_mem_region_begin has verified the range     *)
(*          "return"   the region has its new type                         *)
(*          "exit"     the exit cause is known, ActiveVmCpu is dropped     *)
(*   host   "idle"     no call about this guest                            *)
(*          "mapzero", the PTE is locked for mapping the frame             *)
(*          "mapshared"                                                    *)
(*   both   "flushed"  no user of the previous version is left             *)
(*          "pending"  complete_pending_unassignment has read the minimum  *)
(*                     version                                             *)
(*          "complete" ... has the write lock and treats region by region  *)
(*                                                                         *)
(* The region list is a function from page to region type: how it is kept  *)
(* as a sorted list is not part of this module.  Conversion and reclaim of *)
(* the frames by the host are single steps here, see HostMemory.           *)
(***************************************************************************)
EXTENDS PageTracker, TlbTracker, FiniteSets

CONSTANTS
    Vcpu,           \* the vCPUs of the guest
    HostCpu,        \* CPUs on which the host makes calls about the guest
    NumGpas,        \* pages of the guest's address space
    NumFrames,      \* pages of the host that may be behind them
    MaxVersion      \* bound on the TLB version

ASSUME GuestMemoryAssumption ==
    /\ IsFiniteSet(Vcpu) /\ Vcpu # {}
    /\ IsFiniteSet(HostCpu)
    /\ Vcpu \cap HostCpu = {}
    /\ NumGpas \in Nat \ {0}
    /\ NumFrames \in Nat \ {0}
    /\ MaxVersion \in Nat

Gpa == 1..NumGpas
Frame == 1..NumFrames
GpaRange == {S \in SUBSET Gpa : \E a, b \in Gpa : a <= b /\ S = a..b}
Actor == Vcpu \cup HostCpu

\* The guest's PageOwnerId, and "no frame" in a PTE.
GuestId == 2
NoFrame == 0

VARIABLES
    alive,      \* the guest VM exists
    frames,     \* the page map of the page tracker
    region,     \* the type of the region that holds each page
    pte,        \* the guest-stage PTE of each page
    writer,     \* the actor that holds the region list's write lock, as a set
    readers,    \* the actors that hold its read lock
    tracker,    \* the TlbTracker of the guest's VmPages
    pc,         \* what the actor is doing
    range,      \* the pages the actor's call is about
    frame,      \* the frame a host CPU is about to map
    ver,        \* the TLB version the actor has read
    status,     \* the VmCpuStatus of each vCPU
    nextStatus, \* next_status of its StatusSet
    held,       \* tlb_version of its ActiveVmPages, or NoVersion
    prevTlb,    \* version its translations were last entered with
    tlb,        \* the translations tagged with its VMID
    raced       \* translations zapped at a version that was no longer current

vars == <<alive, frames, region, pte, writer, readers, tracker, pc, range, frame, ver,
          status, nextStatus, held, prevTlb, tlb, raced>>

Region(type, v) == [type |-> type, version |-> v]
RegionType ==
    [type : {"Confidential", "Shared"}, version : {0}]
      \cup [type : {"Sharing", "Unsharing"}, version : Nat]
Pending(g) == region[g].type \in {"Sharing", "Unsharing"}

Unused == [kind |-> "Unused", frame |-> NoFrame]
Locked == [kind |-> "LockedUnmapped", frame |-> NoFrame]
Leaf(f) == [kind |-> "Leaf", frame |-> f]
Invalidated(f) == [kind |-> "Invalidated", frame |-> f]
Pte == {Unused, Locked} \cup [kind : {"Leaf", "Invalidated"}, frame : Frame]

Runnable == [st |-> "Runnable", version |-> 0]
Running == [st |-> "Running", version |-> 0]
PoweredOff == [st |-> "PoweredOff", version |-> 0]
Blocked(v) == [st |-> "Blocked", version |-> v]
VmCpuStatus == {Runnable, Running, PoweredOff} \cup [st : {"Blocked"}, version : Nat]

\* The finalized guest: one vCPU is powered on, memory is confidential and still to
\* be populated from converted pages of the host.
Init ==
    /\ alive = TRUE
    /\ frames = [f \in Frame |-> [mem |-> "Ram", state |-> "Converted", arg |-> 0,
                                  owners |-> <<HostId>>]]
    /\ region = [g \in Gpa |-> Region("Confidential", 0)]
    /\ pte = [g \in Gpa |-> Unused]
    /\ writer = {} /\ readers = {}
    /\ tracker = TlbTrackerNew
    /\ pc = [a \in Actor |-> IF a \in Vcpu THEN "exited" ELSE "idle"]
    /\ range = [a \in Actor |-> {}]
    /\ frame = [h \in HostCpu |-> NoFrame]
    /\ ver = [a \in Actor |-> 0]
    /\ \E boot \in Vcpu :
          status = [k \in Vcpu |-> IF k = boot THEN Runnable ELSE PoweredOff]
    /\ nextStatus = [k \in Vcpu |-> Runnable]
    /\ held = [k \in Vcpu |-> NoVersion]
    /\ prevTlb = [k \in Vcpu |-> NoVersion]
    /\ tlb = [k \in Vcpu |-> {}]
    /\ raced = {}

space == <<frames, region, pte>>
locks == <<writer, readers>>
call == <<pc, range, frame, ver>>
active == <<held, prevTlb, tlb>>
Goto(a, label) == pc' = [pc EXCEPT ![a] = label]

\* Iterators over a range yield its pages in order.
First(S, g) == g \in S /\ \A x \in S : g <= x

-----------------------------------------------------------------------------
(* Running a vCPU.                                                         *)

\* activate() lets a vCPU run that is runnable, or blocked until a version that the
\* oldest user of the address space has reached.
Activatable(k) ==
    /\ alive /\ pc[k] = "exited"
    /\ \/ status[k] = Runnable
       \/ status[k].st = "Blocked" /\ status[k].version <= min_version(tracker)

Activate(k) ==
    /\ Activatable(k)
    /\ status' = [status EXCEPT ![k] = Running]
    /\ tracker' = get_version(tracker)
    /\ held' = [held EXCEPT ![k] = current_version(tracker)]
    /\ prevTlb' = [prevTlb EXCEPT ![k] = current_version(tracker)]
    /\ Goto(k, "guest")
    /\ UNCHANGED <<alive, space, locks, range, frame, ver, nextStatus, raced>>

\* Mutant: translations of an older version survive.
RunSameVmidNoFlush(k) ==
    /\ prevTlb[k] # NoVersion
    /\ Activate(k)
    /\ UNCHANGED tlb

\* ... on the CPU it ran on before, with the same VMID: flushed if it is behind.
RunSameVmid(k) ==
    /\ prevTlb[k] # NoVersion
    /\ Activate(k)
    /\ tlb' = IF prevTlb[k] < current_version(tracker)
              THEN [tlb EXCEPT ![k] = {}] ELSE tlb

\* ... or with a VMID just allocated, on which there are no translations.
RunNewVmid(k) ==
    /\ Activate(k)
    /\ tlb' = [tlb EXCEPT ![k] = {}]

TlbFill(k, g) ==
    /\ held[k] # NoVersion /\ pte[g].kind = "Leaf"
    /\ <<g, pte[g].frame>> \notin tlb[k]
    /\ tlb' = [tlb EXCEPT ![k] = @ \cup {<<g, pte[g].frame>>}]
    /\ UNCHANGED <<alive, space, locks, tracker, call, status, nextStatus, held, prevTlb,
                   raced>>

\* ActiveVmCpu::exit with a cause after which the vCPU has status st.
ExitWith(k, st) ==
    /\ Goto(k, "exit")
    /\ nextStatus' = [nextStatus EXCEPT ![k] = st]

\* A host interrupt or a forwarded call, or a fatal call or trap.
Exit(k, st) ==
    /\ pc[k] = "guest"
    /\ ExitWith(k, st)
    /\ UNCHANGED <<alive, space, locks, tracker, range, frame, ver, status, active, raced>>

\* HartStart for vCPU j, an exit that tells the host to run it.
HartStart(k, j) ==
    /\ pc[k] = "guest" /\ status[j] = PoweredOff
    /\ status' = [status EXCEPT ![j] = Runnable]
    /\ ExitWith(k, Runnable)
    /\ UNCHANGED <<alive, space, locks, tracker, range, frame, ver, active, raced>>

\* A page fault: the host may map a page of a confidential or shared region, but
\* in a region under conversion the address counts as unmapped, which is fatal.
PageFault(k, g) ==
    /\ pc[k] = "guest" /\ writer = {}
    /\ pte[g].kind # "Leaf" /\ \A f \in Frame : <<g, f>> \notin tlb[k]
    /\ ExitWith(k, IF Pending(g) THEN PoweredOff ELSE Runnable)
    /\ UNCHANGED <<alive, space, locks, tracker, range, frame, ver, status, active, raced>>

\* The end of a call: of the run of a vCPU, whose StatusSet is dropped last, or of
\* the host's.
EndCall(a) ==
    /\ Goto(a, IF a \in Vcpu THEN "exited" ELSE "idle")
    /\ status' = IF a \in Vcpu THEN [status EXCEPT ![a] = nextStatus[a]] ELSE status
    /\ nextStatus' = IF a \in Vcpu THEN [nextStatus EXCEPT ![a] = Runnable] ELSE nextStatus
    /\ ver' = [ver EXCEPT ![a] = 0]

\* Mutant: the completed flush is not noticed.
DropPagesOnly(k) ==
    /\ pc[k] = "exit"
    /\ tracker' = put_version(tracker, held[k])
    /\ held' = [held EXCEPT ![k] = NoVersion]
    /\ EndCall(k)
    /\ UNCHANGED <<alive, space, locks, range, frame, prevTlb, tlb, raced>>

\* Drop of ActiveVmPages: the last user of the previous version has pending
\* conversions to complete.
DropPages(k) ==
    /\ pc[k] = "exit"
    /\ tracker' = put_version(tracker, held[k])
    /\ held' = [held EXCEPT ![k] = NoVersion]
    /\ IF PutCompletesFlush(tracker, held[k])
       THEN Goto(k, "flushed") /\ UNCHANGED <<ver, status, nextStatus>>
       ELSE EndCall(k)
    /\ UNCHANGED <<alive, space, locks, range, frame, prevTlb, tlb, raced>>

-----------------------------------------------------------------------------
(* The guest converts a region to shared or back.                          *)

\* share_mem_region_begin: under the region list's write lock, the range must be
\* confidential and each page of it mapped or never populated.
ShareBegin(k, S) ==
    /\ pc[k] = "guest" /\ writer = {} /\ readers = {}
    /\ \A g \in S :
        /\ region[g].type = "Confidential"
        /\ \/ pte[g] = Unused
           \/ pte[g].kind = "Leaf" /\ is_mapped_page(frames, pte[g].frame, GuestId, "Ram")
    /\ writer' = {k}
    /\ range' = [range EXCEPT ![k] = S]
    /\ Goto(k, "share")
    /\ UNCHANGED <<alive, space, readers, tracker, frame, ver, status, nextStatus, active, raced>>

\* The current version is read before the iterator invalidates the first page.
ShareReadVersion(k) ==
    /\ pc[k] = "share"
    /\ ver' = [ver EXCEPT ![k] = current_version(tracker)]
    /\ Goto(k, "zap")
    /\ UNCHANGED <<alive, space, locks, tracker, range, frame, status, nextStatus, active, raced>>

Mapped(S) == {g \in S : pte[g].kind = "Leaf"}
Populated(S) == \E g \in S : pte[g].kind = "Invalidated"

ShareZap(k, g) ==
    /\ pc[k] = "zap" /\ First(Mapped(range[k]), g)
    /\ pte' = [pte EXCEPT ![g] = Invalidated(@.frame)]
    /\ frames' = unassign_page_begin(frames, pte[g].frame, ver[k])
    /\ raced' = IF ver[k] < current_version(tracker)
                THEN raced \cup {<<g, pte[g].frame>>} ELSE raced
    /\ UNCHANGED <<alive, region, locks, tracker, call, status, nextStatus, active>>

\* region.finish(): the region has its new type and the call returns the version at
\* which the conversion is complete.
Finish(k, type, populated, v, done) ==
    /\ region' = [g \in Gpa |-> IF g \notin range[k] THEN region[g]
                                ELSE IF populated THEN Region(type, v) ELSE Region(done, 0)]
    /\ ver' = [ver EXCEPT ![k] = IF populated THEN v + 1 ELSE min_version(tracker)]
    /\ writer' = {}
    /\ range' = [range EXCEPT ![k] = {}]
    /\ Goto(k, "return")
    /\ UNCHANGED <<alive, frames, pte, readers, tracker, frame, status, nextStatus, active, raced>>

ShareFinish(k) ==
    /\ pc[k] = "zap" /\ Mapped(range[k]) = {}
    /\ Finish(k, "Sharing", Populated(range[k]), ver[k], "Shared")

\* unshare_mem_region_begin: a shared range, populated only with pages of others.
IsForeignShared(f) == is_shared_page(frames, f, "Ram") /\ ~is_owned(frames, f, GuestId)

UnshareBegin(k, S) ==
    /\ pc[k] = "guest" /\ writer = {} /\ readers = {}
    /\ \A g \in S :
        /\ region[g].type = "Shared"
        /\ \/ pte[g] = Unused
           \/ pte[g].kind = "Leaf" /\ IsForeignShared(pte[g].frame)
    /\ writer' = {k}
    /\ range' = [range EXCEPT ![k] = S]
    /\ Goto(k, "unzap")
    /\ UNCHANGED <<alive, space, readers, tracker, frame, ver, status, nextStatus, active, raced>>

UnshareZap(k, g) ==
    /\ pc[k] = "unzap" /\ First(Mapped(range[k]), g)
    /\ pte' = [pte EXCEPT ![g] = Invalidated(@.frame)]
    /\ UNCHANGED <<alive, frames, region, locks, tracker, call, status, nextStatus, active, raced>>

\* Here the version is read when every page of the range is invalidated.
UnshareFinish(k) ==
    /\ pc[k] = "unzap" /\ Mapped(range[k]) = {}
    /\ Finish(k, "Unsharing", Populated(range[k]), current_version(tracker), "Confidential")

\* handle_tee_guest_msg: the vCPU is blocked if the version is still to come.
TeeReturn(k) ==
    /\ pc[k] = "return"
    /\ ExitWith(k, IF ver[k] > min_version(tracker) THEN Blocked(ver[k]) ELSE Runnable)
    /\ ver' = [ver EXCEPT ![k] = 0]
    /\ UNCHANGED <<alive, space, locks, tracker, range, frame, status, active, raced>>

-----------------------------------------------------------------------------
(* complete_pending_unassignment.                                          *)

CompleteReadVersion(a) ==
    /\ pc[a] = "flushed"
    /\ ver' = [ver EXCEPT ![a] = min_version(tracker)]
    /\ Goto(a, "pending")
    /\ UNCHANGED <<alive, space, locks, tracker, range, frame, status, nextStatus, active, raced>>

\* update_all: the regions that were pending at an older version.
CompleteLock(a) ==
    /\ pc[a] = "pending" /\ writer = {} /\ readers = {}
    /\ writer' = {a}
    /\ range' = [range EXCEPT ![a] = {g \in Gpa : Pending(g) /\ region[g].version < ver[a]}]
    /\ Goto(a, "complete")
    /\ UNCHANGED <<alive, space, readers, tracker, frame, ver, status, nextStatus, active, raced>>

\* share_mem_region_end and unshare_mem_region_end succeed if the PTE is clear, or
\* invalid and its page can be given back.
CanEnd(g) ==
    \/ pte[g] = Unused
    \/ /\ pte[g].kind = "Invalidated"
       /\ IF region[g].type = "Sharing"
          THEN is_unassignable_page(frames, pte[g].frame, GuestId, "Ram", min_version(tracker))
          ELSE IsForeignShared(pte[g].frame)

share_mem_region_end(g) == unassign_page_complete(frames, pte[g].frame)
unshare_mem_region_end(g) == release_page_by_addr(frames, pte[g].frame)

\* Mutant: the reference to a shared page is not dropped.
CompleteRegionKeepsRef(a, g) ==
    /\ pc[a] = "complete" /\ First(range[a], g)
    /\ IF CanEnd(g)
       THEN /\ region' = [region EXCEPT ![g] =
                  Region(IF @.type = "Sharing" THEN "Shared" ELSE "Confidential", 0)]
            /\ pte' = [pte EXCEPT ![g] = Unused]
            /\ frames' = IF pte[g] # Unused /\ region[g].type = "Sharing"
                         THEN share_mem_region_end(g) ELSE frames
       ELSE UNCHANGED space
    /\ range' = [range EXCEPT ![a] = @ \ {g}]
    /\ UNCHANGED <<alive, locks, tracker, pc, frame, ver, status, nextStatus, active, raced>>

\* The page goes back to the host, the PTE is cleared and the region has its type;
\* an error leaves the region pending.
CompleteRegion(a, g) ==
    /\ pc[a] = "complete" /\ First(range[a], g)
    /\ IF CanEnd(g)
       THEN /\ region' = [region EXCEPT ![g] =
                  Region(IF @.type = "Sharing" THEN "Shared" ELSE "Confidential", 0)]
            /\ pte' = [pte EXCEPT ![g] = Unused]
            /\ frames' = IF pte[g] = Unused THEN frames
                         ELSE IF region[g].type = "Sharing"
                         THEN share_mem_region_end(g) ELSE unshare_mem_region_end(g)
       ELSE UNCHANGED space
    /\ range' = [range EXCEPT ![a] = @ \ {g}]
    /\ UNCHANGED <<alive, locks, tracker, pc, frame, ver, status, nextStatus, active, raced>>

CompleteEnd(a) ==
    /\ pc[a] = "complete" /\ range[a] = {}
    /\ writer' = {}
    /\ EndCall(a)
    /\ UNCHANGED <<alive, space, readers, tracker, range, frame, active, raced>>

-----------------------------------------------------------------------------
(* The host's calls about the guest.                                       *)

\* guest_add_zero_pages, for one page: the converted frame is locked, the page must
\* lie in a confidential region and its PTE is locked, under the region list's read
\* lock which the mapper keeps.
AddZeroBegin(h, g, f) ==
    /\ alive /\ pc[h] = "idle" /\ writer = {}
    /\ is_converted_page(frames, f, HostId, "Ram", 0)
    /\ region[g].type = "Confidential" /\ pte[g].kind \in {"Unused", "Invalidated"}
    /\ frames' = get_converted_pages(frames, {f})
    /\ pte' = [pte EXCEPT ![g] = Locked]
    /\ readers' = readers \cup {h}
    /\ range' = [range EXCEPT ![h] = {g}]
    /\ frame' = [frame EXCEPT ![h] = f]
    /\ Goto(h, "mapzero")
    /\ UNCHANGED <<alive, region, writer, tracker, ver, status, nextStatus, active, raced>>

\* guest_add_shared_pages: the same for a shareable frame of the host, which keeps
\* its page-table lock, and a page in a shared region.
AddSharedBegin(h, g, f) ==
    /\ alive /\ pc[h] = "idle" /\ writer = {}
    /\ \A i \in HostCpu : pc[i] # "mapshared"
    /\ is_shareable_page(frames, f, HostId, "Ram")
    /\ region[g].type = "Shared" /\ pte[g].kind \in {"Unused", "Invalidated"}
    /\ pte' = [pte EXCEPT ![g] = Locked]
    /\ readers' = readers \cup {h}
    /\ range' = [range EXCEPT ![h] = {g}]
    /\ frame' = [frame EXCEPT ![h] = f]
    /\ Goto(h, "mapshared")
    /\ UNCHANGED <<alive, frames, region, writer, tracker, ver, status, nextStatus, active, raced>>

\* The frame is assigned or shared and mapped, and the mapper is dropped.
AddMap(h, g) ==
    /\ pc[h] \in {"mapzero", "mapshared"} /\ range[h] = {g}
    /\ frames' = IF pc[h] = "mapzero" THEN assign_page(frames, frame[h], GuestId, "Mapped")
                                      ELSE share_pages(frames, {frame[h]})
    /\ pte' = [pte EXCEPT ![g] = Leaf(frame[h])]
    /\ raced' = raced \ {<<g, frame[h]>>}
    /\ readers' = readers \ {h}
    /\ range' = [range EXCEPT ![h] = {}]
    /\ frame' = [frame EXCEPT ![h] = NoFrame]
    /\ Goto(h, "idle")
    /\ UNCHANGED <<alive, region, writer, tracker, ver, status, nextStatus, active>>

\* guest_initiate_fence: if no vCPU was at the old version, pending conversions are
\* completed at once.
InitiateFence(h) ==
    /\ alive /\ pc[h] = "idle"
    /\ CanIncrement(tracker) /\ current_version(tracker) < MaxVersion
    /\ tracker' = Increment(tracker)
    /\ Goto(h, IF IncrementCompletesFlush(tracker) THEN "flushed" ELSE "idle")
    /\ UNCHANGED <<alive, space, locks, range, frame, ver, status, nextStatus, active, raced>>

\* The host reclaims a converted frame, or converts a mapped one and fences itself.
HostReclaim(f) ==
    /\ is_converted_page(frames, f, HostId, "Ram", 0)
    /\ frames' = [frames EXCEPT ![f] = Reclaim(LockForAssignment(@))]
    /\ UNCHANGED <<alive, region, pte, locks, tracker, call, status, nextStatus, active, raced>>

\* Mutant: the host's page-table lock is not taken.
HostConvertUnlocked(f) ==
    /\ is_mapped_page(frames, f, HostId, "Ram")
    /\ frames' = [frames EXCEPT ![f] = CompleteConversion(BeginConversion(@, 0))]
    /\ UNCHANGED <<alive, region, pte, locks, tracker, call, status, nextStatus, active, raced>>

HostConvert(f) ==
    /\ \A h \in HostCpu : pc[h] # "mapshared"
    /\ is_mapped_page(frames, f, HostId, "Ram")
    /\ frames' = [frames EXCEPT ![f] = CompleteConversion(BeginConversion(@, 0))]
    /\ UNCHANGED <<alive, region, pte, locks, tracker, call, status, nextStatus, active, raced>>

\* destroy_guest, once nobody else refers to the guest: its page table gives every
\* page back that a valid or invalid PTE names, one PTE after the other.
Destroy ==
    /\ alive /\ \A a \in Actor : pc[a] \in {"exited", "idle"}
    /\ alive' = FALSE
    /\ UNCHANGED <<space, locks, tracker, call, status, nextStatus, active, raced>>

ReleasePage(g) ==
    /\ ~alive /\ pte[g].kind \in {"Leaf", "Invalidated"}
    /\ frames' = release_page_by_addr(frames, pte[g].frame)
    /\ pte' = [pte EXCEPT ![g] = Unused]
    /\ UNCHANGED <<alive, region, locks, tracker, call, status, nextStatus, active, raced>>

-----------------------------------------------------------------------------
RunStep(k) ==
    \/ RunSameVmid(k) \/ RunNewVmid(k) \/ DropPages(k)
    \/ \E g \in Gpa : TlbFill(k, g) \/ PageFault(k, g)
    \/ \E st \in {Runnable, PoweredOff} : Exit(k, st)
    \/ \E j \in Vcpu : HartStart(k, j)

ConvertStep(k) ==
    \/ \E S \in GpaRange : ShareBegin(k, S) \/ UnshareBegin(k, S)
    \/ ShareReadVersion(k) \/ ShareFinish(k) \/ UnshareFinish(k) \/ TeeReturn(k)
    \/ \E g \in Gpa : ShareZap(k, g) \/ UnshareZap(k, g)

CompleteStep(a) ==
    \/ CompleteReadVersion(a) \/ CompleteLock(a) \/ CompleteEnd(a)
    \/ \E g \in Gpa : CompleteRegion(a, g)

HostStep(h) ==
    \/ \E g \in Gpa, f \in Frame : AddZeroBegin(h, g, f) \/ AddSharedBegin(h, g, f)
    \/ \E g \in Gpa : AddMap(h, g)
    \/ InitiateFence(h)

FrameStep ==
    \/ \E f \in Frame : HostReclaim(f) \/ HostConvert(f)
    \/ Destroy
    \/ \E g \in Gpa : ReleasePage(g)

Next ==
    \/ \E k \in Vcpu : RunStep(k) \/ ConvertStep(k)
    \/ \E a \in Actor : CompleteStep(a)
    \/ \E h \in HostCpu : HostStep(h)
    \/ FrameStep

Spec == Init /\ [][Next]_vars

-----------------------------------------------------------------------------
(* Properties.                                                             *)

\* The variables have the types their comments state.
TypeOK ==
    /\ alive \in BOOLEAN
    /\ frames \in [Frame -> PageInfoType]
    /\ region \in [Gpa -> RegionType]
    /\ pte \in [Gpa -> Pte]
    /\ writer \subseteq Actor /\ readers \subseteq HostCpu
    /\ tracker \in TlbTrackerType
    /\ pc \in [Actor -> {"exited", "guest", "share", "zap", "unzap", "return", "exit", "idle",
                         "mapzero", "mapshared", "flushed", "pending", "complete"}]
    /\ range \in [Actor -> SUBSET Gpa]
    /\ frame \in [HostCpu -> Frame \cup {NoFrame}]
    /\ ver \in [Actor -> Nat]
    /\ status \in [Vcpu -> VmCpuStatus]
    /\ nextStatus \in [Vcpu -> VmCpuStatus]
    /\ held \in [Vcpu -> Nat \cup {NoVersion}]
    /\ prevTlb \in [Vcpu -> Nat \cup {NoVersion}]
    /\ tlb \in [Vcpu -> SUBSET (Gpa \X Frame)]
    /\ raced \subseteq Gpa \X Frame

\* The pages of the guest that still name frame f.
MappedAt(f) == {g \in Gpa : pte[g].kind \in {"Leaf", "Invalidated"} /\ pte[g].frame = f}

\* A vCPU that runs uses a translation only while the guest holds on to the frame: a
\* confidential page is not given back to the host, and a reference to a shared page
\* not dropped, before every vCPU has flushed it, unless it was zapped at a version
\* that was no longer current.
NoStaleGuestTranslation ==
    \A k \in Vcpu : held[k] # NoVersion =>
        \A t \in tlb[k] \ raced : t[1] \in MappedAt(t[2])

\* What a PTE names agrees with the type of its region: confidential memory is backed
\* by frames the guest owns, shared memory by shared frames of the host, and in a
\* region under conversion nothing is mapped.
PteMatchesRegion ==
    \A g \in Gpa : LET f == pte[g].frame IN
        \/ pte[g].frame = NoFrame
        \/ \E a \in writer : g \in range[a]
        \/ /\ pte[g].kind = "Leaf"
           /\ \/ region[g].type = "Confidential" /\ is_mapped_page(frames, f, GuestId, "Ram")
              \/ region[g].type = "Shared" /\ IsForeignShared(f)
        \/ /\ pte[g].kind = "Invalidated"
           /\ \/ /\ region[g].type = "Sharing"
                 /\ is_unassignable_page(frames, f, GuestId, "Ram", region[g].version + 1)
              \/ region[g].type = "Unsharing" /\ IsForeignShared(f)

\* A frame the guest owns is at exactly one of its pages, and the count of a shared
\* frame is the number of pages that name it.
FrameRefs ==
    \A f \in Frame :
        LET n == Cardinality(MappedAt(f)) IN
        IF is_owned(frames, f, GuestId) THEN n = 1
        ELSE IF IsShared(frames[f]) THEN n = frames[f].arg
        ELSE n = 0

\* The unwrap()s that follow an earlier check do not panic: put_version, unassignment
\* of a page just zapped, assignment and sharing for a locked PTE, completion, release
\* of the pages of a destroyed guest, and the assertion in the drop of StatusSet.
UnwrapsSucceed ==
    /\ \A k \in Vcpu :
        /\ held[k] # NoVersion => CanPutVersion(tracker, held[k])
        /\ pc[k] # "exited" => status[k] = Running
        /\ pc[k] = "zap" => \A g \in Mapped(range[k]) : CanBeginUnassignment(frames[pte[g].frame])
    /\ \A h \in HostCpu :
        /\ pc[h] = "mapzero" => can_assign_page(frames, frame[h], GuestId, "Mapped")
        /\ pc[h] = "mapshared" => is_shareable_page(frames, frame[h], HostId, "Ram")
        /\ pc[h] \in {"mapzero", "mapshared"} => \A g \in range[h] : pte[g] = Locked
    /\ \A g \in Gpa : pte[g].kind \in {"Leaf", "Invalidated"} =>
        can_release_page_by_addr(frames, pte[g].frame, GuestId)

\* complete_pending_unassignment ignores the errors of the calls that end a
\* conversion: there are none, so no region is left pending for good.
CompletionSucceeds ==
    \A a \in Actor : pc[a] = "complete" => \A g \in range[a] : CanEnd(g)

\* When the flush a region waits for is done, someone is on the way to complete it:
\* no wakeup is lost between put_version or increment and the region's new type.
NoLostCompletion ==
    \A g \in Gpa : Pending(g) /\ region[g].version < min_version(tracker) =>
        \/ ~alive
        \/ \E a \in Actor : \/ pc[a] = "flushed"
                            \/ pc[a] = "pending" /\ region[g].version < ver[a]
                            \/ pc[a] = "complete" /\ g \in range[a]

\* A blocked vCPU waits for a version that a single fence brings about.
BlockedReachable ==
    \A k \in Vcpu : status[k].st = "Blocked" => status[k].version <= current_version(tracker) + 1

\* Page table, regions and owners of pages agree in the middle of every operation, and every
\* frame has as many references as PTEs and handlers hold.
FramesAccounted == PteMatchesRegion /\ FrameRefs

\* No conversion is forgotten: its completion cannot fail, once its flush is done someone is on
\* the way to complete it, and what a vCPU is blocked for comes with the next fence.
ConversionsTracked == CompletionSucceeds /\ NoLostCompletion /\ BlockedReachable

-----------------------------------------------------------------------------
(* Liveness.                                                               *)

\* The hypervisor runs to completion: an actor inside a call takes its next step
\* unless it waits for a lock.
HypStep(a) ==
    \/ a \in Vcpu /\ \/ ShareReadVersion(a) \/ ShareFinish(a) \/ UnshareFinish(a)
                     \/ TeeReturn(a) \/ DropPages(a)
                     \/ \E g \in Gpa : ShareZap(a, g) \/ UnshareZap(a, g)
    \/ a \in HostCpu /\ \E g \in Gpa : AddMap(a, g)
    \/ CompleteReadVersion(a) \/ CompleteEnd(a)
    \/ \E g \in Gpa : CompleteRegion(a, g)

\* Besides, the lock of the region list is not withheld for ever from an actor that
\* spins on it, a vCPU that runs is interrupted some time for the host, and the
\* host, which is told of the conversion, fences some time when it can.
Fairness ==
    /\ \A a \in Actor : WF_vars(HypStep(a)) /\ SF_vars(CompleteLock(a))
    /\ \A k \in Vcpu : WF_vars(Exit(k, Runnable))
    /\ \A h \in HostCpu : SF_vars(InitiateFence(h))

FairSpec == Spec /\ Fairness

\* Every conversion completes, as long as the bound on the version allows a fence.
ConversionsComplete ==
    \A g \in Gpa : (Pending(g) /\ region[g].version < MaxVersion) ~> (~Pending(g) \/ ~alive)

\* Every vCPU that a conversion blocks can run again.
BlockedVcpuRuns ==
    \A k \in Vcpu :
        (status[k].st = "Blocked" /\ status[k].version <= MaxVersion)
          ~> (status[k].st # "Blocked" \/ Activatable(k) \/ ~alive)

\* Every conversion that a guest begins is completed, and its vCPU goes on.
ConversionsEnd == ConversionsComplete /\ BlockedVcpuRuns

=============================================================================
