---------------------------- MODULE VmRegionList ----------------------------
(***************************************************************************)
(* The region list of a VM's address space, src/vm_pages.rs: a sorted list *)
(* of at most MaxRegions regions [start, end), split when a part of one    *)
(* changes its type and coalesced afterwards.  The list is behind a lock,  *)
(* so an operation is one action, but for update() and the VmRegionUpdater *)
(* it returns, and for the rounds of update_all().                         *)
(***************************************************************************)
EXTENDS Integers, Sequences, SequencesExt

CONSTANTS
    NumAddrs,       \* pages of the address space
    MaxRegions,     \* MAX_MEM_REGIONS
    MaxVersion,     \* bound on the TLB version of a pending conversion
    MinLen          \* length of the shortest range a call may name

VmRegionListAssumption ==
    /\ NumAddrs \in Nat /\ MaxRegions \in Nat /\ MaxVersion \in Nat /\ MinLen \in {0, 1}

VARIABLES
    regions,    \* the list
    updater,    \* <<index, type>> of the VmRegionUpdater that exists, or <<>>
    all,        \* <<index, min_version>> of the update_all() that runs, or <<>>
    finalized,  \* whether the VM is finalized
    before,     \* history: the list before update()
    range       \* history: the range last named

vars == <<regions, updater, all, finalized, before, range>>

T(k) == [kind |-> k, version |-> 0]
Sharing(v) == [kind |-> "Sharing", version |-> v]
Unsharing(v) == [kind |-> "Unsharing", version |-> v]
Updating == T("Updating")

VmRegion(s, e, type) == [start |-> s, end |-> e, type |-> type]

Init ==
    /\ regions = <<>> /\ updater = <<>> /\ all = <<>> /\ finalized = FALSE
    /\ before = <<>> /\ range = <<0, 0>>

Idle == updater = <<>> /\ all = <<>>

\* The ranges a call may name.
Calls == {r \in (0..NumAddrs) \X (0..NumAddrs) : r[1] + MinLen <= r[2]}

-----------------------------------------------------------------------------
\* try_coalesce_at(i): the list, and the index of the coalesced region.
MergesWith(l, i, j) == l[i].end = l[j].start /\ l[i].type = l[j].type
MergePrev(l, i) ==
    IF i > 1 /\ MergesWith(l, i - 1, i)
    THEN [list |-> RemoveAt([l EXCEPT ![i - 1].end = l[i].end], i), at |-> i - 1]
    ELSE [list |-> l, at |-> i]
MergeNext(l, i) ==
    IF i < Len(l) /\ MergesWith(l, i, i + 1)
    THEN [list |-> RemoveAt([l EXCEPT ![i + 1].start = l[i].start], i), at |-> i]
    ELSE [list |-> l, at |-> i]
\* Mutant: looks at the region before, not at the one after.
try_coalesce_before(l, i) == MergePrev(l, i)
try_coalesce_at(l, i) ==
    LET m == MergePrev(l, i) IN MergeNext(m.list, m.at)

\* contains() and find().
contains(l, s, e, type) ==
    \E i \in DOMAIN l : l[i].start <= s /\ e <= l[i].end /\ l[i].type = type
find(l, a) ==
    LET i == SelectInSeq(l, LAMBDA r : r.start <= a /\ a < r.end)
    IN  IF i = 0 THEN T("None") ELSE l[i].type

-----------------------------------------------------------------------------
\* add(): behind the regions that start no later, if none of them nor the next one
\* overlaps.
AddRegion(s, e, type) ==
    LET at == 1 + Len(SelectSeq(regions, LAMBDA r : r.start <= s)) IN
    /\ Idle
    /\ \A i \in 1..at - 1 : regions[i].end <= s
    /\ at <= Len(regions) => regions[at].start >= e
    /\ Len(regions) < MaxRegions
    /\ regions' = try_coalesce_at(InsertAt(regions, at, VmRegion(s, e, type)), at).list
    /\ range' = <<s, e>>
    /\ UNCHANGED <<updater, all, finalized, before>>

\* Confidential and PCI regions are added to a VM that is not finalized, emulated MMIO
\* regions to one that is.  A PCI resource of the host is never empty.
AddConfidential(s, e) == ~finalized /\ AddRegion(s, e, T("Confidential"))
AddPci(s, e) == ~finalized /\ s < e /\ AddRegion(s, e, T("Pci"))
AddMmio(s, e) == finalized /\ AddRegion(s, e, T("Mmio"))

Finalize ==
    /\ ~finalized
    /\ finalized' = TRUE
    /\ UNCHANGED <<regions, updater, all, before, range>>

\* The parts of region r that are left of s and right of e.
LeftOf(r, s) == IF r.start < s THEN <<VmRegion(r.start, s, r.type)>> ELSE <<>>
RightOf(r, e) == IF e < r.end THEN <<VmRegion(e, r.end, r.type)>> ELSE <<>>
Splice(l, i, parts) == SubSeq(l, 1, i - 1) \o parts \o SubSeq(l, i + 1, Len(l))

\* The first region of the type that contains the range.
Lookup(s, e, type) ==
    SelectInSeq(regions, LAMBDA r : r.start <= s /\ e <= r.end /\ r.type = type)

\* remove(): needs room only if it splits the region in two.
RemoveMmio(s, e) ==
    LET i == Lookup(s, e, T("Mmio")) IN
    /\ Idle /\ finalized /\ i # 0
    /\ ~(regions[i].start < s /\ e < regions[i].end /\ Len(regions) = MaxRegions)
    /\ regions' = Splice(regions, i, LeftOf(regions[i], s) \o RightOf(regions[i], e))
    /\ range' = <<s, e>>
    /\ UNCHANGED <<updater, all, finalized, before>>

\* update(): splits the region, if there is room, and marks the range.
Update(s, e, type) ==
    LET i == Lookup(s, e, type)
        left == LeftOf(regions[i], s)
        right == RightOf(regions[i], e)
    IN
    /\ Idle /\ finalized /\ i # 0
    /\ Len(regions) + Len(left) + Len(right) <= MaxRegions
    /\ regions' = Splice(regions, i, left \o <<VmRegion(s, e, Updating)>> \o right)
    /\ updater' = <<i + Len(left), type>>
    /\ before' = regions
    /\ range' = <<s, e>>
    /\ UNCHANGED <<all, finalized>>

\* finish(type), or the drop without it, which reverts to the updater's type.
DropUpdater(type) ==
    /\ regions' = try_coalesce_at([regions EXCEPT ![updater[1]].type = type], updater[1]).list
    /\ updater' = <<>> /\ before' = <<>>
    /\ UNCHANGED <<all, finalized, range>>

Revert == updater # <<>> /\ DropUpdater(updater[2])

\* What share_mem_region_begin and unshare_mem_region_begin finish with.
FinishShare(v) ==
    /\ updater # <<>> /\ updater[2] = T("Confidential")
    /\ DropUpdater(Sharing(v)) \/ DropUpdater(T("Shared"))
FinishUnshare(v) ==
    /\ updater # <<>> /\ updater[2] = T("Shared")
    /\ DropUpdater(Unsharing(v)) \/ DropUpdater(T("Confidential"))

\* update_all() in complete_pending_unassignment: a pending region of a version older
\* than the minimum has its conversion ended, unless that fails.
UpdateAllBegin(min) ==
    /\ Idle /\ finalized
    /\ all' = <<1, min>>
    /\ UNCHANGED <<regions, updater, finalized, before, range>>

Ended(type) == IF type.kind = "Sharing" THEN T("Shared") ELSE T("Confidential")

UpdateAllStep(ok) ==
    /\ all # <<>> /\ all[1] <= Len(regions)
    /\ LET i == all[1]
           r == regions[i]
           new == try_coalesce_at([regions EXCEPT ![i].type = Ended(r.type)], i)
       IN IF ok /\ r.type.kind \in {"Sharing", "Unsharing"} /\ r.type.version < all[2]
          THEN /\ regions' = new.list
               /\ all' = <<new.at + 1, all[2]>>
               /\ range' = <<r.start, r.end>>
          ELSE /\ all' = <<i + 1, all[2]>>
               /\ UNCHANGED <<regions, range>>
    /\ UNCHANGED <<updater, finalized, before>>

UpdateAllEnd ==
    /\ all # <<>> /\ all[1] > Len(regions)
    /\ all' = <<>>
    /\ UNCHANGED <<regions, updater, finalized, before, range>>

Next ==
    \/ \E r \in Calls :
        \/ AddConfidential(r[1], r[2]) \/ AddPci(r[1], r[2])
        \/ AddMmio(r[1], r[2]) \/ RemoveMmio(r[1], r[2])
        \/ Update(r[1], r[2], T("Confidential")) \/ Update(r[1], r[2], T("Shared"))
    \/ Finalize
    \/ Revert
    \/ \E v \in 0..MaxVersion : FinishShare(v) \/ FinishUnshare(v)
    \/ \E min \in 0..MaxVersion + 1 : UpdateAllBegin(min)
    \/ \E ok \in BOOLEAN : UpdateAllStep(ok)
    \/ UpdateAllEnd

Spec == Init /\ [][Next]_vars

-----------------------------------------------------------------------------
(* Properties.                                                             *)

\* The list never outgrows its ArrayVec, it is sorted and its regions are disjoint,
\* and the one an updater refers to is the only one marked Updating.
WellFormed ==
    /\ Len(regions) <= MaxRegions
    /\ \A i \in DOMAIN regions : regions[i].start + MinLen <= regions[i].end
    /\ \A i, j \in DOMAIN regions : i < j => regions[i].end <= regions[j].start
    /\ \A i \in DOMAIN regions :
        regions[i].type = Updating <=> updater # <<>> /\ updater[1] = i

\* Pages s, ..., e - 1 all have the type.
AllHave(s, e, type) == \A a \in s..e - 1 : find(regions, a) = type

\* contains() finds every range whose pages all have the type, however the regions
\* around it were added, split and merged; mapping and conversion depend on it.
ContainsExact ==
    Idle => \A s, e \in 0..NumAddrs, k \in {"Confidential", "Shared", "Mmio"} :
        s < e => (contains(regions, s, e, T(k)) <=> AllHave(s, e, T(k)))

\* "If the returned VmRegionUpdater is dropped before calling finish(), the region
\* returns to its previous type", and the list is split nowhere it was not before.
RevertRestores == [][Revert => regions' = before]_vars

\* The list implements the map from page to type: add, remove, finish and update_all
\* retype exactly the pages they name, whatever is split and merged on the way; a page under update has the type
\* the updater would revert to.
Abs == INSTANCE RegionMap WITH
    kind <- [a \in 0..NumAddrs - 1 |->
                LET t == find(regions, a) IN IF t = Updating THEN updater[2] ELSE t]
ImplementsRegionMap == Abs!Spec
=============================================================================
