-------------------------- MODULE HostMemoryProofs --------------------------
(***************************************************************************)
(* Proofs about HostMemory, for any number of CPUs, pages, guests and      *)
(* holders, and any bound on the TLB version.                              *)
(***************************************************************************)
EXTENDS HostMemory, TLAPS, FiniteSetTheorems, SequenceTheorems

-----------------------------------------------------------------------------
(* The operators on PageInfo and the tracker.                              *)

\* Sequences of one and two owners.
LEMMA ShortOwnerVec ==
    ASSUME NEW o \in Seq(Nat), Len(o) <= 2
    PROVE  o \in PageOwnerVec
BY DEF PageOwnerVec, PageOwnerId, MAX_PAGE_OWNERS

\* Appending an owner to a chain of one makes a chain of two that keeps the first.
LEMMA AppendSecondOwner ==
    ASSUME NEW o \in Seq(Nat), NEW g \in Nat, Len(o) = 1
    PROVE  /\ Append(o, g) \in PageOwnerVec
           /\ Len(Append(o, g)) = 2
           /\ Append(o, g)[1] = o[1]
           /\ Append(o, g)[2] = g
<1>1. Append(o, g) \in Seq(Nat)
  BY AppendProperties
<1>2. Len(Append(o, g)) = Len(o) + 1
  BY AppendProperties
<1>3. Append(o, g)[Len(o) + 1] = g
  BY AppendProperties
<1>4. Append(o, g)[1] = o[1]
  OBVIOUS
<1>5. Len(Append(o, g)) = 2 /\ Append(o, g)[2] = g
  BY <1>2, <1>3
<1>6. Append(o, g) \in PageOwnerVec
  BY <1>1, <1>5, ShortOwnerVec, 2 <= 2
<1>. QED
  BY <1>4, <1>5, <1>6

\* Releasing a page that the host assigned to a guest returns it, Converted, to the
\* host (PageInfo::release).
LEMMA ReleaseGuestPage ==
    ASSUME NEW info \in PageInfoType, GuestOwned(info), info.state \in {"Mapped", "VmState"}
    PROVE  /\ CanRelease(info)
           /\ Release(info) \in PageInfoType
           /\ Release(info).mem = info.mem
           /\ Release(info).state = "Converted"
           /\ HostOwned(Release(info))
<1> DEFINE o == info.owners
<1>1. o \in Seq(Nat) /\ Len(o) = 2 /\ o[1] = HostId
  BY DEF PageInfoType, PageOwnerVec, PageOwnerId, GuestOwned
<1>2. /\ PopOwner(o) \in Seq(Nat)
      /\ Len(PopOwner(o)) = 1
      /\ PopOwner(o)[1] = HostId
  BY <1>1 DEF PopOwner
<1>3. ~IsShared(info)
  BY DEF IsShared
<1>4. PopOwner(o) \in PageOwnerVec
  BY <1>2, ShortOwnerVec, 1 <= 2
<1>5. o # <<>>
  BY <1>1
<1>6. Release(info) = [mem |-> info.mem, state |-> "Converted", arg |-> 0,
                       owners |-> PopOwner(o)]
  BY <1>3 DEF Release, WithState, PageInfoType
<1>. QED
  BY <1>2, <1>4, <1>5, <1>6 DEF CanRelease, PageInfoType, PageState, HostOwned

\* Assigning a locked page of the host appends the guest to the ownership chain
\* (PageInfo::assign).
LEMMA AssignHostPage ==
    ASSUME NEW info \in PageInfoType, NEW g \in Guest, NEW st \in {"Mapped", "VmState"},
           HostOwned(info), info.state = "ConvertedLocked"
    PROVE  /\ CanAssign(info, g, st)
           /\ Assign(info, g, st) \in PageInfoType
           /\ Assign(info, g, st).mem = info.mem
           /\ Assign(info, g, st).state = st
           /\ GuestOwned(Assign(info, g, st))
<1> DEFINE o == info.owners
           a == Append(o, g)
<1>1. o \in Seq(Nat) /\ Len(o) = 1 /\ o[1] = HostId /\ g \in Nat
  BY HostMemoryAssumption DEF PageInfoType, PageOwnerVec, PageOwnerId, HostOwned
<1>2. a \in PageOwnerVec /\ Len(a) = 2 /\ a[1] = HostId /\ a[2] = g
  BY <1>1, AppendSecondOwner
<1>3. info.state # "Free"
  OBVIOUS
<1>4. Assign(info, g, st) = [mem |-> info.mem, state |-> st, arg |-> 0, owners |-> a]
  BY <1>3 DEF Assign, WithState, PageInfoType
<1>. QED
  BY <1>1, <1>2, <1>3, <1>4
  DEF CanAssign, MAX_PAGE_OWNERS, PageInfoType, PageState, GuestOwned

\* The owner of a page is the end of its chain (PageInfo::owner).
LEMMA OwnerOfPage ==
    ASSUME NEW info \in PageInfoType, info.state \notin {"Reserved", "Free", "HypState"}
    PROVE  /\ HostOwned(info) => Owner(info) = HostId
           /\ GuestOwned(info) => Owner(info) \in Guest /\ Owner(info) # HostId
BY HostMemoryAssumption
DEF Owner, HostOwned, GuestOwned, PageInfoType, PageOwnerVec, PageOwnerId, HostId

\* A new state does not change the owners or the type of memory.
LEMMA WithStateFields ==
    ASSUME NEW info \in PageInfoType, NEW st \in PageState, NEW n \in Nat
    PROVE  /\ WithState(info, st, n) \in PageInfoType
           /\ WithState(info, st, n).mem = info.mem
           /\ WithState(info, st, n).state = st
           /\ WithState(info, st, n).arg = n
           /\ WithState(info, st, n).owners = info.owners
BY DEF WithState, PageInfoType

\* A change of state keeps memory type and owners.
LEMMA WithStateKeeps ==
    ASSUME NEW info \in PageInfoType, NEW st, NEW n
    PROVE  /\ WithState(info, st, n).mem = info.mem
           /\ WithState(info, st, n).state = st
           /\ WithState(info, st, n).arg = n
           /\ WithState(info, st, n).owners = info.owners
BY DEF WithState, PageInfoType

\* Sharing a page adds a reference and releasing a shared page takes one away; the
\* last one makes it a mapped page again (PageInfo::share, PageInfo::release).
LEMMA ShareFields ==
    ASSUME NEW info \in PageInfoType
    PROVE  /\ Share(info) \in PageInfoType
           /\ Share(info).mem = info.mem
           /\ Share(info).state = "Shared"
           /\ Share(info).arg = IF info.state = "Shared" THEN info.arg + 1 ELSE 1
           /\ Share(info).owners = info.owners
<1> DEFINE n == IF IsShared(info) THEN info.arg + 1 ELSE 1
<1>1. n \in Nat
  BY DEF PageInfoType
<1>2. Share(info) = WithState(info, "Shared", n)
  BY DEF Share
<1>3. "Shared" \in PageState
  BY DEF PageState
<1>. HIDE DEF n
<1>4. /\ Share(info) \in PageInfoType
      /\ Share(info).mem = info.mem
      /\ Share(info).state = "Shared"
      /\ Share(info).arg = n
      /\ Share(info).owners = info.owners
  BY <1>1, <1>2, <1>3, WithStateFields
<1>. QED
  BY <1>4 DEF n, IsShared

\* Releasing a shared page takes one reference; the last one makes it a mapped page again.
LEMMA ReleaseShared ==
    ASSUME NEW info \in PageInfoType, info.state = "Shared", info.arg # 0
    PROVE  /\ CanRelease(info)
           /\ Release(info) \in PageInfoType
           /\ Release(info).mem = info.mem
           /\ Release(info).state = IF info.arg = 1 THEN "Mapped" ELSE "Shared"
           /\ Release(info).arg = info.arg - 1
           /\ Release(info).owners = info.owners
<1>1. info.arg \in Nat /\ info.arg - 1 \in Nat /\ 0 \in Nat
  BY DEF PageInfoType
<1>2. {"Mapped", "Shared"} \subseteq PageState
  BY DEF PageState
<1>3. CASE info.arg = 1
  <2>1. Release(info) = WithState(info, "Mapped", 0)
    BY <1>3 DEF Release, IsShared
  <2>. QED
    BY <1>1, <1>2, <1>3, <2>1, WithStateFields DEF CanRelease, IsShared
<1>4. CASE info.arg # 1
  <2>1. Release(info) = WithState(info, "Shared", info.arg - 1)
    BY <1>4 DEF Release, IsShared
  <2>2. CanRelease(info)
    BY <1>1 DEF CanRelease, IsShared
  <2>3. info.arg - 1 \in Nat /\ "Shared" \in PageState
    BY <1>1, <1>2
  <2>4. /\ Release(info) \in PageInfoType
        /\ Release(info).mem = info.mem
        /\ Release(info).state = "Shared"
        /\ Release(info).arg = info.arg - 1
        /\ Release(info).owners = info.owners
    BY <2>1, <2>3, WithStateFields
  <2>. QED
    BY <1>4, <2>2, <2>4
<1>. QED
  BY <1>3, <1>4

\* What each tracker operation does to the versions and to the counts.
LEMMA GetVersionFields ==
    ASSUME NEW t \in TlbTrackerType
    PROVE  /\ get_version(t) \in TlbTrackerType
           /\ get_version(t).current.version = t.current.version
           /\ get_version(t).current.count = t.current.count + 1
           /\ get_version(t).prev = t.prev
           /\ min_version(get_version(t)) = min_version(t)
BY DEF get_version, TlbTrackerType, min_version

\* What the increment of a fence does to current and previous version.
LEMMA IncrementFields ==
    ASSUME NEW t \in TlbTrackerType
    PROVE  /\ Increment(t) \in TlbTrackerType
           /\ Increment(t).current.version = t.current.version + 1
           /\ Increment(t).current.count = 0
           /\ Increment(t).prev = IF t.current.count # 0 THEN t.current ELSE NoPrev
BY DEF Increment, TlbTrackerType

\* What giving up a version does to the counts; the last user of the previous version ends the fence.
LEMMA PutVersionFields ==
    ASSUME NEW t \in TlbTrackerType, NEW v \in Nat, CanPutVersion(t, v)
    PROVE  /\ put_version(t, v) \in TlbTrackerType
           /\ put_version(t, v).current.version = t.current.version
           /\ put_version(t, v).current.count =
                 IF v = t.current.version THEN t.current.count - 1 ELSE t.current.count
           /\ v = t.current.version => put_version(t, v).prev = t.prev
           /\ v # t.current.version /\ t.prev.count = 1 =>
                 put_version(t, v).prev = NoPrev
           /\ v # t.current.version /\ t.prev.count # 1 =>
                 /\ put_version(t, v).prev # NoPrev
                 /\ put_version(t, v).prev.version = t.prev.version
                 /\ put_version(t, v).prev.count = t.prev.count - 1
BY DEF put_version, PutCompletesFlush, CanPutVersion, TlbTrackerType, NoPrev, NoVersion

-----------------------------------------------------------------------------
(* What the inductive invariant says of a single page or CPU.              *)

\* A page that has a holder is shared, and its count is positive.
LEMMA HolderMeansShared ==
    ASSUME TypeOK, SharedCount, NEW p \in Page, NEW h \in refs[p]
    PROVE  /\ pages[p].state = "Shared"
           /\ pages[p].arg = Cardinality(refs[p])
           /\ pages[p].arg \in Nat \ {0}
           /\ IsFiniteSet(refs[p])
<1>1. refs[p] \subseteq Holder
  BY DEF TypeOK
<1>2. IsFiniteSet(refs[p])
  BY <1>1, FS_Subset, HostMemoryAssumption
<1>3. Cardinality(refs[p]) # 0
  BY <1>2, FS_EmptySet
<1>4. Cardinality(refs[p]) \in Nat
  BY <1>2, FS_CardinalityType
<1>. QED
  BY <1>2, <1>3, <1>4 DEF SharedCount

\* A page is owned by the host or by a guest according to its chain.
LEMMA PageOwner ==
    ASSUME TypeOK, PageInv, NEW p \in Page
    PROVE  /\ is_owned(pages, p, HostId) <=> HostOwned(pages[p])
           /\ \A g \in Guest : is_owned(pages, p, g) => GuestOwned(pages[p])
           /\ HostOwned(pages[p]) => ~GuestOwned(pages[p])
<1>1. pages[p] \in PageInfoType
  BY DEF TypeOK
<1>2. pages[p].state \notin {"Reserved", "Free", "HypState"}
  BY DEF PageInv
<1>3. HostOwned(pages[p]) \/ GuestOwned(pages[p])
  BY DEF PageInv
<1>4. HostId \notin Guest
  BY HostMemoryAssumption
<1>. QED
  BY <1>1, <1>2, <1>3, <1>4, OwnerOfPage DEF is_owned, HostOwned, GuestOwned

\* No version in use is older than the minimum version.
LEMMA HeldNotBelowMin ==
    ASSUME TypeOK, RefInv, NEW c \in Cpu, held[c] # NoVersion
    PROVE  /\ held[c] \in Nat
           /\ min_version(tracker) \in Nat
           /\ min_version(tracker) <= held[c]
           /\ held[c] <= tracker.current.version
<1>1. held[c] \in Nat
  BY DEF TypeOK
<1>2. tracker.current.version \in Nat
  BY DEF TypeOK, TlbTrackerType
<1>3. CASE tracker.prev = NoPrev
  BY <1>1, <1>2, <1>3 DEF RefInv, NoPrev, min_version
<1>4. CASE tracker.prev # NoPrev
  BY <1>1, <1>2, <1>4 DEF RefInv, min_version
<1>. QED
  BY <1>3, <1>4

\* A previous version without a reference is forgotten.
LEMMA NoReferenceNoPrev ==
    ASSUME RefInv, tracker.prev.count = 0
    PROVE  tracker.prev = NoPrev
BY DEF RefInv

\* A previous version has users and is below the current one.
LEMMA PrevBelow ==
    ASSUME RefInv, tracker.prev # NoPrev
    PROVE  /\ tracker.prev.version < tracker.current.version
           /\ tracker.prev.version \in Nat
           /\ tracker.prev.count > 0
BY DEF RefInv

\* A page on a LockedPageList is locked, and its PTE says how far the list has come.
LEMMA ListedPage ==
    ASSUME OpInv, NEW c \in Cpu, NEW p \in arg[c], pc[c] \in {"locked", "remap"}
    PROVE  /\ pages[p].state = "ConvertedLocked"
           /\ pc[c] = "locked" => pte[p] = "Invalidated"
           /\ pc[c] = "remap" => pte[p] = "LockedUnmapped"
BY DEF OpInv

\* The host owns a locked page.
LEMMA LockedPageOwner ==
    ASSUME PageInv, NEW p \in Page, pages[p].state = "ConvertedLocked"
    PROVE  HostOwned(pages[p])
BY DEF PageInv

\* A version that is not newer than another is not newer than any after that one.
LEMMA NoNewerThan ==
    ASSUME NEW u \in Nat, NEW v \in Nat, NEW w \in Nat, u <= v, v <= w
    PROVE  u <= w
OBVIOUS

\* Every CPU that has the address space active is counted.
LEMMA UserCounted ==
    ASSUME TypeOK, RefInv, NEW c \in Cpu, held[c] # NoVersion
    PROVE  /\ CanPutVersion(tracker, held[c])
           /\ held[c] # tracker.current.version => tracker.prev # NoPrev
<1> DEFINE U == Users(held[c])
<1>1. IsFiniteSet(U) /\ c \in U
  BY FS_Subset, HostMemoryAssumption DEF Users
<1>2. Cardinality(U) \in Nat /\ Cardinality(U) # 0
  BY <1>1, FS_EmptySet, FS_CardinalityType
<1>3. CASE held[c] = tracker.current.version
  BY <1>2, <1>3 DEF RefInv, CanPutVersion
<1>4. CASE held[c] # tracker.current.version
  <2>1. held[c] = tracker.prev.version /\ tracker.prev # NoPrev
    BY <1>4 DEF RefInv, NoPrev
  <2>. QED
    BY <1>2, <1>4, <2>1 DEF RefInv, CanPutVersion
<1>. QED
  BY <1>3, <1>4

-----------------------------------------------------------------------------
(* Each part of the invariant is preserved by every step.                  *)

\* How an operation's scratch state changes keeps its type (Return and Treated).
LEMMA ScratchType ==
    ASSUME TypeOK, NEW c \in Cpu, NEW p \in Page, Return(c) \/ Treated(c, p)
    PROVE  /\ pc' \in [Cpu -> Pc]
           /\ op' \in [Cpu -> {"assign", "reclaim"}]
           /\ arg' \in [Cpu -> SUBSET Page]
           /\ ver' \in [Cpu -> Nat]
BY DEF TypeOK, Return, Treated, Goto, Pc

\* A range is a set of pages.
LEMMA PageRangeType ==
    ASSUME NEW S \in PageRange
    PROVE  S \subseteq Page
BY DEF PageRange

\* min_version is a version.
LEMMA MinVersionType ==
    ASSUME NEW t \in TlbTrackerType
    PROVE  min_version(t) \in Nat
BY DEF TlbTrackerType, min_version, NoPrev

\* The type invariant is preserved.
LEMMA TypeStep ==
    ASSUME IInv, [Next]_vars
    PROVE  TypeOK'
<1>0. TypeOK /\ RefInv /\ PageInv /\ OpInv /\ SharedCount
  BY DEF IInv
<1>1. CASE UNCHANGED vars
  BY <1>0, <1>1 DEF TypeOK, vars
<1>2. ASSUME NEW c \in Cpu, EnterSameVmid(c) \/ EnterNewVmid(c)
      PROVE  TypeOK'
  <2>1. tracker' \in TlbTrackerType /\ current_version(tracker) \in Nat
    <3>1. tracker \in TlbTrackerType
      BY <1>0 DEF TypeOK
    <3>2. tracker' = get_version(tracker)
      BY <1>2 DEF EnterSameVmid, EnterNewVmid
    <3>3. tracker' \in TlbTrackerType
      BY <3>1, <3>2, GetVersionFields
    <3>4. current_version(tracker) \in Nat
      BY <3>1 DEF current_version, TlbTrackerType
    <3>. QED
      BY <3>3, <3>4
  <2>. QED
    BY <1>0, <1>2, <2>1
    DEF TypeOK, EnterSameVmid, EnterNewVmid, Goto, Pc, cpuOp
<1>3. ASSUME NEW c \in Cpu, Leave(c)
      PROVE  TypeOK'
  <2>1. ASSUME held[c] # NoVersion
        PROVE  tracker' \in TlbTrackerType
    BY <1>0, <1>3, <2>1, UserCounted, HeldNotBelowMin, PutVersionFields DEF TypeOK, Leave
  <2>2. held[c] # NoVersion
    BY <1>3 DEF IInv, ActiveInv, Leave
  <2>. QED
    BY <1>0, <1>3, <2>1, <2>2 DEF TypeOK, Leave, Goto, Pc, cpuOp, hw
<1>4. ASSUME NEW c \in Cpu, NEW p \in Page, TlbFill(c, p)
      PROVE  TypeOK'
  BY <1>0, <1>4 DEF TypeOK, TlbFill, active, cpuOp
<1>5. ASSUME NEW p \in Page, IotlbFill(p)
      PROVE  TypeOK'
  BY <1>0, <1>5 DEF TypeOK, IotlbFill, active, cpuOp
<1>6. ASSUME NEW c \in Cpu, NEW S \in PageRange, ConvertBegin(c, S)
      PROVE  TypeOK'
  BY <1>0, <1>6, PageRangeType
  DEF TypeOK, ConvertBegin, Goto, Pc, active, hw, current_version, TlbTrackerType
<1>7. ASSUME NEW c \in Cpu, ConvertLock(c)
      PROVE  TypeOK'
  BY <1>0, <1>7 DEF TypeOK, ConvertLock, Goto, Pc, active, cpuOp, hw
<1>8. ASSUME NEW c \in Cpu, ConvertFail(c) \/ LockFail(c)
      PROVE  TypeOK'
  BY <1>0, <1>8 DEF TypeOK, ConvertFail, LockFail, Return, Goto, Pc, active, hw
<1>9. ASSUME NEW c \in Cpu, NEW p \in Page, ConvertPage(c, p)
      PROVE  TypeOK'
  <2>1. ver[c] \in Nat /\ pages[p] \in PageInfoType
    BY <1>0 DEF TypeOK
  <2>2. BeginConversion(pages[p], ver[c]) \in PageInfoType
    BY <2>1, WithStateFields DEF BeginConversion, PageState
  <2>3. pages' \in [Page -> PageInfoType]
    BY <1>0, <1>9, <2>2 DEF TypeOK, ConvertPage, convert_page
  <2>4. pte' \in [Page -> Pte] /\ ptLock' \subseteq Cpu /\ raced' \subseteq Page
    BY <1>0, <1>9 DEF TypeOK, ConvertPage, Pte
  <2>5. Treated(c, p)
    BY <1>9 DEF ConvertPage
  <2>. QED
    BY <1>0, <1>9, <2>3, <2>4, <2>5, ScratchType DEF TypeOK, ConvertPage, active, hw
<1>10. ASSUME NEW c \in Cpu, FenceBegin(c)
       PROVE  TypeOK'
  BY <1>0, <1>10, IncrementFields DEF TypeOK, FenceBegin, Goto, Pc, cpuOp, hw
<1>11. ASSUME NEW c \in Cpu, FenceIommu(c)
       PROVE  TypeOK'
  BY <1>0, <1>11 DEF TypeOK, FenceIommu, Goto, Pc, active, cpuOp
<1>12. ASSUME NEW c \in Cpu, NEW S \in PageRange, NEW o \in {"assign", "reclaim"},
              LockBegin(c, S, o)
       PROVE  TypeOK'
  BY <1>0, <1>12, PageRangeType, MinVersionType DEF TypeOK, LockBegin, Goto, Pc, active, hw
<1>13. ASSUME NEW c \in Cpu, LockPages(c)
       PROVE  TypeOK'
  <2>1. \A p \in Page : LockForAssignment(pages[p]) \in PageInfoType
    BY <1>0, WithStateFields DEF TypeOK, LockForAssignment, PageState
  <2>2. pages' \in [Page -> PageInfoType]
    BY <1>0, <1>13, <2>1 DEF TypeOK, LockPages, get_converted_pages
  <2>. QED
    BY <1>0, <1>13, <2>2 DEF TypeOK, LockPages, Goto, Pc, active, cpuOp, hw
<1>14. ASSUME NEW c \in Cpu, NEW p \in Page, NEW g \in Guest, NEW st \in {"Mapped", "VmState"},
              AssignPage(c, p, g, st)
       PROVE  TypeOK'
  <2>0. pc[c] = "locked" /\ p \in arg[c]
    BY <1>14 DEF AssignPage
  <2>5. pages[p].state = "ConvertedLocked" /\ pte[p] = "Invalidated"
    BY <1>0, <2>0, ListedPage
  <2>6. HostOwned(pages[p])
    BY <1>0, <2>5, LockedPageOwner
  <2>1. pages[p] \in PageInfoType /\ HostOwned(pages[p]) /\ pages[p].state = "ConvertedLocked"
    BY <1>0, <2>5, <2>6 DEF TypeOK
  <2>2. Assign(pages[p], g, st) \in PageInfoType
    BY <2>1, AssignHostPage
  <2>3. pages' \in [Page -> PageInfoType]
    BY <1>0, <1>14, <2>2 DEF TypeOK, AssignPage, assign_page
  <2>4. Treated(c, p)
    BY <1>14 DEF AssignPage
  <2>. QED
    BY <1>0, <1>14, <2>3, <2>4, ScratchType DEF TypeOK, AssignPage, active, hw
<1>15. ASSUME NEW c \in Cpu, NEW p \in Page, UnlockPage(c, p)
       PROVE  TypeOK'
  <2>1. pages' \in [Page -> PageInfoType]
    BY <1>0, <1>15, WithStateFields DEF TypeOK, UnlockPage, unlock_page, Unlock, PageState
  <2>2. Treated(c, p)
    BY <1>15 DEF UnlockPage
  <2>. QED
    BY <1>0, <1>15, <2>1, <2>2, ScratchType DEF TypeOK, UnlockPage, active, hw
<1>16. ASSUME NEW c \in Cpu, ReclaimLock(c)
       PROVE  TypeOK'
  BY <1>0, <1>16 DEF TypeOK, ReclaimLock, Goto, Pc, Pte, active, cpuOp, hw
<1>17. ASSUME NEW c \in Cpu, NEW p \in Page, ReclaimPage(c, p)
       PROVE  TypeOK'
  <2>1. pages' \in [Page -> PageInfoType]
    BY <1>0, <1>17, WithStateFields DEF TypeOK, ReclaimPage, reclaim_page, Reclaim, PageState
  <2>2. Treated(c, p)
    BY <1>17 DEF ReclaimPage
  <2>. QED
    BY <1>0, <1>17, <2>1, <2>2, ScratchType DEF TypeOK, ReclaimPage, Pte, active, hw
<1>18. ASSUME NEW c \in Cpu, NEW S \in PageRange, NEW h \in Holder, ShareRange(c, S, h)
       PROVE  TypeOK'
  <2>2. \A p \in Page : Share(pages[p]) \in PageInfoType
    BY <1>0, ShareFields DEF TypeOK
  <2>3. pages' \in [Page -> PageInfoType]
    BY <1>0, <1>18, <2>2 DEF TypeOK, ShareRange, share_pages
  <2>4. refs' \in [Page -> SUBSET Holder]
    BY <1>0, <1>18 DEF TypeOK, ShareRange
  <2>. QED
    BY <1>0, <1>18, <2>3, <2>4 DEF TypeOK, ShareRange, active, cpuOp, hw
<1>19. ASSUME NEW p \in Page, NEW h \in Holder, Unshare(h, p)
       PROVE  TypeOK'
  <2>1. /\ pages[p] \in PageInfoType
        /\ pages[p].state = "Shared"
        /\ pages[p].arg \in Nat \ {0}
    BY <1>0, <1>19, HolderMeansShared DEF TypeOK, Unshare
  <2>2. Release(pages[p]) \in PageInfoType
    BY <2>1, ReleaseShared
  <2>3. pages' \in [Page -> PageInfoType]
    BY <1>0, <1>19, <2>2 DEF TypeOK, Unshare, release_page_by_addr
  <2>4. refs' \in [Page -> SUBSET Holder]
    BY <1>0, <1>19 DEF TypeOK, Unshare
  <2>. QED
    BY <1>0, <1>19, <2>3, <2>4 DEF TypeOK, Unshare, active, cpuOp, hw
<1>20. ASSUME NEW p \in Page, NEW g \in Guest, GuestRelease(g, p)
       PROVE  TypeOK'
  <2>1. pages[p] \in PageInfoType /\ GuestOwned(pages[p])
    BY <1>0, <1>20, PageOwner DEF TypeOK, GuestRelease
  <2>2. pages[p].state \in {"Mapped", "VmState"}
    BY <1>0, <2>1 DEF PageInv, HostOwned, GuestOwned
  <2>3. Release(pages[p]) \in PageInfoType
    BY <2>1, <2>2, ReleaseGuestPage
  <2>4. pages' \in [Page -> PageInfoType]
    BY <1>0, <1>20, <2>3 DEF TypeOK, GuestRelease, release_page_by_addr
  <2>. QED
    BY <1>0, <1>20, <2>4 DEF TypeOK, GuestRelease, active, cpuOp, hw
<1>21. ASSUME NEW c \in Cpu, SpaceStep(c)
       PROVE  TypeOK'
  BY <1>2, <1>3, <1>4, <1>21 DEF SpaceStep
<1>22. ASSUME NEW c \in Cpu, ConvertStep(c)
       PROVE  TypeOK'
  BY <1>6, <1>7, <1>8, <1>9, <1>10, <1>11, <1>22 DEF ConvertStep
<1>23. ASSUME NEW c \in Cpu, LockStep(c)
       PROVE  TypeOK'
  BY <1>8, <1>12, <1>13, <1>14, <1>15, <1>16, <1>17, <1>23 DEF LockStep
<1>24. ASSUME OtherStep
       PROVE  TypeOK'
  BY <1>5, <1>19, <1>20, <1>24 DEF OtherStep
<1>. QED
  BY <1>1, <1>18, <1>21, <1>22, <1>23, <1>24 DEF Next

\* The counts of the tracker are preserved: a CPU that enters is added to the users
\* of the current version, one that leaves is taken out of those of its version, and
\* a fence renames the current version's users to the previous version's.
LEMMA RefStep ==
    ASSUME IInv, [Next]_vars
    PROVE  RefInv'
<1>0. TypeOK /\ RefInv /\ ActiveInv
  BY DEF IInv
<1>1. \A v : IsFiniteSet(Users(v)) /\ Cardinality(Users(v)) \in Nat
  BY FS_Subset, FS_CardinalityType, HostMemoryAssumption DEF Users
<1>2. tracker \in TlbTrackerType /\ held \in [Cpu -> Nat \cup {NoVersion}]
  BY <1>0 DEF TypeOK
<1>3. tracker.current.version \in Nat /\ NoVersion \notin Nat
  BY <1>2 DEF TlbTrackerType, NoVersion
<1>4. CASE UNCHANGED <<tracker, held>>
  BY <1>0, <1>4 DEF RefInv, Users
<1>5. ASSUME NEW c \in Cpu, EnterSameVmid(c) \/ EnterNewVmid(c)
      PROVE  RefInv'
  <2> DEFINE v == tracker.current.version
  <2>1. /\ held[c] = NoVersion
        /\ tracker' = get_version(tracker)
        /\ held' = [held EXCEPT ![c] = v]
    BY <1>0, <1>5 DEF ActiveInv, EnterSameVmid, EnterNewVmid, current_version
  <2>2. /\ tracker'.current.version = v
        /\ tracker'.current.count = tracker.current.count + 1
        /\ tracker'.prev = tracker.prev
    BY <1>2, <2>1, GetVersionFields
  <2>3. Users(v)' = Users(v) \cup {c} /\ c \notin Users(v)
    BY <1>2, <1>3, <2>1, <2>2 DEF Users
  <2>4. Cardinality(Users(v)') = Cardinality(Users(v)) + 1
    BY <1>1, <2>3, FS_AddElement
  <2>5. ASSUME tracker.prev # NoPrev
        PROVE  Users(tracker.prev.version)' = Users(tracker.prev.version)
    <3>1. tracker.prev.version \in Nat /\ tracker.prev.version # v
      BY <1>0, <1>3, <2>5 DEF RefInv
    <3>. QED
      BY <1>2, <1>3, <2>1, <2>2, <3>1 DEF Users
  <2>6. \A d \in Cpu : held'[d] \in {NoVersion, v, tracker.prev.version}
    BY <1>0, <1>2, <2>1 DEF RefInv
  <2>. QED
    BY <1>0, <2>2, <2>4, <2>5, <2>6 DEF RefInv
<1>6. ASSUME NEW c \in Cpu, Leave(c)
      PROVE  RefInv'
  <2> DEFINE v == held[c]
  <2>1. /\ v # NoVersion
        /\ tracker' = put_version(tracker, v)
        /\ held' = [held EXCEPT ![c] = NoVersion]
    BY <1>0, <1>6 DEF ActiveInv, Leave
  <2>2. v \in Nat /\ CanPutVersion(tracker, v)
    BY <1>0, <2>1, HeldNotBelowMin, UserCounted
  <2>3. Users(v) = {d \in Cpu : held'[d] = v} \cup {c} /\ c \in Users(v)
    BY <1>2, <2>1 DEF Users
  <2>4. {d \in Cpu : held'[d] = v} = Users(v) \ {c}
    BY <1>2, <2>1 DEF Users
  <2>5. Cardinality({d \in Cpu : held'[d] = v}) = Cardinality(Users(v)) - 1
    BY <1>1, <2>3, <2>4, FS_RemoveElement
  <2>6. \A w \in Nat : w # v => {d \in Cpu : held'[d] = w} = Users(w)
    BY <1>2, <1>3, <2>1 DEF Users
  <2>7. \A d \in Cpu : held'[d] \in {NoVersion, held[d]}
    BY <1>2, <2>1
  <2>8. CASE v = tracker.current.version
    <3>1. /\ tracker'.current.version = v
          /\ tracker'.current.count = tracker.current.count - 1
          /\ tracker'.prev = tracker.prev
      BY <1>2, <2>1, <2>2, <2>8, PutVersionFields
    <3>2. ASSUME tracker.prev # NoPrev
          PROVE  {d \in Cpu : held'[d] = tracker.prev.version} = Users(tracker.prev.version)
      BY <1>0, <1>3, <2>6, <2>8, <3>2 DEF RefInv
    <3>3. Cardinality({d \in Cpu : held'[d] = v}) = tracker.current.count - 1
      BY <1>0, <2>5, <2>8 DEF RefInv
    <3>4. \A d \in Cpu : held'[d] \in {NoVersion, v, tracker.prev.version}
      BY <1>0, <2>7, <2>8 DEF RefInv
    <3>. QED
      BY <1>0, <2>8, <3>1, <3>2, <3>3, <3>4 DEF RefInv, Users
  <2>9. CASE v # tracker.current.version
    <3>1. tracker.prev # NoPrev /\ v = tracker.prev.version
      BY <1>0, <2>1, <2>9, UserCounted DEF RefInv
    <3>2. /\ tracker'.current.version = tracker.current.version
          /\ tracker'.current.count = tracker.current.count
          /\ tracker.prev.count = 1 => tracker'.prev = NoPrev
          /\ tracker.prev.count # 1 =>
                /\ tracker'.prev # NoPrev
                /\ tracker'.prev.version = v
                /\ tracker'.prev.count = tracker.prev.count - 1
      BY <1>2, <2>1, <2>2, <2>9, <3>1, PutVersionFields
    <3>3. Cardinality({d \in Cpu : held'[d] = tracker.current.version})
             = tracker.current.count
      BY <1>0, <1>3, <2>6, <2>9 DEF RefInv
    <3>4. Cardinality({d \in Cpu : held'[d] = v}) = tracker.prev.count - 1
      BY <1>0, <2>5, <3>1 DEF RefInv
    <3>5. tracker.prev.count \in Nat /\ tracker.prev.count > 0
      BY <1>0, <1>1, <3>1 DEF RefInv
    <3>6. CASE tracker.prev.count = 1
      <4>1. {d \in Cpu : held'[d] = v} = {}
        <5>1. IsFiniteSet({d \in Cpu : held'[d] = v})
          BY FS_Subset, HostMemoryAssumption
        <5>. QED
          BY <3>4, <3>6, <5>1, FS_EmptySet
      <4>2. \A d \in Cpu : held'[d] \in {NoVersion, tracker.current.version}
        BY <1>0, <2>7, <3>1, <4>1 DEF RefInv
      <4>. QED
        BY <3>2, <3>3, <3>6, <4>2 DEF RefInv, Users
    <3>7. CASE tracker.prev.count # 1
      <4>1. tracker.prev.version < tracker.current.version
        BY <1>0, <3>1 DEF RefInv
      <4>2. \A d \in Cpu : held'[d] \in {NoVersion, tracker.current.version, v}
        BY <1>0, <2>7, <3>1 DEF RefInv
      <4>3. tracker.prev.count - 1 > 0
        BY <3>5, <3>7
      <4>. QED
        BY <2>2, <3>1, <3>2, <3>3, <3>4, <3>7, <4>1, <4>2, <4>3 DEF RefInv, Users
    <3>. QED
      BY <3>6, <3>7
  <2>. QED
    BY <2>8, <2>9
<1>7. ASSUME NEW c \in Cpu, FenceBegin(c)
      PROVE  RefInv'
  <2> DEFINE v == tracker.current.version
  <2>1. /\ held[c] # NoVersion
        /\ tracker' = Increment(tracker)
        /\ held' = held
        /\ tracker.prev.count = 0
    BY <1>0, <1>7 DEF ActiveInv, FenceBegin, CanIncrement
  <2>2. tracker.prev = NoPrev
    BY <1>0, <2>1 DEF RefInv
  <2>3. \A d \in Cpu : held[d] \in {NoVersion, v}
    BY <1>0, <2>2 DEF RefInv, NoPrev
  <2>4. tracker.current.count # 0
    BY <1>0, <2>1, <2>3, UserCounted, <2>2 DEF CanPutVersion
  <2>5. /\ tracker'.current.version = v + 1
        /\ tracker'.current.count = 0
        /\ tracker'.prev = tracker.current
    BY <1>2, <2>1, <2>4, IncrementFields
  <2>6. Users(v + 1) = {}
    BY <1>3, <2>3 DEF Users
  <2>7. Cardinality(Users(v + 1)) = 0
    BY <2>6, FS_EmptySet
  <2>8. tracker.current.count > 0 /\ tracker.current.count = Cardinality(Users(v))
    BY <1>0, <1>1, <2>4 DEF RefInv
  <2>9. v < v + 1
    BY <1>3
  <2>. QED
    BY <1>3, <2>1, <2>3, <2>5, <2>7, <2>8, <2>9 DEF RefInv, Users
<1>8. ASSUME NEW c \in Cpu, SpaceStep(c)
      PROVE  RefInv'
  BY <1>4, <1>5, <1>6, <1>8 DEF SpaceStep, TlbFill, active
<1>9. ASSUME NEW c \in Cpu, ConvertStep(c)
      PROVE  RefInv'
  BY <1>4, <1>7, <1>9
  DEF ConvertStep, ConvertBegin, ConvertLock, ConvertFail, ConvertPage, FenceIommu, active
<1>10. ASSUME NEW c \in Cpu, LockStep(c)
       PROVE  RefInv'
  BY <1>4, <1>10
  DEF LockStep, LockBegin, LockPages, LockFail, AssignPage, UnlockPage, ReclaimLock,
      ReclaimPage, active
<1>11. ASSUME NEW c \in Cpu, NEW S \in PageRange, NEW h \in Holder, ShareRange(c, S, h)
       PROVE  RefInv'
  BY <1>4, <1>11 DEF ShareRange, active
<1>12. ASSUME OtherStep
       PROVE  RefInv'
  BY <1>4, <1>12 DEF OtherStep, IotlbFill, Unshare, GuestRelease, active
<1>13. CASE UNCHANGED vars
  BY <1>4, <1>13 DEF vars
<1>. QED
  BY <1>8, <1>9, <1>10, <1>11, <1>12, <1>13 DEF Next

\* The current and the minimum version never decrease.
LEMMA VersionsMonotone ==
    ASSUME IInv, [Next]_vars
    PROVE  /\ min_version(tracker) <= min_version(tracker')
           /\ tracker.current.version <= tracker'.current.version
           /\ tracker.current.version \in Nat
           /\ tracker'.current.version \in Nat
           /\ min_version(tracker) \in Nat
           /\ min_version(tracker') \in Nat
<1> DEFINE Goal == /\ min_version(tracker) <= min_version(tracker')
                   /\ tracker.current.version <= tracker'.current.version
<1>0. TypeOK /\ RefInv /\ ActiveInv
  BY DEF IInv
<1>1. tracker \in TlbTrackerType /\ tracker.current.version \in Nat
  BY <1>0 DEF TypeOK, TlbTrackerType
<1>2. min_version(tracker) \in Nat
  BY <1>1, MinVersionType
<1>3. /\ tracker' \in TlbTrackerType
      /\ tracker'.current.version \in Nat
      /\ min_version(tracker') \in Nat
  BY TypeStep, MinVersionType DEF TypeOK, TlbTrackerType
<1>4. CASE UNCHANGED tracker
  BY <1>1, <1>2, <1>4
<1>5. ASSUME NEW c \in Cpu, EnterSameVmid(c) \/ EnterNewVmid(c)
      PROVE  Goal
  <2>1. tracker' = get_version(tracker)
    BY <1>5 DEF EnterSameVmid, EnterNewVmid
  <2>2. /\ tracker'.current.version = tracker.current.version
        /\ min_version(tracker') = min_version(tracker)
    BY <1>1, <2>1, GetVersionFields
  <2>. QED
    BY <1>1, <1>2, <2>2
<1>6. ASSUME NEW c \in Cpu, Leave(c)
      PROVE  Goal
  <2> DEFINE v == held[c]
  <2>1. v # NoVersion /\ tracker' = put_version(tracker, v)
    BY <1>0, <1>6 DEF ActiveInv, Leave
  <2>2. v \in Nat /\ CanPutVersion(tracker, v) /\ min_version(tracker) <= v
        /\ v <= tracker.current.version
    BY <1>0, <2>1, HeldNotBelowMin, UserCounted
  <2>3. CASE v = tracker.current.version
    <3>1. tracker'.prev = tracker.prev /\ tracker'.current.version = tracker.current.version
      BY <1>1, <2>1, <2>2, <2>3, PutVersionFields
    <3>2. min_version(tracker') = min_version(tracker)
      BY <3>1 DEF min_version
    <3>. QED
      BY <1>1, <1>2, <3>1, <3>2
  <2>4. CASE v # tracker.current.version /\ tracker.prev.count = 1
    <3>1. tracker'.prev = NoPrev /\ tracker'.current.version = tracker.current.version
      BY <1>1, <2>1, <2>2, <2>4, PutVersionFields
    <3>2. min_version(tracker') = tracker.current.version
      BY <3>1 DEF min_version, NoPrev
    <3>. QED
      BY <1>1, <1>2, <2>2, <3>1, <3>2
  <2>5. CASE v # tracker.current.version /\ tracker.prev.count # 1
    <3>1. /\ tracker'.prev.version = tracker.prev.version
          /\ tracker'.prev.count = tracker.prev.count - 1
          /\ tracker'.current.version = tracker.current.version
      BY <1>1, <2>1, <2>2, <2>5, PutVersionFields
    <3>2. tracker.prev.count > 0 /\ tracker.prev.count \in Nat
      <4>1. tracker.prev.count > 0
        BY <2>2, <2>5 DEF CanPutVersion
      <4>2. tracker.prev \in {NoPrev} \cup [version : Nat, count : Nat]
        BY <1>1 DEF TlbTrackerType
      <4>3. tracker.prev.count \in Nat
        BY <4>2 DEF NoPrev
      <4>. QED
        BY <4>1, <4>3
    <3>3. min_version(tracker') = tracker.prev.version
      BY <2>5, <3>1, <3>2 DEF min_version
    <3>4. min_version(tracker) = tracker.prev.version
      BY <3>2 DEF min_version
    <3>. QED
      BY <1>1, <1>2, <3>1, <3>3, <3>4
  <2>. QED
    BY <2>3, <2>4, <2>5
<1>7. ASSUME NEW c \in Cpu, FenceBegin(c)
      PROVE  Goal
  <2>1. tracker' = Increment(tracker) /\ tracker.prev.count = 0
    BY <1>7 DEF FenceBegin, CanIncrement
  <2>2. min_version(tracker) = tracker.current.version
    BY <2>1 DEF min_version
  <2>3. min_version(tracker') >= tracker.current.version
    <3>1. /\ tracker'.current.version = tracker.current.version + 1
          /\ tracker'.prev = IF tracker.current.count # 0 THEN tracker.current ELSE NoPrev
      BY <1>1, <2>1, IncrementFields
    <3>2. CASE tracker.current.count # 0
      <4>1. tracker'.prev.version = tracker.current.version /\ tracker'.prev.count # 0
        BY <3>1, <3>2
      <4>2. min_version(tracker') = tracker.current.version
        BY <4>1 DEF min_version
      <4>. QED
        BY <1>1, <4>2
    <3>3. CASE tracker.current.count = 0
      <4>1. tracker'.prev.count = 0
        BY <3>1, <3>3 DEF NoPrev
      <4>2. min_version(tracker') = tracker.current.version + 1
        BY <3>1, <4>1 DEF min_version
      <4>. QED
        BY <1>1, <4>2
    <3>. QED
      BY <3>2, <3>3
  <2>. QED
    BY <1>1, <1>3, <2>1, <2>2, <2>3, IncrementFields
<1>8. ASSUME NEW c \in Cpu, SpaceStep(c)
      PROVE  Goal
  BY <1>4, <1>5, <1>6, <1>8 DEF SpaceStep, TlbFill, active
<1>9. ASSUME NEW c \in Cpu, ConvertStep(c)
      PROVE  Goal
  BY <1>4, <1>7, <1>9
  DEF ConvertStep, ConvertBegin, ConvertLock, ConvertFail, ConvertPage, FenceIommu, active
<1>10. ASSUME NEW c \in Cpu, LockStep(c)
       PROVE  Goal
  BY <1>4, <1>10
  DEF LockStep, LockBegin, LockPages, LockFail, AssignPage, UnlockPage, ReclaimLock,
      ReclaimPage, active
<1>11. ASSUME NEW c \in Cpu, NEW S \in PageRange, NEW h \in Holder, ShareRange(c, S, h)
       PROVE  Goal
  BY <1>4, <1>11 DEF ShareRange, active
<1>12. ASSUME OtherStep
       PROVE  Goal
  BY <1>4, <1>12 DEF OtherStep, IotlbFill, Unshare, GuestRelease, active
<1>13. CASE UNCHANGED vars
  BY <1>4, <1>13 DEF vars
<1>14. Goal
  BY <1>8, <1>9, <1>10, <1>11, <1>12, <1>13 DEF Next
<1>. QED
  BY <1>1, <1>2, <1>3, <1>14

\* What the pc says of versions is preserved.
LEMMA ActiveStep ==
    ASSUME IInv, [Next]_vars
    PROVE  ActiveInv'
<1>0. TypeOK /\ RefInv /\ ActiveInv
  BY DEF IInv
<1>1. /\ min_version(tracker) <= min_version(tracker')
      /\ tracker.current.version <= tracker'.current.version
      /\ tracker.current.version \in Nat /\ tracker'.current.version \in Nat
      /\ min_version(tracker) \in Nat /\ min_version(tracker') \in Nat
  BY VersionsMonotone
<1>2. /\ pc \in [Cpu -> Pc] /\ ver \in [Cpu -> Nat]
      /\ held \in [Cpu -> Nat \cup {NoVersion}]
      /\ prevTlb \in [Cpu -> Nat \cup {NoVersion}]
      /\ NoVersion \notin Nat /\ NoVersion <= 0 /\ NoVersion \in Int
  BY <1>0 DEF TypeOK, NoVersion
<1>3. CASE UNCHANGED <<active, pc, ver>>
  BY <1>0, <1>3 DEF ActiveInv, active
<1>4. ASSUME NEW c \in Cpu, EnterSameVmid(c) \/ EnterNewVmid(c)
      PROVE  ActiveInv'
  <2>1. /\ tracker' = get_version(tracker)
        /\ held' = [held EXCEPT ![c] = tracker.current.version]
        /\ prevTlb' = [prevTlb EXCEPT ![c] = tracker.current.version]
        /\ pc' = [pc EXCEPT ![c] = "host"]
        /\ ver' = ver
    BY <1>4 DEF EnterSameVmid, EnterNewVmid, current_version, Goto, cpuOp
  <2>2. /\ tracker'.prev = tracker.prev
        /\ tracker'.current.version = tracker.current.version
        /\ min_version(tracker') = min_version(tracker)
    BY <1>0, <2>1, GetVersionFields DEF TypeOK
  <2>. QED
    BY <1>0, <1>1, <1>2, <2>1, <2>2 DEF ActiveInv
<1>5. ASSUME NEW c \in Cpu, Leave(c)
      PROVE  ActiveInv'
  <2>1. /\ tracker' = put_version(tracker, held[c])
        /\ held' = [held EXCEPT ![c] = NoVersion]
        /\ prevTlb' = prevTlb
        /\ pc' = [pc EXCEPT ![c] = "out"]
        /\ ver' = ver
        /\ held[c] # NoVersion
        /\ pc[c] # "fence"
    BY <1>0, <1>5 DEF ActiveInv, Leave, Goto, cpuOp
  <2>2. CanPutVersion(tracker, held[c]) /\ held[c] \in Nat
    BY <1>0, <2>1, UserCounted, HeldNotBelowMin
  <2>3. ASSUME NEW d \in Cpu, d # c, pc[d] = "fence"
        PROVE  held[d] = tracker'.prev.version
    <3>1. held[d] = tracker.prev.version /\ held[d] # NoVersion
      BY <1>0, <2>3 DEF ActiveInv
    <3>2. RefInv' /\ held'[d] = held[d]
      BY <1>2, <2>1, <2>3, RefStep
    <3>3. tracker'.current.version = tracker.current.version
      BY <1>0, <2>1, <2>2, PutVersionFields DEF TypeOK
    <3>4. held[d] # tracker.current.version
      <4>1. tracker.prev # NoPrev
        BY <3>1 DEF NoPrev
      <4>2. tracker.prev.version < tracker.current.version /\ tracker.prev.version \in Nat
        BY <1>0, <4>1, PrevBelow
      <4>. QED
        BY <1>1, <3>1, <4>2
    <3>. QED
      BY <3>1, <3>2, <3>3, <3>4 DEF RefInv
  <2>4. tracker'.current.version = tracker.current.version
    BY <1>0, <2>1, <2>2, PutVersionFields DEF TypeOK
  <2>. QED
    <3> SUFFICES ASSUME NEW d \in Cpu
                 PROVE  /\ held'[d] = NoVersion <=> pc'[d] = "out"
                        /\ held'[d] # NoVersion => prevTlb'[d] = held'[d]
                        /\ prevTlb'[d] <= tracker'.current.version
                        /\ pc'[d] = "fence" => held'[d] = tracker'.prev.version
                        /\ pc'[d] \in {"convert", "invalid"} =>
                              ver'[d] <= tracker'.current.version
                        /\ pc'[d] = "lock" => ver'[d] <= min_version(tracker')
      BY DEF ActiveInv
    <3>1. CASE d = c
      BY <1>0, <1>2, <2>1, <2>4, <3>1 DEF ActiveInv
    <3>2. CASE d # c
      <4>1. held'[d] = held[d] /\ pc'[d] = pc[d] /\ prevTlb'[d] = prevTlb[d] /\ ver'[d] = ver[d]
        BY <1>2, <2>1, <3>2
      <4>2. pc[d] = "lock" => ver[d] <= min_version(tracker')
        BY <1>0, <1>1, <1>2 DEF ActiveInv
      <4>. QED
        BY <1>0, <2>3, <2>4, <3>2, <4>1, <4>2 DEF ActiveInv
    <3>. QED
      BY <3>1, <3>2
<1>6. ASSUME NEW c \in Cpu, FenceBegin(c)
      PROVE  ActiveInv'
  <2>1. /\ tracker' = Increment(tracker)
        /\ tracker.prev.count = 0
        /\ held' = held /\ prevTlb' = prevTlb /\ ver' = ver
        /\ pc' = [pc EXCEPT ![c] = "fence"]
        /\ pc[c] = "host"
    BY <1>6 DEF FenceBegin, CanIncrement, Goto, cpuOp
  <2>2. tracker.prev = NoPrev
    BY <1>0, <2>1, NoReferenceNoPrev
  <2>3. \A d \in Cpu : held[d] \in {NoVersion, tracker.current.version}
    BY <1>0, <2>2 DEF RefInv, NoPrev
  <2>4. held[c] = tracker.current.version
    BY <1>0, <2>1, <2>3 DEF ActiveInv
  <2>5. tracker.current.count # 0
    BY <1>0, <1>2, <1>1, <2>2, <2>4, UserCounted DEF CanPutVersion
  <2>6. tracker'.prev = tracker.current
    BY <1>0, <2>1, <2>5, IncrementFields DEF TypeOK
  <2>7. \A d \in Cpu : pc[d] # "fence"
    BY <1>0, <1>2, <2>2 DEF ActiveInv, NoPrev
  <2>. QED
    <3> SUFFICES ASSUME NEW d \in Cpu
                 PROVE  /\ held'[d] = NoVersion <=> pc'[d] = "out"
                        /\ held'[d] # NoVersion => prevTlb'[d] = held'[d]
                        /\ prevTlb'[d] <= tracker'.current.version
                        /\ pc'[d] = "fence" => held'[d] = tracker'.prev.version
                        /\ pc'[d] \in {"convert", "invalid"} =>
                              ver'[d] <= tracker'.current.version
                        /\ pc'[d] = "lock" => ver'[d] <= min_version(tracker')
      BY DEF ActiveInv
    <3>1. held'[d] = held[d] /\ prevTlb'[d] = prevTlb[d] /\ ver'[d] = ver[d]
      BY <2>1
    <3>2. prevTlb[d] <= tracker'.current.version
      BY <1>0, <1>1, <1>2 DEF ActiveInv
    <3>3. CASE d = c
      <4>1. pc'[d] = "fence"
        BY <1>2, <2>1, <3>3
      <4>. QED
        BY <1>0, <2>1, <2>4, <2>6, <3>1, <3>2, <3>3, <4>1 DEF ActiveInv
    <3>4. CASE d # c
      <4>1. pc'[d] = pc[d]
        BY <1>2, <2>1, <3>4
      <4>2. /\ pc[d] \in {"convert", "invalid"} => ver[d] <= tracker'.current.version
            /\ pc[d] = "lock" => ver[d] <= min_version(tracker')
        <5>1. /\ pc[d] \in {"convert", "invalid"} => ver[d] <= tracker.current.version
              /\ pc[d] = "lock" => ver[d] <= min_version(tracker)
          BY <1>0 DEF ActiveInv
        <5>2. ver[d] \in Nat
          BY <1>2
        <5>. QED
          BY <1>1, <5>1, <5>2
      <4>. QED
        BY <1>0, <2>7, <3>1, <3>2, <4>1, <4>2 DEF ActiveInv
    <3>. QED
      BY <3>3, <3>4
<1>8. ASSUME NEW c \in Cpu, SpaceStep(c)
      PROVE  ActiveInv'
  BY <1>3, <1>4, <1>5, <1>8 DEF SpaceStep, TlbFill, cpuOp
<1>9. ASSUME NEW c \in Cpu, NEW p \in Page, Treated(c, p), UNCHANGED active, pc[c] # "out"
      PROVE  ActiveInv'
  BY <1>0, <1>1, <1>2, <1>9 DEF ActiveInv, Treated, Return, Goto, active
<1>10. ASSUME NEW c \in Cpu, ConvertStep(c)
       PROVE  ActiveInv'
  <2>1. ASSUME NEW S \in PageRange, ConvertBegin(c, S)
        PROVE  ActiveInv'
    BY <1>0, <1>1, <1>2, <2>1 DEF ConvertBegin, Goto, current_version, ActiveInv, active
  <2>2. CASE ConvertLock(c)
    BY <1>0, <1>1, <1>2, <2>2 DEF ConvertLock, Goto, ActiveInv, active, cpuOp
  <2>3. CASE ConvertFail(c)
    BY <1>0, <1>1, <1>2, <2>3 DEF ConvertFail, Return, Goto, ActiveInv, active
  <2>4. ASSUME NEW p \in Page, ConvertPage(c, p)
        PROVE  ActiveInv'
    BY <1>9, <2>4 DEF ConvertPage
  <2>5. CASE FenceIommu(c)
    BY <1>0, <1>1, <1>2, <2>5 DEF FenceIommu, Goto, ActiveInv, active, cpuOp
  <2>. QED
    BY <1>6, <1>10, <2>1, <2>2, <2>3, <2>4, <2>5 DEF ConvertStep
<1>11. ASSUME NEW c \in Cpu, LockStep(c)
       PROVE  ActiveInv'
  <2>1. ASSUME NEW S \in PageRange, NEW o \in {"assign", "reclaim"}, LockBegin(c, S, o)
        PROVE  ActiveInv'
    BY <1>0, <1>1, <1>2, <2>1 DEF LockBegin, Goto, ActiveInv, active
  <2>2. CASE LockPages(c)
    BY <1>0, <1>1, <1>2, <2>2 DEF LockPages, Goto, ActiveInv, active, cpuOp
  <2>3. CASE LockFail(c)
    BY <1>0, <1>1, <1>2, <2>3 DEF LockFail, Return, Goto, ActiveInv, active
  <2>4. ASSUME NEW p \in Page, NEW g \in Guest, NEW st \in {"Mapped", "VmState"},
               AssignPage(c, p, g, st)
        PROVE  ActiveInv'
    BY <1>9, <2>4 DEF AssignPage
  <2>5. ASSUME NEW p \in Page, UnlockPage(c, p) \/ ReclaimPage(c, p)
        PROVE  ActiveInv'
    BY <1>9, <2>5 DEF UnlockPage, ReclaimPage
  <2>6. CASE ReclaimLock(c)
    BY <1>0, <1>1, <1>2, <2>6 DEF ReclaimLock, Goto, ActiveInv, active, cpuOp
  <2>. QED
    BY <1>11, <2>1, <2>2, <2>3, <2>4, <2>5, <2>6 DEF LockStep
<1>12. ASSUME NEW c \in Cpu, NEW S \in PageRange, NEW h \in Holder, ShareRange(c, S, h)
       PROVE  ActiveInv'
  BY <1>3, <1>12 DEF ShareRange, cpuOp
<1>13. ASSUME OtherStep
       PROVE  ActiveInv'
  BY <1>3, <1>13 DEF OtherStep, IotlbFill, Unshare, GuestRelease, cpuOp
<1>14. CASE UNCHANGED vars
  BY <1>3, <1>14 DEF vars, active
<1>. QED
  BY <1>8, <1>10, <1>11, <1>12, <1>13, <1>14 DEF Next

\* A page operation that keeps the owners of the pages in S, with a PTE that agrees
\* with the new state, preserves the page invariant.
LEMMA SameOwners ==
    ASSUME IInv, [Next]_vars, NEW S \in SUBSET Page,
           \A q \in Page \ S : pages'[q] = pages[q] /\ pte'[q] = pte[q],
           \A q \in S :
              /\ HostOwned(pages[q])
              /\ pages'[q].mem = pages[q].mem
              /\ pages'[q].owners = pages[q].owners
              /\ pages'[q].state \in {"Mapped", "Shared", "Converting", "Converted",
                                      "ConvertedLocked"}
              /\ pte'[q] = "Leaf" <=> pages'[q].state \in {"Mapped", "Shared"}
              /\ pages'[q].state = "Converting" => pages'[q].arg <= tracker.current.version
    PROVE  PageInv'
<1>0. TypeOK /\ PageInv
  BY DEF IInv
<1>1. /\ tracker.current.version \in Nat /\ tracker'.current.version \in Nat
      /\ tracker.current.version <= tracker'.current.version
  BY VersionsMonotone
<1>2. \A q \in Page : pages[q].arg \in Nat /\ pages'[q].arg \in Nat
  BY <1>0, TypeStep DEF TypeOK, PageInfoType
<1> SUFFICES ASSUME NEW q \in Page
             PROVE  /\ pages'[q].mem = "Ram"
                    /\ \/ /\ HostOwned(pages'[q])
                          /\ pages'[q].state \in {"Mapped", "Shared", "Converting",
                                                  "Converted", "ConvertedLocked"}
                       \/ /\ GuestOwned(pages'[q])
                          /\ pages'[q].state \in {"Mapped", "VmState"}
                    /\ pte'[q] = "Leaf" <=> /\ HostOwned(pages'[q])
                                            /\ pages'[q].state \in {"Mapped", "Shared"}
                    /\ pages'[q].state = "Converting" =>
                          pages'[q].arg <= tracker'.current.version
  BY DEF PageInv
<1>3. pages'[q].state = "Converting" => pages'[q].arg <= tracker'.current.version
  <2>1. ASSUME q \in S
        PROVE  pages'[q].state = "Converting" => pages'[q].arg <= tracker.current.version
    BY <2>1
  <2>2. ASSUME q \notin S
        PROVE  pages'[q].state = "Converting" => pages'[q].arg <= tracker.current.version
    <3>1. pages'[q] = pages[q]
      BY <2>2
    <3>2. pages[q].state = "Converting" => pages[q].arg <= tracker.current.version
      BY <1>0 DEF PageInv
    <3>. QED
      BY <3>1, <3>2
  <2>3. pages'[q].state = "Converting" => pages'[q].arg <= tracker.current.version
    BY <2>1, <2>2
  <2>4. pages'[q].arg \in Nat
    BY <1>2
  <2>. QED
    BY <1>1, <2>3, <2>4, NoNewerThan
<1>4. CASE q \in S
  <2>1. HostOwned(pages'[q])
    BY <1>4 DEF HostOwned
  <2>2. pages'[q].mem = "Ram"
    BY <1>0, <1>4 DEF PageInv
  <2>. QED
    BY <1>3, <1>4, <2>1, <2>2
<1>5. CASE q \notin S
  <2>1. pages'[q] = pages[q] /\ pte'[q] = pte[q]
    BY <1>5
  <2>. QED
    BY <1>0, <1>3, <2>1 DEF PageInv
<1>. QED
  BY <1>4, <1>5

\* The page invariant is preserved.
LEMMA PageStep ==
    ASSUME IInv, [Next]_vars
    PROVE  PageInv'
<1>0. TypeOK /\ ActiveInv /\ PageInv /\ OpInv /\ SharedCount
  BY DEF IInv
<1>1. /\ \A q \in Page : pages[q] \in PageInfoType
      /\ pages \in [Page -> PageInfoType]
      /\ pte \in [Page -> Pte]
  BY <1>0 DEF TypeOK
<1>2. CASE UNCHANGED <<pages, pte>>
  <2>1. \A q \in Page : pages'[q] = pages[q] /\ pte'[q] = pte[q]
    BY <1>2
  <2>2. {} \in SUBSET Page
    OBVIOUS
  <2>. QED
    BY <2>1, <2>2, SameOwners
<1>3. ASSUME NEW c \in Cpu, NEW p \in Page, ConvertPage(c, p)
      PROVE  PageInv'
  <2>1. pte[p] = "Leaf" /\ HostOwned(pages[p])
    BY <1>0, <1>3 DEF ConvertPage, OpInv, PageInv
  <2>2. ver[c] \in Nat /\ ver[c] <= tracker.current.version
    BY <1>0, <1>3 DEF ConvertPage, ActiveInv, TypeOK
  <2>3. /\ pages' = [pages EXCEPT ![p] = WithState(@, "Converting", ver[c])]
        /\ pte' = [pte EXCEPT ![p] = "Invalidated"]
    BY <1>3 DEF ConvertPage, convert_page, BeginConversion
  <2>4. /\ pages'[p].mem = pages[p].mem
        /\ pages'[p].owners = pages[p].owners
        /\ pages'[p].state = "Converting"
        /\ pages'[p].arg = ver[c]
    BY <1>1, <2>2, <2>3, WithStateKeeps
  <2>. QED
    BY <1>1, <2>1, <2>2, <2>3, <2>4, SameOwners, {p} \in SUBSET Page
<1>4. ASSUME NEW c \in Cpu, LockPages(c)
      PROVE  PageInv'
  <2>1. arg[c] \in SUBSET Page
    BY <1>0 DEF TypeOK
  <2>2. \A q \in arg[c] : HostOwned(pages[q]) /\ pte[q] = "Invalidated"
    BY <1>0, <1>4, <2>1, PageOwner DEF LockPages, Lockable, is_converted_page
  <2>3. \A q \in Page : pages'[q] = IF q \in arg[c]
                                    THEN WithState(pages[q], "ConvertedLocked", 0)
                                    ELSE pages[q]
    BY <1>1, <1>4 DEF LockPages, get_converted_pages, LockForAssignment
  <2>4. ASSUME NEW q \in arg[c]
        PROVE  /\ pages'[q].mem = pages[q].mem
               /\ pages'[q].owners = pages[q].owners
               /\ pages'[q].state = "ConvertedLocked"
    <3>1. pages[q] \in PageInfoType
      BY <1>1, <2>1
    <3>2. pages'[q] = WithState(pages[q], "ConvertedLocked", 0)
      BY <2>1, <2>3
    <3>3. "ConvertedLocked" \in PageState
      BY DEF PageState
    <3>4. /\ WithState(pages[q], "ConvertedLocked", 0).mem = pages[q].mem
          /\ WithState(pages[q], "ConvertedLocked", 0).owners = pages[q].owners
          /\ WithState(pages[q], "ConvertedLocked", 0).state = "ConvertedLocked"
      BY <3>1, <3>3, 0 \in Nat, WithStateFields
    <3>. QED
      BY <3>2, <3>4
  <2>5. pte' = pte
    BY <1>4 DEF LockPages
  <2>. QED
    BY <2>1, <2>2, <2>3, <2>4, <2>5, SameOwners
<1>5. ASSUME NEW c \in Cpu, NEW p \in Page, NEW g \in Guest, NEW st \in {"Mapped", "VmState"},
             AssignPage(c, p, g, st)
      PROVE  PageInv'
  <2>1. /\ HostOwned(pages[p]) /\ pages[p].state = "ConvertedLocked"
        /\ pte[p] = "Invalidated"
    BY <1>0, <1>5, ListedPage, LockedPageOwner DEF AssignPage
  <2>2. pages' = [pages EXCEPT ![p] = Assign(@, g, st)] /\ pte' = pte
        /\ tracker' = tracker
    BY <1>5 DEF AssignPage, assign_page, active
  <2>3. /\ pages'[p].mem = pages[p].mem
        /\ pages'[p].state = st
        /\ GuestOwned(pages'[p])
    BY <1>1, <2>1, <2>2, AssignHostPage
  <2>4. ~HostOwned(pages'[p])
    BY <2>3 DEF HostOwned, GuestOwned
  <2>5. \A q \in Page : q # p => pages'[q] = pages[q]
    BY <1>1, <2>2
  <2>. QED
    BY <1>0, <2>1, <2>2, <2>3, <2>4, <2>5 DEF PageInv
<1>6. ASSUME NEW c \in Cpu, NEW p \in Page, UnlockPage(c, p)
      PROVE  PageInv'
  <2>1. HostOwned(pages[p]) /\ pte[p] = "Invalidated"
    BY <1>0, <1>6, ListedPage, LockedPageOwner DEF UnlockPage
  <2>2. pages' = [pages EXCEPT ![p] = WithState(@, "Converted", 0)] /\ pte' = pte
    BY <1>6 DEF UnlockPage, unlock_page, Unlock
  <2>3. /\ pages'[p].mem = pages[p].mem
        /\ pages'[p].owners = pages[p].owners
        /\ pages'[p].state = "Converted"
    BY <1>1, <2>2, WithStateKeeps
  <2>. QED
    BY <1>1, <2>1, <2>2, <2>3, SameOwners, {p} \in SUBSET Page
<1>7. ASSUME NEW c \in Cpu, ReclaimLock(c)
      PROVE  PageInv'
  <2>1. arg[c] \in SUBSET Page
    BY <1>0 DEF TypeOK
  <2>2. \A q \in arg[c] : HostOwned(pages[q]) /\ pages[q].state = "ConvertedLocked"
    BY <1>0, <1>7, <2>1, ListedPage, LockedPageOwner DEF ReclaimLock
  <2>3. /\ pages' = pages
        /\ \A q \in Page : pte'[q] = IF q \in arg[c] THEN "LockedUnmapped" ELSE pte[q]
    BY <1>7 DEF ReclaimLock
  <2>. QED
    BY <2>1, <2>2, <2>3, SameOwners
<1>8. ASSUME NEW c \in Cpu, NEW p \in Page, ReclaimPage(c, p)
      PROVE  PageInv'
  <2>1. HostOwned(pages[p])
    BY <1>0, <1>8, ListedPage, LockedPageOwner DEF ReclaimPage
  <2>2. /\ pages' = [pages EXCEPT ![p] = WithState(@, "Mapped", 0)]
        /\ pte' = [pte EXCEPT ![p] = "Leaf"]
    BY <1>8 DEF ReclaimPage, reclaim_page, Reclaim
  <2>3. /\ pages'[p].mem = pages[p].mem
        /\ pages'[p].owners = pages[p].owners
        /\ pages'[p].state = "Mapped"
    BY <1>1, <2>2, WithStateKeeps
  <2>. QED
    BY <1>1, <2>1, <2>2, <2>3, SameOwners, {p} \in SUBSET Page
<1>9. ASSUME NEW c \in Cpu, NEW S \in PageRange, NEW h \in Holder, ShareRange(c, S, h)
      PROVE  PageInv'
  <2>1. S \in SUBSET Page
    BY PageRangeType
  <2>2. \A q \in S : HostOwned(pages[q]) /\ pte[q] = "Leaf"
    BY <1>0, <1>9, <2>1 DEF ShareRange, PageInv
  <2>3. \A q \in Page : pages'[q] = IF q \in S THEN Share(pages[q]) ELSE pages[q]
    BY <1>1, <1>9 DEF ShareRange, share_pages
  <2>4. \A q \in S : /\ pages'[q].mem = pages[q].mem
                     /\ pages'[q].owners = pages[q].owners
                     /\ pages'[q].state = "Shared"
    BY <1>1, <2>1, <2>3, ShareFields
  <2>5. pte' = pte
    BY <1>9 DEF ShareRange
  <2>. QED
    BY <2>1, <2>2, <2>3, <2>4, <2>5, SameOwners
<1>10. ASSUME NEW p \in Page, NEW h \in Holder, Unshare(h, p)
       PROVE  PageInv'
  <2>1. pages[p].state = "Shared" /\ pages[p].arg # 0
    BY <1>0, <1>10, HolderMeansShared DEF Unshare
  <2>2. HostOwned(pages[p]) /\ pte[p] = "Leaf"
    BY <1>0, <2>1 DEF PageInv
  <2>3. pages' = [pages EXCEPT ![p] = Release(@)] /\ pte' = pte
    BY <1>10 DEF Unshare, release_page_by_addr
  <2>4. /\ pages'[p].mem = pages[p].mem
        /\ pages'[p].owners = pages[p].owners
        /\ pages'[p].state \in {"Mapped", "Shared"}
    BY <1>1, <2>1, <2>3, ReleaseShared
  <2>. QED
    BY <1>1, <2>2, <2>3, <2>4, SameOwners, {p} \in SUBSET Page
<1>11. ASSUME NEW p \in Page, NEW g \in Guest, GuestRelease(g, p)
       PROVE  PageInv'
  <2>1. GuestOwned(pages[p]) /\ ~HostOwned(pages[p])
    BY <1>0, <1>11, PageOwner DEF GuestRelease
  <2>2. pages[p].state \in {"Mapped", "VmState"} /\ pte[p] # "Leaf"
    BY <1>0, <2>1 DEF PageInv
  <2>3. pages' = [pages EXCEPT ![p] = Release(@)] /\ pte' = pte /\ tracker' = tracker
    BY <1>11 DEF GuestRelease, release_page_by_addr, active
  <2>4. /\ pages'[p].mem = pages[p].mem
        /\ pages'[p].state = "Converted"
        /\ HostOwned(pages'[p])
    BY <1>1, <2>1, <2>2, <2>3, ReleaseGuestPage
  <2>5. \A q \in Page : q # p => pages'[q] = pages[q]
    BY <1>1, <2>3
  <2>. QED
    BY <1>0, <2>2, <2>3, <2>4, <2>5 DEF PageInv
<1>12. ASSUME NEW c \in Cpu, SpaceStep(c)
       PROVE  PageInv'
  BY <1>2, <1>12 DEF SpaceStep, EnterSameVmid, EnterNewVmid, Leave, TlbFill
<1>13. ASSUME NEW c \in Cpu, ConvertStep(c)
       PROVE  PageInv'
  BY <1>2, <1>3, <1>13
  DEF ConvertStep, ConvertBegin, ConvertLock, ConvertFail, FenceBegin, FenceIommu
<1>14. ASSUME NEW c \in Cpu, LockStep(c)
       PROVE  PageInv'
  BY <1>2, <1>4, <1>5, <1>6, <1>7, <1>8, <1>14 DEF LockStep, LockBegin, LockFail
<1>15. ASSUME OtherStep
       PROVE  PageInv'
  BY <1>2, <1>10, <1>11, <1>15 DEF OtherStep, IotlbFill
<1>16. CASE UNCHANGED vars
  BY <1>2, <1>16 DEF vars
<1>. QED
  BY <1>9, <1>12, <1>13, <1>14, <1>15, <1>16 DEF Next
=============================================================================
