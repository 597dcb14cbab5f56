------------------------------ MODULE PageInfo ------------------------------
(***************************************************************************)
(* The per-page ownership record of the page tracker and its transitions,  *)
(* from page-tracking/src/page_info.rs.  Every method of PageInfo that     *)
(* returns a Result becomes two operators: CanX(info), true exactly when   *)
(* the method returns Ok, and X(info), the record it leaves behind.  A     *)
(* method that returns Err leaves the record as it was.                    *)
(*                                                                         *)
(* The payloads of the states that have one (the reference count of        *)
(* Shared, the TLB version of Converting and Unassigning) are kept in the  *)
(* field arg, which is 0 in every other state.  The link field, which      *)
(* threads pages into PageLists, is not part of the record.                *)
(***************************************************************************)
EXTENDS Integers, Sequences

CONSTANT RefCountMax    \* the largest reference count of a shared page, u64::MAX

ASSUME RefCountMaxAssumption == RefCountMax \in Nat \ {0}

\* PageOwnerId: 0 is the host VM, 1 the hypervisor, 2.. the guest VMs.
HostId == 0
HypervisorId == 1
PageOwnerId == Nat
NoOwner == -1

MAX_PAGE_OWNERS == 2

MemType == {"Ram", "Imsic", "Pci"}

PageState == {"Reserved", "Free", "Mapped", "Shared", "VmState", "HypState",
              "Converting", "Unassigning", "Converted", "ConvertedLocked"}

\* The ownership chain: empty when the hypervisor owns the page.
PageOwnerVec == {s \in Seq(PageOwnerId) : Len(s) <= MAX_PAGE_OWNERS}

PageInfoType == [mem : MemType, state : PageState, arg : Nat, owners : PageOwnerVec]

-----------------------------------------------------------------------------
\* PageInfo::owner(): the end of the chain, in the states that have an owner.
Owner(info) ==
    IF info.state \in {"Reserved", "Free", "HypState"} THEN NoOwner
    ELSE IF info.owners = <<>> THEN HypervisorId
    ELSE info.owners[Len(info.owners)]

\* owners.pop() and owners.push(owner).
PopOwner(owners) == SubSeq(owners, 1, Len(owners) - 1)

\* The record with a new state; only the states with a payload take one.
WithState(info, st, n) == [info EXCEPT !.state = st, !.arg = n]

IsShared(info) == info.state = "Shared"

\* release(): a shared page loses one reference; any other releasable page goes
\* back, Converted, to the previous owner in the chain.
CanRelease(info) ==
    \/ /\ info.state \in {"Mapped", "VmState", "Converted", "Converting", "Unassigning"}
       /\ info.owners # <<>>
    \/ IsShared(info) /\ info.arg > 0

Release(info) ==
    IF IsShared(info)
    THEN IF info.arg = 1 THEN WithState(info, "Mapped", 0)
                         ELSE WithState(info, "Shared", info.arg - 1)
    ELSE [WithState(info, "Converted", 0) EXCEPT !.owners = PopOwner(@)]

\* assign(owner, new_state).
CanAssign(info, owner, st) ==
    \/ info.state = "Free" /\ st \in {"ConvertedLocked", "HypState"}
    \/ /\ info.state = "ConvertedLocked" /\ st \in {"Mapped", "VmState"}
       /\ Len(info.owners) < MAX_PAGE_OWNERS

Assign(info, owner, st) ==
    IF info.state = "Free" /\ owner = HypervisorId
    THEN WithState(info, st, 0)
    ELSE [WithState(info, st, 0) EXCEPT !.owners = Append(@, owner)]

\* begin_conversion(), is_convertible() and complete_conversion().
CanBeginConversion(info) == info.state = "Mapped"
BeginConversion(info, version) == WithState(info, "Converting", version)

IsConvertible(info, version) == info.state = "Converting" /\ info.arg < version
CompleteConversion(info) == WithState(info, "Converted", 0)

\* begin_unassignment(), is_unassignable() and complete_unassignment().
CanBeginUnassignment(info) == info.state = "Mapped"
BeginUnassignment(info, version) == WithState(info, "Unassigning", version)

IsUnassignable(info, version) == info.state = "Unassigning" /\ info.arg < version
CompleteUnassignment(info) ==
    [WithState(info, "Converted", 0) EXCEPT !.owners = PopOwner(@)]

\* is_shareable() and share(): the count of a shared page must not overflow.
IsShareable(info) ==
    \/ info.state = "Mapped"
    \/ IsShared(info) /\ info.arg # RefCountMax
Share(info) ==
    WithState(info, "Shared", IF IsShared(info) THEN info.arg + 1 ELSE 1)

\* lock_for_assignment(), unlock() and reclaim().
LockForAssignment(info) == WithState(info, "ConvertedLocked", 0)

CanUnlock(info) == info.state = "ConvertedLocked"
Unlock(info) == WithState(info, "Converted", 0)

CanReclaim(info) == info.state = "ConvertedLocked"
Reclaim(info) == WithState(info, "Mapped", 0)

=============================================================================
