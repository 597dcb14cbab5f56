------------------------------ MODULE RegionMap ------------------------------
(***************************************************************************)
(* What the region list of a VM promises: every page of the guest physical *)
(* address space has a region type or none, and an operation changes the   *)
(* type of exactly the pages it names, all of which had the same type.     *)
(***************************************************************************)
EXTENDS Integers

CONSTANTS NumAddrs, MaxVersion

VARIABLES
    kind,       \* the type of each page
    range       \* <<start, end>> of the pages last named

T(k) == [kind |-> k, version |-> 0]
Sharing(v) == [kind |-> "Sharing", version |-> v]
Unsharing(v) == [kind |-> "Unsharing", version |-> v]

Addr == 0..NumAddrs - 1

Init ==
    /\ kind = [a \in Addr |-> T("None")]
    /\ range = <<0, 0>>

InRange(a, r) == r[1] <= a /\ a < r[2]

\* The pages named go from type old to type new.
Retype(old, new) ==
    /\ \A a \in Addr : InRange(a, range') => kind[a] = old
    /\ kind' = [a \in Addr |-> IF InRange(a, range') THEN new ELSE kind[a]]

\* The retypings a VM can ask for, and the call that fails or has yet to finish.
Next ==
    /\ range' \in (0..NumAddrs) \X (0..NumAddrs)
    /\ \/ UNCHANGED kind
       \/ \E k \in {"Confidential", "Pci", "Mmio"} : Retype(T("None"), T(k))
       \/ Retype(T("Mmio"), T("None"))
       \/ Retype(T("Confidential"), T("Shared"))
       \/ Retype(T("Shared"), T("Confidential"))
       \/ \E v \in 0..MaxVersion :
            \/ Retype(T("Confidential"), Sharing(v))
            \/ Retype(T("Shared"), Unsharing(v))
            \/ Retype(Sharing(v), T("Shared"))
            \/ Retype(Unsharing(v), T("Confidential"))

Spec == Init /\ [][Next]_<<kind, range>>
=============================================================================
