------------------------------- MODULE PageMap -------------------------------
(***************************************************************************)
(* What a guest-stage page table promises: every page address has one      *)
(* entry, and an operation changes the entries of the addresses it is      *)
(* given, all in the same way, and no others.  The levels, the pages they  *)
(* are made of and the bits of a PTE are not part of this specification.   *)
(***************************************************************************)
EXTENDS Integers

CONSTANTS Addr, Page

VARIABLES map   \* address -> the type of its entry and the page it holds, 0 for none

Is(type, page) == [type |-> type, page |-> page]
Empty == Is("Unused", 0)
Init == map = [a \in Addr |-> Empty]

(* How an operation changes the entry e of one address to f.               *)
Locks(e, f) == e.type \in {"Unused", "Invalidated"} /\ f = Is("LockedUnmapped", e.page)
LocksMapped(e, f) == e.type = "Leaf" /\ f = Is("LockedMapped", e.page)
Maps(e, f) == e.type = "LockedUnmapped" /\ \E p \in Page : f = Is("Leaf", p)
Remaps(e, f) == e.type = "LockedMapped" /\ \E p \in Page : f = Is("LockedMapped", p)
Unlocks(e, f) ==
    \/ e.type = "LockedMapped" /\ f = Is("Leaf", e.page)
    \/ e.type = "LockedUnmapped" /\ f = IF e.page = 0 THEN Empty ELSE Is("Invalidated", e.page)
Invalidates(e, f) == e.type = "Leaf" /\ f = Is("Invalidated", e.page)
Clears(e, f) == e.type = "Invalidated" /\ f = Empty

\* What one operation does to the addresses S.
Step(m, n) ==
    LET S == {a \in Addr : m[a] # n[a]} IN
    \/ \A a \in S : Locks(m[a], n[a])
    \/ \A a \in S : LocksMapped(m[a], n[a])
    \/ \A a \in S : Unlocks(m[a], n[a])
    \/ \A a \in S : Invalidates(m[a], n[a])
    \/ \A a \in S : Clears(m[a], n[a])
    \/ \E a \in Addr : S = {a} /\ (Maps(m[a], n[a]) \/ Remaps(m[a], n[a]))
    \/ \A a \in Addr : n[a] = Empty

Next == Step(map, map')
Spec == Init /\ [][Next]_map
=============================================================================
