-------------------------- MODULE DeviceDirectory --------------------------
(***************************************************************************)
(* The device directory of the IOMMU: a radix tree from device IDs to      *)
(* device contexts.  Each method runs with the directory's lock; the       *)
(* hardware reads it at any time, so that set() is the sequence of its     *)
(* stores.                                                                 *)
(***************************************************************************)
EXTENDS Integers, Sequences

CONSTANTS
    Id,                     \* device IDs that are used
    Vm, NoVm,
    LEAF_INDEX_BITS, NON_LEAF_INDEX_BITS, LEVELS,
    NumPages                \* pages get_page() can give

DirectoryAssumption ==
    /\ LEAF_INDEX_BITS \in Nat /\ NON_LEAF_INDEX_BITS \in Nat
    /\ LEVELS \in Nat \ {0} /\ NumPages \in Nat
    /\ Id \subseteq 0..(2^(LEAF_INDEX_BITS + (LEVELS - 1) * NON_LEAF_INDEX_BITS) - 1)

VARIABLES
    table,      \* page -> index -> next page (level > 0), 0 if invalid
    leaf,       \* page -> index -> device context (level 0)
    used,       \* pages taken; the root is page 1
    storing,    \* the device context being set, with the stores that are left
    added,      \* IDs for which add_device() succeeded
    enabled     \* ID -> the VM it is enabled for

vars == <<table, leaf, used, storing, added, enabled>>

Page == 1..(NumPages + 1)
NonLeafIndex == 0..(2^NON_LEAF_INDEX_BITS - 1)
LeafIndex == 0..(2^LEAF_INDEX_BITS - 1)

\* tc is "zero" in a fresh page.  The other fields name the VM whose tables they hold.
Zeroed == [tc |-> "zero", msiptp |-> NoVm, iohgatp |-> NoVm]
Invalidated == [Zeroed EXCEPT !.tc = "sw_invalidated"]
present(e) == e.tc # "zero"
valid(e) == e.tc = "valid"
NotStoring == [left |-> <<>>, page |-> 0, index |-> 0, vm |-> NoVm, id |-> -1]

level_index_bits(id, level) ==
    IF level = 0 THEN id % 2^LEAF_INDEX_BITS
    ELSE (id \div 2^(LEAF_INDEX_BITS + NON_LEAF_INDEX_BITS * (level - 1)))
            % 2^NON_LEAF_INDEX_BITS

Init ==
    /\ table = [p \in Page |-> [i \in NonLeafIndex |-> 0]]
    /\ leaf = [p \in Page |-> [i \in LeafIndex |-> Zeroed]]
    /\ used = 1
    /\ storing = NotStoring
    /\ added = {} /\ enabled = [d \in Id |-> NoVm]

\* The tables from the root to the leaf for id, as far as they are there: 0 beyond.
Walk(t, id) ==
    LET at[level \in 0..(LEVELS - 1)] ==
            IF level = LEVELS - 1 THEN 1
            ELSE IF at[level + 1] = 0 THEN 0
            ELSE t[at[level + 1]][level_index_bits(id, level + 1)]
    IN at

\* get_page(): the pages in use afterwards, and the entry that points to the new page.
Used(u) == u + 1
NonLeafEntry(u) == u + 1

\* The loop of add_device(): next_level_or_fill() until it is a leaf, or out of pages.
\* state.table, state.used as they are when level is reached; state.at is 0 after a failure.
Fill(id) ==
    LET step[level \in 0..(LEVELS - 1)] ==
            IF level = LEVELS - 1 THEN [table |-> table, used |-> used, at |-> 1]
            ELSE LET up == step[level + 1]
                     i == level_index_bits(id, level + 1)
                 IN IF up.at = 0 THEN up
                    ELSE IF up.table[up.at][i] # 0 THEN [up EXCEPT !.at = up.table[up.at][i]]
                    ELSE IF up.used = NumPages + 1 THEN [up EXCEPT !.at = 0]
                    ELSE [table |-> [up.table EXCEPT ![up.at][i] = NonLeafEntry(up.used)],
                          used |-> Used(up.used), at |-> NonLeafEntry(up.used)]
    IN step[0]

InitContext(e) == IF present(e) THEN e ELSE Invalidated
add_device(id) ==
    LET f == Fill(id)
        i == level_index_bits(id, 0)
    IN /\ storing = NotStoring
       /\ table' = f.table /\ used' = f.used
       /\ IF f.at = 0 THEN UNCHANGED <<leaf, added>>
          ELSE /\ leaf' = [leaf EXCEPT ![f.at][i] = InitContext(@)]
               /\ added' = added \cup {id}
       /\ UNCHANGED <<storing, enabled>>

\* get_context_for_id(): the page of the context, 0 for none.
get_context_for_id(id) ==
    LET p == Walk(table, id)[0]
    IN IF p # 0 /\ present(leaf[p][level_index_bits(id, 0)]) THEN p ELSE 0

\* enable_device(): the stores of set(), in order.
StoresEarlyValid == <<"msiptp", "tc", "iohgatp">>
Stores == <<"msiptp", "iohgatp", "tc">>
enable_device(id, vm) ==
    LET p == get_context_for_id(id)
        i == level_index_bits(id, 0)
    IN /\ storing = NotStoring /\ p # 0 /\ ~valid(leaf[p][i])
       /\ storing' = [left |-> Stores, page |-> p, index |-> i, vm |-> vm, id |-> id]
       /\ UNCHANGED <<table, leaf, used, added, enabled>>

Store ==
    LET field == storing.left[1]
    IN /\ storing.left # <<>>
       /\ leaf' = [leaf EXCEPT ![storing.page][storing.index][field] =
                     IF field = "tc" THEN "valid" ELSE storing.vm]
       /\ IF Len(storing.left) = 1
          THEN storing' = NotStoring /\ enabled' = [enabled EXCEPT ![storing.id] = storing.vm]
          ELSE storing' = [storing EXCEPT !.left = Tail(@)] /\ UNCHANGED enabled
       /\ UNCHANGED <<table, used, added>>

disable_device(id) ==
    LET p == get_context_for_id(id)
        i == level_index_bits(id, 0)
    IN /\ storing = NotStoring /\ p # 0 /\ valid(leaf[p][i])
       /\ leaf' = [leaf EXCEPT ![p][i].tc = "sw_invalidated"]
       /\ enabled' = [enabled EXCEPT ![id] = NoVm]
       /\ UNCHANGED <<table, used, storing, added>>

Next ==
    \/ Store
    \/ \E id \in Id : \/ add_device(id) \/ disable_device(id)
                      \/ \E vm \in Vm : enable_device(id, vm)

Spec == Init /\ [][Next]_vars

-----------------------------------------------------------------------------
TypeOK ==
    /\ used \in Page
    /\ table \in [Page -> [NonLeafIndex -> 0..used]]
    /\ leaf \in [Page -> [LeafIndex -> [tc : {"zero", "sw_invalidated", "valid"},
                                        msiptp : Vm \cup {NoVm}, iohgatp : Vm \cup {NoVm}]]]

\* What the hardware finds for an ID.
Found(id) ==
    LET p == Walk(table, id)[0] IN IF p = 0 THEN Zeroed ELSE leaf[p][level_index_bits(id, 0)]

\* The hardware finds a valid context for exactly the devices that are enabled, with the
\* tables they were enabled with, whatever was done for other IDs and in the middle of set().
HardwareFindsEnabled ==
    \A id \in Id :
        /\ valid(Found(id)) <=> enabled[id] # NoVm
        /\ valid(Found(id)) => Found(id).msiptp = enabled[id] /\ Found(id).iohgatp = enabled[id]

\* A device is known once it was added, also when adding others ran out of pages.
AddedIsPresent == \A id \in Id : get_context_for_id(id) # 0 <=> id \in added

\* A table page has one place in the tree: it is not also the next level of another entry.
TreeOfPages ==
    /\ \A p, q \in 1..used : \A i, j \in NonLeafIndex :
        table[p][i] # 0 /\ table[p][i] = table[q][j] => p = q /\ i = j
    /\ \A p \in 1..used, i \in NonLeafIndex : table[p][i] # 1

=============================================================================
