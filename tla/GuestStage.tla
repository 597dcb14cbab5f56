------------------------------ MODULE GuestStage ------------------------------
(***************************************************************************)
(* GuestStagePageTable and GuestStageMapper: CPUs lock ranges of one page  *)
(* table for mapping or remapping, map page by page, and drop their        *)
(* mappers, while others invalidate and unmap ranges; at last the table is *)
(* dropped and releases what it holds.  Every step holds the table's       *)
(* mutex; between two steps any other CPU may take it.  First the page     *)
(* tables themselves (riscv-page-tables): PTEs, the types of entries a PTE *)
(* stands for, the walk from the root, and the operations on the entry of  *)
(* one address.  t maps every page-table page to its entries; a level of   *)
(* Depth is the root, level 1 maps pages.  Frame 0 is no frame.            *)
(***************************************************************************)
EXTENDS Integers, FiniteSetsExt

CONSTANTS
    Depth,      \* levels, 4 in the code
    Width,      \* entries of a table, 512 in the code
    Root,       \* the page of the root table
    TablePage   \* the other page-table pages, as frames

PageTableAssumption ==
    /\ Depth \in Nat \ {0} /\ Width \in Nat \ {0}
    /\ TablePage \subseteq Nat \ {0} /\ Root \in Nat \ ({0} \cup TablePage)

Table == {Root} \cup TablePage
Addr == 0..(Width^Depth - 1)
Index == 0..(Width - 1)
NoTable == 0
Frame == Nat

-----------------------------------------------------------------------------
(* Pte: the valid, locked and leaf (RWX) bits, and the frame.              *)

Pte == [valid : BOOLEAN, locked : BOOLEAN, leaf : BOOLEAN, pfn : Frame]
ClearPte == [valid |-> FALSE, locked |-> FALSE, leaf |-> FALSE, pfn |-> 0]
\* set() writes all of the PTE, the lock bit included.
SetLeaf(pfn) == [valid |-> TRUE, locked |-> FALSE, leaf |-> TRUE, pfn |-> pfn]
SetTable(pfn) == [valid |-> TRUE, locked |-> FALSE, leaf |-> FALSE, pfn |-> pfn]
\* invalidate() clears the valid bit, and nothing else.
InvalidatePte(e) == [e EXCEPT !.valid = FALSE]
LockPte(e) == [e EXCEPT !.locked = TRUE]
UnlockedPte(e) == [e EXCEPT !.locked = FALSE]
\* Mutant: a frame that is no number of a page.
UpdatePfn(e, pfn) == [e EXCEPT !.pfn = pfn]

\* TableEntryType::from_pte()
EntryType(e) ==
    CASE ~e.valid /\ e.locked -> "LockedUnmapped"
      [] ~e.valid /\ ~e.locked /\ e.pfn # 0 -> "Invalidated"
      [] ~e.valid /\ ~e.locked /\ e.pfn = 0 -> "Unused"
      [] e.valid /\ ~e.leaf -> "Table"
      [] e.valid /\ e.leaf /\ e.locked -> "LockedMapped"
      [] e.valid /\ e.leaf /\ ~e.locked -> "Leaf"

-----------------------------------------------------------------------------
\* PageTableIndex::from_addr()
from_addr(addr, level) == (addr \div Width^(level - 1)) % Width

\* The table of each level on the way to addr, NoTable below the last one.
TableAt(t, addr) ==
    LET at[l \in 1..Depth] ==
            IF l = Depth THEN Root
            ELSE LET up == at[l + 1] IN
                 IF up # NoTable /\ EntryType(t[up][from_addr(addr, l + 1)]) = "Table"
                 THEN t[up][from_addr(addr, l + 1)].pfn ELSE NoTable
    IN at

\* walk(): where the entry that decides addr is.
walk(t, addr) ==
    LET at == TableAt(t, addr)
        level == CHOOSE l \in 1..Depth : at[l] # NoTable /\ (l > 1 => at[l - 1] = NoTable)
    IN [table |-> at[level], index |-> from_addr(addr, level), level |-> level]

EntryAt(t, addr) == LET w == walk(t, addr) IN t[w.table][w.index]
TypeAt(t, addr) == EntryType(EntryAt(t, addr))
IsLeafLevel(t, addr) == walk(t, addr).level = 1
SetEntry(t, addr, e) == LET w == walk(t, addr) IN [t EXCEPT ![w.table][w.index] = e]

\* next_level_or_fill_fn() down to the table of level 1, with page-table pages from
\* pool.  What was filled in before the pool ran out stays.
fill(t, addr, pool) ==
    LET step[l \in 1..Depth] ==
            IF l = Depth THEN [t |-> t, pool |-> pool, table |-> Root, error |-> "none"]
            ELSE LET s == step[l + 1]
                     i == from_addr(addr, l + 1)
                     e == s.t[s.table][i] IN
                 IF s.error # "none" THEN s
                 ELSE IF EntryType(e) = "Table" THEN [s EXCEPT !.table = e.pfn]
                 ELSE IF EntryType(e) # "Unused" THEN [s EXCEPT !.error = "MappingExists"]
                 ELSE IF s.pool = {} THEN [s EXCEPT !.error = "InsufficientPtePages"]
                 ELSE [s EXCEPT !.t[s.table][i] = SetTable(Min(s.pool)),
                                !.table = Min(s.pool), !.pool = @ \ {Min(s.pool)}]
    IN step[1]

lock_leaf_for_mapping(t, addr, pool) ==
    LET s == fill(t, addr, pool)
        i == from_addr(addr, 1)
        type == EntryType(s.t[s.table][i]) IN
    IF s.error # "none" THEN s
    ELSE IF type \in {"Invalidated", "Unused"}
         THEN [s EXCEPT !.t[s.table][i] = LockPte(@)]
    ELSE IF type \in {"LockedMapped", "LockedUnmapped"} THEN [s EXCEPT !.error = "PteLocked"]
    ELSE [s EXCEPT !.error = "MappingExists"]

lock_leaf_for_remapping(t, addr) ==
    [t |-> IF TypeAt(t, addr) = "Leaf" THEN SetEntry(t, addr, LockPte(EntryAt(t, addr))) ELSE t,
     error |-> CASE TypeAt(t, addr) = "Leaf" -> "none"
                 [] TypeAt(t, addr) \in {"Invalidated", "Unused"} -> "PageNotMapped"
                 [] OTHER -> "PteLocked"]

\* unlock_leaf(), whose failure on a PTE that is not locked is ignored.
unlock_leaf(t, addr) ==
    IF TypeAt(t, addr) \in {"LockedUnmapped", "LockedMapped"}
    THEN SetEntry(t, addr, UnlockedPte(EntryAt(t, addr))) ELSE t

\* max_pte_pages()
max_pte_pages(pages, rootPages) ==
    LET num[l \in 1..(Depth - 1)] ==
            (IF l = 1 THEN pages ELSE num[l - 1]) \div Width + 1
        sum[l \in 0..(Depth - 1)] == IF l = 0 THEN rootPages ELSE sum[l - 1] + num[l]
    IN sum[Depth - 1]

-----------------------------------------------------------------------------
(* The page table of a VM and its mappers.                                 *)

CONSTANTS
    Page,       \* pages to map, as frames
    Mapper,     \* the CPUs, each with at most one mapper
    Base,       \* first address of the address space in use, and
    NumPages,   \* its size, for which page-table pages were provided
    Careful     \* a range is left alone while another CPU's mapper covers it

GuestStageAssumption ==
    /\ Page \subseteq Nat \ ({0, Root} \cup TablePage)
    /\ Base \in Nat /\ NumPages \in Nat \ {0} /\ Base + NumPages <= Width^Depth
    /\ Careful \in BOOLEAN

VARIABLES
    tables,     \* page-table page -> its entries
    pool,       \* page-table pages not in use yet
    mapper,     \* CPU -> its GuestStageMapper
    released,   \* page -> how often it was released
    alive,      \* the page table exists
    view        \* the map the tables stand for, a function of tables

vars == <<tables, pool, mapper, released, alive, view>>

Used == Base..(Base + NumPages - 1)
Ranges == {r \in Used \X (1..NumPages) : r[1] + r[2] <= Base + NumPages}
RangeOf(r) == r[1]..(r[1] + r[2] - 1)

\* A GuestStageMapper: its range, and the addresses it has not mapped yet.
NoMapper == [kind |-> "none", vaddr |-> 0, num_pages |-> 0, todo |-> {}]
NewMapper(kind, vaddr, n) ==
    [kind |-> kind, vaddr |-> vaddr, num_pages |-> n,
     todo |-> IF kind = "failed" THEN {} ELSE vaddr..(vaddr + n - 1)]
Covers(m) == mapper[m].vaddr..(mapper[m].vaddr + mapper[m].num_pages - 1)
Uncovered(S, c) == Careful => \A m \in Mapper \ {c} : Covers(m) \cap S = {}

\* The pages the table refers to, and the pages a CPU may pass in: one nobody else holds,
\* or the invalidated page itself (a page that is reclaimed).
Held == {tables[t][i].pfn : t \in Table, i \in Index} \cap Page
Mappable(a) == IF EntryAt(tables, a).pfn # 0 THEN {EntryAt(tables, a).pfn}
               ELSE {p \in Page \ Held : released[p] = 0}

-----------------------------------------------------------------------------
\* What an address is to the callers of the page table.
Flat(t) == [a \in Used |-> IF IsLeafLevel(t, a)
                           THEN [type |-> TypeAt(t, a), page |-> EntryAt(t, a).pfn]
                           ELSE [type |-> "Unused", page |-> 0]]

\* The tables are now t.
Update(t) == tables' = t /\ view' = Flat(t)

\* The pages provided for NumPages pages.
PtePages == {p \in TablePage : p <= Root + max_pte_pages(NumPages, 0)}

Init ==
    /\ tables = [t \in Table |-> [i \in Index |-> ClearPte]]
    /\ pool = PtePages
    /\ mapper = [m \in Mapper |-> NoMapper]
    /\ released = [p \in Page \cup TablePage \cup {Root} |-> 0]
    /\ alive = TRUE
    /\ view = Flat(tables)

\* The loop of map_range(): the state when address number n of the range is locked, or
\* where it stopped.
LockLoop(vaddr, n) ==
    LET loop[k \in 0..n] ==
            IF k = 0 THEN [t |-> tables, pool |-> pool, locked |-> 0, error |-> "none"]
            ELSE LET s == loop[k - 1]
                     l == lock_leaf_for_mapping(s.t, vaddr + k - 1, s.pool) IN
                 IF s.error # "none" THEN s
                 ELSE [t |-> l.t, pool |-> l.pool, error |-> l.error,
                       locked |-> IF l.error = "none" THEN k ELSE s.locked]
    IN loop[n]

map_range(c, vaddr, n) ==
    LET r == LockLoop(vaddr, n) IN
    /\ alive /\ mapper[c] = NoMapper
    /\ Uncovered(vaddr..(vaddr + n - 1), c)
    /\ Update(r.t)
    /\ pool' = r.pool
    \* On an error the mapper of what was locked is dropped, after the mutex was released.
    /\ mapper' = [mapper EXCEPT ![c] =
                    NewMapper(IF r.error = "none" THEN "map" ELSE "failed", vaddr, r.locked)]
    /\ UNCHANGED <<released, alive>>

remap_range(c, vaddr, n) ==
    LET locked == CHOOSE k \in 0..n :
                    /\ \A i \in 0..(k - 1) : TypeAt(tables, vaddr + i) = "Leaf"
                    /\ k < n => TypeAt(tables, vaddr + k) # "Leaf"
        done == vaddr..(vaddr + locked - 1) IN
    /\ alive /\ mapper[c] = NoMapper
    /\ Uncovered(vaddr..(vaddr + n - 1), c)
    /\ Update(FoldSet(LAMBDA a, t : lock_leaf_for_remapping(t, a).t, tables, done))
    /\ mapper' = [mapper EXCEPT ![c] =
                    NewMapper(IF locked = n THEN "remap" ELSE "failed", vaddr, locked)]
    /\ UNCHANGED <<pool, released, alive>>

\* map_page() and remap_page() of an address the mapper has not mapped yet; without
\* effect when the PTE is not in the state they need.
map_page(c, a, p) ==
    /\ mapper[c].kind = "map" /\ a \in mapper[c].todo
    /\ TypeAt(tables, a) = "LockedUnmapped"
    /\ Update(SetEntry(tables, a, SetLeaf(p)))
    /\ mapper' = [mapper EXCEPT ![c].todo = @ \ {a}]
    /\ UNCHANGED <<pool, released, alive>>

\* update_page_addr() keeps the PTE locked.
remap_page(c, a, p) ==
    /\ mapper[c].kind = "remap" /\ a \in mapper[c].todo
    /\ TypeAt(tables, a) = "LockedMapped"
    /\ Update(SetEntry(tables, a, UpdatePfn(EntryAt(tables, a), p)))
    /\ mapper' = [mapper EXCEPT ![c].todo = @ \ {a}]
    /\ UNCHANGED <<pool, released, alive>>

\* Drop for GuestStageMapper, of the mapper that failed, too.
\* Mutant: the mapper of a range that could not be locked is forgotten.
ForgetFailed(c) ==
    /\ mapper[c] # NoMapper
    /\ Update(IF mapper[c].kind = "failed" THEN tables
                 ELSE FoldSet(LAMBDA a, t : unlock_leaf(t, a), tables, Covers(c)))
    /\ mapper' = [mapper EXCEPT ![c] = NoMapper]
    /\ UNCHANGED <<pool, released, alive>>
DropMapper(c) ==
    /\ mapper[c] # NoMapper
    /\ Update(FoldSet(LAMBDA a, t : unlock_leaf(t, a), tables, Covers(c)))
    /\ mapper' = [mapper EXCEPT ![c] = NoMapper]
    /\ UNCHANGED <<pool, released, alive>>

\* get_mapped_pages() finds the whole range mapped.
get_mapped_pages(S) == \A a \in S : TypeAt(tables, a) = "Leaf" /\ IsLeafLevel(tables, a)

do_invalidate_range(S, sparse) ==
    /\ alive /\ (Careful => \A m \in Mapper : Covers(m) \cap S = {})
    /\ IF sparse THEN \A a \in S : TypeAt(tables, a) \in {"Leaf", "Unused"} ELSE get_mapped_pages(S)
    /\ Update(FoldSet(LAMBDA a, t : IF TypeAt(t, a) = "Leaf"
                                       THEN SetEntry(t, a, InvalidatePte(EntryAt(t, a))) ELSE t,
                         tables, S))
    /\ UNCHANGED <<pool, mapper, released, alive>>

\* The pages are handed back to the caller, for instance to give them to the host.
unmap_range(S) ==
    /\ alive /\ (Careful => \A m \in Mapper : Covers(m) \cap S = {})
    /\ \A a \in S : TypeAt(tables, a) \in {"Invalidated", "Unused"}
    /\ Update(FoldSet(LAMBDA a, t : IF TypeAt(t, a) = "Invalidated" THEN SetEntry(t, a, ClearPte) ELSE t,
                         tables, S))
    /\ UNCHANGED <<pool, mapper, released, alive>>

-----------------------------------------------------------------------------
\* release_pages() from the root: how often each page is released.
Refers(p, types) == {x \in Table \X Index : /\ tables[x[1]][x[2]].pfn = p
                                            /\ EntryType(tables[x[1]][x[2]]) \in types}
release_pages(p) == IF p = Root THEN 1 ELSE Cardinality(Refers(p, {"Table", "Leaf", "Invalidated"}))

\* Drop for GuestStagePageTable.  The mappers borrow the table: none is left.
DropTable ==
    /\ alive /\ \A m \in Mapper : mapper[m] = NoMapper
    /\ released' = [p \in DOMAIN released |-> released[p] + release_pages(p)]
    /\ Update([t \in Table |-> [i \in Index |-> ClearPte]])
    /\ alive' = FALSE
    /\ UNCHANGED <<pool, mapper>>

Next ==
    \/ \E c \in Mapper, r \in Ranges : map_range(c, r[1], r[2]) \/ remap_range(c, r[1], r[2])
    \/ \E c \in Mapper : \E a \in mapper[c].todo : \E p \in Mappable(a) : map_page(c, a, p)
    \/ \E c \in Mapper : \E a \in mapper[c].todo : \E p \in Page \ Held : remap_page(c, a, p)
    \/ \E c \in Mapper : DropMapper(c)
    \/ \E r \in Ranges, sparse \in BOOLEAN : do_invalidate_range(RangeOf(r), sparse)
    \/ \E r \in Ranges : unmap_range(RangeOf(r))
    \/ DropTable

Spec == Init /\ [][Next]_vars

-----------------------------------------------------------------------------
TypeOK ==
    /\ DOMAIN tables = Table /\ \A t \in Table, i \in Index : tables[t][i] \in Pte
    /\ pool \subseteq TablePage
    /\ \A m \in Mapper : mapper[m].kind \in {"none", "map", "remap", "failed"}
    /\ released \in [Page \cup TablePage \cup {Root} -> Nat]
    /\ alive \in BOOLEAN

(* Every page-table page is either in the pool or linked from exactly one  *)
(* entry, one page is not linked from two tables, and a page is mapped at  *)
(* one address (next_level_or_fill_fn, map_leaf, update_page_addr).        *)
OneReference ==
    alive =>
      /\ \A p \in TablePage :
           Cardinality(Refers(p, {"Table"})) = IF p \in PtePages \ pool THEN 1 ELSE 0
      /\ \A p \in Page : \A x, y \in Table \X Index :
           tables[x[1]][x[2]].pfn = p /\ tables[y[1]][y[2]].pfn = p => x = y

(* A mapper can map what it has not mapped yet: "Mapping a page in this    *)
(* range is guaranteed to succeed as long as the address hasn't already    *)
(* been mapped by this GuestStageMapper" (page_table.rs 1197), although    *)
(* other CPUs' mappers of other ranges come and go.                        *)
MapperSucceeds ==
    \A m \in Mapper : \A a \in mapper[m].todo :
        TypeAt(tables, a) = IF mapper[m].kind = "map" THEN "LockedUnmapped" ELSE "LockedMapped"

(* No PTE stays locked without a mapper that covers it: the next mapping   *)
(* of the address would fail for ever (Drop for GuestStageMapper, and the  *)
(* early return of map_range and remap_range).                             *)
LocksHaveMappers ==
    \A a \in Used : TypeAt(tables, a) \in {"LockedUnmapped", "LockedMapped"}
                        => \E m \in Mapper : a \in Covers(m)

(* Page-table pages for max_pte_pages(NumPages) suffice, whatever ranges   *)
(* are mapped in whatever order: the pool is never empty when a table is   *)
(* missing on the way to an address in use.                                *)
PoolSuffices == alive => \A a \in Used : ~IsLeafLevel(tables, a) => pool # {}

(* The dropped table has released every page it held exactly once, mapped, *)
(* invalidated or a table (release_pages, Drop for GuestStagePageTable).   *)
ReleasedOnce ==
    [][alive /\ ~alive' =>
         \A p \in DOMAIN released' :
            released'[p] = IF p = Root \/ p \in Held \/ (p \in TablePage /\ Refers(p, {"Table"}) # {})
                           THEN 1 ELSE 0]_vars

(* The page table implements a map of addresses: filling in tables changes *)
(* no entry, and no operation touches an address it was not given.         *)
Abstract == INSTANCE PageMap WITH Addr <- Used, map <- view
ImplementsPageMap == Abstract!Spec

=============================================================================
