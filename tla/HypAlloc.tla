------------------------------ MODULE HypAlloc ------------------------------
(***************************************************************************)
(* The hypervisor's boot heap: an allocator that only moves its end, and   *)
(* the arenas of the device tree and of PCI that grow in it.  Nothing is   *)
(* freed, and nothing is allocated once the heap is sealed.                *)
(***************************************************************************)
EXTENDS Integers, Sequences
CONSTANTS
    Width,      \* bits of usize
    Base,       \* address of the heap
    Capacity,   \* its size in bytes
    Size,       \* sizes of layouts
    Alignment,  \* alignments of layouts
    Arena,      \* arenas
    Value,      \* values inserted
    ElemSize, ElemAlign, MaxIds  \* layout of Option<T>; bound: ids of an arena
ASSUME HypAllocAssumption ==
    /\ Width \in Nat /\ Base \in Nat /\ Capacity \in Nat
    /\ Size \subseteq Nat /\ Alignment \subseteq Nat \ {0}
    /\ ElemSize \in Nat \ {0} /\ ElemAlign \in Nat \ {0} /\ MaxIds \in Nat
    /\ Base + Capacity < 2^Width
VARIABLES
    end,        \* offset of the first byte never given out
    sealed,
    blocks,     \* history: blocks given out
    vecs,       \* arena -> its vector: values by index, capacity and block
    inserted,   \* history: arena -> the value inserted under each id
    removed     \* history: arena -> ids removed

vars == <<end, sealed, blocks, vecs, inserted, removed>>

None == "none"
NoBlock == [start |-> 0, size |-> 0, align |-> 1]

Init == /\ end = 0 /\ sealed = FALSE /\ blocks = {}
        /\ vecs = [a \in Arena |-> [vals |-> <<>>, cap |-> 0, block |-> NoBlock]]
        /\ inserted = [a \in Arena |-> <<>>] /\ removed = [a \in Arena |-> {}]

\* pointer::align_offset(): bytes up to the next multiple of the alignment.
align_offset(address, align) == (align - (address % align)) % align

checked(sum) == sum < 2^Width
Fits(start, size) == checked(start) /\ start <= Capacity /\ checked(start + size) /\ start + size <= Capacity

\* HypAllocInner::allocate(), and the empty layout that takes no memory.
BlockStart(size, align) == end + align_offset(Base + end, align)
allocates(size, align) == ~sealed /\ Fits(BlockStart(size, align), size)
allocate_block(size, align) == [start |-> BlockStart(size, align), size |-> size, align |-> align]
GiveBlock(size, align) ==
    /\ end' = BlockStart(size, align) + size
    /\ blocks' = blocks \cup {allocate_block(size, align)}

Allocate(size, align) ==
    /\ IF size > 0 /\ allocates(size, align)
       THEN GiveBlock(size, align)
       ELSE UNCHANGED <<end, blocks>>
    /\ UNCHANGED <<sealed, vecs, inserted, removed>>

Seal == sealed' = TRUE /\ UNCHANGED <<end, blocks, vecs, inserted, removed>>

-----------------------------------------------------------------------------
(* Arena.                                                                   *)
\* Vec::try_reserve(): the capacity at least doubles when the vector is full.
grown(vec, additional) ==
    LET needed == Len(vec.vals) + additional
    IN IF needed <= vec.cap THEN vec.cap
       ELSE IF needed <= 2 * vec.cap THEN 2 * vec.cap ELSE needed
\* The vector moves to a new block when it grows; it stays as it is on an error.
Reserves(vec, cap) == cap = vec.cap \/ allocates(cap * ElemSize, ElemAlign)
BlockOfOld(vec, cap) == vec.block
BlockOf(vec, cap) == IF cap = vec.cap THEN vec.block ELSE allocate_block(cap * ElemSize, ElemAlign)
MoveVec(vec, cap) == IF cap = vec.cap THEN UNCHANGED <<end, blocks>> ELSE GiveBlock(cap * ElemSize, ElemAlign)

NewWithCapacity(a, capacity) ==
    LET cap == grown(vecs[a], capacity)
    IN /\ vecs[a].cap = 0 /\ capacity > 0
       /\ IF Reserves(vecs[a], cap)
          THEN /\ MoveVec(vecs[a], cap)
               /\ vecs' = [vecs EXCEPT ![a].cap = cap, ![a].block = BlockOf(vecs[a], cap)]
          ELSE UNCHANGED <<end, blocks, vecs>>
       /\ UNCHANGED <<sealed, inserted, removed>>

TryInsert(a, v) ==
    LET cap == grown(vecs[a], 1)
    IN /\ Len(inserted[a]) < MaxIds
       /\ IF Reserves(vecs[a], cap)
          THEN /\ MoveVec(vecs[a], cap)
               /\ vecs' = [vecs EXCEPT ![a] = [vals |-> Append(vecs[a].vals, v), cap |-> cap,
                                               block |-> BlockOf(vecs[a], cap)]]
               /\ inserted' = [inserted EXCEPT ![a] = Append(inserted[a], v)]
          ELSE UNCHANGED <<end, blocks, vecs, inserted>>
       /\ UNCHANGED <<sealed, removed>>

\* The slot of a removed id stays empty: ids are not used again.
RemovedVals(vals, id) == [vals EXCEPT ![id] = None]
Remove(a, id) ==
    /\ vecs' = [vecs EXCEPT ![a].vals = RemovedVals(@, id)]
    /\ removed' = [removed EXCEPT ![a] = @ \cup {id}]
    /\ UNCHANGED <<end, sealed, blocks, inserted>>

get(a, id) == IF id \in DOMAIN vecs[a].vals THEN vecs[a].vals[id] ELSE None
ids(a) == {i \in DOMAIN vecs[a].vals : vecs[a].vals[i] # None}

Next == \/ \E size \in Size, align \in Alignment : Allocate(size, align)
        \/ Seal
        \/ \E a \in Arena, capacity \in Size : NewWithCapacity(a, capacity)
        \/ \E a \in Arena, v \in Value : TryInsert(a, v)
        \/ \E a \in Arena : \E id \in ids(a) : Remove(a, id)
Spec == Init /\ [][Next]_vars

-----------------------------------------------------------------------------
\* Blocks never overlap and lie within the heap, whatever the order of
\* allocations, failed ones, and growing arenas: no byte is given out twice.
BlocksApart ==
    /\ \A b \in blocks : b.start + b.size <= Capacity
    /\ \A b, c \in blocks : b # c => b.start + b.size <= c.start \/ c.start + c.size <= b.start

\* Every block has the alignment its layout asks for, as an address and not only
\* as an offset in the heap.
BlocksAligned == \A b \in blocks : (Base + b.start) % b.align = 0

\* The vector of an arena has a block of its own that holds its elements, also
\* after a reservation failed because the heap is full or sealed.
ArenaBacked ==
    /\ \A a \in Arena : /\ Len(vecs[a].vals) <= vecs[a].cap
                        /\ vecs[a].cap > 0 => /\ vecs[a].block \in blocks
                                              /\ vecs[a].block.size = vecs[a].cap * ElemSize
    /\ \A a, b \in Arena : a # b /\ vecs[a].cap > 0 => vecs[a].block # vecs[b].block

\* "Subsequent calls to `get()` or `get_mut()` with the same ID will return `None`":
\* an id names the value inserted under it until it is removed, and then nothing,
\* while the arena grows and other ids come and go.
IdsStable ==
    \A a \in Arena : \A id \in DOMAIN inserted[a] :
        get(a, id) = IF id \in removed[a] THEN None ELSE inserted[a][id]

\* The boot heap and its arenas keep what they hold, whatever fails on the way: blocks are apart
\* and aligned, every arena has the memory of its elements, and ids keep their meaning.
HeapIsKept == BlocksApart /\ BlocksAligned /\ ArenaBacked /\ IdsStable
=============================================================================
