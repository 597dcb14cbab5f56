--------------------------- MODULE HypAllocProofs ---------------------------
(***************************************************************************)
(* Safety of the boot heap and of the arenas in it, for every size of the  *)
(* heap, every layout and any number of arenas.                            *)
(***************************************************************************)
EXTENDS HypAlloc, TLAPS

\* The inductive invariant: blocks end before the end of the heap that was given
\* out, vectors have the size of their block, and slots stand for ids.
Block == [start : Nat, size : Nat, align : Nat \ {0}]
HeapInv ==
    /\ end \in 0..Capacity /\ blocks \subseteq Block
    /\ \A b \in blocks : b.size > 0 /\ b.start + b.size <= end
    /\ BlocksApart /\ BlocksAligned
VecInv ==
    /\ vecs \in [Arena -> [vals : Seq(Value \cup {None}), cap : Nat, block : Block]]
    /\ \A a \in Arena : vecs[a].block.size = vecs[a].cap * ElemSize
    /\ ArenaBacked
IdInv ==
    /\ inserted \in [Arena -> Seq(Value)] /\ removed \in [Arena -> SUBSET Nat]
    /\ \A a \in Arena : /\ Len(vecs[a].vals) = Len(inserted[a])
                        /\ removed[a] \subseteq 1..Len(inserted[a])
    /\ IdsStable
HeapSafe == HeapInv /\ VecInv /\ IdInv

\* The offset to the next multiple of an alignment reaches one.
LEMMA AlignOffset ==
    ASSUME NEW x \in Nat, NEW a \in Nat \ {0}
    PROVE  /\ align_offset(x, a) \in Nat
           /\ (x + align_offset(x, a)) % a = 0
<1> DEFINE r == x % a
           q == x \div a
<1>1. r \in 0..(a-1) /\ q \in Nat /\ x = a * q + r
  OBVIOUS
<1>2. CASE r = 0
  <2>1. align_offset(x, a) = 0
    BY <1>2 DEF align_offset
  <2>. QED
    BY <2>1, <1>2
<1>3. CASE r # 0
  <2>1. align_offset(x, a) = a - r
    BY <1>1, <1>3 DEF align_offset
  <2>2. x + (a - r) = a * (q + 1)
    BY <1>1
  <2>3. (a * (q + 1)) % a = 0
    BY <1>1
  <2>. QED
    BY <1>1, <2>1, <2>2, <2>3
<1>. QED
  BY <1>1, <1>2, <1>3

\* A block that fits starts at or after the end, aligned, and ends in the heap.
LEMMA NewBlock ==
    ASSUME HeapInv, NEW size \in Nat \ {0}, NEW align \in Nat \ {0}, allocates(size, align)
    PROVE  /\ allocate_block(size, align) \in Block
           /\ allocate_block(size, align).start >= end
           /\ allocate_block(size, align).size = size
           /\ allocate_block(size, align).start + size <= Capacity
           /\ (Base + allocate_block(size, align).start) % align = 0
           /\ allocate_block(size, align) \notin blocks
<1> DEFINE start == BlockStart(size, align)
           new == allocate_block(size, align)
<1>1. Base + end \in Nat /\ end \in Nat /\ Base \in Nat /\ Capacity \in Nat
  BY HypAllocAssumption DEF HeapInv
<1>2. align_offset(Base + end, align) \in Nat
      /\ ((Base + end) + align_offset(Base + end, align)) % align = 0
  BY <1>1, AlignOffset
<1>3. start \in Nat /\ start >= end /\ (Base + start) % align = 0
  <2>1. Base + start = (Base + end) + align_offset(Base + end, align)
    BY <1>1, <1>2 DEF BlockStart
  <2>. QED
    BY <1>1, <1>2, <2>1 DEF BlockStart
<1>4. start + size <= Capacity
  BY DEF allocates, Fits
<1>5. new = [start |-> start, size |-> size, align |-> align]
  BY DEF allocate_block
<1> HIDE DEF start
<1>6. new \in Block /\ new.start = start /\ new.size = size
  BY <1>3, <1>5 DEF Block
<1>7. new \notin blocks
  <2>1. SUFFICES ASSUME new \in blocks PROVE FALSE
    OBVIOUS
  <2>2. start + size <= end
    BY <1>6, <2>1 DEF HeapInv
  <2>. QED
    BY <1>1, <1>3, <2>2
<1>. QED
  BY <1>3, <1>4, <1>6, <1>7

\* Giving out a block keeps the heap's invariant.
LEMMA GiveKeepsHeap ==
    ASSUME HeapInv, NEW size \in Nat \ {0}, NEW align \in Nat \ {0},
           allocates(size, align), GiveBlock(size, align)
    PROVE  HeapInv'
<1> DEFINE new == allocate_block(size, align)
<1>1. /\ new \in Block /\ new.start >= end /\ new.size = size /\ new.align = align
      /\ new.start + size <= Capacity /\ (Base + new.start) % align = 0
  BY NewBlock DEF allocate_block
<1>2. end' = new.start + size /\ blocks' = blocks \cup {new}
  BY DEF GiveBlock, allocate_block
<1> HIDE DEF new
<1>3. end \in Nat /\ Capacity \in Nat /\ new.start \in Nat /\ new.size \in Nat
  BY <1>1, HypAllocAssumption DEF HeapInv, Block
<1>4. end' \in 0..Capacity /\ blocks' \subseteq Block /\ end <= end'
  BY <1>1, <1>2, <1>3 DEF HeapInv
<1>5. \A b \in blocks : b.start \in Nat /\ b.size \in Nat /\ b.size > 0 /\ b.start + b.size <= end
  BY DEF HeapInv, Block
<1>6. \A b \in blocks' : b.size > 0 /\ b.start + b.size <= end'
  BY <1>1, <1>2, <1>3, <1>4, <1>5
<1>7. BlocksApart'
  <2>1. \A b \in blocks' : b.start + b.size <= Capacity
    BY <1>1, <1>2 DEF HeapInv, BlocksApart
  <2>2. \A b \in blocks : b.start + b.size <= new.start
    BY <1>1, <1>3, <1>5
  <2>3. \A b, c \in blocks : b # c => b.start + b.size <= c.start \/ c.start + c.size <= b.start
    BY DEF HeapInv, BlocksApart
  <2>4. \A b, c \in blocks' : b # c => b.start + b.size <= c.start \/ c.start + c.size <= b.start
    BY <1>2, <2>2, <2>3
  <2>. QED
    BY <2>1, <2>4 DEF BlocksApart
<1>8. BlocksAligned'
  BY <1>1, <1>2 DEF HeapInv, BlocksAligned
<1>. QED
  BY <1>4, <1>6, <1>7, <1>8 DEF HeapInv

\* A vector that reserves ends up in a block of its own with room for its capacity.
LEMMA ReserveKeepsHeap ==
    ASSUME HeapInv, VecInv, NEW a \in Arena, NEW cap \in Nat, cap >= vecs[a].cap,
           Reserves(vecs[a], cap), MoveVec(vecs[a], cap)
    PROVE  /\ HeapInv' /\ blocks \subseteq blocks'
           /\ BlockOf(vecs[a], cap) \in Block
           /\ BlockOf(vecs[a], cap).size = cap * ElemSize
           /\ cap > 0 => BlockOf(vecs[a], cap) \in blocks'
           /\ cap # vecs[a].cap => BlockOf(vecs[a], cap) \notin blocks
<1>0. vecs[a].cap \in Nat /\ vecs[a].block \in Block
  BY DEF VecInv
<1>1. CASE cap = vecs[a].cap
  <2>1. BlockOf(vecs[a], cap) = vecs[a].block /\ end' = end /\ blocks' = blocks
    BY <1>1 DEF BlockOf, MoveVec
  <2>2. HeapInv'
    BY <2>1 DEF HeapInv, BlocksApart, BlocksAligned
  <2>. QED
    BY <1>0, <1>1, <2>1, <2>2 DEF VecInv, ArenaBacked
<1>2. CASE cap # vecs[a].cap
  <2> DEFINE size == cap * ElemSize
  <2>1. size \in Nat \ {0} /\ ElemAlign \in Nat \ {0}
    <3>1. cap \in Nat \ {0} /\ ElemSize \in Nat \ {0} /\ ElemAlign \in Nat \ {0}
      BY <1>0, <1>2, HypAllocAssumption
    <3>. QED
      BY <3>1
  <2>2. /\ allocates(size, ElemAlign) /\ GiveBlock(size, ElemAlign)
        /\ BlockOf(vecs[a], cap) = allocate_block(size, ElemAlign)
    BY <1>2 DEF Reserves, MoveVec, BlockOf
  <2> HIDE DEF size
  <2>3. HeapInv'
    BY <2>1, <2>2, GiveKeepsHeap
  <2>4. blocks' = blocks \cup {allocate_block(size, ElemAlign)}
    BY <2>2 DEF GiveBlock
  <2>5. /\ allocate_block(size, ElemAlign) \in Block
        /\ allocate_block(size, ElemAlign).size = size
        /\ allocate_block(size, ElemAlign) \notin blocks
    BY <2>1, <2>2, NewBlock
  <2>. QED
    BY <2>2, <2>3, <2>4, <2>5 DEF size
<1>. QED
  BY <1>1, <1>2

\* What a vector needs after a step that changes one arena's vector.
LEMMA VecFrame ==
    ASSUME VecInv, NEW a \in Arena, blocks \subseteq blocks',
           vecs' \in [Arena -> [vals : Seq(Value \cup {None}), cap : Nat, block : Block]],
           \A b \in Arena \ {a} : vecs'[b] = vecs[b],
           vecs'[a].block.size = vecs'[a].cap * ElemSize,
           Len(vecs'[a].vals) <= vecs'[a].cap,
           vecs'[a].cap > 0 => vecs'[a].block \in blocks',
           \/ vecs'[a].block = vecs[a].block /\ vecs'[a].cap = vecs[a].cap
           \/ vecs'[a].block \notin blocks /\ vecs'[a].cap > 0
    PROVE  VecInv'
<1>1. \A b \in Arena : /\ vecs'[b].block.size = vecs'[b].cap * ElemSize
                       /\ Len(vecs'[b].vals) <= vecs'[b].cap
                       /\ vecs'[b].cap > 0 => vecs'[b].block \in blocks'
  BY DEF VecInv, ArenaBacked
<1>2. \A b \in Arena : vecs'[b].cap = 0 => vecs'[b].block.size = 0
  <2>1. \A n \in {0} : n * ElemSize = 0
    BY HypAllocAssumption
  <2>. QED
    BY <1>1, <2>1
<1>3. \A b \in Arena : vecs'[b].cap > 0 => vecs'[b].block.size > 0
  <2>1. \A n \in Nat : n > 0 => n * ElemSize > 0
    BY HypAllocAssumption
  <2>. QED
    BY <1>1, <2>1
<1>4. ASSUME NEW b \in Arena, NEW c \in Arena, b # c, vecs'[b].cap > 0
      PROVE  vecs'[b].block # vecs'[c].block
  <2>1. CASE vecs'[c].cap = 0
    <3>1. vecs'[c].block.size = 0
      BY <1>2, <2>1
    <3>2. vecs'[b].block.size > 0
      BY <1>3, <1>4
    <3>. QED
      BY <3>1, <3>2
  <2>2. CASE vecs'[c].cap > 0
    <3>1. CASE b = a
      BY <1>4, <2>2, <3>1 DEF VecInv, ArenaBacked
    <3>2. CASE c = a
      BY <1>4, <2>2, <3>2 DEF VecInv, ArenaBacked
    <3>3. CASE b # a /\ c # a
      BY <1>4, <3>3 DEF VecInv, ArenaBacked
    <3>. QED
      BY <3>1, <3>2, <3>3
  <2>. QED
    BY <2>1, <2>2
<1>5. ArenaBacked'
  BY <1>1, <1>4 DEF ArenaBacked
<1>. QED
  BY <1>1, <1>5 DEF VecInv

\* What ids need after a step that leaves their values alone.
LEMMA IdFrame ==
    ASSUME IdInv, inserted' = inserted, removed' = removed,
           \A a \in Arena : vecs'[a].vals = vecs[a].vals
    PROVE  IdInv'
BY DEF IdInv, IdsStable, get

\* The invariant holds of the empty heap.
LEMMA InitSafe == Init => HeapSafe
<1> SUFFICES ASSUME Init PROVE HeapSafe
  OBVIOUS
<1>1. HeapInv
  BY HypAllocAssumption DEF Init, HeapInv, BlocksApart, BlocksAligned
<1>2. NoBlock \in Block /\ NoBlock.size = 0 /\ 0 * ElemSize = 0
  BY HypAllocAssumption DEF NoBlock, Block
<1>3. \A a \in Arena : vecs[a] = [vals |-> <<>>, cap |-> 0, block |-> NoBlock]
  BY DEF Init
<1>4. vecs \in [Arena -> [vals : Seq(Value \cup {None}), cap : Nat, block : Block]]
  BY <1>2 DEF Init
<1>5. VecInv
  BY <1>2, <1>3, <1>4 DEF VecInv, ArenaBacked
<1>6. IdInv
  BY <1>3 DEF Init, IdInv, IdsStable, get
<1>. QED
  BY <1>1, <1>5, <1>6 DEF HeapSafe

\* alloc() preserves the invariant.
LEMMA AllocateSafe ==
    ASSUME HeapSafe, NEW size \in Size, NEW align \in Alignment, Allocate(size, align)
    PROVE  HeapSafe'
<1>1. size \in Nat /\ align \in Nat \ {0}
  BY HypAllocAssumption
<1>2. HeapInv' /\ blocks \subseteq blocks'
  <2>1. CASE size > 0 /\ allocates(size, align)
    <3>1. GiveBlock(size, align)
      BY <2>1 DEF Allocate
    <3>2. HeapInv'
      BY <1>1, <2>1, <3>1, GiveKeepsHeap DEF HeapSafe
    <3>. QED
      BY <3>1, <3>2 DEF GiveBlock
  <2>2. CASE ~(size > 0 /\ allocates(size, align))
    <3>1. end' = end /\ blocks' = blocks
      BY <2>2 DEF Allocate
    <3>. QED
      BY <3>1 DEF HeapSafe, HeapInv, BlocksApart, BlocksAligned
  <2>. QED
    BY <2>1, <2>2
<1>3. vecs' = vecs /\ inserted' = inserted /\ removed' = removed
  BY DEF Allocate
<1>4. VecInv'
  BY <1>2, <1>3 DEF HeapSafe, VecInv, ArenaBacked
<1>5. IdInv'
  BY <1>3, IdFrame DEF HeapSafe
<1>. QED
  BY <1>2, <1>4, <1>5 DEF HeapSafe

\* A vector that grows has room for the elements asked for, and never less than before.
LEMMA GrownType ==
    ASSUME VecInv, NEW a \in Arena, NEW n \in Nat \ {0}
    PROVE  /\ grown(vecs[a], n) \in Nat /\ grown(vecs[a], n) >= vecs[a].cap
           /\ grown(vecs[a], n) >= Len(vecs[a].vals) + n
<1>1. vecs[a].cap \in Nat /\ Len(vecs[a].vals) \in Nat
  BY DEF VecInv
<1>. QED
  BY <1>1 DEF grown

\* A new arena preserves the invariant.
LEMMA NewWithCapacitySafe ==
    ASSUME HeapSafe, NEW a \in Arena, NEW capacity \in Size, NewWithCapacity(a, capacity)
    PROVE  HeapSafe'
<1> DEFINE cap == grown(vecs[a], capacity)
           block == BlockOf(vecs[a], cap)
<1>0. HeapInv /\ VecInv /\ IdInv /\ capacity \in Nat \ {0}
  BY HypAllocAssumption DEF HeapSafe, NewWithCapacity
<1>1. CASE Reserves(vecs[a], cap)
  <2>1. cap \in Nat /\ cap >= vecs[a].cap /\ cap >= Len(vecs[a].vals) + capacity
    BY <1>0, GrownType
  <2>2. /\ MoveVec(vecs[a], cap) /\ inserted' = inserted /\ removed' = removed
        /\ vecs' = [vecs EXCEPT ![a].cap = cap, ![a].block = block]
    BY <1>1 DEF NewWithCapacity
  <2> HIDE DEF cap
  <2>3. /\ HeapInv' /\ blocks \subseteq blocks' /\ block \in Block
        /\ block.size = cap * ElemSize /\ (cap > 0 => block \in blocks')
        /\ (cap # vecs[a].cap => block \notin blocks)
    BY <1>0, <1>1, <2>1, <2>2, ReserveKeepsHeap
  <2>4. /\ vecs[a].cap \in Nat /\ Len(vecs[a].vals) \in Nat
        /\ vecs \in [Arena -> [vals : Seq(Value \cup {None}), cap : Nat, block : Block]]
    BY <1>0 DEF VecInv
  <2>5. cap = vecs[a].cap => block = vecs[a].block
    BY DEF BlockOf
  <2> HIDE DEF block
  <2>6. vecs' \in [Arena -> [vals : Seq(Value \cup {None}), cap : Nat, block : Block]]
    BY <2>1, <2>2, <2>3, <2>4
  <2>7. /\ \A b \in Arena \ {a} : vecs'[b] = vecs[b]
        /\ vecs'[a].cap = cap /\ vecs'[a].block = block /\ vecs'[a].vals = vecs[a].vals
    BY <2>2, <2>4
  <2>8. VecInv'
    <3>1. Len(vecs'[a].vals) <= vecs'[a].cap
      BY <1>0, <2>1, <2>4, <2>7
    <3>2. \/ vecs'[a].block = vecs[a].block /\ vecs'[a].cap = vecs[a].cap
          \/ vecs'[a].block \notin blocks /\ vecs'[a].cap > 0
      BY <2>1, <2>3, <2>4, <2>5, <2>7
    <3>. QED
      BY <1>0, <2>3, <2>6, <2>7, <3>1, <3>2, VecFrame
  <2>9. IdInv'
    BY <1>0, <2>2, <2>7, IdFrame
  <2>. QED
    BY <2>3, <2>8, <2>9 DEF HeapSafe
<1>2. CASE ~Reserves(vecs[a], cap)
  <2>1. UNCHANGED <<end, blocks, vecs, inserted, removed>>
    BY <1>2 DEF NewWithCapacity
  <2>. QED
    BY <1>0, <2>1 DEF HeapSafe, HeapInv, BlocksApart, BlocksAligned, VecInv, ArenaBacked, IdInv, IdsStable, get
<1>. QED
  BY <1>1, <1>2

\* try_insert() preserves the invariant, moved vectors included.
LEMMA TryInsertSafe ==
    ASSUME HeapSafe, NEW a \in Arena, NEW v \in Value, TryInsert(a, v)
    PROVE  HeapSafe'
<1> DEFINE cap == grown(vecs[a], 1)
           block == BlockOf(vecs[a], cap)
           vals == Append(vecs[a].vals, v)
<1>0. HeapInv /\ VecInv /\ IdInv
  BY DEF HeapSafe
<1>1. CASE Reserves(vecs[a], cap)
  <2>1. cap \in Nat /\ cap >= vecs[a].cap /\ cap >= Len(vecs[a].vals) + 1
    BY <1>0, GrownType
  <2>2. /\ MoveVec(vecs[a], cap) /\ removed' = removed
        /\ vecs' = [vecs EXCEPT ![a] = [vals |-> vals, cap |-> cap, block |-> block]]
        /\ inserted' = [inserted EXCEPT ![a] = Append(inserted[a], v)]
    BY <1>1 DEF TryInsert
  <2> HIDE DEF cap
  <2>3. /\ HeapInv' /\ blocks \subseteq blocks' /\ block \in Block
        /\ block.size = cap * ElemSize /\ (cap > 0 => block \in blocks')
        /\ (cap # vecs[a].cap => block \notin blocks)
    BY <1>0, <1>1, <2>1, <2>2, ReserveKeepsHeap
  <2>4. /\ vecs[a].cap \in Nat /\ vecs[a].vals \in Seq(Value \cup {None})
        /\ Len(vecs[a].vals) \in Nat
        /\ vecs \in [Arena -> [vals : Seq(Value \cup {None}), cap : Nat, block : Block]]
    BY <1>0 DEF VecInv
  <2>5. cap = vecs[a].cap => block = vecs[a].block
    BY DEF BlockOf
  <2>6. /\ vals \in Seq(Value \cup {None}) /\ Len(vals) = Len(vecs[a].vals) + 1
        /\ \A i \in 1..Len(vecs[a].vals) : vals[i] = vecs[a].vals[i]
        /\ vals[Len(vecs[a].vals) + 1] = v
    BY <2>4
  <2> HIDE DEF block, vals
  <2>7. vecs' \in [Arena -> [vals : Seq(Value \cup {None}), cap : Nat, block : Block]]
    BY <2>1, <2>2, <2>3, <2>4, <2>6
  <2>8. /\ \A b \in Arena \ {a} : vecs'[b] = vecs[b]
        /\ vecs'[a].cap = cap /\ vecs'[a].block = block /\ vecs'[a].vals = vals
    BY <2>2, <2>4
  <2>9. VecInv'
    <3>1. Len(vecs'[a].vals) <= vecs'[a].cap
      BY <2>1, <2>4, <2>6, <2>8
    <3>2. \/ vecs'[a].block = vecs[a].block /\ vecs'[a].cap = vecs[a].cap
          \/ vecs'[a].block \notin blocks /\ vecs'[a].cap > 0
      BY <2>1, <2>3, <2>4, <2>5, <2>8
    <3>. QED
      BY <1>0, <2>3, <2>7, <2>8, <3>1, <3>2, VecFrame
  <2>10. IdInv'
    <3>0. /\ inserted \in [Arena -> Seq(Value)] /\ inserted[a] \in Seq(Value)
          /\ removed \in [Arena -> SUBSET Nat]
          /\ Len(inserted[a]) = Len(vecs[a].vals) /\ removed[a] \subseteq 1..Len(inserted[a])
      BY <1>0 DEF IdInv
    <3>1. /\ inserted'[a] = Append(inserted[a], v)
          /\ \A b \in Arena \ {a} : inserted'[b] = inserted[b]
          /\ inserted' \in [Arena -> Seq(Value)]
      BY <2>2, <3>0
    <3>2. /\ Len(inserted'[a]) = Len(inserted[a]) + 1
          /\ DOMAIN inserted'[a] = 1..(Len(inserted[a]) + 1)
          /\ \A i \in 1..Len(inserted[a]) : inserted'[a][i] = inserted[a][i]
          /\ inserted'[a][Len(inserted[a]) + 1] = v
      BY <3>0, <3>1
    <3>3. \A b \in Arena : /\ Len(vecs'[b].vals) = Len(inserted'[b])
                           /\ removed'[b] \subseteq 1..Len(inserted'[b])
      <4>1. \A b \in Arena \ {a} : /\ Len(vecs'[b].vals) = Len(inserted'[b])
                                    /\ removed'[b] \subseteq 1..Len(inserted'[b])
        BY <1>0, <2>2, <2>8, <3>1 DEF IdInv
      <4>2. Len(vecs'[a].vals) = Len(inserted'[a])
        BY <2>6, <2>8, <3>0, <3>2
      <4>3. removed'[a] \subseteq 1..Len(inserted'[a])
        BY <2>2, <2>4, <3>0, <3>2
      <4>. QED
        BY <4>1, <4>2, <4>3
    <3>4. ASSUME NEW b \in Arena, NEW id \in DOMAIN inserted'[b]
          PROVE  get(b, id)' = IF id \in removed'[b] THEN None ELSE inserted'[b][id]
      <4>1. CASE b # a
        BY <1>0, <2>2, <2>8, <3>1, <4>1 DEF IdInv, IdsStable, get
      <4>2. CASE b = a /\ id \in 1..Len(inserted[a])
        <5>1. get(a, id) = IF id \in removed[a] THEN None ELSE inserted[a][id]
          BY <1>0, <3>0, <4>2 DEF IdInv, IdsStable
        <5>2. id \in DOMAIN vecs[a].vals /\ id \in DOMAIN vals
          BY <2>4, <2>6, <3>0, <4>2
        <5>3. get(a, id)' = vals[id] /\ get(a, id) = vecs[a].vals[id]
          BY <2>8, <5>2 DEF get
        <5>. QED
          BY <2>2, <2>6, <3>0, <3>2, <4>2, <5>1, <5>3
      <4>3. CASE b = a /\ id = Len(inserted[a]) + 1
        <5>1. id \in DOMAIN vals /\ id \notin removed[a]
          BY <2>4, <2>6, <3>0, <4>3
        <5>2. get(a, id)' = vals[id]
          BY <2>8, <5>1 DEF get
        <5>. QED
          BY <2>2, <2>6, <3>0, <3>2, <4>3, <5>1, <5>2
      <4>. QED
        BY <2>4, <3>0, <3>2, <3>4, <4>1, <4>2, <4>3
    <3>. QED
      BY <2>2, <3>0, <3>1, <3>3, <3>4 DEF IdInv, IdsStable
  <2>. QED
    BY <2>3, <2>9, <2>10 DEF HeapSafe
<1>2. CASE ~Reserves(vecs[a], cap)
  <2>1. UNCHANGED <<end, blocks, vecs, inserted, removed>>
    BY <1>2 DEF TryInsert
  <2>. QED
    BY <1>0, <2>1 DEF HeapSafe, HeapInv, BlocksApart, BlocksAligned, VecInv, ArenaBacked, IdInv, IdsStable, get
<1>. QED
  BY <1>1, <1>2

\* remove() preserves the invariant.
LEMMA RemoveSafe ==
    ASSUME HeapSafe, NEW a \in Arena, NEW id \in ids(a), Remove(a, id)
    PROVE  HeapSafe'
<1> DEFINE vals == [vecs[a].vals EXCEPT ![id] = None]
<1>0. HeapInv /\ VecInv /\ IdInv
  BY DEF HeapSafe
<1>1. /\ vecs' = [vecs EXCEPT ![a].vals = vals] /\ removed' = [removed EXCEPT ![a] = @ \cup {id}]
      /\ end' = end /\ blocks' = blocks /\ inserted' = inserted
  BY DEF Remove, RemovedVals
<1>2. /\ vecs \in [Arena -> [vals : Seq(Value \cup {None}), cap : Nat, block : Block]]
      /\ vecs[a].vals \in Seq(Value \cup {None}) /\ Len(vecs[a].vals) \in Nat
      /\ removed \in [Arena -> SUBSET Nat]
  BY <1>0 DEF VecInv, IdInv
<1>3. id \in 1..Len(vecs[a].vals)
  BY <1>2 DEF ids
<1>4. /\ vals \in Seq(Value \cup {None}) /\ Len(vals) = Len(vecs[a].vals)
      /\ DOMAIN vals = DOMAIN vecs[a].vals
      /\ vals[id] = None /\ \A i \in 1..Len(vecs[a].vals) : i # id => vals[i] = vecs[a].vals[i]
  BY <1>2, <1>3
<1> HIDE DEF vals
<1>5. /\ \A b \in Arena \ {a} : vecs'[b] = vecs[b] /\ removed'[b] = removed[b]
      /\ vecs'[a].vals = vals /\ vecs'[a].cap = vecs[a].cap /\ vecs'[a].block = vecs[a].block
      /\ removed'[a] = removed[a] \cup {id}
      /\ vecs' \in [Arena -> [vals : Seq(Value \cup {None}), cap : Nat, block : Block]]
      /\ removed' \in [Arena -> SUBSET Nat]
  <2>1. /\ \A b \in Arena \ {a} : vecs'[b] = vecs[b]
        /\ vecs'[a].vals = vals /\ vecs'[a].cap = vecs[a].cap /\ vecs'[a].block = vecs[a].block
    BY <1>1, <1>2
  <2>2. vecs' \in [Arena -> [vals : Seq(Value \cup {None}), cap : Nat, block : Block]]
    BY <1>1, <1>2, <1>4
  <2>3. /\ \A b \in Arena \ {a} : removed'[b] = removed[b]
        /\ removed'[a] = removed[a] \cup {id} /\ removed' \in [Arena -> SUBSET Nat]
    BY <1>1, <1>2, <1>3
  <2>. QED
    BY <2>1, <2>2, <2>3
<1>6. HeapInv'
  BY <1>0, <1>1 DEF HeapInv, BlocksApart, BlocksAligned
<1>7. VecInv'
  <2>1. /\ vecs'[a].block.size = vecs'[a].cap * ElemSize /\ Len(vecs'[a].vals) <= vecs'[a].cap
        /\ vecs'[a].cap > 0 => vecs'[a].block \in blocks'
    BY <1>0, <1>1, <1>4, <1>5 DEF VecInv, ArenaBacked
  <2>. QED
    BY <1>0, <1>1, <1>5, <2>1, VecFrame
<1>8. IdInv'
  <2>1. \A b \in Arena : /\ Len(vecs'[b].vals) = Len(inserted'[b])
                         /\ removed'[b] \subseteq 1..Len(inserted'[b])
    BY <1>0, <1>1, <1>3, <1>4, <1>5 DEF IdInv
  <2>2. ASSUME NEW b \in Arena, NEW i \in DOMAIN inserted'[b]
        PROVE  get(b, i)' = IF i \in removed'[b] THEN None ELSE inserted'[b][i]
    <3>1. get(b, i) = IF i \in removed[b] THEN None ELSE inserted[b][i]
      BY <1>0, <1>1, <2>2 DEF IdInv, IdsStable
    <3>2. CASE b # a
      BY <1>1, <1>5, <3>1, <3>2 DEF get
    <3>3. CASE b = a
      <4>1. i \in 1..Len(vecs[a].vals)
        <5>1. inserted[a] \in Seq(Value) /\ Len(inserted[a]) = Len(vecs[a].vals)
          BY <1>0 DEF IdInv
        <5>. QED
          BY <1>1, <2>2, <3>3, <5>1
      <4>2. get(a, i)' = vals[i] /\ get(a, i) = vecs[a].vals[i]
        BY <1>2, <1>4, <1>5, <4>1 DEF get
      <4>. QED
        BY <1>1, <1>4, <1>5, <3>1, <3>3, <4>1, <4>2
    <3>. QED
      BY <3>2, <3>3
  <2>. QED
    BY <1>0, <1>1, <1>5, <2>1, <2>2 DEF IdInv, IdsStable
<1>. QED
  BY <1>6, <1>7, <1>8 DEF HeapSafe

\* So does a step that changes neither heap nor arenas.
LEMMA UnchangedSafe ==
    ASSUME HeapSafe, UNCHANGED <<end, blocks, vecs, inserted, removed>>
    PROVE  HeapSafe'
BY DEF HeapSafe, HeapInv, BlocksApart, BlocksAligned, VecInv, ArenaBacked, IdInv, IdsStable, get

\* Every step preserves the invariant.
LEMMA StepSafe == HeapSafe /\ [Next]_vars => HeapSafe'
<1> SUFFICES ASSUME HeapSafe, [Next]_vars PROVE HeapSafe'
  OBVIOUS
<1>1. ASSUME NEW size \in Size, NEW align \in Alignment, Allocate(size, align) PROVE HeapSafe'
  BY <1>1, AllocateSafe
<1>2. CASE Seal
  BY <1>2, UnchangedSafe DEF Seal
<1>3. ASSUME NEW a \in Arena, NEW capacity \in Size, NewWithCapacity(a, capacity) PROVE HeapSafe'
  BY <1>3, NewWithCapacitySafe
<1>4. ASSUME NEW a \in Arena, NEW v \in Value, TryInsert(a, v) PROVE HeapSafe'
  BY <1>4, TryInsertSafe
<1>5. ASSUME NEW a \in Arena, NEW id \in ids(a), Remove(a, id) PROVE HeapSafe'
  BY <1>5, RemoveSafe
<1>6. CASE UNCHANGED vars
  BY <1>6, UnchangedSafe DEF vars
<1>. QED
  BY <1>1, <1>2, <1>3, <1>4, <1>5, <1>6 DEF Next

\* The invariant always holds.
LEMMA HeapSafeAlways == Spec => []HeapSafe
<1>1. Init => HeapSafe
  BY InitSafe
<1>2. HeapSafe /\ [Next]_vars => HeapSafe'
  BY StepSafe
<1>. QED
  BY <1>1, <1>2, PTL DEF Spec

\* No byte of the heap is given out twice, and every block is in the heap and
\* aligned as its layout asks.
THEOREM HeapBlocks == Spec => [](BlocksApart /\ BlocksAligned)
<1>1. HeapSafe => BlocksApart /\ BlocksAligned
  BY DEF HeapSafe, HeapInv
<1>. QED
  BY <1>1, HeapSafeAlways, PTL

\* The vector of an arena has a block of its own that holds its elements.
THEOREM ArenasBacked == Spec => []ArenaBacked
<1>1. HeapSafe => ArenaBacked
  BY DEF HeapSafe, VecInv
<1>. QED
  BY <1>1, HeapSafeAlways, PTL

\* An id names the value inserted under it until it is removed, and then nothing.
THEOREM ArenaIdsStable == Spec => []IdsStable
<1>1. HeapSafe => IdsStable
  BY DEF HeapSafe, IdInv
<1>. QED
  BY <1>1, HeapSafeAlways, PTL

\* The heap and its arenas keep what they hold, for any sizes, alignments and arenas.
THEOREM HeapAlwaysKept == Spec => []HeapIsKept
BY HeapBlocks, ArenasBacked, ArenaIdsStable, PTL DEF HeapIsKept
=============================================================================
