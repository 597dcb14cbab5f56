-------------------------- MODULE GuestsRefProofs --------------------------
(***************************************************************************)
(* References to guests (Guests), for any number of CPUs and guests and    *)
(* any capacity of the lists.  A guest is dropped by the only handler that *)
(* has a reference to it, which Remove knows from the count; and the count *)
(* is exact because every handler gives back what it took.                 *)
(***************************************************************************)
EXTENDS Guests, FiniteSetTheorems, TLAPS

Alone == {"create", "add", "drop"}
Sharing == {"add_vcpu", "set_imsic", "finalize", "run", "call_once", "compare", "enable_imsic", "running",
            "power_on", "validate"}
Work == [pc : {"idle"} \cup Alone \cup Sharing, id : 0..MaxId, v : Vcpu, arg : Location \cup Entry \cup {"none"}]

Types ==
    /\ next \in 1..(MaxId + 1) /\ active \subseteq Id /\ table \subseteq Id
    /\ refs \in [Id -> Int]
    /\ vm \in [Id -> {"none", "live", "dropped"}]
    /\ op \in [Cpu -> Work]

\* A handler works on a guest that was created.
HandlerOf(c) == (op[c].pc = "idle" <=> op[c].id = 0) /\ op[c].id < next

\* A guest is in the table while handlers look at it; the handler that creates or drops one has
\* it for itself.
OwnerOf(c) ==
    /\ op[c].pc \in Alone <=> op[c].id \notin table
    /\ vm[op[c].id] = (IF op[c].pc = "create" THEN "none" ELSE "live")
    /\ op[c].pc = "create" => op[c].id \in active
    /\ op[c].pc \in Alone => \A d \in Cpu \ {c} : op[d].id # op[c].id

\* What exists is known to the page tracker, and the reference count is exact.
Known(i) ==
    /\ i >= next => vm[i] = "none" /\ i \notin active
    /\ i \in table => vm[i] = "live"
    /\ vm[i] = "live" => i \in active
    /\ vm[i] = "dropped" => i \notin active
Exact(i) == refs[i] = Cardinality(Holders(i)) + (IF i \in table THEN 1 ELSE 0)

Inv ==
    /\ Types
    /\ \A c \in Cpu : HandlerOf(c) /\ (op[c].pc # "idle" => OwnerOf(c))
    /\ \A i \in Id : Known(i) /\ Exact(i)

-----------------------------------------------------------------------------
(* The handlers of a guest.                                                *)

\* The handlers that have a reference to a guest are finitely many.
LEMMA HoldersFinite == ASSUME NEW i PROVE IsFiniteSet(Holders(i)) /\ Cardinality(Holders(i)) \in Nat
<1>1. Holders(i) \subseteq Cpu  BY DEF Holders
<1>2. IsFiniteSet(Holders(i))  BY <1>1, FS_Subset, GuestsAssumption
<1> QED  BY <1>2, FS_CardinalityType

\* A handler works on a guest.
LEMMA WorksOnGuest ==
    ASSUME Inv, NEW c \in Cpu, op[c].pc # "idle"
    PROVE  op[c].id \in Id /\ op[c].id < next /\ OwnerOf(c)
<1>1. HandlerOf(c) /\ OwnerOf(c) /\ op[c].id \in 0..MaxId  BY DEF Inv, Types, Work
<1> QED  BY <1>1, GuestsAssumption DEF HandlerOf, Id

\* A handler that has a guest for itself has the only reference, if it has one.
LEMMA AloneFacts ==
    ASSUME Inv, NEW c \in Cpu, op[c].pc \in Alone, NEW i, i = op[c].id
    PROVE  /\ i \in Id /\ i < next /\ i \notin table /\ i # 0
           /\ vm[i] = (IF op[c].pc = "create" THEN "none" ELSE "live")
           /\ op[c].pc = "create" => i \in active
           /\ \A d \in Cpu \ {c} : op[d].id # i
           /\ refs[i] = IF op[c].pc = "create" THEN 0 ELSE 1
<1>1. i \in Id /\ i < next /\ OwnerOf(c)  BY WorksOnGuest DEF Alone
<1>2. Holders(i) = IF op[c].pc = "create" THEN {} ELSE {c}  BY <1>1 DEF OwnerOf, Holders
<1>3. Cardinality(Holders(i)) = IF op[c].pc = "create" THEN 0 ELSE 1
    <2>1. Cardinality({}) = 0 /\ Cardinality({c}) = 1  BY FS_EmptySet, FS_Singleton
    <2> QED  BY <1>2, <2>1
<1>4. Exact(i) /\ i \notin table  BY <1>1 DEF Inv, OwnerOf
<1>5. refs[i] = IF op[c].pc = "create" THEN 0 ELSE 1  BY <1>3, <1>4 DEF Exact
<1> QED  BY <1>1, <1>5 DEF OwnerOf, Id

\* A step of one handler at one guest: all that is said of other guests stays true.
OnlyAt(c, i) ==
    /\ \A d \in Cpu \ {c} : op'[d] = op[d]
    /\ op[c].id \in {0, i} /\ op'[c].id \in {0, i}
    /\ next <= next'
    /\ \A j \in Id \ {i} : /\ vm'[j] = vm[j] /\ refs'[j] = refs[j]
                           /\ j \in active' <=> j \in active
                           /\ j \in table' <=> j \in table

\* What a step leaves to show is about its own guest and its own handler.
LEMMA Elsewhere ==
    ASSUME Inv, NEW c \in Cpu, NEW i \in Id, OnlyAt(c, i), Types',
           HandlerOf(c)', op'[c].pc # "idle" => OwnerOf(c)',
           \A d \in Cpu \ {c} : op[d].id = i => OwnerOf(d)', Known(i)', Exact(i)'
    PROVE  Inv'
<1>1. next \in Int /\ next' \in Int /\ \A d \in Cpu : op[d].id \in Int  BY DEF Inv, Types, Work
<1>2. \A d \in Cpu : HandlerOf(d)'
    <2> SUFFICES ASSUME NEW d \in Cpu \ {c} PROVE HandlerOf(d)'  OBVIOUS
    <2>1. HandlerOf(d)  BY DEF Inv
    <2> QED  BY <1>1, <2>1 DEF HandlerOf, OnlyAt
<1>3. ASSUME NEW d \in Cpu, op'[d].pc # "idle" PROVE OwnerOf(d)'
    <2>1. CASE d = c \/ op[d].id = i  BY <1>3, <2>1
    <2>2. CASE d # c /\ op[d].id # i
        <3>1. op'[d] = op[d]  BY <2>2 DEF OnlyAt
        <3>2. op[d].id \in Id \ {i} /\ OwnerOf(d)  BY <1>3, <2>2, <3>1, WorksOnGuest
        <3>3. \A e \in Cpu \ {d} : op[e].id # op[d].id => op'[e].id # op'[d].id  BY <3>1, <3>2 DEF OnlyAt, Id
        <3> QED  BY <3>1, <3>2, <3>3 DEF OwnerOf, OnlyAt
    <2> QED  BY <2>1, <2>2
<1>4. ASSUME NEW j \in Id \ {i} PROVE Known(j)' /\ Exact(j)'
    <2>1. Holders(j)' = Holders(j)  BY DEF Holders, OnlyAt, Id
    <2>2. Known(j) /\ Exact(j)  BY DEF Inv
    <2>3. Known(j)'  BY <1>1, <2>2 DEF Known, OnlyAt, Id
    <2>4. Exact(j)'  BY <2>1, <2>2 DEF Exact, OnlyAt
    <2> QED  BY <2>3, <2>4
<1> QED  BY <1>2, <1>3, <1>4 DEF Inv

\* Ways to go on: another place in the handler, a new handler, or none.
LEMMA Going ==
    ASSUME Types, NEW c \in Cpu
    PROVE  /\ \A p \in {"add"} \cup Sharing : Goto(c, p) =>
                op' \in [Cpu -> Work] /\ op'[c].pc = p /\ op'[c].id = op[c].id
           /\ \A p \in Alone, i \in Id : op' = [op EXCEPT ![c] = At(p, i)] =>
                op' \in [Cpu -> Work] /\ op'[c].pc = p /\ op'[c].id = i
           /\ \A r : Return(c, r) => op' \in [Cpu -> Work] /\ op'[c].pc = "idle" /\ op'[c].id = 0
           /\ \A w : op' = [op EXCEPT ![c] = w] => \A d \in Cpu \ {c} : op'[d] = op[d]
           /\ \A p : Goto(c, p) => \A d \in Cpu \ {c} : op'[d] = op[d]
<1>1. \A p \in {"idle"} \cup Alone, i \in 0..MaxId : At(p, i) \in Work /\ At(p, i).pc = p /\ At(p, i).id = i
    BY GuestsAssumption DEF At, Work
<1>2. 0 \in 0..MaxId /\ Id \subseteq 0..MaxId  BY GuestsAssumption DEF Id
<1>3. ASSUME NEW p \in {"add"} \cup Sharing, Goto(c, p)
      PROVE  op' \in [Cpu -> Work] /\ op'[c].pc = p /\ op'[c].id = op[c].id
    BY <1>3 DEF Types, Goto, Work, Alone
<1>4. ASSUME NEW p \in Alone, NEW i \in Id, op' = [op EXCEPT ![c] = At(p, i)]
      PROVE  op' \in [Cpu -> Work] /\ op'[c].pc = p /\ op'[c].id = i
    BY <1>1, <1>2, <1>4 DEF Types
<1>5. ASSUME NEW r, Return(c, r) PROVE op' \in [Cpu -> Work] /\ op'[c].pc = "idle" /\ op'[c].id = 0
    BY <1>1, <1>2, <1>5 DEF Types, Return, Idle
<1>6. \A w : op' = [op EXCEPT ![c] = w] => \A d \in Cpu \ {c} : op'[d] = op[d]  BY DEF Types
<1>7. \A p : Goto(c, p) => \A d \in Cpu \ {c} : op'[d] = op[d]  BY DEF Types, Goto
<1> QED  BY <1>3, <1>4, <1>5, <1>6, <1>7

-----------------------------------------------------------------------------
(* Handlers that create a guest and that drop one.                         *)

LEMMA AddActiveGuestStep == ASSUME Inv, NEW c \in Cpu, AddActiveGuest(c) PROVE Inv'
<1>0. PICK i : i = next  OBVIOUS
<1> USE <1>0
<1>1. Types /\ HandlerOf(c) /\ op[c].pc = "idle" /\ next <= MaxId /\ next' = next + 1  BY DEF Inv, AddActiveGuest
<1>2. i \in Id /\ next' \in 1..(MaxId + 1) /\ next <= next'  BY <1>1, GuestsAssumption DEF Types, Id
<1>3. op[c].id = 0 /\ i # 0  BY <1>1, <1>2 DEF HandlerOf, Id
<1>4. Known(i) /\ Exact(i)  BY <1>2 DEF Inv
<1>5. vm[i] = "none" /\ i \notin active /\ i \notin table  BY <1>2, <1>4 DEF Known, Id
<1>6. \A d \in Cpu : op[d].id # i
    <2>1. ASSUME NEW d \in Cpu PROVE op[d].id < next /\ op[d].id \in Int  BY DEF Inv, HandlerOf, Types, Work
    <2> QED  BY <1>2, <2>1 DEF Id
<1>7. table' = table /\ refs' = refs /\ vm' = vm  BY DEF AddActiveGuest
<1>8. CASE active' = active \cup {i} /\ op' = [op EXCEPT ![c] = At("create", i)]
    <2>1. op' \in [Cpu -> Work] /\ op'[c].pc = "create" /\ op'[c].id = i /\ \A d \in Cpu \ {c} : op'[d] = op[d]
        BY <1>1, <1>2, <1>8, Going DEF Alone
    <2>2. Types'  BY <1>1, <1>2, <1>7, <1>8, <2>1 DEF Types
    <2>3. OnlyAt(c, i)  BY <1>2, <1>3, <1>7, <1>8, <2>1 DEF OnlyAt
    <2>4. HandlerOf(c)'  BY <1>1, <1>2, <1>3, <2>1 DEF HandlerOf, Id
    <2>5. OwnerOf(c)'  BY <1>5, <1>6, <1>7, <1>8, <2>1 DEF OwnerOf, Alone
    <2>6. Holders(i)' = Holders(i)  BY <1>6, <2>1 DEF Holders
    <2>7. Known(i)' /\ Exact(i)'  BY <1>1, <1>2, <1>4, <1>5, <1>7, <1>8, <2>6 DEF Known, Exact, Id
    <2> QED  BY <1>2, <1>6, <2>2, <2>3, <2>4, <2>5, <2>7, Elsewhere
<1>9. CASE active' = active /\ Return(c, "failed")
    <2>1. op' \in [Cpu -> Work] /\ op'[c].pc = "idle" /\ op'[c].id = 0 /\ \A d \in Cpu \ {c} : op'[d] = op[d]
        BY <1>1, <1>9, Going DEF Return
    <2>2. Types'  BY <1>1, <1>2, <1>7, <1>9, <2>1 DEF Types
    <2>3. OnlyAt(c, i)  BY <1>2, <1>3, <1>7, <1>9, <2>1 DEF OnlyAt
    <2>4. HandlerOf(c)'  BY <1>2, <2>1 DEF HandlerOf
    <2>5. Holders(i)' = Holders(i)  BY <1>3, <2>1 DEF Holders
    <2>6. Known(i)' /\ Exact(i)'  BY <1>1, <1>2, <1>4, <1>5, <1>7, <1>9, <2>5 DEF Known, Exact, Id
    <2> QED  BY <1>2, <1>6, <2>1, <2>2, <2>3, <2>4, <2>6, Elsewhere
<1> QED  BY <1>8, <1>9 DEF AddActiveGuest

\* A handler that gives up a guest of its own has none afterwards.
LEMMA GivesUp ==
    ASSUME Inv, NEW c \in Cpu, op[c].pc \in Alone, NEW i, i = op[c].id, NEW r, Return(c, r),
           next' = next, table' \in {table, table \cup {i}}, active' \in {active, active \ {i}},
           vm' \in [Id -> {"none", "live", "dropped"}], refs' \in [Id -> Int],
           \A j \in Id \ {i} : vm'[j] = vm[j] /\ refs'[j] = refs[j],
           Known(i)', refs'[i] = IF i \in table' THEN 1 ELSE 0
    PROVE  Inv'
<1>1. Types /\ i \in Id /\ i # 0 /\ i \notin table /\ \A d \in Cpu \ {c} : op[d].id # i  BY AloneFacts DEF Inv
<1>2. op' \in [Cpu -> Work] /\ op'[c].pc = "idle" /\ op'[c].id = 0 /\ \A d \in Cpu \ {c} : op'[d] = op[d]
    BY <1>1, Going DEF Return
<1>3. Types'  BY <1>1, <1>2 DEF Types
<1>4. OnlyAt(c, i)  BY <1>1, <1>2 DEF OnlyAt, Types
<1>5. HandlerOf(c)'  BY <1>1, <1>2 DEF HandlerOf, Types
<1>6. Exact(i)'
    <2>1. Holders(i)' = {}  BY <1>1, <1>2 DEF Holders
    <2>2. Cardinality(Holders(i)') = 0  BY <2>1, FS_EmptySet
    <2> QED  BY <2>2 DEF Exact
<1> QED  BY <1>1, <1>2, <1>3, <1>4, <1>5, <1>6, Elsewhere

LEMMA CreateVmStep == ASSUME Inv, NEW c \in Cpu, CreateVm(c) PROVE Inv'
<1>0. PICK i : i = op[c].id  OBVIOUS
<1> USE <1>0
<1>1. Types /\ op[c].pc = "create" /\ next' = next /\ active' = active /\ table' = table  BY DEF Inv, CreateVm
<1>2. /\ i \in Id /\ i < next /\ i \notin table /\ i # 0 /\ vm[i] = "none" /\ i \in active
      /\ \A d \in Cpu \ {c} : op[d].id # i
      /\ refs[i] = 0
    BY <1>1, AloneFacts DEF Alone
<1>3. Known(i)  BY <1>2 DEF Inv
<1>4. CASE vm' = [vm EXCEPT ![i] = "live"] /\ refs' = [refs EXCEPT ![i] = 1] /\ Goto(c, "add")
    <2>1. op' \in [Cpu -> Work] /\ op'[c].pc = "add" /\ op'[c].id = i /\ \A d \in Cpu \ {c} : op'[d] = op[d]
        BY <1>1, <1>4, Going
    <2>2. vm' \in [Id -> {"none", "live", "dropped"}] /\ refs' \in [Id -> Int] /\ vm'[i] = "live" /\ refs'[i] = 1
        BY <1>1, <1>2, <1>4 DEF Types
    <2>3. Types'  BY <1>1, <2>1, <2>2 DEF Types
    <2>4. OnlyAt(c, i)  BY <1>1, <1>4, <2>1 DEF OnlyAt, Types
    <2>5. HandlerOf(c)'  BY <1>1, <1>2, <2>1 DEF HandlerOf
    <2>6. OwnerOf(c)'  BY <1>1, <1>2, <2>1, <2>2 DEF OwnerOf, Alone
    <2>7. Known(i)'  BY <1>1, <1>2, <2>2 DEF Known, Types, Id
    <2>8. Holders(i)' = {c}  BY <1>2, <2>1 DEF Holders
    <2>9. Cardinality(Holders(i)') = 1  BY <2>8, FS_Singleton
    <2>10. Exact(i)'  BY <1>1, <1>2, <2>2, <2>9 DEF Exact
    <2> QED  BY <1>2, <2>3, <2>4, <2>5, <2>6, <2>7, <2>10, Elsewhere
<1>5. CASE Return(c, "failed") /\ UNCHANGED <<vm, refs>>
    <2>1. Known(i)'  BY <1>1, <1>3, <1>5 DEF Known
    <2> QED  BY <1>1, <1>2, <1>5, <2>1, GivesUp DEF Alone, Types
<1> QED  BY <1>4, <1>5 DEF CreateVm

\* The last reference is dropped.
LEMMA Dropped ==
    ASSUME Inv, NEW c \in Cpu, op[c].pc \in {"add", "drop"}, NEW i, i = op[c].id, NEW r, Return(c, r),
           DropVm(i), refs' = [refs EXCEPT ![i] = 0], UNCHANGED <<next, table>>
    PROVE  Inv'
<1>1. Types /\ i \in Id /\ i < next /\ i \notin table  BY AloneFacts DEF Inv, Alone
<1>2. vm' \in [Id -> {"none", "live", "dropped"}] /\ refs' \in [Id -> Int] /\ vm'[i] = "dropped" /\ refs'[i] = 0
    BY <1>1 DEF Types, DropVm
<1>3. Known(i)'  BY <1>1, <1>2 DEF Known, DropVm, Types, Id
<1>4. \A j \in Id \ {i} : vm'[j] = vm[j] /\ refs'[j] = refs[j]  BY <1>1 DEF Types, DropVm
<1> QED  BY <1>1, <1>2, <1>3, <1>4, GivesUp DEF Alone, DropVm

LEMMA AddStep == ASSUME Inv, NEW c \in Cpu, Add(c) PROVE Inv'
<1>0. PICK i : i = op[c].id  OBVIOUS
<1> USE <1>0
<1>1. Types /\ op[c].pc = "add" /\ next' = next  BY DEF Inv, Add
<1>2. i \in Id /\ i < next /\ vm[i] = "live" /\ refs[i] = 1  BY <1>1, AloneFacts DEF Alone
<1>3. Known(i)  BY <1>2 DEF Inv
<1>4. CASE table' = table \cup {i} /\ Return(c, "ok") /\ UNCHANGED <<vm, active, refs>>
    <2>1. Known(i)'  BY <1>1, <1>2, <1>3, <1>4 DEF Known
    <2> QED  BY <1>1, <1>2, <1>4, <2>1, GivesUp DEF Alone, Types
<1>5. CASE DropVm(i) /\ refs' = [refs EXCEPT ![i] = 0] /\ Return(c, "failed") /\ UNCHANGED table
    BY <1>1, <1>5, Dropped
<1> QED  BY <1>4, <1>5 DEF Add

LEMMA DropLastStep == ASSUME Inv, NEW c \in Cpu, DropLast(c) PROVE Inv'
<1>0. PICK i : i = op[c].id  OBVIOUS
<1> USE <1>0
<1>1. op[c].pc = "drop" /\ Types  BY DEF Inv, DropLast
<1>2. refs[i] = 1 /\ i \in Id  BY <1>1, AloneFacts DEF Alone
<1>3. refs' = [refs EXCEPT ![i] = 0]  BY <1>1, <1>2 DEF DropLast, Types
<1> QED  BY <1>1, <1>3, Dropped DEF DropLast

-----------------------------------------------------------------------------
(* Handlers that look at a guest.                                          *)

\* Handlers that share a guest go on sharing it while it is in the table.
LEMMA OthersShare ==
    ASSUME Inv, NEW c \in Cpu, NEW i \in table, table' = table, active' = active, vm' = vm,
           \A d \in Cpu \ {c} : op'[d] = op[d], NEW d \in Cpu \ {c}, op[d].id = i
    PROVE  OwnerOf(d)'
<1>1. i # 0  BY DEF Inv, Types, Id
<1>2. op[d].pc # "idle"  BY <1>1 DEF Inv, HandlerOf
<1>3. OwnerOf(d) /\ op[d].pc \notin Alone  BY <1>2, WorksOnGuest DEF OwnerOf
<1> QED  BY <1>3 DEF OwnerOf

LEMMA GetStep == ASSUME Inv, NEW c \in Cpu, NEW i \in Id, Get(c, i) PROVE Inv'
<1>1. Types /\ HandlerOf(c) /\ op[c].pc = "idle" /\ i \in table /\ i # 0  BY DEF Inv, Get, Id
<1>2. op[c].id = 0  BY <1>1 DEF HandlerOf
<1>3. /\ next' = next /\ active' = active /\ table' = table /\ vm' = vm
      /\ refs' = [refs EXCEPT ![i] = @ + 1]
    BY DEF Get, tablevars
<1>4. PICK pc \in {"add_vcpu", "set_imsic", "finalize", "run"}, v \in Vcpu :
        \E arg \in CASE pc = "finalize" -> Entry [] pc = "set_imsic" -> Location [] OTHER -> {"none"} :
            op' = [op EXCEPT ![c] = [pc |-> pc, id |-> i, v |-> v, arg |-> arg]]
    BY DEF Get
<1>5. PICK arg \in Location \cup Entry \cup {"none"} :
        op' = [op EXCEPT ![c] = [pc |-> pc, id |-> i, v |-> v, arg |-> arg]]
    BY <1>4
<1>6. [pc |-> pc, id |-> i, v |-> v, arg |-> arg] \in Work  BY DEF Work, Sharing, Id
<1>7. op' \in [Cpu -> Work] /\ \A d \in Cpu \ {c} : op'[d] = op[d]  BY <1>1, <1>5, <1>6 DEF Types
<1>8. op'[c].id = i /\ op'[c].pc \notin {"idle", "create", "add", "drop"}  BY <1>1, <1>5 DEF Types
<1>9. refs[i] \in Int /\ refs' \in [Id -> Int] /\ refs'[i] = refs[i] + 1 /\ \A j \in Id \ {i} : refs'[j] = refs[j]
    BY <1>1, <1>3 DEF Types
<1>10. Types'  BY <1>1, <1>3, <1>7, <1>9 DEF Types
<1>11. OnlyAt(c, i)  BY <1>1, <1>2, <1>3, <1>7, <1>8, <1>9 DEF OnlyAt, Types
<1>12. Known(i) /\ Exact(i)  BY DEF Inv
<1>13. vm[i] = "live" /\ i < next  BY <1>1, <1>12 DEF Known, Types, Id
<1>14. HandlerOf(c)'  BY <1>1, <1>3, <1>8, <1>13 DEF HandlerOf
<1>15. OwnerOf(c)'  BY <1>1, <1>3, <1>8, <1>13 DEF OwnerOf, Alone
<1>16. Known(i)'  BY <1>3, <1>12 DEF Known
<1>17. Exact(i)'
    <2>1. Holders(i)' = Holders(i) \cup {c} /\ c \notin Holders(i)  BY <1>1, <1>2, <1>7, <1>8 DEF Holders
    <2>2. Cardinality(Holders(i)') = Cardinality(Holders(i)) + 1  BY <2>1, HoldersFinite, FS_AddElement
    <2> QED  BY <1>1, <1>3, <1>9, <1>12, <2>2, HoldersFinite DEF Exact
<1>18. \A d \in Cpu \ {c} : op[d].id = i => OwnerOf(d)'  BY <1>1, <1>3, <1>7, OthersShare
<1> QED  BY <1>10, <1>11, <1>14, <1>15, <1>16, <1>17, <1>18, Elsewhere

\* With one reference, and that in the table, no handler looks at the guest.
LEMMA RemoveStep == ASSUME Inv, NEW c \in Cpu, NEW i \in Id, Remove(c, i) PROVE Inv'
<1>1. Types /\ HandlerOf(c) /\ op[c].pc = "idle" /\ i \in table /\ i # 0 /\ refs[i] = 1
    BY DEF Inv, Remove, ref_count_is_one, Id
<1>2. op[c].id = 0  BY <1>1 DEF HandlerOf
<1>3. next' = next /\ active' = active /\ table' = table \ {i} /\ vm' = vm /\ refs' = refs  BY DEF Remove
<1>4. op' \in [Cpu -> Work] /\ op'[c].pc = "drop" /\ op'[c].id = i /\ \A d \in Cpu \ {c} : op'[d] = op[d]
    BY <1>1, Going DEF Remove, Alone
<1>5. Known(i) /\ Exact(i)  BY DEF Inv
<1>6. vm[i] = "live" /\ i < next  BY <1>1, <1>5 DEF Known, Types, Id
<1>7. Holders(i) = {}
    <2>1. Cardinality(Holders(i)) = 0  BY <1>1, <1>5, HoldersFinite DEF Exact
    <2> QED  BY <2>1, HoldersFinite, FS_EmptySet
<1>8. \A d \in Cpu : op[d].id # i
    <2> SUFFICES ASSUME NEW d \in Cpu, op[d].id = i PROVE FALSE  OBVIOUS
    <2>1. op[d].pc # "idle"  BY <1>1 DEF Inv, HandlerOf
    <2>2. OwnerOf(d)  BY <2>1, WorksOnGuest
    <2>3. op[d].pc # "create"  BY <1>1, <2>2 DEF OwnerOf, Alone
    <2> QED  BY <1>7, <2>3 DEF Holders
<1>9. Types'  BY <1>1, <1>3, <1>4 DEF Types
<1>10. OnlyAt(c, i)  BY <1>1, <1>2, <1>3, <1>4 DEF OnlyAt, Types
<1>11. HandlerOf(c)'  BY <1>1, <1>3, <1>4, <1>6 DEF HandlerOf
<1>12. OwnerOf(c)'  BY <1>3, <1>4, <1>6, <1>8 DEF OwnerOf, Alone
<1>13. Known(i)'  BY <1>3, <1>5 DEF Known
<1>14. Exact(i)'
    <2>1. Holders(i)' = {c}  BY <1>4, <1>8 DEF Holders
    <2>2. Cardinality(Holders(i)') = 1  BY <2>1, FS_Singleton
    <2> QED  BY <1>1, <1>3, <2>2 DEF Exact
<1> QED  BY <1>8, <1>9, <1>10, <1>11, <1>12, <1>13, <1>14, Elsewhere

\* A handler that looks at a guest has a reference to it, and the guest is in the table.
LEMMA SharingFacts ==
    ASSUME Inv, NEW c \in Cpu, op[c].pc \in Sharing, NEW i, i = op[c].id
    PROVE  i \in Id /\ i < next /\ i \in table /\ i # 0 /\ vm[i] = "live" /\ c \in Holders(i) /\ Known(i) /\ Exact(i)
<1>1. i \in Id /\ i < next /\ OwnerOf(c)  BY WorksOnGuest DEF Sharing
<1>2. op[c].pc \notin Alone /\ op[c].pc # "create"  BY DEF Sharing, Alone
<1>3. i # 0 /\ Known(i) /\ Exact(i)  BY <1>1 DEF Inv, Id
<1> QED  BY <1>1, <1>2, <1>3 DEF OwnerOf, Holders

\* Another place in the handler.
LEMMA GotoStep ==
    ASSUME Inv, NEW c \in Cpu, op[c].pc \in Sharing, NEW p \in Sharing, Goto(c, p), UNCHANGED <<tablevars, refs>>
    PROVE  Inv'
<1>0. PICK i : i = op[c].id  OBVIOUS
<1>1. i \in Id /\ i < next /\ i \in table /\ i # 0 /\ vm[i] = "live" /\ c \in Holders(i) /\ Known(i) /\ Exact(i)
    BY <1>0, SharingFacts
<1>2. Types /\ next' = next /\ active' = active /\ table' = table /\ vm' = vm /\ refs' = refs  BY DEF Inv, tablevars
<1>3. op' \in [Cpu -> Work] /\ op'[c].pc = p /\ op'[c].id = i /\ \A d \in Cpu \ {c} : op'[d] = op[d]
    BY <1>0, <1>2, Going
<1>4. Types'  BY <1>2, <1>3 DEF Types
<1>5. OnlyAt(c, i)  BY <1>0, <1>2, <1>3 DEF OnlyAt, Types
<1>6. p \notin {"idle", "create", "add", "drop"}  BY DEF Sharing
<1>7. HandlerOf(c)'  BY <1>1, <1>2, <1>3, <1>6 DEF HandlerOf
<1>8. OwnerOf(c)'  BY <1>1, <1>2, <1>3, <1>6 DEF OwnerOf, Alone
<1>9. Holders(i)' = Holders(i)  BY <1>1, <1>3, <1>6 DEF Holders
<1>10. Known(i)' /\ Exact(i)'  BY <1>1, <1>2, <1>9 DEF Known, Exact
<1>11. \A d \in Cpu \ {c} : op[d].id = i => OwnerOf(d)'  BY <1>1, <1>2, <1>3, OthersShare
<1> QED  BY <1>1, <1>4, <1>5, <1>7, <1>8, <1>10, <1>11, Elsewhere

\* The end of the handler.
LEMMA PutStep ==
    ASSUME Inv, NEW c \in Cpu, op[c].pc \in Sharing, NEW r, Put(c, r)
    PROVE  Inv'
<1>0. PICK i : i = op[c].id  OBVIOUS
<1>1. i \in Id /\ i < next /\ i \in table /\ i # 0 /\ vm[i] = "live" /\ c \in Holders(i) /\ Known(i) /\ Exact(i)
    BY <1>0, SharingFacts
<1>2. /\ Types /\ next' = next /\ active' = active /\ table' = table /\ vm' = vm
      /\ refs' = [refs EXCEPT ![i] = @ - 1] /\ Return(c, r)
    BY <1>0 DEF Inv, tablevars, Put
<1>3. op' \in [Cpu -> Work] /\ op'[c].pc = "idle" /\ op'[c].id = 0 /\ \A d \in Cpu \ {c} : op'[d] = op[d]
    BY <1>2, Going DEF Return
<1>4. refs[i] \in Int /\ refs' \in [Id -> Int] /\ refs'[i] = refs[i] - 1 /\ \A j \in Id \ {i} : refs'[j] = refs[j]
    BY <1>1, <1>2 DEF Types
<1>5. Types'  BY <1>2, <1>3, <1>4 DEF Types
<1>6. OnlyAt(c, i)  BY <1>0, <1>2, <1>3, <1>4 DEF OnlyAt, Types
<1>7. HandlerOf(c)'  BY <1>2, <1>3 DEF HandlerOf, Types
<1>8. Known(i)'  BY <1>1, <1>2 DEF Known
<1>9. Exact(i)'
    <2>1. Holders(i)' = Holders(i) \ {c}  BY <1>1, <1>3 DEF Holders
    <2>2. Cardinality(Holders(i)') = Cardinality(Holders(i)) - 1  BY <1>1, <2>1, HoldersFinite, FS_RemoveElement
    <2> QED  BY <1>1, <1>2, <1>4, <2>2, HoldersFinite DEF Exact
<1>10. \A d \in Cpu \ {c} : op[d].id = i => OwnerOf(d)'  BY <1>1, <1>2, <1>3, OthersShare
<1> QED  BY <1>1, <1>3, <1>5, <1>6, <1>7, <1>8, <1>9, <1>10, Elsewhere

\* Every other step of a handler is one of the two.
LEMMA LookingStep ==
    ASSUME Inv, NEW c \in Cpu,
           \/ ReadLock(c) \/ CallOnce(c) \/ Compare(c) \/ EnableImsic(c) \/ Ran(c) \/ TryWrite(c)
           \/ PowerOn(c) \/ Validate(c)
    PROVE  Inv'
<1>1. op[c].pc \in Sharing
    BY DEF Sharing, ReadLock, CallOnce, Compare, EnableImsic, Ran, TryWrite, PowerOn, Validate
<1> SUFFICES \/ \E p \in Sharing : Goto(c, p) /\ UNCHANGED <<tablevars, refs>>
             \/ \E r : Put(c, r)
    BY <1>1, GotoStep, PutStep
<1>2. CASE ReadLock(c)
    <2> DEFINE p == CASE op[c].pc = "add_vcpu" -> "call_once"
                      [] op[c].pc = "set_imsic" -> "enable_imsic"
                      [] OTHER -> "running"
    <2>1. p \in Sharing  BY DEF Sharing
    <2>2. Put(c, "failed") \/ (Goto(c, p) /\ UNCHANGED <<tablevars, refs>>)  BY <1>2 DEF ReadLock
    <2> HIDE DEF p
    <2> QED  BY <2>1, <2>2
<1>3. CASE CallOnce(c)
    <2>1. Goto(c, "compare") /\ UNCHANGED <<tablevars, refs>>  BY <1>3 DEF CallOnce
    <2> QED  BY <2>1 DEF Sharing
<1>4. CASE Compare(c)  BY <1>4 DEF Compare
<1>5. CASE EnableImsic(c)
    <2>1. Put(c, "failed") \/ \E set : Put(c, IF set \in {NoLocation, op[c].arg} THEN "ok" ELSE "failed")
        BY <1>5 DEF EnableImsic
    <2> QED  BY <2>1
<1>6. CASE Ran(c)  BY <1>6 DEF Ran
<1>7. CASE TryWrite(c)
    <2>1. Put(c, "failed") \/ (Goto(c, "power_on") /\ UNCHANGED <<tablevars, refs>>)  BY <1>7 DEF TryWrite
    <2> QED  BY <2>1 DEF Sharing
<1>8. CASE PowerOn(c)
    <2>1. Put(c, "failed") \/ (Goto(c, "validate") /\ UNCHANGED <<tablevars, refs>>)  BY <1>8 DEF PowerOn
    <2> QED  BY <2>1 DEF Sharing
<1>9. CASE Validate(c)
    <2>1. Put(c, "failed") \/ Put(c, "ok")  BY <1>9 DEF Validate
    <2> QED  BY <2>1
<1> QED  BY <1>2, <1>3, <1>4, <1>5, <1>6, <1>7, <1>8, <1>9

-----------------------------------------------------------------------------
(* The results.                                                            *)

\* The invariant holds at the start, and every step keeps it.
LEMMA Facts == Spec => []Inv
<1>1. ASSUME Init PROVE Inv
    <2>1. Idle \in Work /\ Idle.pc = "idle" /\ Idle.id = 0  BY GuestsAssumption DEF Idle, At, Work
    <2>2. \A c \in Cpu : op[c] = Idle  BY <1>1 DEF Init
    <2>3. Types  BY <1>1, <2>1, GuestsAssumption DEF Init, Types
    <2>4. \A c \in Cpu : HandlerOf(c) /\ op[c].pc = "idle"  BY <1>1, <2>1, <2>2 DEF Init, HandlerOf
    <2>5. ASSUME NEW i \in Id PROVE Known(i) /\ Exact(i)
        <3>1. Holders(i) = {}  BY <2>1, <2>2 DEF Holders, Id
        <3>2. Cardinality(Holders(i)) = 0  BY <3>1, FS_EmptySet
        <3> QED  BY <1>1, <3>2 DEF Init, Known, Exact
    <2> QED  BY <2>3, <2>4, <2>5 DEF Inv
<1>2. ASSUME Inv, [Next]_vars PROVE Inv'
    <2>1. CASE UNCHANGED vars
        <3>1. UNCHANGED <<next, active, table, refs, vm, op>>  BY <2>1 DEF vars
        <3>2. Types'  BY <1>2, <3>1 DEF Inv, Types
        <3>3. \A c \in Cpu : HandlerOf(c)' /\ (op'[c].pc # "idle" => OwnerOf(c)')
            BY <1>2, <3>1 DEF Inv, HandlerOf, OwnerOf
        <3>4. \A i \in Id : Holders(i)' = Holders(i)  BY <3>1 DEF Holders
        <3>5. \A i \in Id : Known(i)' /\ Exact(i)'  BY <1>2, <3>1, <3>4 DEF Inv, Known, Exact
        <3> QED  BY <3>2, <3>3, <3>5 DEF Inv
    <2>2. CASE \E c \in Cpu : Step(c) \/ Call(c)
        <3>1. PICK c \in Cpu : Step(c) \/ Call(c)  BY <2>2
        <3>2. CASE Step(c)
            BY <1>2, <3>2, CreateVmStep, AddStep, DropLastStep, LookingStep DEF Step
        <3>3. CASE Call(c)
            BY <1>2, <3>3, AddActiveGuestStep, GetStep, RemoveStep DEF Call
        <3> QED  BY <3>1, <3>2, <3>3
    <2> QED  BY <1>2, <2>1, <2>2 DEF Next
<1> QED  BY <1>1, <1>2, PTL DEF Spec

\* The reference count of a guest is the number of its references, however many handlers look
\* at it, create guests and remove them: none works on a guest that was dropped, and the drop
\* after Guests::remove is the only one.
THEOREM RefCountsAreExact == Spec => []RefCountExact
<1>1. ASSUME Inv PROVE RefCountExact
    <2> SUFFICES ASSUME NEW i \in Id, Holders(i) # {} PROVE vm[i] = "live"
        BY <1>1 DEF RefCountExact, Inv, Exact
    <2>1. PICK c \in Cpu : op[c].id = i /\ op[c].pc # "create"  BY DEF Holders
    <2>2. op[c].pc # "idle"  BY <1>1, <2>1 DEF Inv, HandlerOf, Id
    <2>3. OwnerOf(c)  BY <1>1, <2>2, WorksOnGuest
    <2> QED  BY <2>1, <2>3 DEF OwnerOf
<1> QED  BY <1>1, Facts, PTL

\* The page tracker has every guest that exists on its list, and none that was dropped.
THEOREM ActiveGuestsAreLive == Spec => []ActiveIsLive
<1>1. ASSUME Inv PROVE ActiveIsLive  BY <1>1 DEF Inv, Known, ActiveIsLive
<1> QED  BY <1>1, Facts, PTL

=============================================================================
