-------------------------- MODULE GuestsLockProofs --------------------------
(***************************************************************************)
(* The locks of guests (Guests), for any number of CPUs, vCPUs and guests. *)
(* The lock of a guest names the handlers that are past it, and what it    *)
(* protects stays as it is for them: finalization finds a guest without    *)
(* readers and leaves it complete.                                         *)
(***************************************************************************)
EXTENDS Guests, TLAPS

Readers == {"call_once", "compare", "enable_imsic", "running"}
Writers == {"power_on", "validate"}
Outside == {"idle", "create", "add", "drop", "add_vcpu", "set_imsic", "finalize", "run"}
Work == [pc : Outside \cup Readers \cup Writers, id : 0..MaxId, v : Vcpu, arg : Location \cup Entry \cup {"none"}]
Result == {"none", "ok", "failed", "added", "exists"}

GuestTypes ==
    /\ state \in [Id -> {"init", "running"}]
    /\ box \in [Id -> [Vcpu -> Cpu \cup {NoCpu, Boxed}]]
    /\ location \in [Id -> [Vcpu -> Location \cup {NoLocation}]]
    /\ entry \in [Id -> Entry \cup {NoEntry}]
    /\ measured \in [Id -> Entry \cup {NoEntry}]
LockTypes == writer \in [Id -> Cpu \cup {NoCpu}] /\ readers \in [Id -> SUBSET Cpu]
Types ==
    /\ next \in 1..(MaxId + 1) /\ table \subseteq Id
    /\ GuestTypes /\ LockTypes
    /\ op \in [Cpu -> Work] /\ result \in [Cpu -> Result]

\* A handler has the argument it was called with.
HandlerOf(c) ==
    /\ op[c].pc = "idle" <=> op[c].id = 0
    /\ op[c].pc \in {"finalize", "power_on", "validate"} => op[c].arg \in Entry
    /\ op[c].pc \in {"set_imsic", "enable_imsic"} => op[c].arg \in Location

\* What a handler found out about its guest is still true.
GuardOf(c) ==
    /\ op[c].pc \in {"call_once", "compare", "enable_imsic"} => state[op[c].id] = "init"
    /\ op[c].pc = "running" => state[op[c].id] = "running"
    /\ op[c].pc = "validate" => entry[op[c].id] # NoEntry /\ box[op[c].id][BootVcpu] # NoCpu

\* The lock of a guest names the handlers that are past it.
LockOf(i) ==
    /\ readers[i] = {c \in Cpu : op[c].id = i /\ op[c].pc \in Readers}
    /\ \A c \in Cpu : writer[i] = c <=> op[c].id = i /\ op[c].pc \in Writers
    /\ writer[i] # NoCpu => readers[i] = {} /\ state[i] = "init"

\* A call that added a vCPU and has not returned is the one that compares.
BoxOf(i) ==
    \A v \in Vcpu : box[i][v] \in Cpu =>
        op[box[i][v]].pc = "compare" /\ op[box[i][v]].id = i /\ op[box[i][v]].v = v

CompleteOf(i) ==
    /\ measured[i] = entry[i]
    /\ state[i] = "running" =>
        /\ entry[i] # NoEntry /\ BootVcpu \in Added(i)
        /\ \A v, w \in Added(i) :
            location[i][v] # NoLocation /\ (location[i][v] = location[i][w] => v = w)

Inv ==
    /\ Types
    /\ \A c \in Cpu : HandlerOf(c) /\ GuardOf(c)
    /\ \A i \in Id : LockOf(i) /\ BoxOf(i) /\ CompleteOf(i)

-----------------------------------------------------------------------------
(* Steps at one guest.                                                     *)

\* A handler works on a guest.
LEMMA WorksOnGuest ==
    ASSUME Inv, NEW c \in Cpu, op[c].pc # "idle"
    PROVE  /\ op[c].id \in Id /\ op[c].id # 0 /\ op[c].v \in Vcpu
           /\ HandlerOf(c) /\ GuardOf(c) /\ LockOf(op[c].id) /\ BoxOf(op[c].id) /\ CompleteOf(op[c].id)
<1>1. HandlerOf(c) /\ GuardOf(c) /\ op[c].id \in 0..MaxId /\ op[c].v \in Vcpu  BY DEF Inv, Types, Work
<1>2. op[c].id \in Id /\ op[c].id # 0  BY <1>1, GuestsAssumption DEF HandlerOf, Id
<1> QED  BY <1>1, <1>2 DEF Inv

\* What a handler knows depends on its own guest only.
Same(i) ==
    /\ state'[i] = state[i] /\ box'[i] = box[i] /\ location'[i] = location[i] /\ entry'[i] = entry[i]
    /\ measured'[i] = measured[i]
OnlyAt(c, i) ==
    /\ \A d \in Cpu \ {c} : op'[d] = op[d]
    /\ op[c].id \in {0, i} /\ op'[c].id \in {0, i}
    /\ \A j \in Id \ {i} : Same(j) /\ writer'[j] = writer[j] /\ readers'[j] = readers[j]

\* The guards of a guest stay while the guest stays as it is.
LEMMA GuardStays ==
    ASSUME NEW d \in Cpu, op'[d] = op[d], Same(op[d].id), GuardOf(d)
    PROVE  GuardOf(d)'
BY DEF Same, GuardOf

\* The measurements and addresses of a guest stay while the guest stays as it is.
LEMMA CompleteStays ==
    ASSUME NEW i \in Id, Same(i), CompleteOf(i) PROVE CompleteOf(i)'
<1>1. Added(i)' = Added(i)  BY DEF Added, Same
<1> QED  BY <1>1 DEF Same, CompleteOf

\* A handler that compares stays where it is while the vCPUs of its guest stay.
LEMMA BoxStays ==
    ASSUME NEW i \in Id, BoxOf(i), box'[i] = box[i],
           \A d \in Cpu : op[d].pc = "compare" => op'[d] = op[d]
    PROVE  BoxOf(i)'
<1> SUFFICES ASSUME NEW v \in Vcpu, box[i][v] \in Cpu
             PROVE  op'[box[i][v]].pc = "compare" /\ op'[box[i][v]].id = i /\ op'[box[i][v]].v = v
    BY DEF BoxOf
<1>1. PICK d \in Cpu : d = box[i][v]  OBVIOUS
<1>2. op[d].pc = "compare" /\ op[d].id = i /\ op[d].v = v  BY <1>1 DEF BoxOf
<1>3. op'[d] = op[d]  BY <1>2
<1> QED  BY <1>1, <1>2, <1>3

\* A lock stays right while no handler takes it or lets go of it.
LEMMA LockStays ==
    ASSUME NEW i \in Id, LockOf(i), writer'[i] = writer[i], readers'[i] = readers[i], state'[i] = state[i],
           \A d \in Cpu : /\ op'[d].id = op[d].id
                          /\ op'[d].pc \in Readers <=> op[d].pc \in Readers
                          /\ op'[d].pc \in Writers <=> op[d].pc \in Writers
    PROVE  LockOf(i)'
<1>1. readers[i] = {d \in Cpu : op[d].id = i /\ op[d].pc \in Readers}  BY DEF LockOf
<1>2. readers'[i] = {d \in Cpu : op'[d].id = i /\ op'[d].pc \in Readers}  BY <1>1
<1>3. ASSUME NEW d \in Cpu PROVE writer'[i] = d <=> op'[d].id = i /\ op'[d].pc \in Writers
    <2>1. writer[i] = d <=> op[d].id = i /\ op[d].pc \in Writers  BY DEF LockOf
    <2> QED  BY <2>1
<1>4. writer'[i] # NoCpu => readers'[i] = {} /\ state'[i] = "init"  BY DEF LockOf
<1> QED  BY <1>2, <1>3, <1>4 DEF LockOf

\* What a step leaves to show is about its own guest and its own handler.
LEMMA Elsewhere ==
    ASSUME Inv, NEW c \in Cpu, NEW i \in Id, OnlyAt(c, i), Types', HandlerOf(c)',
           \A d \in Cpu : op'[d].id = i => GuardOf(d)', LockOf(i)', BoxOf(i)', CompleteOf(i)'
    PROVE  Inv'
<1>1. ASSUME NEW d \in Cpu PROVE HandlerOf(d)'
    <2>1. CASE d = c  BY <2>1
    <2>2. CASE d # c
        <3>1. HandlerOf(d) /\ op'[d] = op[d]  BY <2>2 DEF Inv, OnlyAt
        <3> QED  BY <3>1 DEF HandlerOf
    <2> QED  BY <2>1, <2>2
<1>2. ASSUME NEW d \in Cpu PROVE GuardOf(d)'
    <2>1. CASE op'[d].id = i  BY <2>1
    <2>2. CASE op'[d].pc = "idle"  BY <2>2 DEF GuardOf
    <2>3. CASE op'[d].id # i /\ op'[d].pc # "idle"
        <3>1. op'[d].id # 0  BY <1>1, <2>3 DEF HandlerOf
        <3>2. d # c /\ op'[d] = op[d]  BY <2>3, <3>1 DEF OnlyAt
        <3>3. op[d].id \in Id \ {i} /\ GuardOf(d)  BY <2>3, <3>2, WorksOnGuest
        <3> QED  BY <3>2, <3>3, GuardStays DEF OnlyAt
    <2> QED  BY <2>1, <2>2, <2>3
<1>3. ASSUME NEW j \in Id \ {i} PROVE LockOf(j)' /\ BoxOf(j)' /\ CompleteOf(j)'
    <2>1. Same(j) /\ writer'[j] = writer[j] /\ readers'[j] = readers[j]  BY DEF OnlyAt
    <2>2. LockOf(j) /\ BoxOf(j) /\ CompleteOf(j)  BY DEF Inv
    <2>3. j # 0 /\ op[c].id # j /\ op'[c].id # j  BY DEF Id, OnlyAt
    <2>4. \A d \in Cpu \ {c} : op'[d] = op[d]  BY DEF OnlyAt
    <2>5. LockOf(j)'  BY <2>1, <2>2, <2>3, <2>4 DEF LockOf, Same
    <2>6. BoxOf(j)'  BY <2>1, <2>2, <2>3, <2>4 DEF BoxOf, Same
    <2>7. CompleteOf(j)'  BY <2>1, <2>2, CompleteStays
    <2> QED  BY <2>5, <2>6, <2>7
<1> QED  BY <1>1, <1>2, <1>3 DEF Inv

\* A step between two places outside of every lock.
LEMMA OutsideStep ==
    ASSUME Inv, NEW c \in Cpu, op[c].pc \in Outside, op'[c].pc \in Outside, HandlerOf(c)', Types',
           \A d \in Cpu \ {c} : op'[d] = op[d], UNCHANGED <<guestvars, lockvars>>
    PROVE  Inv'
<1>1. UNCHANGED <<state, box, location, entry, measured, writer, readers>>  BY DEF guestvars, lockvars
<1>2. op[c].pc \notin Readers \cup Writers /\ op'[c].pc \notin Readers \cup Writers /\ op[c].pc # "compare"
    BY DEF Outside, Readers, Writers
<1>3. \A i : Same(i)  BY <1>1 DEF Same
<1>4. ASSUME NEW d \in Cpu PROVE HandlerOf(d)' /\ GuardOf(d)'
    <2>1. CASE d = c  BY <1>2, <2>1 DEF GuardOf, Readers, Writers
    <2>2. CASE d # c
        <3>1. HandlerOf(d) /\ GuardOf(d) /\ op'[d] = op[d]  BY <2>2 DEF Inv
        <3> QED  BY <1>3, <3>1, GuardStays DEF HandlerOf
    <2> QED  BY <2>1, <2>2
<1>5. ASSUME NEW i \in Id PROVE LockOf(i)' /\ BoxOf(i)' /\ CompleteOf(i)'
    <2>1. LockOf(i) /\ BoxOf(i) /\ CompleteOf(i)  BY DEF Inv
    <2>2. LockOf(i)'  BY <1>1, <1>2, <2>1 DEF LockOf
    <2>3. BoxOf(i)'  BY <1>1, <1>2, <2>1 DEF BoxOf
    <2>4. CompleteOf(i)'  BY <1>3, <2>1, CompleteStays
    <2> QED  BY <2>2, <2>3, <2>4
<1> QED  BY <1>4, <1>5 DEF Inv

\* Ways to go on: another place in the handler, a new handler, or none.
LEMMA Going ==
    ASSUME Types, NEW c \in Cpu
    PROVE  /\ \A p \in Outside \cup Readers \cup Writers : Goto(c, p) =>
                /\ op' \in [Cpu -> Work] /\ \A d \in Cpu \ {c} : op'[d] = op[d]
                /\ op'[c].pc = p /\ op'[c].id = op[c].id /\ op'[c].v = op[c].v /\ op'[c].arg = op[c].arg
           /\ \A p \in {"create", "drop"}, i \in Id : op' = [op EXCEPT ![c] = At(p, i)] =>
                /\ op' \in [Cpu -> Work] /\ \A d \in Cpu \ {c} : op'[d] = op[d]
                /\ op'[c].pc = p /\ op'[c].id = i
           /\ \A r \in Result : Return(c, r) =>
                /\ op' \in [Cpu -> Work] /\ \A d \in Cpu \ {c} : op'[d] = op[d]
                /\ op'[c].pc = "idle" /\ op'[c].id = 0
                /\ result' \in [Cpu -> Result]
<1>1. \A p \in {"idle", "create", "drop"}, i \in 0..MaxId :
        At(p, i) \in Work /\ At(p, i).pc = p /\ At(p, i).id = i
    BY GuestsAssumption DEF At, Work, Outside
<1>2. 0 \in 0..MaxId /\ Id \subseteq 0..MaxId  BY GuestsAssumption DEF Id
<1>3. ASSUME NEW p \in Outside \cup Readers \cup Writers, Goto(c, p)
      PROVE  /\ op' \in [Cpu -> Work] /\ \A d \in Cpu \ {c} : op'[d] = op[d]
             /\ op'[c].pc = p /\ op'[c].id = op[c].id /\ op'[c].v = op[c].v /\ op'[c].arg = op[c].arg
    BY <1>3 DEF Types, Goto, Work
<1>4. ASSUME NEW p \in {"create", "drop"}, NEW i \in Id, op' = [op EXCEPT ![c] = At(p, i)]
      PROVE  /\ op' \in [Cpu -> Work] /\ \A d \in Cpu \ {c} : op'[d] = op[d]
             /\ op'[c].pc = p /\ op'[c].id = i
    BY <1>1, <1>2, <1>4 DEF Types
<1>5. ASSUME NEW r \in Result, Return(c, r)
      PROVE  /\ op' \in [Cpu -> Work] /\ \A d \in Cpu \ {c} : op'[d] = op[d]
             /\ op'[c].pc = "idle" /\ op'[c].id = 0
             /\ result' \in [Cpu -> Result]
    BY <1>1, <1>2, <1>5 DEF Types, Return, Idle
<1> QED  BY <1>3, <1>4, <1>5

-----------------------------------------------------------------------------
(* Steps of handlers that do not hold the lock.                            *)

\* Handlers that create a guest, drop one, or begin to look at one.
LEMMA TableStep ==
    ASSUME Inv, NEW c \in Cpu,
           \/ AddActiveGuest(c) \/ CreateVm(c) \/ Add(c) \/ DropLast(c)
           \/ \E i \in Id : Get(c, i) \/ Remove(c, i)
    PROVE  Inv'
<1>1. Types /\ HandlerOf(c)  BY DEF Inv
<1>2. UNCHANGED <<guestvars, lockvars>>  BY DEF AddActiveGuest, CreateVm, Add, DropLast, Get, Remove
<1>3. GuestTypes' /\ LockTypes'  BY <1>1, <1>2 DEF Types, GuestTypes, LockTypes, guestvars, lockvars
<1>4. op[c].pc \in Outside  BY DEF AddActiveGuest, CreateVm, Add, DropLast, Get, Remove, Outside
<1>5. next' \in 1..(MaxId + 1)
    <2>1. ASSUME next <= MaxId, next' = next + 1 PROVE next' \in 1..(MaxId + 1)
        BY <1>1, <2>1, GuestsAssumption DEF Types
    <2> QED  BY <1>1, <2>1 DEF Types, AddActiveGuest, CreateVm, Add, DropLast, Get, Remove, tablevars
<1>6. table' \subseteq Id
    <2>1. op[c].pc = "add" => op[c].id \in Id  BY WorksOnGuest
    <2> QED  BY <1>1, <2>1 DEF Types, AddActiveGuest, CreateVm, Add, DropLast, Get, Remove, tablevars
<1> SUFFICES /\ op' \in [Cpu -> Work] /\ result' \in [Cpu -> Result] /\ \A d \in Cpu \ {c} : op'[d] = op[d]
             /\ op'[c].pc \in Outside /\ HandlerOf(c)'
    BY <1>2, <1>3, <1>4, <1>5, <1>6, OutsideStep DEF Types
<1>7. ASSUME NEW r \in Result, Return(c, r)
      PROVE  /\ op' \in [Cpu -> Work] /\ result' \in [Cpu -> Result] /\ \A d \in Cpu \ {c} : op'[d] = op[d]
             /\ op'[c].pc \in Outside /\ HandlerOf(c)'
    BY <1>1, <1>7, Going DEF Outside, HandlerOf
<1>8. ASSUME NEW p \in {"create", "drop"}, NEW i \in Id, op' = [op EXCEPT ![c] = At(p, i)], result' = result
      PROVE  /\ op' \in [Cpu -> Work] /\ result' \in [Cpu -> Result] /\ \A d \in Cpu \ {c} : op'[d] = op[d]
             /\ op'[c].pc \in Outside /\ HandlerOf(c)'
    <2>1. /\ op' \in [Cpu -> Work] /\ \A d \in Cpu \ {c} : op'[d] = op[d]
          /\ op'[c].pc = p /\ op'[c].id = i
        BY <1>1, <1>8, Going
    <2>2. i # 0  BY DEF Id
    <2> QED  BY <1>1, <1>8, <2>1, <2>2 DEF Outside, HandlerOf, Types
<1>9. CASE AddActiveGuest(c)
    <2>1. next \in Id  BY <1>1, <1>9, GuestsAssumption DEF AddActiveGuest, Types, Id
    <2>2. (op' = [op EXCEPT ![c] = At("create", next)] /\ result' = result) \/ Return(c, "failed")
        BY <1>9 DEF AddActiveGuest
    <2> QED  BY <1>7, <1>8, <2>1, <2>2 DEF Result
<1>10. CASE CreateVm(c)
    <2>1. CASE Return(c, "failed")  BY <1>7, <2>1 DEF Result
    <2>2. CASE Goto(c, "add") /\ result' = result
        <3>1. /\ op' \in [Cpu -> Work] /\ \A d \in Cpu \ {c} : op'[d] = op[d]
              /\ op'[c].pc = "add" /\ op'[c].id = op[c].id
            BY <1>1, <2>2, Going DEF Outside
        <3>2. op[c].id # 0  BY <1>10, WorksOnGuest DEF CreateVm
        <3> QED  BY <1>1, <2>2, <3>1, <3>2 DEF Outside, HandlerOf, Types
    <2> QED  BY <1>10, <2>1, <2>2 DEF CreateVm
<1>11. CASE Add(c)
    <2>1. Return(c, "ok") \/ Return(c, "failed")  BY <1>11 DEF Add
    <2> QED  BY <1>7, <2>1 DEF Result
<1>12. CASE DropLast(c)  BY <1>7, <1>12 DEF DropLast, Result
<1>13. ASSUME NEW i \in Id, Remove(c, i)
       PROVE  /\ op' \in [Cpu -> Work] /\ result' \in [Cpu -> Result] /\ \A d \in Cpu \ {c} : op'[d] = op[d]
              /\ op'[c].pc \in Outside /\ HandlerOf(c)'
    BY <1>8, <1>13 DEF Remove
<1>14. ASSUME NEW i \in Id, Get(c, i)
       PROVE  /\ op' \in [Cpu -> Work] /\ result' \in [Cpu -> Result] /\ \A d \in Cpu \ {c} : op'[d] = op[d]
              /\ op'[c].pc \in Outside /\ HandlerOf(c)'
    <2>1. PICK pc \in {"add_vcpu", "set_imsic", "finalize", "run"}, v \in Vcpu :
            \E arg \in CASE pc = "finalize" -> Entry [] pc = "set_imsic" -> Location [] OTHER -> {"none"} :
                op' = [op EXCEPT ![c] = [pc |-> pc, id |-> i, v |-> v, arg |-> arg]]
        BY <1>14 DEF Get
    <2>2. PICK arg \in Location \cup Entry \cup {"none"} :
            /\ pc = "finalize" => arg \in Entry
            /\ pc = "set_imsic" => arg \in Location
            /\ op' = [op EXCEPT ![c] = [pc |-> pc, id |-> i, v |-> v, arg |-> arg]]
        BY <2>1
    <2>3. [pc |-> pc, id |-> i, v |-> v, arg |-> arg] \in Work /\ i # 0  BY DEF Work, Outside, Id
    <2>4. op' \in [Cpu -> Work] /\ \A d \in Cpu \ {c} : op'[d] = op[d]  BY <1>1, <2>2, <2>3 DEF Types
    <2>5. op'[c].pc = pc /\ op'[c].id = i /\ op'[c].arg = arg  BY <1>1, <2>2 DEF Types
    <2>6. result' = result  BY <1>14 DEF Get
    <2> QED  BY <1>1, <2>2, <2>3, <2>4, <2>5, <2>6 DEF Types, Outside, HandlerOf
<1> QED  BY <1>9, <1>10, <1>11, <1>12, <1>13, <1>14

\* The end of a handler lets go of the lock it has.
LEMMA PutLock ==
    ASSUME Inv, NEW c \in Cpu, op[c].pc # "idle", NEW i, i = op[c].id, NEW r \in Result, Put(c, r),
           state'[i] = state[i] \/ op[c].pc \in Writers
    PROVE  /\ i \in Id /\ LockTypes' /\ LockOf(i)'
           /\ op' \in [Cpu -> Work] /\ result' \in [Cpu -> Result] /\ \A d \in Cpu \ {c} : op'[d] = op[d]
           /\ op'[c].pc = "idle" /\ op'[c].id = 0
           /\ \A j \in Id \ {i} : writer'[j] = writer[j] /\ readers'[j] = readers[j]
           /\ next' = next /\ table' = table
<1>1. i \in Id /\ i # 0 /\ LockOf(i) /\ Types  BY WorksOnGuest DEF Inv
<1>2. /\ readers' = [readers EXCEPT ![i] = @ \ {c}]
      /\ writer' = [writer EXCEPT ![i] = IF @ = c THEN NoCpu ELSE @]
      /\ Return(c, r) /\ next' = next /\ table' = table
    BY DEF Put, tablevars
<1>3. /\ op' \in [Cpu -> Work] /\ \A d \in Cpu \ {c} : op'[d] = op[d]
      /\ op'[c].pc = "idle" /\ op'[c].id = 0
      /\ result' \in [Cpu -> Result]
    BY <1>1, <1>2, Going
<1>4. LockTypes' /\ \A j \in Id \ {i} : writer'[j] = writer[j] /\ readers'[j] = readers[j]
    BY <1>1, <1>2 DEF Types, LockTypes
<1>5. readers'[i] = readers[i] \ {c} /\ writer'[i] = (IF writer[i] = c THEN NoCpu ELSE writer[i])
    BY <1>1, <1>2 DEF Types, LockTypes
<1>6. LockOf(i)'
    <2>1. readers'[i] = {d \in Cpu : op'[d].id = i /\ op'[d].pc \in Readers}
        <3>1. readers[i] = {d \in Cpu : op[d].id = i /\ op[d].pc \in Readers}  BY <1>1 DEF LockOf
        <3>2. \A d \in Cpu : op'[d].id = i /\ op'[d].pc \in Readers <=> d # c /\ op[d].id = i /\ op[d].pc \in Readers
            BY <1>1, <1>3
        <3> QED  BY <1>5, <3>1, <3>2
    <2>2. ASSUME NEW d \in Cpu PROVE writer'[i] = d <=> op'[d].id = i /\ op'[d].pc \in Writers
        <3>1. d # NoCpu  BY GuestsAssumption
        <3>2. writer[i] = d <=> op[d].id = i /\ op[d].pc \in Writers  BY <1>1 DEF LockOf
        <3> QED  BY <1>1, <1>3, <1>5, <3>1, <3>2
    <2>3. writer'[i] # NoCpu => readers'[i] = {} /\ state'[i] = "init"
        <3>1. op[c].pc \in Writers => writer[i] = c  BY <1>1 DEF LockOf
        <3> QED  BY <1>1, <1>5, <3>1 DEF LockOf
    <2> QED  BY <2>1, <2>2, <2>3 DEF LockOf
<1> QED  BY <1>1, <1>2, <1>3, <1>4, <1>6

\* The end of a handler that changed its guest at most.
LEMMA PutStep ==
    ASSUME Inv, NEW c \in Cpu, op[c].pc # "idle", NEW i, i = op[c].id, NEW r \in Result, Put(c, r),
           state'[i] = state[i] \/ op[c].pc \in Writers,
           GuestTypes', \A j \in Id \ {i} : Same(j),
           \A d \in Cpu \ {c} : op[d].id = i => GuardOf(d)', BoxOf(i)', CompleteOf(i)'
    PROVE  Inv'
<1>1. /\ i \in Id /\ LockTypes' /\ LockOf(i)'
      /\ op' \in [Cpu -> Work] /\ result' \in [Cpu -> Result] /\ \A d \in Cpu \ {c} : op'[d] = op[d]
      /\ op'[c].pc = "idle" /\ op'[c].id = 0
      /\ \A j \in Id \ {i} : writer'[j] = writer[j] /\ readers'[j] = readers[j]
      /\ next' = next /\ table' = table
    BY PutLock
<1>2. Types'  BY <1>1 DEF Inv, Types
<1>3. OnlyAt(c, i)  BY <1>1 DEF OnlyAt
<1>4. HandlerOf(c)'  BY <1>1 DEF HandlerOf
<1>5. \A d \in Cpu : op'[d].id = i => GuardOf(d)'
    <2>1. i # 0  BY <1>1 DEF Id
    <2> QED  BY <1>1, <2>1
<1> QED  BY <1>1, <1>2, <1>3, <1>4, <1>5, Elsewhere

\* The end of a handler that changed nothing.
LEMMA PutSame ==
    ASSUME Inv, NEW c \in Cpu, op[c].pc \notin {"idle", "compare"}, NEW r \in Result, Put(c, r), UNCHANGED guestvars
    PROVE  Inv'
<1>0. PICK i : i = op[c].id  OBVIOUS
<1>1. i \in Id /\ BoxOf(i) /\ CompleteOf(i)  BY <1>0, WorksOnGuest
<1>2. UNCHANGED <<state, box, location, entry, measured>>  BY DEF guestvars
<1>3. \A j : Same(j)  BY <1>2 DEF Same
<1>4. GuestTypes'  BY <1>2 DEF Inv, Types, GuestTypes
<1>5. \A d \in Cpu \ {c} : op'[d] = op[d]  BY Going DEF Inv, Put
<1>6. \A d \in Cpu \ {c} : GuardOf(d)'
    <2>1. \A d \in Cpu : GuardOf(d)  BY DEF Inv
    <2> QED  BY <1>3, <1>5, <2>1, GuardStays
<1>7. BoxOf(i)'  BY <1>1, <1>2, <1>5 DEF BoxOf
<1>8. CompleteOf(i)'  BY <1>1, <1>3, CompleteStays
<1> QED  BY <1>0, <1>2, <1>3, <1>4, <1>6, <1>7, <1>8, PutStep

-----------------------------------------------------------------------------
(* Steps of handlers that take the lock or have it.                        *)

LEMMA ReadLockStep == ASSUME Inv, NEW c \in Cpu, ReadLock(c) PROVE Inv'
<1>0. PICK i, p : /\ i = op[c].id
                  /\ p = CASE op[c].pc = "add_vcpu" -> "call_once"
                           [] op[c].pc = "set_imsic" -> "enable_imsic"
                           [] OTHER -> "running"
    OBVIOUS
<1>1. op[c].pc \in {"add_vcpu", "set_imsic", "run"} /\ writer[i] = NoCpu /\ UNCHANGED guestvars
    BY <1>0 DEF ReadLock
<1>2. i \in Id /\ HandlerOf(c) /\ LockOf(i) /\ BoxOf(i) /\ CompleteOf(i) /\ i # 0 /\ Types
    BY <1>0, <1>1, WorksOnGuest DEF Inv
<1>3. CASE Put(c, "failed")  BY <1>1, <1>3, PutSame DEF Result
<1>4. CASE /\ readers' = [readers EXCEPT ![i] = @ \cup {c}] /\ Goto(c, p)
           /\ state[i] = (IF op[c].pc \in {"add_vcpu", "set_imsic"} THEN "init" ELSE "running")
           /\ UNCHANGED <<tablevars, writer, refs, result>>
    <2>1. p \in Readers /\ (p = "running" <=> op[c].pc = "run") /\ p # "idle" /\ p # "validate" /\ p # "power_on"
        BY <1>0, <1>1 DEF Readers
    <2>2. (p = "enable_imsic" <=> op[c].pc = "set_imsic") /\ p \notin Writers  BY <1>0, <1>1 DEF Writers
    <2>3. /\ op' \in [Cpu -> Work] /\ \A d \in Cpu \ {c} : op'[d] = op[d]
          /\ op'[c].pc = p /\ op'[c].id = i /\ op'[c].arg = op[c].arg
        BY <1>0, <1>2, <1>4, <2>1, Going
    <2>4. UNCHANGED <<state, box, location, entry, measured, writer, next, table, result>>
        BY <1>1, <1>4 DEF guestvars, tablevars
    <2>5. readers' \in [Id -> SUBSET Cpu] /\ readers'[i] = readers[i] \cup {c} /\ \A j \in Id \ {i} : readers'[j] = readers[j]
        BY <1>2, <1>4 DEF Types, LockTypes
    <2>6. Types'  BY <1>2, <2>3, <2>4, <2>5 DEF Types, GuestTypes, LockTypes
    <2>7. \A j : Same(j)  BY <2>4 DEF Same
    <2>8. OnlyAt(c, i)  BY <1>0, <2>3, <2>4, <2>5, <2>7 DEF OnlyAt
    <2>9. HandlerOf(c)'  BY <1>2, <2>1, <2>2, <2>3 DEF HandlerOf, Readers
    <2>10. \A d \in Cpu : GuardOf(d)'
        <3>1. GuardOf(c)'  BY <1>1, <1>4, <2>1, <2>3, <2>4 DEF GuardOf
        <3>2. \A d \in Cpu : GuardOf(d)  BY DEF Inv
        <3> QED  BY <2>3, <2>7, <3>1, <3>2, GuardStays
    <2>11. LockOf(i)'
        <3>1. op[c].pc \notin Readers \cup Writers  BY <1>1 DEF Readers, Writers
        <3>2. readers'[i] = {d \in Cpu : op'[d].id = i /\ op'[d].pc \in Readers}
            BY <1>2, <2>1, <2>3, <2>5, <3>1 DEF LockOf
        <3>3. ASSUME NEW d \in Cpu PROVE writer'[i] = d <=> op'[d].id = i /\ op'[d].pc \in Writers
            <4>1. writer[i] = d <=> op[d].id = i /\ op[d].pc \in Writers  BY <1>2 DEF LockOf
            <4>2. op'[d].pc \in Writers <=> op[d].pc \in Writers  BY <2>2, <2>3, <3>1
            <4>3. op'[d].id = op[d].id  BY <1>0, <2>3
            <4> QED  BY <2>4, <4>1, <4>2, <4>3
        <3> QED  BY <1>1, <2>4, <3>2, <3>3 DEF LockOf
    <2>12. BoxOf(i)'
        <3>1. \A d \in Cpu : op[d].pc = "compare" => op'[d] = op[d]  BY <1>1, <2>3
        <3> QED  BY <1>2, <2>4, <3>1, BoxStays
    <2>13. CompleteOf(i)'  BY <1>2, <2>7, CompleteStays
    <2> QED  BY <1>2, <2>6, <2>8, <2>9, <2>10, <2>11, <2>12, <2>13, Elsewhere
<1> QED  BY <1>0, <1>3, <1>4 DEF ReadLock

\* Another place in the handler, under the same lock.
LEMMA SameLock ==
    ASSUME Inv, NEW c \in Cpu, op[c].pc # "idle", NEW i, i = op[c].id,
           NEW p \in Readers \cup Writers, p \in Readers <=> op[c].pc \in Readers,
           p \in Writers <=> op[c].pc \in Writers, Goto(c, p),
           UNCHANGED <<tablevars, lockvars, result, state>>, GuestTypes', \A j \in Id \ {i} : Same(j), HandlerOf(c)',
           \A d \in Cpu : op'[d].id = i => GuardOf(d)', BoxOf(i)', CompleteOf(i)'
    PROVE  Inv'
<1>1. i \in Id /\ LockOf(i) /\ Types  BY WorksOnGuest DEF Inv
<1>2. op' \in [Cpu -> Work] /\ (\A d \in Cpu \ {c} : op'[d] = op[d]) /\ op'[c].pc = p /\ op'[c].id = i
    BY <1>1, Going
<1>3. UNCHANGED <<next, table, writer, readers, result, state>>  BY DEF tablevars, lockvars
<1>4. Types'  BY <1>1, <1>2, <1>3 DEF Types, LockTypes
<1>5. OnlyAt(c, i)  BY <1>2, <1>3 DEF OnlyAt
<1>6. LockOf(i)'
    <2>1. \A d \in Cpu : op'[d].id = op[d].id /\ (op'[d].pc \in Readers <=> op[d].pc \in Readers)
                         /\ (op'[d].pc \in Writers <=> op[d].pc \in Writers)
        BY <1>2
    <2> QED  BY <1>1, <1>3, <2>1, LockStays
<1> QED  BY <1>1, <1>4, <1>5, <1>6, Elsewhere

LEMMA CallOnceStep == ASSUME Inv, NEW c \in Cpu, CallOnce(c) PROVE Inv'
<1>0. PICK i, v : i = op[c].id /\ v = op[c].v  OBVIOUS
<1>1. /\ op[c].pc = "call_once" /\ Goto(c, "compare")
      /\ \/ box[i][v] = NoCpu /\ box' = [box EXCEPT ![i][v] = c]
         \/ box' = box
      /\ UNCHANGED <<tablevars, lockvars, result, location, entry, measured, state>>
    BY <1>0 DEF CallOnce
<1>2. i \in Id /\ v \in Vcpu /\ i # 0 /\ HandlerOf(c) /\ GuardOf(c) /\ BoxOf(i) /\ CompleteOf(i) /\ Types
    BY <1>0, <1>1, WorksOnGuest DEF Inv
<1>3. state[i] = "init"  BY <1>0, <1>1, <1>2 DEF GuardOf
<1>4. /\ op' \in [Cpu -> Work] /\ \A d \in Cpu \ {c} : op'[d] = op[d]
      /\ op'[c].pc = "compare" /\ op'[c].id = i /\ op'[c].v = v
    BY <1>0, <1>1, <1>2, Going DEF Readers
<1>5. /\ box' \in [Id -> [Vcpu -> Cpu \cup {NoCpu, Boxed}]] /\ \A j \in Id \ {i} : box'[j] = box[j]
      /\ \A w \in Vcpu \ {v} : box'[i][w] = box[i][w]
      /\ box'[i][v] = box[i][v] \/ (box[i][v] = NoCpu /\ box'[i][v] = c)
    <2>1. box \in [Id -> [Vcpu -> Cpu \cup {NoCpu, Boxed}]]  BY <1>2 DEF Types, GuestTypes
    <2>2. CASE box' = box  BY <2>1, <2>2
    <2>3. CASE box[i][v] = NoCpu /\ box' = [box EXCEPT ![i][v] = c]  BY <1>2, <2>1, <2>3
    <2> QED  BY <1>1, <2>2, <2>3
<1>6. GuestTypes'  BY <1>1, <1>2, <1>5 DEF Types, GuestTypes
<1>7. \A j \in Id \ {i} : Same(j)  BY <1>1, <1>5 DEF Same
<1>8. HandlerOf(c)'  BY <1>2, <1>4 DEF HandlerOf
<1>9. ASSUME NEW d \in Cpu, op'[d].id = i PROVE GuardOf(d)'
    <2>1. CASE d = c  BY <1>1, <1>3, <1>4, <2>1 DEF GuardOf
    <2>2. CASE d # c
        <3>1. GuardOf(d) /\ op'[d] = op[d]  BY <1>4, <2>2 DEF Inv
        <3>2. box[i][BootVcpu] # NoCpu => box'[i][BootVcpu] # NoCpu  BY <1>5, GuestsAssumption
        <3> QED  BY <1>1, <1>9, <3>1, <3>2 DEF GuardOf
    <2> QED  BY <2>1, <2>2
<1>10. BoxOf(i)'
    <2> SUFFICES ASSUME NEW w \in Vcpu, box'[i][w] \in Cpu
                 PROVE  op'[box'[i][w]].pc = "compare" /\ op'[box'[i][w]].id = i /\ op'[box'[i][w]].v = w
        BY DEF BoxOf
    <2>1. CASE w = v /\ box'[i][v] = c  BY <1>4, <2>1
    <2>2. CASE box'[i][w] = box[i][w]
        <3>1. op[box[i][w]].pc = "compare" /\ op[box[i][w]].id = i /\ op[box[i][w]].v = w
            BY <1>2, <2>2 DEF BoxOf
        <3>2. box[i][w] # c  BY <1>1, <3>1
        <3> QED  BY <1>4, <2>2, <3>1, <3>2
    <2> QED  BY <1>5, <2>1, <2>2
<1>11. CompleteOf(i)'  BY <1>1, <1>2, <1>3 DEF CompleteOf
<1>12. "compare" \in Readers /\ "call_once" \in Readers /\ "compare" \notin Writers /\ "call_once" \notin Writers
    BY DEF Readers, Writers
<1> QED  BY <1>0, <1>1, <1>6, <1>7, <1>8, <1>9, <1>10, <1>11, <1>12, SameLock

LEMMA CompareStep == ASSUME Inv, NEW c \in Cpu, Compare(c) PROVE Inv'
<1>0. PICK i, v, r : i = op[c].id /\ v = op[c].v /\ r = IF once_ptr_is_ptr(c) THEN "added" ELSE "exists"  OBVIOUS
<1>1. /\ op[c].pc = "compare" /\ Put(c, r) /\ r \in Result
      /\ box' = [box EXCEPT ![i][v] = IF @ = c THEN Boxed ELSE @]
      /\ UNCHANGED <<location, entry, measured, state>>
    BY <1>0 DEF Compare, Result
<1>2. i \in Id /\ v \in Vcpu /\ GuardOf(c) /\ BoxOf(i) /\ CompleteOf(i) /\ Types
    BY <1>0, <1>1, WorksOnGuest DEF Inv
<1>3. state[i] = "init"  BY <1>0, <1>1, <1>2 DEF GuardOf
<1>4. \A d \in Cpu \ {c} : op'[d] = op[d]  BY <1>1, <1>2, Going DEF Put
<1>5. /\ box' \in [Id -> [Vcpu -> Cpu \cup {NoCpu, Boxed}]] /\ \A j \in Id \ {i} : box'[j] = box[j]
      /\ \A w \in Vcpu \ {v} : box'[i][w] = box[i][w]
      /\ box'[i][v] = IF box[i][v] = c THEN Boxed ELSE box[i][v]
    BY <1>1, <1>2 DEF Types, GuestTypes
<1>6. GuestTypes'  BY <1>1, <1>2, <1>5 DEF Types, GuestTypes
<1>7. \A j \in Id \ {i} : Same(j)  BY <1>1, <1>5 DEF Same
<1>8. NoCpu # Boxed /\ Boxed \notin Cpu  BY GuestsAssumption DEF NoCpu, Boxed
<1>9. ASSUME NEW d \in Cpu \ {c}, op[d].id = i PROVE GuardOf(d)'
    <2>1. GuardOf(d) /\ op'[d] = op[d]  BY <1>4 DEF Inv
    <2>2. box[i][BootVcpu] # NoCpu => box'[i][BootVcpu] # NoCpu  BY <1>5, <1>8, GuestsAssumption
    <2> QED  BY <1>1, <1>9, <2>1, <2>2 DEF GuardOf
<1>10. BoxOf(i)'
    <2> SUFFICES ASSUME NEW w \in Vcpu, box'[i][w] \in Cpu
                 PROVE  op'[box'[i][w]].pc = "compare" /\ op'[box'[i][w]].id = i /\ op'[box'[i][w]].v = w
        BY DEF BoxOf
    <2>1. box'[i][w] = box[i][w] /\ (w = v => box[i][w] # c)  BY <1>5, <1>8
    <2>2. op[box[i][w]].pc = "compare" /\ op[box[i][w]].id = i /\ op[box[i][w]].v = w  BY <1>2, <2>1 DEF BoxOf
    <2>3. box[i][w] # c  BY <1>0, <2>1, <2>2
    <2> QED  BY <1>4, <2>1, <2>2, <2>3
<1>11. CompleteOf(i)'  BY <1>1, <1>2, <1>3 DEF CompleteOf
<1> QED  BY <1>0, <1>1, <1>6, <1>7, <1>9, <1>10, <1>11, PutStep

LEMMA EnableImsicStep == ASSUME Inv, NEW c \in Cpu, EnableImsic(c) PROVE Inv'
<1>0. PICK i, v, set : i = op[c].id /\ v = op[c].v /\ set = location[i][v]  OBVIOUS
<1>1. op[c].pc = "enable_imsic" /\ UNCHANGED <<box, entry, measured, state>>  BY DEF EnableImsic
<1>2. i \in Id /\ v \in Vcpu /\ HandlerOf(c) /\ GuardOf(c) /\ BoxOf(i) /\ CompleteOf(i) /\ Types
    BY <1>0, <1>1, WorksOnGuest DEF Inv
<1>3. CASE Put(c, "failed") /\ UNCHANGED location
    BY <1>1, <1>3, PutSame DEF guestvars, Result
<1>4. ASSUME NEW r \in {"ok", "failed"}, Put(c, r),
             location' = [location EXCEPT ![i][v] = IF set = NoLocation THEN op[c].arg ELSE set]
      PROVE  Inv'
    <2>1. state[i] = "init" /\ op[c].arg \in Location  BY <1>0, <1>1, <1>2 DEF GuardOf, HandlerOf
    <2>2. \A d \in Cpu \ {c} : op'[d] = op[d]  BY <1>2, <1>4, Going DEF Put, Result
    <2>3. set \in Location \cup {NoLocation}
        <3>1. location \in [Id -> [Vcpu -> Location \cup {NoLocation}]]  BY <1>2 DEF Types, GuestTypes
        <3> QED  BY <1>0, <1>2, <3>1
    <2>4. location' \in [Id -> [Vcpu -> Location \cup {NoLocation}]] /\ \A j \in Id \ {i} : location'[j] = location[j]
        BY <1>2, <1>4, <2>1, <2>3 DEF Types, GuestTypes
    <2>5. GuestTypes'  BY <1>1, <1>2, <2>4 DEF Types, GuestTypes
    <2>6. \A j \in Id \ {i} : Same(j)  BY <1>1, <2>4 DEF Same
    <2>7. ASSUME NEW d \in Cpu \ {c} PROVE GuardOf(d)'
        <3>1. GuardOf(d) /\ op'[d] = op[d]  BY <2>2 DEF Inv
        <3> QED  BY <1>1, <3>1 DEF GuardOf
    <2>8. BoxOf(i)'  BY <1>1, <1>2, <2>2 DEF BoxOf
    <2>9. CompleteOf(i)'  BY <1>1, <1>2, <2>1 DEF CompleteOf
    <2> QED  BY <1>0, <1>1, <1>4, <2>5, <2>6, <2>7, <2>8, <2>9, PutStep DEF Result
<1>5. \/ Put(c, "failed") /\ UNCHANGED location
      \/ /\ location' = [location EXCEPT ![i][v] = IF set = NoLocation THEN op[c].arg ELSE set]
         /\ Put(c, IF set \in {NoLocation, op[c].arg} THEN "ok" ELSE "failed")
    BY <1>0 DEF EnableImsic
<1> QED  BY <1>3, <1>4, <1>5

LEMMA RanStep == ASSUME Inv, NEW c \in Cpu, Ran(c) PROVE Inv'
BY PutSame DEF Ran, Result

LEMMA TryWriteStep == ASSUME Inv, NEW c \in Cpu, TryWrite(c) PROVE Inv'
<1>0. PICK i : i = op[c].id  OBVIOUS
<1>1. op[c].pc = "finalize" /\ UNCHANGED guestvars  BY DEF TryWrite
<1>2. i \in Id /\ i # 0 /\ HandlerOf(c) /\ LockOf(i) /\ BoxOf(i) /\ CompleteOf(i) /\ Types
    BY <1>0, <1>1, WorksOnGuest DEF Inv
<1>3. CASE Put(c, "failed")  BY <1>1, <1>3, PutSame DEF Result
<1>4. CASE /\ writer[i] = NoCpu /\ readers[i] = {} /\ state[i] = "init"
           /\ writer' = [writer EXCEPT ![i] = c] /\ Goto(c, "power_on")
           /\ UNCHANGED <<tablevars, readers, refs, result>>
    <2>1. /\ op' \in [Cpu -> Work] /\ \A d \in Cpu \ {c} : op'[d] = op[d]
          /\ op'[c].pc = "power_on" /\ op'[c].id = i /\ op'[c].arg = op[c].arg
        BY <1>0, <1>2, <1>4, Going DEF Writers
    <2>2. UNCHANGED <<state, box, location, entry, measured, readers, next, table, result>>
        BY <1>1, <1>4 DEF guestvars, tablevars
    <2>3. writer' \in [Id -> Cpu \cup {NoCpu}] /\ writer'[i] = c /\ \A j \in Id \ {i} : writer'[j] = writer[j]
        BY <1>2, <1>4 DEF Types, LockTypes
    <2>4. Types'  BY <1>2, <2>1, <2>2, <2>3 DEF Types, GuestTypes, LockTypes
    <2>5. \A j : Same(j)  BY <2>2 DEF Same
    <2>6. OnlyAt(c, i)  BY <1>0, <2>1, <2>2, <2>3, <2>5 DEF OnlyAt
    <2>7. HandlerOf(c)'  BY <1>1, <1>2, <2>1 DEF HandlerOf
    <2>8. \A d \in Cpu : GuardOf(d)'
        <3>1. GuardOf(c)'  BY <2>1 DEF GuardOf
        <3>2. \A d \in Cpu : GuardOf(d)  BY DEF Inv
        <3> QED  BY <2>1, <2>5, <3>1, <3>2, GuardStays
    <2>9. LockOf(i)'
        <3>1. "power_on" \in Writers /\ "power_on" \notin Readers /\ "finalize" \notin Readers  BY DEF Readers, Writers
        <3>2. readers'[i] = {d \in Cpu : op'[d].id = i /\ op'[d].pc \in Readers}
            <4>1. readers[i] = {d \in Cpu : op[d].id = i /\ op[d].pc \in Readers}  BY <1>2 DEF LockOf
            <4>2. \A d \in Cpu : op'[d].id = i /\ op'[d].pc \in Readers <=> op[d].id = i /\ op[d].pc \in Readers
                BY <1>1, <2>1, <3>1
            <4> QED  BY <2>2, <4>1, <4>2
        <3>3. ASSUME NEW d \in Cpu PROVE writer'[i] = d <=> op'[d].id = i /\ op'[d].pc \in Writers
            <4>1. ~(op[d].id = i /\ op[d].pc \in Writers)  BY <1>2, <1>4, GuestsAssumption DEF LockOf
            <4> QED  BY <2>1, <2>3, <3>1, <4>1
        <3> QED  BY <1>4, <2>2, <3>2, <3>3 DEF LockOf
    <2>10. BoxOf(i)'
        <3>1. \A d \in Cpu : op[d].pc = "compare" => op'[d] = op[d]  BY <1>1, <2>1
        <3> QED  BY <1>2, <2>2, <3>1, BoxStays
    <2>11. CompleteOf(i)'  BY <1>2, <2>5, CompleteStays
    <2> QED  BY <1>2, <2>4, <2>6, <2>7, <2>8, <2>9, <2>10, <2>11, Elsewhere
<1> QED  BY <1>0, <1>3, <1>4 DEF TryWrite, unshared

\* The handler that has a guest's lock for writing has the guest for itself.
LEMMA WriterFacts ==
    ASSUME Inv, NEW c \in Cpu, op[c].pc \in Writers, NEW i, i = op[c].id
    PROVE  /\ state[i] = "init"
           /\ \A d \in Cpu \ {c} : op[d].id = i => op[d].pc \notin Readers \cup Writers
<1>1. op[c].pc # "idle"  BY DEF Writers
<1>2. i \in Id /\ LockOf(i)  BY <1>1, WorksOnGuest
<1>3. writer[i] = c /\ c # NoCpu  BY <1>2, GuestsAssumption DEF LockOf
<1>4. state[i] = "init" /\ readers[i] = {}  BY <1>2, <1>3 DEF LockOf
<1> QED  BY <1>2, <1>3, <1>4 DEF LockOf

LEMMA PowerOnStep == ASSUME Inv, NEW c \in Cpu, PowerOn(c) PROVE Inv'
<1>0. PICK i : i = op[c].id  OBVIOUS
<1>1. op[c].pc = "power_on" /\ UNCHANGED <<box, location, state>>  BY DEF PowerOn
<1>2. i \in Id /\ i # 0 /\ HandlerOf(c) /\ BoxOf(i) /\ CompleteOf(i) /\ Types
    BY <1>0, <1>1, WorksOnGuest DEF Inv
<1>3. CASE Put(c, "failed") /\ UNCHANGED <<entry, measured>>
    BY <1>1, <1>3, PutSame DEF guestvars, Result
<1>4. CASE /\ box[i][BootVcpu] # NoCpu
           /\ entry' = [entry EXCEPT ![i] = op[c].arg] /\ measured' = [measured EXCEPT ![i] = op[c].arg]
           /\ Goto(c, "validate") /\ UNCHANGED <<tablevars, lockvars, refs, result>>
    <2>1. op[c].arg \in Entry /\ op[c].arg # NoEntry  BY <1>1, <1>2, GuestsAssumption DEF HandlerOf
    <2>2. /\ op' \in [Cpu -> Work] /\ \A d \in Cpu \ {c} : op'[d] = op[d]
          /\ op'[c].pc = "validate" /\ op'[c].id = i /\ op'[c].arg = op[c].arg
        BY <1>0, <1>2, <1>4, Going DEF Writers
    <2>3. /\ entry' \in [Id -> Entry \cup {NoEntry}] /\ measured' \in [Id -> Entry \cup {NoEntry}]
          /\ entry'[i] = op[c].arg /\ measured'[i] = op[c].arg
          /\ \A j \in Id \ {i} : entry'[j] = entry[j] /\ measured'[j] = measured[j]
        BY <1>2, <1>4, <2>1 DEF Types, GuestTypes
    <2>4. GuestTypes'  BY <1>1, <1>2, <2>3 DEF Types, GuestTypes
    <2>5. \A j \in Id \ {i} : Same(j)  BY <1>1, <2>3 DEF Same
    <2>6. HandlerOf(c)'  BY <1>2, <2>1, <2>2 DEF HandlerOf
    <2>7. state[i] = "init" /\ \A d \in Cpu \ {c} : op[d].id = i => op[d].pc \notin Readers \cup Writers
        BY <1>0, <1>1, WriterFacts DEF Writers
    <2>8. ASSUME NEW d \in Cpu, op'[d].id = i PROVE GuardOf(d)'
        <3>1. CASE d = c  BY <1>1, <1>4, <2>1, <2>2, <2>3, <3>1 DEF GuardOf
        <3>2. CASE d # c  BY <2>2, <2>7, <2>8, <3>2 DEF GuardOf, Readers, Writers
        <3> QED  BY <3>1, <3>2
    <2>9. BoxOf(i)'  BY <1>1, <1>2, <2>2 DEF BoxOf
    <2>10. CompleteOf(i)'  BY <1>1, <2>3, <2>7 DEF CompleteOf
    <2>11. "validate" \in Writers /\ "power_on" \in Writers /\ "validate" \notin Readers /\ "power_on" \notin Readers
        BY DEF Readers, Writers
    <2> QED  BY <1>0, <1>1, <1>4, <2>4, <2>5, <2>6, <2>8, <2>9, <2>10, <2>11, SameLock
<1> QED  BY <1>0, <1>3, <1>4 DEF PowerOn

LEMMA ValidateStep == ASSUME Inv, NEW c \in Cpu, Validate(c) PROVE Inv'
<1>0. PICK i : i = op[c].id  OBVIOUS
<1>1. op[c].pc = "validate" /\ UNCHANGED <<box, location, entry, measured>>  BY DEF Validate
<1>2. i \in Id /\ GuardOf(c) /\ BoxOf(i) /\ CompleteOf(i) /\ Types
    BY <1>0, <1>1, WorksOnGuest DEF Inv
<1>3. CASE UNCHANGED state /\ Put(c, "failed")
    BY <1>1, <1>3, PutSame DEF guestvars, Result
<1>4. CASE validate_imsic_addrs(i) /\ state' = [state EXCEPT ![i] = "running"] /\ Put(c, "ok")
    <2>1. \A d \in Cpu \ {c} : op'[d] = op[d]  BY <1>2, <1>4, Going DEF Put, Result
    <2>2. state' \in [Id -> {"init", "running"}] /\ \A j \in Id \ {i} : state'[j] = state[j]
        BY <1>2, <1>4 DEF Types, GuestTypes
    <2>3. GuestTypes'  BY <1>1, <1>2, <2>2 DEF Types, GuestTypes
    <2>4. \A j \in Id \ {i} : Same(j)  BY <1>1, <2>2 DEF Same
    <2>5. \A d \in Cpu \ {c} : op[d].id = i => op[d].pc \notin Readers \cup Writers
        BY <1>0, <1>1, WriterFacts DEF Writers
    <2>6. \A d \in Cpu \ {c} : op[d].id = i => GuardOf(d)'  BY <2>1, <2>5 DEF GuardOf, Readers, Writers
    <2>7. BoxOf(i)'  BY <1>1, <1>2, <2>1 DEF BoxOf
    <2>8. CompleteOf(i)'
        <3>1. entry[i] # NoEntry /\ box[i][BootVcpu] # NoCpu  BY <1>0, <1>1, <1>2 DEF GuardOf
        <3>2. Added(i)' = Added(i) /\ Added(i) \subseteq Vcpu /\ BootVcpu \in Added(i)
            BY <1>1, <3>1, GuestsAssumption DEF Added
        <3>3. \A v, w \in Added(i) : location[i][v] # NoLocation /\ (location[i][v] = location[i][w] => v = w)
            BY <1>4, <3>2 DEF validate_imsic_addrs
        <3> QED  BY <1>1, <1>2, <3>1, <3>2, <3>3 DEF CompleteOf
    <2>9. "validate" \in Writers /\ "ok" \in Result  BY DEF Writers, Result
    <2> QED  BY <1>0, <1>1, <1>4, <2>3, <2>4, <2>6, <2>7, <2>8, <2>9, PutStep
<1> QED  BY <1>0, <1>3, <1>4 DEF Validate

-----------------------------------------------------------------------------
(* The results.                                                            *)

\* Every step keeps the invariant.
LEMMA NextInv == ASSUME Inv, Next PROVE Inv'
<1>1. PICK c \in Cpu : Step(c) \/ Call(c)  BY DEF Next
<1>2. CASE Step(c)
    BY <1>2, TableStep, ReadLockStep, CallOnceStep, CompareStep, EnableImsicStep, RanStep, TryWriteStep,
       PowerOnStep, ValidateStep DEF Step
<1>3. CASE Call(c)  BY <1>3, TableStep DEF Call
<1> QED  BY <1>1, <1>2, <1>3

\* The invariant holds in every behaviour.
LEMMA Facts == Spec => []Inv
<1>1. ASSUME Init PROVE Inv
    <2>1. Idle \in Work /\ Idle.pc = "idle" /\ Idle.id = 0  BY GuestsAssumption DEF Idle, At, Work, Outside
    <2>2. \A c \in Cpu : op[c] = Idle  BY <1>1 DEF Init
    <2>3. GuestTypes /\ LockTypes  BY <1>1 DEF Init, GuestTypes, LockTypes
    <2>4. Types  BY <1>1, <2>1, <2>3, GuestsAssumption DEF Init, Types, Result
    <2>5. \A c \in Cpu : HandlerOf(c) /\ GuardOf(c)  BY <2>1, <2>2 DEF HandlerOf, GuardOf
    <2>6. ASSUME NEW i \in Id PROVE LockOf(i) /\ BoxOf(i) /\ CompleteOf(i)
        <3>1. \A c \in Cpu : op[c].pc \notin Readers \cup Writers  BY <2>1, <2>2 DEF Readers, Writers
        <3>2. LockOf(i)  BY <1>1, <3>1, GuestsAssumption DEF Init, LockOf
        <3>3. BoxOf(i)  BY <1>1, GuestsAssumption DEF Init, BoxOf
        <3>4. CompleteOf(i)  BY <1>1 DEF Init, CompleteOf
        <3> QED  BY <3>2, <3>3, <3>4
    <2> QED  BY <2>4, <2>5, <2>6 DEF Inv
<1>2. ASSUME Inv, UNCHANGED vars PROVE Inv'
    <2>1. UNCHANGED <<next, table, state, writer, readers, box, location, entry, measured, op, result>>
        BY <1>2 DEF vars
    <2>2. Types'  BY <1>2, <2>1 DEF Inv, Types, GuestTypes, LockTypes
    <2>3. \A c \in Cpu : HandlerOf(c)' /\ GuardOf(c)'  BY <1>2, <2>1 DEF Inv, HandlerOf, GuardOf
    <2>4. \A i : Same(i)  BY <2>1 DEF Same
    <2>5. \A i \in Id : CompleteOf(i)'  BY <1>2, <2>4, CompleteStays DEF Inv
    <2>6. ASSUME NEW i \in Id PROVE LockOf(i)' /\ BoxOf(i)'
        <3>1. LockOf(i) /\ BoxOf(i)  BY <1>2 DEF Inv
        <3> QED  BY <2>1, <3>1, LockStays, BoxStays
    <2> QED  BY <2>2, <2>3, <2>5, <2>6 DEF Inv
<1> QED  BY <1>1, <1>2, NextInv, PTL DEF Spec

\* A guest does not change its state while a handler has a guard of it (GuestStateGuard).
THEOREM StateIsHeld == Spec => []GuardsHoldState
<1>1. Inv => GuardsHoldState  BY DEF Inv, GuardOf, GuardsHoldState
<1> QED  BY <1>1, Facts, PTL

\* A guest that runs was finalized with a boot vCPU, the entry point that was measured, and
\* interrupt files at addresses of their own (Vm::finalize).
THEOREM RunningGuestsAreComplete == Spec => []RunningIsComplete
<1>1. Inv => RunningIsComplete  BY DEF Inv, CompleteOf, RunningIsComplete
<1> QED  BY <1>1, Facts, PTL

-----------------------------------------------------------------------------
(* What a handler that adds a vCPU is told.                                *)

\* A step of one handler leaves the others where they are.
LEMMA OneMoves ==
    ASSUME Types, NEW c \in Cpu, Step(c) \/ Call(c)
    PROVE  \A d \in Cpu \ {c} : op'[d] = op[d]
<1>0. \A w : op' = [op EXCEPT ![c] = w] => \A d \in Cpu \ {c} : op'[d] = op[d]  BY DEF Types
<1>1. \A p : op' = [op EXCEPT ![c].pc = p] => \A d \in Cpu \ {c} : op'[d] = op[d]  BY DEF Types
<1>2. CASE CreateVm(c)  BY <1>0, <1>1, <1>2 DEF CreateVm, Goto, Return
<1>3. CASE Add(c)  BY <1>0, <1>3 DEF Add, Return
<1>4. CASE ReadLock(c)  BY <1>0, <1>1, <1>4 DEF ReadLock, Goto, Put, Return
<1>5. CASE CallOnce(c)  BY <1>1, <1>5 DEF CallOnce, Goto
<1>6. CASE Compare(c)  BY <1>0, <1>6 DEF Compare, Put, Return
<1>7. CASE EnableImsic(c)  BY <1>0, <1>7 DEF EnableImsic, Put, Return
<1>8. CASE Ran(c)  BY <1>0, <1>8 DEF Ran, Put, Return
<1>9. CASE TryWrite(c)  BY <1>0, <1>1, <1>9 DEF TryWrite, Goto, Put, Return
<1>10. CASE PowerOn(c)  BY <1>0, <1>1, <1>10 DEF PowerOn, Goto, Put, Return
<1>11. CASE Validate(c)  BY <1>0, <1>11 DEF Validate, Put, Return
<1>12. CASE DropLast(c)  BY <1>0, <1>12 DEF DropLast, Return
<1>13. CASE AddActiveGuest(c)  BY <1>0, <1>13 DEF AddActiveGuest, Return
<1>14. ASSUME NEW i \in Id, Get(c, i) PROVE \A d \in Cpu \ {c} : op'[d] = op[d]  BY <1>0, <1>14 DEF Get
<1>15. ASSUME NEW i \in Id, Remove(c, i) PROVE \A d \in Cpu \ {c} : op'[d] = op[d]  BY <1>0, <1>15 DEF Remove
<1> QED  BY <1>2, <1>3, <1>4, <1>5, <1>6, <1>7, <1>8, <1>9, <1>10, <1>11, <1>12, <1>13, <1>14, <1>15 DEF Step, Call

\* A call that compares the cell with its own value is told what it did to it, and the vCPUs that
\* were added stay.
Told == \A c \in Cpu : op[c].pc = "compare" /\ op'[c].pc = "idle" =>
                           ((result'[c] = "added") <=> (box[op[c].id][op[c].v] = c))
Kept == \A i \in Id, v \in Vcpu : box[i][v] = Boxed => box'[i][v] = Boxed

\* Both hold of every step.
LEMMA AddedOnce == ASSUME Inv, Next PROVE Told /\ Kept
<1>1. PICK c \in Cpu : Step(c) \/ Call(c)  BY DEF Next
<1>2. Types /\ \A d \in Cpu \ {c} : op'[d] = op[d]  BY <1>1, OneMoves DEF Inv
<1>3. box \in [Id -> [Vcpu -> Cpu \cup {NoCpu, Boxed}]] /\ result \in [Cpu -> Result]
    BY <1>2 DEF Types, GuestTypes
<1>4. CASE Compare(c)
    <2>1. /\ op[c].pc = "compare" /\ result' = [result EXCEPT ![c] = IF box[op[c].id][op[c].v] = c THEN "added"
                                                                      ELSE "exists"]
          /\ box' = [box EXCEPT ![op[c].id][op[c].v] = IF @ = c THEN Boxed ELSE @]
        BY <1>4 DEF Compare, Put, Return, once_ptr_is_ptr
    <2>2. Told  BY <1>2, <1>3, <2>1 DEF Told
    <2>3. Kept
        <3>1. c # Boxed  BY GuestsAssumption
        <3> QED  BY <1>3, <2>1, <3>1 DEF Kept
    <2> QED  BY <2>2, <2>3
<1>5. CASE CallOnce(c)
    <2>1. op[c].pc = "call_once"  BY <1>5 DEF CallOnce
    <2>2. Told  BY <1>2, <2>1 DEF Told
    <2>3. PICK i \in Id, v \in Vcpu : i = op[c].id /\ v = op[c].v  BY <2>1, WorksOnGuest
    <2>4. \/ box' = box
          \/ box[i][v] = NoCpu /\ box' = [box EXCEPT ![i][v] = c]
        BY <1>5, <2>3 DEF CallOnce
    <2>5. Kept
        <3>1. NoCpu # Boxed  BY DEF NoCpu, Boxed
        <3>2. CASE box' = box  BY <3>2 DEF Kept
        <3>3. CASE box[i][v] = NoCpu /\ box' = [box EXCEPT ![i][v] = c]
            BY <1>3, <3>1, <3>3 DEF Kept
        <3> QED  BY <2>4, <3>2, <3>3
    <2> QED  BY <2>2, <2>5
<1>6. CASE ~Compare(c) /\ ~CallOnce(c)
    <2>1. op[c].pc # "compare"
        BY <1>1, <1>6 DEF Step, Call, CreateVm, Add, ReadLock, EnableImsic, Ran, TryWrite, PowerOn, Validate,
                          DropLast, AddActiveGuest, Get, Remove
    <2>2. box' = box
        BY <1>1, <1>6 DEF Step, Call, CreateVm, Add, ReadLock, EnableImsic, Ran, TryWrite, PowerOn, Validate,
                          DropLast, AddActiveGuest, Get, Remove, guestvars
    <2> QED  BY <1>2, <2>1, <2>2 DEF Told, Kept
<1> QED  BY <1>4, <1>5, <1>6

\* A handler is told that it added a vCPU exactly when it did, and no vCPU is added twice
\* (VmCpus::add_vcpu).
THEOREM VcpusAreAddedOnce == Spec => AddedIsMine
<1>1. Inv /\ [Next]_vars => [Told /\ Kept]_vars  BY AddedOnce
<1> QED  BY <1>1, Facts, PTL DEF Spec, AddedIsMine, Told, Kept

=============================================================================
