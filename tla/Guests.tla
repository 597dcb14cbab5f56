------------------------------- MODULE Guests -------------------------------
(***************************************************************************)
(* The guests of the host VM: creation, lookup, vCPUs, finalization, use   *)
(* and destruction by handlers on several CPUs, with reference counts, the *)
(* lock on the table of guests and a reader-writer lock on each guest.     *)
(***************************************************************************)
EXTENDS Integers, FiniteSets

CONSTANTS
    Cpu,
    Vcpu, BootVcpu,
    Location,           \* IMSIC locations in a guest
    Entry,              \* entry points
    MaxId,              \* bound on the guests created
    GuestStorage,       \* capacity of the table of guests
    ActiveStorage       \* capacity of the page tracker's list

NoCpu == "none"
Boxed == "boxed"        \* in the place of the call that added a vCPU, once it has returned
NoLocation == "unset"
NoEntry == "unset"

ASSUME GuestsAssumption ==
    /\ IsFiniteSet(Cpu) /\ {NoCpu, Boxed} \cap Cpu = {}
    /\ BootVcpu \in Vcpu /\ NoLocation \notin Location /\ NoEntry \notin Entry
    /\ MaxId \in Nat /\ GuestStorage \in Nat /\ ActiveStorage \in Nat

Id == 1..MaxId

VARIABLES
    next,       \* the next id
    active,     \* active_guests of the page tracker
    table,      \* ids of the guests in the table
    refs,       \* guest -> reference count
    vm,         \* guest -> "none", "live" or "dropped"
    state,      \* guest -> "init" or "running"
    writer,     \* guest -> the CPU that holds its lock for writing
    readers,    \* guest -> the CPUs that hold it for reading
    box,        \* guest -> vCPU -> the call that added the vCPU
    location,   \* guest -> vCPU -> IMSIC location
    entry,      \* guest -> where its boot vCPU starts, once it is powered on
    measured,   \* guest -> the entry point that is measured
    op,         \* CPU -> the handler it runs
    result      \* CPU -> what its last handler returned

vars == <<next, active, table, refs, vm, state, writer, readers, box, location, entry, measured,
          op, result>>

At(pc, i) == [pc |-> pc, id |-> i, v |-> BootVcpu, arg |-> "none"]
Idle == At("idle", 0)

Init ==
    /\ next = 1 /\ active = {} /\ table = {}
    /\ refs = [i \in Id |-> 0]
    /\ vm = [i \in Id |-> "none"]
    /\ state = [i \in Id |-> "init"]
    /\ writer = [i \in Id |-> NoCpu]
    /\ readers = [i \in Id |-> {}]
    /\ box = [i \in Id |-> [v \in Vcpu |-> NoCpu]]
    /\ location = [i \in Id |-> [v \in Vcpu |-> NoLocation]]
    /\ entry = [i \in Id |-> NoEntry]
    /\ measured = [i \in Id |-> NoEntry]
    /\ op = [c \in Cpu |-> Idle]
    /\ result = [c \in Cpu |-> "none"]

guestvars == <<box, location, entry, measured, state>>
lockvars == <<writer, readers>>
tablevars == <<next, active, table, vm>>

Goto(c, pc) == op' = [op EXCEPT ![c].pc = pc]
Return(c, r) == op' = [op EXCEPT ![c] = Idle] /\ result' = [result EXCEPT ![c] = r]

\* What the drop of the last reference does (Drop for Vm).
DropVm(i) == vm' = [vm EXCEPT ![i] = "dropped"] /\ active' = active \ {i}

-----------------------------------------------------------------------------
\* add_guest(): add_active_guest() consumes an id even when there is no room for it.
AddActiveGuest(c) ==
    /\ op[c].pc = "idle" /\ next <= MaxId
    /\ next' = next + 1
    /\ IF Cardinality(active) < ActiveStorage
       THEN /\ active' = active \cup {next}
            /\ op' = [op EXCEPT ![c] = At("create", next)]
            /\ UNCHANGED result
       ELSE Return(c, "failed") /\ UNCHANGED active
    /\ UNCHANGED <<table, refs, vm, guestvars, lockvars>>
\* Vm::new(); when it fails there is no Vm whose drop would take the id off the list.
CreateVm(c) ==
    /\ op[c].pc = "create"
    /\ \/ /\ vm' = [vm EXCEPT ![op[c].id] = "live"]
          /\ refs' = [refs EXCEPT ![op[c].id] = 1]
          /\ Goto(c, "add") /\ UNCHANGED result
       \/ Return(c, "failed") /\ UNCHANGED <<vm, refs>>
    /\ UNCHANGED <<next, active, table, guestvars, lockvars>>
\* Guests::add()
Add(c) ==
    /\ op[c].pc = "add"
    /\ IF Cardinality(table) < GuestStorage
       THEN table' = table \cup {op[c].id} /\ Return(c, "ok") /\ UNCHANGED <<vm, active, refs>>
       ELSE /\ DropVm(op[c].id) /\ refs' = [refs EXCEPT ![op[c].id] = 0]
            /\ Return(c, "failed") /\ UNCHANGED table
    /\ UNCHANGED <<next, guestvars, lockvars>>

\* Guests::get() for the handler of a call; the ids of the guests are read under their locks.
Get(c, i) ==
    /\ op[c].pc = "idle" /\ i \in table /\ \A j \in table : writer[j] = NoCpu
    /\ refs' = [refs EXCEPT ![i] = @ + 1]
    /\ \E pc \in {"add_vcpu", "set_imsic", "finalize", "run"}, v \in Vcpu :
        \E arg \in CASE pc = "finalize" -> Entry [] pc = "set_imsic" -> Location [] OTHER -> {"none"} :
            op' = [op EXCEPT ![c] = [pc |-> pc, id |-> i, v |-> v, arg |-> arg]]
    /\ UNCHANGED <<tablevars, guestvars, lockvars, result>>

\* The end of a handler: its guard and its reference are dropped.
Put(c, r) ==
    LET i == op[c].id
    IN /\ refs' = [refs EXCEPT ![i] = @ - 1]
       /\ readers' = [readers EXCEPT ![i] = @ \ {c}]
       /\ writer' = [writer EXCEPT ![i] = IF @ = c THEN NoCpu ELSE @]
       /\ Return(c, r)
       /\ UNCHANGED tablevars

\* as_initializing_vm(), as_finalized_vm(): wait for the writer, then look at the state.
ReadLock(c) ==
    LET i == op[c].id
        initializing == op[c].pc \in {"add_vcpu", "set_imsic"}
    IN /\ op[c].pc \in {"add_vcpu", "set_imsic", "run"} /\ writer[i] = NoCpu
       /\ IF state[i] = (IF initializing THEN "init" ELSE "running")
          THEN /\ readers' = [readers EXCEPT ![i] = @ \cup {c}]
               /\ Goto(c, CASE op[c].pc = "add_vcpu" -> "call_once"
                            [] op[c].pc = "set_imsic" -> "enable_imsic"
                            [] OTHER -> "running")
               /\ UNCHANGED <<tablevars, writer, refs, result>>
          ELSE Put(c, "failed")
       /\ UNCHANGED guestvars

\* VmCpus::add_vcpu(): call_once, and afterwards the comparison of the pointers.
CallOnce(c) ==
    LET i == op[c].id
    IN /\ op[c].pc = "call_once"
       /\ IF box[i][op[c].v] = NoCpu
          THEN box' = [box EXCEPT ![i][op[c].v] = c]
          ELSE UNCHANGED box
       /\ Goto(c, "compare")
       /\ UNCHANGED <<tablevars, lockvars, refs, location, entry, measured, state, result>>
once_ptr_is_set(c) == box[op[c].id][op[c].v] # NoCpu
once_ptr_is_ptr(c) == box[op[c].id][op[c].v] = c
Compare(c) ==
    /\ op[c].pc = "compare"
    /\ Put(c, IF once_ptr_is_ptr(c) THEN "added" ELSE "exists")
    /\ box' = [box EXCEPT ![op[c].id][op[c].v] = IF @ = c THEN Boxed ELSE @]
    /\ UNCHANGED <<location, entry, measured, state>>

\* set_vcpu_imsic_addr() and enable_imsic_virtualization()
EnableImsic(c) ==
    LET i == op[c].id
        set == location[i][op[c].v]
    IN /\ op[c].pc = "enable_imsic"
       /\ IF box[i][op[c].v] = NoCpu
          THEN Put(c, "failed") /\ UNCHANGED location
          ELSE /\ location' = [location EXCEPT ![i][op[c].v] = IF set = NoLocation THEN op[c].arg ELSE set]
               /\ Put(c, IF set \in {NoLocation, op[c].arg} THEN "ok" ELSE "failed")
       /\ UNCHANGED <<box, entry, measured, state>>

\* run_vcpu() returns
Ran(c) == op[c].pc = "running" /\ Put(c, "ok") /\ UNCHANGED guestvars

-----------------------------------------------------------------------------
\* GuestVm::finalize()
unshared_any(i) == writer[i] = NoCpu
unshared(i) == writer[i] = NoCpu /\ readers[i] = {}
TryWrite(c) ==
    LET i == op[c].id
    IN /\ op[c].pc = "finalize"
       /\ IF unshared(i) /\ state[i] = "init"
          THEN /\ writer' = [writer EXCEPT ![i] = c] /\ Goto(c, "power_on")
               /\ UNCHANGED <<tablevars, readers, refs, result>>
          ELSE Put(c, "failed")
       /\ UNCHANGED guestvars

\* Vm::finalize(): the boot vCPU is powered on and its entry point measured, ...
PowerOnMeasuresFirst(c) ==
    LET i == op[c].id
    IN /\ op[c].pc = "power_on"
       /\ measured' = [measured EXCEPT ![i] = op[c].arg]
       /\ IF box[i][BootVcpu] # NoCpu /\ entry[i] = NoEntry
          THEN /\ entry' = [entry EXCEPT ![i] = op[c].arg]
               /\ Goto(c, "validate") /\ UNCHANGED <<tablevars, lockvars, refs, result>>
          ELSE Put(c, "failed") /\ UNCHANGED entry
       /\ UNCHANGED <<box, location, state>>
PowerOn(c) ==
    LET i == op[c].id
    IN /\ op[c].pc = "power_on"
       /\ IF box[i][BootVcpu] # NoCpu /\ entry[i] = NoEntry
          THEN /\ entry' = [entry EXCEPT ![i] = op[c].arg]
               /\ measured' = [measured EXCEPT ![i] = op[c].arg]
               /\ Goto(c, "validate") /\ UNCHANGED <<tablevars, lockvars, refs, result>>
          ELSE Put(c, "failed") /\ UNCHANGED <<entry, measured>>
       /\ UNCHANGED <<box, location, state>>

\* ... then validate_imsic_addrs(), for a guest that has interrupt files, and the end of the
\* measurements, which may fail.
Added(i) == {v \in Vcpu : box[i][v] # NoCpu}
validate_imsic_addrs(i) ==
    \A v \in Added(i) :
        /\ location[i][v] # NoLocation
        /\ \A w \in Vcpu \ {v} : location[i][w] # location[i][v]
Validate(c) ==
    LET i == op[c].id
    IN /\ op[c].pc = "validate"
       /\ \/ /\ validate_imsic_addrs(i)
             /\ state' = [state EXCEPT ![i] = "running"] /\ Put(c, "ok")
          \/ UNCHANGED state /\ Put(c, "failed")
       /\ UNCHANGED <<box, location, entry, measured>>

\* Guests::remove(): under the lock of the table.
ref_count_any(i) == TRUE
ref_count_is_one(i) == refs[i] = 1
Remove(c, i) ==
    /\ op[c].pc = "idle" /\ i \in table /\ \A j \in table : writer[j] = NoCpu
    /\ ref_count_is_one(i)
    /\ table' = table \ {i}
    /\ op' = [op EXCEPT ![c] = At("drop", i)]
    /\ UNCHANGED <<next, active, vm, refs, guestvars, lockvars, result>>
\* The last reference, dropped without the lock.
DropLast(c) ==
    /\ op[c].pc = "drop" /\ DropVm(op[c].id)
    /\ refs' = [refs EXCEPT ![op[c].id] = @ - 1]
    /\ Return(c, "ok")
    /\ UNCHANGED <<next, table, guestvars, lockvars>>

Step(c) ==
    \/ CreateVm(c) \/ Add(c) \/ ReadLock(c) \/ CallOnce(c) \/ Compare(c) \/ EnableImsic(c)
    \/ Ran(c) \/ TryWrite(c) \/ PowerOn(c) \/ Validate(c) \/ DropLast(c)
Call(c) == AddActiveGuest(c) \/ \E i \in Id : Get(c, i) \/ Remove(c, i)

Next == \E c \in Cpu : Step(c) \/ Call(c)
Spec == Init /\ [][Next]_vars

-----------------------------------------------------------------------------
Holders(i) == {c \in Cpu : op[c].id = i /\ op[c].pc # "create"}

\* The reference count is the number of references, and no handler has one to a guest that was
\* dropped (Guests::get, Guests::remove).
RefCountExact ==
    \A i \in Id :
        /\ refs[i] = Cardinality(Holders(i)) + (IF i \in table THEN 1 ELSE 0)
        /\ Holders(i) # {} => vm[i] = "live"

\* The page tracker knows every guest that exists, and forgets one when it is dropped.
ActiveIsLive == \A i \in Id : (vm[i] = "live" => i \in active) /\ (vm[i] = "dropped" => i \notin active)

\* "While this reference is held the wrapped `Vm` is guaranteed not to change state."
\* (GuestStateGuard)
GuardsHoldState ==
    \A c \in Cpu :
        /\ op[c].pc \in {"call_once", "compare", "enable_imsic"} => state[op[c].id] = "init"
        /\ op[c].pc = "running" => state[op[c].id] = "running"

\* A handler is told that it added a vCPU exactly when it did; its pages are in use then and
\* released otherwise. No vCPU is added twice (VmCpus::add_vcpu).
AddedIsMine ==
    [][/\ \A c \in Cpu : op[c].pc = "compare" /\ op'[c].pc = "idle" =>
            ((result'[c] = "added") <=> (box[op[c].id][op[c].v] = c))
       /\ \A i \in Id, v \in Vcpu : box[i][v] = Boxed => box'[i][v] = Boxed]_vars

\* A guest that runs has a boot vCPU, whose entry point is the one that was measured, and its
\* vCPUs have interrupt files at addresses of their own (Vm::finalize). Failed attempts to
\* finalize the guest make no difference.
RunningIsComplete ==
    \A i \in Id :
        /\ measured[i] = entry[i]
        /\ state[i] = "running" =>
            /\ entry[i] # NoEntry /\ BootVcpu \in Added(i)
            /\ \A v, w \in Added(i) :
                location[i][v] # NoLocation /\ (location[i][v] = location[i][w] => v = w)

=============================================================================
