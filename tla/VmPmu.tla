------------------------------- MODULE VmPmu -------------------------------
(***************************************************************************)
(* The performance counters of the vCPUs that share one CPU: VmPmuState of *)
(* each vCPU, the counters of the hardware as the firmware keeps them, and *)
(* the switches that save and restore them.  A counter mask is the set of  *)
(* its bits, relative to a counter index.                                  *)
(***************************************************************************)
EXTENDS Naturals, Sequences, FiniteSets, FiniteSetsExt
CONSTANTS
    Platform,     \* what get_counter_info() says of each counter of the platform
    MAX_HARDWARE_COUNTERS,
    Bits,         \* bits of a mask
    Word,         \* values of a 64-bit word, a multiple of Bits
    Vcpu,
    IndexIn,      \* counter indexes passed by guests
    MaskIn,       \* masks passed by guests
    FlagsIn,      \* configuration flags passed by guests
    FirmwareFails,\* a call into the firmware may fail: a subset of BOOLEAN
    MaxCount      \* bound: events counted by one counter
VARIABLES
    info,          \* PmuInfo, set once at boot
    counter_state, \* of each vCPU
    hw,            \* the counters of this CPU, kept by the firmware
    hcounteren,    \* counters a guest reads without a trap
    active,        \* vCPU on this CPU
    count,         \* history: events of a started counter, as its vCPU saw them
    trapped        \* the last trapped read: state of the counter and value returned,
                   \* or the panic that ended a call

vars == <<info, counter_state, hw, hcounteren, active, count, trapped>>

NoVcpu == "none"
NoRead == [s |-> "none", value |-> 0]
Panic == [s |-> "panic", value |-> 0]

-----------------------------------------------------------------------------
\* PmuInfo::init(): the counters before the first firmware counter; a counter
\* with a CSR that is not a counter's makes the PMU unsupported.
init_counter(i) == Platform[i] # "firmware"
Enumerated ==
    LET n == Min({Len(Platform), MAX_HARDWARE_COUNTERS})
        all == {k \in 0..n : \A i \in 1..k : init_counter(i)}
    IN SubSeq(Platform, 1, Max(all))
PmuInfoOf(e) ==
    [supported |-> e # <<>> /\ \A i \in DOMAIN e : e[i] # "bad", num_counters |-> Len(e),
     mask |-> {i \in 0..(Len(e) - 1) : e[i + 1] = "implemented"}]
Supported == info.supported
get_num_counters == info.num_counters
valid_hw_counters_mask == info.mask
Counter == valid_hw_counters_mask

\* The bits of a mask that stand for implemented counters; the sum wraps and a
\* shift uses the low bits of its amount.
Refused == {Bits}
in_range(index, mask) ==
    ((IF mask = {} THEN 0 ELSE Max(mask) + 1) + index) % Word <= get_num_counters
filter_counter_mask(index, mask) ==
    IF Supported /\ in_range(index, mask)
    THEN {b \in mask : b + (index % Bits) \in valid_hw_counters_mask}
    ELSE Refused

\* CounterMaskIter: the counters a filtered mask stands for.
CounterMaskIter(index, mask) == {index + b : b \in mask}

\* Indexing counter_state with a counter that does not exist panics.
OutOfBounds(index, mask) ==
    LET m == filter_counter_mask(index, mask)
    IN m # Refused /\ ~(CounterMaskIter(index, m) \subseteq Counter)
Panics == trapped' = Panic /\ UNCHANGED <<counter_state, hw, hcounteren, active, count>>

-----------------------------------------------------------------------------
NotConfigured == [s |-> "NotConfigured", value |-> 0, flags |-> {}]
State(v, i) == counter_state[v][i].s
InUse(v, i) == State(v, i) \in {"Configured", "Started"}

Init == /\ info = PmuInfoOf(Enumerated)
        /\ counter_state = [v \in Vcpu |-> [i \in Counter |-> NotConfigured]]
        /\ hw = [i \in Counter |-> [conf |-> FALSE, running |-> FALSE, value |-> 0, inh |-> {}]]
        /\ hcounteren = {} /\ active = NoVcpu
        /\ count = [v \in Vcpu |-> [i \in Counter |-> 0]]
        /\ trapped = NoRead

\* Modes in which a counter does not count: those of the guest become those of
\* a virtual machine, and this hypervisor and the firmware never count.
inhibits(flags) ==
    {"sinh", "minh"} \cup (flags \cap {"uinh"})
        \cup {IF f = "uinh" THEN "vuinh" ELSE "vsinh" : f \in flags \cap {"uinh", "sinh"}}

get_startable_counter_range(v, index, mask) ==
    LET m == filter_counter_mask(index, mask)
    IN IF m # Refused /\ \E i \in CounterMaskIter(index, m) : State(v, i) = "Configured"
       THEN m ELSE Refused
get_stoppable_counter_range(v, index, mask) == filter_counter_mask(index, mask)
get_configurable_counter_range(v, index, mask, flags) ==
    LET m == filter_counter_mask(index, mask)
    IN IF m # Refused /\ IF "skip_match" \in flags
                         THEN index \in Counter /\ InUse(v, index)
                         ELSE \E i \in CounterMaskIter(index, m) : State(v, i) = "NotConfigured"
       THEN m ELSE Refused

-----------------------------------------------------------------------------
(* The firmware.  Its result of starting or stopping several counters is    *)
(* that of one of them.                                                     *)
SbiConfigured(i, flags) ==
    [hw EXCEPT ![i] = [conf |-> TRUE,
                       running |-> hw[i].running \/ "auto_start" \in flags,
                       value |-> IF "clear_value" \in flags THEN 0 ELSE hw[i].value,
                       inh |-> IF "skip_match" \in flags THEN hw[i].inh ELSE inhibits(flags)]]
SbiChoice(index, mask, flags) ==
    LET all == CounterMaskIter(index, mask)
    IN IF "skip_match" \in flags
       THEN IF all # {} /\ hw[Min(all)].conf THEN {Min(all)} ELSE {}
       ELSE {i \in all : ~hw[i].conf}
SbiStarted(S, init, value) ==
    [i \in Counter |-> IF i \in S /\ hw[i].conf /\ ~hw[i].running
                       THEN [hw[i] EXCEPT !.running = TRUE, !.value = IF init THEN value ELSE @]
                       ELSE hw[i]]
SbiStartResult(S) == {IF hw[i].running THEN "AlreadyStarted" ELSE "Ok" : i \in {j \in S : hw[j].conf}}
SbiStopped(S, reset) ==
    [i \in Counter |-> IF i \in S /\ hw[i].conf
                       THEN [hw[i] EXCEPT !.running = FALSE, !.conf = ~reset] ELSE hw[i]]
SbiStopResult(S) == {IF hw[i].running THEN "Ok" ELSE "AlreadyStopped" : i \in {j \in S : hw[j].conf}}

-----------------------------------------------------------------------------
\* configure_matching_counters(): the firmware picks a counter, and the state of
\* the vCPU follows unless that counter is in a state that does not allow it.
update_configured_counter(v, i, flags) ==
    LET start == "auto_start" \in flags
        old == counter_state[v][i]
        s == IF start THEN "Started" ELSE "Configured"
        next == IF InUse(v, i) /\ "skip_match" \in flags
                THEN IF start THEN [old EXCEPT !.s = "Started"] ELSE old
                ELSE IF State(v, i) = "NotConfigured" /\ "skip_match" \notin flags
                THEN [s |-> s, value |-> 0, flags |-> flags]
                ELSE old
    IN /\ counter_state' = [counter_state EXCEPT ![v][i] = next]
       /\ hcounteren' = IF start /\ next.s = "Started" THEN hcounteren \cup {i} ELSE hcounteren
       /\ count' = [count EXCEPT ![v][i] = CASE next = old -> @
                                             [] next.s = "Started" -> hw'[i].value
                                             [] OTHER -> 0]
configure_matching_counters(v, index, mask, flags) ==
    /\ active = v /\ trapped # Panic
    /\ LET m == get_configurable_counter_range(v, index, mask, flags)
       IN IF OutOfBounds(index, mask) /\ "skip_match" \notin flags THEN Panics
          ELSE /\ m # Refused
               /\ \E i \in SbiChoice(index, m, flags) :
                    /\ hw' = SbiConfigured(i, flags)
                    /\ update_configured_counter(v, i, flags)
               /\ trapped' = NoRead /\ UNCHANGED active

update_started_counters(v, S) ==
    LET new == {i \in S : State(v, i) = "Configured"}
    IN /\ counter_state' = [counter_state EXCEPT ![v] =
                               [i \in Counter |-> IF i \in new THEN [@[i] EXCEPT !.s = "Started"] ELSE @[i]]]
       /\ hcounteren' = hcounteren \cup new
       /\ count' = [count EXCEPT ![v] = [i \in Counter |->
              IF i \in new \/ (hw'[i].running /\ ~hw[i].running) THEN hw'[i].value ELSE @[i]]]
start_counters(v, index, mask, init, value) ==
    /\ active = v /\ trapped # Panic
    /\ LET m == get_startable_counter_range(v, index, mask)
           S == CounterMaskIter(index, m)
       IN IF OutOfBounds(index, mask) THEN Panics
          ELSE /\ m # Refused
               /\ SbiStartResult(S) # {}
               /\ hw' = SbiStarted(S, init, value)
               /\ update_started_counters(v, S)
               /\ trapped' = NoRead /\ UNCHANGED active

\* A stopped counter keeps the value its CSR has; reset forgets the counter.
stop_value(v, i) == IF State(v, i) = "Started" THEN hw[i].value ELSE counter_state[v][i].value
update_stopped_counters(v, S, reset) ==
    LET known == {i \in S : InUse(v, i)}
    IN /\ counter_state' = [counter_state EXCEPT ![v] =
              [i \in Counter |-> IF i \notin known THEN @[i]
                                 ELSE IF reset THEN NotConfigured
                                 ELSE [@[i] EXCEPT !.s = "Configured", !.value = stop_value(v, i)]]]
       /\ hcounteren' = IF reset THEN hcounteren \ known ELSE hcounteren
       /\ count' = [count EXCEPT ![v] = [i \in Counter |-> IF i \in known /\ reset THEN 0 ELSE @[i]]]
stop_counters(v, index, mask, reset) ==
    /\ active = v /\ trapped # Panic
    /\ LET m == get_stoppable_counter_range(v, index, mask)
           S == CounterMaskIter(index, m)
       IN /\ m # Refused /\ ~OutOfBounds(index, mask)
          /\ \E result \in SbiStopResult(S) :
                /\ hw' = SbiStopped(S, reset)
                /\ IF result = "Ok" \/ reset
                   THEN update_stopped_counters(v, S, reset)
                   ELSE UNCHANGED <<counter_state, hcounteren, count>>
    /\ trapped' = NoRead /\ UNCHANGED active

\* virtual_csr_rmw(): a read that traps gets the cached value.
get_cached_csr_value(v, i) ==
    IF State(v, i) \in {"Configured", "Poisoned"}
    THEN [s |-> State(v, i), value |-> counter_state[v][i].value] ELSE NoRead
TrappedRead(v, i) ==
    /\ active = v /\ i \notin hcounteren /\ trapped # Panic
    /\ trapped' = get_cached_csr_value(v, i)
    /\ UNCHANGED <<counter_state, hw, hcounteren, active, count>>

-----------------------------------------------------------------------------
\* Outbound switch: read the CSRs of started counters, stop and reset all that
\* are in use.  A failure is only reported.
save_mask(v) == {i \in Counter : InUse(v, i)}
saved_value_kept(v, i) == counter_state[v][i].value
saved_value(v, i) == IF State(v, i) = "Started" THEN hw[i].value ELSE counter_state[v][i].value
reset_all_counters(S, failed) == IF failed THEN hw ELSE SbiStopped(S, TRUE)
save_counters(v, failed) ==
    /\ active = v /\ active' = NoVcpu /\ trapped # Panic
    /\ counter_state' = [counter_state EXCEPT ![v] =
                            [i \in Counter |-> [@[i] EXCEPT !.value = saved_value(v, i)]]]
    /\ hw' = reset_all_counters(save_mask(v), failed)
    /\ trapped' = NoRead
    /\ UNCHANGED <<hcounteren, count>>

\* Inbound switch: configure the counters in use and start those that were
\* started with the value they had; one that fails is poisoned.
configure_counter(i, c) == inhibits(c.flags)
resume_counter(c, h) == c.value
Restored(v, i, bad_configure, bad_start) ==
    LET c == counter_state[v][i]
        h == hw[i]
        configured == [h EXCEPT !.conf = TRUE, !.inh = configure_counter(i, c)]
    IN IF ~InUse(v, i) THEN [c |-> c, h |-> h]
       ELSE IF h.conf \/ i \in bad_configure THEN [c |-> [c EXCEPT !.s = "Poisoned"], h |-> h]
       ELSE IF State(v, i) = "Configured" THEN [c |-> c, h |-> configured]
       ELSE IF i \in bad_start THEN [c |-> [c EXCEPT !.s = "Poisoned"], h |-> configured]
       ELSE [c |-> c, h |-> [configured EXCEPT !.running = TRUE, !.value = resume_counter(c, h)]]
restore_counters(v, bad_configure, bad_start) ==
    /\ active = NoVcpu /\ active' = v
    /\ LET r == [i \in Counter |-> Restored(v, i, bad_configure, bad_start)]
       IN /\ counter_state' = [counter_state EXCEPT ![v] = [i \in Counter |-> r[i].c]]
          /\ hw' = [i \in Counter |-> r[i].h]
          /\ hcounteren' = hcounteren \cup {i \in Counter : r[i].c.s = "Started"}
    /\ trapped' = NoRead
    /\ UNCHANGED count

\* An event while the guest runs.
Event(i) ==
    /\ active # NoVcpu /\ trapped # Panic /\ hw[i].running /\ hw[i].value < MaxCount
    /\ hw' = [hw EXCEPT ![i].value = @ + 1]
    /\ count' = IF State(active, i) = "Started" THEN [count EXCEPT ![active][i] = @ + 1] ELSE count
    /\ trapped' = NoRead
    /\ UNCHANGED <<counter_state, hcounteren, active>>

MayFail == IF TRUE \in FirmwareFails THEN SUBSET Counter ELSE {{}}
GuestCall(v) == \E index \in IndexIn, mask \in MaskIn :
    \/ \E flags \in FlagsIn : configure_matching_counters(v, index, mask, flags)
    \/ \E init \in BOOLEAN, value \in {0, MaxCount - 1} : start_counters(v, index, mask, init, value)
    \/ \E reset \in BOOLEAN : stop_counters(v, index, mask, reset)
Next == /\ UNCHANGED info
        /\ \/ \E v \in Vcpu : GuestCall(v) \/ \E i \in Counter : TrappedRead(v, i)
           \/ \E v \in Vcpu, failed \in FirmwareFails : save_counters(v, failed)
           \/ \E v \in Vcpu, b1, b2 \in MayFail : restore_counters(v, b1, b2)
           \/ \E i \in Counter : Event(i)
Spec == Init /\ [][Next]_vars

-----------------------------------------------------------------------------
\* A started counter counts exactly the events of its own vCPU, across any
\* number of switches to other vCPUs that use the same counter, and a stopped
\* one keeps what it had counted (read_counter_csr(), resume_counter()).
CountIsKept ==
    \A v \in Vcpu, i \in Counter :
        /\ State(v, i) = "Started" =>
              count[v][i] = IF active = v THEN hw[i].value ELSE counter_state[v][i].value
        /\ State(v, i) = "Configured" => count[v][i] = counter_state[v][i].value

\* A counter of the hardware that is configured belongs to the vCPU on the CPU,
\* and has the modes that vCPU asked for.
ConfiguredIsOwned ==
    \A i \in Counter : hw[i].conf =>
        /\ active # NoVcpu /\ InUse(active, i)
        /\ hw[i].inh = inhibits(counter_state[active][i].flags)

\* filter_counter_mask() returns "a sanitized version of the original counter_mask,
\* with set bits representing implemented platform counters", so that the
\* iterator over a mask stays within the states of the counters.
CountersInBounds == trapped # Panic
=============================================================================
