------------------------------ MODULE HostRun ------------------------------
(***************************************************************************)
(* The CPUs from reset on: the boot CPU sets the system up, starts the     *)
(* others and publishes the host VM; each CPU then runs the host vCPU with *)
(* its number whenever it is started, and waits for an IPI when it is not. *)
(* The host VM starts and stops its vCPUs (SBI HSM) and shuts down.        *)
(***************************************************************************)
EXTENDS Integers, Sequences, FiniteSets

CONSTANTS
    Cpu,
    Boot,           \* the CPU that boots
    MaxStarts       \* bound on calls of HartStart

NoCpu == "none"

ASSUME HostRunAssumption == Boot \in Cpu /\ NoCpu \notin Cpu /\ MaxStarts \in Nat

\* kernel_init() and secondary_init(), as far as the order of their steps matters.
BootTablesLate == <<"csrs", "imsic", "percpu", "load", "seal", "secondaries", "tables", "host", "run">>
BootSteps == <<"csrs", "imsic", "percpu", "tables", "load", "seal", "secondaries", "host", "run">>
SecondarySteps == <<"csrs", "satp", "imsic", "online", "umode", "wait", "run">>

VARIABLES
    step,       \* CPU -> index of its next boot step, 0 when off
    pc,         \* CPU -> where it is once it runs the host VM
    starting,   \* the CPU start_secondary_cpus() waits for
    tables, sealed, hostvm,     \* page tables are set, the heap is sealed, HOST_VM is set
    online,     \* CPUs that are online
    receives,   \* CPUs whose supervisor interrupt file is set up
    kick,       \* CPU -> the CPU it is about to send an IPI to
    ipi,        \* CPUs for which an IPI is pending
    status,     \* vCPU -> its status
    entry,      \* vCPU -> where it starts
    runs,       \* vCPU -> the entry it was last begun with
    starts,     \* number of HartStart calls
    down        \* why the machine was powered off

bootvars == <<step, starting, tables, sealed, hostvm, online, receives>>
hostvars == <<pc, kick, ipi, status, entry, runs, starts, down>>
vars == <<bootvars, hostvars>>

Steps(c) == IF c = Boot THEN BootSteps ELSE SecondarySteps

\* The boot vCPU of the host VM is powered on when the VM is finalized.
Init ==
    /\ step = [c \in Cpu |-> IF c = Boot THEN 1 ELSE 0]
    /\ pc = [c \in Cpu |-> "init"]
    /\ starting = NoCpu
    /\ tables = FALSE /\ sealed = FALSE /\ hostvm = FALSE
    /\ online = {} /\ receives = {} /\ ipi = {}
    /\ status = [c \in Cpu |-> IF c = Boot THEN "runnable" ELSE "off"]
    /\ entry = [c \in Cpu |-> 0] /\ runs = [c \in Cpu |-> 0]
    /\ kick = [c \in Cpu |-> NoCpu]
    /\ starts = 0 /\ down = "no"

At(c, what) == step[c] \in DOMAIN Steps(c) /\ Steps(c)[step[c]] = what
Done(c) == step' = [step EXCEPT ![c] = @ + 1]

\* The steps that only set something up for later.
Setup(c) ==
    /\ \E what \in {"csrs", "imsic", "percpu", "tables", "load", "seal", "satp", "online",
                    "umode", "host"} :
        /\ At(c, what)
        /\ tables' = (tables \/ what = "tables")
        /\ sealed' = (sealed \/ what = "seal")
        /\ hostvm' = (hostvm \/ what = "host")
        /\ online' = IF what \in {"online", "percpu"} THEN online \cup {c} ELSE online
        /\ receives' = IF what = "imsic" THEN receives \cup {c} ELSE receives
    /\ Done(c)
    /\ UNCHANGED <<starting, hostvars>>

\* start_secondary_cpus(): one CPU after the other; its PerCpu tells when it is online.
StartSecondary(c) ==
    /\ At(Boot, "secondaries") /\ starting = NoCpu /\ c # Boot /\ step[c] = 0
    /\ starting' = c /\ step' = [step EXCEPT ![c] = 1]
    /\ UNCHANGED <<tables, sealed, hostvm, online, receives, hostvars>>
Started ==
    /\ starting # NoCpu /\ starting \in online /\ starting' = NoCpu
    /\ UNCHANGED <<step, tables, sealed, hostvm, online, receives, hostvars>>
AllStarted ==
    /\ At(Boot, "secondaries") /\ starting = NoCpu /\ \A c \in Cpu : step[c] > 0
    /\ Done(Boot)
    /\ UNCHANGED <<starting, tables, sealed, hostvm, online, receives, hostvars>>

\* HOST_VM.wait() and HostVm::run(), which binds the vCPU first.
WaitHost(c) ==
    /\ At(c, "wait") /\ hostvm /\ Done(c)
    /\ UNCHANGED <<starting, tables, sealed, hostvm, online, receives, hostvars>>
EnterHost(c) ==
    /\ At(c, "run") /\ Done(c) /\ pc' = [pc EXCEPT ![c] = "check"]
    /\ UNCHANGED <<starting, tables, sealed, hostvm, online, receives, kick, ipi, status, entry, runs,
                   starts, down>>

-----------------------------------------------------------------------------
Goto(c, l) == pc' = [pc EXCEPT ![c] = l]

\* vcpu_is_runnable()
Check(c) ==
    /\ pc[c] = "check" /\ Goto(c, IF status[c] # "off" THEN "activate" ELSE "wfi_enable")
    /\ UNCHANGED <<bootvars, kick, ipi, status, entry, runs, starts, down>>

\* smp::wfi(): interrupts are enabled, then the CPU stalls, then they are disabled.
WfiEnable(c) ==
    /\ pc[c] = "wfi_enable" /\ Goto(c, "wfi")
    /\ UNCHANGED <<bootvars, kick, ipi, status, entry, runs, starts, down>>
WfiStall(c) ==
    /\ pc[c] = "wfi" /\ Goto(c, "stalled")
    /\ UNCHANGED <<bootvars, kick, ipi, status, entry, runs, starts, down>>
WfiDisable(c) ==
    /\ pc[c] = "wfi_disable" /\ Goto(c, "check")
    /\ UNCHANGED <<bootvars, kick, ipi, status, entry, runs, starts, down>>
\* handle_trap(), handle_interrupt(): the IPI is claimed; a stalled CPU goes on after WFI.
TakeIpi(c) ==
    /\ c \in ipi /\ pc[c] \in {"wfi", "stalled", "wfi_disable"}
    /\ ipi' = ipi \ {c}
    /\ Goto(c, IF pc[c] = "stalled" THEN "wfi_disable" ELSE pc[c])
    /\ UNCHANGED <<bootvars, kick, status, entry, runs, starts, down>>

\* run_vcpu(): activate(), then the guest.
Activate(c) ==
    /\ pc[c] = "activate" /\ status[c] = "runnable"
    /\ status' = [status EXCEPT ![c] = "running"]
    /\ runs' = [runs EXCEPT ![c] = entry[c]]
    /\ Goto(c, "guest")
    /\ UNCHANGED <<bootvars, kick, ipi, entry, starts, down>>

\* HartStart by the vCPU on c, for vCPU t, and the exit to the host runner.
power_on_any(t) == TRUE
power_on(t) == status[t] = "off"
HartStart(c, t) ==
    /\ pc[c] = "guest" /\ starts < MaxStarts /\ starts' = starts + 1
    /\ IF power_on(t)
       THEN /\ entry' = [entry EXCEPT ![t] = starts']
            /\ status' = [status EXCEPT ![t] = "runnable",
                                        ![c] = "runnable"]
            /\ kick' = [kick EXCEPT ![c] = t]
            /\ Goto(c, "kick")
       ELSE UNCHANGED <<entry, status, kick, pc>>
    /\ UNCHANGED <<bootvars, ipi, runs, down>>
\* smp::send_ipi(), and run_vcpu() again.
SendIpi(c) ==
    /\ pc[c] = "kick" /\ ipi' = ipi \cup {kick[c]}
    /\ kick' = [kick EXCEPT ![c] = NoCpu]
    /\ Goto(c, "resume")
    /\ UNCHANGED <<bootvars, status, entry, runs, starts, down>>
Resume(c) ==
    /\ pc[c] = "resume" /\ status' = [status EXCEPT ![c] = "running"] /\ Goto(c, "guest")
    /\ UNCHANGED <<bootvars, kick, ipi, entry, runs, starts, down>>

\* HartStop, after which run() waits again.
HartStop(c) ==
    /\ pc[c] = "guest" /\ status' = [status EXCEPT ![c] = "off"] /\ Goto(c, "check")
    /\ UNCHANGED <<bootvars, kick, ipi, entry, runs, starts, down>>

\* Reset, and poweroff().
Reset(c) ==
    /\ pc[c] = "guest" /\ down' = "reset"
    /\ UNCHANGED <<bootvars, kick, pc, ipi, status, entry, runs, starts>>
\* The exits the runner handles itself (console output, PCI configuration space), and the ones
\* it gives up on.
HandledExit(c) ==
    /\ pc[c] = "guest" /\ status' = [status EXCEPT ![c] = "runnable"] /\ Goto(c, "resume")
    /\ UNCHANGED <<bootvars, kick, ipi, entry, runs, starts, down>>
UnhandledExit(c) ==
    /\ pc[c] = "guest" /\ down' = "unhandled"
    /\ UNCHANGED <<bootvars, kick, pc, ipi, status, entry, runs, starts>>
\* An IPI that arrives in the guest is an OtherInterrupt: run_vcpu() reports an unhandled trap,
\* on which the runner breaks and the machine is powered off.
IpiInGuest(c) ==
    /\ pc[c] = "guest" /\ c \in ipi /\ down' = "unexpected"
    /\ UNCHANGED <<bootvars, kick, pc, ipi, status, entry, runs, starts>>

Progress(c) ==
    /\ down = "no"
    /\ \/ Setup(c) \/ StartSecondary(c) \/ WaitHost(c) \/ EnterHost(c) \/ Check(c)
       \/ WfiEnable(c) \/ WfiStall(c) \/ WfiDisable(c) \/ TakeIpi(c) \/ Activate(c) \/ SendIpi(c)
       \/ Resume(c) \/ IpiInGuest(c)
Coordinate == down = "no" /\ (Started \/ AllStarted)

Next ==
    \/ Coordinate
    \/ \E c \in Cpu : Progress(c)
    \/ /\ down = "no"
       /\ \E c \in Cpu : HartStop(c) \/ Reset(c) \/ HandledExit(c) \/ UnhandledExit(c)
                        \/ \E t \in Cpu : HartStart(c, t)

Spec == Init /\ [][Next]_vars

\* CPUs execute; what the guest does is up to it.
FairSpec == Spec /\ WF_vars(Coordinate) /\ \A c \in Cpu : WF_vars(Progress(c))

-----------------------------------------------------------------------------
TypeOK ==
    /\ online \subseteq Cpu /\ receives \subseteq Cpu /\ ipi \subseteq Cpu
    /\ status \in [Cpu -> {"off", "runnable", "running"}]
    /\ entry \in [Cpu -> 0..MaxStarts] /\ runs \in [Cpu -> 0..MaxStarts]

\* What a CPU finds when it comes up is there: its page table (PerCpu::page_table() unwraps
\* it), and interrupts set up on every CPU to which an IPI is sent.
SetUpInTime ==
    /\ \A c \in Cpu \ {Boot} : At(c, "satp") => tables
    /\ ipi \subseteq receives

\* "Lock down the boot time allocator before allowing the host VM to be entered."
SealedBeforeHost == \A c \in Cpu : pc[c] = "guest" => sealed

\* A vCPU that runs was begun where the HartStart that started it said, and a start of a vCPU
\* that is not off changes nothing (power_on).
RunsWhereStarted == \A c \in Cpu : pc[c] \in {"guest", "resume"} => runs[c] = entry[c]

\* Every CPU comes up and enters the host VM's loop (start_secondary_cpus, secondary_init).
EveryCpuEnters == \A c \in Cpu : <>(pc[c] # "init" \/ down # "no")

\* "Wait until this vCPU is ready to run.": and then run it.
StartedRuns ==
    \A c \in Cpu : status[c] = "runnable" ~> pc[c] = "guest" \/ down # "no"

=============================================================================
