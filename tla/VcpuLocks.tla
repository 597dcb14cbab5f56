------------------------------ MODULE VcpuLocks ------------------------------
(***************************************************************************)
(* The locks of VmCpu: "status -> arch -> ext_interrupts".  A CPU that runs *)
(* a vCPU holds its arch lock for as long as it runs, while other CPUs      *)
(* start, run, query and bind the same vCPU.  ext_interrupts is only held   *)
(* for steps in which nothing is waited for, which are one action each.     *)
(***************************************************************************)
EXTENDS Naturals

CONSTANTS
    Cpu, Guest,     \* CPUs, and vCPUs of guests; a CPU names its host vCPU
    Imsic,          \* the vCPUs for which IMSIC virtualization is enabled
    None,
    MaxOps          \* bound: operations that a CPU begins; 0 for any number

ASSUME VcpuLocksAssumption ==
    Cpu \cap Guest = {} /\ None \notin Cpu \cup Guest /\ Imsic \subseteq Cpu \cup Guest /\ MaxOps \in Nat

Vcpu == Cpu \cup Guest

VARIABLES
    status,         \* vCPU -> VmCpuStatus
    statusLock,     \* vCPU -> the CPU that has the write lock of status
    archLock,       \* vCPU -> the CPU that has locked arch
    bind,           \* vCPU -> BindStatus: [st, cpu, new]
    hostOn,         \* the CPUs on which the host vCPU is active
    guest,          \* CPU -> the guest's vCPU that is active on it
    pc,             \* CPU -> "hyp", "vm", or the lock that is waited for and what for
    op,             \* CPU -> the vCPU that this is about
    ops             \* CPU -> operations so far

vars == <<status, statusLock, archLock, bind, hostOn, guest, pc, op, ops>>

BindStatus ==
    [st : {"unbound", "binding", "bound", "rebinding", "cloned", "unbinding"},
     cpu : Cpu \cup {None}, new : Cpu \cup {None}]
Unbound == [st |-> "unbound", cpu |-> None, new |-> None]
Bound(c) == [st |-> "bound", cpu |-> c, new |-> None]

\* Host vCPUs are bound to their CPUs; the boot CPU powers its own one on, and guests are
\* finalized.
Init ==
    /\ status \in [Vcpu -> {"PoweredOff", "Runnable"}]
    /\ \E c \in Cpu : status[c] = "Runnable"
    /\ statusLock = [v \in Vcpu |-> None] /\ archLock = [v \in Vcpu |-> None]
    /\ bind = [v \in Vcpu |-> IF v \in Cpu THEN Bound(v) ELSE Unbound]
    /\ hostOn = {} /\ guest = [c \in Cpu |-> None]
    /\ pc = [c \in Cpu |-> "hyp"] /\ op = [c \in Cpu |-> None] /\ ops = [c \in Cpu |-> 0]

locks == <<statusLock, archLock>>
active == <<hostOn, guest>>

\* The vCPU that runs on c: a guest's, on behalf of the host's.
Top(c) == IF guest[c] # None THEN guest[c] ELSE IF c \in hostOn THEN c ELSE None
IsHost(c) == c \in hostOn /\ guest[c] = None

-----------------------------------------------------------------------------
Count(c) ==
    IF MaxOps = 0 THEN UNCHANGED ops
    ELSE ops[c] < MaxOps /\ ops' = [ops EXCEPT ![c] = @ + 1]
\* The hypervisor on c begins an operation on v.
Begin(c, v, at) ==
    /\ pc[c] = "hyp" /\ Count(c)
    /\ op' = [op EXCEPT ![c] = v] /\ pc' = [pc EXCEPT ![c] = at]
Done(c) == pc' = [pc EXCEPT ![c] = "hyp"] /\ op' = [op EXCEPT ![c] = None] /\ UNCHANGED ops
Goto(c, at) == pc' = [pc EXCEPT ![c] = at] /\ UNCHANGED <<op, ops>>

\* Calls of a vCPU to the hypervisor are those of the one on top; a CPU without one runs its
\* host vCPU, or waits until it is started.
BeginPowerOn(c, v) ==
    /\ Top(c) # None /\ (v \in Cpu <=> IsHost(c))
    /\ Begin(c, v, "power_on.status")
    /\ UNCHANGED <<status, locks, bind, active>>
BeginRun(c, v) ==
    /\ IF Top(c) = None THEN v = c ELSE IsHost(c) /\ v \in Guest
    /\ Begin(c, v, "activate.status")
    /\ UNCHANGED <<status, locks, bind, active>>
BeginStatus(c, v) ==
    /\ IF Top(c) = None THEN v = c ELSE v \in Cpu <=> IsHost(c)
    /\ Begin(c, v, "status")
    /\ UNCHANGED <<status, locks, bind, active>>

\* status()
Status(c) ==
    /\ pc[c] = "status" /\ statusLock[op[c]] = None
    /\ Done(c) /\ UNCHANGED <<status, locks, bind, active>>

\* power_on()
NotRunnable(v) == status[v] # "Runnable"        \* Mutant: a running vCPU is started again.
IsOff(v) == status[v] = "PoweredOff"
PowerOnStatus(c) ==
    /\ pc[c] = "power_on.status" /\ statusLock[op[c]] = None
    /\ IF IsOff(op[c])
       THEN statusLock' = [statusLock EXCEPT ![op[c]] = c] /\ Goto(c, "power_on.arch")
       ELSE UNCHANGED statusLock /\ Done(c)
    /\ UNCHANGED <<status, archLock, bind, active>>
PowerOnArch(c) ==
    /\ pc[c] = "power_on.arch" /\ archLock[op[c]] = None
    /\ status' = [status EXCEPT ![op[c]] = "Runnable"]
    /\ statusLock' = [statusLock EXCEPT ![op[c]] = None]
    /\ Done(c) /\ UNCHANGED <<archLock, bind, active>>

\* activate(): a blocked vCPU runs if the TLB version it waits for has been reached.
is_bound_on_this_cpu(c, v) == bind[v] = Bound(c)
CanActivate(c, v) == status[v] \in {"Runnable", "Blocked"} /\ (v \in Imsic => is_bound_on_this_cpu(c, v))
\* Mutant: the guard of status is dropped before the registers are locked.
ActivateStatus(c) ==
    /\ pc[c] = "activate.status" /\ statusLock[op[c]] = None
    /\ \/ /\ CanActivate(c, op[c])
          /\ statusLock' = [statusLock EXCEPT ![op[c]] = c] /\ Goto(c, "activate.arch")
       \/ /\ ~CanActivate(c, op[c]) \/ status[op[c]] = "Blocked"
          /\ UNCHANGED statusLock /\ Done(c)
    /\ UNCHANGED <<status, archLock, bind, active>>
SwapIn(c) ==
    /\ statusLock' = [statusLock EXCEPT ![op[c]] = None]
    /\ IF op[c] = c THEN hostOn' = hostOn \cup {c} /\ UNCHANGED guest
       ELSE guest' = [guest EXCEPT ![c] = op[c]] /\ UNCHANGED hostOn
    /\ Done(c) /\ UNCHANGED bind

\* restore_from(), after which the status is Running.
restore_from(c) ==
    /\ pc[c] = "activate.arch" /\ archLock[op[c]] = None
    /\ archLock' = [archLock EXCEPT ![op[c]] = c]
    /\ status' = [status EXCEPT ![op[c]] = "Running"]
    /\ SwapIn(c)

\* run(): the vCPU on top runs until it traps.
Run(c) == pc[c] = "hyp" /\ Top(c) # None /\ Goto(c, "vm") /\ UNCHANGED <<status, locks, bind, active>>
Trap(c) == pc[c] = "vm" /\ Goto(c, "hyp") /\ UNCHANGED <<status, locks, bind, active>>

\* Drop of ActiveVmCpu: the arch lock first, then StatusSet's drop.
DropArch(c) ==
    /\ Top(c) # None /\ Begin(c, Top(c), "drop.status")
    /\ archLock' = [archLock EXCEPT ![Top(c)] = None]
    /\ UNCHANGED <<status, statusLock, bind, active>>
DropStatus(c) ==
    /\ pc[c] = "drop.status" /\ statusLock[op[c]] = None
    /\ \E st \in {"Runnable", "PoweredOff", "Blocked"} : status' = [status EXCEPT ![op[c]] = st]
    /\ IF op[c] = c THEN hostOn' = hostOn \ {c} /\ UNCHANGED guest
       ELSE guest' = [guest EXCEPT ![c] = None] /\ UNCHANGED hostOn
    /\ Done(c) /\ UNCHANGED <<locks, bind>>

-----------------------------------------------------------------------------
\* Bind operations of the host, on vCPUs of guests. What they do with pages comes before and
\* only takes behaviours away.
HostCalls(c, v) == IsHost(c) /\ v \in Guest \cap Imsic
SetBind(c, v, b) ==
    /\ bind' = [bind EXCEPT ![v] = b]
    /\ pc[c] = "hyp" /\ Count(c)
    /\ UNCHANGED <<status, locks, active, pc, op>>

\* Mutant: a vCPU that is bound is bound again.
bind_imsic_prepare_any(c, v) ==
    HostCalls(c, v) /\ SetBind(c, v, [st |-> "binding", cpu |-> c, new |-> None])
bind_imsic_prepare(c, v) ==
    HostCalls(c, v) /\ bind[v] = Unbound /\ SetBind(c, v, [st |-> "binding", cpu |-> c, new |-> None])
rebind_imsic_prepare(c, v) ==
    HostCalls(c, v) /\ bind[v].st = "bound" /\ SetBind(c, v, [st |-> "rebinding", cpu |-> bind[v].cpu, new |-> c])
rebind_imsic_clone(c, v) ==
    /\ HostCalls(c, v) /\ bind[v].st = "rebinding" /\ bind[v].cpu = c
    /\ SetBind(c, v, [st |-> "cloned", cpu |-> bind[v].new, new |-> None])
unbind_imsic_prepare(c, v) ==
    HostCalls(c, v) /\ bind[v] = Bound(c) /\ SetBind(c, v, [st |-> "unbinding", cpu |-> c, new |-> None])
unbind_imsic_finish(c, v) ==
    HostCalls(c, v) /\ bind[v].st = "unbinding" /\ bind[v].cpu = c /\ SetBind(c, v, Unbound)

\* bind_imsic_finish() and rebind_imsic_finish(): the vCPU is bound, then VGEIN is set under
\* the arch lock.
CanFinish(c, v) == bind[v].st \in {"binding", "cloned"} /\ bind[v].cpu = c
bind_imsic_finish(c, v) ==
    /\ HostCalls(c, v) /\ CanFinish(c, v)
    /\ bind' = [bind EXCEPT ![v] = Bound(c)]
    /\ Begin(c, v, "finish.arch")
    /\ UNCHANGED <<status, locks, active>>
FinishArch(c) ==
    /\ pc[c] = "finish.arch" /\ archLock[op[c]] = None
    /\ archLock' = [archLock EXCEPT ![op[c]] = c]
    /\ Goto(c, "finish.vgein") /\ UNCHANGED <<status, statusLock, bind, active>>
FinishVgein(c) ==
    /\ pc[c] = "finish.vgein"
    /\ archLock' = [archLock EXCEPT ![op[c]] = None]
    /\ Done(c) /\ UNCHANGED <<status, statusLock, bind, active>>

Steps(c) ==
    \/ Status(c) \/ PowerOnStatus(c) \/ PowerOnArch(c) \/ ActivateStatus(c) \/ restore_from(c)
    \/ DropStatus(c) \/ FinishArch(c) \/ FinishVgein(c)
Calls(c, v) ==
    \/ BeginPowerOn(c, v) \/ BeginRun(c, v) \/ BeginStatus(c, v)
    \/ bind_imsic_prepare(c, v) \/ bind_imsic_finish(c, v)
    \/ rebind_imsic_prepare(c, v) \/ rebind_imsic_clone(c, v)
    \/ unbind_imsic_prepare(c, v) \/ unbind_imsic_finish(c, v)
Next == \E c \in Cpu : Steps(c) \/ Run(c) \/ Trap(c) \/ DropArch(c) \/ \E v \in Vcpu : Calls(c, v)

Spec == Init /\ [][Next]_vars
\* A CPU in the hypervisor goes on; a vCPU need never trap, and the host need call nothing.
FairSpec == Spec /\ \A c \in Cpu : WF_vars(Steps(c))

-----------------------------------------------------------------------------
ForStatus == {"status", "power_on.status", "activate.status", "drop.status"}
ForArch == {"power_on.arch", "activate.arch", "finish.arch"}

TypeOK ==
    /\ status \in [Vcpu -> {"PoweredOff", "Runnable", "Running", "Blocked"}]
    /\ statusLock \in [Vcpu -> Cpu \cup {None}] /\ archLock \in [Vcpu -> Cpu \cup {None}]
    /\ bind \in [Vcpu -> BindStatus]
    /\ pc \in [Cpu -> ForStatus \cup ForArch \cup {"hyp", "vm", "finish.vgein"}]
    /\ op \in [Cpu -> Vcpu \cup {None}] /\ ops \in [Cpu -> Nat]
    /\ hostOn \subseteq Cpu /\ guest \in [Cpu -> Guest \cup {None}]

\* The CPU that c waits for.
WaitsFor(c, d) ==
    \/ pc[c] \in ForStatus /\ statusLock[op[c]] = d
    \/ pc[c] \in ForArch /\ archLock[op[c]] = d

\* No CPUs wait for each other in a circle, in which all locks they spin on stay taken: the
\* order "status -> arch" of struct VmCpu, across host vCPUs and guests.
NoCircle == \A S \in (SUBSET Cpu) \ {{}} : \E c \in S : \A d \in S : ~WaitsFor(c, d)

\* No CPU spins on the registers of a vCPU that another one runs, for as long as that pleases
\* to run it (activate, power_on; "the only way for the vCPU to be presently running is to be
\* bound to a different physical CPU", bind_imsic_prepare).
NoWaitForGuest ==
    \A c \in Cpu, d \in Cpu : pc[c] \in ForArch /\ archLock[op[c]] = d => pc[d] = "finish.vgein" /\ op[d] = op[c]

\* The assertion in StatusSet's drop: a vCPU that leaves is Running.
LeavesRunning == \A c \in Cpu : pc[c] = "drop.status" => status[op[c]] = "Running"

\* Registers are changed by the CPU that runs the vCPU only, and it runs on one.
ActiveOwnsArch ==
    \A c \in Cpu, v \in Vcpu :
        v = guest[c] \/ (v = c /\ c \in hostOn) => archLock[v] = c \/ (pc[c] = "drop.status" /\ op[c] = v)

\* The locks of vCPUs do what VmCpu takes them for, whichever CPUs run, start, stop and bind
\* which vCPUs: the four above.
LocksAreSafe == NoCircle /\ NoWaitForGuest /\ LeavesRunning /\ ActiveOwnsArch

\* What these rest on: who holds the locks, in which status, and where vCPUs that are
\* active or about to be active, and those about to get their VGEIN, are bound.
Active(v, c) == v = guest[c] \/ (v = c /\ c \in hostOn)
StatusHeld == {"power_on.arch", "activate.arch"}
Finishing == {"finish.arch", "finish.vgein"}
PcState ==
    \A c \in Cpu :
        /\ guest[c] # None => c \in hostOn
        /\ pc[c] \notin {"hyp", "vm"} => op[c] \in Vcpu
        /\ pc[c] \in {"activate.status", "activate.arch"} =>
              /\ guest[c] = None
              /\ op[c] \in Guest => c \in hostOn
              /\ op[c] \in Cpu => op[c] = c /\ c \notin hostOn
        /\ pc[c] = "power_on.arch" => status[op[c]] = "PoweredOff"
        /\ pc[c] = "activate.arch" => status[op[c]] \in {"Runnable", "Blocked"}
        /\ pc[c] = "drop.status" => op[c] = Top(c)
        /\ pc[c] \in Finishing => op[c] \in Guest \cap Imsic /\ guest[c] = None
StatusLocks == \A c \in Cpu, v \in Vcpu : statusLock[v] = c <=> pc[c] \in StatusHeld /\ op[c] = v
ArchLocks ==
    \A c \in Cpu, v \in Vcpu :
        archLock[v] = c <=> \/ Active(v, c) /\ ~(pc[c] = "drop.status" /\ op[c] = v)
                            \/ pc[c] = "finish.vgein" /\ op[c] = v
ActiveRuns == \A c \in Cpu, v \in Vcpu : Active(v, c) => status[v] = "Running"
ActiveOnce == \A c \in Cpu, d \in Cpu : guest[c] # None /\ guest[c] = guest[d] => c = d
BoundHere ==
    \A c \in Cpu, v \in Guest \cap Imsic :
        guest[c] = v \/ (pc[c] \in Finishing \cup {"activate.arch"} /\ op[c] = v) =>
            bind[v].st \in {"bound", "rebinding"} /\ bind[v].cpu = c
LockState == TypeOK /\ PcState /\ StatusLocks /\ ArchLocks /\ ActiveRuns /\ ActiveOnce /\ BoundHere

\* Whatever other CPUs do, and even if no vCPU ever traps, every call comes to an end.
CallsEnd == \A c \in Cpu : (pc[c] \notin {"hyp", "vm"}) ~> (pc[c] \in {"hyp", "vm"})
=============================================================================
