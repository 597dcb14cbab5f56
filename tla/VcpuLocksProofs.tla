-------------------------- MODULE VcpuLocksProofs --------------------------
(***************************************************************************)
(* For any number of CPUs and vCPUs: no CPU spins on the registers of a     *)
(* vCPU that runs, CPUs do not wait for each other in a circle, and the     *)
(* assertion in StatusSet's drop holds.  LockState is inductive; one lemma  *)
(* per action.                                                              *)
(***************************************************************************)
EXTENDS VcpuLocks, TLAPS

USE VcpuLocksAssumption DEF Vcpu

\* Bind operations that take no lock change nothing that these are about.
LEMMA Frame ==
    ASSUME LockState, UNCHANGED <<status, statusLock, archLock, hostOn, guest, pc, op>>
    PROVE  PcState' /\ StatusLocks' /\ ArchLocks' /\ ActiveRuns' /\ ActiveOnce'
<1>1. PcState'
  BY DEF LockState, PcState, Top
<1>2. StatusLocks'
  BY DEF LockState, StatusLocks
<1>3. ArchLocks'
  BY DEF LockState, ArchLocks, Active
<1>4. ActiveRuns' /\ ActiveOnce'
  BY DEF LockState, ActiveRuns, ActiveOnce, Active
<1> QED
  BY <1>1, <1>2, <1>3, <1>4
\* Status: status(): nothing but the CPU's own place changes.
LEMMA Keeps_Status ==
    ASSUME LockState, NEW a \in Cpu, Status(a)
    PROVE  LockState'
<1>1. TypeOK'
  BY DEF LockState, TypeOK, Status, Done, locks, active, ForStatus, ForArch
<1>2. PcState'
  BY DEF LockState, TypeOK, PcState, Status, Done, locks, active, ForStatus, ForArch, Top,
      Finishing
<1>3. StatusLocks'
  BY DEF LockState, StatusLocks, Status, Done, locks, active, StatusHeld
<1>4. ArchLocks'
  BY DEF LockState, ArchLocks, Status, Done, locks, active, Active
<1>5. ActiveRuns'
  BY DEF LockState, ActiveRuns, Status, Done, locks, active, Active
<1>6. ActiveOnce'
  BY DEF LockState, ActiveOnce, Status, Done, locks, active
<1>7. BoundHere'
  BY DEF LockState, BoundHere, Status, Done, locks, active, Finishing
<1> QED
  BY <1>1, <1>2, <1>3, <1>4, <1>5, <1>6, <1>7 DEF LockState

\* PowerOnStatus: power_on() holds the status lock only of a vCPU that is off.
LEMMA Keeps_PowerOnStatus ==
    ASSUME LockState, NEW a \in Cpu, PowerOnStatus(a)
    PROVE  LockState'
<1>1. TypeOK'
  <2>1. CASE Goto(a, "power_on.arch") /\ statusLock' = [statusLock EXCEPT ![op[a]] = a]
    BY <2>1 DEF LockState, TypeOK, PowerOnStatus, Goto, active, ForStatus, ForArch
  <2>2. CASE Done(a) /\ UNCHANGED statusLock
    BY <2>2 DEF LockState, TypeOK, PowerOnStatus, Done, active, ForStatus, ForArch
  <2> QED
    BY <2>1, <2>2 DEF PowerOnStatus
<1>2. PcState'
  BY DEF LockState, TypeOK, PcState, PowerOnStatus, IsOff, Goto, Done, active, ForStatus, ForArch,
      Top, Finishing
<1>3. StatusLocks'
  BY DEF LockState, TypeOK, StatusLocks, PowerOnStatus, IsOff, Goto, Done, active, ForStatus,
      ForArch, StatusHeld
<1>4. ArchLocks'
  BY DEF LockState, TypeOK, ArchLocks, PowerOnStatus, IsOff, Goto, Done, active, ForStatus,
      ForArch, Active
<1>5. ActiveRuns'
  BY DEF LockState, ActiveRuns, PowerOnStatus, IsOff, Goto, Done, active, Active
<1>6. ActiveOnce'
  BY DEF LockState, ActiveOnce, PowerOnStatus, IsOff, Goto, Done, active
<1>7. BoundHere'
  BY DEF LockState, TypeOK, BoundHere, PowerOnStatus, IsOff, Goto, Done, active, ForStatus,
      ForArch, Finishing
<1> QED
  BY <1>1, <1>2, <1>3, <1>4, <1>5, <1>6, <1>7 DEF LockState

\* PowerOnArch: The vCPU is off, so that it is active nowhere when its status changes.
LEMMA Keeps_PowerOnArch ==
    ASSUME LockState, NEW a \in Cpu, PowerOnArch(a)
    PROVE  LockState'
<1>1. TypeOK'
  BY DEF LockState, TypeOK, PowerOnArch, Done, active, ForStatus, ForArch
<1>2. PcState'
  BY DEF LockState, TypeOK, PcState, StatusLocks, PowerOnArch, Done, active, ForStatus, ForArch,
      Top, Finishing, StatusHeld
<1>3. StatusLocks'
  BY DEF LockState, TypeOK, StatusLocks, PowerOnArch, Done, active, ForStatus, ForArch, StatusHeld
<1>4. ArchLocks'
  BY DEF LockState, ArchLocks, PowerOnArch, Done, active, Active
<1>5. ActiveRuns'
  BY DEF LockState, TypeOK, PcState, ActiveRuns, PowerOnArch, Done, active, ForStatus, ForArch,
      Top, Finishing, Active
<1>6. ActiveOnce'
  BY DEF LockState, ActiveOnce, PowerOnArch, Done, active
<1>7. BoundHere'
  BY DEF LockState, BoundHere, PowerOnArch, Done, active, Finishing
<1> QED
  BY <1>1, <1>2, <1>3, <1>4, <1>5, <1>6, <1>7 DEF LockState

\* ActivateStatus: activate() holds the status lock only of a vCPU that may run, bound on this CPU.
LEMMA Keeps_ActivateStatus ==
    ASSUME LockState, NEW a \in Cpu, ActivateStatus(a)
    PROVE  LockState'
<1>1. TypeOK'
  <2>1. CASE Goto(a, "activate.arch") /\ statusLock' = [statusLock EXCEPT ![op[a]] = a]
    BY <2>1 DEF LockState, TypeOK, ActivateStatus, Goto, active, ForStatus, ForArch
  <2>2. CASE Done(a) /\ UNCHANGED statusLock
    BY <2>2 DEF LockState, TypeOK, ActivateStatus, Done, active, ForStatus, ForArch
  <2> QED
    BY <2>1, <2>2 DEF ActivateStatus
<1>2. PcState'
  BY DEF LockState, TypeOK, PcState, ActivateStatus, CanActivate, Goto, Done, active,
      is_bound_on_this_cpu, Bound, ForStatus, ForArch, Top, Finishing
<1>3. StatusLocks'
  BY DEF LockState, TypeOK, StatusLocks, ActivateStatus, CanActivate, Goto, Done, active,
      is_bound_on_this_cpu, Bound, ForStatus, ForArch, StatusHeld
<1>4. ArchLocks'
  BY DEF LockState, TypeOK, ArchLocks, ActivateStatus, CanActivate, Goto, Done, active,
      is_bound_on_this_cpu, Bound, ForStatus, ForArch, Active
<1>5. ActiveRuns'
  BY DEF LockState, ActiveRuns, ActivateStatus, CanActivate, Goto, Done, active,
      is_bound_on_this_cpu, Bound, Active
<1>6. ActiveOnce'
  BY DEF LockState, ActiveOnce, ActivateStatus, CanActivate, Goto, Done, active,
      is_bound_on_this_cpu, Bound
<1>7. BoundHere'
  BY DEF LockState, TypeOK, BoundHere, ActivateStatus, CanActivate, Goto, Done, active,
      is_bound_on_this_cpu, Bound, ForStatus, ForArch, Finishing
<1> QED
  BY <1>1, <1>2, <1>3, <1>4, <1>5, <1>6, <1>7 DEF LockState

\* restore_from: Under the status lock no other CPU is between "Runnable" and "Running": the vCPU is active on this CPU only.
LEMMA Keeps_restore_from ==
    ASSUME LockState, NEW a \in Cpu, restore_from(a)
    PROVE  LockState'
<1>1. TypeOK'
  <2>1. op[a] = a \/ op[a] \in Guest
    BY DEF LockState, TypeOK, PcState, restore_from
  <2>2. hostOn' \subseteq Cpu /\ guest' \in [Cpu -> Guest \cup {None}]
    BY <2>1 DEF LockState, TypeOK, restore_from, SwapIn
  <2> QED
    BY <2>2 DEF LockState, TypeOK, restore_from, SwapIn, Done, ForStatus, ForArch
<1>2. PcState'
  BY DEF LockState, TypeOK, PcState, StatusLocks, restore_from, SwapIn, Done, ForStatus, ForArch,
      Top, Finishing, StatusHeld
<1>3. StatusLocks'
  BY DEF LockState, TypeOK, StatusLocks, restore_from, SwapIn, Done, ForStatus, ForArch,
      StatusHeld
<1>4. ArchLocks'
  BY DEF LockState, TypeOK, PcState, ArchLocks, restore_from, SwapIn, Done, ForStatus, ForArch,
      Top, Finishing, Active
<1>5. ActiveRuns'
  BY DEF LockState, TypeOK, ActiveRuns, restore_from, SwapIn, Done, ForStatus, ForArch, Active
<1>6. ActiveOnce'
  <2>1. op[a] \in Vcpu /\ status[op[a]] # "Running"
    BY DEF LockState, TypeOK, PcState, restore_from
  <2>2. \A c \in Cpu : guest[c] # op[a]
    BY <2>1 DEF LockState, ActiveRuns, Active
  <2>3. CASE op[a] = a
    BY <2>3 DEF LockState, ActiveOnce, restore_from, SwapIn
  <2>4. CASE op[a] # a
    <3>1. guest' = [guest EXCEPT ![a] = op[a]]
      BY <2>4 DEF restore_from, SwapIn
    <3> QED
      BY <2>2, <3>1 DEF LockState, TypeOK, ActiveOnce
  <2> QED
    BY <2>3, <2>4
<1>7. BoundHere'
  BY DEF LockState, TypeOK, BoundHere, restore_from, SwapIn, Done, ForStatus, ForArch, Finishing
<1> QED
  BY <1>1, <1>2, <1>3, <1>4, <1>5, <1>6, <1>7 DEF LockState

\* DropStatus: The status changes where the vCPU was active, and it was active nowhere else.
LEMMA Keeps_DropStatus ==
    ASSUME LockState, NEW a \in Cpu, DropStatus(a)
    PROVE  LockState'
<1>1. TypeOK'
  BY DEF LockState, TypeOK, PcState, StatusLocks, DropStatus, Done, locks, ForStatus, ForArch,
      Top, Finishing, StatusHeld
<1>2. PcState'
  BY DEF LockState, TypeOK, PcState, StatusLocks, DropStatus, Done, locks, ForStatus, ForArch,
      Top, Finishing, StatusHeld
<1>3. StatusLocks'
  BY DEF LockState, StatusLocks, DropStatus, Done, locks, StatusHeld
<1>4. ArchLocks'
  BY DEF LockState, TypeOK, PcState, ArchLocks, DropStatus, Done, locks, ForStatus, ForArch, Top,
      Finishing, Active
<1>5. ActiveRuns'
  BY DEF LockState, TypeOK, PcState, ActiveRuns, ActiveOnce, DropStatus, Done, locks, ForStatus,
      ForArch, Top, Finishing, Active
<1>6. ActiveOnce'
  BY DEF LockState, TypeOK, PcState, ActiveOnce, DropStatus, Done, locks, ForStatus, ForArch, Top,
      Finishing
<1>7. BoundHere'
  BY DEF LockState, TypeOK, BoundHere, DropStatus, Done, locks, ForStatus, ForArch, Finishing
<1> QED
  BY <1>1, <1>2, <1>3, <1>4, <1>5, <1>6, <1>7 DEF LockState

\* FinishArch: The lock was free, so that the vCPU is not active.
LEMMA Keeps_FinishArch ==
    ASSUME LockState, NEW a \in Cpu, FinishArch(a)
    PROVE  LockState'
<1>1. TypeOK'
  BY DEF LockState, TypeOK, FinishArch, Goto, active, ForStatus, ForArch
<1>2. PcState'
  BY DEF LockState, PcState, FinishArch, Goto, active, Top, Finishing
<1>3. StatusLocks'
  BY DEF LockState, StatusLocks, FinishArch, Goto, active, StatusHeld
<1>4. ArchLocks'
  BY DEF LockState, TypeOK, ArchLocks, FinishArch, Goto, active, ForStatus, ForArch, Active
<1>5. ActiveRuns'
  BY DEF LockState, ActiveRuns, FinishArch, Goto, active, Active
<1>6. ActiveOnce'
  BY DEF LockState, ActiveOnce, FinishArch, Goto, active
<1>7. BoundHere'
  BY DEF LockState, BoundHere, FinishArch, Goto, active, Finishing
<1> QED
  BY <1>1, <1>2, <1>3, <1>4, <1>5, <1>6, <1>7 DEF LockState

\* FinishVgein: The lock is given back.
LEMMA Keeps_FinishVgein ==
    ASSUME LockState, NEW a \in Cpu, FinishVgein(a)
    PROVE  LockState'
<1>1. TypeOK'
  BY DEF LockState, TypeOK, FinishVgein, Done, active, ForStatus, ForArch
<1>2. PcState'
  BY DEF LockState, TypeOK, PcState, FinishVgein, Done, active, ForStatus, ForArch, Top, Finishing
<1>3. StatusLocks'
  BY DEF LockState, StatusLocks, FinishVgein, Done, active, StatusHeld
<1>4. ArchLocks'
  BY DEF LockState, TypeOK, PcState, ArchLocks, FinishVgein, Done, active, ForStatus, ForArch,
      Top, Finishing, Active
<1>5. ActiveRuns'
  BY DEF LockState, ActiveRuns, FinishVgein, Done, active, Active
<1>6. ActiveOnce'
  BY DEF LockState, ActiveOnce, FinishVgein, Done, active
<1>7. BoundHere'
  BY DEF LockState, BoundHere, FinishVgein, Done, active, Finishing
<1> QED
  BY <1>1, <1>2, <1>3, <1>4, <1>5, <1>6, <1>7 DEF LockState

\* Run: the CPU's place changes, and no lock.
LEMMA Keeps_Run ==
    ASSUME LockState, NEW a \in Cpu, Run(a)
    PROVE  LockState'
<1>1. TypeOK'
  BY DEF LockState, TypeOK, Run, Top, Goto, locks, active, ForStatus, ForArch
<1>2. PcState'
  BY DEF LockState, PcState, Run, Top, Goto, locks, active, Finishing
<1>3. StatusLocks'
  BY DEF LockState, StatusLocks, Run, Top, Goto, locks, active, StatusHeld
<1>4. ArchLocks'
  BY DEF LockState, ArchLocks, Run, Top, Goto, locks, active, Active
<1>5. ActiveRuns'
  BY DEF LockState, ActiveRuns, Run, Top, Goto, locks, active, Active
<1>6. ActiveOnce'
  BY DEF LockState, ActiveOnce, Run, Top, Goto, locks, active
<1>7. BoundHere'
  BY DEF LockState, BoundHere, Run, Top, Goto, locks, active, Finishing
<1> QED
  BY <1>1, <1>2, <1>3, <1>4, <1>5, <1>6, <1>7 DEF LockState

\* Trap: the CPU's place changes, and no lock.
LEMMA Keeps_Trap ==
    ASSUME LockState, NEW a \in Cpu, Trap(a)
    PROVE  LockState'
<1>1. TypeOK'
  BY DEF LockState, TypeOK, Trap, Goto, locks, active, ForStatus, ForArch
<1>2. PcState'
  BY DEF LockState, PcState, Trap, Goto, locks, active, Top, Finishing
<1>3. StatusLocks'
  BY DEF LockState, StatusLocks, Trap, Goto, locks, active, StatusHeld
<1>4. ArchLocks'
  BY DEF LockState, ArchLocks, Trap, Goto, locks, active, Active
<1>5. ActiveRuns'
  BY DEF LockState, ActiveRuns, Trap, Goto, locks, active, Active
<1>6. ActiveOnce'
  BY DEF LockState, ActiveOnce, Trap, Goto, locks, active
<1>7. BoundHere'
  BY DEF LockState, BoundHere, Trap, Goto, locks, active, Finishing
<1> QED
  BY <1>1, <1>2, <1>3, <1>4, <1>5, <1>6, <1>7 DEF LockState

\* DropArch: The lock of the vCPU on top is given back; it is still Running.
LEMMA Keeps_DropArch ==
    ASSUME LockState, NEW a \in Cpu, DropArch(a)
    PROVE  LockState'
<1>1. TypeOK'
  BY DEF LockState, TypeOK, DropArch, Top, Begin, active, Count, ForStatus, ForArch
<1>2. PcState'
  BY DEF LockState, TypeOK, PcState, DropArch, Top, Begin, active, Count, ForStatus, ForArch,
      Finishing
<1>3. StatusLocks'
  BY DEF LockState, StatusLocks, DropArch, Top, Begin, active, Count, StatusHeld
<1>4. ArchLocks'
  BY DEF LockState, TypeOK, ArchLocks, DropArch, Top, Begin, active, Count, ForStatus, ForArch,
      Active
<1>5. ActiveRuns'
  BY DEF LockState, ActiveRuns, DropArch, Top, Begin, active, Count, Active
<1>6. ActiveOnce'
  BY DEF LockState, ActiveOnce, DropArch, Top, Begin, active, Count
<1>7. BoundHere'
  BY DEF LockState, BoundHere, DropArch, Top, Begin, active, Count, Finishing
<1> QED
  BY <1>1, <1>2, <1>3, <1>4, <1>5, <1>6, <1>7 DEF LockState

\* BeginPowerOn: the CPU's place changes, and no lock.
LEMMA Keeps_BeginPowerOn ==
    ASSUME LockState, NEW a \in Cpu, NEW w \in Vcpu, BeginPowerOn(a, w)
    PROVE  LockState'
<1>1. TypeOK'
  BY DEF LockState, TypeOK, BeginPowerOn, Top, IsHost, Begin, locks, active, Count, ForStatus,
      ForArch
<1>2. PcState'
  BY DEF LockState, TypeOK, PcState, BeginPowerOn, Top, IsHost, Begin, locks, active, Count,
      ForStatus, ForArch, Finishing
<1>3. StatusLocks'
  BY DEF LockState, StatusLocks, BeginPowerOn, Top, IsHost, Begin, locks, active, Count,
      StatusHeld
<1>4. ArchLocks'
  BY DEF LockState, ArchLocks, BeginPowerOn, Top, IsHost, Begin, locks, active, Count, Active
<1>5. ActiveRuns'
  BY DEF LockState, ActiveRuns, BeginPowerOn, Top, IsHost, Begin, locks, active, Count, Active
<1>6. ActiveOnce'
  BY DEF LockState, ActiveOnce, BeginPowerOn, Top, IsHost, Begin, locks, active, Count
<1>7. BoundHere'
  BY DEF LockState, BoundHere, BeginPowerOn, Top, IsHost, Begin, locks, active, Count, Finishing
<1> QED
  BY <1>1, <1>2, <1>3, <1>4, <1>5, <1>6, <1>7 DEF LockState

\* BeginRun: the CPU's place changes, and no lock.
LEMMA Keeps_BeginRun ==
    ASSUME LockState, NEW a \in Cpu, NEW w \in Vcpu, BeginRun(a, w)
    PROVE  LockState'
<1>1. TypeOK'
  BY DEF LockState, TypeOK, BeginRun, Top, IsHost, Begin, locks, active, Count, ForStatus, ForArch
<1>2. PcState'
  BY DEF LockState, TypeOK, PcState, BeginRun, Top, IsHost, Begin, locks, active, Count,
      ForStatus, ForArch, Finishing
<1>3. StatusLocks'
  BY DEF LockState, StatusLocks, BeginRun, Top, IsHost, Begin, locks, active, Count, StatusHeld
<1>4. ArchLocks'
  BY DEF LockState, ArchLocks, BeginRun, Top, IsHost, Begin, locks, active, Count, Active
<1>5. ActiveRuns'
  BY DEF LockState, ActiveRuns, BeginRun, Top, IsHost, Begin, locks, active, Count, Active
<1>6. ActiveOnce'
  BY DEF LockState, ActiveOnce, BeginRun, Top, IsHost, Begin, locks, active, Count
<1>7. BoundHere'
  BY DEF LockState, BoundHere, BeginRun, Top, IsHost, Begin, locks, active, Count, Finishing
<1> QED
  BY <1>1, <1>2, <1>3, <1>4, <1>5, <1>6, <1>7 DEF LockState

\* BeginStatus: the CPU's place changes, and no lock.
LEMMA Keeps_BeginStatus ==
    ASSUME LockState, NEW a \in Cpu, NEW w \in Vcpu, BeginStatus(a, w)
    PROVE  LockState'
<1>1. TypeOK'
  BY DEF LockState, TypeOK, BeginStatus, Top, IsHost, Begin, locks, active, Count, ForStatus,
      ForArch
<1>2. PcState'
  BY DEF LockState, TypeOK, PcState, BeginStatus, Top, IsHost, Begin, locks, active, Count,
      ForStatus, ForArch, Finishing
<1>3. StatusLocks'
  BY DEF LockState, StatusLocks, BeginStatus, Top, IsHost, Begin, locks, active, Count, StatusHeld
<1>4. ArchLocks'
  BY DEF LockState, ArchLocks, BeginStatus, Top, IsHost, Begin, locks, active, Count, Active
<1>5. ActiveRuns'
  BY DEF LockState, ActiveRuns, BeginStatus, Top, IsHost, Begin, locks, active, Count, Active
<1>6. ActiveOnce'
  BY DEF LockState, ActiveOnce, BeginStatus, Top, IsHost, Begin, locks, active, Count
<1>7. BoundHere'
  BY DEF LockState, BoundHere, BeginStatus, Top, IsHost, Begin, locks, active, Count, Finishing
<1> QED
  BY <1>1, <1>2, <1>3, <1>4, <1>5, <1>6, <1>7 DEF LockState

\* bind_imsic_prepare: An unbound vCPU is neither active nor about to be.
LEMMA Keeps_bind_imsic_prepare ==
    ASSUME LockState, NEW a \in Cpu, NEW w \in Vcpu, bind_imsic_prepare(a, w)
    PROVE  LockState'
<1>1. TypeOK'
  <2>1. bind' \in [Vcpu -> BindStatus]
    BY DEF LockState, TypeOK, bind_imsic_prepare, SetBind, BindStatus
  <2> QED
    BY <2>1 DEF LockState, TypeOK, bind_imsic_prepare, SetBind, Count, locks, active
<1>2. PcState'
  BY Frame DEF bind_imsic_prepare, SetBind, locks, active
<1>3. StatusLocks'
  BY Frame DEF bind_imsic_prepare, SetBind, locks, active
<1>4. ArchLocks'
  BY Frame DEF bind_imsic_prepare, SetBind, locks, active
<1>5. ActiveRuns'
  BY Frame DEF bind_imsic_prepare, SetBind, locks, active
<1>6. ActiveOnce'
  BY Frame DEF bind_imsic_prepare, SetBind, locks, active
<1>7. BoundHere'
  BY DEF LockState, BoundHere, bind_imsic_prepare, HostCalls, Unbound, SetBind, IsHost, Count,
      locks, active, Finishing
<1> QED
  BY <1>1, <1>2, <1>3, <1>4, <1>5, <1>6, <1>7 DEF LockState

\* bind_imsic_finish: A vCPU that is being bound is active nowhere; it is bound here.
LEMMA Keeps_bind_imsic_finish ==
    ASSUME LockState, NEW a \in Cpu, NEW w \in Vcpu, bind_imsic_finish(a, w)
    PROVE  LockState'
<1>1. TypeOK'
  <2>1. bind' \in [Vcpu -> BindStatus]
    BY DEF LockState, TypeOK, bind_imsic_finish, Bound, BindStatus
  <2> QED
    BY <2>1 DEF LockState, TypeOK, bind_imsic_finish, Begin, Count, locks, active, ForStatus, ForArch
<1>2. PcState'
  BY DEF LockState, TypeOK, PcState, bind_imsic_finish, HostCalls, CanFinish, Bound, Begin, locks,
      active, IsHost, Count, ForStatus, ForArch, Top, Finishing
<1>3. StatusLocks'
  <2>1. /\ UNCHANGED statusLock /\ pc[a] = "hyp"
        /\ pc' = [pc EXCEPT ![a] = "finish.arch"] /\ op' = [op EXCEPT ![a] = w]
    BY DEF bind_imsic_finish, Begin, locks
  <2>2. /\ pc'[a] = "finish.arch"
        /\ \A c \in Cpu \ {a} : pc'[c] = pc[c] /\ op'[c] = op[c]
    BY <2>1 DEF LockState, TypeOK
  <2>3. pc[a] \notin StatusHeld /\ pc'[a] \notin StatusHeld
    BY <2>1, <2>2 DEF StatusHeld
  <2>4. ASSUME NEW c \in Cpu, NEW v \in Vcpu
        PROVE  statusLock'[v] = c <=> pc'[c] \in StatusHeld /\ op'[c] = v
    <3>1. statusLock[v] = c <=> pc[c] \in StatusHeld /\ op[c] = v
      BY DEF LockState, StatusLocks
    <3>2. CASE c = a
      BY <2>1, <2>3, <3>1, <3>2
    <3>3. CASE c # a
      BY <2>1, <2>2, <3>1, <3>3
    <3> QED
      BY <3>2, <3>3
  <2> QED
    BY <2>4 DEF StatusLocks
<1>4. ArchLocks'
  BY DEF LockState, ArchLocks, bind_imsic_finish, HostCalls, CanFinish, Bound, Begin, locks,
      active, IsHost, Count, Active
<1>5. ActiveRuns'
  BY DEF LockState, ActiveRuns, bind_imsic_finish, HostCalls, CanFinish, Bound, Begin, locks,
      active, IsHost, Count, Active
<1>6. ActiveOnce'
  BY DEF LockState, ActiveOnce, bind_imsic_finish, HostCalls, CanFinish, Bound, Begin, locks,
      active, IsHost, Count
<1>7. BoundHere'
  BY DEF LockState, TypeOK, BoundHere, bind_imsic_finish, HostCalls, CanFinish, Bound, Begin,
      locks, active, IsHost, Count, ForStatus, ForArch, Finishing
<1> QED
  BY <1>1, <1>2, <1>3, <1>4, <1>5, <1>6, <1>7 DEF LockState

\* rebind_imsic_prepare: The CPU of the old file stays that of the bind status.
LEMMA Keeps_rebind_imsic_prepare ==
    ASSUME LockState, NEW a \in Cpu, NEW w \in Vcpu, rebind_imsic_prepare(a, w)
    PROVE  LockState'
<1>1. TypeOK'
  <2>1. bind' \in [Vcpu -> BindStatus]
    BY DEF LockState, TypeOK, rebind_imsic_prepare, SetBind, BindStatus
  <2> QED
    BY <2>1 DEF LockState, TypeOK, rebind_imsic_prepare, SetBind, Count, locks, active
<1>2. PcState'
  BY Frame DEF rebind_imsic_prepare, SetBind, locks, active
<1>3. StatusLocks'
  BY Frame DEF rebind_imsic_prepare, SetBind, locks, active
<1>4. ArchLocks'
  BY Frame DEF rebind_imsic_prepare, SetBind, locks, active
<1>5. ActiveRuns'
  BY Frame DEF rebind_imsic_prepare, SetBind, locks, active
<1>6. ActiveOnce'
  BY Frame DEF rebind_imsic_prepare, SetBind, locks, active
<1>7. BoundHere'
  BY DEF LockState, BoundHere, rebind_imsic_prepare, HostCalls, SetBind, IsHost, Count, locks,
      active, Finishing
<1> QED
  BY <1>1, <1>2, <1>3, <1>4, <1>5, <1>6, <1>7 DEF LockState

\* rebind_imsic_clone: The CPU of the old file does not run the vCPU while it clones the file.
LEMMA Keeps_rebind_imsic_clone ==
    ASSUME LockState, NEW a \in Cpu, NEW w \in Vcpu, rebind_imsic_clone(a, w)
    PROVE  LockState'
<1>1. TypeOK'
  <2>1. bind' \in [Vcpu -> BindStatus]
    BY DEF LockState, TypeOK, rebind_imsic_clone, SetBind, BindStatus
  <2> QED
    BY <2>1 DEF LockState, TypeOK, rebind_imsic_clone, SetBind, Count, locks, active
<1>2. PcState'
  BY Frame DEF rebind_imsic_clone, SetBind, locks, active
<1>3. StatusLocks'
  BY Frame DEF rebind_imsic_clone, SetBind, locks, active
<1>4. ArchLocks'
  BY Frame DEF rebind_imsic_clone, SetBind, locks, active
<1>5. ActiveRuns'
  BY Frame DEF rebind_imsic_clone, SetBind, locks, active
<1>6. ActiveOnce'
  BY Frame DEF rebind_imsic_clone, SetBind, locks, active
<1>7. BoundHere'
  BY DEF LockState, BoundHere, rebind_imsic_clone, HostCalls, SetBind, IsHost, Count, locks,
      active, Finishing
<1> QED
  BY <1>1, <1>2, <1>3, <1>4, <1>5, <1>6, <1>7 DEF LockState

\* unbind_imsic_prepare: The CPU that unbinds does not run the vCPU.
LEMMA Keeps_unbind_imsic_prepare ==
    ASSUME LockState, NEW a \in Cpu, NEW w \in Vcpu, unbind_imsic_prepare(a, w)
    PROVE  LockState'
<1>1. TypeOK'
  <2>1. bind' \in [Vcpu -> BindStatus]
    BY DEF LockState, TypeOK, unbind_imsic_prepare, SetBind, BindStatus
  <2> QED
    BY <2>1 DEF LockState, TypeOK, unbind_imsic_prepare, SetBind, Count, locks, active
<1>2. PcState'
  BY Frame DEF unbind_imsic_prepare, SetBind, locks, active
<1>3. StatusLocks'
  BY Frame DEF unbind_imsic_prepare, SetBind, locks, active
<1>4. ArchLocks'
  BY Frame DEF unbind_imsic_prepare, SetBind, locks, active
<1>5. ActiveRuns'
  BY Frame DEF unbind_imsic_prepare, SetBind, locks, active
<1>6. ActiveOnce'
  BY Frame DEF unbind_imsic_prepare, SetBind, locks, active
<1>7. BoundHere'
  BY DEF LockState, BoundHere, unbind_imsic_prepare, HostCalls, Bound, SetBind, IsHost, Count,
      locks, active, Finishing
<1> QED
  BY <1>1, <1>2, <1>3, <1>4, <1>5, <1>6, <1>7 DEF LockState

\* unbind_imsic_finish: The CPU that unbinds does not run the vCPU.
LEMMA Keeps_unbind_imsic_finish ==
    ASSUME LockState, NEW a \in Cpu, NEW w \in Vcpu, unbind_imsic_finish(a, w)
    PROVE  LockState'
<1>1. TypeOK'
  <2>1. bind' \in [Vcpu -> BindStatus]
    BY DEF LockState, TypeOK, unbind_imsic_finish, SetBind, Unbound, BindStatus
  <2> QED
    BY <2>1 DEF LockState, TypeOK, unbind_imsic_finish, SetBind, Count, locks, active
<1>2. PcState'
  BY Frame DEF unbind_imsic_finish, SetBind, locks, active
<1>3. StatusLocks'
  BY Frame DEF unbind_imsic_finish, SetBind, locks, active
<1>4. ArchLocks'
  BY Frame DEF unbind_imsic_finish, SetBind, locks, active
<1>5. ActiveRuns'
  BY Frame DEF unbind_imsic_finish, SetBind, locks, active
<1>6. ActiveOnce'
  BY Frame DEF unbind_imsic_finish, SetBind, locks, active
<1>7. BoundHere'
  BY DEF LockState, BoundHere, unbind_imsic_finish, HostCalls, SetBind, Unbound, IsHost, Count,
      locks, active, Finishing
<1> QED
  BY <1>1, <1>2, <1>3, <1>4, <1>5, <1>6, <1>7 DEF LockState

-----------------------------------------------------------------------------
\* The invariant holds before the first call.
LEMMA LockStateInit == Init => LockState
<1> SUFFICES ASSUME Init PROVE LockState
  OBVIOUS
<1>1. TypeOK
  BY DEF Init, TypeOK, ForStatus, ForArch, BindStatus, Unbound, Bound
<1>2. PcState /\ StatusLocks
  BY DEF Init, PcState, StatusLocks, StatusHeld, Finishing
<1>3. ArchLocks /\ ActiveRuns /\ ActiveOnce /\ BoundHere
  BY DEF Init, ArchLocks, ActiveRuns, ActiveOnce, BoundHere, Active, Finishing
<1> QED
  BY <1>1, <1>2, <1>3 DEF LockState

\* Every step preserves the invariant.
LEMMA LockStateStep == LockState /\ [Next]_vars => LockState'
<1> SUFFICES ASSUME LockState, [Next]_vars PROVE LockState'
  OBVIOUS
<1>1. CASE UNCHANGED vars
  <2>1. TypeOK'
    BY <1>1 DEF LockState, TypeOK, vars
  <2>2. BoundHere'
    BY <1>1 DEF LockState, BoundHere, vars
  <2> QED
    BY <1>1, <2>1, <2>2, Frame DEF LockState, vars
<1>2. ASSUME NEW a \in Cpu, Steps(a) PROVE LockState'
  BY <1>2, Keeps_Status, Keeps_PowerOnStatus, Keeps_PowerOnArch, Keeps_ActivateStatus,
     Keeps_restore_from, Keeps_DropStatus, Keeps_FinishArch, Keeps_FinishVgein DEF Steps
<1>3. ASSUME NEW a \in Cpu, NEW w \in Vcpu, Calls(a, w) PROVE LockState'
  BY <1>3, Keeps_BeginPowerOn, Keeps_BeginRun, Keeps_BeginStatus, Keeps_bind_imsic_prepare,
     Keeps_bind_imsic_finish, Keeps_rebind_imsic_prepare, Keeps_rebind_imsic_clone,
     Keeps_unbind_imsic_prepare, Keeps_unbind_imsic_finish DEF Calls
<1>4. ASSUME NEW a \in Cpu, Run(a) \/ Trap(a) \/ DropArch(a) PROVE LockState'
  BY <1>4, Keeps_Run, Keeps_Trap, Keeps_DropArch
<1> QED
  BY <1>1, <1>2, <1>3, <1>4 DEF Next

\* The locks are held by whom, and the vCPUs are in the status, that LockState says.
THEOREM LocksFollowStatus == Spec => []LockState
BY LockStateInit, LockStateStep, PTL DEF Spec

-----------------------------------------------------------------------------
\* A vCPU whose arch lock is waited for is not active: it is off, about to run, or being bound
\* by a CPU that has no guest active.
LEMMA WaitsForFinish ==
    ASSUME LockState, NEW c \in Cpu, NEW d \in Cpu, pc[c] \in ForArch, archLock[op[c]] = d
    PROVE  pc[d] = "finish.vgein" /\ op[d] = op[c]
<1>1. op[c] \in Vcpu
  BY DEF LockState, PcState, ForArch
<1>2. ~Active(op[c], d)
  <2>1. CASE pc[c] \in {"power_on.arch", "activate.arch"}
    BY <1>1, <2>1 DEF LockState, PcState, ActiveRuns
  <2>2. CASE pc[c] = "finish.arch"
    <3>1. op[c] \in Guest \cap Imsic /\ guest[c] = None
      BY <2>2 DEF LockState, PcState, Finishing
    <3>2. bind[op[c]].cpu = c
      BY <2>2, <3>1 DEF LockState, BoundHere, Finishing
    <3>3. guest[d] = op[c] => bind[op[c]].cpu = d
      BY <3>1 DEF LockState, BoundHere
    <3> QED
      BY <3>1, <3>2, <3>3 DEF Active
  <2> QED
    BY <2>1, <2>2 DEF ForArch
<1> QED
  BY <1>1, <1>2 DEF LockState, ArchLocks

\* It implies that nobody waits for the registers of a running guest.
LEMMA NoWaitForGuestHolds == LockState => NoWaitForGuest
BY WaitsForFinish DEF NoWaitForGuest

\* No CPU spins on the arch lock of a vCPU that another CPU runs (activate, power_on and the
\* ends of bind and rebind): the lock is taken at most by the end of a bind.
THEOREM NobodyWaitsForGuests == Spec => []NoWaitForGuest
BY LocksFollowStatus, NoWaitForGuestHolds, PTL

\* A CPU that others wait for, for a status lock, itself waits at most for the end of a bind:
\* two steps down every chain of waiting CPUs there is one that does not wait.
LEMMA NoCircleHolds == LockState => NoCircle
<1> SUFFICES ASSUME LockState, NEW S \in (SUBSET Cpu) \ {{}},
                    \A c \in S : \E d \in S : WaitsFor(c, d)
             PROVE  FALSE
  BY DEF NoCircle
<1>1. ASSUME NEW c \in S, pc[c] \in ForArch PROVE FALSE
  <2>1. PICK d \in S : WaitsFor(c, d)
    OBVIOUS
  <2>2. pc[d] = "finish.vgein"
    BY <1>1, <2>1, WaitsForFinish DEF WaitsFor, ForStatus, ForArch
  <2>3. \E e \in S : WaitsFor(d, e)
    OBVIOUS
  <2> QED
    BY <2>2, <2>3 DEF WaitsFor, ForStatus, ForArch
<1>2. PICK c \in S : TRUE
  OBVIOUS
<1>3. PICK d \in S : WaitsFor(c, d)
  OBVIOUS
<1>4. pc[c] \in ForStatus /\ statusLock[op[c]] = d
  BY <1>1, <1>3 DEF WaitsFor
<1>5. op[c] \in Vcpu
  BY <1>4 DEF LockState, PcState, ForStatus
<1>6. pc[d] \in ForArch
  BY <1>4, <1>5 DEF LockState, StatusLocks, StatusHeld, ForArch
<1> QED
  BY <1>1, <1>6

\* CPUs never wait for each other in a circle, whatever they start, run, query and bind.
THEOREM LocksHaveNoCircle == Spec => []NoCircle
BY LocksFollowStatus, NoCircleHolds, PTL

\* It implies that the drop of an active vCPU finds it running.
LEMMA LeavesRunningHolds == LockState => LeavesRunning
<1> SUFFICES ASSUME LockState, NEW c \in Cpu, pc[c] = "drop.status" PROVE status[op[c]] = "Running"
  BY DEF LeavesRunning
<1>1. op[c] \in Vcpu /\ op[c] = Top(c)
  BY DEF LockState, PcState
<1>2. Active(op[c], c)
  BY <1>1 DEF LockState, TypeOK, Top, Active
<1> QED
  BY <1>1, <1>2 DEF LockState, ActiveRuns

\* The assertion in StatusSet's drop never fails.
THEOREM DropFindsRunning == Spec => []LeavesRunning
BY LocksFollowStatus, LeavesRunningHolds, PTL

\* A CPU that has a vCPU active has its registers locked, until it drops it.
THEOREM RegistersAreOwned == Spec => []ActiveOwnsArch
<1>1. LockState => ActiveOwnsArch
  BY DEF LockState, ArchLocks, ActiveOwnsArch, Active
<1> QED
  BY <1>1, LocksFollowStatus, PTL

\* The locks of vCPUs do what they are taken for, for any number of CPUs and guests.
THEOREM VcpuLocksAreSafe == Spec => []LocksAreSafe
BY LocksHaveNoCircle, NobodyWaitsForGuests, DropFindsRunning, RegistersAreOwned, PTL DEF LocksAreSafe
=============================================================================
