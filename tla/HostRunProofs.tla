--------------------------- MODULE HostRunProofs ---------------------------
(***************************************************************************)
(* The order of boot and the host VM's vCPUs (HostRun), for any number of  *)
(* CPUs and of HartStart calls.  What a CPU may rely on follows from how   *)
(* far the boot CPU is: the inductive invariant says which of its steps    *)
(* are done when the tables, the seal and the host VM are there, that a    *)
(* secondary CPU runs only from "secondaries" on, that it is online before *)
(* the next one is started, and that a vCPU on a CPU is not off.           *)
(***************************************************************************)
EXTENDS HostRun, TLAPS

Labels == {"init", "check", "activate", "wfi_enable", "wfi", "stalled", "wfi_disable", "guest", "kick", "resume"}

Types ==
    /\ step \in [Cpu -> Nat] /\ pc \in [Cpu -> Labels]
    /\ kick \in [Cpu -> Cpu \cup {NoCpu}]
    /\ status \in [Cpu -> {"off", "runnable", "running"}]
    /\ entry \in [Cpu -> Nat] /\ runs \in [Cpu -> Nat] /\ starts \in Nat
    /\ tables \in BOOLEAN /\ sealed \in BOOLEAN /\ hostvm \in BOOLEAN

\* What is set up tells how far the boot CPU is: it has made its tables with the fourth step, has
\* sealed the heap with the sixth and has published the host VM with the eighth.
BootOrder ==
    /\ step[Boot] >= 1
    /\ step[Boot] > 4 => tables
    /\ step[Boot] > 6 => sealed
    /\ hostvm => step[Boot] > 8
    /\ step[Boot] > 2 => Boot \in receives

\* A secondary CPU is started by the seventh step of the boot CPU, all of them are started when
\* that is done, and each is online before the next.
SecondaryOrder ==
    \A c \in Cpu \ {Boot} :
        /\ step[c] > 0 => step[Boot] >= 7
        /\ c \in online => step[c] >= 5
        /\ step[c] >= 4 => c \in receives
        /\ step[c] > 0 /\ starting # c => c \in online
        /\ step[Boot] > 7 => step[c] > 0 /\ starting = NoCpu
        /\ step[c] >= 7 => hostvm

\* A CPU is past its boot steps when it runs the host VM; a vCPU that a CPU has activated is not
\* off and began at its entry point; and an IPI goes to a CPU that takes interrupts.
HostOrder ==
    \A c \in Cpu :
        /\ pc[c] # "init" => step[c] > (IF c = Boot THEN 9 ELSE 7)
        /\ pc[c] \in {"guest", "kick", "resume"} => status[c] # "off" /\ runs[c] = entry[c]
        /\ pc[c] = "kick" => kick[c] \in Cpu

IInv == Types /\ BootOrder /\ SecondaryOrder /\ HostOrder /\ ipi \subseteq receives

-----------------------------------------------------------------------------
(* Where the steps are in the two sequences.                               *)

\* The boot CPU's steps by number.
LEMMA BootAt ==
    ASSUME step \in [Cpu -> Nat]
    PROVE  /\ At(Boot, "csrs") <=> step[Boot] = 1
           /\ At(Boot, "imsic") <=> step[Boot] = 2
           /\ At(Boot, "percpu") <=> step[Boot] = 3
           /\ At(Boot, "tables") <=> step[Boot] = 4
           /\ At(Boot, "load") <=> step[Boot] = 5
           /\ At(Boot, "seal") <=> step[Boot] = 6
           /\ At(Boot, "secondaries") <=> step[Boot] = 7
           /\ At(Boot, "host") <=> step[Boot] = 8
           /\ At(Boot, "run") <=> step[Boot] = 9
           /\ ~At(Boot, "satp") /\ ~At(Boot, "online") /\ ~At(Boot, "umode") /\ ~At(Boot, "wait")
  BY HostRunAssumption DEF At, Steps, BootSteps

\* The other CPUs' steps by number.
LEMMA SecondaryAt ==
    ASSUME step \in [Cpu -> Nat], NEW c \in Cpu, c # Boot
    PROVE  /\ At(c, "csrs") <=> step[c] = 1
           /\ At(c, "satp") <=> step[c] = 2
           /\ At(c, "imsic") <=> step[c] = 3
           /\ At(c, "online") <=> step[c] = 4
           /\ At(c, "umode") <=> step[c] = 5
           /\ At(c, "wait") <=> step[c] = 6
           /\ At(c, "run") <=> step[c] = 7
           /\ ~At(c, "percpu") /\ ~At(c, "tables") /\ ~At(c, "load") /\ ~At(c, "seal") /\ ~At(c, "host")
           /\ ~At(c, "secondaries")
  BY HostRunAssumption DEF At, Steps, SecondarySteps

-----------------------------------------------------------------------------
\* The invariant holds when the boot CPU enters the hypervisor.
LEMMA InitIInv == Init => IInv
  <1> SUFFICES ASSUME Init PROVE IInv
    OBVIOUS
  <1>1. Types
    BY HostRunAssumption DEF Init, Types, Labels
  <1>2. BootOrder
    BY HostRunAssumption DEF Init, BootOrder
  <1>3. SecondaryOrder
    BY HostRunAssumption DEF Init, SecondaryOrder
  <1>4. HostOrder
    BY HostRunAssumption DEF Init, HostOrder
  <1> QED
    BY <1>1, <1>2, <1>3, <1>4 DEF IInv, Init

\* Only the boot invariants depend on the boot steps of one CPU.
LEMMA SetupStep ==
    ASSUME IInv, NEW c \in Cpu, Setup(c) PROVE IInv'
  <1> USE HostRunAssumption DEF IInv
  <1>1. PICK what \in {"csrs", "imsic", "percpu", "tables", "load", "seal", "satp", "online", "umode", "host"} :
            /\ At(c, what)
            /\ tables' = (tables \/ what = "tables")
            /\ sealed' = (sealed \/ what = "seal")
            /\ hostvm' = (hostvm \/ what = "host")
            /\ online' = IF what \in {"online", "percpu"} THEN online \cup {c} ELSE online
            /\ receives' = IF what = "imsic" THEN receives \cup {c} ELSE receives
    BY DEF Setup
  <1>2. /\ tables \/ what = "tables" => tables'
        /\ sealed \/ what = "seal" => sealed'
        /\ hostvm' <=> hostvm \/ what = "host"
    BY <1>1, Zenon
  <1>3. /\ receives \subseteq receives' /\ (what = "imsic" => c \in receives')
        /\ online' \subseteq online \cup {c} /\ online \subseteq online'
        /\ what = "online" => c \in online'
        /\ c \in online' => c \in online \/ what \in {"online", "percpu"}
    BY <1>1
  <1>4. /\ step' = [step EXCEPT ![c] = @ + 1]
        /\ UNCHANGED <<starting, pc, kick, ipi, status, entry, runs, starts>>
    BY DEF Setup, Done, hostvars
  <1>5. Types'
    BY <1>1, <1>4 DEF Types
  <1>6. HostOrder'
    <2>1. \A d \in Cpu : step[d] \in Nat /\ step'[d] \in Nat /\ step'[d] >= step[d]
      BY <1>4 DEF Types
    <2> QED
      BY <1>4, <2>1 DEF HostOrder
  <1>7. (ipi \subseteq receives)'
    BY <1>1, <1>4
  <1>8. CASE c = Boot
    <2>1. /\ step[Boot] # 7 /\ (what = "tables" <=> step[Boot] = 4) /\ (what = "seal" <=> step[Boot] = 6)
          /\ (what = "host" <=> step[Boot] = 8) /\ (what = "imsic" <=> step[Boot] = 2) /\ step[Boot] <= 8
      BY <1>1, <1>8, BootAt DEF Types
    <2>2. BootOrder'
      BY <1>2, <1>3, <1>4, <1>8, <2>1 DEF BootOrder, Types
    <2>3. SecondaryOrder'
      BY <1>2, <1>3, <1>4, <1>8, <2>1 DEF SecondaryOrder, BootOrder, Types
    <2> QED
      BY <1>5, <1>6, <1>7, <2>2, <2>3
  <1>9. CASE c # Boot
    <2>1. /\ (what = "imsic" <=> step[c] = 3) /\ (what = "online" <=> step[c] = 4) /\ what # "percpu"
          /\ step[c] >= 1 /\ step[c] <= 5 /\ what \notin {"tables", "seal", "host"}
      BY <1>1, <1>9, SecondaryAt DEF Types
    <2>2. BootOrder'
      BY <1>2, <1>3, <1>4, <1>9, <2>1 DEF BootOrder, Types
    <2>3. SecondaryOrder'
      BY <1>2, <1>3, <1>4, <1>9, <2>1 DEF SecondaryOrder, BootOrder, Types
    <2> QED
      BY <1>5, <1>6, <1>7, <2>2, <2>3
  <1> QED
    BY <1>8, <1>9

\* The start of a secondary CPU, its answer and the end of the loop over the CPUs preserve the invariant.
LEMMA StartStep ==
    ASSUME IInv, (\E c \in Cpu : StartSecondary(c)) \/ Started \/ AllStarted PROVE IInv'
  <1> USE HostRunAssumption DEF IInv
  <1>1. ASSUME NEW c \in Cpu, StartSecondary(c) PROVE IInv'
    <2>1. step[Boot] = 7
      BY <1>1, BootAt DEF StartSecondary, Types
    <2>2. Types' /\ BootOrder' /\ SecondaryOrder'
      BY <1>1, <2>1 DEF StartSecondary, Types, BootOrder, SecondaryOrder, hostvars
    <2>3. HostOrder'
      BY <1>1 DEF StartSecondary, HostOrder, Types, hostvars
    <2> QED
      BY <1>1, <2>2, <2>3 DEF StartSecondary, hostvars
  <1>2. CASE Started
    <2>1. Types' /\ BootOrder' /\ SecondaryOrder'
      BY <1>2 DEF Started, Types, BootOrder, SecondaryOrder, hostvars
    <2>2. HostOrder'
      BY <1>2 DEF Started, HostOrder, Types, hostvars
    <2> QED
      BY <1>2, <2>1, <2>2 DEF Started, hostvars
  <1>3. CASE AllStarted
    <2>1. step[Boot] = 7 /\ step' = [step EXCEPT ![Boot] = @ + 1]
      BY <1>3, BootAt DEF AllStarted, Types, Done
    <2>2. Types' /\ BootOrder'
      BY <1>3, <2>1 DEF AllStarted, Types, BootOrder, hostvars
    <2>3. SecondaryOrder'
      BY <1>3, <2>1 DEF AllStarted, Types, SecondaryOrder, hostvars
    <2>4. HostOrder'
      BY <1>3, <2>1 DEF AllStarted, HostOrder, Types, hostvars
    <2> QED
      BY <1>3, <2>2, <2>3, <2>4 DEF AllStarted, hostvars
  <1> QED
    BY <1>1, <1>2, <1>3

\* Waiting for the host VM and entering its loop preserve the invariant.
LEMMA EnterStep ==
    ASSUME IInv, NEW c \in Cpu, WaitHost(c) \/ EnterHost(c) PROVE IInv'
  <1> USE HostRunAssumption DEF IInv
  <1>1. step' = [step EXCEPT ![c] = @ + 1]
    BY DEF WaitHost, EnterHost, Done
  <1>2. /\ UNCHANGED <<starting, tables, sealed, hostvm, online, receives, kick, ipi, status, entry, runs, starts>>
        /\ Types'
    BY <1>1 DEF WaitHost, EnterHost, Types, hostvars, Labels
  <1>3. CASE c = Boot
    <2>1. EnterHost(c) /\ step[Boot] = 9
      BY <1>3, BootAt DEF WaitHost, EnterHost, Types
    <2>2. BootOrder' /\ SecondaryOrder'
      BY <1>1, <1>2, <1>3, <2>1 DEF BootOrder, SecondaryOrder, Types
    <2>3. HostOrder'
      BY <1>1, <1>2, <1>3, <2>1 DEF EnterHost, HostOrder, Types
    <2> QED
      BY <1>2, <2>2, <2>3
  <1>4. CASE c # Boot
    <2>1. \/ step[c] = 6 /\ hostvm /\ pc' = pc
          \/ step[c] = 7 /\ pc' = [pc EXCEPT ![c] = "check"]
      BY <1>4, SecondaryAt DEF WaitHost, EnterHost, Types, hostvars
    <2>2. BootOrder' /\ SecondaryOrder'
      BY <1>1, <1>2, <1>4, <2>1 DEF BootOrder, SecondaryOrder, Types
    <2>3. HostOrder'
      BY <1>1, <1>2, <1>4, <2>1 DEF HostOrder, Types
    <2> QED
      BY <1>2, <2>2, <2>3
  <1> QED
    BY <1>3, <1>4

\* The steps of CPUs that run the host VM leave the boot steps alone.
LEMMA BootKept ==
    ASSUME IInv, UNCHANGED bootvars PROVE BootOrder' /\ SecondaryOrder'
  BY DEF IInv, BootOrder, SecondaryOrder, bootvars

\* When a CPU runs the host VM every CPU takes interrupts.
LEMMA AllReceive ==
    ASSUME IInv, NEW c \in Cpu, pc[c] # "init", NEW t \in Cpu PROVE t \in receives
  <1> USE HostRunAssumption DEF IInv
  <1>1. step[Boot] > 7
    BY DEF HostOrder, SecondaryOrder, BootOrder, Types
  <1>2. CASE t = Boot
    BY <1>1, <1>2 DEF BootOrder, Types
  <1>3. CASE t # Boot
    <2>1. step[t] > 0 /\ starting # t
      BY <1>1, <1>3 DEF SecondaryOrder
    <2> QED
      BY <1>3, <2>1 DEF SecondaryOrder, Types
  <1> QED
    BY <1>2, <1>3

\* The steps of the host VM's loop and of the calls the host makes preserve the invariant.
LEMMA HostStep ==
    ASSUME IInv, NEW c \in Cpu,
           \/ Check(c) \/ WfiEnable(c) \/ WfiStall(c) \/ WfiDisable(c) \/ TakeIpi(c) \/ Activate(c) \/ SendIpi(c)
           \/ Resume(c) \/ IpiInGuest(c) \/ HartStop(c) \/ Reset(c) \/ HandledExit(c) \/ UnhandledExit(c)
           \/ \E t \in Cpu : HartStart(c, t)
    PROVE  IInv'
  <1> USE HostRunAssumption DEF IInv
  <1>1. UNCHANGED bootvars
    BY DEF Check, WfiEnable, WfiStall, WfiDisable, TakeIpi, Activate, SendIpi, Resume, IpiInGuest, HartStop, Reset,
           HandledExit, UnhandledExit, HartStart
  <1>2. BootOrder' /\ SecondaryOrder'
    BY <1>1, BootKept
  <1>3. UNCHANGED <<step, tables, sealed, hostvm, receives>>
    BY <1>1 DEF bootvars
  <1>4. CASE Check(c) \/ WfiEnable(c) \/ WfiStall(c) \/ WfiDisable(c) \/ TakeIpi(c)
    <2>1. PICK l \in Labels \ {"init", "guest", "kick", "resume"} : pc[c] # "init" /\ pc' = [pc EXCEPT ![c] = l]
      BY <1>4 DEF Check, WfiEnable, WfiStall, WfiDisable, TakeIpi, Goto, Labels
    <2>2. UNCHANGED <<kick, status, entry, runs, starts>> /\ ipi' \subseteq ipi
      BY <1>4 DEF Check, WfiEnable, WfiStall, WfiDisable, TakeIpi
    <2>3. Types'
      BY <1>3, <2>1, <2>2 DEF Types
    <2>4. HostOrder'
      BY <1>3, <2>1, <2>2 DEF Types, HostOrder
    <2> QED
      BY <1>2, <1>3, <2>2, <2>3, <2>4
  <1>5. CASE Activate(c) \/ Resume(c) \/ HandledExit(c)
    <2>1. Types'
      BY <1>3, <1>5 DEF Activate, Resume, HandledExit, Goto, Types, Labels
    <2>2. HostOrder'
      BY <1>3, <1>5 DEF Activate, Resume, HandledExit, Goto, Types, HostOrder
    <2> QED
      BY <1>2, <1>3, <1>5, <2>1, <2>2 DEF Activate, Resume, HandledExit
  <1>6. CASE SendIpi(c)
    <2>1. Types'
      BY <1>3, <1>6 DEF SendIpi, Goto, Types, Labels
    <2>2. HostOrder'
      BY <1>3, <1>6 DEF SendIpi, Goto, Types, HostOrder
    <2>3. kick[c] \in receives
      BY <1>6, AllReceive DEF SendIpi, HostOrder
    <2> QED
      BY <1>2, <1>3, <1>6, <2>1, <2>2, <2>3 DEF SendIpi
  <1>7. CASE HartStop(c)
    <2>1. Types'
      BY <1>3, <1>7 DEF HartStop, Goto, Types, Labels
    <2>2. HostOrder'
      BY <1>3, <1>7 DEF HartStop, Goto, Types, HostOrder
    <2> QED
      BY <1>2, <1>3, <1>7, <2>1, <2>2 DEF HartStop
  <1>8. CASE IpiInGuest(c) \/ Reset(c) \/ UnhandledExit(c)
    <2>1. UNCHANGED <<kick, pc, ipi, status, entry, runs, starts>>
      BY <1>8 DEF IpiInGuest, Reset, UnhandledExit
    <2> QED
      BY <1>2, <1>3, <2>1 DEF Types, HostOrder
  <1>9. ASSUME NEW t \in Cpu, HartStart(c, t) PROVE IInv'
    <2>1. starts' = starts + 1 /\ UNCHANGED <<ipi, runs>> /\ pc[c] = "guest"
      BY <1>9 DEF HartStart
    <2>2. CASE power_on(t)
      <3>1. /\ entry' = [entry EXCEPT ![t] = starts']
            /\ status' = [status EXCEPT ![t] = "runnable", ![c] = "runnable"]
            /\ kick' = [kick EXCEPT ![c] = t] /\ pc' = [pc EXCEPT ![c] = "kick"]
        BY <1>9, <2>2 DEF HartStart, Goto
      <3>2. Types'
        BY <1>3, <2>1, <3>1 DEF Types, Labels
      <3>3. status[t] = "off" /\ t # c
        BY <2>1, <2>2 DEF power_on, HostOrder
      <3>4. HostOrder'
        BY <1>3, <2>1, <3>1, <3>3 DEF Types, HostOrder
      <3> QED
        BY <1>2, <1>3, <2>1, <3>2, <3>4
    <2>3. CASE ~power_on(t)
      <3>1. UNCHANGED <<entry, status, kick, pc>>
        BY <1>9, <2>3 DEF HartStart
      <3> QED
        BY <1>2, <1>3, <2>1, <3>1 DEF Types, HostOrder
    <2> QED
      BY <2>2, <2>3
  <1> QED
    BY <1>4, <1>5, <1>6, <1>7, <1>8, <1>9

\* Every step preserves the invariant.
LEMMA NextIInv == IInv /\ [Next]_vars => IInv'
  <1> SUFFICES ASSUME IInv, [Next]_vars PROVE IInv'
    OBVIOUS
  <1>1. CASE UNCHANGED vars
    BY <1>1 DEF vars, bootvars, hostvars, IInv, Types, BootOrder, SecondaryOrder, HostOrder
  <1>2. CASE Coordinate
    BY <1>2, StartStep DEF Coordinate
  <1>3. ASSUME NEW c \in Cpu, Progress(c) PROVE IInv'
    BY <1>3, SetupStep, StartStep, EnterStep, HostStep DEF Progress
  <1>4. ASSUME NEW c \in Cpu,
               HartStop(c) \/ Reset(c) \/ HandledExit(c) \/ UnhandledExit(c) \/ \E t \in Cpu : HartStart(c, t)
        PROVE  IInv'
    BY <1>4, HostStep
  <1> QED
    BY <1>1, <1>2, <1>3, <1>4 DEF Next

-----------------------------------------------------------------------------
\* A secondary CPU finds its page table when it loads satp, and an IPI is only ever pending for a
\* CPU whose interrupt file is set up, for any number of CPUs (start_secondary_cpus, send_ipi).
THEOREM CpusAreSetUp == Spec => []SetUpInTime
  <1>1. IInv => SetUpInTime
    BY HostRunAssumption, SecondaryAt DEF IInv, SetUpInTime, SecondaryOrder, BootOrder, Types
  <1> QED
    BY <1>1, InitIInv, NextIInv, PTL DEF Spec

\* No vCPU of the host runs before the boot heap is sealed (kernel_init).
THEOREM HostEntersSealed == Spec => []SealedBeforeHost
  <1>1. IInv => SealedBeforeHost
    <2> SUFFICES ASSUME IInv, NEW c \in Cpu, pc[c] = "guest" PROVE sealed
      BY DEF SealedBeforeHost
    <2> QED
      BY HostRunAssumption DEF IInv, HostOrder, SecondaryOrder, BootOrder, Types
  <1> QED
    BY <1>1, InitIInv, NextIInv, PTL DEF Spec

\* A vCPU of the host runs from the entry point of the HartStart that started it, whatever other
\* CPUs ask for in the meantime (VmCpu::power_on).
THEOREM HostRunsWhereStarted == Spec => []RunsWhereStarted
  <1>1. IInv => RunsWhereStarted
    BY DEF IInv, HostOrder, RunsWhereStarted
  <1> QED
    BY <1>1, InitIInv, NextIInv, PTL DEF Spec
=============================================================================
