----------------------------- MODULE MCProgress -----------------------------
(***************************************************************************)
(* What must eventually happen: the start of the CPUs, the end of calls    *)
(* that take vCPU locks and of commands to the IOMMU, and the host's       *)
(* interrupts while its guests run.  One of them is chosen at the          *)
(* beginning and the others stay as they are.                              *)
(***************************************************************************)
EXTENDS Integers
CONSTANTS Part, NoVm, None

VARIABLES
    part,
    step, pc, starting, tables, sealed, hostvm, online, receives, kick, ipi, status, entry, runs, starts, down, \* of HostRun
    vstatus, statusLock, archLock, bind, hostOn, guest, lpc, op, ops,                                       \* of VcpuLocks
    gscids, dc, owner, context, dropped, cpu, cq, ring, cqh, cqt, inflight, ddtcache, iotlb, ptVersion,
    fenced, panicked,                                                                                       \* of Iommu
    hw, hgeip, now, arch, top, stage, trap, mine                                                            \* of VcpuContext

Start == INSTANCE HostRun WITH Cpu <- {"c0", "c1"}, Boot <- "c0", MaxStarts <- 2
Locks == INSTANCE VcpuLocks WITH
    Cpu <- {"c1", "c2"}, Guest <- {"g1"}, Imsic <- {"c1", "c2", "g1"}, MaxOps <- 4, status <- vstatus, pc <- lpc
Iommu == INSTANCE Iommu WITH
    Cpu <- {"c1", "c2"}, Vm <- {"v1"}, Device <- {"d1", "d2"}, MAX_GSCIDS <- 1, Capacity <- 4, MaxVersion <- 1,
    OneContext <- TRUE, version <- ptVersion
Interrupts == INSTANCE VcpuContext WITH
    Guest <- {1}, NumGuests <- 1, Vgein <- 1, RegWidth <- 4, Tok <- {0}, HasVector <- FALSE, Devices <- {1, 2},
    MaxTime <- 1, pc <- stage

startVars == <<step, pc, starting, tables, sealed, hostvm, online, receives, kick, ipi, status, entry, runs, starts, down>>
lockVars == <<vstatus, statusLock, archLock, bind, hostOn, guest, lpc, op, ops>>
iommuVars == <<gscids, dc, owner, context, dropped, cpu, cq, ring, cqh, cqt, inflight, ddtcache, iotlb, ptVersion, fenced, panicked>>
contextVars == <<hw, hgeip, now, arch, top, stage, trap, mine>>
allVars == <<part, startVars, lockVars, iommuVars, contextVars>>

-----------------------------------------------------------------------------
ProgressInit ==
    /\ part \in Part
    /\ Start!Init /\ Iommu!Init /\ Interrupts!Init
    /\ Locks!Init /\ (part # "locks" => \A v \in DOMAIN vstatus : vstatus[v] = "Runnable")

Stop == part # "interrupts" /\ UNCHANGED allVars
ProgressNext ==
    \/ /\ UNCHANGED part
       /\ IF part = "start" THEN Start!Next ELSE UNCHANGED startVars
       /\ IF part = "locks" THEN Locks!Next ELSE UNCHANGED lockVars
       /\ IF part = "iommu" THEN Iommu!Next ELSE UNCHANGED iommuVars
       /\ IF part = "interrupts" THEN Interrupts!Next ELSE UNCHANGED contextVars
    \/ Stop

\* The fairness of each part, see its module.
ProgressFairness ==
    /\ WF_startVars(part = "start" /\ Start!Coordinate)
    /\ \A c \in {"c0", "c1"} : WF_startVars(part = "start" /\ Start!Progress(c))
    /\ \A c \in {"c1", "c2"} : WF_lockVars(part = "locks" /\ Locks!Steps(c))
    /\ \A c \in {"c1", "c2"} : SF_iommuVars(part = "iommu" /\ Iommu!Continue(c))
    /\ WF_iommuVars(part = "iommu" /\ Iommu!Fetch) /\ WF_iommuVars(part = "iommu" /\ Iommu!Complete)
    /\ WF_contextVars(part = "interrupts" /\ Interrupts!Hypervisor)
    /\ SF_contextVars(part = "interrupts" /\ Interrupts!TakeTimer)
    /\ SF_contextVars(part = "interrupts" /\ Interrupts!TakeSgext)
ProgressSpec == ProgressInit /\ [][ProgressNext]_allVars /\ ProgressFairness

-----------------------------------------------------------------------------
\* What is begun comes to an end: every CPU comes up and enters the host VM's loop; every call that
\* takes the locks of vCPUs returns, and so does every fence and every detach of a device; a timer
\* or external interrupt of the host takes the CPU back from its guest, and a guest external
\* interrupt that the host enabled is injected into it.
EverythingEnds ==
    /\ part = "start" => Start!EveryCpuEnters
    /\ Locks!CallsEnd
    /\ Iommu!Returns
    /\ Interrupts!HostIsInterrupted /\ Interrupts!SgextInjected
=============================================================================
