------------------------------ MODULE MCVcpus ------------------------------
(***************************************************************************)
(* What concerns vCPUs: their locks, the context they run in, their exits, *)
(* VMIDs and counters.  No property relates two of these parts, so one is  *)
(* chosen at the beginning and the others stay as they are.                *)
(***************************************************************************)
EXTENDS VcpuLocks, TLC
CONSTANTS Part, NoGuest

VARIABLES
    part,
    hw, hgeip, now, arch, top, stage, trap, mine,                               \* of VcpuContext
    regs, pending, state, runs, at, shmem, answer, issued, emulated, native,  \* of VcpuExit
    next, version, prevTlb, running, tracker, held, tlb,                        \* of VmId
    info, counter_state, counters, hcounteren, current, count, trapped                \* of VmPmu

-----------------------------------------------------------------------------
\* The registers of a host vCPU and a guest vCPU; and interrupts for the host, for the guest that
\* has the second interrupt file, and for one whose vCPU is elsewhere.
Ctx == INSTANCE VcpuContext WITH
    Guest <- {1}, NumGuests <- 1, Vgein <- 1, RegWidth <- 6, Tok <- {0, 1}, HasVector <- TRUE, Devices <- {},
    MaxTime <- 0, pc <- stage
Int == INSTANCE VcpuContext WITH
    Guest <- {2}, NumGuests <- 2, Vgein <- 1, RegWidth <- 6, Tok <- {0}, HasVector <- FALSE, Devices <- {1, 3},
    MaxTime <- 1, pc <- stage

\* One guest and device accesses of all widths; and guests that move between CPUs.
Exit == INSTANCE VcpuExit WITH
    Cpu <- {"c1"}, Guest <- {"g1"}, NoGuest <- NoGuest, RegBits <- 8, Val <- {154},
    Op <- {"Load8U", "Load16", "Load32", "Load64", "Store8", "Store16", "Store32"}, Addr <- {6}, MaxPc <- 4,
    Nested <- FALSE, status <- state, pc <- at, active <- runs
Pair == INSTANCE VcpuExit WITH
    NoGuest <- NoGuest, RegBits <- 8, Val <- {154}, Op <- {"Load16"}, Addr <- {6}, MaxPc <- 1,
    Nested <- FALSE, status <- state, pc <- at, active <- runs

\* One bit of VMIDs for two VMs: versions of VMIDs are used up.
Ids == INSTANCE VmId WITH
    Vcpu <- {"g1", "g2"}, Vm <- {"vm1", "vm2"}, VmOf <- [v \in {"g1", "g2"} |-> IF v = "g1" THEN "vm1" ELSE "vm2"],
    VmidBits <- 1, MaxVersion <- 2, MaxTlbVersion <- 1

\* Two implemented counters around a hole, then a firmware counter; and one counter before a hole,
\* with every index.
Pmu == INSTANCE VmPmu WITH
    Platform <- <<"implemented", "absent", "implemented", "firmware", "implemented">>, MAX_HARDWARE_COUNTERS <- 4,
    Bits <- 8, Word <- 256, Vcpu <- {"v1", "v2"}, IndexIn <- {0}, MaskIn <- {{0}, {2}, {0, 2}},
    FlagsIn <- {{"auto_start", "uinh"}, {"skip_match", "auto_start"}}, FirmwareFails <- {FALSE}, MaxCount <- 1,
    hw <- counters, active <- current
Switch == INSTANCE VmPmu WITH
    Platform <- <<"implemented", "absent">>, MAX_HARDWARE_COUNTERS <- 4,
    Bits <- 8, Word <- 256, Vcpu <- {"v1", "v2"}, IndexIn <- {0, 1, 2}, MaskIn <- {{0}, {1}, {0, 1}, {0, 2}},
    FlagsIn <- {{}, {"auto_start", "clear_value"}, {"auto_start", "uinh"}, {"skip_match", "auto_start"}},
    FirmwareFails <- {FALSE}, MaxCount <- 3, hw <- counters, active <- current

ASSUME /\ Ctx!VcpuContextAssumption /\ Int!VcpuContextAssumption
       /\ Exit!VcpuExitAssumption /\ Pair!VcpuExitAssumption /\ Ids!VmIdAssumption

-----------------------------------------------------------------------------
contextVars == <<hw, hgeip, now, arch, top, stage, trap, mine>>
exitVars == <<regs, pending, state, runs, at, shmem, answer, issued, emulated, native>>
idVars == <<next, version, prevTlb, running, tracker, held, tlb>>
pmuVars == <<info, counter_state, counters, hcounteren, current, count, trapped>>

Off == "off"
VcpusInit ==
    /\ part \in Part
    /\ Init /\ (part # "locks" => status = [v \in Vcpu |-> "Runnable"])
    /\ CASE part = "context" -> Ctx!Init
         [] part = "interrupts" -> Int!Init
         [] OTHER -> /\ hw = Off /\ hgeip = Off /\ now = Off /\ arch = Off /\ top = Off /\ stage = Off /\ trap = Off
                     /\ mine = Off
    /\ CASE part = "exit" -> Exit!Init
         [] part = "pair" -> Pair!Init
         [] OTHER -> /\ regs = Off /\ pending = Off /\ state = Off /\ runs = Off /\ at = Off /\ shmem = Off
                     /\ answer = Off /\ issued = Off /\ emulated = Off /\ native = Off
    /\ IF part = "vmid" THEN Ids!Init
       ELSE /\ next = Off /\ version = Off /\ prevTlb = Off /\ running = Off /\ tracker = Off /\ held = Off
            /\ tlb = Off
    /\ CASE part = "pmu" -> Pmu!Init
         [] part = "switch" -> Switch!Init
         [] OTHER -> /\ info = Off /\ counter_state = Off /\ counters = Off /\ hcounteren = Off /\ current = Off /\ count = Off
                     /\ trapped = Off

allVars == <<part, vars, contextVars, exitVars, idVars, pmuVars>>

\* Parts with a bounded number of operations come to an end.
Stop == part \in {"exit", "pair", "vmid", "pmu", "switch"} /\ UNCHANGED allVars
VcpusNext ==
    \/ /\ UNCHANGED part
       /\ IF part = "locks" THEN Next ELSE UNCHANGED vars
       /\ CASE part = "context" -> Ctx!Next [] part = "interrupts" -> Int!Next [] OTHER -> UNCHANGED contextVars
       /\ CASE part = "exit" -> Exit!Next [] part = "pair" -> Pair!Next [] OTHER -> UNCHANGED exitVars
       /\ IF part = "vmid" THEN Ids!Next ELSE UNCHANGED idVars
       /\ CASE part = "pmu" -> Pmu!Next [] part = "switch" -> Switch!Next [] OTHER -> UNCHANGED pmuVars
    \/ Stop

Vcpus == VcpusInit /\ [][VcpusNext]_allVars
CpusAndGuests == Permutations(Cpu) \cup Permutations(Guest)

-----------------------------------------------------------------------------
\* A vCPU that runs finds its VS-level, floating-point and vector registers as it left them
\* (save, restore and the dirty bits of run).  Interrupts respect who runs: one the host enabled
\* traps while a guest runs; a guest is stopped only for an interrupt that the host has enabled and
\* pending; none can trap the hypervisor itself (the clears after _run_guest); and what the host
\* reads from HGEIP and HIP says which of its guests' files are pending (virtual_csr_rmw).
ContextIsOwn ==
    /\ part = "context" => Ctx!OwnContext
    /\ part = "interrupts" => /\ Int!HostInterruptsTrap /\ Int!StoppedForHost
                              /\ Int!QuietInHypervisor /\ Int!HostSeesItsGuests

\* A vCPU finds its registers as if its instructions, calls and device accesses had been executed
\* once each, in order, by the machine (run_vcpu, exit, complete_pending_op), although others
\* perform them: the monitor sees the very access the guest issued (report_pf_exit,
\* mmio_op_to_htinst), the vCPU runs on one host vCPU at a time (activate), and an operation waits
\* for the monitor's answer exactly from the exit to the next run.
RunsAsIfNative ==
    /\ part = "exit" => Exit!RunsAsIfNative /\ Exit!EmulatesWhatWasIssued
    /\ part = "pair" => /\ Pair!RunsAsIfNative /\ Pair!EmulatesWhatWasIssued
                        /\ Pair!RunsOnce /\ Pair!PendingUntilRun

\* A vCPU only ever runs on translations of its own VM, cached at the TLB version it has entered
\* the address space with: none left by another VM that had the VMID, by the vCPU's own earlier
\* stay on this CPU, or from before a fence it has passed.  Two vCPUs never have the same VMID on
\* the same CPU since its last roll-over (next_vmid, PrevTlb).
TranslationsAreOwn == part = "vmid" => Ids!TranslationsAreOwnAndCurrent /\ Ids!VmidsAreDistinct

\* A started counter counts exactly the events of its own vCPU, across any number of switches to
\* other vCPUs that use the same counter, and a stopped one keeps what it had counted
\* (read_counter_csr, resume_counter); a counter of the hardware that is configured belongs to the
\* vCPU on the CPU; and a mask is cut to counters that exist (filter_counter_mask).
CountersAreOwn ==
    /\ part = "pmu" => Pmu!CountIsKept /\ Pmu!ConfiguredIsOwned
    /\ part = "switch" => Switch!CountIsKept /\ Switch!ConfiguredIsOwned /\ Switch!CountersInBounds
=============================================================================
