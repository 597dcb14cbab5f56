----------------------------- MODULE VcpuContext -----------------------------
(***************************************************************************)
(* ActiveVmCpu on one physical CPU: the host's vCPU, pinned to this CPU,   *)
(* runs guest vCPUs; the VS-level CSRs, the floating-point and vector      *)
(* registers, HGEIE, HIE, HVICTL and the HS-level timer are switched       *)
(* between them, the host's H-extension CSRs are emulated, and interrupts  *)
(* for the host trap while a guest runs.  Registers are sets of bits.      *)
(***************************************************************************)
EXTENDS Integers

CONSTANTS
    Guest,      \* guest vCPUs, by the number of their interrupt file after the host's
    NumGuests,  \* guest interrupt files per hart, at most 7 (drivers::imsic)
    Vgein,      \* the host's interrupt file
    RegWidth,   \* bits of HGEIE and HGEIP (64)
    Tok,        \* contents of the registers that are only saved and restored
    HasVector,  \* the CPU has the vector extension
    Devices,    \* interrupt files that receive interrupts
    MaxTime     \* bound on time

VcpuContextAssumption ==
    /\ NumGuests \in Nat /\ Vgein \in Nat \ {0} /\ MaxTime \in Nat
    /\ Guest \subseteq 1..NumGuests
    /\ RegWidth \in Nat /\ Vgein + NumGuests + 1 < RegWidth
    /\ Tok # {} /\ HasVector \in BOOLEAN
    /\ Devices \subseteq Vgein..(Vgein + NumGuests)

VARIABLES
    hw,     \* the CPU's registers
    hgeip,  \* interrupt files with a pending interrupt
    now,    \* time
    arch,   \* vCPU -> VmCpuArchState
    top,    \* the active vCPU
    pc,     \* "vm": V=1; "handle": in run_vcpu() after a trap; "run": before run()
    trap,   \* the trap to handle
    mine    \* vCPU -> the contents it last gave its own registers

vars == <<hw, hgeip, now, arch, top, pc, trap, mine>>

Host == 0
Vcpu == {Host} \cup Guest
Lazy == IF HasVector THEN {"fp", "vec"} ELSE {"fp"}
Bit == 0..(RegWidth - 1)

\* GuestVsCsrs: SIE.STIMER, SIE.SEXT, STIMECMP, and as one the rest but for SCAUSE and
\* STVAL, in which exit() reports to the host.
VsCsrs == [tok : Tok, stimer : BOOLEAN, sext : BOOLEAN, timecmp : 0..(MaxTime + 1)]
NoVs == [tok |-> CHOOSE t \in Tok : TRUE, stimer |-> FALSE, sext |-> FALSE,
         timecmp |-> MaxTime + 1]
NoLazy == [r \in Lazy |-> CHOOSE t \in Tok : TRUE]

ShiftLeft(bits, n) == {b + n : b \in bits} \cap Bit
ShiftRight(bits, n) == {b - n : b \in bits} \cap Bit

\* The interrupt files of a vCPU's guests, as it numbers them.
ValidGuests == 1..NumGuests
FileOf(v) == Vgein + v

\* A CSR instruction: read-modify-write of register csr with value and mask.
decode_csr_instruction(bits, all) ==
    {[value |-> r, mask |-> all] : r \in bits}
        \cup {[value |-> all, mask |-> r] : r \in bits}
        \cup {[value |-> {}, mask |-> r] : r \in bits}
Rmw(prev, valid, i) == (prev \ i.mask) \cup (valid \cap i.mask \cap i.value)

HieBits == {"sgext", "unused"}
HieValid == {"sgext"}

\* The request a trap makes of the hypervisor; what it writes is read when it is handled.
NoTrap == [op |-> "none"]
HieWrites == decode_csr_instruction(SUBSET HieBits, HieBits)
HgeieWrites == decode_csr_instruction(SUBSET (0..(NumGuests + 1)), 0..(NumGuests + 1))
SieWrites == [timer : BOOLEAN, ext : BOOLEAN, cmp : 0..MaxTime]

Init ==
    /\ hw = [vs |-> NoVs, lazy |-> NoLazy, hgeie |-> {}, sie |-> FALSE, hie |-> FALSE,
             hvictl |-> FALSE, stimecmp |-> MaxTime + 1]
    /\ hgeip = {} /\ now = 0
    /\ arch = [v \in Vcpu |-> [vs |-> NoVs, lazy |-> NoLazy, dirty |-> {}, hie |-> {},
                               hgeie |-> {}]]
    /\ top = Host /\ pc = "run" /\ trap = NoTrap
    /\ mine = [v \in Vcpu |-> [vs |-> NoVs, lazy |-> NoLazy]]

-----------------------------------------------------------------------------
\* What the hardware takes a trap on while a VM runs.
sgext_pending == hgeip \cap hw.hgeie # {}
TimerTrap == hw.sie /\ now >= hw.stimecmp
SgextTrap == hw.hie /\ sgext_pending

\* run() up to the entry: arm the traps for the host's interrupts, or inject SG_EXT.
ArmForHost(v) ==
    IF v # Host
    THEN [hw EXCEPT !.sie = @ \/ arch[Host].vs.stimer,
                    !.hie = @ \/ "sgext" \in arch[Host].hie \/ arch[Host].vs.sext]
    ELSE IF "sgext" \notin arch[Host].hie THEN hw
    ELSE IF sgext_pending THEN [hw EXCEPT !.hvictl = TRUE]
    ELSE [hw EXCEPT !.hie = TRUE]

Run ==
    /\ pc = "run"
    /\ hw' = [ArmForHost(top) EXCEPT !.lazy = arch[top].lazy]
    /\ pc' = "vm" /\ trap' = NoTrap
    /\ UNCHANGED <<hgeip, now, arch, top, mine>>

\* run() from the trap on: disarm, and save the registers that are dirty.
SaveFpOnly(v) ==
    [arch EXCEPT ![v].lazy = [@ EXCEPT !["fp"] = IF "fp" \in arch[v].dirty THEN hw.lazy["fp"]
                                                 ELSE @],
                 ![v].dirty = {}]
SaveLazy(v) ==
    [arch EXCEPT ![v].lazy = [r \in Lazy |-> IF r \in arch[v].dirty THEN hw.lazy[r] ELSE @[r]],
                 ![v].dirty = {}]
Disarm == [hw EXCEPT !.sie = FALSE, !.hie = FALSE, !.hvictl = FALSE]
Trap(t) ==
    /\ hw' = Disarm
    /\ arch' = SaveLazy(top)
    /\ pc' = "handle" /\ trap' = t
    /\ UNCHANGED <<hgeip, now, top, mine>>

TakeTimer == pc = "vm" /\ TimerTrap /\ Trap([op |-> "timer"])

\* SG_EXT: for the host's own interrupt file if that is pending and enabled.
SgextCause ==
    IF top = Host THEN "emulate"
    ELSE IF arch[Host].vs.sext /\ Vgein \in hgeip THEN "ext" ELSE "sgext"
TakeSgext == pc = "vm" /\ SgextTrap /\ Trap([op |-> SgextCause])

\* A guest makes an SBI call handled at once, or one that goes to the host.
GuestTrap ==
    /\ pc = "vm" /\ top # Host
    /\ \E o \in {"ecall", "exit"} : Trap([op |-> o])

\* The host writes an emulated CSR, or calls TvmCpuRun.
HostTrap ==
    /\ pc = "vm" /\ top = Host
    /\ \/ \E o \in {"hie", "hgeie"} : Trap([op |-> o])
       \/ \E g \in Guest : Trap([op |-> "run", g |-> g])
       \/ hw.hvictl /\ Trap([op |-> "vs"])

-----------------------------------------------------------------------------
\* The running vCPU writes registers without trapping.
WriteToken ==
    /\ pc = "vm"
    /\ \E t \in Tok \ {hw.vs.tok} :
        /\ hw' = [hw EXCEPT !.vs.tok = t]
        /\ mine' = [mine EXCEPT ![top].vs.tok = t]
    /\ UNCHANGED <<hgeip, now, arch, top, pc, trap>>

WriteLazy ==
    /\ pc = "vm"
    /\ \E r \in Lazy : \E t \in Tok \ {hw.lazy[r]} :
        /\ hw' = [hw EXCEPT !.lazy[r] = t]
        /\ mine' = [mine EXCEPT ![top].lazy[r] = t]
        /\ arch' = [arch EXCEPT ![top].dirty = @ \cup {r}]
    /\ UNCHANGED <<hgeip, now, top, pc, trap>>

SetSie(vs, w) == [vs EXCEPT !.stimer = w.timer, !.sext = w.ext, !.timecmp = w.cmp]

WriteSie ==
    /\ pc = "vm" /\ top = Host /\ ~hw.hvictl
    /\ \E w \in SieWrites : hw' = [hw EXCEPT !.vs = SetSie(@, w)]
    /\ mine' = [mine EXCEPT ![top].vs = hw'.vs]
    /\ UNCHANGED <<hgeip, now, arch, top, pc, trap>>

\* An interrupt arrives in a file, or the vCPU bound to it claims it; time passes.
Arrive == /\ \E f \in Devices \ hgeip : hgeip' = hgeip \cup {f}
          /\ UNCHANGED <<hw, now, arch, top, pc, trap, mine>>
Claim == /\ pc = "vm" /\ FileOf(top) \in hgeip /\ hgeip' = hgeip \ {FileOf(top)}
         /\ UNCHANGED <<hw, now, arch, top, pc, trap, mine>>
Tick == /\ now < MaxTime /\ now' = now + 1
        /\ UNCHANGED <<hw, hgeip, arch, top, pc, trap, mine>>

-----------------------------------------------------------------------------
\* virtual_csr_rmw() for the host.
HostHgeie(vhgeie) == ShiftRight(ShiftLeft(vhgeie, Vgein + 1), 1)
EmulatedHgeip == ShiftLeft(ShiftRight(hgeip, Vgein + 1), 1) \cap ValidGuests
EmulatedHip == IF sgext_pending THEN {"sgext"} ELSE {}

virtual_csr_rmw ==
    CASE trap.op = "hie" ->
            /\ \E i \in HieWrites : arch' = [arch EXCEPT ![Host].hie = Rmw(@, HieValid, i)]
            /\ UNCHANGED <<hw, mine>>
      [] trap.op = "hgeie" ->
            \E vhgeie \in {Rmw(arch[Host].hgeie, ValidGuests, i) : i \in HgeieWrites} :
               /\ arch' = [arch EXCEPT ![Host].hgeie = vhgeie]
               /\ hw' = [hw EXCEPT !.hgeie = HostHgeie(vhgeie)]
               /\ UNCHANGED mine
      [] trap.op = "vs" ->
            /\ \E w \in SieWrites : hw' = [hw EXCEPT !.vs = SetSie(@, w)]
            /\ mine' = [mine EXCEPT ![Host].vs = hw'.vs]
            /\ UNCHANGED arch

HandleCsr ==
    /\ pc = "handle" /\ top = Host /\ trap.op \in {"hie", "hgeie", "vs"}
    /\ virtual_csr_rmw
    /\ pc' = "run" /\ trap' = NoTrap
    /\ UNCHANGED <<hgeip, now, top>>

\* save() of the active vCPU's VS-level CSRs, and restore() of those of v.
save_vs_csrs == [arch EXCEPT ![top].vs = hw.vs]
restore_vs_csrs(a, v) == [hw EXCEPT !.vs = a[v].vs]

restore(a, v) ==
    LET h == restore_vs_csrs(a, v)
    IN IF v # Host
       THEN [h EXCEPT !.stimecmp = a[Host].vs.timecmp,
                      !.hgeie = IF a[Host].vs.sext THEN @ \cup {Vgein} ELSE @]
       ELSE [h EXCEPT !.hgeie = @ \ {Vgein}]
\* activate(): the host's state is saved, the guest's restored.
restore_from(g) ==
    /\ arch' = save_vs_csrs
    /\ hw' = restore(arch', g)
    /\ top' = g

HandleRun ==
    /\ pc = "handle" /\ trap.op = "run"
    /\ restore_from(trap.g)
    /\ pc' = "run" /\ trap' = NoTrap
    /\ UNCHANGED <<hgeip, now, mine>>

\* The trap was dealt with by the hypervisor, or is an SG_EXT to emulate: run again.
HandleAgain ==
    /\ pc = "handle" /\ trap.op \in {"ecall", "emulate"}
    /\ pc' = "run" /\ trap' = NoTrap
    /\ UNCHANGED <<hw, hgeip, now, arch, top, mine>>

\* exit() and the drop of the guest's ActiveVmCpu.
HandleExit ==
    /\ pc = "handle" /\ trap.op \in {"exit", "timer", "ext", "sgext"}
    /\ arch' = save_vs_csrs
    /\ hw' = restore(arch', Host)
    /\ top' = Host /\ pc' = "run" /\ trap' = NoTrap
    /\ UNCHANGED <<hgeip, now, mine>>

Hypervisor == Run \/ HandleCsr \/ HandleRun \/ HandleAgain \/ HandleExit
Interrupt == TakeTimer \/ TakeSgext
Next == Hypervisor \/ Interrupt \/ GuestTrap \/ HostTrap \/ WriteToken \/ WriteLazy
        \/ WriteSie \/ Arrive \/ Claim \/ Tick

Spec == Init /\ [][Next]_vars

\* The hypervisor's code runs on, and the CPU takes the interrupts that are enabled.
FairSpec == Spec /\ WF_vars(Hypervisor) /\ SF_vars(TakeTimer) /\ SF_vars(TakeSgext)

-----------------------------------------------------------------------------
TypeOK ==
    /\ hw \in [vs : VsCsrs, lazy : [Lazy -> Tok], hgeie : SUBSET Bit, sie : BOOLEAN,
               hie : BOOLEAN, hvictl : BOOLEAN, stimecmp : 0..(MaxTime + 1)]
    /\ hgeip \subseteq Devices /\ now \in 0..MaxTime
    /\ arch \in [Vcpu -> [vs : VsCsrs, lazy : [Lazy -> Tok], dirty : SUBSET Lazy,
                          hie : SUBSET HieValid, hgeie : SUBSET ValidGuests]]
    /\ top \in Vcpu /\ pc \in {"vm", "handle", "run"}
    /\ mine \in [Vcpu -> [vs : VsCsrs, lazy : [Lazy -> Tok]]]

\* A vCPU that runs finds its VS-level, floating-point and vector registers as it left them
\* (save, restore and the dirty bits of run).
OwnContext == pc = "vm" => hw.vs = mine[top].vs /\ hw.lazy = mine[top].lazy

\* The host's timer interrupt, external interrupt or guest external interrupt is due.
TimerDue == mine[Host].vs.stimer /\ now >= mine[Host].vs.timecmp
ExtDue == mine[Host].vs.sext /\ Vgein \in hgeip
SgextDue == "sgext" \in arch[Host].hie /\ \E g \in arch[Host].hgeie : FileOf(g) \in hgeip

\* An interrupt the host enabled traps while one of its guests runs (run, restore).
HostInterruptsTrap ==
    pc = "vm" /\ top # Host =>
        (TimerDue => TimerTrap) /\ (ExtDue => SgextTrap) /\ (SgextDue => SgextTrap)

\* A guest is stopped for a timer or external interrupt only if the host has it enabled and
\* pending, and for a guest external interrupt only if it is pending in a file of HGEIE (run).
StoppedForHost ==
    pc = "handle" =>
        /\ trap.op = "timer" => TimerDue
        /\ trap.op = "ext" => ExtDue
        /\ trap.op = "sgext" => \E g \in arch[Host].hgeie : FileOf(g) \in hgeip

\* No interrupt for a VM can trap the hypervisor itself (the clears after _run_guest).
QuietInHypervisor == pc # "vm" => ~hw.sie /\ ~hw.hie /\ ~hw.hvictl

\* HGEIE holds the files the host asked for, and its own while a guest runs and it has
\* external interrupts enabled; what the host reads from HGEIP and HIP says which of its
\* guests' files are pending (virtual_csr_rmw, restore).
HostSeesItsGuests ==
    /\ hw.hgeie = {FileOf(g) : g \in arch[Host].hgeie}
                    \cup {f \in {Vgein} : top # Host /\ mine[Host].vs.sext}
    /\ EmulatedHgeip = {g \in ValidGuests : FileOf(g) \in hgeip}
    /\ top = Host => (EmulatedHip # {} <=> \E g \in arch[Host].hgeie : FileOf(g) \in hgeip)

\* A timer or external interrupt of the host takes the CPU back from its guest.
HostIsInterrupted == (TimerDue \/ ExtDue) ~> (top = Host \/ ~(TimerDue \/ ExtDue))

\* A guest external interrupt the host enabled is injected into it.
SgextInjected == SgextDue ~> ((pc = "vm" /\ top = Host /\ hw.hvictl) \/ ~SgextDue)

=============================================================================
