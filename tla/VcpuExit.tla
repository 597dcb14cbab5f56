------------------------------ MODULE VcpuExit ------------------------------
(***************************************************************************)
(* run_vcpu() and ActiveVmCpu::exit(): guest vCPUs execute instructions    *)
(* that trap; the hypervisor emulates them, injects an exception, or exits *)
(* to the virtual machine monitor in the host, which reads what happened   *)
(* from the shared memory of its own vCPU and leaves its answer there.     *)
(* The answer completes the instruction when the vCPU is next run, on      *)
(* whatever host vCPU that is.  Registers have RegBits bits; 8, 16 and 32  *)
(* bits of the source are 1, 2 and 4 eighths of that.                      *)
(***************************************************************************)
EXTENDS Integers

CONSTANTS
    Cpu,        \* the host's vCPUs
    Guest,      \* the guests' vCPUs
    NoGuest,    \* none of them
    RegBits,    \* bits of a register, a multiple of 8
    Val,        \* contents of registers the guest or the monitor may choose
    Op,         \* the device accesses the guest makes, a set of MmioOpcodes
    Addr,       \* guest physical addresses of devices
    MaxPc,      \* bound on the address of an instruction
    Nested      \* exceptions happen whatever the state of the interrupt enable bits

VcpuExitAssumption ==
    /\ RegBits \in {8 * n : n \in 1..2} /\ Val \subseteq 0..(2^RegBits - 1)
    /\ Addr \subseteq Nat /\ MaxPc \in Nat /\ Nested \in BOOLEAN /\ NoGuest \notin Guest

VARIABLES
    regs,       \* vCPU -> the registers in VmCpuArchState
    pending,    \* vCPU -> pending_op
    status,     \* vCPU -> VmCpuStatus
    active,     \* host vCPU -> the vCPU it runs
    pc,         \* host vCPU -> "host", "run", "vm", "exited"
    shmem,      \* host vCPU -> its shared memory area, and SCAUSE and STVAL
    answer,     \* vCPU -> what the monitor will put into A0 and A1 to resume it
    issued,     \* vCPU -> the device access it executed last
    emulated,   \* vCPU -> the device access the monitor performed for it
    native      \* vCPU -> the registers as if it ran without a hypervisor

vars == <<regs, pending, status, active, pc, shmem, answer, issued, emulated, native>>

-----------------------------------------------------------------------------
\* MmioOpcode.
Load == {"Load8", "Load16", "Load32", "Load8U", "Load16U", "Load32U", "Load64"}
Store == {"Store8", "Store16", "Store32", "Store64"}
Signed == {"Load8", "Load16", "Load32"}
Eighths(op) == CASE op \in {"Load8", "Load8U", "Store8"} -> 1
                 [] op \in {"Load16", "Load16U", "Store16"} -> 2
                 [] op \in {"Load32", "Load32U", "Store32"} -> 4
                 [] op \in {"Load64", "Store64"} -> 8
Bits(op) == (Eighths(op) * RegBits) \div 8

\* A value as it is stored, and as it is loaded into a register.
Truncate(op, v) == v % 2^Bits(op)
Extend(op, v) ==
    LET t == Truncate(op, v)
    IN IF op \in Signed /\ t >= 2^(Bits(op) - 1) THEN t + 2^RegBits - 2^Bits(op) ELSE t

\* The opcode and funct3 fields, and what the monitor makes of them.
LoadOpcode == 3
StoreOpcode == 35
Funct3 == [Load8 |-> 0, Load16 |-> 1, Load32 |-> 2, Load64 |-> 3, Load8U |-> 4, Load16U |-> 5,
           Load32U |-> 6, Store8 |-> 0, Store16 |-> 1, Store32 |-> 2, Store64 |-> 3]
A0 == 10
MatchInst(op) == Funct3[op] * 2^12 + (IF op \in Load THEN LoadOpcode ELSE StoreOpcode)

mmio_op_to_htinst(op) == MatchInst(op) + (IF op \in Load THEN A0 * 2^20 ELSE A0 * 2^7)

DecodeInst(inst) ==
    CHOOSE op \in Load \cup Store :
        /\ Funct3[op] = (inst \div 2^12) % 8
        /\ inst % 2^7 = IF op \in Load THEN LoadOpcode ELSE StoreOpcode

-----------------------------------------------------------------------------
NoOp == [kind |-> "none"]
NoAccess == [op |-> "none", addr |-> 0, val |-> 0]
NoAnswer == [given |-> FALSE, a0 |-> 0, a1 |-> 0]
Answer(a0, a1) == [given |-> TRUE, a0 |-> a0, a1 |-> a1]

\* A vCPU is entered with its interrupts off; STVEC is address 0.
BootRegs == [a0 |-> 0, a1 |-> 0, t0 |-> 0, pc |-> 0, sie |-> FALSE, spie |-> FALSE, epc |-> 0]

Init ==
    /\ regs = [g \in Guest |-> BootRegs] /\ native = regs
    /\ pending = [g \in Guest |-> NoOp]
    /\ status = [g \in Guest |-> "Runnable"]
    /\ active = [c \in Cpu |-> NoGuest]
    /\ pc = [c \in Cpu |-> "host"]
    /\ shmem = [c \in Cpu |-> [a0 |-> 0, a1 |-> 0, msg |-> "none", htval |-> 0, htinst |-> 0,
                               scause |-> "none", stval |-> 0]]
    /\ answer = [g \in Guest |-> NoAnswer]
    /\ issued = [g \in Guest |-> NoAccess] /\ emulated = [g \in Guest |-> NoAccess]

\* power_on(): entry point and A1 are given by the caller, A0 is the vCPU's ID, here 0.
power_on(g, a1) ==
    /\ status[g] = "PoweredOff"
    /\ regs' = [regs EXCEPT ![g].pc = 0, ![g].a0 = 0, ![g].a1 = a1]
    /\ native' = [native EXCEPT ![g].pc = 0, ![g].a0 = 0, ![g].a1 = a1]
    /\ status' = [status EXCEPT ![g] = "Runnable"]
    /\ UNCHANGED <<pending, active, pc, shmem, answer, issued, emulated>>

\* The monitor calls TvmCpuRun, with its answer to the vCPU's last exit in the shared memory.
activate(g) == status[g] = "Runnable"
TvmCpuRun(c, g) ==
    /\ pc[c] = "host"
    /\ shmem' = [shmem EXCEPT ![c].a0 = IF answer[g].given THEN answer[g].a0 ELSE @,
                              ![c].a1 = IF answer[g].given THEN answer[g].a1 ELSE @]
    /\ IF activate(g)
       THEN /\ status' = [status EXCEPT ![g] = "Running"]
            /\ active' = [active EXCEPT ![c] = g] /\ pc' = [pc EXCEPT ![c] = "run"]
            /\ answer' = [answer EXCEPT ![g] = NoAnswer]
       ELSE UNCHANGED <<status, active, pc, answer>>
    /\ UNCHANGED <<regs, pending, issued, emulated, native>>

\* set_ecall_result(): past the ECALL, with the result in A0 or A0 and A1.
set_ecall_result(r, msg, a0, a1) ==
    [r EXCEPT !.pc = @ + 4, !.a0 = a0, !.a1 = IF msg = "PutChar" THEN @ ELSE a1]

\* run(): complete_pending_op(), and into the guest.
complete_pending_op(r, p, s) ==
    CASE p.kind = "Mmio" -> [r EXCEPT !.t0 = IF p.op \in Load THEN Extend(p.op, s.a0) ELSE @,
                                      !.pc = @ + p.len]
      [] p.kind = "Ecall" -> set_ecall_result(r, p.msg, s.a0, s.a1)
      [] p.kind = "none" -> r

ForgetOp(g) == [pending EXCEPT ![g] = NoOp]

Run(c) ==
    LET g == active[c]
    IN /\ pc[c] = "run"
       /\ regs' = [regs EXCEPT ![g] = complete_pending_op(@, pending[g], shmem[c])]
       /\ shmem' = [shmem EXCEPT ![c].a0 = IF pending[g].kind = "Mmio" THEN 0 ELSE @]
       /\ pending' = ForgetOp(g)
       /\ pc' = [pc EXCEPT ![c] = "vm"]
       /\ UNCHANGED <<status, active, answer, issued, emulated, native>>

-----------------------------------------------------------------------------
\* exit(): what is reported to the host, and the vCPU's next status.
report_ecall_exit(s, r, m) ==
    [s EXCEPT !.a0 = r.a0, !.a1 = r.a1, !.msg = m, !.htval = 0, !.htinst = 0,
              !.scause = "VirtualSupervisorEnvCall", !.stval = 0]
report_pf_exit(s, exc, addr) ==
    [s EXCEPT !.htval = addr \div 4, !.stval = addr % 4, !.htinst = 0, !.scause = exc]
report_vi_exit(s) ==
    [s EXCEPT !.htval = 0, !.htinst = 0, !.scause = "VirtualInstruction", !.stval = 1]
report_unhandled_exit(s) ==
    [s EXCEPT !.htval = 0, !.htinst = 0, !.scause = "unhandled", !.stval = 0]

PageFaultOf(op) == IF op \in Load THEN "GuestLoadPageFault" ELSE "GuestStorePageFault"
MmioExit(s, r, op, addr) ==
    [report_pf_exit(s, PageFaultOf(op), addr) EXCEPT
        !.htinst = mmio_op_to_htinst(op),
        !.a0 = IF op \in Store THEN Truncate(op, r.t0) ELSE 0]

\* The vCPU on c leaves with s reported, registers r, operation p pending and status st.
Exit(c, s, r, p, st) ==
    LET g == active[c]
    IN /\ shmem' = [shmem EXCEPT ![c] = s]
       /\ regs' = [regs EXCEPT ![g] = r]
       /\ pending' = [pending EXCEPT ![g] = p]
       /\ status' = [status EXCEPT ![g] = st]
       /\ pc' = [pc EXCEPT ![c] = "exited"]
       /\ UNCHANGED <<active, answer>>

\* The hypervisor deals with the trap and runs the vCPU again, with registers r.
Again(c, r) ==
    /\ regs' = [regs EXCEPT ![active[c]] = r] /\ pc' = [pc EXCEPT ![c] = "run"]
    /\ UNCHANGED <<shmem, pending, status, active, answer>>

InVm(c) == pc[c] = "vm" /\ native[active[c]].pc < MaxPc
Native(c, r) == native' = [native EXCEPT ![active[c]] = r]

\* A load from or a store to a device.
MmioFault(c) ==
    LET g == active[c]
    IN /\ InVm(c)
       /\ \E op \in Op, a \in Addr, len \in {2, 4} :
            /\ Exit(c, MmioExit(shmem[c], regs[g], op, a), regs[g],
                    [kind |-> "Mmio", op |-> op, len |-> len], "Runnable")
            /\ issued' = [issued EXCEPT ![g] =
                            [op |-> op, addr |-> a,
                             val |-> IF op \in Store THEN Truncate(op, native[g].t0) ELSE 0]]
            /\ emulated' = [emulated EXCEPT ![g] = NoAccess]
       /\ UNCHANGED native

\* EcallAction::Forward, to be answered by the monitor.
ForwardedEcall(c) ==
    LET g == active[c]
    IN /\ InVm(c)
       /\ \E m \in {"PutChar", "PutString"} :
            Exit(c, report_ecall_exit(shmem[c], regs[g], m), regs[g],
                 [kind |-> "Ecall", msg |-> m], "Runnable")
       /\ UNCHANGED <<issued, emulated, native>>

\* EcallAction::Break: the result is in place before the monitor hears of the call.
\* A call that converts memory blocks the vCPU, a reset stops it.
BreakStatus == [Share |-> "Runnable", Unshare |-> "Blocked", Reset |-> "PoweredOff"]
BreakResult(r) == set_ecall_result(r, "Share", 0, 0)
BreakEcall(c) ==
    LET g == active[c]
    IN /\ InVm(c)
       /\ \E m \in DOMAIN BreakStatus :
            Exit(c, report_ecall_exit(shmem[c], regs[g], m), BreakResult(regs[g]), NoOp,
                 BreakStatus[m])
       /\ Native(c, set_ecall_result(native[g], "Share", 0, 0))
       /\ UNCHANGED <<issued, emulated>>

\* EcallAction::Continue: answered by the hypervisor.
ContinueEcall(c) ==
    LET g == active[c]
    IN /\ InVm(c)
       /\ \E a0, a1 \in Val :
            /\ Again(c, set_ecall_result(regs[g], "Base", a0, a1))
            /\ Native(c, set_ecall_result(native[g], "Base", a0, a1))
       /\ UNCHANGED <<issued, emulated>>

\* A page fault, of the vCPU or on behalf of its call (EcallAction::Retry): to be retried.
PageFault(c) ==
    LET g == active[c]
    IN /\ InVm(c)
       /\ \E op \in {"Load8", "Store8"}, a \in Addr :
            Exit(c, report_pf_exit(shmem[c], PageFaultOf(op), 4 * (a \div 4)), regs[g], NoOp,
                 "Runnable")
       /\ UNCHANGED <<issued, emulated, native>>

\* WFI: past the instruction, and out.
Wfi(c) ==
    LET g == active[c]
    IN /\ InVm(c)
       /\ Exit(c, report_vi_exit(shmem[c]), [regs[g] EXCEPT !.pc = @ + 4], NoOp, "Runnable")
       /\ Native(c, [native[g] EXCEPT !.pc = @ + 4])
       /\ UNCHANGED <<issued, emulated>>

\* An interrupt for the host: only SCAUSE is set.
HostInterrupt(c) ==
    /\ InVm(c)
    /\ Exit(c, [shmem[c] EXCEPT !.scause = "interrupt"], regs[active[c]], NoOp, "Runnable")
    /\ UNCHANGED <<issued, emulated, native>>

UnhandledTrap(c) ==
    /\ InVm(c)
    /\ Exit(c, report_unhandled_exit(shmem[c]), regs[active[c]], NoOp, "PoweredOff")
    /\ UNCHANGED <<issued, emulated, native>>

\* An instruction the hypervisor does not emulate, or a delegated exception.
InjectNoReturn(r) == [r EXCEPT !.spie = IF r.sie THEN TRUE ELSE @, !.sie = FALSE, !.pc = 0]
inject_exception(r) ==
    [r EXCEPT !.spie = IF r.sie THEN TRUE ELSE @, !.sie = FALSE, !.epc = r.pc, !.pc = 0]
TakeException(r) == [r EXCEPT !.spie = r.sie, !.sie = FALSE, !.epc = r.pc, !.pc = 0]

IllegalInstruction(c) ==
    LET g == active[c]
    IN /\ InVm(c)
       /\ Nested \/ regs[g].sie \/ ~regs[g].spie
       /\ Again(c, inject_exception(regs[g]))
       /\ Native(c, TakeException(native[g]))
       /\ UNCHANGED <<issued, emulated>>

\* The guest changes its interrupt enable bit, or returns from a trap.
Toggle(r) == [r EXCEPT !.sie = ~@, !.pc = @ + 4]
Sret(r) == [r EXCEPT !.sie = r.spie, !.spie = TRUE, !.pc = r.epc + 4]
Untrapped(c) ==
    LET g == active[c]
    IN /\ InVm(c)
       /\ \/ regs' = [regs EXCEPT ![g] = Toggle(@)] /\ native' = [native EXCEPT ![g] = Toggle(@)]
          \/ regs' = [regs EXCEPT ![g] = Sret(@)] /\ native' = [native EXCEPT ![g] = Sret(@)]
       /\ UNCHANGED <<pending, status, active, pc, shmem, answer, issued, emulated>>

-----------------------------------------------------------------------------
\* The monitor reads the exit, performs what the guest asked for, and notes its answer.
IsMmio(s) == s.scause \in {"GuestLoadPageFault", "GuestStorePageFault"} /\ s.htinst # 0
IsForwarded(s) == s.scause = "VirtualSupervisorEnvCall" /\ s.msg \in {"PutChar", "PutString"}

Monitor(c) ==
    LET g == active[c]  s == shmem[c]  op == DecodeInst(s.htinst)
    IN /\ pc[c] = "exited"
       /\ pc' = [pc EXCEPT ![c] = "host"] /\ active' = [active EXCEPT ![c] = NoGuest]
       /\ IF IsMmio(s)
          THEN \E v \in IF op \in Load THEN Val ELSE {0} :
                /\ emulated' = [emulated EXCEPT ![g] =
                                    [op |-> op, addr |-> s.htval * 4 + s.stval,
                                     val |-> IF op \in Store THEN s.a0 ELSE 0]]
                /\ answer' = [answer EXCEPT ![g] = Answer(v, 0)]
                /\ native' = [native EXCEPT
                                ![g].t0 = IF op \in Load THEN Extend(op, v) ELSE @,
                                ![g].pc = @ + pending[g].len]
          ELSE IF IsForwarded(s)
          THEN \E a0, a1 \in Val :
                /\ answer' = [answer EXCEPT ![g] = Answer(a0, a1)]
                /\ native' = [native EXCEPT ![g] = set_ecall_result(@, s.msg, a0, a1)]
                /\ UNCHANGED emulated
          ELSE UNCHANGED <<answer, native, emulated>>
       /\ UNCHANGED <<regs, pending, status, shmem, issued>>

\* The fence a blocked vCPU waits for is done.
Unblock(g) ==
    /\ status[g] = "Blocked" /\ status' = [status EXCEPT ![g] = "Runnable"]
    /\ UNCHANGED <<regs, pending, active, pc, shmem, answer, issued, emulated, native>>

\* The monitor resumes a vCPU when it has dealt with the vCPU's last exit.
Dealt(g) == \A c \in Cpu : pc[c] = "exited" => active[c] # g

Next ==
    \/ \E c \in Cpu : \/ Run(c) \/ MmioFault(c) \/ ForwardedEcall(c) \/ BreakEcall(c)
                      \/ ContinueEcall(c) \/ PageFault(c) \/ Wfi(c) \/ HostInterrupt(c)
                      \/ UnhandledTrap(c) \/ IllegalInstruction(c) \/ Untrapped(c) \/ Monitor(c)
                      \/ \E g \in Guest : Dealt(g) /\ TvmCpuRun(c, g)
    \/ \E g \in Guest : Dealt(g) /\ (Unblock(g) \/ \E v \in Val : power_on(g, v))

Spec == Init /\ [][Next]_vars

-----------------------------------------------------------------------------
Reg == 0..(2^RegBits - 1)
TypeOK ==
    /\ \A g \in Guest : /\ {regs[g].a0, regs[g].a1, regs[g].t0} \subseteq Reg
                        /\ {regs[g].sie, regs[g].spie} \subseteq BOOLEAN
                        /\ regs[g].pc \in Nat /\ regs[g].epc \in Nat
                        /\ pending[g].kind \in {"none", "Mmio", "Ecall"}
                        /\ status[g] \in {"PoweredOff", "Runnable", "Running", "Blocked"}
    /\ \A c \in Cpu : /\ pc[c] \in {"host", "run", "vm", "exited"}
                      /\ active[c] \in Guest \cup {NoGuest}
                      /\ {shmem[c].a0, shmem[c].a1} \subseteq Reg

\* A vCPU finds its registers as if its instructions, calls and device accesses had been
\* executed once each, in order, by the machine (run_vcpu, exit, complete_pending_op).
RunsAsIfNative == \A c \in Cpu : pc[c] = "vm" => regs[active[c]] = native[active[c]]

\* The monitor performs the very device access the guest issued: same kind and width, same
\* address, and the stored value cut to the width (exit, report_pf_exit, mmio_op_to_htinst).
EmulatesWhatWasIssued == \A g \in Guest : emulated[g] \in {NoAccess, issued[g]}

\* A vCPU runs on one host vCPU at a time, and only then is its status Running (activate).
RunsOnce ==
    \A g \in Guest : /\ \A c, d \in Cpu : active[c] = g /\ active[d] = g /\ pc[c] \in {"run", "vm"}
                                            /\ pc[d] \in {"run", "vm"} => c = d
                     /\ status[g] = "Running" <=> \E c \in Cpu : active[c] = g /\ pc[c] \in {"run", "vm"}

\* An operation waits for the monitor's answer exactly from the exit to the next run.
PendingUntilRun ==
    \A g \in Guest : answer[g].given => pending[g].kind # "none" /\ status[g] = "Runnable"

=============================================================================
