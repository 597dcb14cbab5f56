-------------------------------- MODULE Umode --------------------------------
(***************************************************************************)
(* The U-mode task of every CPU (src/umode.rs, u-mode, libuser,            *)
(* u-mode-api), the two slots of the CPU's page table through which it     *)
(* reaches pages of a guest (src/hyp_map.rs, FirstStagePageTable), and the *)
(* call that makes it copy guest memory (guest_test_memcopy in src/vm.rs,  *)
(* map_in_umode_slot in src/vm_pages.rs).                                  *)
(*                                                                         *)
(* pc of a CPU, in the hypervisor unless it is "umode":                    *)
(*   "idle"  "mapB" "request"  between calls; slot A is mapped; both are   *)
(*   "umode"                   U-mode runs                                 *)
(*   "ecall"                   it trapped with an environment call         *)
(*   "failed"                  it trapped otherwise or called panic        *)
(*   "dropB" "dropA"           the mappings are dropped, in this order     *)
(*   "dead"                    the hypervisor panicked                     *)
(***************************************************************************)
EXTENDS Integers, FiniteSets

CONSTANTS
    Cpu,
    PageBytes,  \* bytes of a page, 4096 in the code
    NumPages,   \* pages of the guest's memory
    SlotPages,  \* pages of a slot, 1024 in the code
    MaxLen,     \* bound on the length of a copy
    StrayCalls  \* U-mode may make a call the hypervisor does not know

UmodeAssumption ==
    /\ PageBytes \in Nat \ {0} /\ NumPages \in Nat \ {0} /\ SlotPages \in Nat \ {0}
    /\ MaxLen \in Nat /\ StrayCalls \in BOOLEAN

VARIABLES
    pc, purpose,    \* what the CPU does, and why it runs U-mode: "setup", "boot" or "copy"
    recovering,     \* send_req has seen an error and resets the task
    args,           \* to, from and len of guest_test_memcopy
    slot,           \* the PTEs of slots A and B
    mapped,         \* the pages its GuestUmodeMapping of each slot counts, or NoMapping
    regs,           \* the saved registers a0..a7 of U-mode
    upc, ureq,      \* where U-mode is in task_main, and the request it works on
    dirty,          \* U-mode's private memory is not what its main loop needs
    serial, serving,\* number of the request (mod 2), and of the one ureq came from
    result,         \* what the last send_req returned
    present,        \* guest pages that are mapped in the guest
    shares          \* the reference count of each shared page, 0 for not shared

vars == <<pc, purpose, recovering, args, slot, mapped, regs, upc, ureq, dirty, serial, serving, result,
          present, shares>>

Slot == {"A", "B"}
GuestPage == 0..(NumPages - 1)
GuestAddr == 0..(NumPages * PageBytes - 1)
NoMapping == -1
\* The arguments of no call, on a CPU that has made its request at boot.
NoArgs == [to |-> 0, from |-> 0, len |-> 0, booted |-> TRUE]
Unused == [type |-> "Unused", page |-> 0, writable |-> FALSE]
Locked == [type |-> "Locked", page |-> 0, writable |-> FALSE]
Leaf(p, w) == [type |-> "Leaf", page |-> p, writable |-> w]

-----------------------------------------------------------------------------
(* Values passed in registers.                                             *)

OpCode == [Nop |-> 1, Hello |-> 2, MemCopy |-> 3]
ErrorCode == [Failed |-> 1, InvalidArgument |-> 2, EcallNotSupported |-> 3, RequestNotSupported |-> 4]
NoAddr == 0
Request(op, in, out, len) == [op |-> op, in_addr |-> in, in_len |-> len, out_addr |-> out, out_len |-> len]
nop == Request("Nop", NoAddr, NoAddr, 0)
NoRequest == nop
ZeroRegs == [i \in 0..7 |-> 0]
WithRegs(r, f) == [i \in 0..7 |-> IF i \in DOMAIN f THEN f[i] ELSE r[i]]

\* TryIntoRegisters for UmodeRequest; a register of 0 stands for no address.
RequestToRegisters(q, r) ==
    WithRegs(r, [i \in 0..4 |-> CASE i = 0 -> OpCode[q.op] [] i = 1 -> q.in_addr [] i = 2 -> q.in_len
                                  [] i = 3 -> q.out_addr [] i = 4 -> q.out_len])
KnownOp(r) == \E op \in DOMAIN OpCode : OpCode[op] = r[0]
RequestFromRegisters(r) ==
    [op |-> CHOOSE op \in DOMAIN OpCode : OpCode[op] = r[0],
     in_addr |-> r[1], in_len |-> r[2], out_addr |-> r[3], out_len |-> r[4]]

\* IntoRegisters for Result: 0 is success, an unknown code a generic failure.
ResultToRegisters(res) == IF res = "Ok" THEN 0 ELSE ErrorCode[res]
ResultFromRegisters(code) ==
    IF code = 0 THEN "Ok"
    ELSE IF \E err \in DOMAIN ErrorCode : ErrorCode[err] = code
         THEN CHOOSE err \in DOMAIN ErrorCode : ErrorCode[err] = code ELSE "Failed"

\* HypCall: the function is in a7.
HYPC_PANIC == 0
HYPC_PUTCHAR == 1
HYPC_NEXTOP == 2
HypCallRegs(call, a0) == [ZeroRegs EXCEPT ![0] = a0, ![7] = call]

-----------------------------------------------------------------------------
(* Addresses.                                                              *)

num_4k_pages(bytes) == (bytes + PageBytes - 1) \div PageBytes
round_down(a) == (a \div PageBytes) * PageBytes
\* umode_slot_va(): slot B follows slot A.
umode_slot_va(s) == 100 * PageBytes + (IF s = "A" THEN 0 ELSE SlotPages * PageBytes)

\* map_guest_range_in_umode_slot(): the pages from the one that holds addr.
RangeOf(addr, len) ==
    [base |-> round_down(addr), count |-> num_4k_pages(addr + len - round_down(addr))]
Pages(r) == (r.base \div PageBytes)..(r.base \div PageBytes + r.count - 1)

\* memcopy(): the two ranges may not overlap.
MaxOf(a, b) == IF a >= b THEN a ELSE b
MinOf(a, b) == IF a <= b THEN a ELSE b
overlap(out, in, len) == MaxOf(out, in) <= MinOf(out + len - 1, in + len - 1)

\* The guest address a virtual address of this CPU's slots leads to, or -1.
Translate(c, v) ==
    LET hit == {s \in Slot : v >= umode_slot_va(s) /\ v < umode_slot_va(s) + SlotPages * PageBytes} IN
    IF hit = {} THEN -1
    ELSE LET s == CHOOSE x \in hit : TRUE
             e == slot[c][s][(v - umode_slot_va(s)) \div PageBytes] IN
         IF e.type = "Leaf" THEN e.page * PageBytes + (v % PageBytes) ELSE -1
Writable(c, v) == \E s \in Slot, i \in 0..(SlotPages - 1) :
    /\ v \div PageBytes = umode_slot_va(s) \div PageBytes + i
    /\ slot[c][s][i].writable

-----------------------------------------------------------------------------
(* Slots.                                                                  *)

\* FirstStagePageTable::map_range(): locks one PTE after the other and leaves them locked
\* at the first that is not unused.
lock_slot(pte, n) ==
    LET k == CHOOSE i \in 0..n : /\ \A j \in 0..(i - 1) : pte[j] = Unused
                                 /\ i < n => pte[i] # Unused
    IN [i \in DOMAIN pte |-> IF i < k THEN Locked ELSE pte[i]]

\* map_in_umode_slot(): the range is mapped in the guest; it is shared and mapped page by
\* page, under the lock of the guest's page table.
CanMapSlot(c, s, r) ==
    /\ Pages(r) \subseteq present
    /\ r.count <= SlotPages
    /\ \A i \in 0..(r.count - 1) : slot[c][s][i] = Unused
\* Mutant: a page that is shared already is not counted again.
MapOnce(c, s, r, w) ==
    /\ slot' = [slot EXCEPT ![c][s] = [i \in DOMAIN @ |->
                    IF i < r.count THEN Leaf(r.base \div PageBytes + i, w) ELSE @[i]]]
    /\ shares' = [p \in GuestPage |-> IF p \in Pages(r) /\ shares[p] = 0 THEN 1 ELSE shares[p]]
    /\ mapped' = [mapped EXCEPT ![c][s] = r.count]
MapSlot(c, s, r, w) ==
    /\ slot' = [slot EXCEPT ![c][s] = [i \in DOMAIN @ |->
                    IF i < r.count THEN Leaf(r.base \div PageBytes + i, w) ELSE @[i]]]
    /\ shares' = [p \in GuestPage |-> IF p \in Pages(r) THEN shares[p] + 1 ELSE shares[p]]
    /\ mapped' = [mapped EXCEPT ![c][s] = r.count]
\* The slot mapper may have locked PTEs before it failed.
FailSlot(c, s, r) ==
    /\ slot' = IF Pages(r) \subseteq present /\ r.count <= SlotPages
               THEN [slot EXCEPT ![c][s] = lock_slot(@, r.count)] ELSE slot
    /\ UNCHANGED <<shares, mapped>>

\* Drop for GuestUmodeMapping: the slot is unmapped and every page released.
DropSlot(c, s) ==
    LET n == mapped[c][s] IN
    /\ slot' = [slot EXCEPT ![c][s] = [i \in DOMAIN @ |-> IF i < n THEN Unused ELSE @[i]]]
    /\ shares' = [p \in GuestPage |-> shares[p] -
                    Cardinality({i \in 0..(n - 1) : slot[c][s][i].page = p})]
    /\ mapped' = [mapped EXCEPT ![c][s] = NoMapping]

-----------------------------------------------------------------------------
(* The task.                                                               *)

\* UmodeTask::reset(): run from the entry point; the saved registers are new.
Reset(c) ==
    /\ upc' = [upc EXCEPT ![c] = "entry"]
    /\ regs' = [regs EXCEPT ![c] = ZeroRegs]
    /\ pc' = [pc EXCEPT ![c] = "umode"]

Init ==
    /\ pc = [c \in Cpu |-> "umode"] /\ purpose = [c \in Cpu |-> "setup"]
    /\ recovering = [c \in Cpu |-> FALSE]
    /\ args = [c \in Cpu |-> [NoArgs EXCEPT !.booted = FALSE]]
    /\ slot = [c \in Cpu |-> [s \in Slot |-> [i \in 0..(SlotPages - 1) |-> Unused]]]
    /\ mapped = [c \in Cpu |-> [s \in Slot |-> NoMapping]]
    /\ regs = [c \in Cpu |-> ZeroRegs]
    /\ upc = [c \in Cpu |-> "entry"] /\ ureq = [c \in Cpu |-> NoRequest]
    /\ dirty = [c \in Cpu |-> FALSE]
    /\ serial = [c \in Cpu |-> 0] /\ serving = [c \in Cpu |-> 0]
    /\ result = [c \in Cpu |-> "none"]
    /\ present = GuestPage /\ shares = [p \in GuestPage |-> 0]

\* send_req(): the request replaces what U-mode left in a0..a4.
send_req(c, q, why) ==
    /\ regs' = [regs EXCEPT ![c] = RequestToRegisters(q, @)]
    /\ serial' = [serial EXCEPT ![c] = 1 - @]
    /\ purpose' = [purpose EXCEPT ![c] = why]
    /\ pc' = [pc EXCEPT ![c] = "umode"]

\* The request a CPU makes when its task is set up.
BootRequest(c) ==
    /\ pc[c] = "idle" /\ ~args[c].booted
    /\ args' = [args EXCEPT ![c].booted = TRUE]
    /\ send_req(c, nop, "boot")
    /\ UNCHANGED <<recovering, slot, mapped, upc, ureq, dirty, serving, result, present, shares>>

guest_test_memcopy(c, to, from, len) ==
    /\ pc[c] = "idle" /\ args[c].booted
    /\ to + len <= NumPages * PageBytes /\ from + len <= NumPages * PageBytes
    /\ \/ /\ CanMapSlot(c, "A", RangeOf(from, len)) /\ MapSlot(c, "A", RangeOf(from, len), FALSE)
          /\ args' = [args EXCEPT ![c] = [to |-> to, from |-> from, len |-> len, booted |-> TRUE]]
          /\ pc' = [pc EXCEPT ![c] = "mapB"]
       \/ /\ ~CanMapSlot(c, "A", RangeOf(from, len)) /\ FailSlot(c, "A", RangeOf(from, len))
          /\ UNCHANGED <<pc, args>>
    /\ UNCHANGED <<purpose, recovering, regs, upc, ureq, dirty, serial, serving, result, present>>

MapTo(c) ==
    LET r == RangeOf(args[c].to, args[c].len) IN
    /\ pc[c] = "mapB"
    /\ \/ CanMapSlot(c, "B", r) /\ MapSlot(c, "B", r, TRUE) /\ pc' = [pc EXCEPT ![c] = "request"]
       \/ ~CanMapSlot(c, "B", r) /\ FailSlot(c, "B", r) /\ pc' = [pc EXCEPT ![c] = "dropA"]
    /\ UNCHANGED <<purpose, recovering, args, regs, upc, ureq, dirty, serial, serving, result, present>>

FromVaddr(c) == umode_slot_va("A") + (args[c].from - round_down(args[c].from))
ToVaddr(c) == umode_slot_va("B") + (args[c].to - round_down(args[c].to))
MakeRequest(c) ==
    /\ pc[c] = "request"
    /\ \/ /\ ~overlap(ToVaddr(c), FromVaddr(c), args[c].len)
          /\ send_req(c, Request("MemCopy", FromVaddr(c), ToVaddr(c), args[c].len), "copy")
       \/ /\ overlap(ToVaddr(c), FromVaddr(c), args[c].len)
          /\ pc' = [pc EXCEPT ![c] = "dropB"]
          /\ UNCHANGED <<purpose, regs, serial>>
    /\ UNCHANGED <<recovering, args, slot, mapped, upc, ureq, dirty, serving, result, present, shares>>

DropTo(c) ==
    /\ pc[c] = "dropB" /\ DropSlot(c, "B") /\ pc' = [pc EXCEPT ![c] = "dropA"]
    /\ UNCHANGED <<purpose, recovering, args, regs, upc, ureq, dirty, serial, serving, result, present>>
DropFrom(c) ==
    /\ pc[c] = "dropA" /\ DropSlot(c, "A") /\ pc' = [pc EXCEPT ![c] = "idle"]
    /\ args' = [args EXCEPT ![c] = NoArgs]
    /\ UNCHANGED <<purpose, recovering, regs, upc, ureq, dirty, serial, serving, result, present>>

-----------------------------------------------------------------------------
(* U-mode: task_main and its hypercalls.                                   *)

Ecall(c, call, a0, where) ==
    /\ regs' = [regs EXCEPT ![c] = HypCallRegs(call, a0)]
    /\ upc' = [upc EXCEPT ![c] = where]
    /\ pc' = [pc EXCEPT ![c] = "ecall"]

InUmode(c) == pc[c] = "umode"
UmodeFrame == <<purpose, recovering, args, slot, mapped, serial, result, present, shares>>

TaskStart(c) ==
    /\ InUmode(c) /\ upc[c] = "entry" /\ ~dirty[c]
    /\ Ecall(c, HYPC_NEXTOP, ResultToRegisters("Ok"), "nextop")
    /\ UNCHANGED <<ureq, dirty, serving>> /\ UNCHANGED UmodeFrame

\* hyp_nextop() returns a request, and the main loop starts on it.
NextOp(c) ==
    /\ InUmode(c) /\ upc[c] = "nextop" /\ KnownOp(regs[c])
    /\ ureq' = [ureq EXCEPT ![c] = RequestFromRegisters(regs[c])]
    /\ upc' = [upc EXCEPT ![c] = "work"]
    /\ serving' = [serving EXCEPT ![c] = serial[c]]
    /\ UNCHANGED <<pc, regs, dirty>> /\ UNCHANGED UmodeFrame

\* Printing, of the hello or of the first message.
hyp_putchar(c) ==
    /\ InUmode(c) /\ upc[c] \in {"entry", "work"} /\ regs[c][7] # HYPC_PUTCHAR
    /\ Ecall(c, HYPC_PUTCHAR, 65, upc[c])
    /\ UNCHANGED <<ureq, dirty, serving>> /\ UNCHANGED UmodeFrame

op_memcopy(q) == IF q.in_addr = NoAddr \/ q.out_addr = NoAddr THEN "InvalidArgument" ELSE "Ok"
TaskAnswer(c) ==
    /\ InUmode(c) /\ upc[c] = "work"
    /\ Ecall(c, HYPC_NEXTOP,
             ResultToRegisters(IF ureq[c].op = "MemCopy" THEN op_memcopy(ureq[c]) ELSE "Ok"), "nextop")
    /\ ureq' = [ureq EXCEPT ![c] = NoRequest]
    /\ UNCHANGED <<dirty, serving>> /\ UNCHANGED UmodeFrame

\* A fault of the task: a trap, or hyp_panic().  It may have spoilt its memory.
TaskFault(c) ==
    /\ InUmode(c)
    /\ \/ upc[c] = "work" /\ purpose[c] = "copy"
       \/ upc[c] = "entry" /\ dirty[c]
    /\ \/ pc' = [pc EXCEPT ![c] = "failed"] /\ UNCHANGED <<regs, upc>>
       \/ Ecall(c, HYPC_PANIC, 0, upc[c])
    /\ dirty' = [dirty EXCEPT ![c] = TRUE]
    /\ UNCHANGED <<ureq, serving>> /\ UNCHANGED UmodeFrame
TaskStray(c) ==
    /\ StrayCalls /\ InUmode(c) /\ upc[c] = "work" /\ purpose[c] = "copy"
    /\ Ecall(c, 9, 0, upc[c])
    /\ UNCHANGED <<ureq, dirty, serving>> /\ UNCHANGED UmodeFrame

-----------------------------------------------------------------------------
(* The hypervisor's side of a run.                                         *)

\* send_req() or setup_this_cpu() returns res: an error at boot is fatal.
Answer(c, res) ==
    /\ result' = [result EXCEPT ![c] = res]
    /\ pc' = [pc EXCEPT ![c] = IF purpose[c] = "copy" THEN "dropB" ELSE IF res = "Ok" THEN "idle" ELSE "dead"]
    /\ recovering' = [recovering EXCEPT ![c] = FALSE]
\* run() returns: to send_req, or to the reset() in it, which must succeed.
AfterRun(c, res) ==
    IF ~recovering[c] THEN Answer(c, res)
    ELSE IF res = "Ok" THEN Answer(c, "UnexpectedTrap")
    ELSE pc' = [pc EXCEPT ![c] = "dead"] /\ UNCHANGED <<result, recovering>>

\* handle_ecall()
HandleEcall(c) ==
    /\ pc[c] = "ecall"
    /\ CASE regs[c][7] = HYPC_PANIC -> pc' = [pc EXCEPT ![c] = "failed"] /\ UNCHANGED <<result, recovering>>
         [] regs[c][7] = HYPC_PUTCHAR -> pc' = [pc EXCEPT ![c] = "umode"] /\ UNCHANGED <<result, recovering>>
         [] regs[c][7] = HYPC_NEXTOP -> AfterRun(c, ResultFromRegisters(regs[c][0]))
         [] OTHER -> AfterRun(c, "EcallNotSupported")
    /\ UNCHANGED <<purpose, args, slot, mapped, regs, upc, ureq, dirty, serial, serving, present, shares>>

\* send_req() after UnexpectedTrap or Panic: the writable regions are restored and the task
\* is started again; the error goes to the caller when it waits for its next request.
restore_umode(c) == dirty' = [dirty EXCEPT ![c] = FALSE]
Recover(c) ==
    /\ pc[c] = "failed"
    /\ restore_umode(c)
    \* An error of reset() itself is fatal.
    /\ IF recovering[c] \/ purpose[c] = "setup"
       THEN pc' = [pc EXCEPT ![c] = "dead"] /\ UNCHANGED <<upc, regs>> ELSE Reset(c)
    /\ recovering' = [recovering EXCEPT ![c] = TRUE]
    /\ UNCHANGED <<purpose, args, slot, mapped, ureq, serial, serving, result, present, shares>>

\* The page tracker lets the host convert a page that is not shared, and map it again.
Convert(p) ==
    /\ p \in present /\ shares[p] = 0 /\ present' = present \ {p}
    /\ UNCHANGED <<pc, purpose, recovering, args, slot, mapped, regs, upc, ureq, dirty, serial, serving, result, shares>>
MapBack(p) ==
    /\ p \notin present /\ present' = present \cup {p}
    /\ UNCHANGED <<pc, purpose, recovering, args, slot, mapped, regs, upc, ureq, dirty, serial, serving, result, shares>>
Next ==
    \/ \E c \in Cpu :
        \/ BootRequest(c) \/ MapTo(c) \/ MakeRequest(c) \/ DropTo(c) \/ DropFrom(c)
        \/ \E to, from \in GuestAddr, len \in 0..MaxLen : guest_test_memcopy(c, to, from, len)
        \/ TaskStart(c) \/ NextOp(c) \/ hyp_putchar(c) \/ TaskAnswer(c) \/ TaskFault(c) \/ TaskStray(c)
        \/ HandleEcall(c) \/ Recover(c)
    \/ \E p \in GuestPage : Convert(p) \/ MapBack(p)

Spec == Init /\ [][Next]_vars

-----------------------------------------------------------------------------
TypeOK ==
    /\ \A c \in Cpu :
        /\ pc[c] \in {"idle", "mapB", "request", "umode", "ecall", "failed", "dropB", "dropA", "dead"}
        /\ upc[c] \in {"entry", "nextop", "work"} /\ purpose[c] \in {"setup", "boot", "copy"}
        /\ \A s \in Slot : mapped[c][s] \in NoMapping..SlotPages
        /\ result[c] \in {"none", "Ok", "UnexpectedTrap"} \cup DOMAIN ErrorCode
    /\ present \subseteq GuestPage /\ shares \in [GuestPage -> Nat]

(* When U-mode copies, every byte of both ranges is mapped in its slot, at *)
(* the guest address the call named, and the destination is writable:      *)
(* "Both ranges are mapped for at least len bytes" (vm.rs 1542), whatever  *)
(* the offsets in the pages, and with the other CPU's conversions.         *)
CopyIsMapped ==
    \A c \in Cpu : InUmode(c) /\ upc[c] = "work" /\ ureq[c].op = "MemCopy" /\ serving[c] = serial[c] =>
        \A i \in 0..(ureq[c].in_len - 1) :
            /\ Translate(c, ureq[c].in_addr + i) = args[c].from + i
            /\ Translate(c, ureq[c].out_addr + i) = args[c].to + i
            /\ Writable(c, ureq[c].out_addr + i)

(* A page has as many references as slots of all CPUs map it, and is       *)
(* mapped in the guest as long as one does: no conversion takes a page     *)
(* from under U-mode, and no reference is left behind that would keep the  *)
(* guest from ever converting it (map_in_umode_slot, GuestUmodeMapping).   *)
PinnedWhileMapped ==
    \A p \in GuestPage :
        LET users == {x \in Cpu \X Slot \X (0..(SlotPages - 1)) :
                        slot[x[1]][x[2]][x[3]].type = "Leaf" /\ slot[x[1]][x[2]][x[3]].page = p} IN
        shares[p] = Cardinality(users) /\ (users # {} => p \in present)

(* Between two calls both slots are free: a call that failed half-way, or  *)
(* whose U-mode task crashed, has left no PTE mapped or locked, which      *)
(* would make every later call on this CPU fail.                           *)
SlotsFreeWhenIdle ==
    \A c \in Cpu : pc[c] = "idle" => \A s \in Slot, i \in 0..(SlotPages - 1) : slot[c][s][i] = Unused

(* What send_req returns is U-mode's answer to this request and not to an  *)
(* earlier one, across crashes and resets of the task.                     *)
OwnAnswer ==
    \A c \in Cpu : pc[c] = "ecall" /\ regs[c][7] = HYPC_NEXTOP /\ upc[c] = "nextop"
                        /\ ~recovering[c] /\ purpose[c] # "setup" => serving[c] = serial[c]

(* A crash of the task while it copies never takes the hypervisor down:    *)
(* the reset task always reaches its main loop ("Failed to recover         *)
(* U-mode" at umode.rs 292 is not reached).                                *)
Recovers == \A c \in Cpu : pc[c] # "dead"
=============================================================================
