------------------------------ MODULE PciAccess ------------------------------
(***************************************************************************)
(* Emulated reads and writes of configuration space: an access of 1, 2 or  *)
(* 4 bytes is served one register at a time, and each register exposes     *)
(* some of its bits to a VM. One aligned dword of the space at a time.     *)
(***************************************************************************)
EXTENDS Integers, Sequences, FiniteSets

CONSTANT Places         \* the dwords that are accessed: set of <<layout, number of the dword>>

VARIABLES
    place,              \* the dword accessed
    bytes,              \* its contents: byte 0..3 -> the kinds of bits of the byte that are 1
    op                  \* the access: MmioReadBuilder or MmioWriteBuilder, and bytes at its start

vars == <<place, bytes, op>>

\* Kinds of bits: "w" is writeable by the VM; "c" is cleared by writing 1; "ro" is read-only in the
\* device; "p" is writeable in the device, but only readable by the VM; "v" is virtualized.
Reg(at, width, bits) == [at |-> at, width |-> width, bits |-> bits]
Regs(ats, width, bits) == {Reg(at, width, bits) : at \in ats}

\* What the masks of a register leave to the VM.
CommandMask == {"w"}
StatusMask == {"c", "ro"}
SecondaryStatusMask == {"c"}
BridgeControlMask == {"w", "v"}
PmMask == {"ro"}
MsiControlMask == {"w", "ro"}
MsiXControlMask == {"w", "ro"}
ExpressMask == {"ro"}
DeviceControlMask == {"w", "p"}
LinkMask == {"ro"}

\* The registers by layout. Other bytes read as 0 and ignore writes.
CommonRegisters ==
    Regs({0, 2}, 2, {"ro"}) \cup {Reg(4, 2, CommandMask), Reg(6, 2, StatusMask)} \cup Regs({8, 9, 10, 11, 14}, 1, {"ro"})
EndpointRegisters == Regs({16, 20, 24, 28, 32, 36}, 4, {"w"}) \cup Regs({44, 46}, 2, {"ro"}) \cup {Reg(52, 1, {"ro"})}
BridgeRegisters ==
    Regs({16, 20, 40, 44}, 4, {"w"}) \cup Regs({24, 25, 26, 28, 29}, 1, {"w"}) \cup {Reg(30, 2, SecondaryStatusMask)}
        \cup Regs({32, 34, 36, 38, 48, 50}, 2, {"w"}) \cup {Reg(52, 1, {"ro"}), Reg(62, 2, BridgeControlMask)}
CapabilityHeader == Regs({0, 1}, 1, {"ro"})
PowerManagement == Regs({2, 4}, 2, PmMask)
Msi == {Reg(2, 2, MsiControlMask)} \cup Regs({4, 8}, 4, {"w"}) \cup Regs({12, 14}, 2, {"w"})
MsiMasks == {Reg(16, 4, {"w"}), Reg(20, 4, {"ro"})}         \* if per_vector_masks
MsiX == {Reg(2, 2, MsiXControlMask)} \cup Regs({4, 8}, 4, {"ro"})
Vendor == Regs(2..7, 1, {"ro"})                             \* a structure of 8 bytes
BridgeSubsystem == Regs({4, 6}, 2, {"ro"})
PciExpress == {Reg(2, 2, ExpressMask), Reg(4, 4, ExpressMask), Reg(8, 2, DeviceControlMask)}
PciExpressLink == {Reg(12, 4, LinkMask), Reg(18, 2, LinkMask)}   \* if has_link_control()

Layout ==
    [endpoint |-> CommonRegisters \cup EndpointRegisters, bridge |-> CommonRegisters \cup BridgeRegisters,
     pm |-> CapabilityHeader \cup PowerManagement, msi |-> CapabilityHeader \cup Msi,
     msi_masks |-> CapabilityHeader \cup Msi \cup MsiMasks, msix |-> CapabilityHeader \cup MsiX,
     vendor |-> CapabilityHeader \cup Vendor, subsys |-> CapabilityHeader \cup BridgeSubsystem,
     express |-> CapabilityHeader \cup PciExpress, link |-> CapabilityHeader \cup PciExpress \cup PciExpressLink]

\* The register at byte o of a dword, as [at, width, bits] with at relative to the dword.
RegisterAt(p, o) ==
    LET at == 4 * p[2] + o
        hits == {r \in Layout[p[1]] : r.at <= at /\ at < r.at + r.width}
    IN IF hits = {} THEN Reg(o, 1, {})
       ELSE CHOOSE r \in {Reg(h.at - 4 * p[2], h.width, h.bits) : h \in hits} : TRUE
\* The virtualized bit is in the lower byte of its register.
BitsOf(p, o) == LET r == RegisterAt(p, o) IN IF o > r.at THEN r.bits \ {"v"} ELSE r.bits

-----------------------------------------------------------------------------
Idle == [kind |-> "none", offset |-> 0, done |-> 0, len |-> 0, value |-> <<>>, result |-> <<>>, before |-> <<>>]
AllBits == {"w", "c", "ro", "p", "v"}

Init ==
    /\ place \in Places /\ op = Idle
    /\ \E b0 \in SUBSET BitsOf(place, 0), b1 \in SUBSET BitsOf(place, 1),
          b2 \in SUBSET BitsOf(place, 2), b3 \in SUBSET BitsOf(place, 3) :
          bytes = [o \in 0..3 |-> <<b0, b1, b2, b3>>[o + 1]]

\* valid_config_mmio_access()
valid_config_mmio_access(offset, len) == len \in {1, 2, 4} /\ offset % len = 0
Begin(kind, offset, len, value) ==
    /\ op = Idle /\ valid_config_mmio_access(offset, len)
    /\ op' = [kind |-> kind, offset |-> offset, done |-> 0, len |-> len, value |-> value,
              result |-> <<>>, before |-> bytes]
    /\ UNCHANGED <<place, bytes>>

At == op.offset + op.done
\* push_byte(), push_word(), push_dword(): bytes from the offset within the register to its end.
Smaller(a, b) == IF a < b THEN a ELSE b
to_write(r) == Smaller(r.width - (At - r.at), op.len - op.done)
select_bytes(r, i) == bytes[At + i - 1]
StepRead ==
    LET r == RegisterAt(place, At)
        n == to_write(r)
    IN /\ op.kind = "read" /\ op.done < op.len
       /\ op' = [op EXCEPT !.result = @ \o [i \in 1..n |-> select_bytes(r, i)], !.done = @ + n]
       /\ UNCHANGED <<place, bytes>>

\* pop_word() and pop_dword(): dest with the bytes written. dest is what the register holds, for
\* the status registers without the bits that are cleared by writing 1.
to_read(r) == Smaller(r.width - (At - r.at), op.len - op.done)
dest(o) == bytes[o] \ {"v", "c"}
popped(r, n, o) == IF At <= o /\ o < At + n THEN op.value[o - op.offset + 1] ELSE dest(o)
\* What the device holds after set(writeable_bits()) of v.
set(o, v) ==
    LET b == BitsOf(place, o)
    IN (v \cap b \cap {"w", "v"}) \cup (bytes[o] \cap {"ro"}) \cup (IF "c" \in v THEN {} ELSE bytes[o] \cap {"c"})
StepWrite ==
    LET r == RegisterAt(place, At)
        writeable == r.bits \cap {"w", "c", "v"} # {}
        n == IF writeable THEN to_read(r) ELSE 1
    IN /\ op.kind = "write" /\ op.done < op.len
       /\ bytes' = [o \in 0..3 |->
                       IF writeable /\ r.at <= o /\ o < r.at + r.width
                       THEN set(o, popped(r, n, o)) ELSE bytes[o]]
       /\ op' = [op EXCEPT !.done = @ + n]
       /\ UNCHANGED place

End == op # Idle /\ op.done = op.len /\ op' = Idle /\ UNCHANGED <<place, bytes>>

Next ==
    \/ \E offset \in 0..3, len \in {1, 2, 4} :
          \/ Begin("read", offset, len, <<>>)
          \/ \E value \in [1..len -> {{}, AllBits}] : Begin("write", offset, len, value)
    \/ StepRead \/ StepWrite \/ End
Spec == Init /\ [][Next]_vars

-----------------------------------------------------------------------------
Done == op # Idle /\ op.done = op.len
Covered(o) == op.offset <= o /\ o < op.offset + op.len

\* A read returns exactly the bytes it asks for, whatever registers they are in.
ReadIsExact ==
    op.kind = "read" /\ Done => op.result = [i \in 1..op.len |-> bytes[op.offset + i - 1]]

\* A write has its effect on the bytes it covers and none on the others: "with only the bytes that
\* were popped". In particular it clears no status bit outside of them.
After(o) ==
    LET b == op.before[o]  v == op.value[o - op.offset + 1]  can == BitsOf(place, o)
    IN IF ~Covered(o) THEN b
       ELSE (b \ {"w", "c", "v"}) \cup (v \cap can \cap {"w", "v"}) \cup ((b \cap {"c"}) \ v)
WriteIsExact == op.kind = "write" /\ Done => \A o \in 0..3 : bytes[o] = After(o)

=============================================================================
