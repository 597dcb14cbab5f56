---------------------------- MODULE Attestation ----------------------------
(***************************************************************************)
(* The measurement registers of one guest and the evidence made from them. *)
(* Handlers on several CPUs add measured pages while the guest is being    *)
(* set up, one of them finalizes it, and its vCPUs then extend registers,  *)
(* read them and ask for evidence.  A digest is the sequence of what was   *)
(* hashed into it; a DICE layer is the sequence of the measurements it was *)
(* rolled with.                                                            *)
(***************************************************************************)
EXTENDS Naturals, Sequences, FiniteSets, FiniteSetsExt, SequencesExt
CONSTANTS
    Cpu,          \* CPUs that run handlers
    Page,         \* pages the host adds; a page stands for its bytes and address
    Entry,        \* pairs of entry point and argument given to finalize
    Data,         \* what a guest extends a register with
    Index,        \* indexes a guest passes
    MayFail,      \* the values a call into the DICE engine may return for "failed"
    MaxDynamic    \* bound: guest extensions explored
VARIABLES
    regs,         \* measurements: digest and extensible of every register
    layers,       \* attestation_layer and sealing_layer
    boot,         \* what the boot vCPU was powered on with
    state,        \* GuestState
    mapped,       \* pages in the guest's address space
    op,           \* handler that each CPU is in
    evidence,     \* the last certificate handed to the guest
    panicked      \* an unwrap() met an error

vars == <<regs, layers, boot, state, mapped, op, evidence, panicked>>

NoEntry == <<>>
Idle == [pc |-> "idle"]

-----------------------------------------------------------------------------
\* TcgPcrIndex; TryFrom refuses every other number.
TcgPcrIndex == [PlatformCode |-> 0, PlatformConfiguration |-> 1, TvmPage |-> 2,
                TvmConfiguration |-> 3, RuntimePcr0 |-> 17, RuntimePcr1 |-> 18,
                RuntimePcr2 |-> 19, RuntimePcr3 |-> 20]
try_from(index) == index \in {TcgPcrIndex[n] : n \in DOMAIN TcgPcrIndex}

MsmtReg(pcr, static, stable) ==
    [pcr_index |-> pcr, static_measurement |-> static, stable |-> stable]
TVM_MSMT_REGISTERS == <<
    MsmtReg(0, TRUE, TRUE), MsmtReg(1, TRUE, FALSE), MsmtReg(2, TRUE, TRUE),
    MsmtReg(3, TRUE, TRUE), MsmtReg(17, FALSE, TRUE), MsmtReg(18, FALSE, TRUE),
    MsmtReg(19, FALSE, TRUE), MsmtReg(20, FALSE, TRUE)>>
Reg == DOMAIN TVM_MSMT_REGISTERS
build(i) == [extensible |-> TRUE, digest |-> <<>>]

\* The register with a PCR index.
Find(pcr) == CHOOSE i \in Reg : TVM_MSMT_REGISTERS[i].pcr_index = pcr

\* MeasurementRegister::extend() on the registers r: the data, after its
\* address when there is one.
Extended(r, pcr, data) ==
    LET i == Find(pcr) IN [r EXCEPT ![i].digest = Append(@, data)]
ExtendedLocked(r, pcr) == ~r[Find(pcr)].extensible

finalize_register(r) ==
    [i \in Reg |-> [r[i] EXCEPT !.extensible = @ /\ ~TVM_MSMT_REGISTERS[i].static_measurement]]

Digests(r, Included(_)) ==
    LET which == SelectSeq([i \in Reg |-> i], Included)
    IN [k \in DOMAIN which |-> r[which[k]].digest]
IsStatic(i) == TVM_MSMT_REGISTERS[i].static_measurement
IsStable(i) == TVM_MSMT_REGISTERS[i].stable
attestation_tci(r) == Digests(r, IsStatic)
sealing_tci(r) == Digests(r, IsStable)

\* What to_sbi_descriptor() says of a register: can it be extended at run time.
to_sbi_descriptor(i) == ~TVM_MSMT_REGISTERS[i].static_measurement

new == /\ regs = [i \in Reg |-> build(i)]
       /\ layers = [attestation |-> <<>>, sealing |-> <<>>]
Init == /\ new
        /\ boot = NoEntry /\ state = "init" /\ mapped = {}
        /\ op = [c \in Cpu |-> Idle] /\ evidence = <<>> /\ panicked = FALSE

-----------------------------------------------------------------------------
(* The host sets the guest up.  A handler that adds pages holds the guest's *)
(* state for reading, finalize() takes it for writing.                      *)
HoldsState(c) == op[c].pc \in {"measure", "map"}

add_measured_pages(c, p) ==
    /\ op[c] = Idle /\ state = "init" /\ ~panicked
    /\ p \notin mapped /\ \A d \in Cpu : HoldsState(d) => op[d].page # p
    /\ op' = [op EXCEPT ![c] = [pc |-> "measure", page |-> p]]
    /\ UNCHANGED <<regs, layers, boot, state, mapped, evidence, panicked>>

\* MeasuredPagesMapper::map_page(): measure, then map.  The caller unwraps.
extend_tvm_page(c) ==
    /\ op[c].pc = "measure" /\ ~panicked
    /\ IF ExtendedLocked(regs, TcgPcrIndex.TvmPage)
       THEN panicked' = TRUE /\ UNCHANGED <<regs, op>>
       ELSE /\ regs' = Extended(regs, TcgPcrIndex.TvmPage, op[c].page)
            /\ op' = [op EXCEPT ![c].pc = "map"]
            /\ UNCHANGED panicked
    /\ UNCHANGED <<layers, boot, state, mapped, evidence>>
do_map_page(c) ==
    /\ op[c].pc = "map" /\ ~panicked
    /\ mapped' = mapped \cup {op[c].page}
    /\ op' = [op EXCEPT ![c] = Idle]
    /\ UNCHANGED <<regs, layers, boot, state, evidence, panicked>>

\* AttestationManager::finalize(): the configuration register gets the entry
\* point and the argument, the static registers are locked, and the two layers
\* are rolled; either roll may fail and leaves what was done before it.
extend_tvm_configuration(e) ==
    finalize_register(Extended(Extended(regs, TcgPcrIndex.TvmConfiguration, e[1]),
                               TcgPcrIndex.TvmConfiguration, e[2]))
roll_attestation(r, failed) ==
    IF failed THEN layers.attestation ELSE Append(layers.attestation, attestation_tci(r))
roll_sealing(r, failed) ==
    IF failed THEN layers.sealing ELSE Append(layers.sealing, sealing_tci(r))
AttestationFinalize(e, bad1, bad2) ==
    LET r == extend_tvm_configuration(e)
    IN IF ExtendedLocked(regs, TcgPcrIndex.TvmConfiguration)
       THEN UNCHANGED <<regs, layers, state>>
       ELSE /\ regs' = r
            /\ layers' = [attestation |-> roll_attestation(r, bad1),
                          sealing |-> roll_sealing(r, bad1 \/ bad2)]
            /\ state' = IF bad1 \/ bad2 THEN state ELSE "running"

\* Vm::finalize(), with the state of the guest held for writing: power the boot
\* vCPU on, check the interrupt files (valid), finalize the registers.
unshared_any == TRUE
unshared == \A d \in Cpu : ~HoldsState(d)
finalize(c, e, valid, bad1, bad2) ==
    /\ op[c] = Idle /\ unshared /\ state = "init" /\ ~panicked
    /\ boot = NoEntry /\ boot' = e
    /\ IF valid THEN AttestationFinalize(e, bad1, bad2) ELSE UNCHANGED <<regs, layers, state>>
    /\ UNCHANGED <<mapped, op, evidence, panicked>>

-----------------------------------------------------------------------------
(* The guest runs on several vCPUs.  The registers are behind a lock that   *)
(* csr_certificate() holds for reading while it collects all of them.       *)
Reading(c) == op[c].pc = "fwid"
measurements_write == \A d \in Cpu : ~Reading(d)

Dynamic == {i \in Reg : ~TVM_MSMT_REGISTERS[i].static_measurement}
DynamicLength == MapThenSumSet(LAMBDA i : Len(regs[i].digest), Dynamic)

\* The bytes that are hashed are the whole buffer of MAX_HASH_SIZE bytes, of
\* which the guest's data fills the first part.
Padded(d) == <<d, "zeros">>

extend_msmt_register(i) == ExtendedLocked(regs, i)
guest_extend_measurement(c, i, d, size_ok, copied) ==
    /\ op[c] = Idle /\ state = "running"
    /\ try_from(i) /\ size_ok /\ copied
    /\ measurements_write
    /\ ~extend_msmt_register(i)
    /\ DynamicLength < MaxDynamic
    /\ regs' = Extended(regs, i, Padded(d))
    /\ UNCHANGED <<layers, boot, state, mapped, op, evidence, panicked>>

\* guest_get_evidence(): a request that is too long, cannot be copied, does not
\* parse or has a bad signature is refused; then csr_certificate().
guest_get_evidence(c, size_ok, copied, parsed, verified) ==
    /\ op[c] = Idle /\ state = "running"
    /\ size_ok /\ copied /\ parsed /\ verified
    /\ op' = [op EXCEPT ![c] = [pc |-> "fwid", fwids |-> <<>>]]
    /\ UNCHANGED <<regs, layers, boot, state, mapped, evidence, panicked>>
add_fwid(c) ==
    /\ Reading(c) /\ Len(op[c].fwids) < Len(TVM_MSMT_REGISTERS)
    /\ op' = [op EXCEPT ![c].fwids = Append(@, regs[Len(@) + 1].digest)]
    /\ UNCHANGED <<regs, layers, boot, state, mapped, evidence, panicked>>
\* The certificate is signed by the attestation layer and copied to the guest
\* if its buffer is large enough and mapped.
csr_certificate(c, failed, fits, copied) ==
    /\ Reading(c) /\ Len(op[c].fwids) = Len(TVM_MSMT_REGISTERS)
    /\ evidence' = IF ~failed /\ fits /\ copied
                   THEN [cdi |-> layers.attestation, fwids |-> op[c].fwids]
                   ELSE evidence
    /\ op' = [op EXCEPT ![c] = Idle]
    /\ UNCHANGED <<regs, layers, boot, state, mapped, panicked>>

\* The calls that only read a register or describe the registers change nothing
\* here: guest_read_measurement(), get_attestation_capabilities().
Next == \E c \in Cpu :
    \/ \E p \in Page : add_measured_pages(c, p)
    \/ extend_tvm_page(c) \/ do_map_page(c)
    \/ \E e \in Entry, valid \in BOOLEAN, bad1, bad2 \in MayFail : finalize(c, e, valid, bad1, bad2)
    \/ \E i \in Index, d \in Data, size_ok, copied \in BOOLEAN :
            guest_extend_measurement(c, i, d, size_ok, copied)
    \/ \E size_ok, copied, parsed, verified \in BOOLEAN :
            guest_get_evidence(c, size_ok, copied, parsed, verified)
    \/ add_fwid(c)
    \/ \E failed \in MayFail, fits, copied \in BOOLEAN : csr_certificate(c, failed, fits, copied)
Spec == Init /\ [][Next]_vars

-----------------------------------------------------------------------------
\* The register of TVM pages of a running guest lists every page that was
\* mapped as measured, once, and nothing else: finalize() cannot come between
\* the measurement and the mapping of a page on another CPU.
MeasuredIsMapped ==
    state = "running" =>
        LET log == regs[Find(TcgPcrIndex.TvmPage)].digest
        IN ToSet(log) = mapped /\ Len(log) = Cardinality(mapped)

\* The attestation layer of a running guest is derived once, from the values
\* its static registers still have, and the configuration register holds what
\* the boot vCPU was started with: evidence and key describe the same guest.
CdiMatchesRegisters ==
    state = "running" =>
        /\ layers.attestation = <<attestation_tci(regs)>>
        /\ regs[Find(TcgPcrIndex.TvmConfiguration)].digest = boot

\* A certificate describes all registers at one instant: an extension made on
\* another vCPU is not missing from one register while a later one shows.
EvidenceIsSnapshot ==
    [][evidence' # evidence => evidence'.fwids = [i \in Reg |-> regs[i].digest]]_vars

\* The registers a running guest can extend are those its capabilities
\* describe as dynamic.
ExtensibleAsDescribed ==
    state = "running" => \A i \in Reg : regs[i].extensible = to_sbi_descriptor(i)

=============================================================================
