-------------------------------- MODULE VmId --------------------------------
(***************************************************************************)
(* VMIDs and the translations tagged with them.  Every physical CPU hands  *)
(* out VMIDs to the vCPUs that run on it (src/vm_id.rs); a vCPU keeps its  *)
(* VMID, and the TLB version it last ran with, until it moves to another   *)
(* CPU or the CPU's VMIDs roll over (src/vm_cpu.rs).  The CPU's TLB is     *)
(* flushed when the VMIDs roll over, and flushed of one VMID when a vCPU   *)
(* enters its address space at a newer version than before.                *)
(*                                                                         *)
(* The host VM has one vCPU for every CPU, named like its CPU, and runs    *)
(* guest vCPUs from it: the host's vCPU is saved while its guest runs and  *)
(* restored when the guest exits.  held is the TLB version of the          *)
(* ActiveVmPages of a vCPU, NoVersion when it has none.                    *)
(***************************************************************************)
EXTENDS TlbTracker, FiniteSets, Sequences

CONSTANTS
    Cpu,            \* physical CPUs
    Vcpu,           \* vCPUs of the guests
    Vm,             \* the guest VMs
    VmOf,           \* the VM of each guest vCPU
    VmidBits,       \* VMID bits implemented in HGATP
    MaxVersion,     \* bound on the VMID version of a CPU
    MaxTlbVersion   \* bound on the TLB version of a VM

Host == "host"

VmIdAssumption ==
    /\ IsFiniteSet(Cpu) /\ IsFiniteSet(Vcpu) /\ Cpu \cap Vcpu = {}
    /\ Host \notin Vm
    /\ VmOf \in [Vcpu -> Vm]
    /\ VmidBits \in Nat
    /\ MaxVersion \in Nat /\ MaxTlbVersion \in Nat

Vmid == 0..(2^VmidBits - 1)
AnyVcpu == Cpu \cup Vcpu
OwnerVm(v) == IF v \in Cpu THEN Host ELSE VmOf[v]

VARIABLES
    next,       \* next_vmid of each CPU's VmIdTracker
    version,    \* current_version of each CPU's VmIdTracker
    prevTlb,    \* prev_tlb of each vCPU
    running,    \* the vCPUs activated on each CPU, the one that runs last
    tracker,    \* the TlbTracker of each VM
    held,       \* the TLB version of each vCPU's ActiveVmPages
    tlb         \* the guest-stage translations each CPU has cached

vars == <<next, version, prevTlb, running, tracker, held, tlb>>

NoTlb == [cpu |-> "none"]
PrevTlb == [cpu : Cpu, vmid : Vmid, version : Nat, tlb : Nat]
Translation == [vmid : Vmid, vm : Vm \cup {Host}, version : Nat]

Init ==
    /\ next = [c \in Cpu |-> 0]
    /\ version = [c \in Cpu |-> 0]
    /\ prevTlb = [v \in AnyVcpu |-> NoTlb]
    /\ running = [c \in Cpu |-> <<>>]
    /\ tracker = [m \in Vm \cup {Host} |-> TlbTrackerNew]
    /\ held = [v \in AnyVcpu |-> NoVersion]
    /\ tlb = [c \in Cpu |-> {}]

-----------------------------------------------------------------------------
(* The VMID tracker of a CPU.                                              *)

\* Mutant: the roll-over only flushes the VMID that is handed out first.
RollOverOneVmid(c) ==
    /\ version[c] < MaxVersion
    /\ version' = [version EXCEPT ![c] = @ + 1]
    /\ tlb' = [tlb EXCEPT ![c] = {t \in @ : t.vmid # next[c]}]
\* The wrap of next_vmid to 0: everything on the CPU is flushed.
RollOver(c) ==
    /\ version[c] < MaxVersion
    /\ version' = [version EXCEPT ![c] = @ + 1]
    /\ tlb' = [tlb EXCEPT ![c] = {}]

\* Mutant: next_vmid counts past the VMID bits.
next_vmid(c) ==
    /\ next' = [next EXCEPT ![c] = (@ + 1) % 2^VmidBits]
    /\ IF next[c] = 0 THEN RollOver(c) ELSE UNCHANGED <<version, tlb>>

-----------------------------------------------------------------------------
(* Entering and leaving an address space.                                  *)

\* restore_from(): a VMID of another CPU is worth nothing here.
PrevOnThisCpu(c, v) == IF prevTlb[v].cpu = c THEN prevTlb[v] ELSE NoTlb

\* restore_vm_pages(): a VMID handed out since the last roll-over is kept.
SameVersion(c, prev) == prev # NoTlb /\ prev.version = version[c]

\* ActiveVmPages::new(): flush the VMID when its last version is no longer current.
FlushStale(c, prev, current) ==
    tlb' = [tlb EXCEPT ![c] =
              IF prev.tlb < current THEN {t \in @ : t.vmid # prev.vmid} ELSE @]

\* restore_vm_pages() of v on c, whose previous VMID is prev and whose VM has the
\* tracker t once the pages that were active before are put.
RestoreVmPages(c, v, prev, t) ==
    LET current == current_version(t) IN
    /\ \/ /\ SameVersion(c, prev)
          /\ UNCHANGED <<next, version>>
          /\ FlushStale(c, prev, current)
          /\ prevTlb' = [prevTlb EXCEPT ![v] = [cpu |-> c, vmid |-> prev.vmid,
                           version |-> prev.version, tlb |-> current]]
       \/ /\ ~SameVersion(c, prev)
          /\ next_vmid(c)
          /\ prevTlb' = [prevTlb EXCEPT ![v] = [cpu |-> c, vmid |-> next[c],
                           version |-> version'[c], tlb |-> current]]

Put(v) == put_version(tracker[OwnerVm(v)], held[v])

\* The host's vCPU is activated on its CPU.
EnterHost(c) ==
    /\ running[c] = <<>>
    /\ running' = [running EXCEPT ![c] = <<c>>]
    /\ RestoreVmPages(c, c, PrevOnThisCpu(c, c), tracker[Host])
    /\ tracker' = [tracker EXCEPT ![Host] = get_version(@)]
    /\ held' = [held EXCEPT ![c] = current_version(tracker[Host])]

\* ... and dropped.
LeaveHost(c) ==
    /\ running[c] = <<c>>
    /\ running' = [running EXCEPT ![c] = <<>>]
    /\ tracker' = [tracker EXCEPT ![Host] = Put(c)]
    /\ held' = [held EXCEPT ![c] = NoVersion]
    /\ UNCHANGED <<next, version, prevTlb, tlb>>

\* The host's vCPU on c runs the guest vCPU v: the host's is saved, v restored.
RunGuest(c, v) ==
    /\ running[c] = <<c>>
    /\ \A d \in Cpu : \A i \in DOMAIN running[d] : running[d][i] # v
    /\ running' = [running EXCEPT ![c] = <<c, v>>]
    /\ RestoreVmPages(c, v, PrevOnThisCpu(c, v), tracker[OwnerVm(v)])
    /\ tracker' = [tracker EXCEPT ![Host] = Put(c), ![OwnerVm(v)] = get_version(@)]
    /\ held' = [held EXCEPT ![c] = NoVersion,
                            ![v] = current_version(tracker[OwnerVm(v)])]

\* v exits: it is saved, and the host's vCPU restored.
ExitGuest(c, v) ==
    /\ running[c] = <<c, v>>
    /\ running' = [running EXCEPT ![c] = <<c>>]
    /\ RestoreVmPages(c, c, prevTlb[c], tracker[Host])
    /\ tracker' = [tracker EXCEPT ![OwnerVm(v)] = Put(v), ![Host] = get_version(@)]
    /\ held' = [held EXCEPT ![v] = NoVersion, ![c] = current_version(tracker[Host])]

Runs(c, v) == Len(running[c]) > 0 /\ running[c][Len(running[c])] = v

\* sync_tlb(): the running vCPU leaves its address space and enters it again.
SyncTlb(c, v) ==
    /\ Runs(c, v)
    /\ RestoreVmPages(c, v, prevTlb[v], Put(v))
    /\ tracker' = [tracker EXCEPT ![OwnerVm(v)] = get_version(Put(v))]
    /\ held' = [held EXCEPT ![v] = current_version(Put(v))]
    /\ UNCHANGED running

\* The running vCPU uses a translation, which its CPU may cache.
Translate(c, v) ==
    /\ Runs(c, v)
    /\ tlb' = [tlb EXCEPT ![c] = @ \cup
                 {[vmid |-> prevTlb[v].vmid, vm |-> OwnerVm(v), version |-> held[v]]}]
    /\ UNCHANGED <<next, version, prevTlb, running, tracker, held>>

\* A fence of the VM's address space is initiated.
Fence(m) ==
    /\ current_version(tracker[m]) < MaxTlbVersion
    /\ CanIncrement(tracker[m])
    /\ tracker' = [tracker EXCEPT ![m] = Increment(@)]
    /\ UNCHANGED <<next, version, prevTlb, running, held, tlb>>

Next ==
    \/ \E c \in Cpu : EnterHost(c) \/ LeaveHost(c)
    \/ \E c \in Cpu, v \in Vcpu : RunGuest(c, v) \/ ExitGuest(c, v)
    \/ \E c \in Cpu, v \in AnyVcpu : SyncTlb(c, v) \/ Translate(c, v)
    \/ \E m \in Vm \cup {Host} : Fence(m)

Spec == Init /\ [][Next]_vars

-----------------------------------------------------------------------------
TypeOK ==
    /\ next \in [Cpu -> Vmid]
    /\ version \in [Cpu -> Nat]
    /\ prevTlb \in [AnyVcpu -> PrevTlb \cup {NoTlb}]
    /\ running \in [Cpu -> Seq(AnyVcpu)]
    /\ tracker \in [Vm \cup {Host} -> TlbTrackerType]
    /\ held \in [AnyVcpu -> Nat \cup {NoVersion}]
    /\ tlb \in [Cpu -> SUBSET Translation]

\* A vCPU only ever runs on translations of its own VM, cached at the TLB version it
\* has entered the address space with: none left by another VM that had the VMID, by
\* the vCPU's own earlier stay on this CPU, or from before a fence it has passed.
TranslationsAreOwnAndCurrent ==
    \A c \in Cpu, v \in AnyVcpu : Runs(c, v) =>
        \A t \in tlb[c] : t.vmid = prevTlb[v].vmid =>
            t.vm = OwnerVm(v) /\ t.version = held[v]

\* Two vCPUs never have the same VMID on the same CPU since its last roll-over,
\* whether they run or not: a flush of one VMID concerns one vCPU.
VmidsAreDistinct ==
    \A v, w \in AnyVcpu :
        /\ v # w
        /\ prevTlb[v] # NoTlb /\ prevTlb[w] # NoTlb
        /\ prevTlb[v].cpu = prevTlb[w].cpu
        /\ prevTlb[v].version = prevTlb[w].version
        => prevTlb[v].vmid # prevTlb[w].vmid

=============================================================================
