------------------------------- MODULE Iommu -------------------------------
(***************************************************************************)
(* The IOMMU driver and VmIommuContext: soft-context IDs (GSCIDs),         *)
(* attaching and detaching devices, and fences, with the command queue     *)
(* through which the caches of the hardware are invalidated.  CPUs work on *)
(* VMs concurrently; the IOMMU consumes commands and devices access memory *)
(* at any time.                                                            *)
(***************************************************************************)
EXTENDS Integers, FiniteSets, Sequences

CONSTANTS
    Cpu, Vm, Device,
    NoVm,           \* owner of nothing
    MAX_GSCIDS,     \* number of GSCIDs
    Capacity,       \* elements in the command queue
    MaxVersion,     \* bound on changes to a VM's page table
    OneContext      \* add_iommu_context() is called once for a VM

ASSUME IommuAssumption ==
    /\ IsFiniteSet(Device) /\ NoVm \notin Vm /\ MAX_GSCIDS \in Nat \ {0} /\ MaxVersion \in Nat
    /\ Capacity \in {2^n : n \in 2..8} /\ OneContext \in BOOLEAN

-----------------------------------------------------------------------------
(* Queue: a ring buffer of which software moves one end and the hardware   *)
(* the other; here software is the producer.                               *)
Slot == 0..(Capacity - 1)
\* (i + 1) & (capacity - 1)
After(i) == (i + 1) % Capacity

NewQueue == [head |-> 0, tail |-> 0]
is_full(q) == After(q.tail) = q.head

\* Producer: what of the queue the hardware has consumed, and a new element.
update_head_ok(q, h) ==
    ~ \/ h >= Capacity
      \/ q.head <= q.tail /\ (h > q.tail \/ q.head > h)
      \/ q.head > q.tail /\ q.tail < h /\ h < q.head
HeadKept(q, h) == q
update_head(q, h) == [q EXCEPT !.head = h]
push(q) == [q EXCEPT !.tail = After(@)]

-----------------------------------------------------------------------------
VARIABLES
    gscids,     \* GSCID -> owner and reference count
    dc,         \* device -> its device context
    owner,      \* device -> owner of the PCI device
    context,    \* VM -> the GSCID of its VmIommuContext, or -1
    dropped,    \* VMs that are gone
    cpu,        \* CPU -> what it is doing
    cq,         \* the command queue: software's head and tail
    ring,       \* slot -> the command in it
    cqh, cqt,   \* the hardware's head and tail registers
    inflight,   \* invalidations the hardware has started
    ddtcache,   \* device contexts the hardware has cached
    iotlb,      \* translations the hardware has cached
    version,    \* VM -> number of changes to its page table
    fenced,     \* VM -> the version as of which a fence has completed
    panicked    \* an unwrap failed

vars == <<gscids, dc, owner, context, dropped, cpu, cq, ring, cqh, cqt, inflight, ddtcache,
          iotlb, version, fenced, panicked>>
hwvars == <<cqh, inflight, ddtcache, iotlb>>

GscId == 0..(MAX_GSCIDS - 1)
NoState == [owner |-> NoVm, ref_count |-> 0]
NoContext == [valid |-> FALSE, gscid |-> -1, vm |-> NoVm]
NoCommand == [op |-> "none"]
Idle == [op |-> "idle"]

iotinval_gvma(g) == [op |-> "gvma", gscid |-> g]
iodir_inval_ddt(d) == [op |-> "ddt", dev |-> d]
iofence == [op |-> "fence"]

Init ==
    /\ gscids = [g \in GscId |-> NoState]
    /\ dc = [d \in Device |-> NoContext]
    /\ owner = [d \in Device |-> NoVm]
    /\ context = [v \in Vm |-> -1] /\ dropped = {}
    /\ cpu = [c \in Cpu |-> Idle]
    /\ cq = NewQueue /\ ring = [s \in Slot |-> NoCommand] /\ cqh = 0 /\ cqt = 0
    /\ inflight = {} /\ ddtcache = {} /\ iotlb = {}
    /\ version = [v \in Vm |-> 0] /\ fenced = [v \in Vm |-> 0]
    /\ panicked = FALSE

At(c, op) == cpu[c].op = op
Goto(c, s) == cpu' = [cpu EXCEPT ![c] = s]

-----------------------------------------------------------------------------
\* alloc_gscid(): the first free one.
FreeGscIds == {g \in GscId : gscids[g].owner = NoVm}
alloc_gscid(v, g) ==
    /\ g \in FreeGscIds /\ \A h \in FreeGscIds : g <= h
    /\ gscids' = [gscids EXCEPT ![g] = [owner |-> v, ref_count |-> 0]]

\* add_iommu_context() for a new VM: the GSCID, then the call_once; if another context is
\* already set, this one is dropped.
AddContext(c, v) ==
    /\ At(c, "idle") /\ v \notin dropped
    /\ OneContext => context[v] = -1 /\ \A e \in Cpu : At(e, "context") => cpu[e].vm # v
    /\ \E g \in GscId : alloc_gscid(v, g)
                        /\ Goto(c, [op |-> "context", vm |-> v, gscid |-> g])
    /\ UNCHANGED <<dc, owner, context, dropped, cq, ring, cqt, version, fenced, panicked, hwvars>>

DropState(v, g) == [op |-> "drop", vm |-> v, gscid |-> g, todo |-> Device]
SetContext(c) ==
    LET v == cpu[c].vm  g == cpu[c].gscid
    IN /\ At(c, "context")
       /\ IF context[v] = -1
          THEN context' = [context EXCEPT ![v] = g] /\ Goto(c, Idle)
          ELSE Goto(c, DropState(v, g)) /\ UNCHANGED context
       /\ UNCHANGED <<gscids, dc, owner, dropped, cq, ring, cqt, version, fenced, panicked, hwvars>>

\* The device is locked by an operation in progress.
Locked(d) == \E c \in Cpu : cpu[c].op \in {"submit", "wait"} /\ cpu[c].dev = d

\* attach_pci_device(), for a device that was given to the VM.
Assign(d, v) ==
    /\ owner[d] = NoVm /\ v \notin dropped /\ owner' = [owner EXCEPT ![d] = v]
    /\ UNCHANGED <<gscids, dc, context, dropped, cpu, cq, ring, cqt, version, fenced, panicked, hwvars>>

Attach(d, g) ==
    /\ dc' = [dc EXCEPT ![d] = [valid |-> TRUE, gscid |-> g, vm |-> owner[d]]]
    /\ gscids' = [gscids EXCEPT ![g].ref_count = @ + 1]

attach_pci_device(c, d, v) ==
    LET g == context[v]
    IN /\ At(c, "idle") /\ g # -1 /\ v \notin dropped /\ ~Locked(d)
       /\ gscids[g].owner = v /\ owner[d] = v /\ ~dc[d].valid
       /\ Attach(d, g)
       /\ UNCHANGED <<owner, context, dropped, cpu, cq, ring, cqt, version, fenced, panicked, hwvars>>

\* The VM is destroyed, and with it its context; its devices are all attached.
DropVm(c, v) ==
    /\ At(c, "idle") /\ context[v] # -1 /\ v \notin dropped
    /\ \A e \in Cpu : ~At(e, "idle") => cpu[e].vm # v
    /\ \A d \in Device : owner[d] = v => dc[d].valid
    /\ dropped' = dropped \cup {v}
    /\ Goto(c, DropState(v, context[v]))
    /\ UNCHANGED <<gscids, dc, owner, context, cq, ring, cqt, version, fenced, panicked, hwvars>>

\* Commands in submit_commands_sync() and what comes after them: the rest of the loop over the
\* devices, or the end of the fence.
Sync(op, cmds, d, next) == [op |-> op, cmds |-> cmds, dev |-> d, then |-> next, vm |-> next.vm]
Rest(c, d) == [op |-> "drop", vm |-> cpu[c].vm, gscid |-> cpu[c].gscid, todo |-> cpu[c].todo \ {d}]
DetachNoInval(d) == <<iofence>>
DetachCommands(d) == <<iodir_inval_ddt(d), iofence>>

\* detach_pci_device(), with its result unwrapped.
detach_pci_device(c, d) ==
    LET g == cpu[c].gscid  v == cpu[c].vm
    IN /\ At(c, "drop") /\ d \in cpu[c].todo /\ ~Locked(d)
       /\ IF owner[d] # v
          THEN Goto(c, Rest(c, d)) /\ UNCHANGED <<dc, gscids, panicked>>
          ELSE IF ~dc[d].valid \/ gscids[g].owner # v \/ gscids[g].ref_count = 0
          THEN panicked' = TRUE /\ UNCHANGED <<cpu, dc, gscids>>
          ELSE /\ dc' = [dc EXCEPT ![d] = NoContext]
               /\ gscids' = [gscids EXCEPT ![g].ref_count = @ - 1]
               /\ Goto(c, Sync("submit", DetachCommands(d), d, Rest(c, d)))
               /\ UNCHANGED panicked
       /\ UNCHANGED <<owner, context, dropped, cq, ring, cqt, version, fenced, hwvars>>

\* free_gscid(), with its result unwrapped.
free_gscid(c) ==
    LET g == cpu[c].gscid
    IN /\ At(c, "drop") /\ cpu[c].todo = {}
       /\ IF gscids[g].ref_count > 0 \/ gscids[g].owner = NoVm
          THEN panicked' = TRUE /\ UNCHANGED <<gscids, cpu>>
          ELSE gscids' = [gscids EXCEPT ![g] = NoState] /\ Goto(c, Idle) /\ UNCHANGED panicked
       /\ UNCHANGED <<dc, owner, context, dropped, cq, ring, cqt, version, fenced, hwvars>>

\* fence() after a change to the VM's page table.
ChangePageTable(v) ==
    /\ context[v] # -1 /\ v \notin dropped /\ version[v] < MaxVersion
    /\ version' = [version EXCEPT ![v] = @ + 1]
    /\ UNCHANGED <<gscids, dc, owner, context, dropped, cpu, cq, ring, cqt, fenced, panicked, hwvars>>

NoDevice == "none"
FenceUnfenced(g) == <<iotinval_gvma(g)>>
FenceCommands(g) == <<iotinval_gvma(g), iofence>>
fence(c, v) ==
    /\ At(c, "idle") /\ context[v] # -1 /\ v \notin dropped /\ version[v] > fenced[v]
    /\ Goto(c, Sync("submit", FenceCommands(context[v]), NoDevice,
                    [op |-> "fenced", vm |-> v, version |-> version[v]]))
    /\ UNCHANGED <<gscids, dc, owner, context, dropped, cq, ring, cqt, version, fenced, panicked, hwvars>>

FenceDone(c) ==
    /\ At(c, "fenced")
    /\ fenced' = [fenced EXCEPT ![cpu[c].vm] = IF @ < cpu[c].version THEN cpu[c].version ELSE @]
    /\ Goto(c, Idle)
    /\ UNCHANGED <<gscids, dc, owner, context, dropped, cq, ring, cqt, version, panicked, hwvars>>

-----------------------------------------------------------------------------
\* submit_commands_sync(): push under the queue's lock, ring the doorbell, wait.
Pushed(n) ==
    LET after[i \in 0..n] == IF i = 0 THEN cq ELSE push(after[i - 1]) IN after

Doorbell(tail) == cqt' = tail
PushCommands(c) ==
    LET n == Len(cpu[c].cmds)
        after == Pushed(n)
    IN /\ At(c, "submit") /\ \A e \in Cpu : ~At(e, "wait")
       /\ IF \E i \in 0..(n - 1) : is_full(after[i])
          THEN panicked' = TRUE /\ UNCHANGED <<cq, ring, cqt, cpu>>
          ELSE /\ cq' = after[n]
               /\ ring' = [s \in Slot |->
                    IF \E i \in 0..(n - 1) : after[i].tail = s
                    THEN cpu[c].cmds[1 + CHOOSE i \in 0..(n - 1) : after[i].tail = s] ELSE ring[s]]
               /\ Doorbell(after[n].tail)
               /\ Goto(c, Sync("wait", cpu[c].cmds, cpu[c].dev, cpu[c].then))
               /\ UNCHANGED panicked
       /\ UNCHANGED <<gscids, dc, owner, context, dropped, version, fenced, hwvars>>

WaitForTail(c) == cqh = cq.tail
Collect(c) ==
    /\ At(c, "wait") /\ WaitForTail(c)
    /\ IF update_head_ok(cq, cq.tail)
       THEN cq' = update_head(cq, cq.tail) /\ Goto(c, cpu[c].then) /\ UNCHANGED panicked
       ELSE panicked' = TRUE /\ UNCHANGED <<cq, cpu>>
    /\ UNCHANGED <<gscids, dc, owner, context, dropped, ring, cqt, version, fenced, hwvars>>

-----------------------------------------------------------------------------
\* The hardware fetches commands; an invalidation takes effect some time later, but before
\* a fence that follows it completes.
swvars == <<gscids, dc, owner, context, dropped, cpu, cq, ring, cqt, version, fenced, panicked>>

Fetch ==
    /\ cqh # cqt
    /\ IF ring[cqh].op = "fence" THEN inflight = {} /\ UNCHANGED inflight
       ELSE inflight' = inflight \cup {ring[cqh]}
    /\ cqh' = After(cqh)
    /\ UNCHANGED <<ddtcache, iotlb, swvars>>

Complete ==
    /\ \E cmd \in inflight :
        /\ inflight' = inflight \ {cmd}
        /\ ddtcache' = {e \in ddtcache : cmd.op # "ddt" \/ e.dev # cmd.dev}
        /\ iotlb' = {e \in iotlb : cmd.op # "gvma" \/ e.gscid # cmd.gscid}
    /\ UNCHANGED <<cqh, swvars>>

\* A device accesses memory with the context cached for it, or the one in memory.
Dma(d) ==
    \E e \in {x \in ddtcache : x.dev = d} \cup
             {x \in {[dev |-> d, gscid |-> dc[d].gscid, vm |-> dc[d].vm]} :
              dc[d].valid /\ \A y \in ddtcache : y.dev # d} :
        /\ ddtcache' = ddtcache \cup {e}
        /\ iotlb' = iotlb \cup {[gscid |-> e.gscid, vm |-> e.vm, version |-> version[e.vm]]}
        /\ UNCHANGED <<cqh, inflight, swvars>>

Software(c) ==
    \/ \E v \in Vm : AddContext(c, v) \/ DropVm(c, v) \/ fence(c, v)
                     \/ \E d \in Device : attach_pci_device(c, d, v)
    \/ SetContext(c) \/ free_gscid(c) \/ FenceDone(c) \/ PushCommands(c) \/ Collect(c)
    \/ \E d \in Device : detach_pci_device(c, d)

\* What a CPU goes on with once it has begun.
Continue(c) ==
    \/ SetContext(c) \/ free_gscid(c) \/ FenceDone(c) \/ PushCommands(c) \/ Collect(c)
    \/ \E d \in Device : detach_pci_device(c, d)

Next ==
    \/ ~panicked /\ \E c \in Cpu : Software(c)
    \/ \E d \in Device, v \in Vm : Assign(d, v)
    \/ \E v \in Vm : ChangePageTable(v)
    \/ Fetch \/ Complete \/ \E d \in Device : Dma(d)

Spec == Init /\ [][Next]_vars

\* CPUs run on (the command queue's lock is fair enough that each gets it), and the hardware
\* executes its commands.
FairSpec == Spec /\ \A c \in Cpu : SF_vars(Continue(c)) /\ WF_vars(Fetch) /\ WF_vars(Complete)

-----------------------------------------------------------------------------
TypeOK ==
    /\ \A g \in GscId : gscids[g].owner \in Vm \cup {NoVm} /\ gscids[g].ref_count \in 0..Cardinality(Device)
    /\ \A v \in Vm : context[v] \in GscId \cup {-1} /\ fenced[v] \in 0..version[v]
    /\ cq.head \in Slot /\ cq.tail \in Slot /\ cqh \in Slot /\ cqt \in Slot

\* No result that is unwrapped is an error: detaching and freeing in a dropped context, the
\* room in the command queue, its head (VmIommuContext::drop, submit_commands_sync).
UnwrapsSucceed == ~panicked

\* A GSCID counts the device contexts that use it, which are of its owner's devices
\* (attach_pci_device, detach_pci_device).
RefCountExact ==
    \A g \in GscId :
        /\ gscids[g].ref_count = Cardinality({d \in Device : dc[d].valid /\ dc[d].gscid = g})
        /\ \A d \in Device : dc[d].valid /\ dc[d].gscid = g => owner[d] = gscids[g].owner

\* Once a device is detached, the hardware has forgotten its context (detach_pci_device).
DetachedIsForgotten ==
    \A e \in ddtcache : dc[e.dev].valid \/ Locked(e.dev)

\* Once a fence has returned, no translation from before the change it was for is cached
\* (fence, submit_commands_sync).
FenceFlushes == \A e \in iotlb : context[e.vm] = e.gscid => e.version >= fenced[e.vm]

\* What is begun is finished: every fence and detach returns.
Returns == \A c \in Cpu : ~At(c, "idle") ~> At(c, "idle")

=============================================================================
