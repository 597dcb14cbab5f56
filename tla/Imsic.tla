------------------------------- MODULE Imsic -------------------------------
(***************************************************************************)
(* Guest interrupt files of the IMSICs.  The host converts an interrupt    *)
(* file of a CPU, binds a guest vCPU to it, moves the vCPU to a file of    *)
(* another CPU (rebind: begin on the new CPU, clone on the old one, end on *)
(* the new one) or takes the file back (unbind: begin, end), and injects   *)
(* interrupts meanwhile; the guest's vCPUs send each other interrupts by   *)
(* writing to the page of the interrupt file.  Calls run on different CPUs *)
(* at the same time: a step is what a handler of src/vm.rs does between    *)
(* two acquisitions of a lock.                                             *)
(*                                                                         *)
(* An interrupt file is <<cpu, number>>.  Ghosts: sent (the interrupts a   *)
(* vCPU has been sent and has not taken), raced (those injected while the  *)
(* vCPU was being rebound), want (what the guest last wrote to EIE and     *)
(* EIDELIVERY).                                                            *)
(***************************************************************************)
EXTENDS TlbTracker, FiniteSets

CONSTANTS
    Cpu,            \* physical CPUs
    FileId,         \* guest interrupt files of a CPU
    Vcpu,           \* vCPUs of the guest
    Id,             \* interrupt identities, all of them allowed by the guest
    NoVcpu, NoFile,
    Careful,        \* the host follows the protocol, see Enter and MayEnd
    MaxTlbVersion,  \* bound on the guest's TLB version
    MaxHostVersion  \* bound on the host's

ImsicAssumption ==
    /\ NoVcpu \notin Vcpu /\ NoFile \notin Cpu \X FileId
    /\ Careful \in BOOLEAN /\ MaxTlbVersion \in Nat /\ MaxHostVersion \in Nat

File == Cpu \X FileId

VARIABLES
    page,       \* the PageInfo of each interrupt file's page
    msi,        \* the files the host's MSI page table maps
    iotlb,      \* the files the IOMMU has cached a mapping of
    version,    \* the current TLB version of the host
    file,       \* the registers of each file
    pte,        \* the PTE of each vCPU's virtual IMSIC
    bind,       \* bind_status of each vCPU
    vgein,      \* hstatus.VGEIN of each vCPU
    sw,         \* sw_file of each vCPU
    call,       \* what each CPU is doing
    tracker,    \* the guest's TlbTracker
    held,       \* the TLB version of each running vCPU
    prev,       \* where, and with which TLB version, each vCPU ran last
    tlb,        \* the translations of IMSIC pages cached for each vCPU
    sent, raced, want

hostVars == <<page, msi, iotlb, version>>
msiVars == <<msi, iotlb, version>>
tlbVars == <<tracker, held, prev, tlb>>
ghosts == <<sent, raced, want>>
vars == <<hostVars, file, pte, bind, vgein, sw, call, tlbVars, ghosts>>

PageState == [st : {"host", "converting", "converted", "locked", "guest", "unassigning"},
              version : Nat \cup {NoVersion}]
Page(st) == [st |-> st, version |-> NoVersion]

Registers == [eip : SUBSET Id, eie : 0..1, eidelivery : 0..1]
Cleared == [eip |-> {}, eie |-> 0, eidelivery |-> 0]

Pte == [st : {"unused", "locked", "leaf", "lockedleaf", "invalid"}, file : File \cup {NoFile}]
Unused == [st |-> "unused", file |-> NoFile]

BindStatus == [st : {"unbound", "binding", "bound", "rebinding", "cloned", "unbinding"},
               file : File \cup {NoFile}, new : File \cup {NoFile}]
Status(st, f) == [st |-> st, file |-> f, new |-> NoFile]
Unbound == Status("unbound", NoFile)

Idle == [pc |-> "idle", v |-> NoVcpu, f |-> NoFile, version |-> NoVersion]

Init ==
    /\ page = [f \in File |-> Page("host")]
    /\ msi = File
    /\ iotlb = {}
    /\ version = 0
    /\ file = [f \in File |-> Cleared]
    /\ pte = [v \in Vcpu |-> Unused]
    /\ bind = [v \in Vcpu |-> Unbound]
    /\ vgein = [v \in Vcpu |-> NoFile]
    /\ sw = [v \in Vcpu |-> Cleared]
    /\ call = [c \in Cpu |-> Idle]
    /\ tracker = TlbTrackerNew
    /\ held = [v \in Vcpu |-> NoVersion]
    /\ prev = [v \in Vcpu |-> [cpu |-> NoFile, version |-> NoVersion]]
    /\ tlb = [v \in Vcpu |-> {}]
    /\ sent = [v \in Vcpu |-> {}]
    /\ raced = [v \in Vcpu |-> {}]
    /\ want = [v \in Vcpu |-> 0]

-----------------------------------------------------------------------------
(* Calls.  A careful host has one call about a vCPU in progress at a time, *)
(* ends a rebind or an unbind on the CPU the protocol says, and fences or  *)
(* reclaims a file only when no conversion or save of it is under way.     *)

At(c, pc) == call[c].pc = pc
Goto(c, pc) == call' = [call EXCEPT ![c].pc = pc]
Return(c) == call' = [call EXCEPT ![c] = Idle]
Enter(c, pc, v, f) ==
    /\ call[c] = Idle
    /\ Careful => \A d \in Cpu : call[d].v = v => v = NoVcpu \/ At(d, "guest")
    /\ call' = [call EXCEPT ![c] = [pc |-> pc, v |-> v, f |-> f, version |-> version]]
MayEnd(c, v) == Careful => bind[v].file[1] = c

\* Marks the page of f.
SetPage(f, p) == page' = [page EXCEPT ![f] = p]
\* drop of a LockedPageList.
Unlock(f) == SetPage(f, Page("converted"))

-----------------------------------------------------------------------------
(* The host's own use of the files.                                        *)

\* get_converted_imsic(): a fence has completed since the page was converted.  A
\* CPU stays at its version during a call, and may leave it between two calls.
Converted(f) ==
    \/ page[f].st = "converted"
    \/ /\ page[f].st = "converting" /\ page[f].version < version
       /\ \A c \in Cpu : call[c] # Idle /\ ~At(c, "guest") => page[f].version < call[c].version

\* convert_imsic(): the page, and then its MSI mapping.
ConvertBegin(c, f) ==
    /\ page[f].st = "host"
    /\ Enter(c, "convert", NoVcpu, f)
    /\ SetPage(f, [st |-> "converting", version |-> version])
    /\ UNCHANGED <<msiVars, file, pte, bind, vgein, sw, tlbVars, ghosts>>

ConvertEnd(c) ==
    LET f == call[c].f IN
    /\ At(c, "convert") /\ f \in msi
    /\ msi' = msi \ {f}
    /\ Return(c)
    /\ UNCHANGED <<page, iotlb, version, file, pte, bind, vgein, sw, tlbVars, ghosts>>

\* A fence of the host's address space is initiated; the IOMMU is fenced.
FenceHost ==
    /\ version < MaxHostVersion
    /\ \A c \in Cpu : call[c] # Idle /\ ~At(c, "guest") => call[c].version = version
    /\ Careful => \A c \in Cpu : ~At(c, "convert")
    /\ version' = version + 1
    /\ iotlb' = {}
    /\ UNCHANGED <<page, msi, file, pte, bind, vgein, sw, call, tlbVars, ghosts>>

\* reclaim_imsic(): the lock on the page is held throughout.
Reclaim(f) ==
    /\ Converted(f) /\ f \notin msi
    /\ Careful => \A v \in Vcpu : bind[v].file # f
    /\ SetPage(f, Page("host"))
    /\ msi' = msi \cup {f}
    /\ UNCHANGED <<iotlb, version, file, pte, bind, vgein, sw, call, tlbVars, ghosts>>

\* The host sends itself an interrupt,
HostSends(f, id) ==
    /\ page[f].st = "host"
    /\ file' = [file EXCEPT ![f].eip = @ \cup {id}]
    /\ UNCHANGED <<hostVars, pte, bind, vgein, sw, call, tlbVars, ghosts>>

\* or a device of the host does, by way of the MSI page table.
DeviceTranslates(f) ==
    /\ f \in msi
    /\ iotlb' = iotlb \cup {f}
    /\ UNCHANGED <<page, msi, version, file, pte, bind, vgein, sw, call, tlbVars, ghosts>>

-----------------------------------------------------------------------------
(* The register accesses of drivers/src/imsic/core.rs.                     *)

clear_guest_file(r) == Cleared

\* Mutant: interrupts in the new file are overwritten.
RestoreOverwrites(r, s) == s
\* restore_guest_file(): pending bits are set, the rest is written.
restore_guest_file(r, s) == [s EXCEPT !.eip = @ \cup r.eip]

\* save_guest_file_prepare(): sw_file is set up; delivery stops in the file.
save_guest_file_prepare(r, s) == [r EXCEPT !.eip = {}]
StopDelivery(r) == [r EXCEPT !.eidelivery = 0]

\* save_guest_file_finish()
save_guest_file_finish(r, s) == [s EXCEPT !.eip = @ \cup r.eip]

-----------------------------------------------------------------------------
(* guest_bind_vcpu(), on the CPU of the file.                              *)

BindLockPage(c, v, f) ==
    /\ Converted(f) /\ f[1] = c
    /\ Enter(c, "bind map", v, f)
    /\ SetPage(f, Page("locked"))
    /\ UNCHANGED <<msiVars, file, pte, bind, vgein, sw, tlbVars, ghosts>>

\* map_imsic_pages() locks the PTE.
BindLockPte(c) ==
    LET v == call[c].v  f == call[c].f IN
    /\ At(c, "bind map")
    /\ \/ /\ pte[v].st \in {"unused", "invalid"}
          /\ pte' = [pte EXCEPT ![v].st = "locked"]
          /\ Goto(c, "bind begin")
          /\ UNCHANGED page
       \/ /\ pte[v].st \notin {"unused", "invalid"}
          /\ Unlock(f) /\ Return(c)
          /\ UNCHANGED pte
    /\ UNCHANGED <<msiVars, file, bind, vgein, sw, tlbVars, ghosts>>

bind_imsic_prepare(v) == bind[v] = Unbound

\* The drop of the mapper: it unlocks the PTE if it is locked, whoever has locked it.
UnlockPte(v) ==
    pte' = [pte EXCEPT ![v].st = IF @ = "lockedleaf" THEN "leaf"
                                 ELSE IF @ # "locked" THEN @
                                 ELSE IF pte[v].file = NoFile THEN "unused" ELSE "invalid"]

BindPrepare(c) ==
    LET v == call[c].v  f == call[c].f IN
    /\ At(c, "bind begin")
    /\ \/ /\ bind_imsic_prepare(v)
          /\ file' = [file EXCEPT ![f] = clear_guest_file(@)]
          /\ bind' = [bind EXCEPT ![v] = Status("binding", f)]
          /\ Goto(c, "bind assign")
          /\ UNCHANGED <<page, pte>>
       \/ /\ ~bind_imsic_prepare(v)
          /\ UnlockPte(v) /\ Unlock(f) /\ Return(c)
          /\ UNCHANGED <<file, bind>>
    /\ UNCHANGED <<msiVars, vgein, sw, tlbVars, ghosts>>

BindAssign(c) ==
    LET v == call[c].v  f == call[c].f IN
    /\ At(c, "bind assign") /\ pte[v].st = "locked"
    /\ SetPage(f, Page("guest"))
    /\ pte' = [pte EXCEPT ![v] = [st |-> "leaf", file |-> f]]
    /\ Goto(c, "bind end")
    /\ UNCHANGED <<msiVars, file, bind, vgein, sw, tlbVars, ghosts>>

BindFinish(c) ==
    LET v == call[c].v  f == call[c].f IN
    /\ At(c, "bind end") /\ bind[v].st = "binding"
    /\ file' = [file EXCEPT ![f] = restore_guest_file(@, sw[v])]
    /\ bind' = [bind EXCEPT ![v] = Status("bound", f)]
    /\ Goto(c, "bind vgein")
    /\ UNCHANGED <<hostVars, pte, vgein, sw, tlbVars, ghosts>>

\* bind_imsic_finish() and rebind_imsic_finish() set VGEIN with ext_interrupts unlocked.
SetVgein(c) ==
    /\ At(c, "vgein") \/ At(c, "bind vgein")
    /\ vgein' = [vgein EXCEPT ![call[c].v] = call[c].f]
    /\ IF At(c, "vgein") THEN Return(c) ELSE Goto(c, "drop")
    /\ UNCHANGED <<hostVars, file, pte, bind, sw, tlbVars, ghosts>>

\* The mapper of guest_bind_vcpu() lives until its end.
DropMapper(c) ==
    /\ At(c, "drop")
    /\ UnlockPte(call[c].v) /\ Return(c)
    /\ UNCHANGED <<hostVars, file, bind, vgein, sw, tlbVars, ghosts>>

-----------------------------------------------------------------------------
(* guest_rebind_vcpu_begin(), on the CPU of the new file.                  *)

RebindLockPage(c, v, f) ==
    /\ Converted(f) /\ f[1] = c
    /\ Enter(c, "rebind map", v, f)
    /\ SetPage(f, Page("locked"))
    /\ UNCHANGED <<msiVars, file, pte, bind, vgein, sw, tlbVars, ghosts>>

\* remap_imsic_pages() locks the PTE.
RebindLockPte(c) ==
    LET v == call[c].v  f == call[c].f IN
    /\ At(c, "rebind map")
    /\ \/ /\ pte[v].st = "leaf"
          /\ pte' = [pte EXCEPT ![v].st = "lockedleaf"]
          /\ Goto(c, "rebind begin")
          /\ UNCHANGED page
       \/ /\ pte[v].st # "leaf"
          /\ Unlock(f) /\ Return(c)
          /\ UNCHANGED pte
    /\ UNCHANGED <<msiVars, file, bind, vgein, sw, tlbVars, ghosts>>

\* rebind_imsic_prepare()
RebindPrepare(c) ==
    LET v == call[c].v  f == call[c].f IN
    /\ At(c, "rebind begin")
    /\ \/ /\ bind[v].st = "bound"
          /\ file' = [file EXCEPT ![f] = clear_guest_file(@)]
          /\ bind' = [bind EXCEPT ![v] = [st |-> "rebinding", file |-> @.file, new |-> f]]
          /\ Goto(c, "rebind remap")
          /\ UNCHANGED <<page, pte>>
       \/ /\ bind[v].st # "bound"
          /\ UnlockPte(v) /\ Unlock(f) /\ Return(c)
          /\ UNCHANGED <<file, bind>>
    /\ UNCHANGED <<msiVars, vgein, sw, tlbVars, ghosts>>

\* The page is assigned and the PTE updated; f becomes the previous page.
RebindRemap(c) ==
    LET v == call[c].v  f == call[c].f IN
    /\ At(c, "rebind remap") /\ pte[v].st = "lockedleaf"
    /\ SetPage(f, Page("guest"))
    /\ pte' = [pte EXCEPT ![v].file = f]
    /\ call' = [call EXCEPT ![c].pc = "rebind unassign", ![c].f = pte[v].file]
    /\ UNCHANGED <<msiVars, file, bind, vgein, sw, tlbVars, ghosts>>

\* Mutant: the page is given back at a version older than the fence needed.
UnassignBeforeCurrent == [st |-> "unassigning", version |-> current_version(tracker) - 1]
\* unassign_page_begin()
Unassigning == [st |-> "unassigning", version |-> current_version(tracker)]

\* unassign_imsic_page_begin() of the previous page, and the drop of the mapper.
RebindUnassign(c) ==
    LET v == call[c].v  f == call[c].f IN
    /\ At(c, "rebind unassign") /\ page[f].st = "guest"
    /\ SetPage(f, Unassigning)
    /\ UnlockPte(v) /\ Return(c)
    /\ UNCHANGED <<msiVars, file, bind, vgein, sw, tlbVars, ghosts>>

\* guest_rebind_vcpu_clone(): unassign_imsic_page_end() of the previous page,
Unassignable(f) == page[f].st = "unassigning" /\ page[f].version < min_version(tracker)

CloneUnassign(c, v) ==
    LET f == bind[v].file IN
    /\ bind[v].st = "rebinding" /\ MayEnd(c, v)
    /\ Unassignable(f)
    /\ Enter(c, "clone", v, f)
    /\ SetPage(f, Page("converted"))
    /\ UNCHANGED <<msiVars, file, pte, bind, vgein, sw, tlbVars, ghosts>>

\* and rebind_imsic_clone(), which fails on another CPU than the file's.
Clone(c) ==
    LET v == call[c].v  f == bind[v].file IN
    /\ At(c, "clone")
    /\ \/ /\ bind[v].st = "rebinding" /\ f[1] = c
          /\ sw' = [sw EXCEPT ![v] =
               save_guest_file_finish(file[f], save_guest_file_prepare(file[f], @))]
          /\ file' = [file EXCEPT ![f] = StopDelivery(@)]
          /\ bind' = [bind EXCEPT ![v] = Status("cloned", @.new)]
       \/ /\ ~(bind[v].st = "rebinding" /\ f[1] = c)
          /\ UNCHANGED <<sw, file, bind>>
    /\ Return(c)
    /\ UNCHANGED <<hostVars, pte, vgein, tlbVars, ghosts>>

\* guest_rebind_vcpu_end() on the CPU of the new file.
RebindFinish(c, v) ==
    LET f == bind[v].file IN
    /\ bind[v].st = "cloned" /\ f[1] = c
    /\ Enter(c, "vgein", v, f)
    /\ file' = [file EXCEPT ![f] = restore_guest_file(@, sw[v])]
    /\ bind' = [bind EXCEPT ![v] = Status("bound", f)]
    /\ UNCHANGED <<hostVars, pte, vgein, sw, tlbVars, ghosts>>

-----------------------------------------------------------------------------
(* guest_unbind_vcpu_begin() and _end() on the CPU of the file.            *)

UnbindPrepare(c, v) ==
    LET f == bind[v].file IN
    /\ bind[v].st = "bound" /\ f[1] = c
    /\ Enter(c, "unbind invalidate", v, f)
    /\ sw' = [sw EXCEPT ![v] = save_guest_file_prepare(file[f], @)]
    /\ file' = [file EXCEPT ![f] = StopDelivery(@)]
    /\ bind' = [bind EXCEPT ![v] = Status("unbinding", f)]
    /\ UNCHANGED <<hostVars, pte, vgein, tlbVars, ghosts>>

\* unassign_imsic_begin(): invalidate_range() and then unassign_page_begin().
CanInvalidate(v) == pte[v].st = "leaf" /\ page[pte[v].file].st = "guest"
UnbindInvalidate(c) ==
    LET v == call[c].v IN
    /\ At(c, "unbind invalidate") /\ CanInvalidate(v)
    /\ pte' = [pte EXCEPT ![v].st = "invalid"]
    /\ Goto(c, "unbind unassign")
    /\ UNCHANGED <<hostVars, file, bind, vgein, sw, tlbVars, ghosts>>

UnbindUnassign(c) ==
    LET f == call[c].f IN
    /\ At(c, "unbind unassign") /\ page[f].st = "guest"
    /\ SetPage(f, Unassigning)
    /\ Return(c)
    /\ UNCHANGED <<msiVars, file, pte, bind, vgein, sw, tlbVars, ghosts>>

\* unassign_imsic_end(): an unused PTE is skipped, any other must be unassignable.
UnbindUnmap(c, v) ==
    /\ bind[v].st \in {"unbinding", "unbound"}
    /\ bind[v].st = "unbinding" => MayEnd(c, v)
    /\ Enter(c, "unbind end", v, bind[v].file)
    /\ \/ /\ pte[v].st = "unused"
          /\ UNCHANGED <<page, pte>>
       \/ /\ pte[v].st = "invalid" /\ Unassignable(pte[v].file)
          /\ SetPage(pte[v].file, Page("converted"))
          /\ pte' = [pte EXCEPT ![v] = Unused]
    /\ UNCHANGED <<msiVars, file, bind, vgein, sw, tlbVars, ghosts>>

\* unbind_imsic_finish()
UnbindFinish(c) ==
    LET v == call[c].v  f == bind[v].file IN
    /\ At(c, "unbind end")
    /\ \/ /\ bind[v].st = "unbinding" /\ f[1] = c
          /\ sw' = [sw EXCEPT ![v] = save_guest_file_finish(file[f], @)]
          /\ bind' = [bind EXCEPT ![v] = Unbound]
       \/ /\ ~(bind[v].st = "unbinding" /\ f[1] = c)
          /\ UNCHANGED <<sw, bind>>
    /\ Return(c)
    /\ UNCHANGED <<hostVars, file, pte, vgein, tlbVars, ghosts>>

-----------------------------------------------------------------------------
(* Interrupts.                                                             *)

\* inject_interrupt() from any CPU.
Inject(v, id) ==
    /\ \/ /\ bind[v].st = "bound"
          /\ file' = [file EXCEPT ![bind[v].file].eip = @ \cup {id}]
          /\ UNCHANGED sw
       \/ /\ bind[v].st # "bound"
          /\ sw' = [sw EXCEPT ![v].eip = @ \cup {id}]
          /\ UNCHANGED file
    /\ sent' = [sent EXCEPT ![v] = @ \cup {id}]
    /\ raced' = [raced EXCEPT ![v] = IF bind[v].st = "rebinding" THEN @ \cup {id} ELSE @]
    /\ UNCHANGED <<hostVars, pte, bind, vgein, call, tlbVars, want>>

is_bound_on_this_cpu(c, v) == bind[v].st = "bound" /\ bind[v].file[1] = c

\* ActiveVmPages::new(), with its flush.
Run(c, v) ==
    LET current == current_version(tracker)
        fresh == prev[v].cpu # c \/ prev[v].version < current IN
    /\ is_bound_on_this_cpu(c, v)
    /\ held[v] = NoVersion
    /\ Enter(c, "guest", v, NoFile)
    /\ tracker' = get_version(tracker)
    /\ held' = [held EXCEPT ![v] = current]
    /\ prev' = [prev EXCEPT ![v] = [cpu |-> c, version |-> current]]
    /\ tlb' = [tlb EXCEPT ![v] = IF fresh THEN {} ELSE @]
    /\ UNCHANGED <<hostVars, file, pte, bind, vgein, sw, ghosts>>

Exit(c) ==
    LET v == call[c].v IN
    /\ At(c, "guest")
    /\ tracker' = put_version(tracker, held[v])
    /\ held' = [held EXCEPT ![v] = NoVersion]
    /\ Return(c)
    /\ UNCHANGED <<hostVars, file, pte, bind, vgein, sw, prev, tlb, ghosts>>

\* A fence of the guest's address space is initiated.
FenceGuest ==
    /\ current_version(tracker) < MaxTlbVersion
    /\ CanIncrement(tracker)
    /\ tracker' = Increment(tracker)
    /\ UNCHANGED <<hostVars, file, pte, bind, vgein, sw, call, held, prev, tlb, ghosts>>

\* The running vCPU w sends v an interrupt, by a cached translation or the PTE.
Send(w, v, id) ==
    \E f \in {t[2] : t \in {x \in tlb[w] : x[1] = v}} \cup
             {g \in {pte[v].file} : pte[v].st \in {"leaf", "lockedleaf"}} :
        /\ held[w] # NoVersion
        /\ tlb' = [tlb EXCEPT ![w] = @ \cup {<<v, f>>}]
        /\ file' = [file EXCEPT ![f].eip = @ \cup {id}]
        /\ sent' = [sent EXCEPT ![v] = @ \cup {id}]
        /\ UNCHANGED <<hostVars, pte, bind, vgein, sw, call, tracker, held, prev, raced, want>>

\* The files and the sw_file a pending interrupt of v may be in.
InFiles(v) == UNION {file[f].eip : f \in {bind[v].file, bind[v].new} \ {NoFile}}
Pending(v) == InFiles(v) \cup (IF bind[v].st \in {"bound", "rebinding"} THEN {} ELSE sw[v].eip)

\* The running vCPU takes an interrupt from the file VGEIN names.
Take(c, id) ==
    LET v == call[c].v  f == vgein[v] IN
    /\ At(c, "guest")
    /\ file[f].eidelivery = 1 /\ file[f].eie = 1 /\ id \in file[f].eip
    /\ file' = [file EXCEPT ![f].eip = @ \ {id}]
    /\ sent' = [sent EXCEPT ![v] =
                  IF bind[v].st = "rebinding" /\ id \in file[bind[v].new].eip THEN @ ELSE @ \ {id}]
    /\ raced' = [raced EXCEPT ![v] = @ \ {id}]
    /\ UNCHANGED <<hostVars, pte, bind, vgein, sw, call, tlbVars, want>>

\* ... or sets up the file's registers.
Configure(c) ==
    LET v == call[c].v  f == vgein[v] IN
    /\ At(c, "guest") /\ want[v] = 0
    /\ file' = [file EXCEPT ![f].eie = 1, ![f].eidelivery = 1]
    /\ want' = [want EXCEPT ![v] = 1]
    /\ UNCHANGED <<hostVars, pte, bind, vgein, sw, call, tlbVars, sent, raced>>

Next ==
    \/ \E c \in Cpu, f \in File : ConvertBegin(c, f)
    \/ \E f \in File : Reclaim(f) \/ DeviceTranslates(f) \/ \E id \in Id : HostSends(f, id)
    \/ FenceHost \/ FenceGuest
    \/ \E c \in Cpu, v \in Vcpu :
          \/ CloneUnassign(c, v) \/ RebindFinish(c, v)
          \/ UnbindPrepare(c, v) \/ UnbindUnmap(c, v) \/ Run(c, v)
          \/ \E f \in File : BindLockPage(c, v, f) \/ RebindLockPage(c, v, f)
    \/ \E c \in Cpu :
          \/ ConvertEnd(c) \/ BindLockPte(c) \/ BindPrepare(c) \/ BindAssign(c)
          \/ BindFinish(c) \/ SetVgein(c) \/ DropMapper(c) \/ RebindLockPte(c) \/ RebindPrepare(c)
          \/ RebindRemap(c) \/ RebindUnassign(c) \/ Clone(c)
          \/ UnbindInvalidate(c) \/ UnbindUnassign(c) \/ UnbindFinish(c)
          \/ Exit(c) \/ Configure(c)
          \/ \E id \in Id : Take(c, id)
    \/ \E v \in Vcpu, id \in Id : Inject(v, id) \/ \E w \in Vcpu : Send(w, v, id)

Spec == Init /\ [][Next]_vars

-----------------------------------------------------------------------------
TypeOK ==
    /\ page \in [File -> PageState]
    /\ msi \subseteq File
    /\ file \in [File -> Registers]
    /\ pte \in [Vcpu -> Pte]
    /\ bind \in [Vcpu -> BindStatus]
    /\ vgein \in [Vcpu -> File \cup {NoFile}]
    /\ sw \in [Vcpu -> Registers]
    /\ tracker \in TlbTrackerType
    /\ held \in [Vcpu -> Nat \cup {NoVersion}]
    /\ tlb \in [Vcpu -> SUBSET (Vcpu \X File)]
    /\ sent \in [Vcpu -> SUBSET Id]

Uses(v) == {bind[v].file, bind[v].new} \ {NoFile}

\* An interrupt file serves one vCPU at a time: from the bind or the begin of a
\* rebind on, until its state is saved by the clone or the end of the unbind.
FileExclusive == \A v, w \in Vcpu : v # w => Uses(v) \cap Uses(w) = {}

\* A running vCPU takes its interrupts from a file that is its own, whose page
\* belongs to the guest: VGEIN is never left at a file that was given away.
RunsOnOwnFile ==
    \A c \in Cpu : At(c, "guest") =>
        LET v == call[c].v IN
        /\ vgein[v] \in Uses(v)
        /\ page[vgein[v]].st \in {"guest", "unassigning"}

\* A translation a running vCPU may use for the IMSIC of v leads to a file of v,
\* that is still assigned to the guest: an interrupt sent while v is moved arrives
\* in the old file before it is saved, or in the new one.
NoStaleFileTranslation ==
    \A w \in Vcpu : held[w] # NoVersion => \A t \in tlb[w] :
        t[2] \in Uses(t[1]) /\ page[t[2]].st \in {"guest", "unassigning"}

\* The vCPU is not being moved.
Settled(v) == bind[v].st \in {"bound", "unbound"}

\* Injects the interrupt "into this vCPU": whatever was sent to a vCPU and not taken is pending in
\* its file when it is bound, in its sw_file when it is not; except for interrupts injected by the
\* host in the middle of a rebind.
NoOtherInterruptLost == \A v \in Vcpu : Settled(v) => sent[v] \ raced[v] \subseteq Pending(v)

\* Nothing is delivered that was not sent to this vCPU, or that it has taken.
NoSpuriousInterrupt == \A v \in Vcpu : Settled(v) => Pending(v) \subseteq sent[v]

\* What the guest has set up in its file follows it to every file it is bound to.
ConfigurationKept ==
    \A v \in Vcpu : bind[v].st = "bound" =>
        /\ file[bind[v].file].eie = want[v]
        /\ file[bind[v].file].eidelivery = want[v]

\* The unwraps of the handlers: the page mapped in unbind, the vCPU still in the
\* binding state in bind, the page of the previous file in rebind, the MSI mapping
\* in convert.
UnwrapsSucceed ==
    \A c \in Cpu : LET v == call[c].v  f == call[c].f IN
        /\ At(c, "unbind invalidate") => CanInvalidate(v)
        /\ At(c, "bind end") => bind[v].st = "binding"
        /\ At(c, "bind assign") => pte[v].st = "locked"
        /\ At(c, "rebind remap") => pte[v].st = "lockedleaf"
        /\ At(c, "rebind unassign") => page[f].st = "guest"
        /\ At(c, "convert") => f \in msi

\* The MSI page table of the host maps files that are the host's, or that the
\* host's next fence will take from it: `dest` is "owned by the owner of this
\* MsiPageTable" as long as it is mapped.
MsiMapsOwnFiles == \A f \in msi : page[f].st \in {"host", "converting"} /\ ~Converted(f)

\* ... and so do the mappings the IOMMU has cached.
NoStaleMsiMapping == \A f \in iotlb : page[f].st \in {"host", "converting"} /\ ~Converted(f)

=============================================================================
