------------------------------ MODULE MCGuests ------------------------------
(***************************************************************************)
(* What concerns guests: their lifecycle, measurements, the pages they are *)
(* built from, their page tables, and the U-mode tasks that work on their  *)
(* memory.  No property relates two of these parts, so one is chosen at    *)
(* the beginning and the others stay as they are.                          *)
(***************************************************************************)
EXTENDS Guests, TLC
CONSTANTS Part, Page

VARIABLES
    part,
    digests, layers, boot, phase, mapped, handler, evidence, failed,            \* of Attestation
    pages, link, lists, runs, pc, guest, users, panicked,                       \* of PageLists
    tables, pool, mapper, released, alive, view,                                \* of GuestStage
    step, purpose, recovering, args, slot, umapped, regs, upc, ureq, dirty, serial, serving, answer,
    present, shares                                                             \* of Umode

-----------------------------------------------------------------------------
Att == INSTANCE Attestation WITH
    Entry <- {<<"pc1", "arg1">>, <<"pc2", "arg2">>}, Data <- {"d1"}, Index <- {2, 5, 17, 18},
    MayFail <- {TRUE, FALSE}, MaxDynamic <- 2,
    regs <- digests, state <- phase, op <- handler, panicked <- failed

\* Pages for two guests, or for one guest with two vCPUs.
Lists == INSTANCE PageLists WITH
    Page <- 1..8, RootPages <- 2, RootAlign <- 2, GuestPages <- 2, VcpuPages <- 2,
    state <- pages, refs <- users

\* Three levels of tables with two entries, and an address space that two tables of the last level
\* share.
Stage == INSTANCE GuestStage WITH
    Depth <- 3, Width <- 2, Root <- 10, TablePage <- 11..17, Page <- {1, 2}, Base <- 2, NumPages <- 3,
    Mapper <- Cpu, Careful <- TRUE

\* One CPU that copies across pages; and two CPUs whose U-mode makes unknown calls.
Copy == INSTANCE Umode WITH
    Cpu <- {"c1"}, PageBytes <- 2, NumPages <- 3, SlotPages <- 2, MaxLen <- 3, StrayCalls <- FALSE,
    pc <- step, mapped <- umapped, result <- answer
Stray == INSTANCE Umode WITH
    PageBytes <- 1, NumPages <- 1, SlotPages <- 1, MaxLen <- 1, StrayCalls <- TRUE,
    pc <- step, mapped <- umapped, result <- answer

ASSUME /\ Stage!PageTableAssumption /\ Stage!GuestStageAssumption
       /\ Copy!UmodeAssumption /\ Stray!UmodeAssumption

-----------------------------------------------------------------------------
attestationVars == <<digests, layers, boot, phase, mapped, handler, evidence, failed>>
listVars == <<pages, link, lists, runs, pc, guest, users, panicked>>
stageVars == <<tables, pool, mapper, released, alive, view>>
umodeVars == <<step, purpose, recovering, args, slot, umapped, regs, upc, ureq, dirty, serial, serving, answer,
               present, shares>>

Off == "off"
GuestsInit ==
    /\ part \in Part
    /\ Init /\ Stage!Init
    /\ IF part = "attestation" THEN Att!Init
       ELSE /\ digests = Off /\ layers = Off /\ boot = Off /\ phase = Off /\ mapped = Off /\ handler = Off
            /\ evidence = Off /\ failed = Off
    /\ IF part = "lists" THEN Lists!Init
       ELSE /\ pages = Off /\ link = Off /\ lists = Off /\ runs = Off /\ pc = Off /\ guest = Off /\ users = Off
            /\ panicked = Off
    /\ CASE part = "copy" -> Copy!Init
         [] part = "stray" -> Stray!Init
         [] OTHER -> /\ step = Off /\ purpose = Off /\ recovering = Off /\ args = Off /\ slot = Off /\ umapped = Off
                     /\ regs = Off /\ upc = Off /\ ureq = Off /\ dirty = Off /\ serial = Off /\ serving = Off
                     /\ answer = Off /\ present = Off /\ shares = Off

allVars == <<part, vars, attestationVars, listVars, stageVars, umodeVars>>

\* One guest in full, or several that compete for the places in the table, with one vCPU each and
\* without interrupt files.
OneGuest == next' <= 2
OneVcpu == \A c \in Cpu : op'[c].v = BootVcpu /\ op'[c].pc # "set_imsic"

\* Parts with a bounded number of operations come to an end.
Stop == part \in {"guests", "crowd", "attestation", "stage"} /\ UNCHANGED allVars
GuestsNext ==
    \/ /\ UNCHANGED part
       /\ CASE part = "guests" -> Next /\ OneGuest
            [] part = "crowd" -> Next /\ OneVcpu
            [] OTHER -> UNCHANGED vars
       /\ IF part = "attestation" THEN Att!Next ELSE UNCHANGED attestationVars
       /\ IF part = "lists" THEN Lists!Next ELSE UNCHANGED listVars
       /\ IF part = "stage" THEN Stage!Next ELSE UNCHANGED stageVars
       /\ CASE part = "copy" -> Copy!Next [] part = "stray" -> Stray!Next [] OTHER -> UNCHANGED umodeVars
    \/ Stop

GuestsSpec == GuestsInit /\ [][GuestsNext]_allVars
Symmetric == Permutations(Cpu) \cup Permutations(Location) \cup Permutations(Entry)

-----------------------------------------------------------------------------
\* What a guest is attested with is what it is.  The register of TVM pages of a running guest lists
\* every page that was mapped as measured, once: finalize() cannot come between the measurement and
\* the mapping of a page on another CPU.  Its attestation layer is derived once, from the values its
\* static registers still have; and the registers it can extend are those its capabilities describe
\* as dynamic.  A certificate describes all registers at one instant: an extension made on another
\* vCPU is not missing from one register while a later one shows.
EvidenceIsTrue ==
    /\ [](part = "attestation" => Att!MeasuredIsMapped /\ Att!CdiMatchesRegisters /\ Att!ExtensibleAsDescribed)
    /\ Att!EvidenceIsSnapshot

\* No page is lost and none is used twice, whichever step of creating a guest or adding a vCPU gives
\* up: a page is locked when it is on one list of locked pages, in use when it is in one list of
\* assigned pages, one run of a handler or the guest, and back with its owner otherwise.  The links
\* of the page tracker are exactly the lists; and the unwrap()s hold whose comments say so: pages
\* that were locked can be assigned and linked, a list that was contiguous still is, and what was
\* assigned can be released.
PagesAccounted == part = "lists" => Lists!PagesAccounted /\ Lists!LinksAreLists /\ Lists!UnwrapsHold

\* The page table implements a map of addresses: filling in tables changes no entry, no operation
\* touches an address it was not given, and the drop releases every page once.  Every table page is
\* in the pool or linked from one entry; a mapper can map what it has not mapped yet ("guaranteed to
\* succeed", page_table.rs 1197); no PTE stays locked without a mapper that covers it; and the pages
\* of max_pte_pages() suffice, whatever is mapped in whatever order.
StageIsMap ==
    /\ [](part = "stage" => /\ Stage!OneReference /\ Stage!MapperSucceeds
                            /\ Stage!LocksHaveMappers /\ Stage!PoolSuffices)
    /\ Stage!ReleasedOnce
    /\ Stage!ImplementsPageMap

\* When U-mode copies, every byte of both ranges is mapped in its slot, at the guest address the
\* call named ("Both ranges are mapped for at least len bytes", vm.rs 1542); a page has as many
\* references as slots map it, and is mapped in the guest as long as one does, whatever the other
\* CPU converts; between two calls both slots are free, also after a crash; what send_req returns is
\* the answer to this request; and the reset task always reaches its main loop.
CopyIsPinned ==
    /\ part = "copy" => /\ Copy!CopyIsMapped /\ Copy!OwnAnswer /\ Copy!PinnedWhileMapped
                        /\ Copy!SlotsFreeWhenIdle /\ Copy!Recovers
    /\ part = "stray" => Stray!PinnedWhileMapped /\ Stray!SlotsFreeWhenIdle /\ Stray!Recovers
=============================================================================
