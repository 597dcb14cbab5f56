----------------------------- MODULE MCDevices -----------------------------
(***************************************************************************)
(* What concerns interrupts and DMA: the IOMMU with its device directory   *)
(* and MSI page tables, and the guest interrupt files of the IMSICs.  No   *)
(* property relates two of these parts, so one is chosen at the beginning  *)
(* and the others stay as they are.                                        *)
(***************************************************************************)
EXTENDS Iommu, TLC
CONSTANTS Part, FileId, Vcpu, NoVcpu, NoFile

VARIABLES
    part,
    table, leaf, used, storing, added, enabled,                                 \* of DeviceDirectory
    geometry, regions, percpu, hostMap, pages, entry, mapped,                   \* of ImsicTopology
    page, msi, filetlb, hostVersion, file, pte, bind, vgein, sw, call, tracker, held, prev, tlb, sent, raced, want
                                                                                \* of Imsic

-----------------------------------------------------------------------------
\* Three levels, and IDs that share some of their tables.
Directory == INSTANCE DeviceDirectory WITH
    Id <- {0, 1, 5, 6, 13}, LEAF_INDEX_BITS <- 1, NON_LEAF_INDEX_BITS <- 2, LEVELS <- 3, NumPages <- 4

\* Two CPUs with interrupt files in one or two groups; and an MSI page table that is larger and
\* smaller than a page.
Topology == INSTANCE ImsicTopology WITH
    AddrBits <- 6, MinGroupShift <- 3, MaxGuestFiles <- 2, GroupBits <- {0, 1}, GroupShifts <- {3, 4},
    HartBits <- {0, 1, 2}, GuestBits <- {1, 2}, Bases <- {0, 8, 16, 24, 32}, RegionSizes <- {0, 2, 3, 4, 8},
    EntriesPerPage <- 4, MaxMapped <- 2
Msi == INSTANCE ImsicTopology WITH
    Cpu <- {"c1"}, AddrBits <- 6, MinGroupShift <- 2, MaxGuestFiles <- 3, GroupBits <- {0, 1},
    GroupShifts <- {2, 3, 4}, HartBits <- {0, 1}, GuestBits <- {1, 2}, Bases <- {0, 32}, RegionSizes <- {4},
    EntriesPerPage <- 4, MaxMapped <- 2

\* A vCPU that moves between two CPUs; two vCPUs that take turns on the CPUs' files as long as no
\* rebinding is fenced; and the same with fences, but without interrupts.
One == INSTANCE Imsic WITH
    Vcpu <- {"v1"}, Id <- {"i1"}, Careful <- TRUE, MaxTlbVersion <- 2, MaxHostVersion <- 1,
    iotlb <- filetlb, version <- hostVersion
Two == INSTANCE Imsic WITH
    Id <- {"i1"}, Careful <- TRUE, MaxTlbVersion <- 0, MaxHostVersion <- 1, iotlb <- filetlb, version <- hostVersion
Turns == INSTANCE Imsic WITH
    Id <- {}, Careful <- TRUE, MaxTlbVersion <- 1, MaxHostVersion <- 1, iotlb <- filetlb, version <- hostVersion

ASSUME /\ Directory!DirectoryAssumption /\ Topology!TopologyAssumption /\ Msi!MsiAssumption
       /\ One!ImsicAssumption /\ Two!ImsicAssumption /\ Turns!ImsicAssumption

-----------------------------------------------------------------------------
directoryVars == <<table, leaf, used, storing, added, enabled>>
topologyVars == <<geometry, regions, percpu, hostMap, pages, entry, mapped>>
imsicVars == <<page, msi, filetlb, hostVersion, file, pte, bind, vgein, sw, call, tracker, held, prev, tlb, sent,
               raced, want>>
allVars == <<part, vars, directoryVars, topologyVars, imsicVars>>

Off == "off"
DevicesInit ==
    /\ part \in Part
    /\ Init
    /\ IF part = "directory" THEN Directory!Init
       ELSE /\ table = Off /\ leaf = Off /\ used = Off /\ storing = Off /\ added = Off /\ enabled = Off
    /\ CASE part = "topology" -> Topology!Init /\ pages = Off /\ entry = Off /\ mapped = Off
         [] part = "msi" -> Msi!MsiInit
         [] OTHER -> /\ geometry = Off /\ regions = Off /\ percpu = Off /\ hostMap = Off /\ pages = Off
                     /\ entry = Off /\ mapped = Off
    /\ CASE part = "one" -> One!Init
         [] part = "two" -> Two!Init
         [] part = "turns" -> Turns!Init
         [] OTHER -> /\ page = Off /\ msi = Off /\ filetlb = Off /\ hostVersion = Off /\ file = Off /\ pte = Off
                     /\ bind = Off /\ vgein = Off /\ sw = Off /\ call = Off /\ tracker = Off /\ held = Off
                     /\ prev = Off /\ tlb = Off /\ sent = Off /\ raced = Off /\ want = Off

\* The parts that may stop: the IOMMU without VMs to serve, a finished probe, versions used up.
Stop == part \in {"iommu", "topology", "msi", "one", "two", "turns"} /\ UNCHANGED allVars
DevicesNext ==
    \/ /\ UNCHANGED part
       /\ IF part = "iommu" THEN Next ELSE UNCHANGED vars
       /\ IF part = "directory" THEN Directory!Next ELSE UNCHANGED directoryVars
       /\ CASE part = "topology" -> Topology!Next /\ UNCHANGED <<pages, entry, mapped>>
            [] part = "msi" -> Msi!MsiNext
            [] OTHER -> UNCHANGED topologyVars
       /\ CASE part = "one" -> One!Next [] part = "two" -> Two!Next [] part = "turns" -> Turns!Next [] OTHER -> UNCHANGED imsicVars
    \/ Stop
Devices == DevicesInit /\ [][DevicesNext]_allVars
Symmetric == Permutations(Cpu) \cup Permutations(Vm) \cup Permutations(Device) \cup Permutations(Vcpu)

-----------------------------------------------------------------------------
\* The hardware finds a valid context for exactly the devices that are enabled, with the tables they
\* were enabled with, in the middle of set() too; a device is known once it was added, also when
\* adding others ran out of pages; and a table page has one place in the tree (get_entry).
DirectoryIsExact ==
    part = "directory" => Directory!HardwareFindsEnabled /\ Directory!AddedIsPresent /\ Directory!TreeOfPages

\* Every interrupt file has an address, its own, and the address leads back to it; after a probe no
\* two CPUs share a file, and a guest file the host names in a bind is mapped to a file of the CPU
\* its vCPU runs on.  A device's write to the address of a file goes where the MSI page table maps
\* the file, one to any other address under the pattern is not translated, and the hardware stays
\* within the table, whatever address a device writes to.
FilesAreAddressed ==
    /\ part = "topology" => /\ Topology!LocationsAreAddresses /\ Topology!CpusHaveTheirOwnFiles
                            /\ Topology!HostFileIsOnThisCpu
    /\ part = "msi" => Msi!HardwareStaysInTable /\ Msi!TranslatesAsMapped

\* An interrupt file serves one vCPU at a time: from the bind or the begin of a rebind on, until its
\* state is saved by the clone or the end of the unbind.  A running vCPU has VGEIN at a file of its
\* own; a translation that a vCPU may use for the IMSIC of v leads to a file of v that is still
\* assigned to the guest; the host's MSI page table, and what the IOMMU has cached of it, map files
\* that are the host's or that its next fence takes from it; and the handlers' unwraps succeed.
FilesAreOwn ==
    /\ part = "one" => /\ One!RunsOnOwnFile /\ One!NoStaleFileTranslation /\ One!MsiMapsOwnFiles
                       /\ One!NoStaleMsiMapping /\ One!UnwrapsSucceed
    /\ part = "two" => Two!FileExclusive /\ Two!NoStaleFileTranslation
    /\ part = "turns" => Turns!FileExclusive /\ Turns!NoStaleFileTranslation

\* Nothing is delivered that was not sent to this vCPU, or that it has taken; what the guest has set
\* up in its file follows it to every file it is bound to; and no interrupt is lost on the way but
\* those that the host injects in the middle of a rebind (save_guest_file, restore_guest_file).
InterruptsArrive ==
    /\ part = "one" => One!NoSpuriousInterrupt /\ One!ConfigurationKept /\ One!NoOtherInterruptLost
    /\ part = "two" => Two!NoOtherInterruptLost
=============================================================================
