------------------------------- MODULE MCBoot -------------------------------
(***************************************************************************)
(* Boot: the memory map and what is done with it, the U-mode image and the *)
(* page tables of the CPUs, and the CPUs up to and while they run the host *)
(* VM; and the list of the memory regions of a VM.  No property relates    *)
(* two of these parts, so one is chosen at the beginning and the others    *)
(* stay as they are.                                                       *)
(***************************************************************************)
EXTENDS HostRun
CONSTANT Part

VARIABLES
    part,
    fdt, phase, memory, page_map, next_page, used, list, loader, fdt_pages, devices, ram,  \* of BootMemory
    header, ph, parsing, at, segments, private, pt, next, mem, dirty,                      \* of HypMap
    regions, updater, all, finalized, before, range                                        \* of VmRegionList

-----------------------------------------------------------------------------
\* Pages of 2 units, and an alignment of 2 pages.
Fdts(memories, fdts, reserveds, hosts) ==
    {[memory |-> m, start |-> 32, stack_end |-> 38, fdt |-> f, reserved |-> r, host |-> h] :
        m \in memories, f \in fdts, r \in reserveds, h \in hosts}
BootFdts ==
    Fdts({<< <<32, 32>>, <<72, 32>> >>, << <<72, 25>>, <<32, 36>> >>, << <<34, 40>> >>,
          << <<32, 40>>, <<72, 12>>, <<88, 16>> >>},
         {<<40, 3>>, <<44, 4>>}, {<<>>, << <<52, 4>> >>, << <<80, 8>> >>},
         {<< <<48, 5>>, <<56, 4>> >>, << <<50, 4>> >>})
LoaderFdts ==
    Fdts({<< <<32, 96>> >>, << <<32, 56>>, <<92, 47>> >>, << <<32, 40>>, <<76, 20>>, <<100, 48>> >>, << <<32, 72>> >>},
         {<<40, 3>>}, {<<>>, << <<62, 4>> >>, << <<110, 4>> >>},
         {<< <<48, 4>> >>, << <<48, 5>>, <<56, 4>> >>, << <<48, 12>>, <<60, 8>> >>})
Memory == INSTANCE BootMemory WITH
    PAGE <- 2, ALIGN <- 4, MaxRegions <- 12, MaxEntries <- 4, HeapSize <- 4, PerCpuSize <- 4, InfoPerPage <- 16,
    Fdt <- BootFdts, Mmio <- {<<8, 3>>, <<11, 2>>, <<104, 4>>}, Align <- {2, 4}, MaxCount <- 3, MaxAllocs <- 2,
    KERNEL_OFFSET <- 4, INITRAMFS_OFFSET <- 12, FDT_OFFSET <- 20, FdtSize <- 3, HostState <- <<>>, regions <- memory
Loader == INSTANCE BootMemory WITH
    PAGE <- 2, ALIGN <- 4, MaxRegions <- 14, MaxEntries <- 6, HeapSize <- 4, PerCpuSize <- 4, InfoPerPage <- 16,
    Fdt <- LoaderFdts, Mmio <- {<<8, 3>>, <<88, 3>>, <<144, 4>>}, Align <- {2, 4}, MaxCount <- 2, MaxAllocs <- 1,
    KERNEL_OFFSET <- 4, INITRAMFS_OFFSET <- 12, FDT_OFFSET <- 20, FdtSize <- 3,
    HostState <- << <<2, 4>>, <<1, 2>>, <<1, 2>> >>, regions <- memory

\* Text, data with zeroes after it, zeroes only, segments that end inside a page or have more
\* data than room; then ones that are not accepted, and one that is not loaded.
GoodHeader == [ident |-> TRUE, phoff |-> 1, phentsize |-> 1]
AnyHeader ==
    {GoodHeader, [GoodHeader EXCEPT !.ident = FALSE], [GoodHeader EXCEPT !.phoff = 0],
     [GoodHeader EXCEPT !.phentsize = 0], [GoodHeader EXCEPT !.phentsize = 4], [GoodHeader EXCEPT !.phoff = 7]}
Load(offset, filesz, vaddr, memsz, flags) ==
    [type |-> "load", offset |-> offset, filesz |-> filesz, vaddr |-> 20 + vaddr, memsz |-> memsz, flags |-> flags]
Good == {Load(2, 2, 20, 2, "RX"), Load(4, 1, 22, 3, "RW"), Load(0, 0, 26, 1, "RW"), Load(3, 3, 24, 1, "R"),
         Load(5, 3, 22, 2, "RW")}
Bad == {Load(6, 3, 20, 4, "R"), Load(2, 2, 21, 2, "R"), Load(2, 2, 26, 3, "RW"), Load(2, 2, 20, 2, "W"),
        Load(2, 2, 30, 2, "R"), Load(2, 2, -16, 2, "RW"),
        [Load(2, 2, 20, 2, "R") EXCEPT !.type = "note"], Load(9, 2, 20, 0, "R")}
HwMemMap ==
    <<[base |-> 0, count |-> 1, type |-> "HypervisorImage"], [base |-> 1, count |-> 1, type |-> "FirmwareReserved"],
      [base |-> 2, count |-> 1, type |-> "HostKernelImage"], [base |-> 3, count |-> 16, type |-> "Available"],
      [base |-> 19, count |-> 1, type |-> "Mmio"]>>
Map == INSTANCE HypMap WITH
    Cpu <- {"c1", "c2"}, PAGE <- 2, AddrMax <- 51, UMODE_VA_START <- 40, UMODE_VA_END <- 48, ELF_SEGMENTS_MAX <- 3,
    FileLen <- 8, Headers <- {GoodHeader}, ProgramHeaders <- Good, MaxHeaders <- 2, MemMap <- HwMemMap,
    pc <- parsing, regions <- private
Image == INSTANCE HypMap WITH
    Cpu <- {"c1"}, PAGE <- 2, AddrMax <- 51, UMODE_VA_START <- 40, UMODE_VA_END <- 48, ELF_SEGMENTS_MAX <- 3,
    FileLen <- 8, Headers <- AnyHeader, ProgramHeaders <- Good \cup Bad, MaxHeaders <- 3, MemMap <- HwMemMap,
    pc <- parsing, regions <- private

\* Four pages and room for three regions: splits that fit and splits that do not.
Regions == INSTANCE VmRegionList WITH NumAddrs <- 4, MaxRegions <- 3, MaxVersion <- 1, MinLen <- 1

ASSUME Map!HypMapAssumption /\ Image!HypMapAssumption /\ Regions!VmRegionListAssumption

-----------------------------------------------------------------------------
loaderVars == <<fdt, phase, memory, page_map, next_page, used, list, loader, fdt_pages, devices, ram>>
mapVars == <<header, ph, parsing, at, segments, private, pt, next, mem, dirty>>
regionVars == <<regions, updater, all, finalized, before, range>>
allVars == <<part, vars, loaderVars, mapVars, regionVars>>

Off == "off"
BootInit ==
    /\ part \in Part
    /\ Init /\ Regions!Init
    /\ CASE part = "memory" -> Memory!Init /\ loader = Off /\ fdt_pages = Off /\ devices = Off /\ ram = Off
         [] part = "loader" -> Loader!HostInit
         [] OTHER -> /\ fdt = Off /\ phase = Off /\ memory = Off /\ page_map = Off /\ next_page = Off /\ used = Off
                     /\ list = Off /\ loader = Off /\ fdt_pages = Off /\ devices = Off /\ ram = Off
    /\ CASE part = "map" -> Map!Init
         [] part = "image" -> Image!Init
         [] OTHER -> /\ header = Off /\ ph = Off /\ parsing = Off /\ at = Off /\ segments = Off /\ private = Off
                     /\ pt = Off /\ next = Off /\ mem = Off /\ dirty = Off

\* The machine that is powered off, and the image that is rejected.
Stop == part \in {"run", "map", "image"} /\ UNCHANGED allVars
BootNext ==
    \/ /\ UNCHANGED part
       /\ IF part = "run" THEN Next ELSE UNCHANGED vars
       /\ CASE part = "memory" -> Memory!Next /\ UNCHANGED <<loader, fdt_pages, devices, ram>>
            [] part = "loader" -> Loader!HostNext
            [] OTHER -> UNCHANGED loaderVars
       /\ CASE part = "map" -> Map!Next [] part = "image" -> Image!Next [] OTHER -> UNCHANGED mapVars
       /\ IF part = "regions" THEN Regions!Next ELSE UNCHANGED regionVars
    \/ Stop
BootSpec == BootInit /\ [][BootNext]_allVars

-----------------------------------------------------------------------------
\* No page of memory is given out twice: the heap, the page map, every allocation and the host's
\* list are apart from each other and lie in memory that the device tree describes.  Memory that
\* holds the hypervisor, the device tree, firmware's data or the host's images is not given out, the
\* regions of the map stay in order and apart, and the host gets every page that is left.  The page
\* that the page map's iterator pairs with an address is the one it has for the address.
OnePurpose ==
    part = "memory" => /\ Memory!OnePurpose /\ Memory!ReservedIsKept /\ Memory!RegionsApart
                       /\ Memory!HostGetsTheRest /\ Memory!IterMatchesGet

\* The memory that the host's device tree describes is all mapped, to different pages, which are the
\* host's images and the pages that the hypervisor has left; "each contiguous T::TOP_LEVEL_ALIGN
\* block of the guest physical address space of the host VM maps to a contiguous T::TOP_LEVEL_ALIGN
\* block of the host physical address space"; and the initramfs and the device tree are where the
\* kernel is told to look.
HostIsLoaded == part = "loader" => Loader!RamIsMapped /\ Loader!BlocksContiguous /\ Loader!ImagesWhereTold

\* U-mode sees its image and nothing else.  A page table holds the image as the program headers
\* describe it, from data in the file, within U-mode's area; the private pages of a CPU are in its
\* table only; and after restore_umode() ("Restores U-mode mappings to initial state") nothing is
\* left of what U-mode wrote, between the end of a segment and the end of its last page either.
ImageIsPrivate ==
    /\ part = "map" => Map!ImageAsLinked /\ Map!NothingLeft /\ Map!PrivateApart
    /\ part = "image" => Image!ImageAsLinked /\ Image!DataInFile /\ Image!UserMapsOnlyImage

\* The region list implements the map from page to type: add, remove, finish and update_all retype
\* exactly the pages they name, whatever is split and merged on the way; contains() finds every
\* range whose pages all have the type; and "if the returned VmRegionUpdater is dropped before
\* calling finish(), the region returns to its previous type".
RegionsAreMap ==
    /\ [](part = "regions" => Regions!ContainsExact)
    /\ Regions!RevertRestores
    /\ Regions!ImplementsRegionMap
=============================================================================
