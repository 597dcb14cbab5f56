---------------------------- MODULE ImsicTopology ----------------------------
(***************************************************************************)
(* Where the interrupt files are: the address scheme of an IMSIC geometry  *)
(* (drivers/src/imsic/geometry.rs), the assignment of interrupt files to   *)
(* CPUs when the device tree is probed (drivers/src/imsic/core.rs), and    *)
(* the host VM's view of its guest files, whose numbers are one less than  *)
(* the physical ones.  Addresses are page numbers, so that the guest index *)
(* starts at bit 0; index widths are taken to be such that their sums do   *)
(* not overflow a u32.                                                     *)
(***************************************************************************)
EXTENDS Integers, Sequences, SequencesExt, FiniteSets

CONSTANTS
    Cpu,
    AddrBits,           \* width of a page number
    MinGroupShift,      \* MIN_GROUP_INDEX_SHIFT, in pages
    MaxGuestFiles,      \* MAX_GUEST_FILES
    GroupBits, GroupShifts, HartBits, GuestBits,    \* index widths to try
    Bases,              \* base addresses to try
    RegionSizes         \* sizes of a region of the device tree, in pages

TopologyAssumption ==
    /\ AddrBits \in Nat /\ MinGroupShift \in Nat /\ MaxGuestFiles \in Nat
    /\ Bases \subseteq 0..(2^AddrBits - 1)

\* The None of an Option of an address, and of a location.
NoAddr == -1
NoLoc == [group |-> -1, hart |-> -1, file |-> -1]
NoCpus == <<>>
Addr == 0..(2^AddrBits - 1)

-----------------------------------------------------------------------------
(* ImsicGeometry.                                                          *)

extract(val, bits, shift) == (val \div 2^shift) % 2^bits

\* addr & index_mask()
Masked(g, addr) ==
    extract(addr, g.hartBits + g.guestBits, 0)
        + extract(addr, g.groupBits, g.groupShift) * 2^g.groupShift

\* ImsicGeometry::new()
ValidGeometry(g) ==
    /\ g.guests < 2^g.guestBits
    /\ g.groupShift + g.groupBits < AddrBits
    /\ g.groupShift >= MinGroupShift
    /\ g.groupShift >= g.hartBits + g.guestBits
    /\ Masked(g, g.base) = 0

checked_add_pages(addr, pages) == IF addr + pages \in Addr THEN addr + pages ELSE NoAddr

Location(g) == [group : 0..(2^g.groupBits - 1), hart : 0..(2^g.hartBits - 1), file : 0..g.guests]

location_to_addr(g, loc) ==
    IF loc \notin Location(g) THEN NoAddr
    ELSE checked_add_pages(g.base,
            loc.file + loc.hart * 2^g.guestBits + loc.group * 2^g.groupShift)

addr_to_location(g, addr) ==
    LET file == extract(addr, g.guestBits, 0) IN
    IF addr - Masked(g, addr) # g.base \/ file > g.guests THEN NoLoc
    ELSE [group |-> extract(addr, g.groupBits, g.groupShift),
          hart  |-> extract(addr, g.hartBits, g.guestBits),
          file  |-> file]

\* group_ranges(): the pages of each group, as <<base, pages>>.
group_ranges(g) ==
    [i \in 1..2^g.groupBits |->
        <<checked_add_pages(g.base, (i - 1) * 2^g.groupShift), 2^(g.hartBits + g.guestBits)>>]
Pages(range) == range[1]..(range[1] + range[2] - 1)

\* host_vm_geometry(): the first guest file is the host's supervisor file.
host_vm_geometry(g) == [g EXCEPT !.guests = @ - 1]

-----------------------------------------------------------------------------
(* Imsic::probe_from(): regs are the <<base, size>> pairs of 'reg', ints   *)
(* the CPUs of 'interrupts-extended'.                                      *)

PerHart(g) == 2^g.guestBits
HartAddrs(g, regs) ==
    FlattenSeq([r \in DOMAIN regs |->
        [i \in 1..(regs[r][2] \div PerHart(g)) |-> regs[r][1] + (i - 1) * PerHart(g)]])

Overlap(a, b) == Pages(a) \cap Pages(b) # {}

RegionStartsGroup(g, region) ==
    LET loc == addr_to_location(g, region[1]) IN
    loc # NoLoc /\ loc.hart = 0 /\ loc.file = 0

ProbeSucceeds(g, regs, ints) ==
    LET addrs == HartAddrs(g, regs) IN
    /\ g.guests \in 1..MaxGuestFiles
    /\ \A r \in DOMAIN regs : RegionStartsGroup(g, regs[r]) /\ regs[r][2] % PerHart(g) = 0
    /\ Len(addrs) = Cardinality(Cpu)
    /\ \A i \in DOMAIN addrs : addr_to_location(g, addrs[i]) # NoLoc
    /\ \A i, j \in DOMAIN addrs : i # j => ints[i] # ints[j]
    \* add_mmio_region() of every region
    /\ \A r, q \in DOMAIN regs : r # q => ~Overlap(regs[r], regs[q])

PerCpu(g, regs, ints) ==
    [c \in Cpu |->
        addr_to_location(g, HartAddrs(g, regs)[CHOOSE i \in DOMAIN ints : ints[i] = c])]

\* take_guest_files(): the pages of cpu's guest files.
take_guest_files(g, loc) ==
    LET base == location_to_addr(g, [loc EXCEPT !.file = 1]) IN base..(base + g.guests - 1)

-----------------------------------------------------------------------------
(* One probe, and a bind by the host on one CPU.                           *)

VARIABLES
    geometry,   \* the physical geometry
    regions,    \* the 'reg' property
    percpu,     \* the location of each CPU, NoCpus before the probe and when it fails
    hostMap     \* host address of an interrupt file -> page, as added by the host VM

vars == <<geometry, regions, percpu, hostMap>>

Geometry ==
    {g \in [base : Bases, groupBits : GroupBits, groupShift : GroupShifts,
            hartBits : HartBits, guestBits : GuestBits \ {0}, guests : 0..MaxGuestFiles] :
        ValidGeometry(g)}

Init ==
    /\ geometry \in Geometry
    /\ regions = <<>>
    /\ percpu = NoCpus
    /\ hostMap = <<>>

Region == Addr \X RegionSizes

Probe ==
    /\ percpu = NoCpus
    /\ \E n \in 1..2 : \E regs \in [1..n -> {r \in Region : r[1] - Masked(geometry, r[1]) = geometry.base}],
             ints \in [1..Cardinality(Cpu) -> Cpu] :
        /\ ProbeSucceeds(geometry, regs, ints)
        /\ regions' = regs
        /\ percpu' = PerCpu(geometry, regs, ints)
    /\ UNCHANGED <<geometry, hostMap>>

\* add_imsic_pages() for cpu: the guest files, from the host's supervisor file on.
AddImsicPages(c) ==
    LET host == host_vm_geometry(geometry)
        to == location_to_addr(host, percpu[c])
        files == take_guest_files(geometry, percpu[c])
        base == CHOOSE p \in files : \A q \in files : p <= q IN
    /\ percpu # NoCpus /\ to \notin DOMAIN hostMap
    /\ hostMap' = [a \in DOMAIN hostMap \cup to..(to + geometry.guests - 1) |->
                     IF a \in DOMAIN hostMap THEN hostMap[a] ELSE base + (a - to)]
    /\ UNCHANGED <<geometry, regions, percpu>>

Next == Probe \/ \E c \in Cpu : AddImsicPages(c)

Spec == Init /\ [][Next]_vars

-----------------------------------------------------------------------------
TypeOK ==
    /\ geometry \in Geometry
    /\ percpu = NoCpus \/ percpu \in [Cpu -> Location(geometry)]
    /\ \A a \in DOMAIN hostMap : hostMap[a] \in Addr

\* Every interrupt file has an address, its own, and the address leads back to it;
\* the ranges of the groups hold exactly the addresses of the scheme.
LocationsAreAddresses ==
    LET g == geometry
        ranges == group_ranges(g) IN
    /\ \A loc \in Location(g) :
        /\ location_to_addr(g, loc) # NoAddr
        /\ addr_to_location(g, location_to_addr(g, loc)) = loc
    /\ \A a \in Addr :
        /\ addr_to_location(g, a) # NoLoc => location_to_addr(g, addr_to_location(g, a)) = a
        /\ (\E i \in DOMAIN ranges : a \in Pages(ranges[i])) <=> (a - Masked(g, a) = g.base)

\* After a probe no two CPUs share an interrupt file, and the files of every CPU lie
\* in the regions of the device tree.
CpusHaveTheirOwnFiles ==
    percpu # NoCpus =>
        \A c \in Cpu :
            /\ \A d \in Cpu \ {c} :
                take_guest_files(geometry, percpu[c]) \cap take_guest_files(geometry, percpu[d]) = {}
            /\ \A p \in take_guest_files(geometry, percpu[c]) :
                \E r \in DOMAIN regions : p \in Pages(regions[r])

\* A guest file the host names in a bind on its vCPU is mapped, in the host's address
\* space, to a file of the CPU the host's vCPU runs on, one number higher: the file
\* bind_imsic_prepare() clears is the one whose page is assigned.
HostFileIsOnThisCpu ==
    LET host == host_vm_geometry(geometry) IN
    percpu # NoCpus =>
        \A c \in Cpu : \A file \in 0..host.guests :
            LET a == location_to_addr(host, [percpu[c] EXCEPT !.file = file]) IN
            a \in DOMAIN hostMap =>
                addr_to_location(geometry, hostMap[a]) = [percpu[c] EXCEPT !.file = file + 1]

-----------------------------------------------------------------------------
(* The MSI page table of a VM: entries are indexed by the densely packed   *)
(* index bits of an interrupt file's location, in the VM's geometry; the   *)
(* IOMMU finds them by the bits of the address under msi_addr_mask.        *)

CONSTANTS
    EntriesPerPage,     \* 4096 / 16
    MaxMapped           \* bound on entries in use

MsiAssumption == EntriesPerPage \in Nat \ {0} /\ MaxMapped \in Nat

VARIABLES
    pages,      \* number of pages given to the table
    entry,      \* index -> page number of the destination, or NoAddr
    mapped      \* location -> destination of the calls so far

msiVars == <<geometry, pages, entry, mapped>>

src == host_vm_geometry(geometry)

index_of_overlapping(g, loc) ==
    loc.file + loc.hart * 2^g.guestBits + loc.group * 2^g.guestBits
MsiPageTableIndex(g, loc) ==
    loc.file + loc.hart * 2^g.guestBits + loc.group * 2^(g.guestBits + g.hartBits)

\* required_table_size(), in entries
required_table_size(g) ==
    LET n == 2^(g.groupBits + g.hartBits + g.guestBits)
    IN IF n < EntriesPerPage THEN EntriesPerPage ELSE n

\* MsiPageTable::new(): enough pages at a base that is aligned to the size.
MsiInit ==
    /\ geometry \in {g \in Geometry : g.guests > 0}
    /\ regions = <<>> /\ percpu = NoCpus /\ hostMap = <<>>
    /\ pages \in 1..(2 * (required_table_size(src) \div EntriesPerPage))
    /\ pages * EntriesPerPage >= required_table_size(src)
    /\ entry = [i \in 0..(pages * EntriesPerPage - 1) |-> NoAddr]
    /\ mapped = <<>>

Put(loc, dest) ==
    /\ entry' = [entry EXCEPT ![MsiPageTableIndex(src, loc)] = dest]
    /\ mapped' = [l \in DOMAIN mapped \cup {loc} |-> IF l = loc THEN dest ELSE mapped[l]]
    /\ UNCHANGED <<geometry, regions, percpu, hostMap, pages>>

\* map() and remap(), to an interrupt file the VM owns.
map(loc, dest) ==
    /\ Cardinality(DOMAIN mapped) < MaxMapped
    /\ entry[MsiPageTableIndex(src, loc)] = NoAddr /\ Put(loc, dest)
remap(loc, dest) == entry[MsiPageTableIndex(src, loc)] # NoAddr /\ Put(loc, dest)
unmap(loc) ==
    /\ entry[MsiPageTableIndex(src, loc)] # NoAddr
    /\ entry' = [entry EXCEPT ![MsiPageTableIndex(src, loc)] = NoAddr]
    /\ mapped' = [l \in DOMAIN mapped \ {loc} |-> mapped[l]]
    /\ UNCHANGED <<geometry, regions, percpu, hostMap, pages>>

MsiNext ==
    \E loc \in Location(src) :
        \/ unmap(loc)
        \/ \E file \in 1..2 :
            LET dest == location_to_addr(geometry, [loc EXCEPT !.file = file])
            IN dest # NoAddr /\ (map(loc, dest) \/ remap(loc, dest))

MsiSpec == MsiInit /\ [][MsiNext]_<<msiVars, regions, percpu, hostMap>>

-----------------------------------------------------------------------------
\* The hardware: an address matches the pattern outside the mask, and its bits under the
\* mask, packed, are the index.
HwMatches(a) == a - Masked(src, a) = src.base
HwIndex(a) ==
    extract(a, src.hartBits + src.guestBits, 0)
        + extract(a, src.groupBits, src.groupShift) * 2^(src.hartBits + src.guestBits)

\* The hardware stays within the table, whatever address a device writes to.
HardwareStaysInTable == \A a \in Addr : HwMatches(a) => HwIndex(a) \in DOMAIN entry

\* A write to the address of an interrupt file goes where the file is mapped, and one to
\* any other address under the pattern is not translated.
TranslatesAsMapped ==
    \A a \in Addr :
        LET loc == addr_to_location(src, a)
        IN HwMatches(a) /\ HwIndex(a) \in DOMAIN entry =>
            entry[HwIndex(a)] =
                (IF loc # NoLoc /\ loc \in DOMAIN mapped THEN mapped[loc] ELSE NoAddr)

=============================================================================
