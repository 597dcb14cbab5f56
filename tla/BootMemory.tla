----------------------------- MODULE BootMemory -----------------------------
(***************************************************************************)
(* Physical memory during boot: the memory map built from the device tree, *)
(* the heap and device regions taken from it, the page map and the         *)
(* allocator made from the map, and the list of pages left for the host.   *)
(* A region is <<base, size>> in the units of the device tree.             *)
(***************************************************************************)
EXTENDS Naturals, Integers, Sequences, FiniteSets, FiniteSetsExt, SequencesExt, TLC
CONSTANTS
    PAGE,         \* PageSize::Size4k, in units
    ALIGN,        \* min_ram_alignment: the alignment of the top-level page table
    MaxRegions,   \* capacity of the memory map
    MaxEntries,   \* MAX_SPARSE_MAP_ENTRIES
    HeapSize, PerCpuSize, InfoPerPage,  \* PageInfos that fit in a page
    Fdt,          \* the device trees explored
    Mmio,         \* regions that drivers add
    Align,        \* alignments of allocations, in units
    MaxCount,     \* bound: pages of one allocation
    MaxAllocs     \* bound: allocations before the page tracker is made
VARIABLES
    fdt,          \* the device tree
    phase,        \* how far boot has come
    regions,      \* HwMemMap::regions
    page_map,     \* PageMap: the states of the pages and the sparse map
    next_page,    \* of HypPageAlloc
    used,         \* history: pairs of a page and who was given it
    list          \* pages of the host's list, in order

vars == <<fdt, phase, regions, page_map, next_page, used, list>>

Failed == [ok |-> FALSE, regions |-> <<>>]
Done(r) == [ok |-> Len(r) <= MaxRegions, regions |-> r]
NoPage == -1
NoMap == [pages |-> <<>>, sparse |-> <<>>]

-----------------------------------------------------------------------------
(* HwMemMap.                                                                *)
Region(type, base, size) == [type |-> type, base |-> base, size |-> size]
end(r) == r.base + (r.size \div PAGE) * PAGE

is_aligned(v) == v % ALIGN = 0
align_up(v) == ((v + ALIGN - 1) \div ALIGN) * ALIGN
align_down_page(v) == (v \div PAGE) * PAGE
align_down(v) == (v \div ALIGN) * ALIGN

\* Insert a region in order of the bases unless it overlaps another one.
Overlaps(rs, r) ==
    \E i \in DOMAIN rs : \/ rs[i].base > r.base /\ end(r) > rs[i].base
                         \/ rs[i].base <= r.base /\ r.base < end(rs[i])
Inserted(rs, r) ==
    LET index == Cardinality({i \in DOMAIN rs : rs[i].base <= r.base}) + 1
    IN IF Overlaps(rs, r) THEN Failed ELSE Done(InsertAt(rs, index, r))

add_memory_region(rs, base, size) ==
    IF ~is_aligned(base) THEN Failed
    ELSE Inserted(rs, Region("available", base, align_down(size)))
add_mmio_region(rs, base, size) ==
    Inserted(rs, Region("mmio", (base \div PAGE) * PAGE, ((size + PAGE - 1) \div PAGE) * PAGE))

\* Replace the part of an available region that is reserved, and keep what is
\* before and after it available.
reserve_split(other, r) ==
    (IF r.base > other.base THEN <<Region("available", other.base, r.base - other.base)>> ELSE <<>>)
    \o <<r>>
    \o (IF end(r) < end(other) THEN <<Region("available", end(r), end(other) - end(r))>> ELSE <<>>)
reserve_region(rs, type, base, size) ==
    LET r == Region(type, align_down(base), align_up(size))
        fit == {i \in DOMAIN rs : rs[i].type = "available" /\ r.base >= rs[i].base /\ end(r) <= end(rs[i])}
    IN IF fit = {} THEN Failed
       ELSE LET i == Min(fit)
            IN Done(SubSeq(rs, 1, i - 1) \o reserve_split(rs[i], r) \o SubSeq(rs, i + 1, Len(rs)))

find_available_region(rs, size) ==
    LET fit == {i \in DOMAIN rs : rs[i].type = "available" /\ rs[i].size >= size}
    IN IF fit = {} THEN NoPage ELSE rs[Min(fit)].base

-----------------------------------------------------------------------------
\* build_memory_map(): the memory regions, then what is reserved in them: the
\* hypervisor from the start of its region to the end of its stack, the device
\* tree, what firmware reserves, and the images of the host.
Then(m, rs(_)) == IF m.ok THEN rs(m.regions) ELSE Failed
MemoryRegions ==
    FoldLeft(LAMBDA m, r : Then(m, LAMBDA rs : add_memory_region(rs, r[1], r[2])), Done(<<>>), fdt.memory)
HypervisorBase ==
    LET in == {i \in DOMAIN fdt.memory : /\ fdt.start >= fdt.memory[i][1]
                                         /\ fdt.stack_end <= fdt.memory[i][1] + fdt.memory[i][2]}
    IN IF in = {} THEN NoPage ELSE fdt.memory[Min(in)][1]
Reserve(m, type, ranges) ==
    FoldLeft(LAMBDA acc, r : Then(acc, LAMBDA rs : reserve_region(rs, type, r[1], r[2])), m, ranges)
build_memory_map ==
    LET image == <<HypervisorBase, fdt.stack_end - HypervisorBase>>
        hypervisor == Reserve(MemoryRegions, "image", <<image, fdt.fdt>>)
        firmware == Reserve(hypervisor, "firmware", fdt.reserved)
    IN IF HypervisorBase = NoPage \/ fdt.stack_end > fdt.fdt[1]
          \/ \E i \in DOMAIN fdt.host : ~is_aligned(fdt.host[i][1])
       THEN Failed
       ELSE Reserve(firmware, "host", fdt.host)

Pages(base, size) == {base + k * PAGE : k \in 0..((size \div PAGE) - 1)}
Use(user, pages) == used \cup {<<p, user>> : p \in pages}

Init == /\ fdt \in Fdt
        /\ phase = "start" /\ regions = <<>> /\ page_map = NoMap
        /\ next_page = NoPage /\ used = {} /\ list = <<>>

Fail == phase' = "failed" /\ UNCHANGED <<fdt, regions, page_map, next_page, used, list>>

BuildMemoryMap ==
    /\ phase = "start"
    /\ \E m \in {build_memory_map} :
        IF m.ok
        THEN regions' = m.regions /\ phase' = "heap" /\ UNCHANGED <<fdt, page_map, next_page, used, list>>
        ELSE Fail

create_heap ==
    /\ phase = "heap"
    /\ LET base == find_available_region(regions, HeapSize)
           m == reserve_region(regions, "heap", base, HeapSize)
       IN IF base # NoPage /\ m.ok
          THEN /\ regions' = m.regions /\ used' = Use(1, Pages(base, HeapSize))
               /\ phase' = "drivers" /\ UNCHANGED <<fdt, page_map, next_page, list>>
          ELSE Fail

\* A driver adds its registers to the map.
ProbeDriver(r) ==
    /\ phase = "drivers"
    /\ LET m == add_mmio_region(regions, r[1], r[2])
       IN IF m.ok
          THEN regions' = m.regions /\ UNCHANGED <<fdt, phase, page_map, next_page, used, list>>
          ELSE Fail

\* PerCpu::init(), after the drivers: an area for every CPU.
PerCpuInit ==
    /\ phase = "drivers"
    /\ LET base == find_available_region(regions, PerCpuSize)
           m == reserve_region(regions, "percpu", base, PerCpuSize)
       IN IF base # NoPage /\ m.ok
          THEN /\ regions' = m.regions /\ used' = Use(3, Pages(base, PerCpuSize))
               /\ phase' = "page map" /\ UNCHANGED <<fdt, page_map, next_page, list>>
          ELSE Fail

-----------------------------------------------------------------------------
(* PageMap.                                                                 *)
PageStateHeapFree(r) == CASE r.type \in {"available", "heap"} -> "Free"
                          [] r.type = "host" -> "ConvertedLocked"
                          [] r.type = "mmio" -> "Mmio"
                          [] OTHER -> "Reserved"
PageState(r) == CASE r.type = "available" -> "Free"
                  [] r.type = "host" -> "ConvertedLocked"
                  [] r.type = "mmio" -> "Mmio"
                  [] OTHER -> "Reserved"
Entry(pfn, index) == [base_pfn |-> pfn, num_pages |-> 0, page_map_index |-> index]

\* Regions that follow each other share an entry of the sparse map.
populate_from(rs) ==
    LET first == [pages |-> <<>>, sparse |-> <<>>, cur |-> Entry(rs[1].base \div PAGE, 0)]
        Step(m, r) ==
            LET pfn == r.base \div PAGE
                n == r.size \div PAGE
                gap == m.cur.base_pfn + m.cur.num_pages # pfn
                cur == IF gap THEN Entry(pfn, m.cur.page_map_index + m.cur.num_pages) ELSE m.cur
            IN [pages |-> m.pages \o [i \in 1..n |-> PageState(r)],
                sparse |-> IF gap THEN Append(m.sparse, m.cur) ELSE m.sparse,
                cur |-> [cur EXCEPT !.num_pages = @ + n]]
        last == FoldLeft(Step, first, rs)
    IN [pages |-> last.pages, sparse |-> Append(last.sparse, last.cur)]

InEntry(s, pfn) == s.base_pfn <= pfn /\ pfn < s.base_pfn + s.num_pages
get_map_index(m, pfn) ==
    LET in == {k \in DOMAIN m.sparse : InEntry(m.sparse[k], pfn)}
    IN IF in = {} THEN NoPage
       ELSE LET s == m.sparse[Min(in)] IN s.page_map_index + pfn - s.base_pfn + 1
get(m, pfn) == LET i == get_map_index(m, pfn) IN IF i = NoPage THEN "none" ELSE m.pages[i]

\* PageMapIter: the pairs of address and page from an address on.
\* It moves on to the next entry when the index passes the end of this one,
\* after one page at least.
last_of_entry(s, index) == Max({index, s.page_map_index + s.num_pages - 1})
iter_next(m, c, s) ==
    LET last == last_of_entry(s, c.index)
        Pair(i) == [pfn |-> s.base_pfn + i - s.page_map_index,
                    page |-> IF i + 1 \in DOMAIN m.pages THEN m.pages[i + 1] ELSE "none"]
    IN [index |-> last + 1,
        out |-> c.out \o [k \in 1..(last + 1 - c.index) |-> Pair(c.index + k - 1)]]
iter_from(m, pfn) ==
    LET entries == {k \in DOMAIN m.sparse : InEntry(m.sparse[k], pfn)}
        start == [index |-> get_map_index(m, pfn) - 1, out |-> <<>>]
    IN IF entries = {} THEN <<>>
       ELSE FoldLeft(LAMBDA c, s : iter_next(m, c, s), start,
                     SubSeq(m.sparse, Min(entries), Len(m.sparse))).out

next_free_page(m, pfn) ==
    LET it == iter_from(m, pfn)
        free == {k \in DOMAIN it : it[k].page = "Free"}
    IN IF free = {} THEN NoPage ELSE it[Min(free)].pfn

\* HypPageAlloc::new() starts at the first free page of the map.
FirstFree(m, rs) == next_free_page(m, rs[1].base \div PAGE)
\* PageMap::build_from(): the page map is put in the first available region
\* that holds it.
build_from ==
    /\ phase = "page map"
    /\ LET total == FoldLeft(LAMBDA n, r : n + (r.size \div PAGE), 0, regions)
           size == ((total + InfoPerPage - 1) \div InfoPerPage) * PAGE
           base == find_available_region(regions, size)
       IN \E m \in {reserve_region(regions, "page map", base, size)} :
          \E pm \in {IF m.ok THEN populate_from(m.regions) ELSE NoMap} :
          IF base # NoPage /\ m.ok /\ Len(pm.sparse) <= MaxEntries
          THEN /\ regions' = m.regions /\ page_map' = pm
               /\ used' = Use(2, Pages(base, size))
               /\ next_page' = FirstFree(pm, m.regions)
               /\ phase' = "alloc" /\ UNCHANGED <<fdt, list>>
          ELSE Fail

-----------------------------------------------------------------------------
(* HypPageAlloc.                                                            *)
range_is_free(m, first, count) == \A k \in 0..(count - 1) : get(m, first + k) = "Free"
range_is_free_and_aligned(m, first, count, align) ==
    (first * PAGE) % align = 0 /\ range_is_free(m, first, count)

\* The free pages up to the end of the range that is found get the new state,
\* those that were passed over included; the range itself is given out.
alloc_pages(m, next, count, align, state, taken) ==
    LET it == iter_from(m, next)
        fit == {k \in DOMAIN it : range_is_free_and_aligned(m, it[k].pfn, count, align)}
        first == it[Min(fit)].pfn
        Index(pfns) == {get_map_index(m, p) : p \in pfns} \ {NoPage}
        passed == Index(next..(first + count - 1))
        given == Index(first..(first + count - 1))
    IN IF next = NoPage \/ fit = {} THEN [ok |-> FALSE]
       ELSE LET pages == [i \in DOMAIN m.pages |-> IF i \in given THEN taken
                                                   ELSE IF i \in passed /\ m.pages[i] = "Free"
                                                   THEN state ELSE m.pages[i]]
                new == [m EXCEPT !.pages = pages]
            IN [ok |-> TRUE, map |-> new, first |-> first, count |-> count,
                next |-> next_free_page(new, first + count)]

\* take_pages(), take_pages_for_host_state(), take_pages_for_hyp_state().
Kinds == [convertible |-> <<"ConvertedLocked", "ConvertedLocked">>,
          host_state |-> <<"ConvertedLocked", "VmState">>,
          hyp_state |-> <<"HypState", "HypState">>]
Allocs == Cardinality({u \in {x[2] : x \in used} : u > 3})
TakePages(kind, count, align) ==
    /\ phase = "alloc" /\ Allocs < MaxAllocs
    /\ kind = "hyp_state" => align = PAGE
    /\ \E a \in {alloc_pages(page_map, next_page, count, align, Kinds[kind][1], Kinds[kind][2])} :
        IF ~a.ok THEN Fail
        ELSE /\ page_map' = a.map /\ next_page' = a.next
             /\ used' = Use(4 + Allocs, {(a.first + k) * PAGE : k \in 0..(count - 1)})
             /\ UNCHANGED <<fdt, phase, regions, list>>

\* PageTracker::from(): pages for the guests and for itself, and a chunk that is
\* thrown away so that the rest starts aligned.
PageTrackerFrom ==
    /\ phase = "alloc"
    /\ \E a \in {alloc_pages(page_map, next_page, 2, PAGE, "ConvertedLocked", "VmState")} :
       \E b \in {IF a.ok THEN alloc_pages(a.map, a.next, 1, PAGE, "ConvertedLocked", "VmState") ELSE a} :
       \E c \in {IF b.ok THEN alloc_pages(b.map, b.next, ALIGN \div PAGE, ALIGN, "ConvertedLocked", "ConvertedLocked") ELSE b} :
        LET Of(x) == {(x.first + k) * PAGE : k \in 0..(x.count - 1)}
        IN IF a.ok /\ b.ok /\ c.ok /\ c.next # NoPage
          THEN /\ page_map' = c.map /\ next_page' = c.next
               /\ used' = used \cup {<<p, 90>> : p \in Of(a) \cup Of(b)} \cup {<<p, 91>> : p \in Of(c)}
               /\ phase' = "drain" /\ UNCHANGED <<fdt, regions, list>>
          ELSE Fail

\* HypPageAlloc::drain(): take the next free page and link the last one to it;
\* the list is complete when no free page follows.
drain ==
    /\ phase = "drain"
    /\ LET pages == [page_map.pages EXCEPT ![get_map_index(page_map, next_page)] = "ConvertedLocked"]
           new == [page_map EXCEPT !.pages = pages]
           next == next_free_page(new, next_page)
       IN /\ page_map' = new /\ next_page' = next
          /\ list' = Append(list, next_page)
          /\ used' = Use(92, {next_page * PAGE})
          /\ phase' = IF next = NoPage THEN "done" ELSE "drain"
    /\ UNCHANGED <<fdt, regions>>

Stopped == phase \in {"done", "failed"} /\ UNCHANGED vars
Next == \/ BuildMemoryMap \/ create_heap \/ PerCpuInit \/ build_from \/ PageTrackerFrom \/ drain \/ Stopped
        \/ \E r \in Mmio : ProbeDriver(r)
        \/ \E kind \in DOMAIN Kinds, count \in 1..MaxCount, align \in Align : TakePages(kind, count, align)
Spec == Init /\ [][Next]_vars

-----------------------------------------------------------------------------
\* The regions of the map stay in order and apart while memory is reserved and
\* devices are added.
RegionsApart ==
    \A i \in 1..(Len(regions) - 1) : end(regions[i]) <= regions[i+1].base

\* No page of memory is given out twice: the heap, the page map, every
\* allocation and the host's list are apart from each other and lie in memory
\* that the device tree describes and does not reserve in pages of its own.
OnePurpose ==
    \A x \in used :
        /\ \A y \in used : x[1] = y[1] => x = y
        /\ \E i \in DOMAIN fdt.memory :
              fdt.memory[i][1] <= x[1] /\ x[1] + PAGE <= fdt.memory[i][1] + fdt.memory[i][2]

\* The host gets every page that is left: none stays free, and the pages of
\* the list are in the order of memory and owned by the hypervisor until then.
HostGetsTheRest ==
    phase = "done" =>
        /\ \A i \in DOMAIN page_map.pages : page_map.pages[i] # "Free"
        /\ \A k \in DOMAIN list : /\ get(page_map, list[k]) = "ConvertedLocked"
                                  /\ k > 1 => list[k-1] < list[k]

\* "An iterator over `PageMap` in (PageInfo, address) pairs": the page the
\* iterator pairs with an address is the one the page map has for it.
IterMatchesGet ==
    phase = "alloc" =>
        LET it == iter_from(page_map, regions[1].base \div PAGE)
        IN /\ Len(it) = Len(page_map.pages)
           /\ \A k \in DOMAIN it : it[k].page = get(page_map, it[k].pfn)

\* "Reserves a range of RAM for the specified purpose": memory that holds the
\* hypervisor, the device tree, firmware's data or the host's images is not
\* given out.
ReservedIsKept ==
    \A x \in used : \A r \in {fdt.fdt} \cup ToSet(fdt.reserved) \cup ToSet(fdt.host) :
        x[1] + PAGE <= r[1] \/ r[1] + r[2] <= x[1]

-----------------------------------------------------------------------------
(* HostVmLoader: the host VM's address space, built at the end of boot     *)
(* from the images that firmware loaded, the pages of its device tree and  *)
(* the pages that the boot allocator has left.                             *)
CONSTANTS
    KERNEL_OFFSET, INITRAMFS_OFFSET, FDT_OFFSET,
    FdtSize,      \* size of the serialized device tree
    HostState     \* pairs of count and alignment: the pages from_hyp_mem() takes
VARIABLES
    loader,       \* how far the loader has come
    fdt_pages,    \* first page of the host's device tree
    devices,      \* guest page -> device page, mapped before memory is
    ram           \* guest page -> page of memory

hostvars == <<loader, fdt_pages, devices, ram>>

NoMapping == <<>>
HostInit == /\ Init /\ loader = "boot" /\ fdt_pages = NoPage
            /\ devices = NoMapping /\ ram = NoMapping

\* The host's memory starts where the machine's does.
guest_ram_base == LET memory == SelectSeq(regions, LAMBDA r : r.type # "mmio") IN memory[1].base \div PAGE
NumFdtPages == align_up(FdtSize) \div PAGE
Image(i) == LET base == fdt.host[i][1] \div PAGE
            IN [k \in 1..(align_up(fdt.host[i][2]) \div PAGE) |-> base + k - 1]
kernel == Image(1)
initramfs == IF Len(fdt.host) = 2 THEN Image(2) ELSE <<>>
FdtPages == [k \in 1..NumFdtPages |-> fdt_pages + k - 1]

BootStep ==
    /\ loader = "boot"
    /\ \/ BuildMemoryMap \/ create_heap \/ PerCpuInit \/ build_from
       \/ \E r \in Mmio : ProbeDriver(r)
       \/ \E kind \in DOMAIN Kinds, count \in 1..MaxCount, align \in Align : TakePages(kind, count, align)
    /\ UNCHANGED hostvars

\* HostVmLoader::new(): pages for the device tree, ...
NewLoader ==
    /\ loader = "boot" /\ phase = "alloc"
    /\ \E a \in {alloc_pages(page_map, next_page, NumFdtPages, ALIGN, "ConvertedLocked", "ConvertedLocked")} :
        IF ~a.ok THEN Fail /\ UNCHANGED hostvars
        ELSE /\ page_map' = a.map /\ next_page' = a.next /\ fdt_pages' = a.first
             /\ used' = Use(80, {(a.first + k) * PAGE : k \in 0..(NumFdtPages - 1)})
             /\ loader' = "state" /\ UNCHANGED <<fdt, phase, regions, list, devices, ram>>
\* ... then from_hyp_mem(): the root table, page table pages and other state of
\* the host VM, before the rest goes to the page tracker.
from_hyp_mem ==
    /\ loader = "state" /\ phase = "alloc"
    /\ LET Take(acc, s) ==
               IF ~acc.ok THEN acc
               ELSE alloc_pages(acc.map, acc.next, s[1], s[2], "ConvertedLocked", "VmState")
       IN \E a \in {FoldLeft(Take, [ok |-> TRUE, map |-> page_map, next |-> next_page], HostState)} :
          IF ~a.ok THEN Fail /\ UNCHANGED hostvars
          ELSE /\ page_map' = a.map /\ next_page' = a.next /\ loader' = "tracker"
               /\ UNCHANGED <<fdt, phase, regions, list, used, fdt_pages, devices, ram>>
Tracker == loader = "tracker" /\ (PageTrackerFrom \/ drain) /\ UNCHANGED hostvars

-----------------------------------------------------------------------------
ram_size == Len(list) + NumFdtPages + Len(kernel) + Len(initramfs)

Place(gpa, pages) == [g \in gpa..(gpa + Len(pages) - 1) |-> pages[g - gpa + 1]]
\* The assertion on every page of memory that is mapped.
SameOffset(gpa, pages) ==
    \A k \in DOMAIN pages : ((gpa + k - 1) * PAGE) % ALIGN = (pages[k] * PAGE) % ALIGN

\* Once new() has found memory large enough, PCI memory and interrupt files are
\* mapped where the machine has them.
DevicePages == UNION {{p \div PAGE : p \in Pages(r.base, r.size)} : r \in {x \in ToSet(regions) : x.type = "mmio"}}
MapDevices ==
    /\ loader = "tracker" /\ phase = "done"
    /\ IF ram_size < (FDT_OFFSET \div PAGE) + NumFdtPages
       THEN Fail /\ UNCHANGED hostvars
       ELSE /\ devices' = [g \in DevicePages |-> g]
            /\ loader' = "devices" /\ UNCHANGED <<vars, fdt_pages, ram>>

\* The gap before the initramfs, and the one before the device tree.
initramfs_gap == ((INITRAMFS_OFFSET - KERNEL_OFFSET) \div PAGE) - Len(kernel)
fdt_gap(current) == (FDT_OFFSET \div PAGE) - (current - guest_ram_base)

\* Memory is added as one region, and filled from its start: images at their
\* places, pages of the list between them and after them.
build_address_space ==
    /\ loader = "devices" /\ phase = "done"
    /\ LET base == guest_ram_base
           gap1 == KERNEL_OFFSET \div PAGE
           gap2 == IF initramfs = <<>> THEN 0 ELSE initramfs_gap
           at_kernel == base + gap1
           at_initramfs == at_kernel + Len(kernel) + gap2
           gap3 == fdt_gap(at_initramfs + Len(initramfs))
           at_fdt == at_initramfs + Len(initramfs) + gap3
           Zero(from, n) == SubSeq(list, from + 1, from + n)
           parts == <<  <<at_kernel, kernel>>, <<at_initramfs, initramfs>>, <<at_fdt, FdtPages>>,
                        <<base, Zero(0, gap1)>>, <<at_initramfs - gap2, Zero(gap1, gap2)>>,
                        <<at_fdt - gap3, Zero(gap1 + gap2, gap3)>>,
                        <<at_fdt + NumFdtPages, Zero(gap1 + gap2 + gap3, Len(list) - gap1 - gap2 - gap3)>> >>
       IN IF \/ gap2 < 0 \/ gap3 < 0
             \/ \E g \in base..(base + ram_size - 1) : g \in DOMAIN devices
             \/ \E i \in DOMAIN parts : ~SameOffset(parts[i][1], parts[i][2])
          THEN Fail /\ UNCHANGED hostvars
          ELSE /\ ram' = FoldLeft(LAMBDA m, p : m @@ Place(p[1], p[2]), NoMapping, parts)
               /\ loader' = "built" /\ UNCHANGED <<vars, fdt_pages, devices>>

HostStopped == (phase = "failed" \/ loader = "built") /\ UNCHANGED <<vars, hostvars>>
HostNext == BootStep \/ NewLoader \/ from_hyp_mem \/ Tracker \/ MapDevices \/ build_address_space \/ HostStopped
HostSpec == HostInit /\ [][HostNext]_<<vars, hostvars>>

-----------------------------------------------------------------------------
\* "we guarantee that each contiguous T::TOP_LEVEL_ALIGN block of the guest
\* physical address space of the host VM maps to a contiguous T::TOP_LEVEL_ALIGN
\* block of the host physical address space."
BlocksContiguous ==
    loader = "built" =>
        \A g \in DOMAIN ram : (g * PAGE) % ALIGN # 0 => g - 1 \in DOMAIN ram /\ ram[g] = ram[g-1] + 1

\* The memory that the host's device tree describes is all mapped, to different
\* pages, which are the host's images and the pages that the hypervisor has left.
RamIsMapped ==
    loader = "built" =>
        /\ DOMAIN ram = guest_ram_base..(guest_ram_base + ram_size - 1)
        /\ Cardinality({ram[g] : g \in DOMAIN ram}) = Cardinality(DOMAIN ram)
        /\ {ram[g] : g \in DOMAIN ram} = ToSet(list) \cup ToSet(kernel) \cup ToSet(initramfs) \cup ToSet(FdtPages)

\* The host starts at its kernel, and the initramfs and the device tree are where
\* the vCPU's argument and the device tree tell the kernel to look.
ImagesWhereTold ==
    loader = "built" =>
        \A x \in {<<KERNEL_OFFSET, kernel>>, <<INITRAMFS_OFFSET, initramfs>>, <<FDT_OFFSET, FdtPages>>} :
            \A k \in DOMAIN x[2] :
                LET g == guest_ram_base + (x[1] \div PAGE) + k - 1
                IN g \in DOMAIN ram /\ ram[g] = x[2][k]

=============================================================================
