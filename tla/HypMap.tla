------------------------------- MODULE HypMap -------------------------------
(***************************************************************************)
(* The page tables of the hypervisor: the U-mode image is parsed and loaded *)
(* into each of them, beside the memory map that they share, and restored   *)
(* after a U-mode task failed. Sizes and addresses are in units of which    *)
(* PAGE are a page.                                                         *)
(***************************************************************************)
EXTENDS Integers, Sequences, SequencesExt, FiniteSets

CONSTANTS
    Cpu,
    PAGE,
    AddrMax,            \* the largest u64
    UMODE_VA_START, UMODE_VA_END,
    ELF_SEGMENTS_MAX,
    FileLen,            \* length of the ELF file; its unit at offset k is <<"file", k>>
    Headers,            \* its ELF header: [ident, phoff, phentsize]
    ProgramHeaders,     \* its program headers: sequences of these
    MaxHeaders,         \* how many
    MemMap              \* the hardware memory map: sequence of [base, count, type], in pages

HypMapAssumption ==
    /\ PAGE \in Nat \ {0} /\ AddrMax \in Nat /\ ELF_SEGMENTS_MAX \in Nat \ {0}
    /\ UMODE_VA_START % PAGE = 0 /\ UMODE_VA_END % PAGE = 0
    /\ UMODE_VA_START < UMODE_VA_END /\ UMODE_VA_END <= AddrMax
    /\ \A i \in DOMAIN MemMap : MemMap[i].base + MemMap[i].count <= UMODE_VA_START \div PAGE

VARIABLES
    header, ph,         \* of the file
    pc,                 \* "parse", "init", "boot", "error" or "panic"
    at,                 \* the next program header
    segments,           \* of ElfMap
    regions,            \* private_regions
    pt,                 \* CPU -> its page table: page -> [page, perms], <<>> before it is built
    next,               \* the next page of hyp_mem
    mem,                \* pages allocated for private regions -> their contents
    dirty               \* CPUs whose writable regions have been written by U-mode

vars == <<header, ph, pc, at, segments, regions, pt, next, mem, dirty>>

-----------------------------------------------------------------------------
\* slice_check_range(), for a slice of length len; an offset beyond u64 is none.
slice_check_range(len, offset, size) ==
    size >= 1 /\ offset + size - 1 <= AddrMax /\ len > offset + size - 1

PH_SIZE == 1            \* size_of::<ElfProgramHeader64>()

\* ElfMap::new() up to its loop: the header is all right, and the table is in the file.
ParseHeader(h, n) ==
    /\ h.ident
    /\ n # 0 /\ h.phoff # 0
    /\ PH_SIZE <= h.phentsize
    /\ slice_check_range(FileLen, h.phoff, n * h.phentsize)

\* ElfSegment::new()
Perms == [R |-> "UR", RW |-> "URW", RX |-> "URX"]
ElfSegment(p) == [offset |-> p.offset, filesz |-> p.filesz, vaddr |-> p.vaddr, size |-> p.memsz, perms |-> p.flags]
SegmentOk(p) ==
    /\ p.filesz > 0 => slice_check_range(FileLen, p.offset, p.filesz)
    /\ p.flags \in DOMAIN Perms
    /\ p.vaddr + p.memsz <= AddrMax

\* hyp_mem gives out the available memory in order.
FirstPage == MemMap[SelectInSeq(MemMap, LAMBDA r : r.type = "Available")].base

Init ==
    /\ header \in Headers /\ ph \in UNION {[1..n -> ProgramHeaders] : n \in 0..MaxHeaders}
    /\ pc = "parse" /\ at = 0
    /\ segments = <<>> /\ regions = <<>>
    /\ pt = [c \in Cpu |-> <<>>] /\ next = FirstPage /\ mem = <<>> /\ dirty = {}

num_segs == IF Len(ph) < ELF_SEGMENTS_MAX THEN Len(ph) ELSE ELF_SEGMENTS_MAX
Loads(p) == p.type = "load" /\ p.memsz # 0
\* The loop: program headers that are not to be loaded are passed over.
Parse ==
    /\ pc = "parse"
    /\ IF at = 0
       THEN /\ pc' = IF ParseHeader(header, Len(ph)) THEN "parse" ELSE "error"
            /\ at' = 1 /\ UNCHANGED segments
       ELSE IF at > num_segs THEN pc' = "init" /\ UNCHANGED <<at, segments>>
       ELSE /\ at' = at + 1
            /\ pc' = IF Loads(ph[at]) /\ ~SegmentOk(ph[at]) THEN "error" ELSE "parse"
            /\ segments' = IF Loads(ph[at]) /\ SegmentOk(ph[at]) THEN Append(segments, ElfSegment(ph[at])) ELSE segments
    /\ UNCHANGED <<header, ph, regions, pt, next, mem, dirty>>

-----------------------------------------------------------------------------
is_umode_addr(a) == UMODE_VA_START <= a /\ a < UMODE_VA_END
is_valid_umode_range(addr, len) == len # 0 /\ is_umode_addr(addr) /\ is_umode_addr(addr + len - 1)

\* from_umode_elf_segment(): aligned and in the area of U-mode.
RegionOk(s) == s.vaddr % PAGE = 0 /\ is_valid_umode_range(s.vaddr, s.size)
PrivateRegion(s) == [s EXCEPT !.perms = Perms[s.perms]]
InitMap ==
    /\ pc = "init"
    /\ IF \A i \in DOMAIN segments : RegionOk(segments[i])
       THEN pc' = "boot" /\ regions' = [i \in DOMAIN segments |-> PrivateRegion(segments[i])]
       ELSE pc' = "error" /\ UNCHANGED regions
    /\ UNCHANGED <<header, ph, at, segments, pt, next, mem, dirty>>

\* SharedRegion: the memory map, mapped to itself but for what firmware keeps.
shared_perms(type) ==
    CASE type = "FirmwareReserved" -> "none"
      [] type = "HypervisorImage" -> "RWX"
      [] type \in {"HostKernelImage", "HostInitramfsImage"} -> "R"
      [] OTHER -> "RW"
SharedRegions == {i \in DOMAIN MemMap : shared_perms(MemMap[i].type) # "none"}
Shared ==
    [p \in UNION {MemMap[i].base..(MemMap[i].base + MemMap[i].count - 1) : i \in SharedRegions} |->
        [page |-> p, perms |-> shared_perms(MemMap[CHOOSE i \in SharedRegions :
                                  MemMap[i].base <= p /\ p < MemMap[i].base + MemMap[i].count].type)]]

\* PrivateRegion::map(): new pages with the data, or as much of it as there is room for, mapped
\* where nothing is mapped yet.
num_4k_pages(n) == (n + PAGE - 1) \div PAGE
copied(r) == IF r.filesz < r.size THEN r.filesz ELSE r.size
Unit(r, k) == IF k < copied(r) THEN <<"file", r.offset + k>> ELSE <<"zero">>
Contents(r, i) == [k \in 0..PAGE - 1 |-> Unit(r, i * PAGE + k)]
VPages(r) == (r.vaddr \div PAGE)..((r.vaddr \div PAGE) + num_4k_pages(r.size) - 1)
map_private(s, r) ==
    LET n == num_4k_pages(r.size)
        first == r.vaddr \div PAGE
    IN IF s.panic \/ VPages(r) \cap DOMAIN s.table # {} THEN [s EXCEPT !.panic = TRUE]
       ELSE [panic |-> FALSE, next |-> s.next + n,
             mem |-> [p \in DOMAIN s.mem \cup s.next..(s.next + n - 1) |->
                         IF p < s.next THEN s.mem[p] ELSE Contents(r, p - s.next)],
             table |-> [v \in DOMAIN s.table \cup VPages(r) |->
                           IF v \in DOMAIN s.table THEN s.table[v]
                           ELSE [page |-> s.next + (v - first), perms |-> r.perms]]]

\* new_page_table(): the root and other table pages count as one.
take_root(n) == n + 1
NewPageTable(c) ==
    /\ pc = "boot" /\ pt[c] = <<>>
    /\ LET s == FoldLeft(map_private, [panic |-> FALSE, next |-> take_root(next), mem |-> mem, table |-> Shared], regions)
       IN IF s.panic THEN pc' = "panic" /\ UNCHANGED <<pt, next, mem>>
          ELSE pc' = pc /\ pt' = [pt EXCEPT ![c] = s.table] /\ next' = s.next /\ mem' = s.mem
    /\ UNCHANGED <<header, ph, at, segments, regions, dirty>>

\* U-mode writes to a page that its page table lets it write.
Scribble == <<"umode">>
UmodeWrite(c) ==
    /\ pc = "boot"
    /\ \E v \in DOMAIN pt[c], k \in 0..PAGE - 1 :
          /\ pt[c][v].perms = "URW"
          /\ mem' = [mem EXCEPT ![pt[c][v].page][k] = Scribble]
    /\ dirty' = dirty \cup {c}
    /\ UNCHANGED <<header, ph, pc, at, segments, regions, pt, next>>

\* restore_umode(): restore() of the writable regions, to the end of their last pages.
mapped_size_exact(r) == r.size               \* Mutant: to the end of the segment.
mapped_size(r) == num_4k_pages(r.size) * PAGE
Restored(c, r, v, k) ==
    LET o == v * PAGE + k - r.vaddr
    IN IF o < mapped_size(r) THEN Unit(r, o) ELSE mem[pt[c][v].page][k]
restore_umode(c) ==
    /\ pc = "boot" /\ c \in dirty
    /\ LET writable == {i \in DOMAIN regions : regions[i].perms = "URW"}
           PageOf(p) == {v \in UNION {VPages(regions[i]) : i \in writable} : pt[c][v].page = p}
       IN mem' = [p \in DOMAIN mem |->
                     IF PageOf(p) = {} THEN mem[p]
                     ELSE LET v == CHOOSE x \in PageOf(p) : TRUE
                              i == CHOOSE x \in writable : v \in VPages(regions[x])
                          IN [k \in 0..PAGE - 1 |-> Restored(c, regions[i], v, k)]]
    /\ dirty' = dirty \ {c}
    /\ UNCHANGED <<header, ph, pc, at, segments, regions, pt, next>>

Next == Parse \/ InitMap \/ \E c \in Cpu : NewPageTable(c) \/ UmodeWrite(c) \/ restore_umode(c)
Spec == Init /\ [][Next]_vars

-----------------------------------------------------------------------------
\* What the image is to look like: the unit at address a according to the program headers.
Loaded == {i \in DOMAIN ph : ph[i].type = "load" /\ ph[i].memsz # 0}
Expected(i, a) ==
    LET o == a - ph[i].vaddr IN IF o < ph[i].filesz THEN <<"file", ph[i].offset + o>> ELSE <<"zero">>
Present(c, a) == (a \div PAGE) \in DOMAIN pt[c]
At(c, a) == mem[pt[c][a \div PAGE].page][a % PAGE]
Built == {c \in Cpu : pc = "boot" /\ pt[c] # <<>>}

\* A page table built from the map holds the image as the program headers describe it, and a
\* writable segment is as it was at first after restore_umode(): "Restores U-mode mappings to
\* initial state".
ImageAsLinked ==
    \A c \in Built, i \in Loaded : \A a \in ph[i].vaddr..(ph[i].vaddr + ph[i].memsz - 1) :
        /\ Present(c, a)
        /\ c \notin dirty \/ ph[i].flags # "RW" => At(c, a) = Expected(i, a)

\* Nothing that U-mode left in a writable page survives restore_umode(), between the end of the
\* segment and the end of its last page either.
NothingLeft ==
    \A c \in Built \ dirty : \A v \in DOMAIN pt[c] :
        pt[c][v].perms = "URW" => \A k \in 0..PAGE - 1 : mem[pt[c][v].page][k] # Scribble

\* Private pages are private: no page of a segment is in the tables of two CPUs or twice in one,
\* but for the map of all memory, which U-mode cannot use.
User(c) == {v \in DOMAIN pt[c] : pt[c][v].perms \in {"UR", "URW", "URX"}}
PrivateApart ==
    \A c \in Cpu, d \in Cpu : \A v \in User(c), w \in User(d) : pt[c][v].page = pt[d][w].page => c = d /\ v = w

\* U-mode has no mapping outside of its area, and none that its segment does not ask for.
UserMapsOnlyImage ==
    \A c \in Cpu : \A v \in User(c) :
        /\ is_umode_addr(v * PAGE) /\ is_umode_addr((v * PAGE) + PAGE - 1)
        /\ \E i \in Loaded : /\ ph[i].vaddr \div PAGE <= v /\ v * PAGE < ph[i].vaddr + ph[i].memsz
                             /\ pt[c][v].perms = Perms[ph[i].flags]

\* What is loaded is in the file.
DataInFile ==
    \A p \in DOMAIN mem, k \in 0..PAGE - 1 : mem[p][k][1] = "file" => mem[p][k][2] < FileLen
=============================================================================
