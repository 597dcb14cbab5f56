---------------------------- MODULE PciResources ----------------------------
(***************************************************************************)
(* The memory windows of the PCI root complex and their distribution at    *)
(* boot: the hypervisor takes devices and allocates their BARs from the    *)
(* end of the windows, then the host takes the rest.                       *)
(***************************************************************************)
EXTENDS Integers, Sequences, FiniteSets

CONSTANTS
    PageBytes,      \* size of a page
    Windows,        \* possible root complexes: resource type -> window
    HypDevice,      \* the devices the hypervisor takes, in this order
    HostDevice,     \* the other devices
    Bars            \* possible BARs of a hypervisor device: sequences of [type, size]

\* PciResourceType, in the order of from_index().
Types == <<"IoPort", "Mem32", "PrefetchableMem32", "Mem64", "PrefetchableMem64">>
Device == {HypDevice[i] : i \in DOMAIN HypDevice} \cup HostDevice

\* PciRootResource::new()
NewResource(w) ==
    [addr |-> w.addr, pci_addr |-> w.pci_addr, host_size |-> w.size, total_size |-> w.size,
     taken |-> FALSE]

VARIABLES
    resources,      \* type -> resource, for the types that are present
    owner,          \* device -> its owner
    bars,           \* hypervisor device -> its BARs
    bar_addr,       \* hypervisor device -> PCI addresses programmed so far
    command,        \* device -> the enable bits that are set
    ranges,         \* CPU address ranges allocated for the hypervisor
    host,           \* CPU address ranges taken by the host
    pc, current     \* where boot is, and the device it deals with

vars == <<resources, owner, bars, bar_addr, command, ranges, host, pc, current>>

\* probe_from() inserts one resource per type.
Init ==
    /\ \E w \in Windows : resources = [t \in DOMAIN w |-> NewResource(w[t])]
    /\ owner = [d \in Device |-> "none"]
    /\ bars \in [{HypDevice[i] : i \in DOMAIN HypDevice} -> Bars]
    /\ bar_addr = [d \in Device |-> <<>>]
    /\ command = [d \in Device |-> {}]
    /\ ranges = <<>> /\ host = {} /\ pc = "take" /\ current = 1

-----------------------------------------------------------------------------
Max2(a, b) == IF a > b THEN a ELSE b
num_4k_pages(bytes) == (bytes + PageBytes - 1) \div PageBytes
next_power_of_two(n) == CHOOSE p \in {2^k : k \in 0..n} : p >= n /\ \A k \in 0..n : 2^k >= n => p <= 2^k

\* alloc_for_hypervisor(): from the end of what is left to the host.
AllocSize(size) == next_power_of_two(Max2(size, PageBytes))
AllocOk(res, size) == AllocSize(size) <= res.host_size
Rest(res, size) ==
    LET n == AllocSize(size)
    IN ((res.host_size - n) \div n) * n

\* find_matching(): prefetchable windows may be missing.
find_matching(t) ==
    CASE t \in DOMAIN resources -> t
      [] t = "PrefetchableMem32" /\ "Mem32" \in DOMAIN resources -> "Mem32"
      [] t = "PrefetchableMem64" /\ "Mem64" \in DOMAIN resources -> "Mem64"
      [] OTHER -> "none"

\* Both translations search the types in order, and include the end of a window.
First(P(_)) == LET hits == {i \in 1..5 : Types[i] \in DOMAIN resources /\ P(resources[Types[i]])}
               IN IF hits = {} THEN "none" ELSE Types[CHOOSE i \in hits : \A j \in hits : i <= j]
pci_to_physical_addr(a) ==
    LET in(r) == r.pci_addr <= a /\ a <= r.pci_addr + r.total_size
        t == First(in)
    IN IF t = "none" THEN -1 ELSE resources[t].addr + a - resources[t].pci_addr
physical_to_pci_addr(a) ==
    LET in(r) == r.addr <= a /\ a <= r.addr + r.total_size
        t == First(in)
    IN IF t = "none" THEN -1 ELSE resources[t].pci_addr + a - resources[t].addr

-----------------------------------------------------------------------------
\* PciDevice::take(): a device that has an owner keeps it.
take(ds, who) == [d \in Device |-> IF d \in ds /\ owner[d] = "none" THEN who ELSE owner[d]]
\* take_and_enable_hypervisor_device(): take(), ...
Take ==
    /\ pc = "take" /\ current \in DOMAIN HypDevice
    /\ LET d == HypDevice[current]
       IN IF owner[d] = "none"
          THEN owner' = take({d}, "hypervisor") /\ pc' = "bars" /\ UNCHANGED current
          ELSE current' = current + 1 /\ UNCHANGED <<owner, pc>>
    /\ UNCHANGED <<resources, bars, bar_addr, command, ranges, host>>

\* ... then a resource for each BAR; when there is none the device stays as it is.
set_bar_addr(d, a) == [bar_addr EXCEPT ![d] = Append(@, a)]
AllocBar ==
    LET d == HypDevice[current]
        bar == bars[d][Len(bar_addr[d]) + 1]
        t == find_matching(bar.type)
    IN /\ pc = "bars" /\ Len(bar_addr[d]) < Len(bars[d])
       /\ IF t # "none" /\ AllocOk(resources[t], bar.size)
          THEN LET rest == Rest(resources[t], bar.size)
                   base == resources[t].addr + num_4k_pages(rest) * PageBytes
               IN /\ resources' = [resources EXCEPT ![t].host_size = rest]
                  /\ ranges' = Append(ranges, [dev |-> d, type |-> t, base |-> base,
                                               len |-> num_4k_pages(bar.size) * PageBytes])
                  /\ bar_addr' = set_bar_addr(d, physical_to_pci_addr(base))
                  /\ UNCHANGED <<pc, current>>
          ELSE pc' = "take" /\ current' = current + 1 /\ UNCHANGED <<resources, ranges, bar_addr>>
       /\ UNCHANGED <<owner, bars, command, host>>

\* enable_io_space() and enable_mem_space() where a BAR needs them, and enable_dma().
EnableBits(d) ==
    {bit \in {"io", "mem"} : \E i \in DOMAIN bars[d] : (bars[d][i].type = "IoPort") = (bit = "io")} \cup {"dma"}
Enable ==
    LET d == HypDevice[current]
    IN /\ pc = "bars" /\ Len(bar_addr[d]) = Len(bars[d])
       /\ command' = [command EXCEPT ![d] = EnableBits(d)]
       /\ pc' = "take" /\ current' = current + 1
       /\ UNCHANGED <<resources, owner, bars, bar_addr, ranges, host>>

\* build_address_space(): take_host_devices(), then take_host_resource() for every resource.
TakeHostDevices ==
    /\ pc = "take" /\ current > Len(HypDevice)
    /\ owner' = take(Device, "host")
    /\ pc' = "host"
    /\ UNCHANGED <<resources, bars, bar_addr, command, ranges, host, current>>
HostSize(res) == res.host_size
TakeHostResource(t) ==
    /\ pc = "host" /\ ~resources[t].taken
    /\ resources' = [resources EXCEPT ![t].taken = TRUE]
    /\ host' = host \cup {[type |-> t, base |-> resources[t].addr,
                           len |-> num_4k_pages(HostSize(resources[t])) * PageBytes]}
    /\ UNCHANGED <<owner, bars, bar_addr, command, ranges, pc, current>>

Next == Take \/ AllocBar \/ Enable \/ TakeHostDevices \/ \E t \in DOMAIN resources : TakeHostResource(t)
Spec == Init /\ [][Next]_vars

-----------------------------------------------------------------------------
Bytes(r) == r.base..(r.base + r.len - 1)

\* What the hypervisor allocates lies in a window, belongs to one BAR, and is not given to the
\* host, which gets whole pages (alloc_for_hypervisor, take_host_resource).
RangesDisjoint ==
    /\ \A i, j \in DOMAIN ranges : i # j => Bytes(ranges[i]) \cap Bytes(ranges[j]) = {}
    /\ \A i \in DOMAIN ranges :
        LET res == resources[ranges[i].type]
        IN /\ Bytes(ranges[i]) \subseteq res.addr..(res.addr + res.total_size - 1)
           /\ \A h \in host : Bytes(h) \cap Bytes(ranges[i]) = {}
    /\ \A h \in host : h.len % PageBytes = 0

\* A device is enabled only when each of its BARs has an address, and belongs to the hypervisor
\* then; a device that could not be given its resources is not handed to the host either.
EnabledIsComplete ==
    \A d \in Device : command[d] # {} => owner[d] = "hypervisor" /\ Len(bar_addr[d]) = Len(bars[d])

\* "Translates the given PCI bus address to a CPU physical address": the address programmed into
\* a BAR leads back to the range allocated for it (IOMMU registers are found this way).
BarTranslatesBack ==
    \A d \in DOMAIN bars : \A i \in DOMAIN bar_addr[d] :
        LET mine == SelectSeq(ranges, LAMBDA r : r.dev = d)
        IN pci_to_physical_addr(bar_addr[d][i]) = mine[i].base

=============================================================================
