------------------------------ MODULE PciConfig ------------------------------
(***************************************************************************)
(* The emulated configuration space of a PCI device that belongs to the    *)
(* host: BARs, bridge windows and the command register, which decides      *)
(* whether the device answers to addresses and does DMA.                   *)
(***************************************************************************)
EXTENDS Integers, Sequences, FiniteSets

CONSTANTS
    PageBytes,      \* size of a page
    WindowBytes,    \* granularity of bridge windows
    Hardware,       \* the BAR registers: sequence of [type, size], type "none" where there is none
    Bridge,         \* TRUE for a bridge: it has windows
    Value, Upper,   \* values of registers, and of the upper halves of addresses
    UpperUnit,      \* what one unit of an upper half stands for
    Root,           \* sequence of [pci_addr, addr, size]: the root's resources
    Owned           \* numbers of the BAR pages that are mapped by the host

VARIABLES
    reg,            \* register -> value
    command,        \* enable bits that are set: "io", "mem" and "dma"
    attached,       \* the device is attached to the IOMMU
    owner           \* owner of the device

vars == <<reg, command, attached, owner>>

\* PciDeviceBarInfo::new(): writes all 1s to each register to find its size. The register after
\* that of a 64-bit BAR is its upper half.
Is64(b) == b.type = "mem64"
Bars ==
    LET probe[i \in 0..(Len(Hardware) + 1)] ==
            IF i >= Len(Hardware) THEN <<>>
            ELSE LET hw == Hardware[i + 1]
                 IN IF hw.type = "none" THEN probe[i + 1]
                    ELSE <<[index |-> i, type |-> hw.type, size |-> hw.size]>> \o
                         probe[IF Is64(hw) THEN i + 2 ELSE i + 1]
    IN probe[0]

BarReg(i) == <<"bar", i>>
WindowRegs ==
    IF ~Bridge THEN {}
    ELSE {<<w, s>> : w \in {"io", "mem", "pref"}, s \in 0..3}   \* base, limit, and their upper halves
BarRegs == UNION {{BarReg(Bars[k].index)} \cup (IF Is64(Bars[k]) THEN {BarReg(Bars[k].index + 1)} ELSE {})
                    : k \in DOMAIN Bars}
Registers == BarRegs \cup WindowRegs

\* index_to_type(): the upper half of a 64-bit BAR has the type of the BAR.
index_to_type_lower(i) ==
    {Bars[k].type : k \in {k \in DOMAIN Bars : Bars[k].index = i}}
index_to_type(i) ==
    {Bars[k].type : k \in {k \in DOMAIN Bars :
        Bars[k].index = i \/ (Bars[k].index + 1 = i /\ Is64(Bars[k]))}}

\* A new device: PciDeviceBarInfo::new() and PciBridge::new() leave 0 in the registers they probe,
\* and refuse a 64-bit BAR at an odd index. The other registers have their values after reset.
Init ==
    /\ \A k \in DOMAIN Bars : Is64(Bars[k]) => Bars[k].index % 2 = 0
    /\ reg = [r \in Registers |-> 0]
    /\ command = {} /\ attached = FALSE /\ owner = "none"

\* take_host_devices()
Take == owner = "none" /\ owner' = "host" /\ UNCHANGED <<reg, command, attached>>

-----------------------------------------------------------------------------
\* pci_to_physical_addr() of the root's resources; -1 where there is none.
pci_to_physical_addr(a) ==
    LET hits == {k \in DOMAIN Root : Root[k].pci_addr <= a /\ a <= Root[k].pci_addr + Root[k].size}
        k == CHOOSE k \in hits : \A j \in hits : k <= j
    IN IF hits = {} THEN -1 ELSE Root[k].addr + a - Root[k].pci_addr
num_4k_pages(bytes) == (bytes + PageBytes - 1) \div PageBytes

\* bar_range_is_owned(), for the pages from the one of base on.
bar_range_is_owned(base, pages) == \A p \in 0..(pages - 1) : base \div PageBytes + p \in Owned
RangeIsValid(a, bytes) ==
    LET phys == pci_to_physical_addr(a) IN phys >= 0 /\ bar_range_is_owned(phys, num_4k_pages(bytes))

\* get_bar_addr()
get_bar_addr(b) == reg[BarReg(b.index)] + (IF Is64(b) THEN UpperUnit * reg[BarReg(b.index + 1)] ELSE 0)
bar_assignment_is_valid(b) == RangeIsValid(get_bar_addr(b), b.size)

\* get_io_window(), get_mem_window(), get_pref_window(); the window is off when limit < base.
\* The memory window has no upper halves.
WindowBase(w) == reg[<<w, 0>>] * WindowBytes + (IF w = "mem" THEN 0 ELSE UpperUnit * reg[<<w, 2>>])
WindowLimit(w) ==
    reg[<<w, 1>>] * WindowBytes + (IF w = "mem" THEN 0 ELSE UpperUnit * reg[<<w, 3>>]) + WindowBytes - 1
bridge_window_is_valid(w) ==
    WindowLimit(w) < WindowBase(w) \/ RangeIsValid(WindowBase(w), WindowLimit(w) - WindowBase(w))

IoBars == {k \in DOMAIN Bars : Bars[k].type = "io"}
can_enable_io_space ==
    /\ \A k \in IoBars : bar_assignment_is_valid(Bars[k])
    /\ Bridge => bridge_window_is_valid("io")
can_enable_mem_space ==
    /\ \A k \in DOMAIN Bars \ IoBars : bar_assignment_is_valid(Bars[k])
    /\ Bridge => bridge_window_is_valid("mem") /\ bridge_window_is_valid("pref")

-----------------------------------------------------------------------------
\* emulate_config_write() of the command register: bits that are not allowed are not set.
CommandBits(bits) ==
    {b \in bits :
        CASE b = "io" -> can_enable_io_space
          [] b = "mem" -> can_enable_mem_space
          [] b = "dma" -> attached}
\* do_emulate_config_write(): only the owner of the device gets through.
OwnedByGuest == owner = "host"
WriteCommand(bits) ==
    /\ OwnedByGuest /\ command' = CommandBits(bits)
    /\ UNCHANGED <<reg, attached, owner>>

\* Of a BAR, only the bits from its size on can be written (external: the device).
Implemented(i, v) ==
    LET ks == {k \in DOMAIN Bars : Bars[k].index = i}
    IN IF ks = {} THEN v ELSE LET b == Bars[CHOOSE k \in ks : TRUE] IN v - (v % b.size)
\* Writes to BARs and windows are discarded while the space is enabled.
WriteBar(i, v) ==
    /\ OwnedByGuest /\ BarReg(i) \in BarRegs
    /\ ~("io" \in index_to_type(i) /\ "io" \in command)
    /\ ~(index_to_type(i) \cap {"mem32", "mem64"} # {} /\ "mem" \in command)
    /\ reg' = [reg EXCEPT ![BarReg(i)] = Implemented(i, v)]
    /\ UNCHANGED <<command, attached, owner>>
WriteWindow(w, s, v) ==
    /\ OwnedByGuest /\ <<w, s>> \in WindowRegs /\ ~(w = "mem" /\ s > 1)
    /\ (IF w = "io" THEN "io" ELSE "mem") \notin command
    /\ reg' = [reg EXCEPT ![<<w, s>>] = v]
    /\ UNCHANGED <<command, attached, owner>>

\* set_iommu_attached() and clear_iommu_attached(), called by the IOMMU for the owner's VM.
Attach ==
    /\ owner = "host" /\ ~attached /\ attached' = TRUE /\ UNCHANGED <<reg, command, owner>>
Detach ==
    /\ attached /\ attached' = FALSE /\ command' = command \cup {"dma"}
    /\ UNCHANGED <<reg, owner>>

RegTypes(i) == IF i < Len(Hardware) THEN {Hardware[i + 1].type} ELSE {}
Next ==
    \/ Take \/ Attach \/ Detach
    \/ \E bits \in SUBSET {"io", "mem", "dma"} : WriteCommand(bits)
    \/ \E i \in 0..5 : \E v \in (IF "upper" \in RegTypes(i) THEN Upper ELSE Value) : WriteBar(i, v)
    \/ \E w \in {"io", "mem", "pref"}, s \in 0..3 : \E v \in (IF s > 1 THEN Upper ELSE Value) : WriteWindow(w, s, v)
Spec == Init /\ [][Next]_vars

-----------------------------------------------------------------------------
\* Each byte a device answers to while a space is enabled lies in a page mapped by the host: for
\* all of its BARs and, for a bridge, its windows, whatever was written in between.
Answers(a, bytes) == \A i \in 0..(bytes - 1) :
    pci_to_physical_addr(a) >= 0 /\ (pci_to_physical_addr(a) + i) \div PageBytes \in Owned
EnabledIsOwned ==
    /\ "io" \in command => \A k \in IoBars : Answers(get_bar_addr(Bars[k]), Bars[k].size)
    /\ "mem" \in command => \A k \in DOMAIN Bars \ IoBars : Answers(get_bar_addr(Bars[k]), Bars[k].size)
    /\ Bridge => \A w \in {"io", "mem", "pref"} :
        (IF w = "io" THEN "io" ELSE "mem") \in command /\ WindowBase(w) <= WindowLimit(w) =>
            Answers(WindowBase(w), WindowLimit(w) - WindowBase(w) + 1)

=============================================================================
