----------------------------- MODULE MCPlatform -----------------------------
(***************************************************************************)
(* The parts that describe the platform: the boot heap with its arenas,    *)
(* the device tree, and PCI.  No property relates two of them, so one part *)
(* is chosen at the beginning and the others stay as they are.             *)
(***************************************************************************)
EXTENDS HypAlloc

VARIABLES
    part,
    tree, handles,                                                  \* of DeviceTree
    resources, owner, bars, bar_addr, command, ranges, host, boot_pc, current,  \* of PciResources
    reg, enabled, attached, taken,                                  \* of PciConfig
    pc, stack, sec, sub, buses, virtual,                            \* of PciBus
    place, bytes, op,                                               \* of PciAccess
    hw, start, current_offset, caps, caps_pc                        \* of PciCaps

-----------------------------------------------------------------------------
\* Trees of up to five nodes; and of up to three nodes with names and properties of several
\* lengths, where any allocation may fail.  With the NUL the strings take 1, 4 and 5 bytes.
Lengths == [s \in {"", "abc", "abcd"} |-> CASE s = "" -> 0 [] s = "abc" -> 3 [] OTHER -> 4]
DT == INSTANCE DeviceTree WITH
    MaxNodes <- 5, MaxProps <- 0, Length <- Lengths, NodeName <- {"abc"}, PropName <- {}, Value <- {}, CanFail <- FALSE
Fdt == INSTANCE DeviceTree WITH
    MaxNodes <- 3, MaxProps <- 1, Length <- Lengths, NodeName <- {"", "abcd"}, PropName <- {"abc", "abcd"},
    Value <- {"", "abc"}, CanFail <- TRUE

\* Windows that are aligned to their size and do not touch, with and without prefetchable ones;
\* the same device can be asked for twice.
W(a, p, s) == [addr |-> a, pci_addr |-> p, size |-> s]
SeparateWindows ==
    {[IoPort |-> W(64, 0, 4), Mem32 |-> W(128, 32, 16), Mem64 |-> W(160, 64, 8)],
     [Mem32 |-> W(128, 32, 8), PrefetchableMem64 |-> W(160, 64, 8)],
     [Mem32 |-> W(128, 32, 2), PrefetchableMem32 |-> W(160, 64, 16)]}
B(t, s) == [type |-> t, size |-> s]
SomeBars ==
    {<<>>, <<B("Mem32", 4)>>, <<B("Mem32", 1), B("PrefetchableMem64", 8)>>,
     <<B("IoPort", 4), B("Mem32", 2)>>, <<B("PrefetchableMem32", 8), B("PrefetchableMem32", 4)>>,
     <<B("Mem64", 8)>>}
Res == INSTANCE PciResources WITH
    PageBytes <- 2, Windows <- SeparateWindows, HypDevice <- <<"iommu1", "iommu2", "iommu1">>,
    HostDevice <- {"nic"}, Bars <- SomeBars, pc <- boot_pc

\* Two resources: bus addresses 2 to 9 at CPU addresses 12 to 19, and 10 and 11 at 32 and 33.
TwoWindows == <<W(12, 2, 8), W(32, 10, 2)>>
EndpointBars == <<B("mem64", 2), B("upper", 0), B("mem32", 1), B("none", 0), B("io", 1), B("none", 0)>>
BridgeBars == <<B("mem64", 2), B("upper", 0)>>
EP == INSTANCE PciConfig WITH
    PageBytes <- 2, WindowBytes <- 4, Hardware <- EndpointBars, Bridge <- FALSE, Value <- {0, 2, 3, 5},
    Upper <- {0, 1}, UpperUnit <- 6, Root <- TwoWindows, Owned <- {6, 7, 8, 16}, command <- enabled, owner <- taken
BR == INSTANCE PciConfig WITH
    PageBytes <- 2, WindowBytes <- 2, Hardware <- BridgeBars, Bridge <- TRUE, Value <- {0, 1},
    Upper <- {0, 1}, UpperUnit <- 4, Root <- TwoWindows, Owned <- {6, 7, 16}, command <- enabled, owner <- taken

\* A bridge with a bridge behind it, and a second bridge.
F(d, f, c) == [dev |-> d, fn |-> f, child |-> c]
Forked ==
    [root |-> {F(0, 0, "a"), F(0, 1, "c"), F(1, 0, "none")}, a |-> {F(0, 0, "b"), F(1, 0, "none")},
     b |-> {F(0, 0, "none")}, c |-> {F(1, 0, "none")}]
Bus == INSTANCE PciBus WITH
    Tree <- Forked, RootBus <- "root", BusStart <- 0, BusEnd <- 4, MaxBus <- 4, Devices <- 2, Functions <- 2,
    Segment <- 0

\* The dwords of a layout; registers that are the same as others are left out.
Dwords ==
    [endpoint |-> {0, 1, 2, 3, 4, 11, 13}, bridge |-> {6, 7, 8, 10, 12, 13, 14}, pm |-> {0, 1}, msi |-> {0, 1, 3, 4},
     msi_masks |-> {4, 5}, msix |-> {0, 1}, vendor |-> {0, 1}, subsys |-> {1}, express |-> {1}, link |-> {3, 4}]
Access == INSTANCE PciAccess WITH Places <- UNION {{<<l, n>> : n \in Dwords[l]} : l \in DOMAIN Dwords}

Caps == INSTANCE PciCaps WITH
    Slots <- {64, 72, 80}, Ids <- {"msi", "express", "bad", "unknown"}, MaxCaps <- 2, pc <- caps_pc

ASSUME DT!DeviceTreeAssumption /\ Fdt!DeviceTreeAssumption

-----------------------------------------------------------------------------
treeVars == <<tree, handles>>
resVars == <<resources, owner, bars, bar_addr, command, ranges, host, boot_pc, current>>
configVars == <<reg, enabled, attached, taken>>
busVars == <<pc, stack, sec, sub, buses, virtual>>
accessVars == <<place, bytes, op>>
capsVars == <<hw, start, current_offset, caps, caps_pc>>

Off == "off"
PlatformInit ==
    /\ part \in {"heap", "tree", "fdt", "root", "endpoint", "bridge", "bus", "access", "caps"}
    /\ Init
    /\ DT!Init
    /\ IF part = "root" THEN Res!Init
       ELSE /\ resources = Off /\ owner = Off /\ bars = Off /\ bar_addr = Off /\ command = Off /\ ranges = Off
            /\ host = Off /\ boot_pc = Off /\ current = Off
    /\ IF part = "bridge" THEN BR!Init ELSE EP!Init
    /\ IF part = "bus" THEN Bus!Init
       ELSE pc = Off /\ stack = Off /\ sec = Off /\ sub = Off /\ buses = Off /\ virtual = Off
    /\ IF part = "access" THEN Access!Init ELSE place = Off /\ bytes = Off /\ op = Off
    /\ IF part = "caps" THEN Caps!Init
       ELSE hw = Off /\ start = Off /\ current_offset = Off /\ caps = Off /\ caps_pc = Off

allVars == <<part, vars, treeVars, resVars, configVars, busVars, accessVars, capsVars>>

\* The heap is never used up for good; the others come to an end.
Stop == part \in {"tree", "fdt", "root", "endpoint", "bridge", "bus", "access", "caps"} /\ UNCHANGED allVars
PlatformNext ==
    \/ /\ UNCHANGED part
       /\ IF part = "heap" THEN Next ELSE UNCHANGED vars
       /\ CASE part = "tree" -> DT!Next [] part = "fdt" -> Fdt!Next [] OTHER -> UNCHANGED treeVars
       /\ IF part = "root" THEN Res!Next ELSE UNCHANGED resVars
       /\ CASE part = "endpoint" -> EP!Next [] part = "bridge" -> BR!Next [] OTHER -> UNCHANGED configVars
       /\ IF part = "bus" THEN Bus!Next ELSE UNCHANGED busVars
       /\ IF part = "access" THEN Access!Next ELSE UNCHANGED accessVars
       /\ IF part = "caps" THEN Caps!Next ELSE UNCHANGED capsVars
    \/ Stop

Platform == PlatformInit /\ [][PlatformNext]_allVars

-----------------------------------------------------------------------------
\* "this implementation guarantees that the tree structure itself is well-formed": the nodes in the
\* tree are in the arena, and each one but the root is once in the children of its parent; iter_from()
\* goes through a node and all below it once, in depth-first order; a tree that is written and parsed
\* again is the same, in blocks of exactly the sizes of get_layout(); and remove_node() "removes the
\* node and all of its descendents from the tree", and no other.
TreeIsKept ==
    /\ [](/\ part \in {"tree", "fdt"} => DT!WellFormed
          /\ part = "tree" => DT!IterIsDepthFirst
          /\ part = "fdt" => Fdt!RoundTrip /\ Fdt!LayoutExact)
    /\ [][part = "tree" => DT!RemovesSubtreeStep]_allVars

\* Each byte a device answers to while a space is enabled lies in a page that is mapped by the host
\* or belongs to the hypervisor, whatever was written to BARs and windows in between.  What the
\* hypervisor allocates lies in a window, belongs to one BAR, leads back to it as a bus address, and
\* is not given to the host; and a device is enabled only when each of its BARs has an address.
PciIsOwned ==
    /\ part = "root" => Res!RangesDisjoint /\ Res!EnabledIsComplete /\ Res!BarTranslatesBack
    /\ part = "endpoint" => EP!EnabledIsOwned
    /\ part = "bridge" => BR!EnabledIsOwned

\* Configuration accesses reach what they name.  Cycles issued while a bus is enumerated reach the
\* bus behind the bridge that was just opened, and afterwards each device answers at the offset of
\* its bus, device and function and at no other; a read returns exactly the bytes it asks for, and a
\* write has no effect on bytes it does not cover ("with only the bytes that were popped"); and a VM
\* that walks the emulated list meets each supported capability once and comes to an end.
PciIsReached ==
    /\ part = "bus" => Bus!ScanReachesBus /\ Bus!BusesAreRouted /\ Bus!DevicesAnswer
    /\ part = "access" => Access!ReadIsExact /\ Access!WriteIsExact
    /\ part = "caps" => Caps!WalkIsHardware /\ Caps!RefusedForCause
=============================================================================
