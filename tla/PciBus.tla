------------------------------- MODULE PciBus --------------------------------
(***************************************************************************)
(* Enumeration of the PCI hierarchy, which numbers the buses while it      *)
(* looks behind bridges, and the routing of the host's configuration       *)
(* accesses by the virtual bus numbers that the host gives to the bridges. *)
(***************************************************************************)
EXTENDS Integers, Sequences, FiniteSets, SequencesExt

CONSTANTS
    Tree,           \* bus -> set of the [dev, fn, child] on it; child = "none" for an endpoint
    RootBus,        \* the bus of the root complex
    BusStart, BusEnd, MaxBus,   \* bus-range of the device tree, and Bus::max()
    Devices, Functions,         \* numbers of devices of a bus and functions of a device
    Segment         \* linux,pci-domain

VARIABLES
    pc,             \* "enumerate", "run" or "failed" (probe_from() returned an error)
    stack,          \* activations of PciBus::enumerate(), outermost first
    sec, sub,       \* the bridges' bus number registers, by the bus behind the bridge
    buses,          \* the PciBus created: bus -> [num, end, devices]
    virtual         \* the virtual bus numbers: bus -> [start, end]

vars == <<pc, stack, sec, sub, buses, virtual>>

Bus == DOMAIN Tree
Behind == Bus \ {RootBus}
Parent(b) == CHOOSE p \in Bus : \E f \in Tree[p] : f.child = b
top == Last(stack)

-----------------------------------------------------------------------------
\* Address::new() and config_space_offset(), in functions.
Bits(segment, bus, dev, fn) == ((segment * (MaxBus + 1) + bus) * Devices + dev) * Functions + fn
config_space_offset(segment, bus, dev, fn) == Bits(segment, bus, dev, fn) - Bits(0, BusStart, 0, 0)
config_size == (BusEnd - BusStart + 1) * Devices * Functions
registers_for(bus, dev, fn) == config_space_offset(Segment, bus, dev, fn) + 1 <= config_size

\* Where the configuration cycles for a bus number end up (external: the bridges). "none": nowhere.
Route(num) ==
    LET from[b \in Bus] ==
            LET forwards == {f \in Tree[b] : f.child # "none" /\ sec[f.child] <= num /\ num <= sub[f.child] /\ sec[f.child] # 0}
                f == CHOOSE f \in forwards : TRUE
            IN IF forwards = {} THEN "none"
               ELSE IF sec[f.child] = num THEN f.child ELSE from[f.child]
    IN IF num = BusStart THEN RootBus ELSE from[RootBus]

\* DevIter, function_scan_range() and FnIter: the functions seen on a bus, in order. Function 0 tells
\* whether there are more; the iterator ends at the first function that is absent.
Present(b, num) == IF b = "none" THEN {} ELSE {f \in Tree[b] : registers_for(num, f.dev, f.fn)}
multi_function(b, d) == \E f \in Tree[b] : f.dev = d /\ f.fn > 0
function_scan_range(b, d) == IF multi_function(b, d) THEN 0..(Functions - 1) ELSE {0}
functions(b, num) ==
    LET all == Present(b, num)
        seen == {f \in all : \A n \in 0..f.fn : \E g \in all : g.dev = f.dev /\ g.fn = n}
    IN SetToSortSeq({f \in seen : f.fn \in function_scan_range(b, f.dev)},
                    LAMBDA f, g : f.dev < g.dev \/ (f.dev = g.dev /\ f.fn < g.fn))

-----------------------------------------------------------------------------
Frame(b, num) == [bus |-> b, num |-> num, cur |-> num, todo |-> <<>>, found |-> <<>>, scanned |-> FALSE]

NoRange == [start |-> 0, end |-> 0]
Init ==
    /\ pc = "enumerate" /\ stack = <<Frame(RootBus, BusStart)>>
    /\ sec \in [Behind -> {0, BusStart + 1}] /\ sub = [b \in Behind |-> sec[b]]     \* left by firmware
    /\ buses = <<>> /\ virtual = [b \in Bus |-> NoRange]

Fail == pc' = "failed" /\ UNCHANGED <<stack, sec, sub, buses, virtual>>

\* The first half of enumerate(): creates the devices on the bus. PciBridge::new() closes bridges.
Scan ==
    /\ pc = "enumerate" /\ ~top.scanned
    /\ IF top.num < BusStart \/ top.num > BusEnd THEN Fail
       ELSE LET seen == functions(Route(top.num), top.num)
                closed == {f.child : f \in Range(seen)}
            IN /\ stack' = [stack EXCEPT ![Len(stack)] =
                               [top EXCEPT !.todo = seen, !.found = seen, !.scanned = TRUE]]
               /\ sec' = [b \in Behind |-> IF b \in closed THEN 0 ELSE sec[b]]
               /\ sub' = [b \in Behind |-> IF b \in closed THEN 0 ELSE sub[b]]
               /\ UNCHANGED <<pc, buses, virtual>>

\* The second half: the next bridge gets all the buses from the next number on.
Remaining(frame) == Tail(frame.todo)
Descend ==
    /\ pc = "enumerate" /\ top.scanned /\ top.todo # <<>>
    /\ LET f == Head(top.todo)
           rest == [stack EXCEPT ![Len(stack)] = [top EXCEPT !.todo = Remaining(top)]]
       IN IF top.cur + 1 > MaxBus THEN Fail
          ELSE IF f.child = "none" THEN stack' = rest /\ UNCHANGED <<pc, sec, sub, buses, virtual>>
          ELSE /\ stack' = Append(rest, Frame(f.child, top.cur + 1))
               /\ sec' = [sec EXCEPT ![f.child] = top.cur + 1]
               /\ sub' = [sub EXCEPT ![f.child] = MaxBus]
               /\ UNCHANGED <<pc, buses, virtual>>

\* When the child bus is enumerated, its bridge is constrained to the buses found.
ConstrainNot(b, end) == sub
Constrain(b, end) == [sub EXCEPT ![b] = end]
Ascend ==
    /\ pc = "enumerate" /\ top.scanned /\ top.todo = <<>>
    /\ buses' = buses @@ (top.bus :> [num |-> top.num, end |-> top.cur, devices |-> top.found])
    /\ IF Len(stack) = 1
       THEN pc' = "run" /\ stack' = <<>> /\ sub' = sub
       ELSE /\ stack' = [Front(stack) EXCEPT ![Len(stack) - 1].cur = top.cur]
            /\ sub' = Constrain(top.bus, top.cur) /\ pc' = pc
    /\ UNCHANGED <<sec, virtual>>

-----------------------------------------------------------------------------
\* The host writes the bus number registers of the bridge above bus b.
set_virtual_secondary_bus_num(b, n) ==
    /\ pc = "run" /\ b \in DOMAIN buses /\ virtual' = [virtual EXCEPT ![b].start = n]
    /\ UNCHANGED <<pc, stack, sec, sub, buses>>
set_virtual_subordinate_bus_num(b, n) ==
    /\ pc = "run" /\ b \in DOMAIN buses /\ virtual' = [virtual EXCEPT ![b].end = n]
    /\ UNCHANGED <<pc, stack, sec, sub, buses>>

\* device_by_virtual_address_on(): the bus, device and function that answers, or <<>>. The first
\* bridge whose virtual range has the bus number is the only one that is tried.
covers(b, num) == virtual[b].start <= num /\ num <= virtual[b].end
device_by_virtual_address_on(num, dev, fn) ==
    LET on[b \in Bus] ==
            LET ds == buses[b].devices
                bridges == SelectSeq(ds, LAMBDA f : f.child # "none" /\ covers(f.child, num))
                here == {f \in Range(ds) : f.dev = dev /\ f.fn = fn}
            IN IF num = virtual[b].start
               THEN IF here = {} THEN <<>> ELSE <<b, dev, fn>>
               ELSE IF bridges = <<>> THEN <<>> ELSE on[Head(bridges).child]
    IN on[RootBus]

\* offset_to_address() and virtual_config_offset_to_device(), for an offset in functions. The fault
\* handler lets through offsets from 0 to the size of the space.
virtual_config_offset_to_device(offset) ==
    LET num == (offset \div (Devices * Functions)) + BusStart
    IN IF offset >= config_size \/ num > MaxBus THEN <<>>
       ELSE device_by_virtual_address_on(num, (offset \div Functions) % Devices, offset % Functions)
Answering == [offset \in 0..config_size |-> virtual_config_offset_to_device(offset)]

Next ==
    \/ Scan \/ Descend \/ Ascend
    \/ \E b \in Behind, n \in 0..MaxBus :
          set_virtual_secondary_bus_num(b, n) \/ set_virtual_subordinate_bus_num(b, n)
Spec == Init /\ [][Next]_vars

-----------------------------------------------------------------------------
\* Configuration cycles issued while a bus is enumerated reach the bus behind the bridge that was
\* just opened, whatever bus numbers firmware left in the other bridges.
ScanReachesBus ==
    pc = "enumerate" /\ ~top.scanned /\ top.num <= BusEnd => Route(top.num) = top.bus

\* After enumeration, each bus answers to its number and to no other, and the bridge above it forwards
\* exactly the buses behind it.
BusesAreRouted ==
    pc = "run" => \A b \in DOMAIN buses :
        /\ Route(buses[b].num) = b
        /\ \A c \in DOMAIN buses : buses[b].num = buses[c].num => b = c
        /\ b # RootBus => sec[b] = buses[b].num /\ sub[b] = buses[b].end /\ sub[b] <= BusEnd

\* The host numbers the buses as it must: a bridge's range lies in the range of the bridge above it,
\* starts beyond the number of the bus it is on, and shares no number with its siblings.
Start(b) == IF b = RootBus THEN BusStart ELSE virtual[b].start
End(b) == IF b = RootBus THEN MaxBus ELSE virtual[b].end
NumberedByHost ==
    /\ \A b \in Behind : Start(Parent(b)) < Start(b) /\ Start(b) <= End(b) /\ End(b) <= End(Parent(b))
    /\ \A b, c \in Behind : b # c /\ Parent(b) = Parent(c) => End(b) < Start(c) \/ End(c) < Start(b)

\* Then each device answers at the offset of its bus, device and function, and nothing answers at two
\* offsets or at an offset where there is no device.
DevicesAnswer ==
    pc = "run" /\ NumberedByHost =>
        /\ \A b \in Bus : \A f \in Range(buses[b].devices) :
              LET offset == config_space_offset(0, Start(b), f.dev, f.fn)
              IN offset < config_size => Answering[offset] = <<b, f.dev, f.fn>>
        /\ \A o, p \in 0..config_size : Answering[o] = Answering[p] /\ Answering[o] # <<>> => o = p

=============================================================================
