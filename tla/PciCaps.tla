------------------------------- MODULE PciCaps -------------------------------
(***************************************************************************)
(* PciCapabilities: the capability list of a device is parsed once, and a  *)
(* list with only the supported capabilities is shown in its place.        *)
(***************************************************************************)
EXTENDS Integers, Sequences, FiniteSets, SequencesExt

CONSTANTS
    Slots,          \* offsets of capability structures, all in the capability area
    Ids,            \* capability ids: the supported ones, "bad" (one new() refuses) and "unknown"
    MaxCaps         \* MAX_PCI_CAPS

VARIABLES
    hw,             \* the device's list: offset -> [id, next]; next = 0 ends the list
    start,          \* the device's capability pointer
    current_offset, caps,       \* of PciCapabilities::new(); caps has [id, offset, next]
    pc              \* "parse", "done" or "error"

vars == <<hw, start, current_offset, caps, pc>>

Supported == Ids \ {"unknown"}
\* The structures the list reaches from an offset on, in order; the hardware's list ends.
Chain(o) ==
    LET from[n \in 0..Cardinality(Slots)] ==
            IF n = 0 THEN <<o>> ELSE LET p == from[n - 1] IN
                IF Last(p) = 0 THEN p ELSE Append(p, hw[Last(p)].next)
    IN from[Cardinality(Slots)]
Ends(o) == Last(Chain(o)) = 0

Init ==
    /\ hw \in [Slots -> [id : Ids, next : Slots \cup {0}]] /\ start \in Slots \cup {0}
    /\ \A o \in Slots : Ends(o)
    /\ current_offset = start /\ caps = <<>> /\ pc = "parse"

\* The loop of new(): PciCapability::new() can fail, and there is room for MaxCaps capabilities.
Full == Len(caps) = MaxCaps
Advance(o) == hw[o].next
NewCap(id, offset) == [id |-> id, offset |-> offset, next |-> 0]
Parse ==
    /\ pc = "parse" /\ current_offset \in Slots
    /\ current_offset' = Advance(current_offset)
    /\ LET id == hw[current_offset].id
       IN CASE id = "unknown" -> UNCHANGED <<caps, pc>>
            [] id = "bad" \/ (id # "unknown" /\ Full) -> pc' = "error" /\ caps' = caps
            [] OTHER -> /\ caps' = Append(caps, NewCap(id, current_offset))
                        /\ pc' = pc
    /\ UNCHANGED <<hw, start>>

\* Then the capabilities are linked to each other.
NextPtr(i) == IF i < Len(caps) THEN caps[i + 1].offset ELSE 0
Link ==
    /\ pc = "parse" /\ current_offset = 0
    /\ caps' = [i \in DOMAIN caps |-> [caps[i] EXCEPT !.next = NextPtr(i)]]
    /\ pc' = "done" /\ UNCHANGED <<hw, start, current_offset>>

start_offset == IF caps = <<>> THEN 0 ELSE caps[1].offset

Next == Parse \/ Link
Spec == Init /\ [][Next]_vars

-----------------------------------------------------------------------------
\* A VM that walks the emulated list, reading ids and next pointers, meets the supported
\* capabilities, each once and in the order of the device's list, and comes to an end.
Hardware == SelectSeq(Chain(start), LAMBDA o : o # 0 /\ hw[o].id \in Supported)
Walk ==
    LET at(o) == SelectSeq(caps, LAMBDA c : c.offset = o)
        from[n \in 0..Cardinality(Slots)] ==
            IF n = 0 THEN <<start_offset>> ELSE LET p == from[n - 1] IN
                IF Last(p) = 0 \/ at(Last(p)) = <<>> THEN p ELSE Append(p, at(Last(p))[1].next)
    IN from[Cardinality(Slots)]
WalkIsHardware == pc = "done" => SelectSeq(Walk, LAMBDA o : o # 0) = Hardware /\ Last(Walk) = 0

\* A list is refused only for a capability that cannot be emulated or for too many of them.
RefusedForCause ==
    pc = "error" => Len(Hardware) > MaxCaps \/ \E o \in Range(Hardware) : hw[o].id = "bad"

=============================================================================
