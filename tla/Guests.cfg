CONSTANTS
    Part = {"guests", "crowd", "attestation", "lists", "stage", "copy", "stray"}
    Cpu = {c1, c2}
    Vcpu = {v0, v1}
    BootVcpu = v0
    Location = {l1, l2}
    Entry = {e1, e2}
    MaxId = 2
    GuestStorage = 1
    ActiveStorage = 2
    Page = {p1, p2}
SPECIFICATION GuestsSpec
SYMMETRY Symmetric
INVARIANTS RefCountExact RunningIsComplete PagesAccounted CopyIsPinned
PROPERTIES  EvidenceIsTrue 
