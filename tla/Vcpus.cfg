CONSTANTS
    Part = {"locks", "context", "interrupts", "exit", "pair", "vmid", "pmu", "switch"}
    Cpu = {c1, c2}
    Guest = {g1, g2}
    Imsic = {c1, c2, g1, g2}
    None = None
    NoGuest = NoGuest
    MaxOps = 0
SPECIFICATION Vcpus
SYMMETRY CpusAndGuests
INVARIANTS LocksAreSafe ContextIsOwn  TranslationsAreOwn 
