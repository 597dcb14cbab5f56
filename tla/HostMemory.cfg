\* Two CPUs and two pages: ranges of pages, and every interleaving of conversion,
\* fence, assignment, reclaim and sharing.
CONSTANTS
    RefCountMax = 1
    Cpu = {c1, c2}
    Guest = {2}
    NumPages = 2
    Holder = {h1}
    MaxVersion = 1
SPECIFICATION Spec
SYMMETRY CpuSymmetry
INVARIANTS
    PteMatchesOwnership
    UnwrapsSucceed
PROPERTIES
    AssignOnlyConverted
