\* Three CPUs, one page and four TLB versions: fences that overlap conversions, CPUs
\* that lag behind, and more holders than the reference count has room for.
CONSTANTS
    RefCountMax = 2
    Cpu = {c1, c2, c3}
    Guest = {2}
    NumPages = 1
    Holder = {h1, h2, h3}
    MaxVersion = 3
SPECIFICATION Spec
SYMMETRY FenceSymmetry
INVARIANTS
    NoStaleHostTranslation
    NoStaleDma
