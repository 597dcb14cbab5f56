\* Two CPUs and one page: a fence that overtakes a conversion.
CONSTANTS
    RefCountMax = 1
    Cpu = {c1, c2}
    Guest = {2}
    NumPages = 1
    Holder = {h1}
    MaxVersion = 2
SPECIFICATION Spec
SYMMETRY CpuSymmetry
INVARIANT NoStaleTranslationEver
