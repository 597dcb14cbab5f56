CONSTANTS
    Part = {"iommu", "directory", "topology", "msi", "one", "two", "turns"}
    Cpu = {c1, c2}
    Vm = {v1, v2}
    Device = {d1, d2}
    NoVm = NoVm
    MAX_GSCIDS = 2
    Capacity = 4
    MaxVersion = 1
    OneContext = TRUE
    FileId = {f1}
    Vcpu = {u1, u2}
    NoVcpu = NoVcpu
    NoFile = NoFile
SPECIFICATION Devices
SYMMETRY Symmetric
INVARIANTS UnwrapsSucceed DetachedIsForgotten FenceFlushes DirectoryIsExact FilesAreAddressed  
