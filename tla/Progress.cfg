CONSTANTS
    Part = {"start", "locks", "iommu", "interrupts"}
    NoVm = NoVm
    None = None
SPECIFICATION ProgressSpec
PROPERTY EverythingEnds
