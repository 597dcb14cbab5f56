\* Two vCPUs, one host CPU: two pages of the guest's address space share a frame of the host.
CONSTANTS
    RefCountMax = 2
    Vcpu = {v1, v2}
    HostCpu = {h1}
    NumGpas = 2
    NumFrames = 1
    MaxVersion = 2
SPECIFICATION Spec
INVARIANTS
    FramesAccounted
    UnwrapsSucceed
    NoStaleGuestTranslation
    ConversionsTracked
