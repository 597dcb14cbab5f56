\* Two vCPUs and one host CPU: conversions that wait for a fence.
CONSTANTS
    RefCountMax = 1
    Vcpu = {v1, v2}
    HostCpu = {h1}
    NumGpas = 1
    NumFrames = 1
    MaxVersion = 2
SPECIFICATION FairSpec
PROPERTY
    ConversionsEnd
