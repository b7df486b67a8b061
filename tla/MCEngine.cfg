SPECIFICATION EngineSpec
CONSTANTS
    Words = 2
    Bits = 2
    Archs = {"x86", "bpf"}
    ArchModes = {"default", "bpf64"}
    Cpus <- MCCpus
INVARIANTS
    EngineTypeOK
    ReadBack
PROPERTY ImplementsPromise
