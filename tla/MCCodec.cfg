\* The codecs of BPF, WebAssembly and x86.
CONSTANTS
    CodecModes = {"bpf", "wasm32", "wasm64", "x86_16", "x86_32", "x86_64", "aarch64"}
    AllFeats <- MCAllFeats
    FeatSets <- MCFeatSets
    Requests <- MCRequests
    Streams <- MCStreams
    Caps = {3}
    BpfRecords <- BpfRows
    OffBits = 4
    ImmBits = 6
    AddrBits = 8
    WasmRecords <- WasmRows
    WasmPrefixes = {208, 251, 252, 253, 254}
    Group = 3
    WordBytes = 2
    LongBytes = 4
    X86Records <- X86Rows
    X86EncodeOrder <- X86Order
    DataBits = 2
    X86AddrBits = 10
    MaxBytes = 15
    A64Records <- MCA64Records
    A64Pstates <- MCA64Pstates
    A64AddrBits = 30
    A64PageBits = 4

SPECIFICATION Spec
INVARIANTS CodecTypeOK ReadsBack TruncatedIsRefused FeatureVerdict
PROPERTIES RetrySettles
\* A session ends when the code was read back or a request was refused.
CHECK_DEADLOCK FALSE
