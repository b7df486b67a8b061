---------------------------- MODULE CodecTables -----------------------------
(***************************************************************************)
(* The rows of the generated tables the codecs are checked with: the order *)
(* and the fields are those of the tables, for each form, prefix, way to   *)
(* match and way to hold an operand one row at least.                      *)
(***************************************************************************)
EXTENDS A64Decode

(***************************************************************************)
(* BPF and WebAssembly.                                                    *)
(***************************************************************************)
BpfRow(id, mnemonic, opcode, kind, form, width) ==
    [id |-> id, mnemonic |-> mnemonic, opcode |-> opcode, kind |-> kind, form |-> form,
     match |-> {}, off |-> 0, imm |-> 0, src |-> 0, size |-> 8, width |-> width,
     needs |-> {}]

ByOff(row, off) == [row EXCEPT !.match = {"OFF"}, !.off = off]
ByImm(row, imm) == [row EXCEPT !.match = {"IMM"}, !.imm = imm]

\* LDW and LDW32 have the same code; the second is there for the assembler.
BpfRows == <<
    BpfRow("JMP", "ja", 5, "DIRECT_BRANCH", "BRANCH", 0),
    ByOff(BpfRow("ADD_RI", "add", 7, "ALU", "ALU_RI", 64), 0),
    ByOff(BpfRow("ADD_RR_32", "add", 12, "ALU", "ALU_RR", 32), 0),
    BpfRow("JX", "jx", 13, "INDIRECT_BRANCH", "CALL_REG", 64),
    ByOff(BpfRow("ADD_RR", "add", 15, "ALU", "ALU_RR", 64), 0),
    BpfRow("JEQ_RI", "jeq", 21, "COND_BRANCH", "BRANCH_RI", 64),
    BpfRow("JEQ_RI_32", "jeq", 22, "COND_BRANCH", "BRANCH_RI", 32),
    [BpfRow("LD_IMM64", "ld_imm64", 24, "PSEUDO", "LD_IMM64", 64)
     EXCEPT !.match = {"SRC"}, !.size = 16],
    BpfRow("JEQ_RR", "jeq", 29, "COND_BRANCH", "BRANCH_RR", 64),
    BpfRow("LD_ABS_W", "ld", 32, "LOAD", "LOAD_ABS", 32),
    ByOff(BpfRow("DIV_RR_32", "div", 60, "ALU", "ALU_RR", 32), 0),
    ByOff(BpfRow("SDIV_RR_32", "div", 60, "ALU", "ALU_RR", 32), 1),
    BpfRow("LD_IND_W", "ld", 64, "LOAD", "LOAD_IND", 32),
    BpfRow("LDW", "ldx", 97, "LOAD", "LOAD_MEM", 32),
    [BpfRow("LDW32", "ldx", 97, "LOAD", "LOAD_MEM", 32) EXCEPT !.needs = {"alu32"}],
    BpfRow("STW_IMM", "st", 98, "STORE", "STORE_MEM_IMM", 32),
    BpfRow("STW", "stx", 99, "STORE", "STORE_MEM_REG", 32),
    ByOff(BpfRow("NEG_32", "neg", 132, "ALU", "ALU_DST", 32), 0),
    BpfRow("JAL", "call", 133, "DIRECT_CALL", "CALL_IMM", 0),
    ByImm(BpfRow("RET", "exit", 149, "RETURN", "ALU_DST", 0), 0),
    ByImm(BpfRow("LE16", "le", 212, "ALU", "ALU_DST", 16), 16),
    ByImm(BpfRow("LE32", "le", 212, "ALU", "ALU_DST", 32), 32)>>

WasmRow(id, mnemonic, prefix, opcode, cls, codes, needs) ==
    [id |-> id, mnemonic |-> mnemonic, prefix |-> prefix, opcode |-> opcode,
     mode64 |-> FALSE, cls |-> cls, codes |-> codes, needs |-> needs]

For64(row) == [row EXCEPT !.mode64 = TRUE]

WasmRows == <<
    WasmRow("NOP_S", "nop", 0, 1, "NOP", <<>>, {}),
    WasmRow("BLOCK_S", "block", 0, 2, "WASM_BLOCK", <<"BLOCKTYPE">>, {}),
    WasmRow("END_S", "end", 0, 11, "WASM_END", <<>>, {}),
    WasmRow("END_TRY_TABLE_S", "end", 0, 11, "WASM_END", <<>>, {"exceptions"}),
    WasmRow("BR_S", "br", 0, 12, "DIRECT_BRANCH", <<"INDEX">>, {}),
    WasmRow("CALL_INDIRECT_S", "call_indirect", 0, 17, "INDIRECT_CALL",
            <<"INDEX", "INDEX">>, {}),
    WasmRow("TABLE_GET_EXNREF_S", "table.get", 0, 37, "LOAD", <<"INDEX">>,
            {"reference-types", "exceptions"}),
    WasmRow("TABLE_GET_EXTERNREF_S", "table.get", 0, 37, "LOAD", <<"INDEX">>,
            {"reference-types"}),
    For64(WasmRow("LOAD_I32_A64_S", "i32.load", 0, 40, "LOAD", <<"ULEB", "ULEB">>, {})),
    WasmRow("LOAD_I32_A32_S", "i32.load", 0, 40, "LOAD", <<"ULEB", "ULEB">>, {}),
    WasmRow("CONST_I32_S", "i32.const", 0, 65, "OTHER", <<"SLEB32">>, {}),
    WasmRow("CONST_I64_S", "i64.const", 0, 66, "OTHER", <<"SLEB64">>, {}),
    WasmRow("CONST_F32_S", "f32.const", 0, 67, "OTHER", <<"F32">>, {}),
    WasmRow("CONST_F64_S", "f64.const", 0, 68, "OTHER", <<"F64">>, {}),
    WasmRow("MEMORY_INIT_A32_S", "memory.init", 252, 8, "STORE", <<"ULEB", "ULEB">>,
            {"bulk-memory"}),
    WasmRow("MEMORY_INIT_A64_S", "memory.init", 252, 8, "STORE", <<"ULEB", "ULEB">>,
            {"bulk-memory"}),
    WasmRow("EXTRACT_LANE_I8x16_s_S", "i8x16.extract_lane_s", 253, 21, "OTHER",
            <<"BYTE">>, {"simd128"}),
    WasmRow("ATOMIC_FENCE_S", "atomic.fence", 254, 3, "OTHER", <<"BYTE">>, {"atomics"})>>

-----------------------------------------------------------------------------
(***************************************************************************)
(* x86.  A feature is one name where the table has a bit.                  *)
(***************************************************************************)
Row(id, mnemonic) ==
    [id |-> id, mnemonic |-> mnemonic, cls |-> "OTHER", flags |-> {}, form |-> "RAW",
     opcode |-> 0, plus |-> 0, map |-> 0, mandatory |-> 0, modrm |-> "NONE",
     fixedReg |-> -1, fixedModrm |-> -1, immSize |-> 0, extraImm |-> 0,
     pcRel |-> FALSE, opSize |-> 0, adSize |-> 0,
     modes |-> {"x86_16", "x86_32", "x86_64"}, rexW |-> FALSE, ignoresW |-> FALSE,
     vector |-> "NORMAL", l |-> 0, l2 |-> 0, ignoresL |-> FALSE, has4v |-> FALSE,
     k |-> FALSE, z |-> FALSE, b |-> FALSE, nf |-> FALSE, u |-> FALSE,
     usesAaa |-> FALSE, signed |-> FALSE, immSigned |-> FALSE, ops |-> <<>>,
     rm |-> 0, reg |-> 0, imm |-> 0, immReg |-> 0, extra |-> 0, opcodeReg |-> 0,
     acc |-> 0, dx |-> 0, fixedRegOp |-> 0, fixedId |-> <<"none", 0, 0>>, vvvv |-> 0,
     mask |-> 0, round |-> 0, hle |-> FALSE, name64 |-> FALSE, isNd |-> FALSE,
     suffix |-> -1, lock |-> FALSE, needs |-> {}, alias |-> "none"]

S(kind, class, width) == [kind |-> kind, class |-> class, width |-> width]
R(width) == S("REG", "GPR", width)
M(width) == S("MEM", "NONE", width)
I(width) == S("IMM", "NONE", width)
P(width) == S("PC_REL", "NONE", width)
XMM  == S("REG", "XMM", 128)
YMM  == S("REG", "YMM", 256)
ZMM  == S("REG", "ZMM", 512)
MMX  == S("REG", "MMX", 64)
TILE == S("OPAQUE", "TILE", 0)

X86Rows == <<
    [Row("ADD16rr_ND", <<"add", 0>>) EXCEPT !.modes = {"x86_64"},
        !.form = "MODRM_RM_REG", !.opcode = 1, !.map = 8, !.mandatory = 102,
        !.modrm = "REG", !.vector = "EVEX", !.ignoresL = TRUE, !.has4v = TRUE,
        !.b = TRUE, !.rm = 2, !.reg = 3, !.vvvv = 1, !.isNd = TRUE,
        !.ops = <<R(16), R(16), R(16)>>, !.needs = {"apx"}],
    [Row("ADD16rr_NF_ND", <<"add", 0>>) EXCEPT !.modes = {"x86_64"},
        !.form = "MODRM_RM_REG", !.opcode = 1, !.map = 8, !.mandatory = 102,
        !.modrm = "REG", !.vector = "EVEX", !.ignoresL = TRUE, !.has4v = TRUE,
        !.b = TRUE, !.nf = TRUE, !.rm = 2, !.reg = 3, !.vvvv = 1, !.isNd = TRUE,
        !.ops = <<R(16), R(16), R(16)>>, !.needs = {"apx"}],
    [Row("CTEST16ri", <<"ctest", 0>>) EXCEPT !.modes = {"x86_64"},
        !.form = "MODRM_FIXED_RM", !.opcode = 129, !.map = 8, !.mandatory = 102,
        !.modrm = "REG", !.fixedReg = 7, !.immSize = 2, !.vector = "EVEX",
        !.has4v = TRUE, !.usesAaa = TRUE, !.rm = 1, !.imm = 2, !.vvvv = 1,
        !.ops = <<R(16), I(16)>>],
    [Row("VADDPSZrrkz", <<"vaddps", 0>>) EXCEPT !.form = "MODRM_REG_RM",
        !.opcode = 88, !.map = 1, !.modrm = "REG", !.vector = "EVEX", !.l2 = 1,
        !.has4v = TRUE, !.k = TRUE, !.z = TRUE, !.rm = 4, !.reg = 1, !.vvvv = 3,
        !.mask = 2, !.ops = <<ZMM, S("REG", "MASK", 16), ZMM, ZMM>>,
        !.needs = {"avx512"}],
    [Row("VADDPSZrrb", <<"vaddps", 0>>) EXCEPT !.form = "MODRM_REG_RM",
        !.opcode = 88, !.map = 1, !.modrm = "REG", !.vector = "EVEX", !.l2 = 1,
        !.ignoresL = TRUE, !.has4v = TRUE, !.b = TRUE, !.rm = 3, !.reg = 1,
        !.vvvv = 2, !.round = 4,
        !.ops = <<ZMM, ZMM, ZMM, S("X86_ROUNDING", "NONE", 2)>>,
        !.needs = {"avx512"}],
    [Row("VADDPSZrmb", <<"vaddps", 0>>) EXCEPT !.form = "MODRM_REG_RM",
        !.opcode = 88, !.map = 1, !.modrm = "ANY", !.vector = "EVEX", !.l2 = 1,
        !.has4v = TRUE, !.b = TRUE, !.rm = 3, !.reg = 1, !.vvvv = 2,
        !.ops = <<ZMM, ZMM, M(32)>>, !.needs = {"avx512"}],
    [Row("VADDPSZ256rr", <<"vaddps", 0>>) EXCEPT !.form = "MODRM_REG_RM",
        !.opcode = 88, !.map = 1, !.modrm = "REG", !.vector = "EVEX", !.l = 1,
        !.has4v = TRUE, !.rm = 3, !.reg = 1, !.vvvv = 2, !.ops = <<YMM, YMM, YMM>>,
        !.needs = {"avx512", "vl"}],
    [Row("VMOVUPSZrm", <<"vmovups", 0>>) EXCEPT !.form = "MODRM_REG_RM",
        !.opcode = 16, !.map = 1, !.modrm = "ANY", !.vector = "EVEX", !.l2 = 1,
        !.rm = 2, !.reg = 1, !.ops = <<ZMM, M(512)>>, !.needs = {"avx512"}],
    [Row("VPCOMBri", <<"vpcomb", 0>>) EXCEPT !.form = "MODRM_REG_RM",
        !.opcode = 204, !.map = 4, !.modrm = "REG", !.immSize = 1, !.vector = "XOP",
        !.has4v = TRUE, !.rm = 3, !.reg = 1, !.imm = 4, !.vvvv = 2,
        !.ops = <<XMM, XMM, XMM, I(8)>>, !.needs = {"xop"}],
    [Row("VMOV64toPQIrr", <<"vmovq", 0>>) EXCEPT !.form = "MODRM_REG_RM",
        !.opcode = 110, !.map = 1, !.mandatory = 102, !.modrm = "REG",
        !.rexW = TRUE, !.vector = "VEX", !.rm = 2, !.reg = 1, !.name64 = TRUE,
        !.ops = <<XMM, R(64)>>, !.needs = {"avx"}],
    [Row("VBLENDVPSrrr", <<"vblendvps", 0>>) EXCEPT !.form = "MODRM_REG_RM",
        !.opcode = 74, !.map = 3, !.mandatory = 102, !.modrm = "REG", !.immSize = 1,
        !.vector = "VEX", !.has4v = TRUE, !.rm = 3, !.reg = 1, !.immReg = 4,
        !.vvvv = 2, !.ops = <<XMM, XMM, XMM, XMM>>, !.needs = {"avx"}],
    [Row("TDPBSSD", <<"tdpbssd", 0>>) EXCEPT !.modes = {"x86_64"},
        !.form = "MODRM_REG_RM", !.opcode = 94, !.map = 2, !.mandatory = 242,
        !.modrm = "REG", !.vector = "VEX", !.has4v = TRUE, !.rm = 3, !.reg = 1,
        !.vvvv = 2, !.ops = <<TILE, TILE, TILE>>, !.needs = {"amx"}],
    [Row("VMOVDI2PDIrr", <<"vmovd", 0>>) EXCEPT !.form = "MODRM_REG_RM",
        !.opcode = 110, !.map = 1, !.mandatory = 102, !.modrm = "REG",
        !.vector = "VEX", !.rm = 2, !.reg = 1, !.ops = <<XMM, R(32)>>,
        !.needs = {"avx"}],
    [Row("ANDN64rr", <<"andn", 0>>) EXCEPT !.form = "MODRM_REG_RM", !.opcode = 242,
        !.map = 2, !.modrm = "REG", !.rexW = TRUE, !.vector = "VEX", !.has4v = TRUE,
        !.rm = 3, !.reg = 1, !.vvvv = 2, !.name64 = TRUE,
        !.ops = <<R(64), R(64), R(64)>>, !.needs = {"bmi"}],
    [Row("VADDPSYrr", <<"vaddps", 0>>) EXCEPT !.form = "MODRM_REG_RM",
        !.opcode = 88, !.map = 1, !.modrm = "REG", !.ignoresW = TRUE,
        !.vector = "VEX", !.l = 1, !.has4v = TRUE, !.rm = 3, !.reg = 1, !.vvvv = 2,
        !.ops = <<YMM, YMM, YMM>>, !.needs = {"avx"}],
    [Row("ANDN32rr", <<"andn", 0>>) EXCEPT !.form = "MODRM_REG_RM", !.opcode = 242,
        !.map = 2, !.modrm = "REG", !.vector = "VEX", !.has4v = TRUE, !.rm = 3,
        !.reg = 1, !.vvvv = 2, !.ops = <<R(32), R(32), R(32)>>, !.needs = {"bmi"}],
    [Row("CRC32r64r8", <<"crc32", 0>>) EXCEPT !.form = "MODRM_REG_RM",
        !.opcode = 240, !.map = 2, !.mandatory = 242, !.modrm = "REG",
        !.rexW = TRUE, !.ignoresW = TRUE, !.rm = 2, !.reg = 1, !.name64 = TRUE,
        !.ops = <<R(64), R(8)>>, !.needs = {"crc32"}],
    [Row("TZCNT16rr", <<"tzcnt", 0>>) EXCEPT !.form = "MODRM_REG_RM",
        !.opcode = 188, !.map = 1, !.mandatory = 243, !.modrm = "REG",
        !.opSize = 16, !.rm = 2, !.reg = 1, !.ops = <<R(16), R(16)>>,
        !.needs = {"bmi"}],
    [Row("MOV64rs", <<"mov", 0>>) EXCEPT !.form = "MODRM_RM_REG", !.opcode = 140,
        !.modrm = "REG", !.rexW = TRUE, !.rm = 1, !.reg = 2, !.name64 = TRUE,
        !.ops = <<R(64), S("REG", "SEGMENT", 0)>>],
    [Row("MOV64ri", <<"mov", 0>>) EXCEPT !.form = "ADD_REG", !.opcode = 184,
        !.plus = 7, !.immSize = 8, !.rexW = TRUE, !.imm = 2, !.opcodeReg = 1,
        !.name64 = TRUE, !.ops = <<R(64), I(64)>>],
    [Row("SWAPGS", <<"swapgs", 0>>) EXCEPT !.form = "FIXED_MODRM", !.opcode = 1,
        !.map = 1, !.modrm = "FIXED", !.fixedModrm = 248],
    [Row("ADD16mi8", <<"add", 0>>) EXCEPT !.form = "MODRM_FIXED_RM", !.opcode = 131,
        !.modrm = "MEM", !.fixedReg = 0, !.immSize = 1, !.opSize = 16,
        !.signed = TRUE, !.immSigned = TRUE, !.rm = 1, !.imm = 2, !.lock = TRUE,
        !.ops = <<M(16), I(16)>>],
    [Row("JMP64m", <<"jmp", 0>>) EXCEPT !.cls = "INDIRECT_BRANCH",
        !.flags = {"TERMINATOR"}, !.modes = {"x86_64"}, !.form = "MODRM_FIXED_RM",
        !.opcode = 255, !.modrm = "MEM", !.fixedReg = 4, !.rm = 1, !.name64 = TRUE,
        !.ops = <<M(64)>>],
    [Row("SHL32r1", <<"shl", 0>>) EXCEPT !.form = "MODRM_FIXED_RM", !.opcode = 209,
        !.modrm = "REG", !.fixedReg = 4, !.opSize = 32, !.rm = 1, !.ops = <<R(32)>>],
    [Row("ADD_FST0r", <<"fadd", 0>>) EXCEPT !.form = "MODRM_FIXED_RM",
        !.opcode = 216, !.modrm = "REG", !.fixedReg = 0, !.rm = 1,
        !.ops = <<S("REG", "X87", 80)>>, !.needs = {"x87"}],
    [Row("IMUL32rri", <<"imul", 0>>) EXCEPT !.form = "MODRM_REG_RM", !.opcode = 105,
        !.modrm = "REG", !.immSize = 4, !.opSize = 32, !.rm = 2, !.reg = 1,
        !.imm = 3, !.ops = <<R(32), R(32), I(32)>>],
    [Row("CMPPSrri", <<"cmpps", 0>>) EXCEPT !.form = "MODRM_REG_RM", !.opcode = 194,
        !.map = 1, !.modrm = "REG", !.immSize = 1, !.rm = 2, !.reg = 1, !.imm = 3,
        !.ops = <<XMM, XMM, I(8)>>, !.needs = {"sse"}, !.alias = "cmp_ps"],
    [Row("ADD8rr", <<"add", 0>>) EXCEPT !.form = "MODRM_RM_REG", !.modrm = "REG",
        !.ignoresW = TRUE, !.rm = 1, !.reg = 2, !.ops = <<R(8), R(8)>>],
    [Row("ADD32rr", <<"add", 0>>) EXCEPT !.form = "MODRM_RM_REG", !.opcode = 1,
        !.modrm = "REG", !.opSize = 32, !.rm = 1, !.reg = 2,
        !.ops = <<R(32), R(32)>>],
    [Row("PFADDrr", <<"pfadd", 0>>) EXCEPT !.form = "MODRM_REG_RM", !.opcode = 158,
        !.map = 7, !.modrm = "REG", !.rm = 2, !.reg = 1, !.suffix = 158,
        !.ops = <<MMX, MMX>>],
    [Row("ADD32mr", <<"add", 0>>) EXCEPT !.form = "MODRM_RM_REG", !.opcode = 1,
        !.modrm = "ANY", !.opSize = 32, !.rm = 1, !.reg = 2, !.lock = TRUE,
        !.ops = <<M(32), R(32)>>],
    [Row("MOV8ao64", <<"mov", 0>>) EXCEPT !.form = "RAW_MEMOFFS", !.opcode = 160,
        !.immSize = 8, !.adSize = 64, !.rm = 2, !.acc = 1, !.name64 = TRUE,
        !.ops = <<R(8), M(8)>>],
    [Row("MOV8ao32", <<"mov", 0>>) EXCEPT !.form = "RAW_MEMOFFS", !.opcode = 160,
        !.immSize = 4, !.adSize = 32, !.rm = 2, !.acc = 1, !.ops = <<R(8), M(8)>>],
    [Row("ADD32i32", <<"add", 0>>) EXCEPT !.form = "RAW_IMM", !.opcode = 5,
        !.immSize = 4, !.opSize = 32, !.imm = 2, !.acc = 1, !.ops = <<R(32), I(32)>>],
    [Row("ENTER", <<"enter", 0>>) EXCEPT !.form = "RAW_IMM_PAIR", !.opcode = 200,
        !.immSize = 2, !.extraImm = 1, !.imm = 1, !.extra = 2,
        !.ops = <<I(16), I(8)>>],
    [Row("RETI64", <<"ret", 0>>) EXCEPT !.cls = "RETURN",
        !.flags = {"RETURN", "TERMINATOR"}, !.modes = {"x86_64"},
        !.form = "RAW_IMM", !.opcode = 194, !.immSize = 2, !.opSize = 32, !.imm = 1,
        !.name64 = TRUE, !.ops = <<I(16)>>],
    [Row("JRCXZ", <<"jrcxz", 0>>) EXCEPT !.cls = "COND_BRANCH",
        !.flags = {"PC_RELATIVE", "DIRECT", "CONDITIONAL"}, !.modes = {"x86_64"},
        !.form = "RAW_IMM", !.opcode = 227, !.immSize = 1, !.pcRel = TRUE,
        !.adSize = 64, !.signed = TRUE, !.immSigned = TRUE, !.imm = 1,
        !.ops = <<P(8)>>],
    [Row("LOOP", <<"loop", 2>>) EXCEPT !.cls = "COND_BRANCH",
        !.flags = {"PC_RELATIVE", "DIRECT", "CONDITIONAL"}, !.form = "RAW_IMM",
        !.opcode = 226, !.immSize = 1, !.pcRel = TRUE, !.signed = TRUE,
        !.immSigned = TRUE, !.imm = 1, !.ops = <<P(8)>>],
    [Row("IN8ri", <<"in", 0>>) EXCEPT !.form = "RAW_IMM", !.opcode = 228,
        !.immSize = 1, !.imm = 2, !.acc = 1, !.ops = <<R(8), I(8)>>],
    [Row("PUSHES16", <<"push", 0>>) EXCEPT !.modes = {"x86_16", "x86_32"},
        !.opcode = 6, !.opSize = 16, !.fixedRegOp = 1,
        !.ops = <<S("REG", "SEGMENT", 16)>>, !.fixedId = <<"SEGMENT", 0, 16>>],
    [Row("PUSH16r", <<"push", 0>>) EXCEPT !.form = "ADD_REG", !.opcode = 80,
        !.plus = 7, !.opSize = 16, !.opcodeReg = 1, !.ops = <<R(16)>>],
    [Row("PUSH64r", <<"push", 0>>) EXCEPT !.modes = {"x86_64"}, !.form = "ADD_REG",
        !.opcode = 80, !.plus = 7, !.opSize = 32, !.ignoresW = TRUE,
        !.opcodeReg = 1, !.name64 = TRUE, !.ops = <<R(64)>>],
    [Row("MOVSB", <<"movsb", 0>>) EXCEPT !.form = "RAW_STRING_DST_SRC",
        !.opcode = 164, !.ops = <<M(8), M(8)>>],
    [Row("STOSB", <<"stosb", 0>>) EXCEPT !.form = "RAW_STRING_DST", !.opcode = 170,
        !.ops = <<M(8)>>],
    [Row("LODSB", <<"lodsb", 0>>) EXCEPT !.form = "RAW_STRING_SRC", !.opcode = 172,
        !.ops = <<M(8)>>],
    [Row("RET16", <<"ret", 0>>) EXCEPT !.cls = "RETURN",
        !.flags = {"RETURN", "TERMINATOR"}, !.opcode = 195, !.opSize = 16],
    [Row("RET32", <<"ret", 0>>) EXCEPT !.cls = "RETURN",
        !.flags = {"RETURN", "TERMINATOR"}, !.modes = {"x86_16", "x86_32"},
        !.opcode = 195, !.opSize = 32],
    [Row("RET64", <<"ret", 0>>) EXCEPT !.cls = "RETURN",
        !.flags = {"RETURN", "TERMINATOR"}, !.modes = {"x86_64"}, !.opcode = 195,
        !.opSize = 32, !.name64 = TRUE],
    [Row("IN8rr", <<"in", 0>>) EXCEPT !.opcode = 236, !.acc = 1, !.dx = 2,
        !.ops = <<R(8), R(16)>>],
    [Row("JMP_1", <<"jmp", 0>>) EXCEPT !.cls = "INDIRECT_BRANCH",
        !.flags = {"TERMINATOR"}, !.form = "RAW_IMM", !.opcode = 235, !.immSize = 1,
        !.pcRel = TRUE, !.signed = TRUE, !.immSigned = TRUE, !.imm = 1,
        !.ops = <<P(8)>>],
    [Row("JCC_REL", <<"j", 5>>) EXCEPT !.form = "RAW_IMM", !.opcode = 117,
        !.immSize = 1, !.pcRel = TRUE, !.signed = TRUE, !.immSigned = TRUE,
        !.imm = 1, !.ops = <<P(8)>>],
    [Row("JCC_REL", <<"j", 5>>) EXCEPT !.modes = {"x86_16"}, !.form = "RAW_IMM",
        !.opcode = 133, !.map = 1, !.immSize = 2, !.pcRel = TRUE, !.signed = TRUE,
        !.immSigned = TRUE, !.imm = 1, !.ops = <<P(16)>>],
    [Row("JCC_REL", <<"j", 5>>) EXCEPT !.modes = {"x86_32", "x86_64"},
        !.form = "RAW_IMM", !.opcode = 133, !.map = 1, !.immSize = 4,
        !.pcRel = TRUE, !.signed = TRUE, !.immSigned = TRUE, !.imm = 1,
        !.ops = <<P(32)>>]>>

\* The rows as the encoder's table has them.
X86Order ==
    <<22, 31, 34, 28, 29, 1, 2, 27, 13, 10, 8, 9, 17, 35, 25, 26, 39,
      49, 16, 14, 23, 50, 51, 52, 53, 37, 45, 38, 20, 33, 32, 19, 43,
      30, 40, 41, 42, 46, 47, 48, 36, 24, 44, 21, 12, 18, 6, 15, 7, 4,
      5, 11>>

-----------------------------------------------------------------------------
(***************************************************************************)
(* AArch64.  `rank' is a row's place in the encoder's order; what it has   *)
(* beyond its fixed bits and its operands is given by EXCEPT.              *)
(***************************************************************************)
A64Desc(kind, width, transform, sp, class, mask, literal) ==
    [kind |-> kind, width |-> width, transform |-> transform, sp |-> sp, class |-> class,
     mask |-> BitsOf(mask), literal |-> literal]

\* A register, a stack pointer, a scalar vector, immediates, a number of no meaning
\* to the library, and a target.
AR(w) == A64Desc("REG", w, "RAW", FALSE, "GPR", 31, 0)
AS(w) == A64Desc("REG", w, "RAW", TRUE, "GPR", 31, 0)
AV(w) == A64Desc("REG", w, "RAW", FALSE, "SIMD", 31, 0)
AG(transform, w, mask, sp)      == A64Desc("REG", w, transform, sp, "GPR", mask, 0)
AI(w, mask)                     == A64Desc("IMM", w, "RAW", FALSE, "NONE", mask, 0)
AT(transform, w, mask, literal) == A64Desc("IMM", w, transform, FALSE, "NONE", mask, literal)
AO(w, mask)                     == A64Desc("OPAQUE", w, "RAW", FALSE, "NONE", mask, 0)
AP(transform, w, mask)          == A64Desc("PC_REL", w, transform, FALSE, "NONE", mask, 0)

\* Pieces are runs <<operand, first bit of it, first bit of the word, bits>>.
A64Row(id, mnemonic, rank, mask, value, ops, pieces) ==
    [id |-> id, mnemonic |-> mnemonic, cls |-> "OTHER", rank |-> rank,
     mask |-> A64Bits(mask), value |-> A64Bits(value), fixed |-> Cardinality(A64Bits(mask)),
     ops |-> ops, sets |-> {}, needs |-> {}, predicate |-> "NONE", byName |-> TRUE,
     pieces |-> UNION {{<<p[1], p[2] + j, p[3] + j>> : j \in 0..(p[4] - 1)} : p \in pieces}]

A64Fields ==
    {<<"IMM0_1", 8, {"nmi"}>>, <<"IMM0_1", 72, {}>>, <<"IMM0_15", 3, {"psuao"}>>,
     <<"IMM0_15", 4, {"pan"}>>, <<"IMM0_15", 5, {}>>, <<"IMM0_15", 25, {"ssbs"}>>,
     <<"IMM0_15", 26, {"dit"}>>, <<"IMM0_15", 28, {"mte"}>>, <<"IMM0_15", 30, {}>>,
     <<"IMM0_15", 31, {}>>}

A64Rows == <<
    [A64Row("CFINV", "cfinv", 7, <<65535, 65535>>, <<54528, 16415>>, <<>>, {})
        EXCEPT !.needs = {"flagm"}],
    A64Row("NOP", "nop", 25, <<65535, 65535>>, <<54531, 8223>>, <<>>, {}),
    A64Row("PACIASP", "paciasp", 29, <<65535, 65535>>, <<54531, 9023>>, <<>>, {}),
    [A64Row("SB", "sb", 0, <<65535, 65535>>, <<54531, 12543>>, <<>>, {}) EXCEPT
        !.needs = {"sb"}],
    [A64Row("TSB", "tsb", 2109, <<65535, 65535>>, <<54531, 8799>>,
        <<A64Desc("OPAQUE", 4, "RAW", FALSE, "NONE", 0, 2)>>, {}) EXCEPT !.needs =
        {"tracev8_4"}],
    A64Row("ZERO_T", "zero", 3225, <<65535, 65535>>, <<49224, 1>>,
        <<A64Desc("REG", 0, "RAW", FALSE, "ZTR", 0, 0)>>, {}),
    [A64Row("SHUH", "shuh", 394, <<65535, 65503>>, <<54531, 9823>>, <<AO(1, 1)>>,
        {<<1, 0, 5, 1>>}) EXCEPT !.needs = {"cmh"}],
    A64Row("PTRUE_C_B", "ptrue", 7052, <<65535, 65528>>, <<9504, 30736>>,
        <<A64Desc("REG", 8, "PNR_P8_TO_P15", FALSE, "PNR", 7, 0)>>, {<<1, 0, 0,
        3>>}),
    A64Row("BLR", "blr", 537, <<65535, 64543>>, <<54847, 0>>, <<AR(64)>>, {<<1, 0,
        5, 5>>}),
    A64Row("BR", "br", 1028, <<65535, 64543>>, <<54815, 0>>, <<AR(64)>>, {<<1, 0,
        5, 5>>}),
    A64Row("RET", "ret", 7192, <<65535, 64543>>, <<54879, 0>>, <<AR(64)>>, {<<1,
        0, 5, 5>>}),
    [A64Row("HINT", "hint", 5387, <<65535, 61471>>, <<54531, 8223>>, <<AI(7,
        127)>>, {<<1, 0, 5, 7>>}) EXCEPT !.cls = "STORE"],
    [A64Row("MOVAZ_4ZMI_H_S", "movaz", 6764, <<65535, 40835>>, <<49286, 1536>>,
        <<A64Desc("REG", 0, "RAW", FALSE, "ZPR", 7, 260), A64Desc("REG", 32,
        "RAW", FALSE, "MATRIX_TILE", 3, 0), AG("GPR_W12_TO_W15", 32, 3, FALSE),
        AI(32, 0)>>, {<<1, 0, 2, 3>>, <<2, 0, 5, 2>>, <<3, 0, 13, 2>>}) EXCEPT
        !.cls = "LOAD", !.needs = {"sme2p1"}],
    [A64Row("FMOVXDHighr", "fmov", 5013, <<65535, 64512>>, <<40623, 0>>,
        <<AV(128), AR(64), AT("UNSIGNED", 1, 0, 1)>>, {<<1, 0, 0, 5>>, <<2, 0, 5,
        5>>}) EXCEPT !.needs = {"fparmv8"}],
    [A64Row("LDXRX", "ldxr", 6543, <<65535, 64512>>, <<51295, 31744>>, <<AR(64),
        AS(64)>>, {<<1, 0, 0, 5>>, <<2, 0, 5, 5>>}) EXCEPT !.cls = "STORE"],
    [A64Row("MSRpstateImm1", "msr", 6820, <<65528, 61471>>, <<54528, 16415>>,
        <<AO(9, 511), AI(1, 1)>>, {<<1, 0, 5, 3>>, <<1, 3, 16, 3>>, <<1, 6, 9,
        3>>, <<2, 0, 8, 1>>}) EXCEPT !.predicate = "IMM0_1"],
    [A64Row("MSRpstateImm4", "msr", 6821, <<65528, 61471>>, <<54528, 16415>>,
        <<AO(6, 63), AI(4, 15)>>, {<<1, 0, 5, 3>>, <<1, 3, 16, 3>>, <<2, 0, 8,
        4>>}) EXCEPT !.predicate = "IMM0_15"],
    [A64Row("SHRNv8i8_shift", "shrn", 370, <<65528, 64512>>, <<3848, 33792>>,
        <<AV(64), AV(128), AT("VEC_SHIFT_RIGHT_NARROW", 16, 7, 16)>>, {<<1, 0, 0,
        5>>, <<2, 0, 5, 5>>, <<3, 0, 16, 3>>}) EXCEPT !.needs = {"neon"}],
    A64Row("CNTB_XPiI", "cntb", 3634, <<65520, 64512>>, <<1056, 57344>>, <<AR(64),
        AI(32, 31), AT("UNSIGNED_OFFSET", 32, 15, 1)>>, {<<1, 0, 0, 5>>, <<2, 0,
        5, 5>>, <<3, 0, 16, 4>>}),
    [A64Row("SYSPxt_XZR", "sysp", 2026, <<65528, 31>>, <<54600, 31>>, <<AI(3, 7),
        AO(4, 15), AO(4, 15), AI(3, 7), AG("SYSP_XZR_PAIR", 64, 0, TRUE)>>, {<<1,
        0, 16, 3>>, <<2, 0, 12, 4>>, <<3, 0, 8, 4>>, <<4, 0, 5, 3>>}) EXCEPT
        !.needs = {"d128"}],
    [A64Row("CASPX", "casp", 3245, <<65504, 64512>>, <<18464, 31744>>,
        <<AG("GPR_SEQ_PAIR", 64, 31, FALSE), AG("GPR_SEQ_PAIR", 64, 31, FALSE),
        AS(64)>>, {<<1, 0, 16, 5>>, <<2, 0, 0, 5>>, <<3, 0, 5, 5>>}) EXCEPT !.cls
        = "STORE", !.needs = {"lse"}],
    [A64Row("FADDHrr", "fadd", 4025, <<65504, 64512>>, <<7904, 10240>>, <<AV(16),
        AV(16), AV(16)>>, {<<1, 0, 0, 5>>, <<2, 0, 5, 5>>, <<3, 0, 16, 5>>})
        EXCEPT !.needs = {"fullfp16"}],
    [A64Row("FADDSrr", "fadd", 4026, <<65504, 64512>>, <<7712, 10240>>, <<AV(32),
        AV(32), AV(32)>>, {<<1, 0, 0, 5>>, <<2, 0, 5, 5>>, <<3, 0, 16, 5>>})
        EXCEPT !.needs = {"fparmv8"}],
    [A64Row("SCVTFSWSri", "scvtf", 187, <<65535, 32768>>, <<7682, 32768>>,
        <<AV(32), AR(32), AT("FIXEDPOINT_SCALE", 32, 31, 64)>>, {<<1, 0, 0, 5>>,
        <<2, 0, 5, 5>>, <<3, 0, 10, 5>>}) EXCEPT !.needs = {"fparmv8"}],
    [A64Row("SSHRd", "sshr", 1279, <<65472, 64512>>, <<24384, 1024>>, <<AV(64),
        AV(64), AT("VEC_SHIFT_RIGHT", 64, 63, 64)>>, {<<1, 0, 0, 5>>, <<2, 0, 5,
        5>>, <<3, 0, 16, 6>>}) EXCEPT !.needs = {"neon"}],
    [A64Row("FCMLAv2f32", "fcmla", 4187, <<65504, 58368>>, <<11904, 50176>>,
        <<AV(64), AV(64), AV(64), AT("COMPLEX_ROTATE", 32, 3, 0)>>, {<<1, 0, 0,
        5>>, <<2, 0, 5, 5>>, <<3, 0, 16, 5>>, <<4, 0, 11, 2>>}) EXCEPT !.needs =
        {"complxnum", "neon"}],
    [A64Row("LDRXroX", "ldr", 6287, <<65504, 27648>>, <<63584, 26624>>, <<AR(64),
        AS(64), AR(64), AO(2, 3)>>, {<<1, 0, 0, 5>>, <<2, 0, 5, 5>>, <<3, 0, 16,
        5>>, <<4, 0, 12, 1>>, <<4, 1, 15, 1>>}) EXCEPT !.cls = "LOAD"],
    [A64Row("GLDFF1H_D_SCALED", "ldff1h", 6027, <<65504, 57344>>, <<50400,
        57344>>, <<A64Desc("REG", 0, "RAW", FALSE, "ZPR", 31, 0), A64Desc("REG",
        0, "RAW", FALSE, "PPR", 7, 0), AS(64), A64Desc("REG", 128, "RAW", FALSE,
        "ZPR", 31, 0)>>, {<<1, 0, 0, 5>>, <<2, 0, 10, 3>>, <<3, 0, 5, 5>>, <<4, 0,
        16, 5>>}) EXCEPT !.cls = "LOAD", !.needs = {"sve"}, !.byName = FALSE],
    A64Row("ADDXrx64", "add", 6504, <<65504, 24576>>, <<35616, 24576>>, <<AS(64),
        AS(64), AR(64), AO(6, 39)>>, {<<1, 0, 0, 5>>, <<2, 0, 5, 5>>, <<3, 0, 16,
        5>>, <<4, 0, 10, 3>>, <<4, 5, 15, 1>>}),
    [A64Row("LDRXpre", "ldr", 6273, <<65504, 3072>>, <<63552, 3072>>, <<AS(64),
        AR(64), AT("SIGNED", 32, 511, 0)>>, {<<1, 0, 5, 5>>, <<2, 0, 0, 5>>, <<3,
        0, 12, 9>>}) EXCEPT !.cls = "LOAD", !.byName = FALSE],
    A64Row("MADDXrrr", "madd", 6643, <<65504, 32768>>, <<39680, 0>>, <<AR(64),
        AR(64), AR(64), AR(64)>>, {<<1, 0, 0, 5>>, <<2, 0, 5, 5>>, <<3, 0, 16,
        5>>, <<4, 0, 10, 5>>}),
    [A64Row("STXRX", "stxr", 1845, <<65504, 32768>>, <<51200, 0>>, <<AR(32),
        AR(64), AS(64)>>, {<<1, 0, 16, 5>>, <<2, 0, 0, 5>>, <<3, 0, 5, 5>>})
        EXCEPT !.cls = "STORE", !.sets = A64Bits(<<0, 31744>>)],
    A64Row("ADDWrx", "add", 6484, <<65504, 0>>, <<2848, 0>>, <<AS(32), AS(32),
        AG("ARITH_EXTENDED", 32, 2047, FALSE)>>, {<<1, 0, 0, 5>>, <<2, 0, 5, 5>>,
        <<3, 0, 16, 5>>, <<3, 5, 10, 6>>}),
    A64Row("ADDXrx", "add", 6487, <<65504, 0>>, <<35616, 0>>, <<AS(64), AS(64),
        AG("ARITH_EXTENDED", 64, 2047, FALSE)>>, {<<1, 0, 0, 5>>, <<2, 0, 5, 5>>,
        <<3, 0, 16, 5>>, <<3, 5, 10, 6>>}),
    A64Row("MSR", "msr", 6819, <<65504, 0>>, <<54528, 0>>, <<AO(16, 65535),
        AR(64)>>, {<<1, 0, 5, 16>>, <<2, 0, 0, 5>>}),
    A64Row("ANDWri", "and", 3902, <<65472, 0>>, <<4608, 0>>, <<AS(32), AR(32),
        AT("LOGICAL_IMM32", 32, 4095, 0)>>, {<<1, 0, 0, 5>>, <<2, 0, 5, 5>>, <<3,
        0, 10, 12>>}),
    [A64Row("LDRXui", "ldr", 6257, <<65472, 0>>, <<63808, 0>>, <<AR(64), AS(64),
        AT("UNSIGNED_SCALED", 8, 4095, 8)>>, {<<1, 0, 0, 5>>, <<2, 0, 5, 5>>, <<3,
        0, 10, 12>>}) EXCEPT !.cls = "LOAD"],
    A64Row("PRFMui", "prfm", 7034, <<65472, 0>>, <<63872, 0>>, <<AO(5, 31),
        AS(64), AT("UNSIGNED_SCALED", 8, 4095, 8)>>, {<<1, 0, 0, 5>>, <<2, 0, 5,
        5>>, <<3, 0, 10, 12>>}),
    [A64Row("STPXi", "stp", 1757, <<65472, 0>>, <<43264, 0>>, <<AR(64), AR(64),
        AS(64), AT("SIGNED_SCALED", 8, 127, 8)>>, {<<1, 0, 0, 5>>, <<2, 0, 10,
        5>>, <<3, 0, 5, 5>>, <<4, 0, 15, 7>>}) EXCEPT !.cls = "STORE"],
    A64Row("ADDXrs", "add", 6486, <<65312, 0>>, <<35584, 0>>, <<AR(64), AR(64),
        AG("ARITH_SHIFTED", 64, 8191, FALSE)>>, {<<1, 0, 0, 5>>, <<2, 0, 5, 5>>,
        <<3, 0, 16, 5>>, <<3, 5, 10, 6>>, <<3, 11, 22, 2>>}),
    A64Row("ANDXri", "and", 3904, <<65408, 0>>, <<37376, 0>>, <<AS(64), AR(64),
        AT("LOGICAL_IMM64", 64, 8191, 0)>>, {<<1, 0, 0, 5>>, <<2, 0, 5, 5>>, <<3,
        0, 10, 13>>}),
    A64Row("ANDXrs", "and", 3905, <<65312, 0>>, <<35328, 0>>, <<AR(64), AR(64),
        AG("LOGICAL_SHIFTED", 64, 8191, FALSE)>>, {<<1, 0, 0, 5>>, <<2, 0, 5, 5>>,
        <<3, 0, 16, 5>>, <<3, 5, 10, 6>>, <<3, 11, 22, 2>>}),
    A64Row("Bcc", "b", 5955, <<65280, 16>>, <<21504, 0>>, <<AI(32, 15),
        AP("WORDS4", 19, 524287)>>, {<<1, 0, 0, 4>>, <<2, 0, 5, 19>>}),
    A64Row("MOVZWi", "movz", 6811, <<65408, 0>>, <<21120, 0>>, <<AR(32), AI(32,
        65535), AT("MOV_SHIFT32", 32, 48, 0)>>, {<<1, 0, 0, 5>>, <<2, 0, 5, 16>>,
        <<3, 4, 21, 2>>}),
    A64Row("MOVZXi", "movz", 6812, <<65408, 0>>, <<53888, 0>>, <<AR(64), AI(32,
        65535), AT("MOV_SHIFT64", 64, 48, 0)>>, {<<1, 0, 0, 5>>, <<2, 0, 5, 16>>,
        <<3, 4, 21, 2>>}),
    A64Row("ADDWri", "add", 6482, <<65280, 0>>, <<4352, 0>>, <<AS(32), AS(32),
        AT("ADD_SUB", 32, 16383, 0)>>, {<<1, 0, 0, 5>>, <<2, 0, 5, 5>>, <<3, 0,
        10, 14>>}),
    A64Row("ADDXri", "add", 6485, <<65280, 0>>, <<37120, 0>>, <<AS(64), AS(64),
        AT("ADD_SUB", 64, 16383, 0)>>, {<<1, 0, 0, 5>>, <<2, 0, 5, 5>>, <<3, 0,
        10, 14>>}),
    A64Row("CBZW", "cbz", 3343, <<65280, 0>>, <<13312, 0>>, <<AR(32), AP("WORDS4",
        19, 524287)>>, {<<1, 0, 0, 5>>, <<2, 0, 5, 19>>}),
    [A64Row("LDRXl", "ldr", 6249, <<65280, 0>>, <<22528, 0>>, <<AR(64),
        AP("WORDS4", 19, 524287)>>, {<<1, 0, 0, 5>>, <<2, 0, 5, 19>>}) EXCEPT
        !.cls = "LOAD"],
    A64Row("PRFMl", "prfm", 7033, <<65280, 0>>, <<55296, 0>>, <<AO(5, 31),
        AP("WORDS4", 19, 524287)>>, {<<1, 0, 0, 5>>, <<2, 0, 5, 19>>}),
    A64Row("TBZW", "tbz", 2065, <<65280, 0>>, <<13824, 0>>, <<AR(32), AI(5, 31),
        AP("WORDS4", 14, 16383)>>, {<<1, 0, 0, 5>>, <<2, 0, 19, 5>>, <<3, 0, 5,
        14>>}),
    A64Row("TBZX", "tbz", 2066, <<65280, 0>>, <<46592, 0>>, <<AR(64),
        AT("UNSIGNED_OFFSET", 32, 31, 32), AP("WORDS4", 14, 16383)>>, {<<1, 0, 0,
        5>>, <<2, 0, 19, 5>>, <<3, 0, 5, 14>>}),
    A64Row("ADR", "adr", 3723, <<40704, 0>>, <<4096, 0>>, <<AR(64), AP("ADR", 21,
        2097151)>>, {<<1, 0, 0, 5>>, <<2, 0, 29, 2>>, <<2, 2, 5, 19>>}),
    A64Row("ADRP", "adrp", 3750, <<40704, 0>>, <<36864, 0>>, <<AR(64), AP("ADRP",
        21, 2097151)>>, {<<1, 0, 0, 5>>, <<2, 0, 29, 2>>, <<2, 2, 5, 19>>}),
    A64Row("B", "b", 5954, <<64512, 0>>, <<5120, 0>>, <<AP("WORDS4", 26,
        67108863)>>, {<<1, 0, 0, 26>>}),
    A64Row("BL", "bl", 420, <<64512, 0>>, <<37888, 0>>, <<AP("WORDS4", 26,
        67108863)>>, {<<1, 0, 0, 26>>})>>
=============================================================================
