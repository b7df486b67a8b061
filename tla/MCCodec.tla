------------------------------- MODULE MCCodec ------------------------------
(***************************************************************************)
(* Instances of Codec: instructions for each form and refusal of the       *)
(* encoders, and code no encoder of the library would write.               *)
(***************************************************************************)
EXTENDS Codec, CodecTables

(***************************************************************************)
(* AArch64.                                                                *)
(***************************************************************************)
XReg(n)     == A64RegOperand(<<"GPR", n, 64>>, 64)
WReg(n)     == A64RegOperand(<<"GPR", n, 32>>, 32)
XSp         == A64RegOperand(<<"SP", 31, 64>>, 64)
XZr         == A64RegOperand(<<"ZR", 31, 64>>, 64)
VReg(n, w)  == A64RegOperand(<<"SIMD", n, w>>, w)
ZReg(n)     == A64RegOperand(<<"ZPR", n, 0>>, 0)
Number0(w)  == A64RegOperand(NoA64Reg, w)
Paired(op)          == [op EXCEPT !.flags = {"REGISTER_PAIR"}]
Shifted(op, k, n)   == [op EXCEPT !.shift = <<k, n>>]
Extended(op, k, n)  == [op EXCEPT !.extend = <<k, n>>, !.flags = {"EXTENDED_REG"}]
Anything(op, w)     == [op EXCEPT !.width = w]
AImm(n)     == A64Imm(n, 0)
AOnes(ones) == [A64Imm(0, 64) EXCEPT !.ones = ones]
ATo(target) == [A64Operand("PC_REL", 0) EXCEPT !.target = target]
ABy(imm)    == [A64Operand("PC_REL", 0) EXCEPT !.imm = imm]

A64Ask(name, ops) == A64Inst("none", name, "OTHER", ops, 0, 40964)
A64AskId(id, ops) == A64Inst(id, "none", "OTHER", ops, 0, 40964)

Bytes01  == {8 * i : i \in 0..7}
LowBytes == {16 * i + j : i \in 0..3, j \in 0..7}

ArithmeticRequests ==
    {A64Ask("add", <<d, XReg(2), op>>) :
        d \in {XReg(1), XSp, XZr},
        op \in {AImm(n) : n \in {-1, 0, 4095, 4096, 4097, 16773120, 16777216}} \cup
               {XReg(9), XZr, XSp, Number0(64), WReg(4), Anything(WReg(4), 64),
                Anything(WReg(4), 0), Shifted(XReg(30), 2, 63), Shifted(XReg(3), 1, 64),
                Shifted(XReg(3), 3, 1), Extended(WReg(3), 2, 4), Extended(WReg(3), 6, 5),
                Extended(XReg(3), 3, 0), Extended(XReg(3), 2, 0), Extended(XZr, 7, 1)}}
    \cup {A64Ask("add", <<WReg(1), WReg(2), op>>) :
            op \in {AImm(12), Extended(WReg(3), 1, 2), Extended(XReg(3), 3, 2)}}
    \cup {A64Ask("and", <<d, XReg(2), op>>) :
            d \in {XReg(1), XSp},
            op \in {AOnes(Bytes01), AOnes(LowBytes), AOnes({63, 0}), AOnes({0, 2, 3}), AOnes({}),
                    AOnes(0..63), AOnes(5..40), AOnes({1}), Shifted(XReg(3), 3, 7)}}
    \cup {A64Ask("and", <<WReg(1), WReg(2), AOnes(ones)>>) :
            ones \in {{4, 5}, 31..63, 4..31, 30..63, {40}}}
    \cup {A64Ask("movz", <<r, AImm(n), AImm(s)>>) :
            r \in {XReg(5), WReg(5)}, n \in {0, 65535, 65536}, s \in {0, 16, 48, 8}}
    \cup {A64Ask("madd", <<XReg(1), XReg(2), XZr, XReg(30)>>), A64Ask("madd", <<XReg(1)>>)}

BranchRequests ==
    {A64Ask(name, <<op>>) :
        name \in {"b", "bl"},
        op \in {ATo(41000), ATo(41001), ATo(0), ATo(40964), ABy(-64), ATo(40964 + 134217724),
                ATo(40964 + 134217728), ATo(536870912)}}
    \cup {A64AskId(id, <<ATo(32)>>) : id \in {"A64_B", "A64_BL"}}
    \cup {A64AskId("Bcc", <<AImm(c), ATo(t)>>) : c \in {0, 15, 16}, t \in {100, 102, 2000000}}
    \cup {A64Ask("cbz", <<WReg(31 - n), ABy(4 * n)>>) : n \in {1, 31}}
    \cup {A64Ask("tbz", <<r, AImm(n), ATo(40964 - 32768)>>) :
            r \in {XReg(7), WReg(7)}, n \in {0, 31, 32, 63, 64}}
    \cup {A64Ask("tbz", <<WReg(7), AImm(3), ATo(40964 + 32768)>>)}
    \cup {A64Ask(name, <<XReg(3), ATo(t)>>) :
            name \in {"adr", "adrp"}, t \in {0, 41001, 40964 + 1048576, 536870912 + 40960}}
    \cup {A64Ask("ldr", <<XReg(3), ATo(t)>>) : t \in {41000, 41002}}
    \cup {A64Ask("prfm", <<A64Opaque(17, 5), ATo(41000)>>)}
    \cup {A64Ask(name, <<op>>) : name \in {"br", "blr", "ret"},
                                 op \in {XReg(5), WReg(5), Anything(WReg(5), 64),
                                         Anything(WReg(5), 0), Number0(64), XSp, VReg(1, 64),
                                         AImm(5)}}
    \cup {A64Ask("ret", <<>>), A64Ask("br", <<>>), A64AskId("A64_RET", <<>>)}

SystemRequests ==
    {A64Ask(name, <<>>) : name \in {"nop", "cfinv", "paciasp", "sb", "nonsense"}}
    \cup {A64AskId("CFINV", <<>>), A64AskId("BLR", <<>>)}
    \cup {A64Ask("tsb", <<A64Opaque(n, w)>>) : n \in {2, 3}, w \in {0, 4, 5}}
    \cup {A64Ask("hint", <<AImm(n)>>) : n \in {100, 128}}
    \cup {A64AskId("MSRpstateImm1", <<A64Opaque(n, 9), AImm(1)>>) : n \in {8, 72, 9}}
    \cup {A64AskId("MSRpstateImm4", <<A64Opaque(n, 6), AImm(15)>>) : n \in {3, 5, 6}}
    \cup {A64Ask("msr", <<A64Opaque(49168, 16), XReg(2)>>),
          A64Ask("sysp", <<AImm(1), A64Opaque(8, 4), A64Opaque(7, 4), AImm(2), Paired(XZr)>>),
          A64Ask("sysp", <<AImm(1), A64Opaque(8, 4), A64Opaque(7, 4), AImm(2), XZr>>),
          A64Ask("shuh", <<A64Opaque(1, 1)>>)}

VectorRows ==
    {A64Ask("fadd", <<VReg(1, w), VReg(2, w), VReg(31, w)>>) : w \in {16, 32, 128}}
    \cup {A64Ask("fmov", <<VReg(1, 128), XReg(2), AImm(n)>>) : n \in {0, 1}}
    \cup {A64Ask("shrn", <<VReg(1, 64), VReg(2, 128), AImm(n)>>) : n \in {0, 1, 8, 9}}
    \cup {A64Ask("scvtf", <<VReg(1, 32), WReg(2), AImm(n)>>) : n \in {0, 1, 32, 33, 65}}
    \cup {A64Ask("sshr", <<VReg(1, 64), VReg(2, 64), AImm(n)>>) : n \in {0, 1, 64, 65}}
    \cup {A64Ask("fcmla", <<VReg(1, 64), VReg(2, 64), VReg(3, 64), AImm(n)>>) :
            n \in {0, 91, 270, 360}}
    \cup {A64Ask("cntb", <<XReg(1), AImm(31), AImm(n)>>) : n \in {0, 1, 16, 17}}
    \cup {A64Ask("ptrue", <<A64RegOperand(<<"PNR", n, 0>>, w)>>) : n \in {7, 8, 15}, w \in {0, 8}}
    \cup {A64Ask("movaz", <<[ZReg(3) EXCEPT !.flags = {"VECTOR_LIST"}, !.imm = list],
                            A64RegOperand(<<"MATRIX_TILE", 3, 32>>, 32), WReg(n), AImm(0)>>) :
            list \in {260, 4}, n \in {11, 12, 15}}
    \cup {A64Ask("zero", <<A64RegOperand(<<"ZTR", 0, 0>>, 0)>>), A64Ask("zero", <<ZReg(0)>>)}

MemoryRequests ==
    {A64AskId("LDRXui", <<XReg(1), op, AImm(n)>>) : op \in {XSp, XReg(2), XZr},
                                                    n \in {0, 8, 12, -8, 32760, 32768}}
    \cup {A64AskId("LDRXpre", <<op, XReg(1), AImm(n)>>) : op \in {XSp, XReg(2)},
                                                          n \in {-256, 255, 256}}
    \cup {A64AskId("STPXi", <<XReg(1), XReg(2), XSp, AImm(n)>>) : n \in {-512, 504, 4}}
    \cup {A64AskId("LDRXroX", <<XReg(1), XReg(2), XReg(3), A64Opaque(n, 2)>>) : n \in {0, 3, 4}}
    \cup {A64AskId("GLDFF1H_D_SCALED",
                   <<ZReg(1), A64RegOperand(<<"PPR", n, 0>>, 0), XReg(2), ZReg(3)>>) :
            n \in {7, 8}}
    \cup {A64Ask("prfm", <<A64Opaque(3, 5), XReg(2), AImm(16)>>),
          A64Ask("ldr", <<XReg(1), XReg(2), AImm(16)>>),
          A64Ask("ldr", <<XReg(1), A64Mem(<<"GPR", 2, 64>>, NoA64Reg, 1, 16, 64, {})>>),
          A64Ask("ldxr", <<XReg(1), XSp>>), A64Ask("stxr", <<WReg(1), XReg(2), XReg(3)>>),
          A64Ask("casp", <<Paired(XReg(2)), Paired(XReg(4)), XReg(5)>>),
          A64Ask("casp", <<Paired(XReg(3)), Paired(XReg(4)), XReg(5)>>),
          A64Ask("casp", <<XReg(2), Paired(XReg(4)), XReg(5)>>)}

A64Requests == ArithmeticRequests \cup BranchRequests \cup SystemRequests \cup VectorRows
               \cup MemoryRequests

A64Stream(hi, lo) == [code |-> <<A64Bits(<<hi, lo>>)>>, size |-> 4, address |-> 40964]

\* Words of the table and words no record fits.
A64Streams ==
    {A64Stream(w[1], w[2]) : w \in {
        <<0, 0>>, <<54531, 8223>>, <<54531, 9247>>, <<54531, 9311>>, <<54531, 8192>>,
        <<54528, 16415>>, <<54528, 16575>>, <<54528, 17567>>, <<54529, 17183>>,
        <<54879, 960>>, <<54879, 160>>, <<54815, 160>>, <<54847, 96>>, <<63808, 1056>>,
        <<22528, 64>>, <<37119, 64577>>, <<37376, 64545>>, <<37440, 64545>>, <<4608, 64545>>,
        <<7682, 63520>>, <<54531, 16415>>, <<63585, 26624>>, <<63552, 19488>>, <<43328, 1088>>,
        <<21504, 65>>, <<5120, 1>>, <<38912, 1>>, <<51295, 31776>>, <<35618, 49184>>,
        <<3855, 33824>>, <<55296, 0>>, <<56320, 32>>, <<7712, 10272>>, <<7904, 10272>>,
        <<35619, 24640>>, <<35602, 65535>>, <<35811, 64>>, <<18466, 31750>>, <<18467, 31750>>,
        <<63872, 65>>, <<51201, 31810>>, <<46855, 65511>>, <<45056, 3>>, <<12288, 3>>,
        <<65535, 65535>>, <<51203, 31810>>, <<1056, 57377>>}}
    \cup {[A64Stream(54531, 8223) EXCEPT !.size = 3]}

-----------------------------------------------------------------------------

MCAllFeats == {"alu32", "exceptions", "reference-types", "bulk-memory", "simd128",
               "atomics", "apx", "avx", "avx512", "vl", "xop", "amx", "bmi", "crc32", "x87",
               "sse", "flagm", "sb", "tracev8_4", "cmh", "sme2p1", "fparmv8", "neon",
               "d128", "lse", "fullfp16", "complxnum", "sve", "nmi", "psuao", "pan", "ssbs",
               "dit", "mte", "branchtargetid"}
MCFeatSets == {{"reference-types", "avx", "bmi", "fparmv8", "lse"}, MCAllFeats}

\* Named here, the tables are evaluated once.
MCA64Records == A64Rows
MCA64Pstates == A64Fields

(***************************************************************************)
(* BPF: offsets of 4 bits, immediates of 6.                                *)
(***************************************************************************)
BR(n, w)        == BpfOperand("REG", n, 0, 0, 0, w)
BI(n)           == BpfOperand("IMM", 0, n, 0, 0, 32)
BM(base, off, w) == BpfOperand("MEM", 0, off, 0, base, w)
BT(target, imm) == BpfOperand("PC_REL", 0, imm, target, 0, 16)

BpfAsk(name, ops)   == BpfInst("none", name, "OTHER", {}, ops, 0, 32)
BpfAskId(id, ops)   == BpfInst(id, "none", "OTHER", {}, ops, 0, 32)

BpfRequests ==
    {BpfAsk("add", <<BR(d, w), op>>) : d \in {0, 9}, w \in {0, 32, 64},
                                       op \in {BR(3, 64), BR(3, 32), BI(-32), BI(40)}}
    \cup {BpfAsk("ja", <<op>>) : op \in {BT(32, 0), BT(0, 0), BT(96, 0), BT(104, 0),
                                         BT(41, 0), BT(0, 16), BI(-64), BI(64)}}
    \cup {BpfAsk("jeq", <<BT(64, 0), BR(1, w), op>>) : w \in {32, 64},
                                                       op \in {BR(2, 64), BI(5)}}
    \cup {BpfAsk("ldx", <<BR(1, 64), BM(10, off, 32)>>) : off \in {-8, 7, 8}}
    \cup {BpfAsk("st", <<BM(10, -3, w), BI(1)>>) : w \in {0, 32, 64}}
    \cup {BpfAsk("stx", <<BM(2, 4, 32), BR(15, 32)>>),
          BpfAsk("stx", <<BM(2, 4, 32), BR(16, 32)>>),
          BpfAsk("stx", <<[BM(2, 4, 32) EXCEPT !.odd = TRUE], BR(1, 32)>>),
          BpfAsk("ld", <<BM(0, 20, 32)>>), BpfAsk("ld", <<BR(6, 64)>>),
          BpfAsk("jx", <<BR(6, 64)>>), BpfAsk("call", <<BI(7)>>), BpfAsk("exit", <<>>),
          BpfAsk("ld_imm64", <<BR(1, 64), BI(-700)>>), BpfAsk("neg", <<BR(4, 32)>>),
          BpfAsk("le", <<BR(4, 32)>>), BpfAsk("div", <<BR(4, 32), BR(5, 32)>>),
          BpfAsk("nonsense", <<>>), BpfAskId("SDIV_RR_32", <<BR(4, 32), BR(5, 32)>>),
          BpfAskId("LDW32", <<BR(4, 32), BM(5, 1, 32)>>), BpfAskId("ADD_RI", <<BR(4, 64)>>),
          BpfAskId("JEQ_RI_32", <<BT(0, -16), BR(1, 64), BI(5)>>)}

Word(op, dst, src, off, imm, hi) ==
    [op |-> op, dst |-> dst, src |-> src, off |-> off, imm |-> imm, hi |-> hi]

BpfStreams ==
    {[code |-> <<Word(op, 4, src, off, imm, 63)>>, size |-> size, address |-> 248] :
        op \in {5, 13, 22, 24, 32, 60, 64, 97, 99, 149, 212, 255}, src \in {0, 11},
        off \in {-1, 1}, imm \in {0, 16}, size \in {7, 8, 16}}

(***************************************************************************)
(* WebAssembly: a byte of four bits, words of 8 and longs of 16.           *)
(***************************************************************************)
WI(n) == WasmOperand("IMM", n, 0)
WX(n) == WasmOperand("INDEX", n, 0)
WB(n) == WasmOperand("BLOCKTYPE", n, 0)

WasmAsk(name, ops) == WasmInst("none", name, "OTHER", ops, 0)
WasmAskId(id, ops) == WasmInst(id, "none", "OTHER", ops, 0)

WasmRequests ==
    {WasmAsk(name, <<op>>) : name \in {"br", "table.get"},
                             op \in {WX(0), WX(7), WX(8), WX(64), WX(255), WX(256), WX(-1),
                                     WI(9), WB(1)}}
    \cup {WasmAsk("block", ops) : ops \in {<<>>, <<WB(4)>>, <<WB(-1)>>, <<WI(15)>>,
                                           <<WB(16)>>}}
    \cup {WasmAsk(name, <<WI(n)>>) : name \in {"i32.const", "i64.const", "f32.const",
                                               "f64.const"},
                                     n \in {0, 3, 4, -4, -5, 31, 32, 63, 64, -128, 128,
                                            255, -32768, 32767}}
    \cup {WasmAsk(name, <<WI(2), WI(n)>>) : name \in {"i32.load", "memory.init"},
                                            n \in {0, 200}}
    \cup {WasmAsk("i8x16.extract_lane_s", <<WI(15)>>), WasmAsk("atomic.fence", <<WI(0)>>),
          WasmAsk("call_indirect", <<WX(1), WI(70)>>), WasmAsk("nonsense", <<>>),
          WasmAsk("nop", <<>>), WasmAsk("nop", <<WI(1)>>), WasmAsk("end", <<>>),
          WasmAskId("END_TRY_TABLE_S", <<>>), WasmAskId("LOAD_I32_A64_S", <<WI(1), WI(9)>>),
          WasmAskId("TABLE_GET_EXNREF_S", <<WX(6)>>), WasmAskId("CONST_I32_S", <<>>)}

WasmStream(code) == [code |-> code, size |-> Len(code), address |-> 0]

WasmStreams ==
    {WasmStream(c) : c \in {<<1>>, <<2, 12>>, <<11>>, <<99>>, <<252>>, <<252, 8, 1, 2, 0>>,
                            <<252, 15, 15, 2>>, <<253, 13, 2, 9>>, <<37, 8, 8, 0>>,
                            <<37, 15, 15, 7>>, <<37, 8, 8, 8, 1>>, <<40, 1>>, <<40, 1, 14, 1>>,
                            <<65, 4>>, <<65, 12, 7>>, <<65, 8, 8, 2, 0>>, <<65, 15, 15, 8, 0>>,
                            <<66, 12, 12, 12, 12, 12, 4>>, <<66, 8, 8, 8, 8, 8, 8, 1>>,
                            <<67, 1, 15>>, <<67, 1>>, <<68, 1, 2, 3, 15>>, <<250, 1>>}}

(***************************************************************************)
(* x86: bytes of displacements and immediates have two bits.               *)
(***************************************************************************)
XR(n, w) == X86Reg(Gpr(n, w), w)
XV(class, n, w) == X86Reg(<<class, n, w>>, w)
XM(base, index, scale, disp, w) == X86Mem(base, index, scale, disp, w, 0, "none")
XP(target, imm) == [X86Operand("PC_REL", 0) EXCEPT !.imm = imm, !.target = target]

X86Ask(name, ops)       == X86Inst("none", <<name, 0>>, "OTHER", {}, ops, 0, 300)
X86AskJcc(ops)          == X86Inst("none", <<"j", 5>>, "OTHER", {}, ops, 0, 300)
X86AskId(id, ops)       == X86Inst(id, <<"none", 0>>, "OTHER", {}, ops, 0, 300)
Locked(inst)            == [inst EXCEPT !.flags = {"LOCK"}]
WithAttribute(inst, a)  == [inst EXCEPT !.attrs = {a}]

\* Memory operands, by what ModRM and SIB make of them.
Memories(aw) ==
    {XM(Gpr(b, aw), NoX86Reg, 1, d, 32) : b \in {0, 4, 5}, d \in {0, -2, 2}}
    \cup {XM(Gpr(3, aw), Gpr(6, aw), s, 0, 32) : s \in {0, 1, 4}}
    \cup {XM(NoX86Reg, Gpr(1, aw), 8, 5, 32), XM(NoX86Reg, NoX86Reg, 1, 9, 32),
          XM(Gpr(1, aw), Gpr(4, aw), 1, 0, 32), XM(Gpr(1, aw), Gpr(2, aw), 3, 0, 32),
          [XM(Gpr(1, aw), NoX86Reg, 1, 0, 32) EXCEPT !.seg = "FS", !.aw = aw]}

\* Displacements of 16-bit addresses are kept below 2^15.
AddressForms ==
    [x86_16 |-> {XM(Gpr(b, 16), x, 1, d, 32) : b \in {3, 5}, d \in {0, 1, 7},
                                               x \in {NoX86Reg, Gpr(6, 16)}}
                \cup {XM(Gpr(7, 16), Gpr(3, 16), 1, 0, 32), XM(Gpr(0, 16), NoX86Reg, 1, 0, 32),
                      XM(NoX86Reg, NoX86Reg, 1, 6, 32),
                      [XM(Gpr(4, 32), Gpr(1, 32), 2, 0, 32) EXCEPT !.aw = 32]},
     x86_32 |-> Memories(32) \cup {[XM(Gpr(6, 16), NoX86Reg, 1, 1, 32) EXCEPT !.aw = 16],
                                   XM(Gpr(9, 32), NoX86Reg, 1, 0, 32)},
     x86_64 |-> Memories(64) \cup
                {XM(Gpr(12, 64), Gpr(9, 64), 2, 0, 32), XM(Gpr(13, 64), NoX86Reg, 1, 0, 32),
                 XM(Rip, NoX86Reg, 1, 20, 32), XM(Rip, Gpr(1, 64), 1, 0, 32),
                 [XM(Gpr(2, 32), NoX86Reg, 1, 0, 32) EXCEPT !.aw = 32]}]

Z(n) == XV("ZMM", n, 512)
Y(n) == XV("YMM", n, 256)
X(n) == XV("XMM", n, 128)
K(n) == X86Reg(<<"MASK", n, 64>>, 0)
TileOp(n)  == [X86Operand("OPAQUE", 0) EXCEPT !.imm = n]
Rounded(n) == [X86Operand("X86_ROUNDING", 2) EXCEPT !.imm = n]
Zeroing(op) == [op EXCEPT !.flags = {"ZEROING"}]
Broadcast(op) == [op EXCEPT !.flags = {"BROADCAST"}]

PlainRequests(mode0) ==
    {X86Ask("add", <<m, XR(2, 32)>>) : m \in AddressForms[mode0]}
    \cup {Locked(X86Ask("add", <<m, XR(2, 32)>>)) :
            m \in {CHOOSE x \in AddressForms[mode0] : TRUE, XR(1, 32)}}
    \cup {X86Ask("add", <<XR(a, 32), XR(b, 32)>>) : a \in {0, 8}, b \in {7, 15}}
    \cup {X86Ask("add", <<X86Reg(a, 8), X86Reg(b, 8)>>) :
            a \in {<<"HIGH", 4, 8>>, Gpr(1, 8)}, b \in {Gpr(6, 8), Gpr(3, 8), Gpr(9, 8)}}
    \cup {X86Ask("jmp", <<op>>) : op \in {XP(400, 0), XP(0, 1), XP(511, 0)}}
    \cup {X86Ask("call", <<XP(300, 0)>>), X86Ask("call", <<>>), X86Ask("nop", <<>>),
          X86Ask("ret", <<>>), X86Ask("ret", <<X86Imm(3, 16)>>), X86Ask("nonsense", <<>>)}
    \cup {X86AskJcc(<<op>>) : op \in {XP(303, 0), XP(304, 0), XP(0, 1), XP(0, -7),
                                      XP(1000, 0)}}

MoreRequests ==
    {X86Ask("add", <<XR(0, 32), X86Imm(n, 32)>>) : n \in {-128, 255, 256}}
    \cup {X86Ask("add", <<XM(Gpr(3, aw), NoX86Reg, 1, 0, 16), X86Imm(n, 16)>>) :
            aw \in {16, 32, 64}, n \in {-2, 2}}
    \cup {X86Ask("mov", ops) : ops \in {<<XR(9, 64), X86Imm(20000, 64)>>,
              <<XR(0, 8), [XM(NoX86Reg, NoX86Reg, 1, 77, 8) EXCEPT !.aw = 32, !.seg = "GS"]>>,
              <<XR(0, 8), [XM(NoX86Reg, NoX86Reg, 1, 777, 8) EXCEPT !.aw = 64]>>,
              <<XR(8, 64), XV("SEGMENT", 4, 16)>>}}
    \cup {X86Ask("push", <<op>>) : op \in {XR(1, 16), XR(9, 64), XV("SEGMENT", 0, 16),
                                           XV("SEGMENT", 3, 16)}}
    \cup {X86Ask("movsb", <<XM(Gpr(7, aw), NoX86Reg, 1, 0, 8),
                            [XM(Gpr(6, aw), NoX86Reg, 1, 0, 8) EXCEPT !.seg = sg]>>) :
            aw \in {32, 64}, sg \in {"none", "FS"}}
    \cup {X86Ask("lodsb", <<[XM(Gpr(6, 64), NoX86Reg, 1, 0, 8) EXCEPT !.seg = "CS"]>>),
          X86Ask("stosb", <<XM(Gpr(7, 32), NoX86Reg, 1, 0, 8)>>),
          X86Ask("stosb", <<[XM(Gpr(7, 64), NoX86Reg, 1, 0, 8) EXCEPT !.aw = 32]>>),
          X86Ask("in", <<XR(0, 8), X86Imm(3, 8)>>), X86Ask("in", <<XR(0, 8), XR(2, 16)>>),
          X86Ask("in", <<XR(1, 8), XR(2, 16)>>), X86Ask("shl", <<XR(5, 32)>>),
          X86Ask("enter", <<X86Imm(9, 16), X86Imm(2, 8)>>), X86Ask("swapgs", <<>>),
          X86Ask("imul", <<XR(1, 32), XR(2, 32), X86Imm(-5, 32)>>),
          X86Ask("fadd", <<XV("X87", 3, 80)>>),
          X86Inst("none", <<"loop", 2>>, "OTHER", {}, <<XP(0, 1)>>, 0, 300),
          X86Ask("jrcxz", <<XP(301, 0)>>), X86Ask("crc32", <<XR(1, 64), XR(2, 8)>>),
          X86Ask("tzcnt", <<XR(1, 16), XR(2, 16)>>), X86Ask("pfadd", <<XV("MMX", 1, 64),
                                                                       XV("MMX", 6, 64)>>),
          X86Ask("cmpps", <<X(1), X(2), X86Imm(1, 8)>>),
          X86Ask("jmp", <<XM(Gpr(0, 64), NoX86Reg, 1, 0, 64)>>),
          X86AskId("ADD32rr", <<XR(1, 32), XR(2, 32)>>), X86AskId("NOP", <<>>),
          X86AskId("JMP_REL", <<XP(400, 0)>>), X86AskId("IN8ri", <<XR(0, 8)>>)}

VectorRequests ==
    {X86Ask("vaddps", <<Z(1), Zeroing(K(3)), Z(30), Z(17)>>),
     X86Ask("vaddps", <<Z(1), Zeroing(K(0)), Z(30), Z(7)>>),
     X86Ask("vaddps", <<Z(1), K(3), Z(30), Z(7)>>),
     X86Ask("vaddps", <<Z(9), Z(2), Z(3), Rounded(2)>>),
     X86Ask("vaddps", <<Z(9), Z(2), Broadcast(XM(Gpr(3, 64), NoX86Reg, 1, 0, 32))>>),
     X86Ask("vaddps", <<Z(9), Z(2), XM(Gpr(3, 64), NoX86Reg, 1, 0, 32)>>),
     X86Ask("vaddps", <<Y(9), Y(2), Y(11)>>), X86Ask("vaddps", <<Y(9), Y(2), Y(17)>>),
     X86Ask("vaddps", <<Y(17), Y(2), Y(11)>>),
     X86Ask("vmovups", <<Z(5), XM(Gpr(8, 64), NoX86Reg, 1, 0, 512)>>),
     X86Ask("vmovups", <<Z(5), XM(Gpr(0, 64), NoX86Reg, 1, 64, 512)>>),
     X86Ask("vmovups", <<Z(5), XM(Gpr(0, 64), NoX86Reg, 1, 1, 512)>>),
     X86Ask("vpcomb", <<X(9), X(2), X(3), X86Imm(2, 8)>>),
     X86Ask("vblendvps", <<X(1), X(2), X(3), X(9)>>),
     X86Ask("vmovq", <<X(1), XR(9, 64)>>), X86Ask("vmovd", <<X(9), XR(1, 32)>>),
     X86Ask("andn", <<XR(1, 64), XR(2, 64), XR(9, 64)>>),
     X86Ask("andn", <<XR(1, 32), XR(2, 32), XR(3, 32)>>),
     X86Ask("tdpbssd", <<TileOp(1), TileOp(2), TileOp(7)>>),
     X86Ask("tdpbssd", <<TileOp(1), TileOp(2), TileOp(8)>>),
     X86Ask("add", <<XR(1, 16), XR(9, 16), XR(3, 16)>>),
     WithAttribute(X86Ask("add", <<XR(1, 16), XR(9, 16), XR(3, 16)>>), "NF"),
     WithAttribute(X86Ask("vaddps", <<Y(9), Y(2), Y(11)>>), "SAE")}

X86Requests ==
    [m \in X86Modes |-> PlainRequests(m) \cup MoreRequests \cup VectorRequests]

X86Stream(code) == [code |-> code, size |-> Len(code), address |-> 1000]

X86Streams ==
    {X86Stream(c) : c \in {
        <<>>, <<102, 102>>, <<15>>, <<15, 56>>, <<98, 241, 124>>, <<196, 226>>, <<143, 200>>,
        <<197, 0>>, <<64, 72, 1, 200>>, <<213, 8, 1, 200>>, <<102, 1, 200>>, <<240, 1, 3>>,
        <<100, 103, 1, 3>>, <<54, 1, 68, 36, 1>>, <<1, 5, 1, 2, 3, 0>>, <<103, 1, 5, 1, 2, 3, 0>>,
        <<1, 68>>, <<1, 132, 36, 1>>, <<103, 1, 70, 1, 0>>, <<0, 224>>, <<64, 0, 224>>,
        <<15, 148, 192>>, <<15, 68, 193>>, <<72, 15, 68, 193>>, <<99, 193>>, <<102, 99, 193>>,
        <<72, 99, 193>>, <<243, 15, 30, 250>>, <<15, 30, 251>>, <<243, 144>>, <<144>>,
        <<228, 1>>, <<102, 231, 1>>, <<239>>, <<238>>, <<15, 15, 193, 158>>, <<15, 15, 193>>,
        <<15, 15, 193, 7>>, <<233, 1, 0, 0, 0>>, <<102, 232, 1, 2, 0, 0>>, <<235, 1>>, <<117, 2>>,
        <<226, 3>>, <<224, 1>>, <<227, 1>>, <<15, 133, 1, 0, 0, 0>>, <<15, 133, 1>>,
        <<208, 224>>, <<209, 224>>, <<211, 224>>, <<193, 224, 3>>, <<246, 192, 1>>,
        <<247, 216>>, <<247, 192, 1, 2, 3, 0>>, <<105, 193, 1, 2, 3, 0>>, <<184, 1, 2, 3, 0>>,
        <<72, 184, 1, 2, 3, 0, 1, 2, 3, 0>>, <<104, 1, 2, 3, 0>>, <<106, 1>>, <<205, 3>>,
        <<160, 1, 2, 3, 0, 1, 2, 3, 0>>, <<103, 160, 1, 2, 3, 0>>, <<194, 1, 0>>, <<243, 195>>,
        <<243, 164>>, <<242, 166>>, <<101, 172>>, <<243, 15, 188, 193>>,
        <<102, 243, 15, 188, 193>>, <<242, 72, 15, 56, 240, 193>>, <<216, 193>>,
        <<242, 216, 193>>, <<15, 194, 193, 2>>, <<255, 36, 36>>, <<255, 37, 1, 2, 3, 0>>,
        <<6>>, <<102, 6>>, <<80>>, <<65, 80>>, <<102, 80>>, <<200, 1, 0, 3>>, <<15, 1, 248>>,
        <<15, 1, 249>>, <<140, 216>>, <<72, 140, 216>>, <<98, 241, 108, 72, 88, 195>>,
        <<98, 241, 108, 72, 88, 0>>, <<98, 241, 108, 88, 88, 0>>, <<98, 241, 108, 88, 88, 195>>,
        <<98, 241, 108, 203, 88, 195>>, <<98, 241, 124, 72, 16, 0>>, <<98, 244, 117, 24, 1, 194>>,
        <<98, 244, 117, 28, 1, 194>>, <<98, 244, 117, 0, 129, 248, 1, 2>>,
        <<98, 240, 124, 72, 16, 0>>, <<197, 236, 88, 195>>, <<196, 193, 236, 88, 195>>,
        <<196, 225, 249, 110, 193>>, <<196, 226, 232, 242, 195>>, <<196, 226, 104, 242, 195>>,
        <<196, 227, 105, 74, 195, 144>>, <<196, 226, 107, 94, 193>>, <<143, 232, 104, 204, 195, 1>>,
        <<196, 227, 105, 11, 195, 1>>, <<197, 248, 133, 1, 0, 0, 0>>, <<15, 31, 0>>,
        <<15, 186, 224, 1>>, <<15, 164, 193, 1>>, <<15, 5>>, <<15, 56, 1, 193>>}}

-----------------------------------------------------------------------------
MCRequests ==
    [m \in CodecModes |->
        CASE Bpf(m) -> BpfRequests [] Wasm(m) -> WasmRequests [] X86(m) -> X86Requests[m]
          [] A64(m) -> A64Requests]
MCStreams ==
    [m \in CodecModes |->
        CASE Bpf(m) -> BpfStreams [] Wasm(m) -> WasmStreams [] X86(m) -> X86Streams
          [] A64(m) -> A64Streams]

\* One instruction of the longest size, and branches made longer than that by
\* prefixes.
MCLongStreams ==
    [m \in CodecModes |->
        {X86Stream([i \in 1..n |-> 102] \o c) :
            n \in {9, 10, 11, 13, 14}, c \in {<<233, 1, 0, 0, 0>>, <<235, 1>>, <<1, 200>>}}]
=============================================================================
