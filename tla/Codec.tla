------------------------------- MODULE Codec --------------------------------
(***************************************************************************)
(* A caller of asmkit_encode_inst and asmkit_decode_one: it builds an      *)
(* instruction or reads one from code, has it written into a buffer, tries *)
(* again when the buffer is too small or a feature is missing, and reads   *)
(* back what was written, all of it or the first bytes only.               *)
(***************************************************************************)
EXTENDS BpfCodec, WasmCodec, X86Encode, A64Encode

CONSTANTS
    CodecModes,     \* the modes of the engine
    AllFeats,       \* every feature of a target
    FeatSets,       \* what an engine may begin with
    Requests,       \* Requests[m]: the instructions a caller builds
    Streams,        \* Streams[m]: code from elsewhere and where it stands
    Caps            \* sizes of the caller's buffer

\* The rows of a table are numbered from 1 and need features of the target.
IsTable(records) ==
    /\ Len(records) \in Nat /\ DOMAIN records = 1..Len(records)
    /\ \A i \in DOMAIN records : records[i].needs \subseteq AllFeats

ASSUME CodecAssumption ==
    /\ CodecModes \subseteq {"bpf", "wasm32", "wasm64", "aarch64"} \cup X86Modes
    /\ FeatSets \subseteq SUBSET AllFeats /\ "branchtargetid" \in AllFeats
    /\ IsTable(BpfRecords) /\ IsTable(WasmRecords) /\ IsTable(X86Records)
    /\ IsTable(A64Records) /\ \A p \in A64Pstates : p[3] \subseteq AllFeats
    /\ Len(X86EncodeOrder) \in Nat /\ DOMAIN X86EncodeOrder = 1..Len(X86EncodeOrder)
    /\ \A k \in DOMAIN X86EncodeOrder : X86EncodeOrder[k] \in DOMAIN X86Records

\* The codes of the operands of WebAssembly, and the operands of the API: a kind, a
\* number of 64 bits with a sign, and a width.
WasmCodes    == {"BLOCKTYPE", "BYTE", "INDEX", "ULEB", "SLEB32", "SLEB64", "F32", "F64"}
OpKinds      == {"NONE", "REG", "IMM", "MEM", "PC_REL", "BLOCKTYPE", "INDEX", "OPAQUE",
                 "X86_ROUNDING"}
Longs        == (-Pow2(LongBits - 1))..(Pow2(LongBits - 1) - 1)
WasmOperands == [kind : OpKinds, imm : Longs, width : Nat]

\* Sizes are numbers, codes are known, and no number is larger than its type.  The
\* first byte of an instruction is its opcode and not counted in bits here.
ASSUME RangesAssumption ==
    /\ WordBytes < LongBytes /\ Caps \subseteq Nat
    /\ \A i \in DOMAIN BpfRecords : BpfRecords[i].size \in Nat
    /\ \A i \in DOMAIN X86Records :
          X86Records[i].immSize \in Nat /\ X86Records[i].extraImm \in Nat
    /\ \A i \in DOMAIN WasmRecords :
          /\ WasmRecords[i].codes \in Seq(WasmCodes)
          /\ WasmRecords[i].prefix \in Nat
          /\ WasmRecords[i].opcode \in 0..(Pow2(WordBits) - 1)
    /\ \A m \in CodecModes \cap {"wasm32", "wasm64"} :
          /\ \A inst \in Requests[m] : inst.ops \in Seq(WasmOperands)
          /\ \A s \in Streams[m] :
                /\ s.code \in Seq(Nat) /\ s.size \in 0..Len(s.code)
                /\ \A k \in 2..s.size : s.code[k] < Pow2(ByteBits)

VARIABLES
    mode, feats,    \* the engine
    cap,            \* the capacity of the buffer
    asked,          \* the instruction to be encoded
    enc,            \* the answer of the encoder
    avail,          \* how many bytes the decoder was given
    dec,            \* the answer of the decoder
    step            \* what the caller did last

vars == <<mode, feats, cap, asked, enc, avail, dec, step>>

(***************************************************************************)
(* The operations of the five targets.                                     *)
(***************************************************************************)
Bpf(m)  == m = "bpf"
Wasm(m) == m \in {"wasm32", "wasm64"}
X86(m)  == m \in X86Modes
A64(m)  == m = "aarch64"

Encode(m, f, inst, c) ==
    CASE Bpf(m)  -> BpfEncode(f, inst, c)
      [] Wasm(m) -> WasmEncode(f, m, inst, c)
      [] X86(m)  -> X86Encode(f, m, inst, c)
      [] A64(m)  -> A64Encode(f, inst, c)

\* The first n bytes of code.  A word of BPF or AArch64 is not taken apart.
Decode(m, f, code, n, address) ==
    CASE Bpf(m)  -> BpfDecode(f, code[1], n, address)
      [] Wasm(m) -> WasmDecode(f, m, SubSeq(code, 1, n))
      [] X86(m)  -> X86Decode(f, m, SubSeq(code, 1, n), address)
      [] A64(m)  -> A64Decode(f, code[1], n, address)

\* A WebAssembly instruction is the same wherever it stands.
AddressOf(inst) == IF "address" \in DOMAIN inst THEN inst.address ELSE 0

Nothing(m) == CASE Bpf(m)  -> NoBpfInst
                [] Wasm(m) -> NoWasmInst
                [] X86(m)  -> NoX86Inst
                [] A64(m)  -> NoA64Inst

-----------------------------------------------------------------------------
Init ==
    /\ mode \in CodecModes
    /\ feats \in FeatSets
    /\ cap = 0
    /\ asked = Nothing(mode)
    /\ enc = Encoding("OK", 0, <<>>)
    /\ avail = 0
    /\ dec = Decoding("OK", Nothing(mode))
    /\ step = "start"

\* The caller builds an instruction ...
Ask ==
    /\ step = "start"
    /\ \E inst \in Requests[mode], c \in Caps : asked' = inst /\ cap' = c
    /\ step' = "asked"
    /\ UNCHANGED <<mode, feats, enc, avail, dec>>

\* ... or decodes code it found,
Receive ==
    /\ step = "start"
    /\ \E s \in Streams[mode] :
          /\ avail' = s.size
          /\ dec' = Decode(mode, feats, s.code, s.size, s.address)
          /\ enc' = Encoding("OK", s.size, s.code)
    /\ step' = "received"
    /\ UNCHANGED <<mode, feats, cap, asked>>

\* and has the result encoded again, as every rewriter does.
Copy ==
    /\ step = "received" /\ dec.st = "OK"
    /\ asked' = dec.inst
    /\ cap' \in Caps
    /\ step' = "asked"
    /\ UNCHANGED <<mode, feats, enc, avail, dec>>

EncodeInst ==
    /\ step = "asked"
    /\ enc' = Encode(mode, feats, asked, cap)
    /\ step' = "encoded"
    /\ UNCHANGED <<mode, feats, cap, asked, avail, dec>>

\* The caller takes a buffer of the size the encoder asked for.
Grow ==
    /\ step = "encoded" /\ enc.st = "OUTPUT_TOO_SMALL"
    /\ cap' = enc.size
    /\ step' = "asked"
    /\ UNCHANGED <<mode, feats, asked, enc, avail, dec>>

\* The caller enables what the encoder misses.
Enable ==
    /\ step = "encoded" /\ enc.st = "UNSUPPORTED_FEATURE"
    /\ feats' = AllFeats
    /\ step' = "asked"
    /\ UNCHANGED <<mode, cap, asked, enc, avail, dec>>

ReadBack ==
    /\ step = "encoded" /\ enc.st = "OK"
    /\ avail' \in 1..enc.size
    /\ dec' = Decode(mode, feats, enc.code, avail', AddressOf(asked))
    /\ step' = "read"
    /\ UNCHANGED <<mode, feats, cap, asked, enc>>

Next == Ask \/ Receive \/ Copy \/ EncodeInst \/ Grow \/ Enable \/ ReadBack

\* The calls return and the caller does not give up.
Returns == step = "asked" /\ step' = "encoded"
Spec == Init /\ [][Next]_vars /\ WF_step(Returns) /\ WF_vars(Grow \/ Enable)

-----------------------------------------------------------------------------
(***************************************************************************)
(* What two instructions have in common when they say the same.            *)
(***************************************************************************)
SameNumber(x, y, bits) == x = y \/ Wrap(x, bits) = Wrap(y, bits)

\* The decoder numbers the registers of BPF otherwise than the encoder.
BpfSameOperand(a, b, inst) ==
    CASE a.kind = "REG"    -> b.kind = "REG" /\ b.reg = BpfRegId(a.reg, b.width)
      [] a.kind = "MEM"    -> /\ b.kind = "MEM" /\ b.imm = a.imm
                              /\ b.base \in {a.base, BpfRegId(a.base, 64)}
      [] b.kind = "PC_REL" ->
            b.target = IF a.kind = "PC_REL" /\ (a.target # 0 \/ a.imm = 0) THEN a.target
                       ELSE Wrap(inst.address + 8 + a.imm, AddrBits)
      [] OTHER             -> b.kind = "IMM" /\ b.imm = a.imm

\* A number keeps as many bits as its width stands for.
WasmBits(width) ==
    CASE width = 8 -> ByteBits [] width = 32 -> WordBits [] OTHER -> LongBits
WasmSameOperand(a, b) == SameNumber(a.imm, b.imm, WasmBits(b.width))

X86SameOperand(a, b, inst, size) ==
    /\ b.kind = a.kind /\ b.flags = a.flags
    /\ CASE a.kind = "MEM" -> /\ b.disp = a.disp
                              /\ \/ /\ <<b.base, b.index>> = <<a.base, a.index>>
                                    /\ b.index # NoX86Reg => ScaleOf(b) = ScaleOf(a)
                                 \/ /\ <<b.base, b.index>> = <<a.index, a.base>>
                                    /\ ScaleOf(a) = 1 /\ ScaleOf(b) = 1
                              /\ b.seg = a.seg \/ (a.seg = "none" /\ b.base[2] = 7)
         [] a.kind = "PC_REL" ->
               b.target = IF a.target # 0 \/ a.imm = 0 THEN a.target
                          ELSE Wrap(inst.address + size + a.imm, X86AddrBits)
         [] a.kind = "IMM" -> SameNumber(a.imm, b.imm, (b.width \div 8) * DataBits)
         [] OTHER -> b.reg = a.reg /\ b.imm = a.imm

\* A target of adrp is a page, and a 32-bit immediate may have been given with its
\* sign.  How an X register is extended is an operand of its own for the decoder,
\* with the amount in the low bits and the sign above them.
A64SameOperand(a, b, inst, got) ==
    /\ b.kind = a.kind
    /\ CASE a.kind = "REG" ->
               /\ IF a.reg = NoA64Reg THEN b.reg[2] = 0
                  ELSE SubSeq(b.reg, 1, 2) = SubSeq(a.reg, 1, 2)
               /\ b.shift = a.shift
               /\ \/ b.extend = a.extend /\ a.flags \subseteq b.flags
                  \/ /\ a.extend[1] \in {3, 7} /\ Len(got) > Len(inst.ops)
                     /\ got[Len(got)].imm = a.extend[2] + 32 * (a.extend[1] \div 4)
         [] a.kind = "PC_REL" ->
               \/ b.target = A64TargetOf(inst, a)
               \/ inst.mnemonic = "adrp" /\ b.target = PageOf(A64TargetOf(inst, a))
         [] OTHER -> b.imm = a.imm /\ b.ones = IF b.width = 32 THEN a.ones \cap (0..31)
                                               ELSE a.ones

\* The decoder folds a base and an index or a displacement into one operand.
Mentioned(ops) ==
    {SubSeq(r, 1, 2) : r \in UNION {{ops[i].reg, ops[i].base, ops[i].index} : i \in DOMAIN ops}
                             \ {NoA64Reg}}
Displaced(ops) == {ops[i].imm : i \in {j \in DOMAIN ops : ops[j].kind \in {"IMM", "MEM"}}} \ {0}

A64Folded(ops) == \E i \in DOMAIN ops : ops[i].kind = "MEM"
SameFolded(given, got) ==
    Mentioned(got) = Mentioned(given) /\ Displaced(got) = Displaced(given)

SameOperand(a, b, inst, got) ==
    CASE Bpf(mode)  -> BpfSameOperand(a, b, inst)
      [] Wasm(mode) -> WasmSameOperand(a, b)
      [] X86(mode)  -> X86SameOperand(a, b, inst, got.size)
      [] A64(mode)  -> A64SameOperand(a, b, inst, got.ops)

\* The flags that stand for bytes of the code.
WrittenFlags(inst) ==
    IF "flags" \in DOMAIN inst THEN inst.flags \cap {"LOCK", "REP", "REPNE"} ELSE {}

\* Two records with one code: the decoder cannot tell which of them was asked for.
Twins(a, b) ==
    \/ a = b
    \/ Bpf(mode) /\ \E i, j \in DOMAIN BpfRecords :
          LET r == BpfRecords[i]
              q == BpfRecords[j]
          IN  r.id = a /\ q.id = b /\ r.opcode = q.opcode /\ r.match = q.match
              /\ <<r.off, r.imm, r.src>> = <<q.off, q.imm, q.src>>
    \/ Wasm(mode) /\ \E i, j \in DOMAIN WasmRecords :
          LET r == WasmRecords[i]
              q == WasmRecords[j]
          IN  r.id = a /\ q.id = b /\ r.prefix = q.prefix /\ r.opcode = q.opcode
    \/ A64(mode) /\ a \in DOMAIN A64BranchNames /\ \E i \in DOMAIN A64Records :
          A64Records[i].id = b /\ A64Records[i].mnemonic = A64BranchNames[a]

\* The decoder names a comparison by its condition.
Alias(got, name) ==
    X86(mode) /\ \E i \in DOMAIN X86Records :
        X86Records[i].id = got.id /\ X86Records[i].mnemonic = name

\* `got' says what `inst' said.  An operand the caller need not name, as the
\* count of a shift by one, may have been added.
SaysTheSame(inst, got, size) ==
    /\ got.size = size
    /\ IF inst.id # Nothing(mode).id THEN Twins(inst.id, got.id)
       ELSE got.mnemonic = inst.mnemonic \/ Alias(got, inst.mnemonic)
    /\ WrittenFlags(got) = WrittenFlags(inst)
    /\ IF A64(mode) /\ A64Folded(got.ops) THEN SameFolded(inst.ops, got.ops)
       ELSE /\ Len(got.ops) >= Len(inst.ops)
            /\ \A i \in DOMAIN inst.ops : SameOperand(inst.ops[i], got.ops[i], inst, got)

(***************************************************************************)
(* What the encoders are known to lose: the register the BPF decoder gives *)
(* an exit; on x86, the operand of ret, a repeat prefix, and the scale of  *)
(* the eight-bit displacement of an EVEX memory operand; on AArch64, the   *)
(* operand of ret, the kind of the register br and blr are given, and a W  *)
(* register of no width, which is taken for a number where an X register   *)
(* is expected.                                                            *)
(***************************************************************************)
VectorMemory(inst, code) ==
    /\ \E i \in DOMAIN code : i <= 3 /\ code[i] = 98
    /\ \E i \in DOMAIN inst.ops : inst.ops[i].kind = "MEM" /\ inst.ops[i].disp # 0

Lossy(inst, code) ==
    \/ Bpf(mode) /\ inst.id = "RET" /\ inst.ops # <<>>
    \/ /\ X86(mode)
       /\ \/ MnemonicOf(inst) = <<"ret", 0>> /\ inst.ops # <<>>
          \/ WrittenFlags(inst) \cap {"REP", "REPNE"} # {}
          \/ VectorMemory(inst, code)
    \/ /\ A64(mode)
       /\ \/ A64MnemonicOf(inst) = "ret"
          \/ \E i \in DOMAIN inst.ops :
                \/ inst.ops[i].reg[1] # "GPR" /\ A64MnemonicOf(inst) \in {"br", "blr"}
                \/ inst.ops[i].width = 0 /\ inst.ops[i].reg[1] = "GPR"

-----------------------------------------------------------------------------
(***************************************************************************)
(* Properties.                                                             *)
(***************************************************************************)

Steps == {"start", "asked", "received", "encoded", "read"}

\* The status is one the call may return, and an instruction that was written
\* ends within the buffer and where its reported size says.
CodecTypeOK ==
    /\ mode \in CodecModes /\ step \in Steps
    /\ feats \subseteq AllFeats
    /\ {enc.st, dec.st} \subseteq CodecStatuses
    /\ step = "encoded" /\ enc.st = "OK" =>
          enc.size <= cap /\ (Bpf(mode) \/ A64(mode) \/ Len(enc.code) = enc.size)

\* What the encoder wrote is decoded to the instruction it was given: the same
\* operands, the same target and the prefixes that were asked for.  Tables of the
\* two directions are generated apart, and each has its own code for every kind
\* of operand.
ReadsBack ==
    step = "read" /\ avail = enc.size /\ ~Lossy(asked, enc.code)
        => dec.st = "OK" /\ SaysTheSame(asked, dec.inst, enc.size)

\* A prefix of an instruction the encoder wrote is never taken for an
\* instruction: the decoder reads no byte beyond those it was given and does not
\* stop before the end.
TruncatedIsRefused ==
    step = "read" /\ avail < enc.size => dec.st = "DECODE_FAILED"

\* The encoders of x86 and AArch64 report that an instruction is not supported also
\* when a record of the name misses a feature, as soon as another one has its
\* features and does not take the operands: registers above 15 in code without EVEX.
Overlooked ==
    \/ X86(mode) /\ \E i \in DOMAIN X86Records :
          /\ Identity(X86Records[i], asked) /\ OperandsMatch(X86Records[i], asked)
          /\ ~FeaturesMatch(feats, X86Records[i])
    \/ A64(mode) /\ asked.ops # <<>> /\ \E i \in DOMAIN A64Records :
          A64Identity(A64Records[i], asked) /\ Pack(feats, A64Records[i], asked).blocked

\* The verdict on features can be relied on: what is refused for a feature is
\* never refused for a feature once all are enabled, and what is refused for
\* itself, with no record overlooked, would be refused with every feature too, so
\* that a caller knows when enabling more is worth a try.
FeatureVerdict ==
    /\ step = "encoded" /\ enc.st = "UNSUPPORTED_FEATURE" =>
          Encode(mode, AllFeats, asked, cap).st # "UNSUPPORTED_FEATURE"
    /\ step = "encoded" /\ enc.st = "UNSUPPORTED_INSTRUCTION" /\ ~Overlooked =>
          Encode(mode, AllFeats, asked, cap).st = "UNSUPPORTED_INSTRUCTION"
    /\ step \in {"received", "read"} /\ dec.st = "UNSUPPORTED_FEATURE" =>
          Decode(mode, AllFeats, enc.code, avail, AddressOf(asked)).st
              # "UNSUPPORTED_FEATURE"

\* Growing the buffer to the size that was asked for, and enabling what is
\* missing, settles every request: the encoder does not ask for one size and need
\* another.
RetrySettles ==
    step = "asked" ~>
        step \in {"encoded", "read"}
        /\ enc.st \notin {"OUTPUT_TOO_SMALL", "UNSUPPORTED_FEATURE"}

\* What the library's own callers rely on (src/tests/performance/decode_bench.cpp:330
\* stops at a size of zero): an answer of OK comes with an instruction that has been
\* written and moves the caller on.
AnswersAreWritten ==
    step = "received" /\ dec.st = "OK" /\ X86(mode) => dec.inst.size \in 1..MaxBytes

\* The displacement of an EVEX memory operand survives being encoded and decoded.
VectorDisplacementKept ==
    step = "read" /\ avail = enc.size /\ X86(mode) /\ VectorMemory(asked, enc.code)
        => dec.st = "OK" /\ SaysTheSame(asked, dec.inst, enc.size)
=============================================================================
