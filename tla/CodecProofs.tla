----------------------------- MODULE CodecProofs -----------------------------
(***************************************************************************)
(* The statuses and the sizes of the generated encoders and decoders, for  *)
(* tables, engines and instructions of any kind.                           *)
(***************************************************************************)
EXTENDS Codec, FiniteSetTheorems, SequenceTheorems, WellFoundedInduction, TLAPS

\* Every set of numbers that is not empty has a least one, which LeastOf is.
LEMMA LeastIs ==
    ASSUME NEW T \in SUBSET Nat, T # {}
    PROVE  LeastOf(T) \in T /\ \A m \in T : LeastOf(T) <= m
<1>1. PICK n \in T : \A m \in T : ~(<<m, n>> \in OpToRel(<, Nat))
  BY WFMin, NatLessThanWellFounded, Zenon
<1>2. \A m \in T : <<m, n>> \in OpToRel(<, Nat) <=> m < n
  BY Zenon DEF OpToRel
<1>3. \A m \in T : ~(m < n)
  BY <1>1, <1>2
<1>4. \A m \in T : n <= m
  BY <1>3
<1>5. \E x \in T : \A y \in T : x <= y
  BY <1>4
<1> QED BY <1>5 DEF LeastOf

\* What a search through a table finds among the rows that fit.
Found(records, f, hits) ==
    LET free == {i \in hits : FeaturesMatch(f, records[i])}
        at   == IF free = {} THEN 0 ELSE LeastOf(free)
    IN  [at |-> at, blocked |-> \E i \in hits \ free : at = 0 \/ i < at]

\* It is a row that fits if there is one whose features are enabled, and with
\* all features enabled none is passed over.
LEMMA FoundIs ==
    ASSUME NEW records, IsTable(records), NEW f,
           NEW hits, hits \subseteq DOMAIN records
    PROVE  LET r == Found(records, f, hits)
           IN  /\ r.at # 0 => r.at \in hits
               /\ r.at = 0 /\ ~r.blocked => hits = {}
               /\ hits = {} => r.at = 0 /\ ~r.blocked
               /\ r.blocked \in BOOLEAN
               /\ f = AllFeats => ~r.blocked
<1> DEFINE free == {i \in hits : FeaturesMatch(f, records[i])}
           at   == IF free = {} THEN 0 ELSE LeastOf(free)
           r    == Found(records, f, hits)
<1>1. r.at = at /\ r.blocked = (\E i \in hits \ free : at = 0 \/ i < at)
  BY DEF Found
<1>2. free \subseteq Nat \ {0} /\ free \subseteq hits
  BY DEF IsTable
<1>3. free # {} => LeastOf(free) \in free
  BY <1>2, LeastIs
<1>4. f = AllFeats => free = hits
  BY DEF IsTable, FeaturesMatch
<1> HIDE DEF r, free
<1>5. at # 0 => at \in hits
  BY <1>2, <1>3
<1>6. at = 0 => free = {}
  BY <1>2, <1>3
<1>7. f = AllFeats => hits \ free = {}
  BY <1>4
<1> QED BY <1>1, <1>2, <1>5, <1>6, <1>7 DEF r, free

\* What the statuses of an encoder have to do with features.
Verdict(some, every) ==
    /\ some \in CodecStatuses /\ every # "UNSUPPORTED_FEATURE"
    /\ some = "UNSUPPORTED_INSTRUCTION" => every = "UNSUPPORTED_INSTRUCTION"

\* The operands are found wrong for themselves only.
LEMMA BpfOperandStatuses ==
    ASSUME NEW rec, NEW inst
    PROVE  BpfOperandsStatus(rec, inst) \in {"OK", "ENCODE_FAILED", "BRANCH_OUT_OF_RANGE"}
<1>1. ASSUME NEW role, NEW op, NEW a
      PROVE  BpfOperandStatus(rec, role, op, a) \in {"OK", "ENCODE_FAILED", "BRANCH_OUT_OF_RANGE"}
  <2>1. BpfPackBranch(op, a) \in {"OK", "ENCODE_FAILED", "BRANCH_OUT_OF_RANGE"}
    BY DEF BpfPackBranch
  <2> QED BY <2>1 DEF BpfOperandStatus
<1> DEFINE roles == BpfTakes(rec)
           status(i) == IF i > Len(inst.ops) THEN "ENCODE_FAILED"
                        ELSE BpfOperandStatus(rec, roles[i], inst.ops[i], inst.address)
           wrong == {i \in DOMAIN roles : status(i) # "OK"}
<1>2. ASSUME NEW i PROVE status(i) \in {"OK", "ENCODE_FAILED", "BRANCH_OUT_OF_RANGE"}
  BY <1>1
<1>3. BpfOperandsStatus(rec, inst) = IF wrong = {} THEN "OK" ELSE status(LeastOf(wrong))
  BY DEF BpfOperandsStatus
<1> HIDE DEF status, wrong
<1> QED BY <1>2, <1>3

\* BPF: the two searches.
LEMMA BpfEncodes ==
    ASSUME NEW f, NEW inst, NEW c
    PROVE  Verdict(BpfEncode(f, inst, c).st, BpfEncode(AllFeats, inst, c).st)
<1> DEFINE byId   == {i \in DOMAIN BpfRecords : BpfRecords[i].id = inst.id}
           byName == {i \in DOMAIN BpfRecords : BpfMatches(BpfRecords[i], inst)}
           r(g)   == BpfChoose(g, inst)
           first(g)  == Found(BpfRecords, g, byId)
           second(g) == Found(BpfRecords, g, byName)
<1>1. ASSUME NEW g PROVE r(g) = SearchTwice(first(g), second(g))
  BY DEF BpfChoose, Search, Found
<1>2. ASSUME NEW g
      PROVE  /\ r(g).at = 0 /\ ~r(g).blocked => byId = {} /\ byName = {}
             /\ byId = {} /\ byName = {} => r(g).at = 0 /\ ~r(g).blocked
             /\ g = AllFeats => ~r(g).blocked
  <2>1. IsTable(BpfRecords) /\ byId \subseteq DOMAIN BpfRecords /\ byName \subseteq DOMAIN BpfRecords
    BY CodecAssumption
  <2> HIDE DEF byId, byName
  <2> QED BY <1>1, <2>1, FoundIs DEF SearchTwice
<1> HIDE DEF r, byId, byName
<1>3. ASSUME NEW g
      PROVE  /\ BpfEncode(g, inst, c).st \in CodecStatuses
             /\ BpfEncode(g, inst, c).st = "UNSUPPORTED_FEATURE" <=> r(g).at = 0 /\ r(g).blocked
             /\ BpfEncode(g, inst, c).st = "UNSUPPORTED_INSTRUCTION" <=> r(g).at = 0 /\ ~r(g).blocked
  <2>1. BpfOperandsStatus(BpfRecords[r(g).at], inst) \in {"OK", "ENCODE_FAILED", "BRANCH_OUT_OF_RANGE"}
    BY BpfOperandStatuses
  <2> QED BY <2>1 DEF BpfEncode, Encoding, NotFound, CodecStatuses, r
<1> QED BY <1>2, <1>3 DEF Verdict

\* WebAssembly: a pick among the records of an opcode or of a name.
LEMMA PickIs ==
    ASSUME NEW f, NEW m, NEW hits, hits \subseteq DOMAIN WasmRecords
    PROVE  LET r == WasmPick(hits, f, m)
           IN  /\ r.at # 0 => r.at \in hits
               /\ r.at = 0 /\ ~r.blocked => hits = {}
               /\ hits = {} => r.at = 0 /\ ~r.blocked
               /\ r.blocked \in BOOLEAN
               /\ f = AllFeats => ~r.blocked
<1> DEFINE free == {i \in hits : FeaturesMatch(f, WasmRecords[i])}
           own  == {i \in free : m = "wasm64" /\ WasmRecords[i].mode64}
           at   == IF own # {} THEN LeastOf(own)
                   ELSE IF free # {} THEN LeastOf(free) ELSE 0
           r    == WasmPick(hits, f, m)
<1>1. r.at = at /\ r.blocked = (\E i \in hits \ free : own = {} \/ i < at)
  BY DEF WasmPick
<1>2. free \subseteq Nat \ {0} /\ free \subseteq hits /\ own \subseteq free
  BY CodecAssumption DEF IsTable
<1>3. /\ free # {} => LeastOf(free) \in free
      /\ own # {} => LeastOf(own) \in own
  <2> HIDE DEF free, own
  <2> QED BY <1>2, LeastIs
<1>4. f = AllFeats => free = hits
  BY CodecAssumption DEF IsTable, FeaturesMatch
<1> HIDE DEF r, free, own
<1>5. at # 0 => at \in hits
  BY <1>2, <1>3
<1>6. at = 0 => free = {} /\ own = {}
  BY <1>2, <1>3
<1>7. f = AllFeats => hits \ free = {}
  BY <1>4
<1>8. hits = {} => free = {} /\ own = {}
  BY <1>2
<1> QED BY <1>1, <1>2, <1>5, <1>6, <1>7, <1>8 DEF r

LEMMA WasmEncodes ==
    ASSUME NEW f, NEW m, NEW inst, NEW c
    PROVE  Verdict(WasmEncode(f, m, inst, c).st, WasmEncode(AllFeats, m, inst, c).st)
<1> DEFINE byId   == {i \in DOMAIN WasmRecords :
                         /\ inst.id # "none" /\ WasmRecords[i].id = inst.id
                         /\ ModeMatches(WasmRecords[i], m)}
           byName == {i \in DOMAIN WasmRecords : WasmMatches(WasmRecords[i], inst, m)}
           r(g)   == WasmChoose(g, m, inst)
           first(g)  == Found(WasmRecords, g, byId)
           second(g) == WasmPick(byName, g, m)
<1>1. ASSUME NEW g PROVE r(g) = SearchTwice(first(g), second(g))
  BY DEF WasmChoose, Search, Found
<1>2. ASSUME NEW g
      PROVE  /\ r(g).at = 0 /\ ~r(g).blocked => byId = {} /\ byName = {}
             /\ byId = {} /\ byName = {} => r(g).at = 0 /\ ~r(g).blocked
             /\ g = AllFeats => ~r(g).blocked
  <2>1. IsTable(WasmRecords) /\ byId \subseteq DOMAIN WasmRecords /\ byName \subseteq DOMAIN WasmRecords
    BY CodecAssumption
  <2> HIDE DEF byId, byName
  <2> QED BY <1>1, <2>1, FoundIs, PickIs DEF SearchTwice
<1> HIDE DEF r, byId, byName
<1>3. ASSUME NEW g
      PROVE  /\ WasmEncode(g, m, inst, c).st \in CodecStatuses
             /\ WasmEncode(g, m, inst, c).st = "UNSUPPORTED_FEATURE" <=> r(g).at = 0 /\ r(g).blocked
             /\ WasmEncode(g, m, inst, c).st = "UNSUPPORTED_INSTRUCTION" <=> r(g).at = 0 /\ ~r(g).blocked
  BY DEF WasmEncode, Encoding, NotFound, CodecStatuses, r
<1> QED BY <1>2, <1>3 DEF Verdict

\* A buffer is large enough or too small, whatever the code.
LEMMA WrittenStatuses ==
    ASSUME NEW code, NEW c
    PROVE  Written(code, c).st \in {"OK", "OUTPUT_TOO_SMALL"}
BY DEF Written, Encoding

\* x86: one search, of which the first record that can be written is taken.
LEMMA X86Encodes ==
    ASSUME NEW f, NEW m, NEW inst, NEW c
    PROVE  LET some  == X86Encode(f, m, inst, c).st
               every == X86Encode(AllFeats, m, inst, c).st
               over  == \E i \in DOMAIN X86Records :
                            /\ Identity(X86Records[i], inst)
                            /\ OperandsMatch(X86Records[i], inst)
                            /\ ~FeaturesMatch(f, X86Records[i])
           IN  /\ some \in CodecStatuses /\ every # "UNSUPPORTED_FEATURE"
               /\ some = "UNSUPPORTED_INSTRUCTION" /\ ~over => every = "UNSUPPORTED_INSTRUCTION"
<1> DEFINE fits == {i \in {X86EncodeOrder[k] : k \in DOMAIN X86EncodeOrder} :
                       Identity(X86Records[i], inst) /\ OperandsMatch(X86Records[i], inst)}
           r(g) == X86Choose(X86Records, g, m, inst, fits)
           gen(g) == X86GenEncode(X86Records, g, m, inst, c)
           over  == \E i \in DOMAIN X86Records :
                        /\ Identity(X86Records[i], inst)
                        /\ OperandsMatch(X86Records[i], inst)
                        /\ ~FeaturesMatch(f, X86Records[i])
<1>1. fits \subseteq DOMAIN X86Records
  BY CodecAssumption
<1>2. ~r(AllFeats).blocked
  <2>1. {i \in fits : FeaturesMatch(AllFeats, X86Records[i])} = fits
    BY <1>1, CodecAssumption DEF IsTable, FeaturesMatch
  <2> HIDE DEF fits
  <2> QED BY <2>1 DEF X86Choose
<1>3. ~over => r(f) = r(AllFeats)
  <2>1. {i \in fits : FeaturesMatch(AllFeats, X86Records[i])} = fits
    BY <1>1, CodecAssumption DEF IsTable, FeaturesMatch
  <2>2. ~over => {i \in fits : FeaturesMatch(f, X86Records[i])} = fits
    BY <1>1
  <2> HIDE DEF fits, over
  <2> QED BY <2>1, <2>2 DEF X86Choose
<1>4. ASSUME NEW g
      PROVE  /\ gen(g).st \in CodecStatuses
             /\ gen(g).st = "UNSUPPORTED_FEATURE" => r(g).at = 0 /\ r(g).blocked
  <2>1. gen(g) = X86EncodeFound(X86Records, r(g), m, inst, c)
    BY DEF X86GenEncode
  <2>2. X86Write(X86Records[r(g).at], inst, m, c).st \in {"OK", "OUTPUT_TOO_SMALL"}
    BY WrittenStatuses DEF X86Write, X86WriteHead
  <2> HIDE DEF r, gen
  <2> QED BY <2>1, <2>2 DEF X86EncodeFound, Encoding, NotFound, CodecStatuses
<1>5. ~over => gen(f) = gen(AllFeats)
  BY <1>3 DEF X86GenEncode, X86EncodeFound
<1>6. ASSUME NEW opcode PROVE X86WriteRel(m, opcode, inst, c).st \in {"OK", "OUTPUT_TOO_SMALL", "BRANCH_OUT_OF_RANGE"}
  BY WrittenStatuses DEF X86WriteRel, Encoding
<1> HIDE DEF r, gen, fits, over
<1> DEFINE name == MnemonicOf(inst)
           rel  == name \in {<<"jmp", 0>>, <<"call", 0>>} /\ inst.ops # <<>> /\ inst.ops[1].kind = "PC_REL"
<1>7. ASSUME NEW g
      PROVE  X86Encode(g, m, inst, c) =
                IF name = <<"nop", 0>> THEN Written(<<144>>, c)
                ELSE IF name = <<"ret", 0>> THEN Written(<<195>>, c)
                ELSE IF rel THEN X86WriteRel(m, IF name = <<"call", 0>> THEN 232 ELSE 233, inst, c)
                ELSE gen(g)
  <2> HIDE DEF name
  <2> QED BY DEF X86Encode, gen, name
<1> HIDE DEF name, rel
<1> QED BY <1>2, <1>4, <1>5, <1>6, <1>7, WrittenStatuses DEF CodecStatuses, over

\* AArch64: what keeps a record from being packed.
LEMMA PackVerdict ==
    ASSUME NEW f, NEW i \in DOMAIN A64Records, NEW inst
    PROVE  LET row == A64Records[i]
           IN  /\ ~Pack(AllFeats, row, inst).blocked
               /\ ~Pack(f, row, inst).blocked => Pack(f, row, inst) = Pack(AllFeats, row, inst)
<1> DEFINE row    == A64Records[i]
           values == [k \in DOMAIN row.ops |-> A64OperandValue(inst, inst.ops[k], row.ops[k])]
<1>1. FeaturesMatch(AllFeats, row)
  BY CodecAssumption DEF IsTable, FeaturesMatch
<1>2. ASSUME NEW v
      PROVE  /\ ~PackWith(AllFeats, row, v).blocked
             /\ ~PackWith(f, row, v).blocked => PackWith(f, row, v) = PackWith(AllFeats, row, v)
  <2> DEFINE opaques == {k \in DOMAIN row.ops : row.ops[k].kind = "OPAQUE"}
             field   == NatOf(v[LeastOf(opaques)])
             known   == \E p \in A64Pstates : p[1] = row.predicate /\ p[2] = field
             word    == row.value \cup row.sets
                        \cup {p[3] : p \in {q \in row.pieces : q[2] \in v[q[1]]}}
             allowed(g) == opaques # {} /\ PstateAllows(g, row.predicate, field)
  <2>1. ASSUME NEW g
        PROVE  PackWith(g, row, v) =
                  IF row.predicate = "NONE" \/ allowed(g)
                  THEN [fits |-> TRUE, blocked |-> FALSE, word |-> word]
                  ELSE [fits |-> FALSE, blocked |-> opaques # {} /\ known, word |-> {}]
    BY DEF PackWith
  <2>2. PstateAllows(AllFeats, row.predicate, field) <=> known
    BY CodecAssumption DEF PstateAllows
  <2>3. PstateAllows(f, row.predicate, field) => known
    BY DEF PstateAllows
  <2> DEFINE yes   == [fits |-> TRUE, blocked |-> FALSE, word |-> word]
             no(b) == [fits |-> FALSE, blocked |-> b, word |-> {}]
             some  == opaques # {}
  <2>4. ~yes.blocked /\ \A b \in BOOLEAN : no(b).blocked = b
    OBVIOUS
  <2>5. known \in BOOLEAN /\ some \in BOOLEAN
    OBVIOUS
  <2> HIDE DEF field, known, word, yes, no, some
  <2>6. ASSUME NEW g
        PROVE  PackWith(g, row, v) =
                  IF row.predicate = "NONE" \/ (some /\ PstateAllows(g, row.predicate, field))
                  THEN yes ELSE no(some /\ known)
    BY <2>1 DEF yes, no, some
  <2> HIDE DEF row
  <2> QED BY <2>2, <2>3, <2>4, <2>5, <2>6
<1>3. /\ ~PackOperands(AllFeats, row, values).blocked
      /\ ~PackOperands(f, row, values).blocked =>
            PackOperands(f, row, values) = PackOperands(AllFeats, row, values)
  <2> HIDE DEF values, row
  <2> QED BY <1>2 DEF PackOperands, Unpacked
<1>4. ASSUME NEW g
      PROVE  Pack(g, row, inst) =
                IF ~FeaturesMatch(g, row) THEN [Unpacked EXCEPT !.blocked = TRUE]
                ELSE IF Len(inst.ops) # Len(row.ops) THEN Unpacked
                ELSE PackOperands(g, row, values)
  BY DEF Pack
<1>5. ~Unpacked.blocked /\ [Unpacked EXCEPT !.blocked = TRUE].blocked
  BY DEF Unpacked
<1> HIDE DEF row, values
<1> QED BY <1>1, <1>3, <1>4, <1>5 DEF row

\* A search that found nothing has one of two answers.
LEMMA NotFoundIs ==
    ASSUME NEW b \in BOOLEAN
    PROVE  Encoding(NotFound([blocked |-> b]), 0, <<>>).st =
              IF b THEN "UNSUPPORTED_FEATURE" ELSE "UNSUPPORTED_INSTRUCTION"
BY DEF NotFound, Encoding

LEMMA WordStatuses ==
    ASSUME NEW word, NEW c
    PROVE  WordAnswer(word, c).st \in {"OK", "OUTPUT_TOO_SMALL"}
BY DEF WordAnswer, Encoding

LEMMA FixedVerdict ==
    ASSUME NEW f, NEW inst, NEW c
    PROVE  Verdict(EncodeFixed(f, inst, c).st, EncodeFixed(AllFeats, inst, c).st)
<1> DEFINE named == {i \in DOMAIN A64Records :
                       A64Records[i].ops = <<>> /\ A64Identity(A64Records[i], inst)}
           free(g) == {i \in named : FeaturesMatch(g, A64Records[i])}
<1>1. free(AllFeats) = named
  BY CodecAssumption DEF IsTable, FeaturesMatch
<1>2. ASSUME NEW g
      PROVE  EncodeFixed(g, inst, c) =
                IF free(g) # {} THEN WordAnswer(A64Records[FirstByRank(free(g))].value, c)
                ELSE Encoding(NotFound([blocked |-> named # {}]), 0, <<>>)
  BY DEF EncodeFixed
<1>3. free(f) \subseteq named
  OBVIOUS
<1> DEFINE answer(g) == WordAnswer(A64Records[FirstByRank(free(g))].value, c).st
           none == Encoding(NotFound([blocked |-> named # {}]), 0, <<>>).st
<1>4. ASSUME NEW g PROVE EncodeFixed(g, inst, c).st = IF free(g) # {} THEN answer(g) ELSE none
  BY <1>2, Zenon
<1>5. none = IF named # {} THEN "UNSUPPORTED_FEATURE" ELSE "UNSUPPORTED_INSTRUCTION"
  BY NotFoundIs
<1>6. ASSUME NEW g PROVE answer(g) \in {"OK", "OUTPUT_TOO_SMALL"}
  BY WordStatuses
<1> HIDE DEF free, named, answer, none
<1> QED BY <1>1, <1>3, <1>4, <1>5, <1>6 DEF Verdict, CodecStatuses

LEMMA BitfieldVerdict ==
    ASSUME NEW f, NEW inst, NEW c, NEW named, named \subseteq DOMAIN A64Records
    PROVE  LET some  == EncodeBitfield(f, inst, c, named).st
               every == EncodeBitfield(AllFeats, inst, c, named).st
               over  == \E i \in named : Pack(f, A64Records[i], inst).blocked
           IN  /\ some \in CodecStatuses /\ every # "UNSUPPORTED_FEATURE"
               /\ some = "UNSUPPORTED_INSTRUCTION" /\ ~over => every = "UNSUPPORTED_INSTRUCTION"
<1> DEFINE packed(g) == [i \in named |-> Pack(g, A64Records[i], inst)]
           over == \E i \in named : Pack(f, A64Records[i], inst).blocked
<1>1. \A i \in named : ~packed(AllFeats)[i].blocked
  BY PackVerdict
<1>2. ~over => packed(f) = packed(AllFeats)
  BY PackVerdict
<1>3. ASSUME NEW g PROVE DOMAIN packed(g) = named
  OBVIOUS
<1>4. ASSUME NEW g PROVE EncodeBitfield(g, inst, c, named) = AnswerPacked(packed(g), c)
  BY DEF EncodeBitfield
<1> HIDE DEF packed, over
<1> DEFINE fits(g)   == {i \in named : packed(g)[i].fits}
           answer(g) == WordAnswer(packed(g)[FirstByRank(fits(g))].word, c).st
           all(g)    == named # {} /\ \A i \in named : packed(g)[i].blocked
           none(g)   == Encoding(NotFound([blocked |-> all(g)]), 0, <<>>).st
<1>5. ASSUME NEW g
      PROVE  AnswerPacked(packed(g), c).st = IF fits(g) # {} THEN answer(g) ELSE none(g)
  BY <1>3, Zenon DEF AnswerPacked
<1>6. ASSUME NEW g
      PROVE  /\ answer(g) \in {"OK", "OUTPUT_TOO_SMALL"}
             /\ none(g) = IF all(g) THEN "UNSUPPORTED_FEATURE" ELSE "UNSUPPORTED_INSTRUCTION"
  <2>1. all(g) \in BOOLEAN
    OBVIOUS
  <2> HIDE DEF all
  <2> QED BY <2>1, NotFoundIs, WordStatuses
<1>7. ~all(AllFeats)
  BY <1>1
<1> HIDE DEF fits, answer, all, none
<1>8. ASSUME NEW g PROVE AnswerPacked(packed(g), c).st \in CodecStatuses
  BY <1>5, <1>6 DEF CodecStatuses
<1>9. AnswerPacked(packed(AllFeats), c).st # "UNSUPPORTED_FEATURE"
  BY <1>5, <1>6, <1>7
<1> QED BY <1>2, <1>4, <1>8, <1>9 DEF over

LEMMA A64Encodes ==
    ASSUME NEW f, NEW inst, NEW c
    PROVE  LET some  == A64Encode(f, inst, c).st
               every == A64Encode(AllFeats, inst, c).st
               over  == inst.ops # <<>> /\ \E i \in DOMAIN A64Records :
                            /\ A64Identity(A64Records[i], inst)
                            /\ Pack(f, A64Records[i], inst).blocked
           IN  /\ some \in CodecStatuses /\ every # "UNSUPPORTED_FEATURE"
               /\ some = "UNSUPPORTED_INSTRUCTION" /\ ~over => every = "UNSUPPORTED_INSTRUCTION"
<1> DEFINE named == {i \in DOMAIN A64Records :
                       A64Records[i].ops # <<>> /\ A64Identity(A64Records[i], inst)}
           gen(g) == EncodeGenerated(g, inst, c)
           over  == inst.ops # <<>> /\ \E i \in DOMAIN A64Records :
                        /\ A64Identity(A64Records[i], inst)
                        /\ Pack(f, A64Records[i], inst).blocked
<1>1. ASSUME NEW g
      PROVE  gen(g) = IF inst.ops = <<>> THEN EncodeFixed(g, inst, c)
                      ELSE EncodeBitfield(g, inst, c, named)
  BY DEF EncodeGenerated
<1>2. ~over /\ inst.ops # <<>> => ~\E i \in named : Pack(f, A64Records[i], inst).blocked
  OBVIOUS
<1>3. named \subseteq DOMAIN A64Records
  OBVIOUS
<1> HIDE DEF gen, named, over
<1>4. /\ gen(f).st \in CodecStatuses /\ gen(AllFeats).st # "UNSUPPORTED_FEATURE"
      /\ gen(f).st = "UNSUPPORTED_INSTRUCTION" /\ ~over => gen(AllFeats).st = "UNSUPPORTED_INSTRUCTION"
  <2>1. CASE inst.ops = <<>>
    BY <1>1, <2>1, FixedVerdict DEF Verdict
  <2>2. CASE inst.ops # <<>>
    BY <1>1, <1>2, <1>3, <2>2, BitfieldVerdict
  <2> QED BY <2>1, <2>2
<1>5. ASSUME NEW call PROVE EmitRel(inst, call, c).st \in {"OK", "OUTPUT_TOO_SMALL", "BRANCH_OUT_OF_RANGE"}
  BY WordStatuses DEF EmitRel, Encoding
<1> DEFINE name == A64MnemonicOf(inst)
           rel  == name \in {"b", "bl"} /\ inst.ops # <<>> /\ inst.ops[1].kind = "PC_REL"
           to   == name \in {"br", "blr"} /\ A64BranchRegs(inst) # {}
           word == A64Bits(IF name = "br" THEN <<54815, 0>> ELSE <<54847, 0>>)
                   \cup {i + 5 : i \in UNION {BitsOf(n) : n \in A64BranchRegs(inst)}}
<1>6. ASSUME NEW g
      PROVE  A64Encode(g, inst, c) =
                IF rel THEN EmitRel(inst, name = "bl", c)
                ELSE IF to THEN WordAnswer(word, c)
                ELSE IF name = "ret" THEN WordAnswer(A64Bits(<<54879, 960>>), c)
                ELSE gen(g)
  <2> HIDE DEF name, word
  <2>1. A64Encode(g, inst, c) = EncodeNamed(g, inst, c, name)
    BY DEF A64Encode, name
  <2> QED BY <2>1 DEF EncodeNamed, gen, word
<1> HIDE DEF name, rel, to, word
<1> QED BY <1>4, <1>5, <1>6, WordStatuses DEF CodecStatuses, over


-----------------------------------------------------------------------------
(***************************************************************************)
(* The decoders.                                                           *)
(***************************************************************************)
Answers(st) == st \in {"OK", "DECODE_FAILED", "UNSUPPORTED_FEATURE"}

LEMMA BpfDecodes ==
    ASSUME NEW f, NEW word, NEW n, NEW address
    PROVE  /\ Answers(BpfDecode(f, word, n, address).st)
           /\ BpfDecode(AllFeats, word, n, address).st # "UNSUPPORTED_FEATURE"
<1> DEFINE hits == {i \in DOMAIN BpfRecords : BpfFits(word, BpfRecords[i])}
<1>1. ASSUME NEW g PROVE BpfFind(g, word) = Found(BpfRecords, g, hits)
  BY DEF BpfFind, Search, Found
<1>2. ~BpfFind(AllFeats, word).blocked
  <2>1. IsTable(BpfRecords) /\ hits \subseteq DOMAIN BpfRecords
    BY CodecAssumption
  <2> HIDE DEF hits
  <2> QED BY <1>1, <2>1, FoundIs
<1> QED BY <1>2 DEF BpfDecode, Decoding, Answers

LEMMA WasmDecodes ==
    ASSUME NEW f, NEW m, NEW code
    PROVE  /\ Answers(WasmDecode(f, m, code).st)
           /\ WasmDecode(AllFeats, m, code).st # "UNSUPPORTED_FEATURE"
<1>1. ASSUME NEW prefix, NEW opcode PROVE ~WasmFind(AllFeats, prefix, opcode, m).blocked
  <2> DEFINE hits == {i \in OpcodeRange(prefix, opcode) : ModeMatches(WasmRecords[i], m)}
  <2>1. hits \subseteq DOMAIN WasmRecords
    BY DEF OpcodeRange
  <2>2. WasmFind(AllFeats, prefix, opcode, m) = WasmPick(hits, AllFeats, m)
    BY DEF WasmFind
  <2> HIDE DEF hits
  <2> QED BY <2>1, <2>2, PickIs
<1>2. ASSUME NEW rec, NEW found, NEW prefixed, NEW start
      PROVE  /\ Answers(WasmDecodeFound(rec, found, prefixed, code, start).st)
             /\ ~found.blocked =>
                   WasmDecodeFound(rec, found, prefixed, code, start).st # "UNSUPPORTED_FEATURE"
  BY DEF WasmDecodeFound, Decoding, Answers
<1> QED BY <1>1, <1>2 DEF WasmDecode, WasmLookUp, Decoding, Answers

\* No record is ruled out when the features that would rule it in are there.
LEMMA AllowedIs ==
    ASSUME NEW c, NEW m, NEW modrm
    PROVE  ~FindAllowed(X86Records, AllFeats, c, m, modrm).blocked
<1>1. AllFeats \cup AllNeeds(X86Records) = AllFeats
  BY CodecAssumption DEF IsTable, AllNeeds
<1> QED BY <1>1 DEF FindAllowed, FindStrict, FindLoose

LEMMA X86Decodes ==
    ASSUME NEW f, NEW m, NEW code, NEW address
    PROVE  /\ Answers(X86Decode(f, m, code, address).st)
           /\ X86Decode(AllFeats, m, code, address).st # "UNSUPPORTED_FEATURE"
<1> DEFINE Fine(st) == st \in {"OK", "DECODE_FAILED"}
<1>1. ASSUME NEW len, NEW inst PROVE Fine(Finish(len, inst).st)
  BY DEF Finish, Decoding
<1>2. ASSUME NEW c PROVE Fine(X86DecodeBranch(c, code, m, address).st)
  BY DEF X86DecodeBranch, Decoding
<1>3. ASSUME NEW rec, NEW c PROVE Fine(X86DecodePlain(rec, c, code, m, address).st)
  BY DEF X86DecodePlain, Decoding
<1>4. ASSUME NEW c PROVE Fine(X86DecodeIo(c, code, address).st)
  BY DEF X86DecodeIo, Decoding
<1>5. ASSUME NEW c PROVE Fine(X86DecodeUnknown(c, code, m, address).st)
  BY <1>1 DEF X86DecodeUnknown, Decoding
<1> DEFINE Right(g, st) == Answers(st) /\ (g = AllFeats => st # "UNSUPPORTED_FEATURE")
<1>6. ASSUME NEW g, NEW c
      PROVE  Right(g, X86DecodeModrm(X86Records, g, c, code, m, address).st)
  <2>1. ASSUME NEW rec, NEW found, NEW r
        PROVE  LET st == X86DecodeFound(rec, found, c, r, code, m, address).st
               IN  Answers(st) /\ (~found.blocked => st # "UNSUPPORTED_FEATURE")
    BY DEF X86DecodeFound, Decoding, Answers
  <2>2. ASSUME NEW r
        PROVE  Right(g, X86DecodeModrmAt(X86Records, g, c, r, code, m, address).st)
    BY <2>1, AllowedIs DEF X86DecodeModrmAt, Decoding, Answers
  <2> QED BY <2>2 DEF X86DecodeModrm
<1>7. ASSUME NEW g, NEW c, NEW found, g = AllFeats => ~found.blocked
      PROVE  Right(g, X86DecodeTable(found, X86Records, g, c, code, m, address).st)
  BY <1>2, <1>3, <1>4, <1>5, <1>6, <1>7 DEF X86DecodeTable, Decoding, Answers
<1>8. ASSUME NEW g, NEW c
      PROVE  Right(g, X86DecodeOpcode(X86Records, g, c, code, m, address).st)
  <2> DEFINE last == X86DecodeTable(FindAllowed(X86Records, g, c, m, -1),
                                    X86Records, g, c, code, m, address)
  <2>1. Right(g, last.st)
    BY <1>7, AllowedIs
  <2> HIDE DEF last
  <2>2. Fine(X86DecodeOpcode(X86Records, g, c, code, m, address).st)
        \/ X86DecodeOpcode(X86Records, g, c, code, m, address) = last
    BY <1>1, <1>2 DEF X86DecodeOpcode, last
  <2> QED BY <2>1, <2>2 DEF Answers
<1> HIDE DEF Right
<1>9. ASSUME NEW g, NEW p, NEW c
      PROVE  Right(g, X86DecodeFrom(p, c, X86Records, g, m, code, address).st)
  BY <1>8 DEF X86DecodeFrom, Decoding, Right, Answers
<1> QED BY <1>9 DEF X86Decode, Right

LEMMA A64Decodes ==
    ASSUME NEW f, NEW word, NEW n, NEW address
    PROVE  /\ Answers(A64Decode(f, word, n, address).st)
           /\ A64Decode(AllFeats, word, n, address).st # "UNSUPPORTED_FEATURE"
<1>1. ASSUME NEW g, NEW fits, fits \subseteq DOMAIN A64Records
      PROVE  LET st == A64LookUp(g, word, address, fits).st
             IN  Answers(st) /\ (g = AllFeats => st # "UNSUPPORTED_FEATURE")
  <2>1. {i \in fits : FeaturesMatch(AllFeats, A64Records[i])} = fits
    BY <1>1, CodecAssumption DEF IsTable, FeaturesMatch
  <2> QED BY <2>1 DEF A64LookUp, Decoding, Answers
<1>2. ASSUME NEW g
      PROVE  {i \in DOMAIN A64Records : A64Fits(g, A64Records[i], word)} \subseteq DOMAIN A64Records
  OBVIOUS
<1> QED BY <1>1, <1>2, CodecAssumption DEF A64Decode, Decoding, Answers

-----------------------------------------------------------------------------
(***************************************************************************)
(* The session.  The answer of the encoder is the answer to what was asked *)
(* last, with the features and the buffer of that time.                    *)
(***************************************************************************)
AnswerInv ==
    /\ mode \in CodecModes
    /\ step = "encoded" => enc = Encode(mode, feats, asked, cap)

LEMMA AnswerKept == Spec => []AnswerInv
<1>1. Init => AnswerInv
  BY DEF Init, AnswerInv
<1>2. AnswerInv /\ [Next]_vars => AnswerInv'
  <2> SUFFICES ASSUME AnswerInv, [Next]_vars PROVE AnswerInv'
    OBVIOUS
  <2>1. CASE EncodeInst
    BY <2>1 DEF EncodeInst, AnswerInv
  <2>2. CASE Ask \/ Receive \/ Copy \/ Grow \/ Enable \/ ReadBack
    BY <2>2 DEF Ask, Receive, Copy, Grow, Enable, ReadBack, AnswerInv
  <2>3. CASE UNCHANGED vars
    BY <2>3 DEF vars, AnswerInv
  <2> QED BY <2>1, <2>2, <2>3 DEF Next
<1> QED BY <1>1, <1>2, PTL DEF Spec

\* The four encoders and the four decoders behind one name each.
LEMMA EncodeIs ==
    ASSUME NEW m \in CodecModes, NEW f, NEW inst, NEW c
    PROVE  /\ Bpf(m)  => Encode(m, f, inst, c) = BpfEncode(f, inst, c)
           /\ Wasm(m) => Encode(m, f, inst, c) = WasmEncode(f, m, inst, c)
           /\ X86(m)  => Encode(m, f, inst, c) = X86Encode(f, m, inst, c)
           /\ A64(m)  => Encode(m, f, inst, c) = A64Encode(f, inst, c)
BY DEF Encode, Bpf, Wasm, X86, A64, X86Modes

LEMMA DecodeIs ==
    ASSUME NEW m \in CodecModes, NEW f, NEW code, NEW n, NEW address
    PROVE  /\ Bpf(m)  => Decode(m, f, code, n, address) = BpfDecode(f, code[1], n, address)
           /\ Wasm(m) => Decode(m, f, code, n, address) = WasmDecode(f, m, SubSeq(code, 1, n))
           /\ X86(m)  => Decode(m, f, code, n, address) = X86Decode(f, m, SubSeq(code, 1, n), address)
           /\ A64(m)  => Decode(m, f, code, n, address) = A64Decode(f, code[1], n, address)
BY DEF Decode, Bpf, Wasm, X86, A64, X86Modes

LEMMA EveryMode ==
    ASSUME NEW m \in CodecModes
    PROVE  Bpf(m) \/ Wasm(m) \/ X86(m) \/ A64(m)
BY CodecAssumption DEF Bpf, Wasm, X86, A64

LEMMA VerdictHolds == AnswerInv => FeatureVerdict
<1> SUFFICES ASSUME AnswerInv PROVE FeatureVerdict
  OBVIOUS
<1>1. mode \in CodecModes
  BY DEF AnswerInv
<1> DEFINE some  == Encode(mode, feats, asked, cap).st
           every == Encode(mode, AllFeats, asked, cap).st
<1>2. every # "UNSUPPORTED_FEATURE"
      /\ (some = "UNSUPPORTED_INSTRUCTION" /\ ~Overlooked => every = "UNSUPPORTED_INSTRUCTION")
  <2>1. CASE Bpf(mode)
    BY <1>1, <2>1, EncodeIs, BpfEncodes DEF Verdict
  <2>2. CASE Wasm(mode)
    BY <1>1, <2>2, EncodeIs, WasmEncodes DEF Verdict
  <2>3. CASE X86(mode)
    BY <1>1, <2>3, EncodeIs, X86Encodes DEF Overlooked
  <2>4. CASE A64(mode)
    BY <1>1, <2>4, EncodeIs, A64Encodes DEF Overlooked
  <2> QED BY <1>1, <2>1, <2>2, <2>3, <2>4, EveryMode
<1>3. Decode(mode, AllFeats, enc.code, avail, AddressOf(asked)).st # "UNSUPPORTED_FEATURE"
  <2>1. CASE Bpf(mode)
    BY <1>1, <2>1, DecodeIs, BpfDecodes
  <2>2. CASE Wasm(mode)
    BY <1>1, <2>2, DecodeIs, WasmDecodes
  <2>3. CASE X86(mode)
    BY <1>1, <2>3, DecodeIs, X86Decodes
  <2>4. CASE A64(mode)
    BY <1>1, <2>4, DecodeIs, A64Decodes
  <2> QED BY <1>1, <2>1, <2>2, <2>3, <2>4, EveryMode
<1>4. step = "encoded" => enc.st = some
  BY DEF AnswerInv
<1> HIDE DEF some, every
<1> QED BY <1>2, <1>3, <1>4 DEF FeatureVerdict, some, every

\* What the encoders and decoders say about features can be relied on, in every
\* mode, for every table, feature set, instruction, code and buffer.
THEOREM VerdictAlwaysHolds == Spec => []FeatureVerdict
BY AnswerKept, VerdictHolds, PTL

-----------------------------------------------------------------------------
(***************************************************************************)
(* Numbers and recursive functions, for the sizes.                         *)
(***************************************************************************)
\* A property of 0 that passes on to the next number holds of all: the
\* principle of induction for sets instead of predicates.
LEMMA InductionOnSets ==
    ASSUME NEW S, 0 \in S, \A n \in Nat : n \in S => n + 1 \in S
    PROVE  Nat \subseteq S
<1>1. SUFFICES ASSUME Nat \ S # {}
               PROVE  FALSE
  OBVIOUS
<1>2. IsWellFoundedOn(OpToRel(<, Nat), Nat)
  BY NatLessThanWellFounded
<1>3. PICK m \in Nat \ S : \A y \in Nat \ S : ~(<<y, m>> \in OpToRel(<, Nat))
  BY <1>1, <1>2, WFMin, Zenon
<1>4. CASE m = 0
  BY <1>4
<1>5. CASE m # 0
  <2>1. m - 1 \in Nat /\ m - 1 < m
    BY <1>5
  <2>2. <<m - 1, m>> \in OpToRel(<, Nat)
    BY <2>1 DEF OpToRel
  <2>3. m - 1 \in S
    BY <1>3, <2>1, <2>2
  <2> QED BY <2>1, <2>3
<1> QED BY <1>4, <1>5

\* A power of two is positive and twice the one before.
LEMMA DoublePower ==
    ASSUME NEW n \in Nat
    PROVE  /\ 2 ^ n \in Nat \ {0} /\ 2 ^ 0 = 1
           /\ 2 ^ (n + 1) = 2 * 2 ^ n
<1> DEFINE A == 1..n
           new == n + 1
           With == {B \cup {new} : B \in SUBSET A}
<1>1. IsFiniteSet(A) /\ Cardinality(A) = n
  <2>1. 1 \in Int /\ n \in Int
    OBVIOUS
  <2>2. IsFiniteSet(1..n) /\ Cardinality(1..n) = IF 1 > n THEN 0 ELSE n - 1 + 1
    BY <2>1, FS_Interval, Zenon
  <2> QED BY <2>2
<1>2. IsFiniteSet(A \cup {new}) /\ Cardinality(A \cup {new}) = n + 1
  <2>1. new \notin A
    OBVIOUS
  <2> HIDE DEF A, new
  <2>2. /\ IsFiniteSet(A \cup {new})
        /\ Cardinality(A \cup {new}) = IF new \in A THEN Cardinality(A) ELSE Cardinality(A) + 1
    BY <1>1, FS_AddElement, Zenon
  <2> QED BY <1>1, <2>1, <2>2
<1>3. IsFiniteSet(SUBSET A) /\ Cardinality(SUBSET A) = 2 ^ n
  BY <1>1, FS_SUBSET, Zenon
<1>4. Cardinality(SUBSET (A \cup {new})) = 2 ^ (n + 1)
  BY <1>2, FS_SUBSET, Zenon
<1>5. ExistsBijection(SUBSET A, With)
  <2> DEFINE f == [B \in SUBSET A |-> B \cup {new}]
  <2>1. f \in [SUBSET A -> With]
    OBVIOUS
  <2>2. ASSUME NEW B \in SUBSET A, NEW C \in SUBSET A, f[B] = f[C]
        PROVE  B = C
    <3>1. new \notin A
      OBVIOUS
    <3> QED BY <2>2, <3>1
  <2>3. \A w \in With : \E B \in SUBSET A : f[B] = w
    OBVIOUS
  <2> HIDE DEF f
  <2>4. f \in Bijection(SUBSET A, With)
    BY <2>1, <2>2, <2>3 DEF Bijection, Injection, Surjection, IsInjective
  <2> QED BY <2>4 DEF ExistsBijection
<1>6. IsFiniteSet(With) /\ Cardinality(With) = 2 ^ n
  BY <1>3, <1>5, FS_Bijection
<1>7. SUBSET (A \cup {new}) = (SUBSET A) \cup With
  <2>1. ASSUME NEW B \in SUBSET (A \cup {new}), new \in B
        PROVE  B \in With
    <3>1. B \ {new} \in SUBSET A /\ B = (B \ {new}) \cup {new}
      BY <2>1
    <3> QED BY <3>1
  <2>2. ASSUME NEW B \in SUBSET (A \cup {new}), new \notin B
        PROVE  B \in SUBSET A
    BY <2>2
  <2>3. ASSUME NEW B \in With
        PROVE  B \in SUBSET (A \cup {new})
    OBVIOUS
  <2> HIDE DEF With, new
  <2> QED BY <2>1, <2>2, <2>3
<1>8. (SUBSET A) \cap With = {}
  <2>1. new \notin A
    OBVIOUS
  <2> QED BY <2>1
<1>9. 2 ^ (n + 1) = 2 ^ n + 2 ^ n
  <2> HIDE DEF A, With
  <2>1. Cardinality((SUBSET A) \cup With)
          = Cardinality(SUBSET A) + Cardinality(With) - Cardinality((SUBSET A) \cap With)
    BY <1>3, <1>6, FS_Union
  <2>2. 2 ^ n \in Nat
    BY <1>3, FS_CardinalityType
  <2>3. Cardinality({}) = 0
    BY FS_EmptySet
  <2>4. Cardinality((SUBSET A) \cup With) = 2 ^ (n + 1)
    BY <1>4, <1>7
  <2>5. Cardinality((SUBSET A) \cap With) = 0
    BY <1>8, <2>3
  <2> QED BY <1>3, <1>6, <2>1, <2>2, <2>4, <2>5
<1>10. 2 ^ n \in Nat /\ 2 ^ n # 0
  <2>1. Cardinality(SUBSET A) # 0
    <3>1. {} \in SUBSET A
      OBVIOUS
    <3> QED BY <1>3, <3>1, FS_EmptySet
  <2> QED BY <1>3, <2>1, FS_CardinalityType
<1>11. 2 ^ 0 = 1
  BY SMT
<1> QED BY <1>9, <1>10, <1>11

\* Powers of two multiply by adding their exponents.
LEMMA PowerSum ==
    ASSUME NEW a \in Nat, NEW b \in Nat
    PROVE  2 ^ (a + b) = 2 ^ a * 2 ^ b
<1> DEFINE S == {n \in Nat : 2 ^ (a + n) = 2 ^ a * 2 ^ n}
<1>1. 0 \in S
  BY DoublePower
<1>2. ASSUME NEW n \in Nat, n \in S
      PROVE  n + 1 \in S
  <2>1. 2 ^ (a + n) = 2 ^ a * 2 ^ n
    BY <1>2
  <2>2. 2 ^ ((a + n) + 1) = 2 * 2 ^ (a + n)
    <3> a + n \in Nat
      OBVIOUS
    <3> QED BY DoublePower
  <2>3. 2 ^ (n + 1) = 2 * 2 ^ n /\ 2 ^ n \in Nat
    BY DoublePower
  <2>4. 2 ^ a \in Nat
    BY DoublePower
  <2>5. ASSUME NEW x \in Nat, NEW y \in Nat
        PROVE  2 * (x * y) = x * (2 * y)
    BY SMT
  <2>6. (a + n) + 1 = a + (n + 1)
    OBVIOUS
  <2>7. 2 ^ (a + (n + 1)) = 2 ^ a * 2 ^ (n + 1)
    BY <2>1, <2>2, <2>3, <2>4, <2>5, <2>6
  <2> QED BY <2>7
<1>3. Nat \subseteq S
  <2> HIDE DEF S
  <2> QED BY <1>1, <1>2, InductionOnSets
<1> QED BY <1>3

\* A higher power of two is a multiple of a lower one.
LEMMA PowerGrows ==
    ASSUME NEW a \in Nat, NEW b \in Nat, a <= b
    PROVE  /\ 2 ^ a <= 2 ^ b
           /\ \E k \in Nat \ {0} : 2 ^ b = 2 ^ a * k
<1>1. b - a \in Nat /\ a + (b - a) = b
  OBVIOUS
<1>2. 2 ^ b = 2 ^ a * 2 ^ (b - a)
  BY <1>1, PowerSum
<1>3. 2 ^ a \in Nat \ {0} /\ 2 ^ (b - a) \in Nat \ {0}
  BY <1>1, DoublePower
<1>4. ASSUME NEW x \in Nat \ {0}, NEW k \in Nat \ {0}
      PROVE  x <= x * k
  BY SMT
<1> QED BY <1>2, <1>3, <1>4

\* Half of the values of some bits are negative.
LEMMA HalfPower ==
    ASSUME NEW b \in Nat \ {0}
    PROVE  /\ 2 ^ (b - 1) \in Nat \ {0} /\ 2 ^ b \in Nat \ {0}
           /\ 2 ^ b = 2 ^ (b - 1) + 2 ^ (b - 1)
<1>1. b - 1 \in Nat /\ (b - 1) + 1 = b
  OBVIOUS
<1>2. 2 ^ (b - 1) \in Nat \ {0} /\ 2 ^ ((b - 1) + 1) = 2 * 2 ^ (b - 1)
  BY <1>1, DoublePower
<1>3. PICK h : h = 2 ^ (b - 1)
  OBVIOUS
<1>4. 2 ^ b = 2 * h /\ h \in Nat \ {0}
  BY <1>1, <1>2, <1>3
<1> QED BY <1>3, <1>4

\* Division by a positive number, which the remainder stays below.
LEMMA DivMod ==
    ASSUME NEW x \in Int, NEW M \in Nat \ {0}
    PROVE  /\ x \div M \in Int /\ x % M \in 0..(M - 1)
           /\ x = M * (x \div M) + (x % M)
BY SMT

\* A recursive function over 0..n exists, whatever one step T is.
IsStep(T, n, D)     == T \in [(1..n) \X D -> D]
Runs(g, n, D, a, T) == /\ g \in [0..n -> D] /\ g[0] = a
                       /\ \A i \in 1..n : g[i] = T[<<i, g[i - 1]>>]

\* It does, by induction on n.
LEMMA Iterates ==
    ASSUME NEW n \in Nat, NEW D, NEW a \in D, NEW T, IsStep(T, n, D)
    PROVE  \E g : Runs(g, n, D, a, T)
<1> DEFINE S == {m \in Nat : m <= n => \E g : Runs(g, m, D, a, T)}
<1>1. 0 \in S
  <2>1. Runs([i \in 0..0 |-> a], 0, D, a, T)
    BY DEF Runs
  <2> QED BY <2>1
<1>2. ASSUME NEW m \in Nat, m \in S
      PROVE  m + 1 \in S
  <2>1. SUFFICES ASSUME m + 1 <= n
                 PROVE  \E g : Runs(g, m + 1, D, a, T)
    OBVIOUS
  <2>2. PICK g : Runs(g, m, D, a, T)
    BY <1>2, <2>1
  <2> DEFINE h == [i \in 0..(m + 1) |-> IF i <= m THEN g[i] ELSE T[<<m + 1, g[m]>>]]
  <2>3. T[<<m + 1, g[m]>>] \in D
    <3>1. g[m] \in D /\ m + 1 \in 1..n
      BY <2>1, <2>2 DEF Runs
    <3> QED BY <3>1 DEF IsStep
  <2>4. h \in [0..(m + 1) -> D] /\ h[0] = a
    BY <2>2, <2>3 DEF Runs
  <2>5. ASSUME NEW i \in 1..(m + 1)
        PROVE  h[i] = T[<<i, h[i - 1]>>]
    <3>1. CASE i \in 1..m
      BY <2>2, <3>1 DEF Runs
    <3>2. CASE i = m + 1
      <4>1. m \in 0..(m + 1) /\ m + 1 \in 0..(m + 1) /\ (m + 1) - 1 = m /\ ~(m + 1 <= m)
        OBVIOUS
      <4>2. h[m] = g[m] /\ h[m + 1] = T[<<m + 1, g[m]>>]
        BY <4>1
      <4> HIDE DEF h
      <4> QED BY <3>2, <4>1, <4>2
    <3> QED BY <3>1, <3>2
  <2> HIDE DEF h
  <2>6. Runs(h, m + 1, D, a, T)
    BY <2>4, <2>5 DEF Runs
  <2> QED BY <2>6
<1>3. n \in S
  <2> HIDE DEF S
  <2> QED BY <1>1, <1>2, InductionOnSets
<1> QED BY <1>3

-----------------------------------------------------------------------------
(***************************************************************************)
(* WebAssembly: the numbers.                                               *)
(***************************************************************************)
LEMMA WasmWidths ==
    /\ Group \in Nat \ {0} /\ WordBytes \in Nat \ {0} /\ LongBytes \in Nat \ {0}
    /\ ByteBits \in Nat \ {0} /\ WordBits \in Nat \ {0} /\ LongBits \in Nat \ {0}
    /\ ByteBits <= WordBits /\ WordBits <= LongBits - 1 /\ LongBits - 1 \in Nat
<1>1. Group \in Nat \ {0} /\ WordBytes \in Nat \ {0} /\ LongBytes \in Nat \ {0}
      /\ WordBytes < LongBytes
  BY WasmAssumption, RangesAssumption
<1>2. ByteBits \in Nat \ {0} /\ WordBits = WordBytes * ByteBits /\ LongBits = LongBytes * ByteBits
  BY <1>1 DEF ByteBits, WordBits, LongBits
<1>3. ASSUME NEW a \in Nat \ {0}, NEW b \in Nat \ {0}, NEW w \in Nat \ {0}, a < b
      PROVE  /\ w <= a * w /\ a * w + w <= b * w
             /\ a * w \in Nat \ {0} /\ b * w \in Nat \ {0}
  <2>1. b = a + (b - a) /\ b - a \in Nat \ {0} /\ a = 1 + (a - 1) /\ a - 1 \in Nat
    BY <1>3
  <2>2. \A x \in Nat, y \in Nat : x * y \in Nat /\ (x + y) * w = x * w + y * w /\ (1 + x) * w = w + x * w
    BY SMT
  <2>3. a * w = w + (a - 1) * w /\ b * w = a * w + (b - a) * w
    BY <2>1, <2>2
  <2>4. b - a = 1 + (b - a - 1) /\ b - a - 1 \in Nat
    BY <2>1
  <2>5. (b - a) * w = w + (b - a - 1) * w
    BY <2>2, <2>4
  <2>6. (a - 1) * w \in Nat /\ (b - a - 1) * w \in Nat
    BY <2>1, <2>2, <2>4
  <2> HIDE DEF WordBits
  <2> QED BY <2>3, <2>5, <2>6
<1>4. ByteBits <= WordBits /\ WordBits + ByteBits <= LongBits
      /\ WordBits \in Nat \ {0} /\ LongBits \in Nat \ {0}
  BY <1>1, <1>2, <1>3
<1> QED BY <1>1, <1>2, <1>4

\* What a power is, by the name the codecs have for it.
LEMMA Pow2Is ==
    ASSUME NEW n \in Nat
    PROVE  /\ Pow2(n) \in Nat \ {0} /\ Pow2(0) = 1 /\ Pow2(n + 1) = 2 * Pow2(n)
           /\ \A m \in Nat : /\ n <= m => Pow2(n) <= Pow2(m)
                             /\ Pow2(n + m) = Pow2(n) * Pow2(m)
BY DoublePower, PowerSum, PowerGrows DEF Pow2

\* What a long can hold: any number of fewer bits.
LEMMA LongsAre ==
    /\ Longs \subseteq Int /\ 0 \in Longs
    /\ \A x \in Int : x \in Longs <=> FitsSigned(x, LongBits)
    /\ \A n \in 0..(LongBits - 1) : \A x \in Nat : x < Pow2(n) => x \in Longs
<1>1. LongBits - 1 \in Nat
  BY WasmWidths
<1>2. PICK H \in Nat \ {0} : H = Pow2(LongBits - 1)
  BY <1>1, Pow2Is
<1>3. ASSUME NEW n \in 0..(LongBits - 1)
      PROVE  Pow2(n) \in Nat /\ Pow2(n) <= H
  BY <1>1, <1>2, Pow2Is
<1>4. Longs = (-H)..(H - 1) /\ \A x \in Int : FitsSigned(x, LongBits) <=> -H <= x /\ x < H
  BY <1>2 DEF Longs, FitsSigned
<1> QED BY <1>2, <1>3, <1>4

\* A number of some bits with its sign.
LEMMA SignedIsLong ==
    ASSUME NEW x \in Int, NEW b \in 1..LongBits
    PROVE  Signed(x, b) \in Longs
<1>1. b \in Nat \ {0} /\ LongBits \in Nat \ {0}
  BY WasmWidths
<1>2. PICK H \in Nat \ {0} : H = Pow2(b - 1) /\ Pow2(b) = H + H
  BY <1>1, HalfPower DEF Pow2
<1>3. x % (H + H) \in 0..(H + H - 1)
  <2>1. H + H \in Nat \ {0}
    OBVIOUS
  <2>2. \A M \in Nat \ {0} : x % M \in 0..(M - 1)
    BY DivMod
  <2> QED BY <2>1, <2>2
<1>4. Signed(x, b) \in Int /\ -H <= Signed(x, b) /\ Signed(x, b) < H
  <2>1. PICK r : r = x % (H + H)
    OBVIOUS
  <2>2. Signed(x, b) = IF r >= H THEN r - (H + H) ELSE r
    BY <1>2, <2>1 DEF Signed, Wrap
  <2>3. r \in 0..(H + H - 1)
    BY <1>3, <2>1
  <2> QED BY <2>2, <2>3
<1>5. H <= Pow2(LongBits - 1) /\ Pow2(LongBits - 1) \in Nat
  <2>1. b - 1 \in Nat /\ LongBits - 1 \in Nat /\ b - 1 <= LongBits - 1
    BY <1>1
  <2> QED BY <1>2, <2>1, Pow2Is
<1> QED BY <1>4, <1>5 DEF Longs

\* Enough groups for all the bits.
LEMMA MaxLebIs ==
    ASSUME NEW bits \in Nat \ {0}
    PROVE  /\ MaxLeb(bits) \in Nat \ {0}
           /\ Group * MaxLeb(bits) \in Nat /\ bits <= Group * MaxLeb(bits)
<1>1. Group \in Nat \ {0}
  BY WasmWidths
<1>2. PICK q : q = MaxLeb(bits)
  OBVIOUS
<1>3. q = (bits + Group - 1) \div Group
  BY <1>2 DEF MaxLeb
<1>4. PICK r : r = (bits + Group - 1) % Group
  OBVIOUS
<1>5. q \in Int /\ r \in 0..(Group - 1) /\ bits + Group - 1 = Group * q + r
  <2>1. bits + Group - 1 \in Int
    BY <1>1
  <2> QED BY <1>1, <1>3, <1>4, <2>1, DivMod
<1>6. Group * q \in Int
  BY <1>1, <1>5
<1>7. bits <= Group * q
  BY <1>1, <1>5, <1>6
<1>8. q > 0
  <2>1. \A x \in Nat, y \in Int : y <= 0 => x * y <= 0
    BY SMT
  <2> QED BY <1>1, <1>5, <1>6, <1>7, <2>1
<1> QED BY <1>2, <1>5, <1>6, <1>7, <1>8

\* A word and a long end within the bytes they may have.
LEMMA UlebSizeIs ==
    ASSUME NEW x \in 0..(Pow2(WordBits) - 1)
    PROVE  UlebSize(x) \in Nat \ {0}
<1> DEFINE top  == MaxLeb(WordBits)
           fits == {n \in 1..top : x < Pow2(Group * n)}
<1>1. top \in Nat \ {0} /\ Group * top \in Nat /\ WordBits <= Group * top /\ WordBits \in Nat
  BY WasmWidths, MaxLebIs
<1>2. Pow2(WordBits) <= Pow2(Group * top) /\ Pow2(WordBits) \in Nat /\ Pow2(Group * top) \in Nat
  BY <1>1, Pow2Is
<1> HIDE DEF top
<1>3. top \in fits
  BY <1>1, <1>2
<1>4. fits \subseteq Nat \ {0} /\ fits # {}
  BY <1>3
<1>5. UlebSize(x) = LeastOf(fits)
  BY DEF UlebSize, top
<1> HIDE DEF fits
<1> QED BY <1>4, <1>5, LeastIs

LEMMA SlebSizeIs ==
    ASSUME NEW x \in Longs
    PROVE  SlebSize(x) \in Nat \ {0}
<1> DEFINE top  == MaxLeb(LongBits)
           fits == {n \in 1..top : FitsSigned(x, Group * n)}
<1>1. top \in Nat \ {0} /\ Group * top \in Nat /\ LongBits <= Group * top
      /\ LongBits \in Nat \ {0}
  BY WasmWidths, MaxLebIs
<1>2. Group * top - 1 \in Nat /\ LongBits - 1 \in Nat /\ LongBits - 1 <= Group * top - 1
  <2> HIDE DEF top
  <2> QED BY <1>1
<1>3. Pow2(LongBits - 1) <= Pow2(Group * top - 1) /\ Pow2(LongBits - 1) \in Nat
      /\ Pow2(Group * top - 1) \in Nat
  BY <1>2, Pow2Is
<1>4. x \in Int /\ -Pow2(LongBits - 1) <= x /\ x < Pow2(LongBits - 1)
  BY <1>3 DEF Longs
<1>5. FitsSigned(x, Group * top)
  BY <1>3, <1>4 DEF FitsSigned
<1> HIDE DEF top
<1>6. fits \subseteq Nat \ {0} /\ fits # {}
  BY <1>1, <1>5
<1>7. SlebSize(x) = LeastOf(fits)
  BY DEF SlebSize, top
<1> HIDE DEF fits
<1> QED BY <1>6, <1>7, LeastIs

\* The operand in the code is as long as its size was computed to be.
LEMMA WriteLebIs ==
    ASSUME NEW x \in Int, NEW n \in Nat
    PROVE  WriteLeb(x, n) \in Seq(Int) /\ Len(WriteLeb(x, n)) = n
<1>1. More \in Nat \ {0}
  BY WasmWidths, Pow2Is DEF More
<1>2. ASSUME NEW k \in 1..n
      PROVE  ((x \div Pow2(Group * (k - 1))) % More) + (IF k < n THEN More ELSE 0) \in Int
  <2>1. Group * (k - 1) \in Nat
    BY WasmWidths
  <2>2. Pow2(Group * (k - 1)) \in Nat \ {0}
    BY <2>1, Pow2Is
  <2>3. x \div Pow2(Group * (k - 1)) \in Int
    BY <2>2, DivMod
  <2>4. (x \div Pow2(Group * (k - 1))) % More \in Int
    BY <1>1, <2>3, DivMod
  <2> QED BY <1>1, <2>4
<1>3. WriteLeb(x, n) \in [1..n -> Int]
  BY <1>2 DEF WriteLeb
<1> HIDE DEF More
<1> QED BY <1>3

\* A number of fixed width has as many bytes as it was asked for.
LEMMA WriteBytesIs ==
    ASSUME NEW x \in Int, NEW n \in Nat
    PROVE  WriteBytes(x, n) \in Seq(Int) /\ Len(WriteBytes(x, n)) = n
<1>1. Pow2(ByteBits) \in Nat \ {0}
  BY WasmWidths, Pow2Is
<1>2. ASSUME NEW k \in 1..n
      PROVE  (x \div Pow2(ByteBits * (k - 1))) % Pow2(ByteBits) \in Int
  <2>1. ByteBits * (k - 1) \in Nat
    BY WasmWidths
  <2>2. Pow2(ByteBits * (k - 1)) \in Nat \ {0}
    BY <2>1, Pow2Is
  <2>3. x \div Pow2(ByteBits * (k - 1)) \in Int
    BY <2>2, DivMod
  <2> QED BY <1>1, <2>3, DivMod
<1>3. WriteBytes(x, n) \in [1..n -> Int]
  BY <1>2 DEF WriteBytes
<1> QED BY <1>3

\* An operand that is encodable is written with the size computed for it.
LEMMA OperandFits ==
    ASSUME NEW c \in WasmCodes, NEW x \in Longs, Encodable(c, x)
    PROVE  /\ OperandSize(c, x) \in Nat
           /\ WriteOperand(c, x) \in Seq(Int)
           /\ Len(WriteOperand(c, x)) = OperandSize(c, x)
<1>1. x \in Int
  BY LongsAre
<1>2. CASE c \in {"BLOCKTYPE", "BYTE"}
  BY <1>1, <1>2, WriteBytesIs DEF OperandSize, WriteOperand
<1>3. CASE c \in {"INDEX", "ULEB"}
  <2>1. x \in 0..(Pow2(WordBits) - 1)
    <3>1. Pow2(WordBits) \in Nat
      BY WasmWidths, Pow2Is
    <3>2. FitsUnsigned(x, WordBits)
      BY <1>3 DEF Encodable
    <3> QED BY <1>1, <3>1, <3>2 DEF FitsUnsigned
  <2>2. UlebSize(x) \in Nat
    BY <2>1, UlebSizeIs
  <2> QED BY <1>1, <1>3, <2>2, WriteLebIs DEF OperandSize, WriteOperand, WriteUleb
<1>4. CASE c \in {"SLEB32", "SLEB64"}
  <2>1. SlebSize(x) \in Nat
    BY SlebSizeIs
  <2> QED BY <1>1, <1>4, <2>1, WriteLebIs DEF OperandSize, WriteOperand, WriteSleb
<1>5. CASE c \in {"F32", "F64"}
  BY <1>1, <1>5, WriteBytesIs, WasmWidths DEF OperandSize, WriteOperand
<1> QED BY <1>2, <1>3, <1>4, <1>5 DEF WasmCodes

-----------------------------------------------------------------------------
(***************************************************************************)
(* WebAssembly: an instruction is as long as its size was computed to be,  *)
(* and one that was decoded has numbers the encoder can take.              *)
(***************************************************************************)
LEMMA WasmArgumentIs ==
    ASSUME NEW rec, NEW inst, inst.ops \in Seq(WasmOperands), NEW i \in Nat \ {0}
    PROVE  WasmArgument(rec, inst, i) \in Longs
<1>1. EmptyBlock \in Longs
  <2>1. Group - 1 \in Nat /\ Group \in Nat /\ Group - 1 < Group /\ Group \in 0..(LongBits - 1)
    <3>1. Group < ByteBits
      BY WasmWidths DEF ByteBits
    <3> QED BY <3>1, WasmWidths
  <2>2. Pow2(Group) = Pow2(Group - 1) + Pow2(Group - 1) /\ Pow2(Group - 1) \in Nat \ {0}
    BY HalfPower, WasmWidths DEF Pow2
  <2>3. Pow2(Group - 1) < Pow2(Group)
    BY <2>2
  <2> QED BY <2>1, <2>2, <2>3, LongsAre DEF EmptyBlock
<1>2. ASSUME i <= Len(inst.ops) PROVE inst.ops[i].imm \in Longs
  <2>1. inst.ops[i] \in WasmOperands
    BY <1>2
  <2> QED BY <2>1 DEF WasmOperands
<1> QED BY <1>1, <1>2, LongsAre DEF WasmArgument

\* The prefix is a byte and the opcode behind it a number.
LEMMA OpcodeFits ==
    ASSUME NEW rec, rec.prefix \in Nat, rec.opcode \in 0..(Pow2(WordBits) - 1)
    PROVE  /\ OpcodeBytes(rec) \in Seq(Int)
           /\ Len(OpcodeBytes(rec)) = IF rec.prefix # 0 THEN 1 + UlebSize(rec.opcode) ELSE 1
           /\ UlebSize(rec.opcode) \in Nat
<1>1. rec.opcode \in Int /\ UlebSize(rec.opcode) \in Nat
  <2>1. rec.opcode \in Int
    OBVIOUS
  <2> QED BY <2>1, UlebSizeIs
<1>2. WriteUleb(rec.opcode) \in Seq(Int) /\ Len(WriteUleb(rec.opcode)) = UlebSize(rec.opcode)
  BY <1>1, WriteLebIs DEF WriteUleb
<1>3. <<rec.prefix>> \in Seq(Int) /\ Len(<<rec.prefix>>) = 1
      /\ <<rec.opcode>> \in Seq(Int) /\ Len(<<rec.opcode>>) = 1
  BY <1>1
<1>4. \A s \in Seq(Int), t \in Seq(Int) : s \o t \in Seq(Int) /\ Len(s \o t) = Len(s) + Len(t)
  BY ConcatProperties
<1> QED BY <1>1, <1>2, <1>3, <1>4 DEF OpcodeBytes

\* The sum of the sizes is the length of what is written, piece by piece.
LEMMA WasmFits ==
    ASSUME NEW at \in DOMAIN WasmRecords, NEW inst, inst.ops \in Seq(WasmOperands),
           \A i \in DOMAIN WasmRecords[at].codes :
              Encodable(WasmRecords[at].codes[i], WasmArgument(WasmRecords[at], inst, i))
    PROVE  LET rec == WasmRecords[at]
           IN  /\ WasmSize(rec, inst) \in Nat
               /\ WasmBytes(rec, inst) \in Seq(Int)
               /\ Len(WasmBytes(rec, inst)) = WasmSize(rec, inst)
<1> DEFINE rec      == WasmRecords[at]
           n        == Len(rec.codes)
           size(i)  == OperandSize(rec.codes[i], WasmArgument(rec, inst, i))
           piece(i) == WriteOperand(rec.codes[i], WasmArgument(rec, inst, i))
           first    == IF rec.prefix # 0 THEN 1 + UlebSize(rec.opcode) ELSE 1
           Sums(f)  == [i \in 0..n |-> IF i = 0 THEN first ELSE f[i - 1] + size(i)]
           head     == OpcodeBytes(rec)
           put(s, i) == s \o piece(i)
           Outs(f)  == [i \in 0..n |-> IF i = 0 THEN head ELSE put(f[i - 1], i)]
<1>1. rec.codes \in Seq(WasmCodes) /\ rec.prefix \in Nat
      /\ rec.opcode \in 0..(Pow2(WordBits) - 1)
  BY RangesAssumption
<1>2. n \in Nat
  BY <1>1
<1>3. ASSUME NEW i \in 1..n
      PROVE  size(i) \in Nat /\ piece(i) \in Seq(Int) /\ Len(piece(i)) = size(i)
  <2>1. rec.codes[i] \in WasmCodes /\ i \in DOMAIN rec.codes /\ i \in Nat \ {0}
    BY <1>1
  <2>2. WasmArgument(rec, inst, i) \in Longs
    BY <2>1, WasmArgumentIs
  <2> QED BY <2>1, <2>2, OperandFits
<1>3a. ASSUME NEW i \in 1..n, NEW s \in Seq(Int)
       PROVE  put(s, i) \in Seq(Int) /\ Len(put(s, i)) = Len(s) + size(i)
  <2>1. size(i) \in Nat /\ piece(i) \in Seq(Int) /\ Len(piece(i)) = size(i)
    BY <1>3
  <2> HIDE DEF piece, size
  <2> QED BY <2>1, ConcatProperties
<1>4. first \in Nat /\ head \in Seq(Int) /\ Len(head) = first
  <2> HIDE DEF rec
  <2> QED BY <1>1, OpcodeFits
<1>5. WasmSize(rec, inst) = (CHOOSE f : f = Sums(f))[n]
  BY DEF WasmSize
<1>6. WasmBytes(rec, inst) = (CHOOSE f : f = Outs(f))[n]
  BY DEF WasmBytes
<1> HIDE DEF rec, n, size, first, head, put
<1>7. \E f : f = Sums(f)
  <2> DEFINE T == [p \in (1..n) \X Nat |-> p[2] + size(p[1])]
  <2>1. IsStep(T, n, Nat)
    BY <1>3 DEF IsStep
  <2>2. \A i \in 1..n, x \in Nat : T[<<i, x>>] = x + size(i)
    OBVIOUS
  <2> HIDE DEF T
  <2>3. PICK g : Runs(g, n, Nat, first, T)
    BY <1>2, <1>4, <2>1, Iterates
  <2>4. ASSUME NEW i \in 1..n PROVE g[i] = g[i - 1] + size(i)
    <3>1. i - 1 \in 0..n
      BY <1>2
    <3>2. g[i - 1] \in Nat
      BY <3>1, <2>3 DEF Runs
    <3> QED BY <2>2, <2>3, <3>2 DEF Runs
  <2>5. g = Sums(g)
    BY <1>2, <2>3, <2>4 DEF Runs
  <2> QED BY <2>5
<1>8. \E f : f = Outs(f)
  <2> DEFINE T == [p \in (1..n) \X Seq(Int) |-> put(p[2], p[1])]
  <2>1. IsStep(T, n, Seq(Int))
    BY <1>3a DEF IsStep
  <2>2. \A i \in 1..n, x \in Seq(Int) : T[<<i, x>>] = put(x, i)
    OBVIOUS
  <2> HIDE DEF T
  <2>3. PICK g : Runs(g, n, Seq(Int), head, T)
    BY <1>2, <1>4, <2>1, Iterates
  <2>4. ASSUME NEW i \in 1..n PROVE g[i] = put(g[i - 1], i)
    <3>1. i - 1 \in 0..n
      BY <1>2
    <3>2. g[i - 1] \in Seq(Int)
      BY <3>1, <2>3 DEF Runs
    <3> QED BY <2>2, <2>3, <3>2 DEF Runs
  <2>5. g = Outs(g)
    BY <1>2, <2>3, <2>4 DEF Runs
  <2> QED BY <2>5
<1>9. PICK sum : sum = (CHOOSE f : f = Sums(f)) /\ sum = Sums(sum)
  <2> HIDE DEF Sums
  <2> QED BY <1>7
<1>10. PICK out : out = (CHOOSE f : f = Outs(f)) /\ out = Outs(out)
  <2> HIDE DEF Outs
  <2> QED BY <1>8
<1> DEFINE S == {i \in Nat : i <= n => /\ sum[i] \in Nat
                                       /\ out[i] \in Seq(Int) /\ Len(out[i]) = sum[i]}
<1>11. 0 \in S
  <2>1. sum[0] = first
    BY <1>2, <1>9
  <2>2. out[0] = head
    <3>1. 0 \in 0..n
      BY <1>2
    <3>2. \A i \in 0..n : out[i] = IF i = 0 THEN head ELSE put(out[i - 1], i)
      BY <1>10, Zenon
    <3> QED BY <3>1, <3>2, Zenon
  <2> QED BY <1>4, <2>1, <2>2
<1>12. ASSUME NEW i \in Nat, i \in S
       PROVE  i + 1 \in S
  <2>1. SUFFICES ASSUME i + 1 <= n
                 PROVE  sum[i + 1] \in Nat /\ out[i + 1] \in Seq(Int) /\ Len(out[i + 1]) = sum[i + 1]
    OBVIOUS
  <2>2. i + 1 \in 0..n /\ i + 1 \in 1..n /\ i + 1 # 0 /\ (i + 1) - 1 = i /\ i <= n
    BY <1>2, <2>1
  <2>3. sum[i + 1] = sum[i] + size(i + 1)
    BY <1>9, <2>2
  <2>4. out[i + 1] = put(out[i], i + 1)
    BY <1>10, <2>2
  <2>5. sum[i] \in Nat /\ out[i] \in Seq(Int) /\ Len(out[i]) = sum[i]
    BY <1>12, <2>2
  <2>6. size(i + 1) \in Nat
    BY <1>3, <2>2
  <2>7. put(out[i], i + 1) \in Seq(Int) /\ Len(put(out[i], i + 1)) = Len(out[i]) + size(i + 1)
    BY <1>3a, <2>2, <2>5
  <2> HIDE DEF Sums, Outs
  <2> QED BY <2>3, <2>4, <2>5, <2>6, <2>7
<1>13. n \in S
  <2> HIDE DEF S
  <2> QED BY <1>2, <1>11, <1>12, InductionOnSets
<1>14. sum[n] \in Nat /\ out[n] \in Seq(Int) /\ Len(out[n]) = sum[n]
  BY <1>2, <1>13
<1> QED BY <1>5, <1>6, <1>9, <1>10, <1>14 DEF rec

\* Code as it is read: no byte but the first is larger than a byte.
Code(code) == /\ code \in Seq(Nat)
              /\ \A k \in 2..Len(code) : code[k] < Pow2(ByteBits)

\* Reading stays within the code, and a number that was read fits its type.
LEMMA LebLengthIs ==
    ASSUME NEW code, NEW off, NEW bits \in Nat \ {0}
    PROVE  LET n == LebLength(code, off, bits)
           IN  n = 0 \/ (n \in Nat \ {0} /\ off + n <= Len(code))
<1> DEFINE last == {n \in 1..MaxLeb(bits) :
                      /\ off + n <= Len(code)
                      /\ code[off + n] < More
                      /\ \A k \in 1..(n - 1) : code[off + k] >= More}
<1>1. LebLength(code, off, bits) = IF last = {} THEN 0 ELSE LeastOf(last)
  BY DEF LebLength
<1>2. last \subseteq Nat \ {0} /\ \A n \in last : off + n <= Len(code)
  <2>1. MaxLeb(bits) \in Nat
    BY MaxLebIs
  <2>2. last \subseteq 1..MaxLeb(bits)
    OBVIOUS
  <2>3. \A n \in last : off + n <= Len(code)
    OBVIOUS
  <2> HIDE DEF last
  <2> QED BY <2>1, <2>2, <2>3
<1> HIDE DEF last
<1>3. last # {} => LeastOf(last) \in last
  BY <1>2, LeastIs
<1> QED BY <1>1, <1>2, <1>3

LEMMA LebPayloadIs ==
    ASSUME NEW code, Code(code), NEW off \in Nat, NEW n \in Nat, off + n <= Len(code)
    PROVE  LebPayload(code, off, n) \in Int
<1> DEFINE term(k) == (code[off + k] % More) * Pow2(Group * (k - 1))
           Sums(f) == [k \in 0..n |-> IF k = 0 THEN 0 ELSE f[k - 1] + term(k)]
<1>1. \A k \in 1..n : term(k) \in Int
  <2> SUFFICES ASSUME NEW k \in 1..n PROVE term(k) \in Int
    OBVIOUS
  <2>1. PICK c \in Int : c = code[off + k]
    <3>1. off + k \in 1..Len(code) /\ code \in Seq(Nat)
      BY DEF Code
    <3>2. code[off + k] \in Nat
      BY <3>1
    <3> QED BY <3>2
  <2>2. More \in Nat \ {0}
    BY WasmWidths, Pow2Is DEF More
  <2>3. Group * (k - 1) \in Nat
    BY WasmWidths
  <2>4. Pow2(Group * (k - 1)) \in Nat
    BY <2>3, Pow2Is
  <2>5. \A x \in Int, M \in Nat \ {0} : x % M \in Int
    BY DivMod
  <2>6. c % More \in Int
    BY <2>1, <2>2, <2>5
  <2>7. \A x \in Int, y \in Nat : x * y \in Int
    OBVIOUS
  <2> QED BY <2>1, <2>4, <2>6, <2>7
<1>2. LebPayload(code, off, n) = (CHOOSE f : f = Sums(f))[n]
  BY DEF LebPayload
<1> HIDE DEF term
<1>3. \E f : f = Sums(f)
  <2> DEFINE T == [p \in (1..n) \X Int |-> p[2] + term(p[1])]
  <2>1. IsStep(T, n, Int)
    BY <1>1 DEF IsStep
  <2>2. \A k \in 1..n, x \in Int : T[<<k, x>>] = x + term(k)
    OBVIOUS
  <2> HIDE DEF T
  <2>3. PICK g : Runs(g, n, Int, 0, T)
    <3>1. 0 \in Int
      OBVIOUS
    <3> QED BY <2>1, <3>1, Iterates, Zenon
  <2>4. ASSUME NEW k \in 1..n PROVE g[k] = g[k - 1] + term(k)
    <3>1. k - 1 \in 0..n
      OBVIOUS
    <3>2. g[k - 1] \in Int
      BY <3>1, <2>3 DEF Runs
    <3> QED BY <2>2, <2>3, <3>2 DEF Runs
  <2>5. g = Sums(g)
    BY <2>3, <2>4 DEF Runs
  <2> QED BY <2>5
<1>4. PICK sum : sum = (CHOOSE f : f = Sums(f)) /\ sum = Sums(sum)
  <2> HIDE DEF Sums
  <2> QED BY <1>3
<1> DEFINE S == {k \in Nat : k <= n => sum[k] \in Int}
<1>5. 0 \in S
  BY <1>4
<1>6. ASSUME NEW k \in Nat, k \in S
      PROVE  k + 1 \in S
  <2>1. SUFFICES ASSUME k + 1 <= n PROVE sum[k + 1] \in Int
    OBVIOUS
  <2>2. k + 1 \in 0..n /\ k + 1 \in 1..n /\ k + 1 # 0 /\ (k + 1) - 1 = k /\ k <= n
    BY <2>1
  <2>3. sum[k + 1] = sum[(k + 1) - 1] + term(k + 1)
    BY <1>4, <2>2
  <2> QED BY <1>1, <1>6, <2>2, <2>3
<1>7. n \in S
  <2> HIDE DEF S
  <2> QED BY <1>5, <1>6, InductionOnSets
<1> QED BY <1>2, <1>4, <1>7

LEMMA ReadLebIs ==
    ASSUME NEW code, Code(code), NEW off \in Nat
    PROVE  /\ ReadUleb(code, off).ok \in BOOLEAN
           /\ ReadUleb(code, off).ok =>
                 /\ ReadUleb(code, off).next \in Nat \ {0}
                 /\ ReadUleb(code, off).value \in 0..(Pow2(WordBits) - 1)
           /\ ReadSleb(code, off).ok \in BOOLEAN
           /\ ReadSleb(code, off).ok =>
                 /\ ReadSleb(code, off).next \in Nat \ {0}
                 /\ ReadSleb(code, off).value \in Longs
<1>1. WordBits \in Nat \ {0} /\ LongBits \in Nat \ {0} /\ Group \in Nat \ {0}
  BY WasmWidths
<1>2. PICK n : n = LebLength(code, off, WordBits)
  OBVIOUS
<1>3. n # 0 => /\ n \in Nat \ {0}
               /\ Wrap(LebPayload(code, off, n), WordBits) \in 0..(Pow2(WordBits) - 1)
  <2>1. SUFFICES ASSUME n # 0
                 PROVE  /\ n \in Nat \ {0}
                        /\ Wrap(LebPayload(code, off, n), WordBits) \in 0..(Pow2(WordBits) - 1)
    OBVIOUS
  <2>2. n \in Nat \ {0} /\ off + n <= Len(code)
    BY <1>1, <1>2, <2>1, LebLengthIs
  <2>3. LebPayload(code, off, n) \in Int /\ Pow2(WordBits) \in Nat \ {0}
    BY <1>1, <2>2, LebPayloadIs, Pow2Is
  <2> QED BY <2>2, <2>3, DivMod DEF Wrap
<1>4. PICK k : k = LebLength(code, off, LongBits)
  OBVIOUS
<1> DEFINE shift == IF Group * k < LongBits THEN Group * k ELSE LongBits
<1>5. k # 0 => k \in Nat \ {0} /\ Signed(LebPayload(code, off, k), shift) \in Longs
  <2>1. SUFFICES ASSUME k # 0
                 PROVE  k \in Nat \ {0} /\ Signed(LebPayload(code, off, k), shift) \in Longs
    OBVIOUS
  <2>2. k \in Nat \ {0} /\ off + k <= Len(code)
    BY <1>1, <1>4, <2>1, LebLengthIs
  <2>3. LebPayload(code, off, k) \in Int
    BY <1>1, <2>2, LebPayloadIs
  <2>4. Group * k \in Nat \ {0}
    <3>1. \A x \in Nat \ {0}, y \in Nat \ {0} : x * y \in Nat \ {0}
      BY SMT
    <3> QED BY <1>1, <2>2, <3>1
  <2>5. shift \in 1..LongBits
    BY <1>1, <2>4
  <2> HIDE DEF shift
  <2> QED BY <2>2, <2>3, <2>5, SignedIsLong
<1>6. ReadUleb(code, off) = IF n = 0 THEN NoRead
                            ELSE Read(TRUE, Wrap(LebPayload(code, off, n), WordBits), off + n)
  BY <1>2 DEF ReadUleb
<1>7. ReadSleb(code, off) = IF k = 0 THEN NoRead
                            ELSE Read(TRUE, Signed(LebPayload(code, off, k), shift), off + k)
  BY <1>4 DEF ReadSleb
<1> HIDE DEF shift
<1> QED BY <1>3, <1>5, <1>6, <1>7 DEF NoRead, Read

LEMMA ReadBytesIs ==
    ASSUME NEW code, Code(code), NEW off \in Nat \ {0}, NEW n \in Nat
    PROVE  /\ ReadBytes(code, off, n).ok \in BOOLEAN
           /\ ReadBytes(code, off, n).ok =>
                 /\ ReadBytes(code, off, n).next \in Nat \ {0}
                 /\ ReadBytes(code, off, n).value \in 0..(Pow2(ByteBits * n) - 1)
<1> DEFINE term(k) == code[off + k] * Pow2(ByteBits * (k - 1))
           Sums(f) == [k \in 0..n |-> IF k = 0 THEN 0 ELSE f[k - 1] + term(k)]
           all     == (CHOOSE f : f = Sums(f))[n]
<1>1. ReadBytes(code, off, n) = IF off + n > Len(code) THEN NoRead ELSE Read(TRUE, all, off + n)
  BY DEF ReadBytes
<1>2. Len(code) \in Nat
  BY DEF Code
<1>3. ASSUME off + n <= Len(code)
      PROVE  all \in 0..(Pow2(ByteBits * n) - 1)
  <2>1. \A k \in 1..n : /\ code[off + k] \in Nat /\ code[off + k] < Pow2(ByteBits)
                        /\ Pow2(ByteBits * (k - 1)) \in Nat \ {0}
                        /\ Pow2(ByteBits * k) = Pow2(ByteBits) * Pow2(ByteBits * (k - 1))
                        /\ Pow2(ByteBits) \in Nat \ {0}
    <3> SUFFICES ASSUME NEW k \in 1..n
                 PROVE  /\ code[off + k] \in Nat /\ code[off + k] < Pow2(ByteBits)
                        /\ Pow2(ByteBits * (k - 1)) \in Nat \ {0}
                        /\ Pow2(ByteBits * k) = Pow2(ByteBits) * Pow2(ByteBits * (k - 1))
                        /\ Pow2(ByteBits) \in Nat \ {0}
      OBVIOUS
    <3>1. ByteBits \in Nat /\ Pow2(ByteBits) \in Nat \ {0}
      BY WasmWidths, Pow2Is
    <3>2. off + k \in 2..Len(code) /\ off + k \in 1..Len(code)
      BY <1>2, <1>3
    <3>3. code[off + k] \in Nat /\ code[off + k] < Pow2(ByteBits)
      BY <3>2 DEF Code
    <3>4. \A b \in Nat : b * (k - 1) \in Nat /\ b * k = b + b * (k - 1)
      BY SMT
    <3>5. PICK e \in Nat : e = ByteBits * (k - 1) /\ ByteBits * k = ByteBits + e
      BY <3>1, <3>4
    <3>6. Pow2(e) \in Nat \ {0} /\ Pow2(ByteBits + e) = Pow2(ByteBits) * Pow2(e)
      BY <3>1, <3>5, Pow2Is
    <3> QED BY <3>1, <3>3, <3>5, <3>6
  <2>2. \A k \in 1..n : term(k) \in Nat
    <3> SUFFICES ASSUME NEW k \in 1..n PROVE term(k) \in Nat
      OBVIOUS
    <3>1. code[off + k] \in Nat
      BY <2>1
    <3>2. Pow2(ByteBits * (k - 1)) \in Nat
      BY <2>1
    <3>3. \A x \in Nat, y \in Nat : x * y \in Nat
      OBVIOUS
    <3> QED BY <3>1, <3>2, <3>3
  <2> HIDE DEF term
  <2>3. \E f : f = Sums(f)
    <3> DEFINE T == [p \in (1..n) \X Nat |-> p[2] + term(p[1])]
    <3>1. IsStep(T, n, Nat)
      BY <2>2 DEF IsStep
    <3>2. \A k \in 1..n, x \in Nat : T[<<k, x>>] = x + term(k)
      OBVIOUS
    <3> HIDE DEF T
    <3>3. PICK g : Runs(g, n, Nat, 0, T)
      BY <3>1, Iterates
    <3>4. ASSUME NEW k \in 1..n PROVE g[k] = g[k - 1] + term(k)
      <4>1. k - 1 \in 0..n
        OBVIOUS
      <4>2. g[k - 1] \in Nat
        BY <4>1, <3>3 DEF Runs
      <4> QED BY <3>2, <3>3, <4>2 DEF Runs
    <3>5. g = Sums(g)
      BY <3>3, <3>4 DEF Runs
    <3> QED BY <3>5
  <2>4. PICK sum : sum = (CHOOSE f : f = Sums(f)) /\ sum = Sums(sum)
    <3> HIDE DEF Sums
    <3> QED BY <2>3
  <2> DEFINE S == {k \in Nat : k <= n => sum[k] \in 0..(Pow2(ByteBits * k) - 1)}
  <2>5. 0 \in S
    <3>1. sum[0] = 0
      BY <2>4
    <3>2. ByteBits * 0 = 0
      BY WasmWidths
    <3>3. Pow2(0) = 1
      BY DoublePower DEF Pow2
    <3> QED BY <3>1, <3>2, <3>3
  <2>6. ASSUME NEW k \in Nat, k \in S
        PROVE  k + 1 \in S
    <3>1. SUFFICES ASSUME k + 1 <= n
                   PROVE  sum[k + 1] \in 0..(Pow2(ByteBits * (k + 1)) - 1)
      OBVIOUS
    <3>2. k + 1 \in 0..n /\ k + 1 \in 1..n /\ k + 1 # 0 /\ (k + 1) - 1 = k /\ k <= n
      BY <3>1
    <3>3. sum[k + 1] = sum[(k + 1) - 1] + term(k + 1)
      BY <2>4, <3>2
    <3>4. PICK p \in Nat \ {0} : p = Pow2(ByteBits * k)
      BY <2>1, <3>2
    <3>5. PICK b \in Nat \ {0} : b = Pow2(ByteBits) /\ Pow2(ByteBits * (k + 1)) = b * p
      BY <2>1, <3>2, <3>4
    <3>6. PICK c \in Nat : c < b /\ term(k + 1) = c * p
      BY <2>1, <3>2, <3>4, <3>5 DEF term
    <3>7. sum[k] \in 0..(p - 1)
      BY <2>6, <3>2, <3>4
    <3>8. c * p \in Nat /\ c * p + p <= b * p
      <4>1. \A x \in Nat, y \in Nat : x < y => x * p \in Nat /\ x * p + p <= y * p
        <5> SUFFICES ASSUME NEW x \in Nat, NEW y \in Nat, x < y
                     PROVE  x * p \in Nat /\ x * p + p <= y * p
          OBVIOUS
        <5>1. PICK z \in Nat : y = x + 1 + z
          <6>1. y - x - 1 \in Nat /\ y = x + 1 + (y - x - 1)
            OBVIOUS
          <6> QED BY <6>1
        <5>2. y * p = x * p + p + z * p /\ z * p \in Nat /\ x * p \in Nat
          BY <5>1, SMT
        <5> DEFINE u == x * p
                   w == z * p
        <5>3. y * p = u + p + w /\ u \in Nat /\ w \in Nat
          BY <5>2
        <5> HIDE DEF u, w
        <5>4. u + p <= u + p + w
          BY <5>3
        <5>5. u + p <= y * p
          BY <5>3, <5>4, Zenon
        <5> QED BY <5>3, <5>5, Zenon DEF u
      <4> QED BY <3>6, <4>1
    <3>9. sum[k + 1] = sum[k] + c * p
      BY <3>2, <3>3, <3>6
    <3> HIDE DEF Sums
    <3>10. b * p \in Nat
      OBVIOUS
    <3> QED BY <3>5, <3>7, <3>8, <3>9, <3>10
  <2>7. n \in S
    <3> HIDE DEF S
    <3> QED BY <2>5, <2>6, InductionOnSets
  <2> QED BY <2>4, <2>7
<1> HIDE DEF all
<1> QED BY <1>1, <1>2, <1>3 DEF NoRead, Read

LEMMA ReadOperandIs ==
    ASSUME NEW c \in WasmCodes, NEW code, Code(code), NEW off \in Nat \ {0}
    PROVE  LET r == ReadOperand(c, code, off)
           IN  r.ok \in BOOLEAN /\ (r.ok => r.next \in Nat \ {0} /\ Decoded(c, r.value) \in WasmOperands)
<1>1. /\ ByteBits \in 1..LongBits /\ LongBits \in 1..LongBits
      /\ ByteBits \in 0..(LongBits - 1) /\ WordBits \in 0..(LongBits - 1)
      /\ ByteBits * 1 = ByteBits
  BY WasmWidths
<1>2. ByteBits * WordBytes = WordBits /\ ByteBits * LongBytes = LongBits
  BY WasmWidths DEF WordBits, LongBits
<1>3. Pow2(ByteBits) \in Nat /\ Pow2(WordBits) \in Nat /\ Pow2(LongBits) \in Nat
  BY WasmWidths, Pow2Is
<1>4. ASSUME NEW kind \in {"BLOCKTYPE", "INDEX", "IMM"}, NEW x \in Longs, NEW w \in {0, 8, 32, 64}
      PROVE  WasmOperand(kind, x, w) \in WasmOperands
  <2>1. kind \in OpKinds
    BY DEF OpKinds
  <2>2. w \in Nat
    OBVIOUS
  <2> QED BY <2>1, <2>2 DEF WasmOperand, WasmOperands
<1>5. \A x \in 0..(Pow2(ByteBits) - 1) : x \in Int /\ x \in Longs
  BY <1>1, <1>3, LongsAre
<1>6. \A x \in 0..(Pow2(WordBits) - 1) : x \in Int /\ x \in Longs
  BY <1>1, <1>3, LongsAre
<1>7. CASE c = "BLOCKTYPE"
  BY <1>1, <1>3, <1>4, <1>5, <1>7, ReadBytesIs, SignedIsLong DEF ReadOperand, Decoded
<1>8. CASE c = "BYTE"
  BY <1>1, <1>3, <1>4, <1>5, <1>8, ReadBytesIs DEF ReadOperand, Decoded
<1>9. CASE c \in {"INDEX", "ULEB"}
  BY <1>4, <1>6, <1>9, ReadLebIs DEF ReadOperand, Decoded
<1>10. CASE c \in {"SLEB32", "SLEB64"}
  BY <1>4, <1>10, ReadLebIs DEF ReadOperand, Decoded, NoRead, Read
<1>11. CASE c = "F32"
  BY <1>2, <1>4, <1>6, <1>11, WasmWidths, ReadBytesIs DEF ReadOperand, Decoded
<1>12. CASE c = "F64"
  <2>1. \A x \in 0..(Pow2(LongBits) - 1) : x \in Int
    BY <1>3
  <2> QED BY <1>1, <1>2, <1>4, <1>12, <2>1, WasmWidths, ReadBytesIs, SignedIsLong DEF ReadOperand, Decoded
<1> QED BY <1>7, <1>8, <1>9, <1>10, <1>11, <1>12 DEF WasmCodes

\* What is read of an instruction is a sequence of operands of the API.
LEMMA ReadOperandsIs ==
    ASSUME NEW rec, rec.codes \in Seq(WasmCodes), NEW code, Code(code), NEW off \in Nat \ {0}
    PROVE  ReadOperands(rec, code, off).ops \in Seq(WasmOperands)
<1> DEFINE n == Len(rec.codes)
           D == {s \in [ok : BOOLEAN, ops : Seq(WasmOperands), next : Nat] : s.ok => s.next # 0}
           start == [ok |-> TRUE, ops |-> <<>>, next |-> off]
           read(i, s) == IF s.ok THEN ReadOperand(rec.codes[i], code, s.next) ELSE NoRead
           stop == [ok |-> FALSE, ops |-> <<>>, next |-> 0]
           after(i, s) == IF ~read(i, s).ok THEN stop
                          ELSE [ok |-> TRUE, next |-> read(i, s).next,
                                ops |-> Append(s.ops, Decoded(rec.codes[i], read(i, s).value))]
           Goes(f) == [i \in 0..n |-> IF i = 0 THEN start ELSE after(i, f[i - 1])]
<1>1. ReadOperands(rec, code, off) = (CHOOSE f : f = Goes(f))[n]
  BY DEF ReadOperands
<1>2. n \in Nat /\ start \in D /\ stop \in D
  OBVIOUS
<1>3. \A i \in 1..n, s \in D : after(i, s) \in D
  <2> SUFFICES ASSUME NEW i \in 1..n, NEW s \in D, read(i, s).ok
               PROVE  after(i, s) \in D
    BY <1>2
  <2>1. s.ok /\ s.next \in Nat \ {0} /\ s.ops \in Seq(WasmOperands)
    BY DEF NoRead, Read
  <2>2. rec.codes[i] \in WasmCodes
    OBVIOUS
  <2>3. PICK r : r = ReadOperand(rec.codes[i], code, s.next)
    OBVIOUS
  <2>4. read(i, s) = r /\ r.ok
    BY <2>1, <2>3
  <2>5. r.next \in Nat \ {0} /\ Decoded(rec.codes[i], r.value) \in WasmOperands
    BY <2>1, <2>2, <2>3, <2>4, ReadOperandIs
  <2>6. Append(s.ops, Decoded(rec.codes[i], r.value)) \in Seq(WasmOperands)
    BY <2>1, <2>5
  <2>7. after(i, s) = [ok |-> TRUE, next |-> r.next,
                       ops |-> Append(s.ops, Decoded(rec.codes[i], r.value))]
    BY <2>4
  <2> QED BY <2>5, <2>6, <2>7
<1> HIDE DEF after, start, stop, D
<1>4. \E f : f = Goes(f)
  <2> DEFINE T == [p \in (1..n) \X D |-> after(p[1], p[2])]
  <2>1. IsStep(T, n, D)
    BY <1>3 DEF IsStep
  <2>2. \A i \in 1..n, s \in D : T[<<i, s>>] = after(i, s)
    OBVIOUS
  <2> HIDE DEF T, n
  <2>3. PICK g : Runs(g, n, D, start, T)
    BY <1>2, <2>1, Iterates
  <2>4. ASSUME NEW i \in 1..n PROVE g[i] = after(i, g[i - 1])
    <3>1. i - 1 \in 0..n
      BY <1>2
    <3>2. g[i - 1] \in D
      BY <3>1, <2>3 DEF Runs
    <3> QED BY <2>2, <2>3, <3>2 DEF Runs
  <2>5. g = Goes(g)
    BY <1>2, <2>3, <2>4 DEF Runs
  <2> QED BY <2>5
<1>5. PICK go : go = (CHOOSE f : f = Goes(f)) /\ go = Goes(go)
  <2> HIDE DEF Goes
  <2> QED BY <1>4
<1> HIDE DEF n
<1> DEFINE S == {i \in Nat : i <= n => go[i] \in D}
<1>6. 0 \in S
  <2>1. go[0] = start
    <3>1. 0 \in 0..n
      BY <1>2
    <3>2. \A i \in 0..n : go[i] = IF i = 0 THEN start ELSE after(i, go[i - 1])
      BY <1>5, Zenon
    <3> QED BY <3>1, <3>2, Zenon
  <2> QED BY <1>2, <2>1
<1>7. ASSUME NEW i \in Nat, i \in S
      PROVE  i + 1 \in S
  <2>1. SUFFICES ASSUME i + 1 <= n PROVE go[i + 1] \in D
    OBVIOUS
  <2>2. i + 1 \in 0..n /\ i + 1 \in 1..n /\ i + 1 # 0 /\ (i + 1) - 1 = i /\ i <= n
    BY <1>2, <2>1
  <2>3. go[i + 1] = after(i + 1, go[(i + 1) - 1])
    BY <1>5, <2>2
  <2> QED BY <1>3, <1>7, <2>2, <2>3
<1>8. n \in S
  <2> HIDE DEF S
  <2> QED BY <1>2, <1>6, <1>7, InductionOnSets
<1>9. go[n] \in D
  BY <1>2, <1>8
<1> QED BY <1>1, <1>5, <1>9 DEF D

LEMMA WasmDecodeIs ==
    ASSUME NEW f, NEW m, NEW code, Code(code)
    PROVE  WasmDecode(f, m, code).st = "OK" =>
              WasmDecode(f, m, code).inst.ops \in Seq(WasmOperands)
<1>1. ASSUME NEW prefix, NEW opcode, WasmFind(f, prefix, opcode, m).at # 0
      PROVE  WasmFind(f, prefix, opcode, m).at \in DOMAIN WasmRecords
  <2> DEFINE hits == {i \in OpcodeRange(prefix, opcode) : ModeMatches(WasmRecords[i], m)}
  <2>1. hits \subseteq DOMAIN WasmRecords
    BY DEF OpcodeRange
  <2>2. WasmFind(f, prefix, opcode, m) = WasmPick(hits, f, m)
    BY DEF WasmFind
  <2> HIDE DEF hits
  <2> QED BY <1>1, <2>1, <2>2, PickIs
<1>2. ASSUME NEW found, found.at # 0 => found.at \in DOMAIN WasmRecords, NEW prefixed,
             NEW start \in Nat \ {0}
      PROVE  LET d == WasmLookUp(found, prefixed, code, start)
             IN  d.st = "OK" => d.inst.ops \in Seq(WasmOperands)
  <2>1. ASSUME found.at # 0
        PROVE  ReadOperands(WasmRecords[found.at], code, start).ops \in Seq(WasmOperands)
    BY <1>2, <2>1, RangesAssumption, ReadOperandsIs
  <2>2. <<>> \in Seq(WasmOperands)
    OBVIOUS
  <2> QED BY <2>1, <2>2 DEF WasmLookUp, WasmDecodeFound, Decoding, WasmInst
<1> DEFINE second == ReadUleb(code, 1)
<1>3. second.ok => second.next \in Nat \ {0}
  BY ReadLebIs
<1>4. \A st : st = "DECODE_FAILED" => st # "OK"
  OBVIOUS
<1> HIDE DEF second
<1> DEFINE prefixed == code # <<>> /\ code[1] \in WasmPrefixes
           prefix   == IF prefixed THEN code[1] ELSE 0
           opcode   == IF prefixed THEN second.value ELSE code[1]
           start    == IF prefixed THEN second.next ELSE 1
<1>5. WasmDecode(f, m, code) =
         IF code = <<>> \/ (prefixed /\ ~second.ok) THEN Decoding("DECODE_FAILED", NoWasmInst)
         ELSE WasmLookUp(WasmFind(f, prefix, opcode, m), prefixed, code, start)
  BY DEF WasmDecode, second
<1>6. ~(prefixed /\ ~second.ok) => start \in Nat \ {0}
  BY <1>3
<1> HIDE DEF prefixed, prefix, opcode, start
<1> QED BY <1>1, <1>2, <1>5, <1>6 DEF Decoding

-----------------------------------------------------------------------------
(***************************************************************************)
(* x86: what is written is a sequence, so that its length is a number.     *)
(***************************************************************************)
IsSeq(s) == \E S : s \in Seq(S)

LEMMA SeqsJoin ==
    ASSUME NEW s, IsSeq(s), NEW t, IsSeq(t)
    PROVE  IsSeq(s \o t)
<1>1. PICK A : s \in Seq(A)
  BY DEF IsSeq
<1>2. PICK B : t \in Seq(B)
  BY DEF IsSeq
<1>3. PICK C : A \subseteq C /\ B \subseteq C
  <2>1. A \subseteq A \cup B /\ B \subseteq A \cup B
    OBVIOUS
  <2> QED BY <2>1
<1>4. s \in Seq(C) /\ t \in Seq(C)
  BY <1>1, <1>2, <1>3
<1>5. s \o t \in Seq(C)
  BY <1>4
<1> QED BY <1>5 DEF IsSeq

\* The pieces the encoder writes are tuples of up to four bytes.
LEMMA ShortSeqs ==
    /\ IsSeq(<<>>)
    /\ \A a : IsSeq(<<a>>)
    /\ \A a, b : IsSeq(<<a, b>>)
    /\ \A a, b, c : IsSeq(<<a, b, c>>)
    /\ \A a, b, c, d : IsSeq(<<a, b, c, d>>)
<1>1. IsSeq(<<>>)
  <2>1. <<>> \in Seq({})
    OBVIOUS
  <2> QED BY <2>1 DEF IsSeq
<1>2. ASSUME NEW a, NEW b, NEW c, NEW d
      PROVE  IsSeq(<<a>>) /\ IsSeq(<<a, b>>) /\ IsSeq(<<a, b, c>>) /\ IsSeq(<<a, b, c, d>>)
  <2>1. PICK S : a \in S /\ b \in S /\ c \in S /\ d \in S
    <3>1. a \in {a, b, c, d} /\ b \in {a, b, c, d} /\ c \in {a, b, c, d} /\ d \in {a, b, c, d}
      OBVIOUS
    <3> QED BY <3>1
  <2>2. <<a>> \in Seq(S) /\ <<a, b>> \in Seq(S) /\ <<a, b, c>> \in Seq(S) /\ <<a, b, c, d>> \in Seq(S)
    BY <2>1
  <2> QED BY <2>2 DEF IsSeq
<1> QED BY <1>1, <1>2

LEMMA SeqLength ==
    ASSUME NEW s, IsSeq(s)
    PROVE  Len(s) \in Nat
<1>1. PICK S : s \in Seq(S)
  BY DEF IsSeq
<1> QED BY <1>1

\* A field of n bytes.
LEMMA WriteLeIs ==
    ASSUME NEW x, NEW n \in Nat
    PROVE  IsSeq(WriteLe(x, n))
<1> DEFINE byte(k) == (x \div Pow2(DataBits * (k - 1))) % Pow2(DataBits)
           S == {byte(k) : k \in 1..n}
<1>1. WriteLe(x, n) = [k \in 1..n |-> byte(k)]
  BY DEF WriteLe
<1> HIDE DEF byte
<1>2. [k \in 1..n |-> byte(k)] \in [1..n -> S]
  OBVIOUS
<1> HIDE DEF S
<1>3. WriteLe(x, n) \in Seq(S)
  BY <1>1, <1>2, SeqDef
<1> QED BY <1>3 DEF IsSeq

\* A buffer that is large enough holds what was written.
LEMMA WrittenFits ==
    ASSUME NEW code, IsSeq(code), NEW c \in Nat
    PROVE  LET e == Written(code, c)
           IN  /\ e.st \in {"OK", "OUTPUT_TOO_SMALL"} /\ e.size \in Nat
               /\ e.st = "OK" => e.size <= c /\ Len(e.code) = e.size
<1>1. Len(code) \in Nat
  BY SeqLength
<1> QED BY <1>1 DEF Written, Encoding

\* ModRM and what goes before and after it.
LEMMA PackRmIs ==
    ASSUME NEW op, NEW spec, NEW m
    PROVE  LET rm == PackRm(op, spec, m)
           IN  rm.dispSize \in Nat /\ IsSeq(rm.prefixes)
<1> DEFINE Fine(rm) == /\ rm.dispSize \in Nat /\ IsSeq(rm.prefixes)
                       /\ {"dispSize", "prefixes"} \subseteq DOMAIN rm
<1>1. ASSUME NEW a, NEW b, NEW c, NEW n \in Nat
      PROVE  /\ Fine(Rm(a, b, c, n))
             /\ \A ok, x, y, z, w :
                   /\ Fine([Rm(a, b, c, n) EXCEPT !.ok = ok])
                   /\ Fine([Rm(a, b, c, n) EXCEPT !.x = x])
                   /\ Fine([Rm(a, b, c, n) EXCEPT !.x = x, !.b = y])
                   /\ Fine([Rm(a, b, c, n) EXCEPT !.ok = ok, !.b = y, !.needs = z, !.forbids = w])
                   /\ \A s : IsSeq(s) => Fine([Rm(a, b, c, n) EXCEPT !.prefixes = s])
  BY ShortSeqs DEF Rm
<1>2. Fine(NoRm)
  BY <1>1 DEF NoRm
<1>3. Fine(RmOfRegister(op, spec, m))
  BY <1>1 DEF RmOfRegister
<1>4. Fine(Rm16(op))
  <2> DEFINE pair == Pair16(op.base, op.index)
             rm   == LeastOf({k \in 0..7 : pair = <<Reg16(Bases16[k + 1]), Reg16(Indexes16[k + 1])>>})
             size == CASE op.disp = 0 /\ rm # 6      -> 0
                       [] FitsSigned(op.disp, DataBits) -> 1
                       [] OTHER                         -> 2
  <2>1. size \in Nat
    <3> HIDE DEF rm
    <3> QED OBVIOUS
  <2>2. \/ Rm16(op) = NoRm
        \/ Rm16(op) = [Rm(6, -1, op.disp, 2) EXCEPT !.ok = FitsUnsigned(op.disp, 2 * DataBits)]
        \/ Rm16(op) = [Rm(64 * size + rm, -1, op.disp, size)
                       EXCEPT !.ok = FitsSigned(op.disp, 2 * DataBits)]
    BY DEF Rm16
  <2> HIDE DEF size, rm, Fine
  <2>3. Fine([Rm(6, -1, op.disp, 2) EXCEPT !.ok = FitsUnsigned(op.disp, 2 * DataBits)])
    BY <1>1
  <2>4. Fine([Rm(64 * size + rm, -1, op.disp, size)
              EXCEPT !.ok = FitsSigned(op.disp, 2 * DataBits)])
    BY <1>1, <2>1
  <2> QED BY <1>2, <2>2, <2>3, <2>4
<1>5. Fine(Rm32(op, m))
  <2> DEFINE aw      == EffectiveWidth(op, m)
             index   == RegValue(op.index, aw, "GPR")
             base    == RegValue(op.base, aw, "GPR")
             indexed == op.index # NoX86Reg
             low     == base.n % 8
             size    == CASE op.disp = 0 /\ low # 5           -> 0
                          [] FitsSigned(op.disp, DataBits)    -> 1
                          [] OTHER                            -> 4
             sib     == IF indexed THEN 64 * ScaleBits[ScaleOf(op)] + 8 * (index.n % 8) ELSE 32
             mod     == IF size = 4 THEN 2 ELSE size
             x       == indexed /\ RexBit(index)
             y       == RexBit(base)
  <2>1. size \in Nat
    <3> HIDE DEF low
    <3> QED OBVIOUS
  <2> DEFINE ripped == [Rm(5, -1, op.disp, 4) EXCEPT !.ok = ~indexed]
             alone  == [Rm(4, sib + 5, op.disp, 4) EXCEPT !.x = x]
             both   == [Rm(64 * mod + 4, sib + low, op.disp, size) EXCEPT !.x = x, !.b = y]
             plain  == [Rm(64 * mod + low, -1, op.disp, size) EXCEPT !.x = x, !.b = y]
  <2>2. Rm32(op, m) \in {ripped, alone, both, plain, NoRm}
    BY DEF Rm32
  <2> HIDE DEF size, low, sib, mod, x, y, index, base, Fine
  <2>3. Fine(ripped) /\ Fine(alone)
    BY <1>1
  <2>4. Fine(both) /\ Fine(plain)
    <3>1. \A a, b : Fine([Rm(a, b, op.disp, size) EXCEPT !.x = x, !.b = y])
      BY <1>1, <2>1
    <3> QED BY <3>1
  <2> HIDE DEF ripped, alone, both, plain
  <2> QED BY <1>2, <2>2, <2>3, <2>4
<1>6. Fine(RmOfMemory(op, spec, m))
  <2> DEFINE aw     == EffectiveWidth(op, m)
             rm     == IF aw = 16 THEN Rm16(op) ELSE Rm32(op, m)
             before == (IF aw = OverrideWidth[m] THEN <<103>> ELSE <<>>) \o SegmentPrefix(op.seg)
  <2>1. IsSeq(before)
    BY ShortSeqs, SeqsJoin DEF SegmentPrefix
  <2>2. RmOfMemory(op, spec, m) = NoRm \/ RmOfMemory(op, spec, m) = [rm EXCEPT !.prefixes = before]
    BY Zenon DEF RmOfMemory
  <2>3. Fine(rm)
    BY <1>4, <1>5
  <2> HIDE DEF rm, before
  <2>4. Fine([rm EXCEPT !.prefixes = before])
    BY <2>1, <2>3
  <2> QED BY <1>2, <2>2, <2>4
<1> QED BY <1>2, <1>3, <1>6 DEF PackRm

\* Everything before the immediates, and the immediates.
LEMMA X86HeadIs ==
    ASSUME NEW rec, NEW inst, NEW m
    PROVE  IsSeq(X86Head(rec, inst, Packed(rec, inst, m), m))
<1> DEFINE p    == Packed(rec, inst, m)
           lock == IF "LOCK" \in inst.flags THEN <<240>> ELSE <<>>
           old  == IF rec.vector = "NORMAL" THEN LegacyPrefixes(rec, m) ELSE <<>>
           mem  == IF rec.form \in RmForms THEN p.rm.prefixes
                   ELSE RawAddress(rec, inst, m) \o RawSegment(rec, inst)
           rex  == IF NeedsRex(rec, p) THEN <<RexByte(rec, p)>> ELSE <<>>
           byte == <<IF rec.map = 7 THEN 15 ELSE rec.opcode + (p.opcode.n % 8)>>
<1>1. p.rm.dispSize \in Nat /\ IsSeq(p.rm.prefixes)
  <2>1. p.rm = IF rec.form \in RmForms THEN PackRm(inst.ops[rec.rm], rec.ops[rec.rm], m)
               ELSE Rm(0, -1, 0, 0)
    BY DEF Packed
  <2>2. Rm(0, -1, 0, 0).dispSize \in Nat /\ IsSeq(Rm(0, -1, 0, 0).prefixes)
    BY ShortSeqs DEF Rm
  <2> HIDE DEF p
  <2> QED BY <2>1, <2>2, PackRmIs
<1> HIDE DEF p
<1>2. IsSeq(lock) /\ IsSeq(byte) /\ IsSeq(rex)
  BY ShortSeqs
<1>3. IsSeq(old)
  <2>1. IsSeq(LegacyPrefixes(rec, m))
    BY ShortSeqs, SeqsJoin DEF LegacyPrefixes
  <2> QED BY <2>1, ShortSeqs
<1>4. IsSeq(mem)
  <2>1. IsSeq(RawAddress(rec, inst, m))
    BY ShortSeqs DEF RawAddress
  <2>2. IsSeq(RawSegment(rec, inst))
    BY ShortSeqs DEF RawSegment, SegmentPrefix
  <2> QED BY <1>1, <2>1, <2>2, SeqsJoin
<1>5. IsSeq(VectorPrefix(rec, inst, p))
  <2>1. CASE rec.vector = "NORMAL"
    BY <2>1, ShortSeqs DEF VectorPrefix
  <2>2. CASE rec.vector = "EVEX"
    BY <2>2, ShortSeqs DEF VectorPrefix
  <2>3. CASE rec.vector \notin {"NORMAL", "EVEX"}
    BY <2>3, ShortSeqs DEF VectorPrefix
  <2> QED BY <2>1, <2>2, <2>3
<1>6. IsSeq(Escape(rec))
  BY ShortSeqs DEF Escape
<1>7. IsSeq(ModrmBytes(rec, p))
  <2>1. IsSeq(WriteLe(p.rm.disp, p.rm.dispSize))
    BY <1>1, WriteLeIs
  <2> DEFINE reg == IF rec.form \in RmRegForms THEN p.reg.n % 8 ELSE rec.fixedReg
             one == <<p.rm.modrm + 8 * reg>>
             two == IF p.rm.sib = -1 THEN <<>> ELSE <<p.rm.sib>>
  <2>2. IsSeq(one) /\ IsSeq(two)
    BY ShortSeqs
  <2>3. ModrmBytes(rec, p) = CASE rec.form \in RmForms -> one \o two \o WriteLe(p.rm.disp, p.rm.dispSize)
                               [] rec.form = "FIXED_MODRM" -> <<rec.fixedModrm>>
                               [] OTHER -> <<>>
    BY DEF ModrmBytes
  <2> HIDE DEF one, two
  <2>4. IsSeq(one \o two \o WriteLe(p.rm.disp, p.rm.dispSize))
    BY <2>1, <2>2, SeqsJoin
  <2> QED BY <2>3, <2>4, ShortSeqs
<1>8. X86Head(rec, inst, p, m) =
         lock \o old \o mem \o rex \o VectorPrefix(rec, inst, p) \o Escape(rec) \o byte
         \o ModrmBytes(rec, p)
  BY DEF X86Head
<1> HIDE DEF lock, old, mem, rex, byte
<1> QED BY <1>2, <1>3, <1>4, <1>5, <1>6, <1>7, <1>8, SeqsJoin DEF p

LEMMA X86BytesIs ==
    ASSUME NEW i \in DOMAIN X86Records, NEW inst, NEW p, NEW head, IsSeq(head)
    PROVE  IsSeq(X86Bytes(X86Records[i], inst, p, head))
<1> DEFINE rec   == X86Records[i]
           len   == X86Length(rec, head)
           extra == IF rec.extraImm = 0 THEN <<>>
                    ELSE WriteLe(inst.ops[rec.extra].imm, rec.extraImm)
<1>1. rec.immSize \in Nat /\ rec.extraImm \in Nat
  BY RangesAssumption
<1> HIDE DEF rec, len
<1>2. IsSeq(ImmediateBytes(rec, inst, p, len))
  <2>1. \A x : IsSeq(WriteLe(x, rec.immSize))
    BY <1>1, WriteLeIs
  <2> QED BY <2>1, ShortSeqs DEF ImmediateBytes
<1>3. IsSeq(extra)
  BY <1>1, WriteLeIs, ShortSeqs
<1>4. IsSeq(SuffixBytes(rec))
  BY ShortSeqs DEF SuffixBytes
<1>5. X86Bytes(rec, inst, p, head) =
         head \o ImmediateBytes(rec, inst, p, len) \o extra \o SuffixBytes(rec)
  BY DEF X86Bytes, len
<1> HIDE DEF extra
<1> QED BY <1>2, <1>3, <1>4, <1>5, SeqsJoin DEF rec

-----------------------------------------------------------------------------
(***************************************************************************)
(* The size an encoder reports, and the buffer.                            *)
(***************************************************************************)
\* A size that is asked for is a number, and what was written fits.
Sized(e, c) == /\ e.st = "OUTPUT_TOO_SMALL" => e.size \in Nat
               /\ e.st = "OK" => e.size <= c
\* The size is the number of bytes that were written.
Exact(e) == e.st = "OK" => Len(e.code) = e.size

LEMMA BpfSized ==
    ASSUME NEW f, NEW inst, NEW c \in Nat
    PROVE  Sized(BpfEncode(f, inst, c), c)
<1> DEFINE byId   == {i \in DOMAIN BpfRecords : BpfRecords[i].id = inst.id}
           byName == {i \in DOMAIN BpfRecords : BpfMatches(BpfRecords[i], inst)}
           first  == Found(BpfRecords, f, byId)
           second == Found(BpfRecords, f, byName)
           r      == BpfChoose(f, inst)
<1>1. r = SearchTwice(first, second)
  BY DEF BpfChoose, Search, Found
<1>2. r.at # 0 => r.at \in DOMAIN BpfRecords
  <2>1. IsTable(BpfRecords) /\ byId \subseteq DOMAIN BpfRecords /\ byName \subseteq DOMAIN BpfRecords
    BY CodecAssumption
  <2> HIDE DEF byId, byName
  <2> QED BY <1>1, <2>1, FoundIs DEF SearchTwice
<1> HIDE DEF r
<1>3. r.at # 0 => BpfRecords[r.at].size \in Nat
  BY <1>2, RangesAssumption
<1>4. NotFound(r) \in {"UNSUPPORTED_FEATURE", "UNSUPPORTED_INSTRUCTION"}
  BY DEF NotFound
<1>5. BpfOperandsStatus(BpfRecords[r.at], inst) \in {"OK", "ENCODE_FAILED", "BRANCH_OUT_OF_RANGE"}
  BY BpfOperandStatuses
<1> QED BY <1>3, <1>4, <1>5 DEF BpfEncode, Encoding, Sized, r

LEMMA WasmSized ==
    ASSUME NEW f, NEW m, NEW inst, inst.ops \in Seq(WasmOperands), NEW c \in Nat
    PROVE  Sized(WasmEncode(f, m, inst, c), c) /\ Exact(WasmEncode(f, m, inst, c))
<1> DEFINE byId   == {i \in DOMAIN WasmRecords :
                         /\ inst.id # "none" /\ WasmRecords[i].id = inst.id
                         /\ ModeMatches(WasmRecords[i], m)}
           byName == {i \in DOMAIN WasmRecords : WasmMatches(WasmRecords[i], inst, m)}
           first  == Found(WasmRecords, f, byId)
           second == WasmPick(byName, f, m)
           r      == WasmChoose(f, m, inst)
<1>1. r = SearchTwice(first, second)
  BY DEF WasmChoose, Search, Found
<1>2. r.at # 0 => r.at \in DOMAIN WasmRecords
  <2>1. IsTable(WasmRecords) /\ byId \subseteq DOMAIN WasmRecords /\ byName \subseteq DOMAIN WasmRecords
    BY CodecAssumption
  <2> HIDE DEF byId, byName
  <2> QED BY <1>1, <2>1, FoundIs, PickIs DEF SearchTwice
<1> HIDE DEF r
<1> DEFINE rec == WasmRecords[r.at]
           bad == \E i \in DOMAIN rec.codes : ~Encodable(rec.codes[i], WasmArgument(rec, inst, i))
           size == WasmSize(rec, inst)
           code == WasmBytes(rec, inst)
<1>3. r.at # 0 /\ ~bad => size \in Nat /\ Len(code) = size
  <2>1. SUFFICES ASSUME r.at # 0, ~bad PROVE size \in Nat /\ Len(code) = size
    OBVIOUS
  <2>2. r.at \in DOMAIN WasmRecords
    BY <1>2, <2>1
  <2> QED BY <2>1, <2>2, WasmFits
<1>4. NotFound(r) \in {"UNSUPPORTED_FEATURE", "UNSUPPORTED_INSTRUCTION"}
  BY DEF NotFound
<1>5. WasmEncode(f, m, inst, c) =
         IF r.at = 0 THEN Encoding(NotFound(r), 0, <<>>)
         ELSE IF bad THEN Encoding("ENCODE_FAILED", 0, <<>>)
         ELSE IF c < size THEN Encoding("OUTPUT_TOO_SMALL", size, <<>>)
         ELSE Encoding("OK", size, code)
  BY DEF WasmEncode, r
<1> HIDE DEF bad, size, code
<1> QED BY <1>3, <1>4, <1>5 DEF Encoding, Sized, Exact

LEMMA X86Sized ==
    ASSUME NEW f, NEW m, NEW inst, NEW c \in Nat
    PROVE  Sized(X86Encode(f, m, inst, c), c) /\ Exact(X86Encode(f, m, inst, c))
<1> DEFINE fits  == {i \in {X86EncodeOrder[k] : k \in DOMAIN X86EncodeOrder} :
                       Identity(X86Records[i], inst) /\ OperandsMatch(X86Records[i], inst)}
           able  == {i \in {j \in fits : FeaturesMatch(f, X86Records[j])} :
                       X86Writable(X86Records[i], inst, m)}
           turns == {k \in DOMAIN X86EncodeOrder : X86EncodeOrder[k] \in able}
           r     == X86Choose(X86Records, f, m, inst, fits)
           gen   == X86GenEncode(X86Records, f, m, inst, c)
           Fine(e) == Sized(e, c) /\ Exact(e)
<1>1. ASSUME NEW code, IsSeq(code) PROVE Fine(Written(code, c))
  BY <1>1, WrittenFits DEF Sized, Exact
<1>2. r.at # 0 => r.at \in DOMAIN X86Records
  <2>1. turns \subseteq Nat
    BY CodecAssumption
  <2>2. able # {} => turns # {}
    OBVIOUS
  <2>3. turns # {} => LeastOf(turns) \in turns
    <3> HIDE DEF turns
    <3> QED BY <2>1, LeastIs
  <2>4. turns \subseteq DOMAIN X86EncodeOrder
    OBVIOUS
  <2>5. r.at = IF able = {} THEN 0 ELSE X86EncodeOrder[LeastOf(turns)]
    BY DEF X86Choose
  <2> HIDE DEF able, turns, r
  <2> QED BY <2>2, <2>3, <2>4, <2>5, CodecAssumption
<1>3. gen = X86EncodeFound(X86Records, r, m, inst, c)
  BY DEF X86GenEncode
<1> HIDE DEF r, gen
<1>4. Fine(gen)
  <2>1. CASE r.at = 0
    <3>1. NotFound(r) \in {"UNSUPPORTED_FEATURE", "UNSUPPORTED_INSTRUCTION"}
      BY DEF NotFound
    <3> QED BY <1>3, <2>1, <3>1 DEF X86EncodeFound, Encoding, Sized, Exact
  <2>2. CASE r.at # 0
    <3> DEFINE rec  == X86Records[r.at]
               p    == Packed(rec, inst, m)
               head == X86Head(rec, inst, p, m)
    <3>1. gen = Written(X86Bytes(rec, inst, p, head), c)
      BY <1>3, <2>2 DEF X86EncodeFound, X86Write, X86WriteHead
    <3>2. IsSeq(head)
      BY X86HeadIs
    <3> HIDE DEF p, head
    <3>3. IsSeq(X86Bytes(rec, inst, p, head))
      BY <1>2, <2>2, <3>2, X86BytesIs
    <3> QED BY <1>1, <3>1, <3>3
  <2> QED BY <2>1, <2>2
<1>5. ASSUME NEW opcode PROVE Fine(X86WriteRel(m, opcode, inst, c))
  <2> DEFINE size == IF m = "x86_16" THEN 2 ELSE 4
             disp == PcDisplacement(inst.ops[1], inst.address, size + 1)
  <2>1. X86WriteRel(m, opcode, inst, c) =
           IF ~FitsSigned(disp, DataBits * size) THEN Encoding("BRANCH_OUT_OF_RANGE", 0, <<>>)
           ELSE Written(<<opcode>> \o WriteLe(disp, size), c)
    BY DEF X86WriteRel
  <2>2. size \in Nat
    OBVIOUS
  <2> HIDE DEF size, disp
  <2>3. IsSeq(<<opcode>> \o WriteLe(disp, size))
    BY <2>2, WriteLeIs, ShortSeqs, SeqsJoin
  <2>4. Fine(Encoding("BRANCH_OUT_OF_RANGE", 0, <<>>))
    BY DEF Encoding, Sized, Exact
  <2> HIDE DEF Fine
  <2> QED BY <1>1, <2>1, <2>3, <2>4
<1>6. Fine(Written(<<144>>, c)) /\ Fine(Written(<<195>>, c))
  BY <1>1, ShortSeqs
<1> HIDE DEF Fine
<1> DEFINE name == MnemonicOf(inst)
           rel  == name \in {<<"jmp", 0>>, <<"call", 0>>} /\ inst.ops # <<>> /\ inst.ops[1].kind = "PC_REL"
<1>7. X86Encode(f, m, inst, c) =
         IF name = <<"nop", 0>> THEN Written(<<144>>, c)
         ELSE IF name = <<"ret", 0>> THEN Written(<<195>>, c)
         ELSE IF rel THEN X86WriteRel(m, IF name = <<"call", 0>> THEN 232 ELSE 233, inst, c)
         ELSE gen
  <2> HIDE DEF name
  <2> QED BY DEF X86Encode, gen, name
<1> HIDE DEF name, rel
<1>8. Fine(X86Encode(f, m, inst, c))
  BY <1>4, <1>5, <1>6, <1>7
<1> QED BY <1>8 DEF Fine

LEMMA A64Sized ==
    ASSUME NEW f, NEW inst, NEW c \in Nat
    PROVE  Sized(A64Encode(f, inst, c), c)
<1>1. ASSUME NEW word PROVE Sized(WordAnswer(word, c), c)
  BY DEF WordAnswer, Encoding, Sized
<1>2. ASSUME NEW b PROVE Sized(Encoding(NotFound([blocked |-> b]), 0, <<>>), c)
  BY DEF NotFound, Encoding, Sized
<1>3. Sized(EncodeFixed(f, inst, c), c)
  BY <1>1, <1>2 DEF EncodeFixed
<1>4. ASSUME NEW named PROVE Sized(EncodeBitfield(f, inst, c, named), c)
  BY <1>1, <1>2 DEF EncodeBitfield, AnswerPacked
<1>5. Sized(EncodeGenerated(f, inst, c), c)
  BY <1>3, <1>4 DEF EncodeGenerated
<1>6. ASSUME NEW call PROVE Sized(EmitRel(inst, call, c), c)
  <2>1. Sized(Encoding("BRANCH_OUT_OF_RANGE", 4, <<>>), c)
    BY DEF Encoding, Sized
  <2> QED BY <1>1, <2>1 DEF EmitRel
<1>7. ASSUME NEW name PROVE Sized(EncodeNamed(f, inst, c, name), c)
  BY <1>1, <1>5, <1>6 DEF EncodeNamed
<1> QED BY <1>7 DEF A64Encode

-----------------------------------------------------------------------------
(***************************************************************************)
(* The session again.                                                      *)
(***************************************************************************)
LEMMA EncodeSized ==
    ASSUME NEW m \in CodecModes, NEW f, NEW inst, NEW c \in Nat,
           Wasm(m) => inst.ops \in Seq(WasmOperands)
    PROVE  LET e == Encode(m, f, inst, c)
           IN  /\ e.st \in CodecStatuses /\ Sized(e, c)
               /\ Bpf(m) \/ A64(m) \/ Exact(e)
<1>1. CASE Bpf(m)
  BY <1>1, EncodeIs, BpfEncodes, BpfSized DEF Verdict
<1>2. CASE Wasm(m)
  BY <1>2, EncodeIs, WasmEncodes, WasmSized DEF Verdict
<1>3. CASE X86(m)
  BY <1>3, EncodeIs, X86Encodes, X86Sized
<1>4. CASE A64(m)
  BY <1>4, EncodeIs, A64Encodes, A64Sized
<1> QED BY <1>1, <1>2, <1>3, <1>4, EveryMode

LEMMA DecodeAnswers ==
    ASSUME NEW m \in CodecModes, NEW f, NEW code, NEW n, NEW address
    PROVE  Decode(m, f, code, n, address).st \in CodecStatuses
<1>1. Answers(Decode(m, f, code, n, address).st)
  <2>1. CASE Bpf(m)
    BY <2>1, DecodeIs, BpfDecodes
  <2>2. CASE Wasm(m)
    BY <2>2, DecodeIs, WasmDecodes
  <2>3. CASE X86(m)
    BY <2>3, DecodeIs, X86Decodes
  <2>4. CASE A64(m)
    BY <2>4, DecodeIs, A64Decodes
  <2> QED BY <2>1, <2>2, <2>3, <2>4, EveryMode
<1> QED BY <1>1 DEF Answers, CodecStatuses

\* What is read from a stream of the caller's can be encoded as far as its
\* numbers go.
LEMMA ReceivedIs ==
    ASSUME NEW m \in CodecModes, Wasm(m), NEW s \in Streams[m], NEW f
    PROVE  LET d == Decode(m, f, s.code, s.size, s.address)
           IN  d.st = "OK" => d.inst.ops \in Seq(WasmOperands)
<1>1. /\ s.code \in Seq(Nat) /\ s.size \in 0..Len(s.code)
      /\ \A k \in 2..s.size : s.code[k] < Pow2(ByteBits)
  BY RangesAssumption DEF Wasm
<1>2. Code(SubSeq(s.code, 1, s.size))
  <2>1. PICK c \in Seq(Nat) : c = s.code
    BY <1>1
  <2>2. PICK n \in 0..Len(c) : n = s.size
    BY <1>1, <2>1
  <2>3. /\ SubSeq(c, 1, n) \in Seq(Nat) /\ Len(SubSeq(c, 1, n)) = n
        /\ \A k \in 1..n : SubSeq(c, 1, n)[k] = c[k]
    <3>1. n \in Nat /\ 1 \in Int /\ \A k \in 1..n : c[k] \in Nat
      OBVIOUS
    <3>2. /\ SubSeq(c, 1, n) \in Seq(Nat)
          /\ Len(SubSeq(c, 1, n)) = IF 1 <= n THEN n - 1 + 1 ELSE 0
          /\ \A k \in 1..(n - 1 + 1) : SubSeq(c, 1, n)[k] = c[1 + k - 1]
      BY <3>1, SubSeqProperties
    <3> QED BY <3>1, <3>2
  <2>4. \A k \in 2..n : k \in 1..n /\ c[k] < Pow2(ByteBits)
    BY <1>1, <2>1, <2>2
  <2> QED BY <2>1, <2>2, <2>3, <2>4 DEF Code
<1> QED BY <1>2, DecodeIs, WasmDecodeIs

\* Besides the types: a size that was asked for is a number, so that the buffer
\* that is grown has one, and the operands of a WebAssembly instruction have
\* numbers of the API's type, so that those written do end.
SizesInv ==
    /\ mode \in CodecModes /\ step \in Steps
    /\ feats \subseteq AllFeats /\ cap \in Nat
    /\ enc.st \in CodecStatuses /\ dec.st \in CodecStatuses
    /\ step = "encoded" => Sized(enc, cap) /\ (Bpf(mode) \/ A64(mode) \/ Exact(enc))
    /\ Wasm(mode) /\ step \in {"asked", "encoded"} => asked.ops \in Seq(WasmOperands)
    /\ Wasm(mode) /\ step = "received" /\ dec.st = "OK" => dec.inst.ops \in Seq(WasmOperands)

LEMMA SizesInit == Init => SizesInv
BY CodecAssumption DEF Init, SizesInv, Steps, Encoding, Decoding, CodecStatuses

\* Every call keeps it.
LEMMA SizesNext == SizesInv /\ [Next]_vars => SizesInv'
<1> SUFFICES ASSUME SizesInv, [Next]_vars PROVE SizesInv'
  OBVIOUS
<1>1. CASE Ask
  <2>1. PICK inst \in Requests[mode], c \in Caps : asked' = inst /\ cap' = c
    BY <1>1 DEF Ask
  <2>2. cap' \in Nat
    BY <2>1, RangesAssumption
  <2>3. Wasm(mode) => asked'.ops \in Seq(WasmOperands)
    BY <2>1, RangesAssumption DEF SizesInv, Wasm
  <2> QED BY <1>1, <2>2, <2>3 DEF Ask, SizesInv, Steps, Wasm
<1>2. CASE Receive
  <2>1. PICK s \in Streams[mode] :
           /\ dec' = Decode(mode, feats, s.code, s.size, s.address)
           /\ enc' = Encoding("OK", s.size, s.code)
    BY <1>2 DEF Receive
  <2>2. dec'.st \in CodecStatuses
    BY <2>1, DecodeAnswers DEF SizesInv
  <2>3. Wasm(mode) /\ dec'.st = "OK" => dec'.inst.ops \in Seq(WasmOperands)
    BY <2>1, ReceivedIs DEF SizesInv
  <2>4. enc'.st \in CodecStatuses
    BY <2>1 DEF Encoding, CodecStatuses
  <2> QED BY <1>2, <2>2, <2>3, <2>4 DEF Receive, SizesInv, Steps, Wasm
<1>3. CASE Copy
  <2>1. cap' \in Nat
    BY <1>3, RangesAssumption DEF Copy
  <2>2. Wasm(mode) => asked'.ops \in Seq(WasmOperands)
    BY <1>3 DEF Copy, SizesInv
  <2> QED BY <1>3, <2>1, <2>2 DEF Copy, SizesInv, Steps, Wasm
<1>4. CASE EncodeInst
  <2>1. Wasm(mode) => asked.ops \in Seq(WasmOperands)
    BY <1>4 DEF EncodeInst, SizesInv
  <2>2. /\ enc'.st \in CodecStatuses /\ Sized(enc', cap)
        /\ Bpf(mode) \/ A64(mode) \/ Exact(enc')
    BY <1>4, <2>1, EncodeSized DEF EncodeInst, SizesInv
  <2> QED BY <1>4, <2>1, <2>2 DEF EncodeInst, SizesInv, Steps, Bpf, A64, Wasm, Sized, Exact
<1>5. CASE Grow
  <2>1. cap' \in Nat
    BY <1>5 DEF Grow, SizesInv, Sized
  <2> QED BY <1>5, <2>1 DEF Grow, SizesInv, Steps, Wasm
<1>6. CASE Enable
  BY <1>6 DEF Enable, SizesInv, Steps, Wasm
<1>7. CASE ReadBack
  <2>1. dec'.st \in CodecStatuses
    BY <1>7, DecodeAnswers DEF ReadBack, SizesInv
  <2> QED BY <1>7, <2>1 DEF ReadBack, SizesInv, Steps, Wasm
<1>8. CASE UNCHANGED vars
  BY <1>8 DEF vars, SizesInv, Bpf, A64, Wasm, Sized, Exact
<1> QED BY <1>1, <1>2, <1>3, <1>4, <1>5, <1>6, <1>7, <1>8 DEF Next

LEMMA SizesAreTyped == SizesInv => CodecTypeOK
BY DEF SizesInv, CodecTypeOK, Sized, Exact

\* No encoder writes past the buffer it is given, and x86 and WebAssembly report the
\* size they write, for every table whose sizes are numbers, every instruction, every
\* sequence of calls and every capacity.
THEOREM CodecTyped == Spec => []CodecTypeOK
BY SizesInit, SizesNext, SizesAreTyped, PTL DEF Spec
=============================================================================
