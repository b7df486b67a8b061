--------------------------- MODULE RelocateProofs ---------------------------
(***************************************************************************)
(* Theorems about asmkit_decode_block_until, and about                     *)
(* asmkit_relocate_prologue, which calls it, for every program, placement, *)
(* branch mode, grant and capacity.                                        *)
(***************************************************************************)
EXTENDS Relocate, EmitterContracts, WellFoundedInduction, TLAPS

-----------------------------------------------------------------------------
(***************************************************************************)
(* The block decoder.  Its properties are not inductive as they stand:     *)
(* that nothing follows a terminator needs that the loop is over once it   *)
(* has decoded one, and that the last instruction is needed needs that     *)
(* each one was when it was decoded.  That the loop implements BlockOracle *)
(* is proved last, by relating its running total to the sizes of prefixes  *)
(* there, which are a recursive function.                                  *)
(***************************************************************************)

\* While the loop runs, a terminator can be last only if enough is decoded.
TerminatorStops ==
    dstatus = "RUNNING" /\ Len(insts) > 0 /\ insts[Len(insts)].inst.term => total >= need

\* Every instruction was decoded for the sake of bytes that were missing.
EachNeeded == \A k \in 1..Len(insts) : insts[k].address < Origin + need

\* The layout part of BlockTiles, with the empty block, and what OK means.
Tiled ==
    /\ \A k \in 1..Len(insts) :
          insts[k].address + insts[k].inst.size =
              IF k < Len(insts) THEN insts[k + 1].address ELSE Origin + total
    /\ IF Len(insts) > 0 THEN insts[1].address = Origin ELSE total = 0

OkIsEnough == dstatus = "OK" => total >= need

BlockInv ==
    /\ DecodeTypeOK
    /\ NothingAfterTerminator
    /\ TerminatorStops
    /\ EachNeeded
    /\ Tiled
    /\ OkIsEnough

\* The invariant contains the properties.
LEMMA BlockInvImplies ==
    ASSUME BlockInv
    PROVE  DecodeTypeOK /\ NothingAfterTerminator /\ BlockTiles
<1>1. \A k \in 1..Len(insts) : insts[k].address < Origin + need
  BY DEF BlockInv, EachNeeded
<1>2. Len(insts) \in Nat
  BY DEF BlockInv, DecodeTypeOK
<1>3. Len(insts) > 0 => Len(insts) \in 1..Len(insts)
  BY <1>2
<1> QED BY <1>1, <1>3 DEF BlockInv, Tiled, OkIsEnough, BlockTiles

\* The call starts in it.
LEMMA DecodeInitInv ==
    ASSUME DecodeInit, need \in Nat, room \in Nat \ {0}
    PROVE  BlockInv
<1>1. mode \in Modes /\ code \in Seq(Inst) /\ tail \in DecodeFailures
  BY BlockAssumption DEF DecodeInit
<1>2. insts = <<>> /\ total = 0 /\ dstatus = "RUNNING"
  BY DEF DecodeInit
<1>3. Len(insts) = 0 /\ insts \in Seq(Decoded)
  BY <1>2
<1>4. DecodeTypeOK
  BY <1>1, <1>2, <1>3 DEF DecodeTypeOK
<1> QED BY <1>2, <1>3, <1>4
        DEF BlockInv, NothingAfterTerminator, TerminatorStops, EachNeeded, Tiled, OkIsEnough

\* One turn of the loop that decodes an instruction keeps it.
LEMMA DecodeOneInv ==
    ASSUME BlockInv, DecodeOne
    PROVE  BlockInv'
<1> DEFINE n    == Len(insts)
           inst == code[n + 1]
           new  == [address |-> Origin + total, inst |-> inst]
<1>1. /\ dstatus = "RUNNING" /\ total < need
      /\ n < Len(code)
      /\ insts' = Append(insts, new) /\ total' = total + inst.size
      /\ dstatus' \in {"RUNNING", "OUTPUT_TOO_SMALL"}
      /\ inst.term /\ total + inst.size < need => dstatus' = "OUTPUT_TOO_SMALL"
      /\ UNCHANGED <<mode, code, tail, need, room>>
  BY DEF DecodeOne, Wanting
<1>2. /\ insts \in Seq(Decoded) /\ code \in Seq(Inst)
      /\ total \in Nat /\ need \in Nat /\ Origin \in Int /\ n \in Nat
  BY BlockAssumption DEF BlockInv, DecodeTypeOK
<1>3. inst \in Inst /\ inst.size \in Nat /\ inst.size > 0
  <2>1. n + 1 \in 1..Len(code)
    BY <1>1, <1>2
  <2>2. inst \in Inst
    BY <1>2, <2>1
  <2> HIDE DEF inst
  <2> QED BY <2>2 DEF Inst, MaxInstBytes
<1>4. new \in Decoded /\ new.address = Origin + total /\ new.inst = inst
  BY <1>2, <1>3 DEF Decoded
<1> HIDE DEF inst, new
<1>5. /\ insts' \in Seq(Decoded) /\ Len(insts') = n + 1
      /\ insts'[n + 1] = new
      /\ \A k \in 1..n : insts'[k] = insts[k]
  BY <1>1, <1>2, <1>4
<1>6. \A k \in 1..(n + 1) : k \in 1..n \/ k = n + 1
  BY <1>2
<1>7. DecodeTypeOK'
  BY <1>1, <1>2, <1>3, <1>5 DEF BlockInv, DecodeTypeOK
<1>8. NothingAfterTerminator'
  <2> SUFFICES ASSUME NEW k \in 1..n
               PROVE  ~insts[k].inst.term
    BY <1>2, <1>5 DEF NothingAfterTerminator
  <2>1. CASE k = n
    BY <1>1, <1>2, <2>1 DEF BlockInv, TerminatorStops
  <2>2. CASE k # n
    BY <1>2, <2>2 DEF BlockInv, NothingAfterTerminator
  <2> QED BY <2>1, <2>2
<1>9. TerminatorStops'
  BY <1>1, <1>2, <1>3, <1>4, <1>5 DEF TerminatorStops
<1>10. EachNeeded'
  <2> SUFFICES ASSUME NEW k \in 1..(n + 1)
               PROVE  insts'[k].address < Origin + need
    BY <1>1, <1>5 DEF EachNeeded
  <2>1. CASE k \in 1..n
    BY <1>1, <1>5, <2>1 DEF BlockInv, EachNeeded
  <2>2. CASE k = n + 1
    BY <1>1, <1>2, <1>4, <1>5, <2>2
  <2> QED BY <1>6, <2>1, <2>2
<1>11. Tiled'
  <2>1. ASSUME NEW k \in 1..(n + 1)
        PROVE  insts'[k].address + insts'[k].inst.size =
                  IF k < n + 1 THEN insts'[k + 1].address ELSE Origin + total'
    <3>1. CASE k = n + 1
      BY <1>1, <1>2, <1>3, <1>4, <1>5, <3>1
    <3>2. CASE k = n /\ k \in 1..n
      BY <1>2, <1>4, <1>5, <3>2 DEF BlockInv, Tiled
    <3>3. CASE k # n /\ k \in 1..n
      <4>1. k + 1 \in 1..n
        BY <1>2, <3>3
      <4>2. insts'[k] = insts[k] /\ insts'[k + 1] = insts[k + 1]
        BY <1>5, <3>3, <4>1
      <4>3. insts[k].address + insts[k].inst.size = insts[k + 1].address
        BY <1>2, <3>3, <4>1 DEF BlockInv, Tiled
      <4>4. k < n + 1
        BY <1>2, <3>3
      <4> QED BY <4>2, <4>3, <4>4
    <3> QED BY <1>6, <3>1, <3>2, <3>3
  <2>2. insts'[1].address = Origin
    <3>1. CASE n = 0
      <4>1. total = 0
        BY <1>2, <3>1 DEF BlockInv, Tiled
      <4> QED BY <1>2, <1>4, <1>5, <3>1, <4>1
    <3>2. CASE n > 0
      BY <1>2, <1>5, <3>2 DEF BlockInv, Tiled
    <3> QED BY <1>2, <3>1, <3>2
  <2> QED BY <1>5, <2>1, <2>2 DEF Tiled
<1>12. OkIsEnough'
  BY <1>1 DEF OkIsEnough
<1> QED BY <1>7, <1>8, <1>9, <1>10, <1>11, <1>12 DEF BlockInv

\* The exits of the loop keep it: they change nothing but the status.
LEMMA DecodeExitInv ==
    ASSUME BlockInv, DecodeFails \/ LoopEnds
    PROVE  BlockInv'
<1>1. /\ UNCHANGED <<mode, code, tail, need, room, insts, total>>
      /\ dstatus' \in {"OK", "OUTPUT_TOO_SMALL"} \cup DecodeFailures
      /\ dstatus' = "OK" => ~(total < need)
  BY DEF BlockInv, DecodeTypeOK, DecodeFails, LoopEnds, DecodeFailures
<1>2. dstatus' # "RUNNING"
  BY <1>1 DEF DecodeFailures
<1>3. DecodeTypeOK'
  BY <1>1 DEF BlockInv, DecodeTypeOK
<1>4. NothingAfterTerminator' /\ EachNeeded' /\ Tiled'
  BY <1>1 DEF BlockInv, NothingAfterTerminator, EachNeeded, Tiled
<1>5. TerminatorStops'
  BY <1>2 DEF TerminatorStops
<1>6. OkIsEnough'
  BY <1>1 DEF BlockInv, DecodeTypeOK, OkIsEnough
<1> QED BY <1>3, <1>4, <1>5, <1>6 DEF BlockInv

\* The whole loop keeps it, and so does everything that leaves it alone.
LEMMA DecodeStepInv ==
    ASSUME BlockInv, DecodeStep \/ UNCHANGED decodeVars
    PROVE  BlockInv'
<1>1. CASE DecodeOne
  BY <1>1, DecodeOneInv
<1>2. CASE DecodeFails \/ LoopEnds
  BY <1>2, DecodeExitInv
<1>3. CASE UNCHANGED decodeVars
  BY <1>3 DEF decodeVars, BlockInv, DecodeTypeOK, NothingAfterTerminator,
              TerminatorStops, EachNeeded, Tiled, OkIsEnough
<1> QED BY <1>1, <1>2, <1>3 DEF DecodeStep

\* asmkit_decode_block_until, for every code, need and capacity.
THEOREM BlockInvariant == BlockSpec => []BlockInv
<1>1. BlockInit => BlockInv
  BY DecodeInitInv, BlockAssumption DEF BlockInit
<1>2. BlockInv /\ [DecodeStep]_decodeVars => BlockInv'
  BY DecodeStepInv
<1> QED BY <1>1, <1>2, PTL DEF BlockSpec

\* Its variables keep their types.
THEOREM DecodeTypeCorrect == BlockSpec => []DecodeTypeOK
<1>1. BlockInv => DecodeTypeOK
  BY BlockInvImplies
<1> QED BY <1>1, BlockInvariant, PTL

\* It never decodes past a terminator.
THEOREM TerminatorEndsBlock == BlockSpec => []NothingAfterTerminator
<1>1. BlockInv => NothingAfterTerminator
  BY BlockInvImplies
<1> QED BY <1>1, BlockInvariant, PTL

\* Its block covers the bytes reported without gap, overlap or surplus.
THEOREM BlockAlwaysTiles == BlockSpec => []BlockTiles
<1>1. BlockInv => BlockTiles
  BY BlockInvImplies
<1> QED BY <1>1, BlockInvariant, PTL

-----------------------------------------------------------------------------
(***************************************************************************)
(* The refinement of BlockOracle.  It measures prefixes with a recursive   *)
(* function; that there is one is shown by induction, stated with sets: a  *)
(* nonempty set of naturals has a least element.                           *)
(***************************************************************************)
\* Every set of numbers that is not empty has a least one.
LEMMA LeastNumber ==
    ASSUME NEW T \in SUBSET Nat, T # {}
    PROVE  \E n \in T : \A m \in T : n <= m
<1>1. PICK n \in T : \A m \in T : ~(<<m, n>> \in OpToRel(<, Nat))
  BY WFMin, NatLessThanWellFounded, Zenon
<1>2. \A m \in T : <<m, n>> \in OpToRel(<, Nat) <=> m < n
  BY Zenon DEF OpToRel
<1>3. \A m \in T : ~(m < n)
  BY <1>1, <1>2
<1> QED BY <1>3

\* Induction, for a property given by the set of what has it.
LEMMA SetInduction ==
    ASSUME NEW S, 0 \in S, \A n \in Nat : n \in S => n + 1 \in S
    PROVE  Nat \subseteq S
<1> DEFINE T == {n \in Nat : n \notin S}
<1>1. SUFFICES ASSUME T # {} PROVE FALSE
  OBVIOUS
<1>2. PICK n \in T : \A m \in T : n <= m
  BY <1>1, LeastNumber
<1>3. n # 0 /\ n - 1 \in Nat
  BY <1>2
<1>4. n - 1 \notin T
  BY <1>2, <1>3
<1>5. n - 1 \in S
  BY <1>3, <1>4
<1>6. (n - 1) + 1 \in S
  BY <1>3, <1>5
<1> QED BY <1>2, <1>6

\* The sizes of the prefixes of a code.
Measures(c, n, g) ==
    /\ g \in [0..n -> Nat]
    /\ g[0] = 0
    /\ \A k \in 1..n : g[k] = g[k - 1] + c[k].size

\* There are sizes of prefixes,
LEMMA MeasureExists ==
    ASSUME NEW c \in Seq(Inst)
    PROVE  \E g : Measures(c, Len(c), g)
<1> DEFINE S == {n \in Nat : n <= Len(c) => \E g : Measures(c, n, g)}
<1>1. Len(c) \in Nat
  OBVIOUS
<1>2. 0 \in S
  <2>1. Measures(c, 0, [k \in 0..0 |-> 0])
    BY DEF Measures
  <2> QED BY <2>1
<1>3. ASSUME NEW n \in Nat, n \in S
      PROVE  n + 1 \in S
  <2>1. SUFFICES ASSUME n + 1 <= Len(c)
                 PROVE  \E g : Measures(c, n + 1, g)
    OBVIOUS
  <2>2. PICK g : Measures(c, n, g)
    BY <1>1, <1>3, <2>1
  <2>3. c[n + 1].size \in Nat
    <3> DEFINE inst == c[n + 1]
    <3>1. inst \in Inst
      BY <1>1, <2>1
    <3> HIDE DEF inst
    <3>2. inst.size \in Nat
      BY <3>1 DEF Inst, MaxInstBytes
    <3> QED BY <3>2 DEF inst
  <2> DEFINE h == [k \in 0..(n + 1) |-> IF k <= n THEN g[k] ELSE g[n] + c[n + 1].size]
  <2>4. h \in [0..(n + 1) -> Nat] /\ h[0] = 0
    BY <2>2, <2>3 DEF Measures
  <2>5. ASSUME NEW k \in 1..(n + 1)
        PROVE  h[k] = h[k - 1] + c[k].size
    <3>1. CASE k \in 1..n
      BY <2>2, <3>1 DEF Measures
    <3>2. CASE k = n + 1
      BY <2>2, <3>2 DEF Measures
    <3> QED BY <3>1, <3>2
  <2> HIDE DEF h
  <2>6. Measures(c, n + 1, h)
    BY <2>4, <2>5 DEF Measures
  <2> QED BY <2>6
<1> HIDE DEF S
<1>4. Nat \subseteq S
  BY <1>2, <1>3, SetInduction
<1> QED BY <1>1, <1>4 DEF S

\* which are those of the abstract specification.
LEMMA PrefixSizesMeasure ==
    ASSUME NEW c \in Seq(Inst)
    PROVE  Measures(c, Len(c), Oracle!PrefixSizes(c))
<1> DEFINE Def(g) == [k \in 0..Len(c) |-> IF k = 0 THEN 0 ELSE g[k - 1] + c[k].size]
<1>1. PICK g : Measures(c, Len(c), g)
  BY MeasureExists
<1>2. g = Def(g)
  BY <1>1 DEF Measures
<1>3. Oracle!PrefixSizes(c) = CHOOSE f : f = Def(f)
  BY DEF Oracle!PrefixSizes
<1>4. Oracle!PrefixSizes(c) = Def(Oracle!PrefixSizes(c))
  <2> HIDE DEF Def
  <2> QED BY <1>2, <1>3
<1> DEFINE f == Oracle!PrefixSizes(c)
           S == {n \in Nat : n <= Len(c) => f[n] = g[n]}
<1>5. Len(c) \in Nat
  OBVIOUS
<1> HIDE DEF f
<1>6. f = [k \in 0..Len(c) |-> IF k = 0 THEN 0 ELSE f[k - 1] + c[k].size]
  BY <1>4 DEF f
<1>7. 0 \in S
  <2>1. f[0] = 0 /\ g[0] = 0
    BY <1>1, <1>5, <1>6 DEF Measures
  <2> QED BY <2>1
<1>8. ASSUME NEW n \in Nat, n \in S
      PROVE  n + 1 \in S
  <2>1. SUFFICES ASSUME n + 1 <= Len(c)
                 PROVE  f[n + 1] = g[n + 1]
    OBVIOUS
  <2>2. n + 1 \in 1..Len(c) /\ n + 1 \in 0..Len(c) /\ n + 1 # 0 /\ (n + 1) - 1 = n
    BY <1>5, <2>1
  <2>3. g[n + 1] = g[(n + 1) - 1] + c[n + 1].size
    BY <1>1, <2>2 DEF Measures
  <2>4. f[n + 1] = f[(n + 1) - 1] + c[n + 1].size
    BY <1>6, <2>2
  <2>5. f[n] = g[n]
    BY <1>5, <1>8, <2>1
  <2> QED BY <2>2, <2>3, <2>4, <2>5
<1> HIDE DEF S
<1>9. Nat \subseteq S
  BY <1>7, <1>8, SetInduction
<1>10. \A n \in 0..Len(c) : f[n] = g[n]
  BY <1>5, <1>9 DEF S
<1>11. DOMAIN f = 0..Len(c) /\ f = [n \in 0..Len(c) |-> f[n]]
  BY <1>6
<1>12. f = g
  <2>1. g = [n \in 0..Len(c) |-> g[n]]
    BY <1>1 DEF Measures
  <2> QED BY <1>10, <1>11, <2>1
<1> QED BY <1>1, <1>12 DEF f

\* What has been decoded is a prefix of the code, measured, and at no point of it
\* before its end was there a reason to stop.
OracleInv ==
    /\ Len(insts) <= Len(code)
    /\ \A k \in 1..Len(insts) : insts[k].inst = code[k]
    /\ total = Oracle!PrefixSizes(code)[Len(insts)]
    /\ Len(insts) <= room /\ Len(insts) <= MaxBlock
    /\ \A j \in 0..(Len(insts) - 1) :
          /\ Oracle!PrefixSizes(code)[j] < need
          /\ j # room /\ j # MaxBlock
          /\ j > 0 => ~code[j].term

\* An entered call has no verdict.
LEMMA InitRefines ==
    ASSUME BlockInit
    PROVE  OracleInv /\ Verdict = Oracle!Undecided
<1>1. BlockInv
  BY DecodeInitInv, BlockAssumption DEF BlockInit
<1>2. insts = <<>> /\ total = 0 /\ dstatus = "RUNNING"
  BY DEF BlockInit, DecodeInit
<1>3. code \in Seq(Inst) /\ room \in Nat /\ Len(insts) = 0 /\ Len(code) \in Nat
  BY <1>1, <1>2 DEF BlockInv, DecodeTypeOK
<1>4. Oracle!PrefixSizes(code)[0] = 0
  BY <1>3, PrefixSizesMeasure DEF Measures
<1>5. OracleInv
  BY <1>2, <1>3, <1>4, BlockAssumption DEF OracleInv
<1>6. Verdict = Oracle!Undecided
  BY <1>2 DEF Verdict, Oracle!Undecided
<1> QED BY <1>5, <1>6

\* Where the loop stands, in the terms of the oracle.
LEMMA StandsAt ==
    ASSUME BlockInv, OracleInv
    PROVE  LET n == Len(insts)
           IN  /\ n \in 0..Len(code) /\ Len(code) \in Nat
               /\ need \in Nat /\ room \in Nat /\ MaxBlock \in Nat /\ total \in Nat
               /\ Oracle!Enough(n) <=> total >= need
               /\ Oracle!Full(n) <=> n >= room \/ n >= MaxBlock
               /\ Oracle!Terminal(n) <=> n > 0 /\ insts[n].inst.term
               /\ \A j \in 0..(n - 1) :
                     ~(Oracle!Enough(j) \/ Oracle!Full(j) \/ Oracle!Terminal(j))
<1> DEFINE n == Len(insts)
<1>1. /\ code \in Seq(Inst) /\ insts \in Seq(Decoded)
      /\ need \in Nat /\ room \in Nat /\ MaxBlock \in Nat /\ total \in Nat
  BY BlockAssumption DEF BlockInv, DecodeTypeOK
<1>2. n \in 0..Len(code) /\ Len(code) \in Nat /\ n <= room /\ n <= MaxBlock
  BY <1>1 DEF OracleInv
<1>3. Oracle!PrefixSizes(code) \in [0..Len(code) -> Nat]
  BY <1>1, PrefixSizesMeasure DEF Measures
<1>4. Oracle!Enough(n) <=> total >= need
  BY DEF OracleInv, Oracle!Enough
<1>5. Oracle!Full(n) <=> n >= room \/ n >= MaxBlock
  BY <1>1, <1>2 DEF Oracle!Full
<1>6. Oracle!Terminal(n) <=> n > 0 /\ insts[n].inst.term
  BY <1>2 DEF OracleInv, Oracle!Terminal
<1>7. ASSUME NEW j \in 0..(n - 1)
      PROVE  ~(Oracle!Enough(j) \/ Oracle!Full(j) \/ Oracle!Terminal(j))
  <2>1. /\ Oracle!PrefixSizes(code)[j] < need
        /\ j # room /\ j # MaxBlock
        /\ j > 0 => ~code[j].term
    BY <1>7 DEF OracleInv
  <2>2. Oracle!PrefixSizes(code)[j] \in Nat
    BY <1>2, <1>3
  <2> QED BY <1>1, <2>1, <2>2 DEF Oracle!Enough, Oracle!Full, Oracle!Terminal
<1> QED BY <1>1, <1>2, <1>4, <1>5, <1>6, <1>7

\* A turn that decodes an instruction goes on, which the oracle does not see, or
\* stops at a terminator where the oracle does.
LEMMA DecodeOneRefines ==
    ASSUME BlockInv, OracleInv, DecodeOne
    PROVE  /\ OracleInv'
           /\ Oracle!Decide \/ UNCHANGED <<code, tail, need, room, Verdict>>
<1> DEFINE n    == Len(insts)
           inst == code[n + 1]
           size == Oracle!PrefixSizes(code)
<1>1. /\ dstatus = "RUNNING" /\ total < need /\ n < room /\ n < MaxBlock
      /\ n < Len(code)
      /\ insts' = Append(insts, [address |-> Origin + total, inst |-> inst])
      /\ total' = total + inst.size
      /\ dstatus' = IF inst.term /\ total + inst.size < need
                    THEN "OUTPUT_TOO_SMALL" ELSE "RUNNING"
      /\ code' = code /\ tail' = tail /\ need' = need /\ room' = room
  BY DEF DecodeOne, Wanting
<1>2. /\ code \in Seq(Inst) /\ insts \in Seq(Decoded)
      /\ n \in 0..Len(code) /\ Len(code) \in Nat
      /\ need \in Nat /\ room \in Nat /\ MaxBlock \in Nat /\ total \in Nat
      /\ ~Oracle!Enough(n) /\ ~Oracle!Full(n)
      /\ Oracle!Terminal(n) <=> n > 0 /\ insts[n].inst.term
      /\ \A j \in 0..(n - 1) :
            ~(Oracle!Enough(j) \/ Oracle!Full(j) \/ Oracle!Terminal(j))
  BY <1>1, StandsAt DEF BlockInv, DecodeTypeOK
<1>3. inst \in Inst /\ inst.size \in Nat
  <2>1. n + 1 \in 1..Len(code)
    BY <1>1, <1>2
  <2>2. inst \in Inst
    BY <1>2, <2>1
  <2> HIDE DEF inst
  <2> QED BY <2>2 DEF Inst, MaxInstBytes
<1>4. ~Oracle!Terminal(n)
  BY <1>1, <1>2 DEF BlockInv, TerminatorStops
<1>5. size[n] = total /\ size[n + 1] = total + inst.size
  <2>1. Measures(code, Len(code), size)
    BY <1>2, PrefixSizesMeasure
  <2>2. n + 1 \in 1..Len(code) /\ (n + 1) - 1 = n
    BY <1>1, <1>2
  <2>3. size[n] = total
    BY DEF OracleInv
  <2> HIDE DEF size
  <2>4. size[n + 1] = size[(n + 1) - 1] + code[n + 1].size
    BY <2>1, <2>2 DEF Measures
  <2> QED BY <2>2, <2>3, <2>4
<1>6. /\ Len(insts') = n + 1
      /\ insts'[n + 1].inst = inst
      /\ \A k \in 1..n : insts'[k] = insts[k]
  <2> HIDE DEF inst
  <2>1. [address |-> Origin + total, inst |-> inst] \in Decoded
    BY <1>2, <1>3, BlockAssumption DEF Decoded
  <2> QED BY <1>1, <1>2, <2>1
<1>7. \A j \in 0..n : ~(Oracle!Enough(j) \/ Oracle!Full(j) \/ Oracle!Terminal(j))
  <2>1. \A j \in 0..n : j \in 0..(n - 1) \/ j = n
    BY <1>2
  <2> QED BY <1>2, <1>4, <2>1
<1> HIDE DEF inst
<1>8. OracleInv'
  <2>1. Len(insts') <= Len(code) /\ Len(insts') <= room /\ Len(insts') <= MaxBlock
    BY <1>1, <1>2, <1>6
  <2>2. ASSUME NEW k \in 1..(n + 1)
        PROVE  insts'[k].inst = code[k]
    <3>1. CASE k \in 1..n
      BY <1>6, <3>1 DEF OracleInv
    <3>2. CASE k = n + 1
      BY <1>6, <3>2 DEF inst
    <3> QED BY <1>2, <3>1, <3>2
  <2>3. total' = size[Len(insts')]
    BY <1>1, <1>5, <1>6
  <2>4. ASSUME NEW j \in 0..n
        PROVE  /\ size[j] < need
               /\ j # room /\ j # MaxBlock
               /\ j > 0 => ~code[j].term
    <3>1. size[j] \in Nat
      <4>1. size \in [0..Len(code) -> Nat]
        BY <1>2, PrefixSizesMeasure DEF Measures
      <4>2. j \in 0..Len(code)
        BY <1>1, <1>2
      <4> HIDE DEF size
      <4> QED BY <4>1, <4>2
    <3> QED BY <1>2, <1>7, <3>1 DEF Oracle!Enough, Oracle!Full, Oracle!Terminal
  <2>5. (n + 1) - 1 = n
    BY <1>2
  <2> HIDE DEF size
  <2>6. /\ \A k \in 1..Len(insts') : insts'[k].inst = code'[k]
        /\ \A j \in 0..(Len(insts') - 1) :
              /\ size[j] < need'
              /\ j # room' /\ j # MaxBlock
              /\ j > 0 => ~code'[j].term
    BY <1>1, <1>6, <2>2, <2>4, <2>5
  <2>7. total' = Oracle!PrefixSizes(code')[Len(insts')]
    BY <1>1, <2>3 DEF size
  <2> QED BY <1>1, <2>1, <2>6, <2>7 DEF OracleInv, size
<1>9. CASE inst.term /\ total + inst.size < need
  <2>1. dstatus' = "OUTPUT_TOO_SMALL"
    BY <1>1, <1>9
  <2>2. /\ Verdict = Oracle!Undecided
        /\ Verdict' = [status |-> "OUTPUT_TOO_SMALL", count |-> n + 1, total |-> size[n + 1]]
    <3> HIDE DEF size
    <3> QED BY <1>1, <1>5, <1>6, <2>1 DEF Verdict, Oracle!Undecided
  <2>3. Oracle!Terminal(n + 1)
    BY <1>2, <1>9 DEF Oracle!Terminal, inst
  <2>4. ~Oracle!Enough(n + 1)
    BY <1>2, <1>3, <1>5, <1>9 DEF Oracle!Enough
  <2>5. Oracle!StopsAt(n + 1)
    <3>1. 0..((n + 1) - 1) = 0..n
      BY <1>2
    <3> QED BY <1>7, <2>3, <3>1 DEF Oracle!StopsAt
  <2>6. n + 1 \in 0..Len(code)
    BY <1>1, <1>2
  <2>7. Oracle!Decide
    BY <1>1, <2>2, <2>3, <2>4, <2>5, <2>6 DEF Oracle!Decide
  <2> QED BY <1>8, <2>7
<1>10. CASE ~(inst.term /\ total + inst.size < need)
  <2>1. dstatus' = "RUNNING"
    BY <1>1, <1>10
  <2>2. Verdict' = Verdict
    BY <1>1, <2>1 DEF Verdict
  <2> QED BY <1>1, <1>8, <2>2
<1> QED BY <1>9, <1>10

\* The two exits of the loop are decisions of the oracle, at the same point and
\* with the same status.
LEMMA ExitRefines ==
    ASSUME BlockInv, OracleInv, DecodeFails \/ LoopEnds
    PROVE  OracleInv' /\ Oracle!Decide
<1> DEFINE n == Len(insts)
<1>1. /\ dstatus = "RUNNING"
      /\ code' = code /\ tail' = tail /\ need' = need /\ room' = room
      /\ insts' = insts /\ total' = total
  BY DEF DecodeFails, LoopEnds
<1>2. /\ n \in 0..Len(code) /\ Len(code) \in Nat
      /\ need \in Nat /\ room \in Nat /\ MaxBlock \in Nat /\ total \in Nat
      /\ Oracle!Enough(n) <=> total >= need
      /\ Oracle!Full(n) <=> n >= room \/ n >= MaxBlock
      /\ Oracle!Terminal(n) <=> n > 0 /\ insts[n].inst.term
      /\ \A j \in 0..(n - 1) :
            ~(Oracle!Enough(j) \/ Oracle!Full(j) \/ Oracle!Terminal(j))
  BY StandsAt
<1>3. OracleInv'
  BY <1>1 DEF OracleInv
<1>4. tail \in DecodeFailures /\ dstatus' # "RUNNING"
  BY DEF BlockInv, DecodeTypeOK, DecodeFails, LoopEnds, DecodeFailures
<1>5. /\ Verdict = Oracle!Undecided
      /\ Verdict' = [status |-> dstatus', count |-> n, total |-> Oracle!PrefixSizes(code)[n]]
  BY <1>1, <1>4 DEF Verdict, Oracle!Undecided, OracleInv
<1>6. Oracle!Terminal(n) => Oracle!Enough(n)
  BY <1>1, <1>2 DEF BlockInv, TerminatorStops
<1>7. CASE DecodeFails
  <2>1. ~Oracle!Enough(n) /\ ~Oracle!Full(n) /\ n = Len(code) /\ dstatus' = tail
    BY <1>2, <1>7 DEF DecodeFails, Wanting
  <2>2. Oracle!StopsAt(n)
    BY <1>2, <2>1 DEF Oracle!StopsAt
  <2> HIDE DEF n
  <2> QED BY <1>1, <1>2, <1>3, <1>5, <1>6, <2>1, <2>2 DEF Oracle!Decide
<1>8. CASE LoopEnds
  <2>1. /\ Oracle!Enough(n) \/ Oracle!Full(n)
        /\ dstatus' = IF Oracle!Enough(n) THEN "OK" ELSE "OUTPUT_TOO_SMALL"
    BY <1>2, <1>8 DEF LoopEnds, Wanting
  <2>2. Oracle!StopsAt(n)
    BY <1>2, <2>1 DEF Oracle!StopsAt
  <2> HIDE DEF n
  <2> QED BY <1>1, <1>2, <1>3, <1>5, <2>1, <2>2 DEF Oracle!Decide
<1> QED BY <1>7, <1>8

\* The loop implements its specification: for every code, need and capacity, it
\* stops at the shortest prefix with a reason to, with the status, the count and
\* the size that go with it.
THEOREM BlockImplementsOracle == BlockSpec => ImplementsOracle
<1>1. BlockInit => OracleInv /\ Verdict = Oracle!Undecided
  BY InitRefines
<1>2. BlockInv /\ OracleInv /\ [DecodeStep]_decodeVars
        => OracleInv' /\ [Oracle!Decide]_<<code, tail, need, room, Verdict>>
  <2>1. SUFFICES ASSUME BlockInv, OracleInv, [DecodeStep]_decodeVars
                 PROVE  OracleInv' /\ [Oracle!Decide]_<<code, tail, need, room, Verdict>>
    OBVIOUS
  <2>2. CASE DecodeOne
    BY <2>1, <2>2, DecodeOneRefines
  <2>3. CASE DecodeFails \/ LoopEnds
    BY <2>1, <2>3, ExitRefines
  <2>4. CASE UNCHANGED decodeVars
    BY <2>1, <2>4 DEF decodeVars, OracleInv, Verdict
  <2> QED BY <2>1, <2>2, <2>3, <2>4 DEF DecodeStep
<1> QED BY <1>1, <1>2, BlockInvariant, PTL
        DEF BlockSpec, ImplementsOracle, Oracle!Spec

-----------------------------------------------------------------------------
(***************************************************************************)
(* The relocator.  The buffer is written front to back: what has been      *)
(* emitted lies below `offset' while the loop runs, and each emission adds *)
(* items at or above it, within what is left of the buffer.                *)
(***************************************************************************)

\* Placing code moves its items and keeps everything else about them.
LEMMA PlacedItems ==
    ASSUME NEW items \in SUBSET Items, NEW at \in Nat
    PROVE  /\ Placed(items, at) \in SUBSET Items
           /\ \A it \in Placed(items, at) : \E x \in items :
                 /\ it = [x EXCEPT !.at = x.at + at]
                 /\ it.at = x.at + at /\ it.len = x.len /\ it.op = x.op
<1> SUFFICES ASSUME NEW it \in Placed(items, at)
             PROVE  /\ it \in Items
                    /\ \E x \in items : /\ it = [x EXCEPT !.at = x.at + at]
                                        /\ it.at = x.at + at /\ it.len = x.len
                                        /\ it.op = x.op
  OBVIOUS
<1>1. PICK x \in items : it = [x EXCEPT !.at = x.at + at]
  BY DEF Placed
<1>2. x \in Items /\ x.at \in Nat
  BY DEF Items
<1>3. it \in Items /\ it.at = x.at + at /\ it.len = x.len /\ it.op = x.op
  BY <1>1, <1>2 DEF Items
<1> QED BY <1>1, <1>3

\* Appending an emission to the code below `off' in a buffer of c bytes.
LEMMA AppendCode ==
    ASSUME NEW m, NEW o \in SUBSET Items, NEW off \in Nat, NEW c \in Nat, off <= c,
           \A it \in o : Within(it, off),
           \A a, b \in o : a # b => Disjoint(a, b),
           NEW r, Accountable(m, r, c - off)
    PROVE  /\ o \cup Placed(r.code, off) \in SUBSET Items
           /\ \A it \in o \cup Placed(r.code, off) : Within(it, c)
           /\ \A it \in o \cup Placed(r.code, off) : Within(it, off + r.size)
           /\ \A a, b \in o \cup Placed(r.code, off) : a # b => Disjoint(a, b)
           /\ \A it \in Placed(r.code, off) :
                 it.op = "load" => ScratchReg(m) \in r.clobbers
<1> DEFINE new == Placed(r.code, off)
<1>1. r.code \in SUBSET Items /\ r.size \in Nat
  BY DEF Accountable, EmitResults
<1>2. \A it \in Items : it.at \in Nat /\ it.len \in Nat
  BY DEF Items
<1>3. new \in SUBSET Items
  BY <1>1, PlacedItems
<1>4. \A it \in new : \E x \in r.code :
         /\ it = [x EXCEPT !.at = x.at + off]
         /\ it.at = x.at + off /\ it.len = x.len /\ it.op = x.op
  BY <1>1, PlacedItems
<1>5. \A it \in new : /\ off <= it.at
                      /\ Within(it, c) /\ Within(it, off + r.size)
                      /\ it.op = "load" => ScratchReg(m) \in r.clobbers
  <2> SUFFICES ASSUME NEW it \in new
               PROVE  /\ off <= it.at
                      /\ Within(it, c) /\ Within(it, off + r.size)
                      /\ it.op = "load" => ScratchReg(m) \in r.clobbers
    OBVIOUS
  <2>1. PICK x \in r.code : it.at = x.at + off /\ it.len = x.len /\ it.op = x.op
    BY <1>4
  <2>2. x.at \in Nat /\ x.len \in Nat
    BY <1>1, <1>2
  <2>3. x.at + x.len <= c - off /\ x.at + x.len <= r.size
    BY DEF Accountable, Within
  <2>4. x.op = "load" => ScratchReg(m) \in r.clobbers
    BY DEF Accountable
  <2> HIDE DEF new
  <2> QED BY <1>1, <2>1, <2>2, <2>3, <2>4 DEF Within
<1>6. \A a, b \in new : a # b => Disjoint(a, b)
  <2> SUFFICES ASSUME NEW a \in new, NEW b \in new, a # b
               PROVE  Disjoint(a, b)
    OBVIOUS
  <2>1. PICK x \in r.code : /\ a = [x EXCEPT !.at = x.at + off]
                            /\ a.at = x.at + off /\ a.len = x.len
    BY <1>4
  <2>2. PICK y \in r.code : /\ b = [y EXCEPT !.at = y.at + off]
                            /\ b.at = y.at + off /\ b.len = y.len
    BY <1>4
  <2>3. x # y
    BY <2>1, <2>2
  <2>4. Disjoint(x, y)
    BY <2>3 DEF Accountable
  <2>5. x.at \in Nat /\ x.len \in Nat /\ y.at \in Nat /\ y.len \in Nat
    BY <1>1, <1>2
  <2> HIDE DEF new
  <2> QED BY <2>1, <2>2, <2>4, <2>5 DEF Disjoint
<1> HIDE DEF new
<1>7. \A it \in o : it.at \in Nat /\ it.len \in Nat /\ it.at + it.len <= off
  BY <1>2 DEF Within
<1>8. \A it \in o : Within(it, c) /\ Within(it, off + r.size)
  BY <1>1, <1>7 DEF Within
<1>9. \A a \in o, b \in new : Disjoint(a, b) /\ Disjoint(b, a)
  <2>1. \A b \in new : b.at \in Nat /\ b.len \in Nat /\ off <= b.at
    BY <1>2, <1>3, <1>5
  <2> QED BY <1>7, <2>1 DEF Disjoint
<1>10. \A a, b \in o \cup new : a # b => Disjoint(a, b)
  BY <1>6, <1>9
<1> QED BY <1>3, <1>5, <1>8, <1>10 DEF new

-----------------------------------------------------------------------------
(***************************************************************************)
(* The inductive invariant.                                                *)
(***************************************************************************)

\* The phases of the call.
PhaseInv ==
    /\ rpc = "decode" => recs = <<>> /\ offset = 0 /\ out = {} /\ clob = {}
    /\ rpc = "relocate" => dstatus = "OK"
    /\ rpc # "done" => status = "NONE"

\* The layout of the buffer: all of it always within the capacity, and below
\* the offset while the loop runs.
BufferInv ==
    /\ offset <= cap
    /\ \A it \in out : Within(it, cap)
    /\ rpc # "done" => \A it \in out : Within(it, offset)
    /\ \A a, b \in out : a # b => Disjoint(a, b)

ClobberInv ==
    /\ \A it \in out : it.op = "load" => ScratchReg(mode) \in clob
    /\ rpc # "done" => clob \subseteq allowed
    /\ status = "OK" => clob \subseteq allowed

RecordInv ==
    /\ Len(recs) <= Len(insts)
    /\ \A k \in 1..Len(recs) :
          /\ recs[k].original = insts[k].address
          /\ recs[k].originalSize = insts[k].inst.size
          /\ recs[k].at + recs[k].size = IF k < Len(recs) THEN recs[k + 1].at ELSE offset
    /\ IF Len(recs) > 0 THEN recs[1].at = 0 ELSE offset = 0

ResultInv ==
    status = "OK" =>
        /\ dstatus = "OK"
        /\ Len(recs) = Len(insts)
        /\ result.count = Len(recs) /\ result.jumpAt = offset
        /\ result.overwritten = total

RelocateInv ==
    /\ BlockInv /\ TypeOK
    /\ PhaseInv /\ BufferInv /\ ClobberInv /\ RecordInv /\ ResultInv

\* The properties follow from it.
LEMMA RelocateInvImplies ==
    ASSUME RelocateInv
    PROVE  LayoutSound /\ RecordsMapPrologue /\ ClobbersAccounted
<1>1. NoOverrun
  BY DEF RelocateInv, BufferInv, Within, NoOverrun
<1>2. NoOverlap
  BY DEF RelocateInv, BufferInv, Disjoint, NoOverlap
<1>3. ClobbersAccounted
  BY DEF RelocateInv, ClobberInv, ClobbersAccounted
<1>4. RecordsMapPrologue
  <2>1. status = "OK" => result.overwritten >= need
    BY DEF RelocateInv, ResultInv, BlockInv, OkIsEnough
  <2>2. ASSUME status = "OK", Len(recs) > 0
        PROVE  recs[Len(recs)].original + recs[Len(recs)].originalSize
                 = Origin + result.overwritten
    <3> DEFINE n == Len(recs)
    <3>1. n = Len(insts) /\ result.overwritten = total
      BY <2>2 DEF RelocateInv, ResultInv
    <3>2. n \in 1..n
      <4>1. n \in Nat
        BY DEF RelocateInv, TypeOK
      <4> QED BY <2>2, <4>1
    <3>3. recs[n].original = insts[n].address /\ recs[n].originalSize = insts[n].inst.size
      BY <3>2 DEF RelocateInv, RecordInv
    <3>4. insts[n].address + insts[n].inst.size = Origin + total
      BY <3>1, <3>2 DEF RelocateInv, BlockInv, Tiled
    <3> QED BY <3>1, <3>3, <3>4
  <2> QED BY <2>1, <2>2 DEF RelocateInv, RecordInv, ResultInv, RecordsMapPrologue
<1> QED BY <1>1, <1>2, <1>3, <1>4 DEF LayoutSound

-----------------------------------------------------------------------------
(***************************************************************************)
(* The steps.                                                              *)
(***************************************************************************)

\* Nothing decoded, nothing emitted, and arguments of the right types.
CallBegins ==
    /\ DecodeInit /\ WorkInit
    /\ need \in Nat /\ room \in Nat \ {0}
    /\ raddr \in Int /\ cont \in Int /\ cap \in Nat
    /\ bmode \in BranchModes /\ allowed \in SUBSET Regs

\* A call begins.
LEMMA CallBeginsInv == CallBegins => RelocateInv
<1> SUFFICES ASSUME CallBegins
             PROVE  RelocateInv
  OBVIOUS
<1>1. BlockInv
  BY DecodeInitInv DEF CallBegins
<1>2. /\ rpc = "decode" /\ offset = 0 /\ recs = <<>> /\ out = {} /\ clob = {}
      /\ hazards = {} /\ result = NoResult /\ status = "NONE"
  BY DEF CallBegins, WorkInit
<1>3. Len(recs) = 0 /\ recs \in Seq(Records) /\ Len(insts) = 0
  BY <1>2 DEF CallBegins, DecodeInit
<1>4. TypeOK
  BY <1>1, <1>2, <1>3 DEF CallBegins, BlockInv, TypeOK, NoResult
<1>5. PhaseInv /\ ClobberInv /\ RecordInv /\ ResultInv
  BY <1>2, <1>3 DEF PhaseInv, ClobberInv, RecordInv, ResultInv
<1>6. BufferInv
  BY <1>2, <1>4 DEF BufferInv, TypeOK
<1> QED BY <1>1, <1>4, <1>5, <1>6 DEF RelocateInv

\* The call starts in it.
LEMMA RelocateInitInv ==
    ASSUME Init
    PROVE  RelocateInv
<1>1. CallBegins
  BY BlockAssumption, RelocateAssumption DEF Init, AtLeastOne, CallBegins
<1> QED BY <1>1, CallBeginsInv

\* The decoding phase touches nothing of the relocation.
LEMMA DecodingInv ==
    ASSUME RelocateInv, Decoding
    PROVE  RelocateInv'
<1>1. BlockInv'
  BY DecodeStepInv DEF RelocateInv, Decoding
<1>2. /\ rpc = "decode" /\ recs = <<>> /\ status = "NONE" /\ offset = 0
      /\ UNCHANGED <<raddr, cont, bmode, allowed, cap>>
      /\ UNCHANGED <<rpc, offset, recs, out, clob, hazards, result, status>>
  BY DEF RelocateInv, PhaseInv, Decoding, argVars, workVars
<1>3. mode' = mode
  BY DEF Decoding, DecodeStep, DecodeOne, DecodeFails, LoopEnds
<1>4. TypeOK'
  BY <1>1, <1>2 DEF RelocateInv, BlockInv, TypeOK
<1>5. PhaseInv'
  BY <1>2 DEF RelocateInv, PhaseInv
<1>6. BufferInv'
  BY <1>2 DEF RelocateInv, BufferInv
<1>7. ClobberInv'
  BY <1>2, <1>3 DEF RelocateInv, ClobberInv
<1>8. RecordInv'
  <2>1. Len(recs') = 0 /\ Len(insts') \in Nat /\ offset' = 0
    BY <1>1, <1>2 DEF BlockInv, DecodeTypeOK
  <2> QED BY <2>1 DEF RecordInv
<1>9. ResultInv'
  BY <1>2 DEF ResultInv
<1> QED BY <1>1, <1>4, <1>5, <1>6, <1>7, <1>8, <1>9 DEF RelocateInv

\* After a decoding that succeeded the loop over its instructions begins;
\* after one that failed, or was not begun, the call returns its status.
LEMMA BlockEndsInv ==
    ASSUME RelocateInv, BlockDecoded \/ BlockRefused \/ RelocateUnsupported
    PROVE  RelocateInv'
<1>1. /\ UNCHANGED <<mode, code, tail, need, room, insts, total, dstatus>>
      /\ UNCHANGED <<raddr, cont, bmode, allowed, cap>>
      /\ UNCHANGED <<offset, recs, out, clob, hazards, result>>
      /\ rpc = "decode" /\ rpc' \in {"relocate", "done"}
      /\ rpc' = "relocate" => dstatus = "OK" /\ status' = status
      /\ rpc' = "done" =>
            \/ status' = dstatus /\ dstatus \notin {"RUNNING", "OK"}
            \/ status' = "UNSUPPORTED_TARGET_OPERATION"
  BY DEF BlockDecoded, BlockRefused, RelocateUnsupported, decodeVars, argVars
<1>2. status = "NONE" /\ status' # "OK"
  BY <1>1 DEF RelocateInv, PhaseInv
<1>3. BlockInv'
  BY <1>1, DecodeStepInv DEF RelocateInv, decodeVars
<1>4. TypeOK'
  BY <1>1, <1>2, <1>3
     DEF RelocateInv, BlockInv, TypeOK, DecodeTypeOK, DecodeFailures, Statuses
<1>5. PhaseInv' /\ ResultInv'
  BY <1>1, <1>2 DEF PhaseInv, ResultInv
<1>6. BufferInv' /\ ClobberInv' /\ RecordInv'
  BY <1>1, <1>2 DEF RelocateInv, BufferInv, ClobberInv, RecordInv
<1> QED BY <1>3, <1>4, <1>5, <1>6 DEF RelocateInv

\* What every turn of the relocation loop preserves, and what its emission is.
LEMMA TurnFacts ==
    ASSUME RelocateInv, RelocateTurn
    PROVE  /\ BlockInv' /\ mode' = mode /\ cap' = cap /\ allowed' = allowed
           /\ insts' = insts /\ dstatus' = dstatus
           /\ Current \in Decoded
           /\ Contract(mode, Emission, cap - offset)
           /\ Emission.size \in Nat /\ Emission.clobbers \in SUBSET Regs
           /\ out' \in SUBSET Items
           /\ \A it \in out' : Within(it, cap) /\ Within(it, offset + Emission.size)
           /\ \A a, b \in out' : a # b => Disjoint(a, b)
           /\ \A it \in out' : it.op = "load" =>
                 ScratchReg(mode) \in clob \cup Emission.clobbers
           /\ Emission.status # "OK" => out' = out
           /\ hazards' \in SUBSET Hazards
<1>1. /\ rpc = "relocate" /\ Len(recs) < Len(insts)
      /\ out' = out \cup Placed(Emission.code, offset)
      /\ hazards' = hazards \cup Analyze(mode, Current.inst).hazards
      /\ UNCHANGED <<mode, code, tail, need, room, insts, total, dstatus>>
      /\ UNCHANGED <<raddr, cont, bmode, allowed, cap>>
  BY DEF RelocateTurn, decodeVars, argVars
<1>2. /\ insts \in Seq(Decoded) /\ mode \in Modes /\ raddr \in Int
      /\ offset \in Nat /\ cap \in Nat /\ offset <= cap /\ Len(recs) \in Nat
      /\ out \in SUBSET Items /\ hazards \in SUBSET Hazards
  BY DEF RelocateInv, TypeOK, DecodeTypeOK, BufferInv
<1>3. Current \in Decoded /\ Current.inst \in Inst
  <2>1. Len(recs) + 1 \in 1..Len(insts)
    BY <1>1, <1>2
  <2>2. Current \in Decoded
    BY <1>2, <2>1 DEF Current
  <2> QED BY <2>2 DEF Decoded
<1>4. Contract(mode, Emission, cap - offset)
  <2>1. raddr + offset \in Int /\ cap - offset \in Nat
    BY <1>2
  <2> QED BY <1>2, <1>3, <2>1, RelocateInstContract DEF Emission
<1>5. BlockInv'
  BY <1>1, DecodeStepInv DEF RelocateInv, decodeVars
<1>6. /\ Emission.size \in Nat /\ Emission.clobbers \in SUBSET Regs
      /\ Accountable(mode, Emission, cap - offset)
  BY <1>4 DEF Contract, Accountable, EmitResults
<1>7. /\ \A it \in out : Within(it, offset)
      /\ \A a, b \in out : a # b => Disjoint(a, b)
      /\ \A it \in out : it.op = "load" => ScratchReg(mode) \in clob
  BY <1>1 DEF RelocateInv, BufferInv, ClobberInv
<1>8. /\ out' \in SUBSET Items
      /\ \A it \in out' : Within(it, cap) /\ Within(it, offset + Emission.size)
      /\ \A a, b \in out' : a # b => Disjoint(a, b)
      /\ \A it \in Placed(Emission.code, offset) :
            it.op = "load" => ScratchReg(mode) \in Emission.clobbers
  <2> DEFINE r   == Emission
             new == out \cup Placed(r.code, offset)
  <2>1. Accountable(mode, r, cap - offset)
    BY <1>6
  <2> HIDE DEF r
  <2>2. /\ new \in SUBSET Items
        /\ \A it \in new : Within(it, cap)
        /\ \A it \in new : Within(it, offset + r.size)
        /\ \A a, b \in new : a # b => Disjoint(a, b)
        /\ \A it \in Placed(r.code, offset) : it.op = "load" => ScratchReg(mode) \in r.clobbers
    <3>1. /\ offset \in Nat /\ cap \in Nat /\ offset <= cap /\ out \in SUBSET Items
          /\ \A it \in out : Within(it, offset)
          /\ \A a, b \in out : a # b => Disjoint(a, b)
      BY <1>2, <1>7
    <3> QED BY ONLY <2>1, <3>1, AppendCode DEF new
  <2>3. out' = new
    BY <1>1 DEF r
  <2> HIDE DEF new
  <2> QED BY <2>2, <2>3 DEF r
<1>9. Emission.status # "OK" => out' = out
  <2>1. Emission.status # "OK" => Emission.code = {}
    BY <1>4 DEF Contract
  <2> QED BY <1>1, <2>1 DEF Placed
<1>10. Analyze(mode, Current.inst).hazards \in SUBSET Hazards
  BY DEF Analyze, X86Analyze, ArmAnalyze, A64Analyze, VmAnalyze, BpfAnalyze, WasmAnalyze,
         ControlHazards, Hazards
<1> QED BY <1>1, <1>2, <1>3, <1>4, <1>5, <1>6, <1>7, <1>8, <1>9, <1>10

\* A turn that moves an instruction extends the records by one.
LEMMA RelocateOneInv ==
    ASSUME RelocateInv, RelocateOne
    PROVE  RelocateInv'
<1> DEFINE n   == Len(recs)
           new == [original |-> Current.address, originalSize |-> Current.inst.size,
                   at |-> offset, size |-> Emission.size]
<1>1. /\ RelocateTurn /\ rpc = "relocate" /\ n < Len(insts)
      /\ Emission.status = "OK" /\ Emission.clobbers \subseteq allowed
      /\ recs' = Append(recs, new) /\ offset' = offset + Emission.size
      /\ clob' = clob \cup Emission.clobbers
      /\ rpc' = rpc /\ status' = status
      /\ UNCHANGED <<raddr, cont, bmode, allowed, cap, result>>
  BY DEF RelocateOne, RelocateTurn, argVars
<1>2. /\ BlockInv' /\ mode' = mode /\ insts' = insts /\ dstatus' = dstatus
      /\ Current \in Decoded
      /\ Contract(mode, Emission, cap - offset)
      /\ Emission.size \in Nat /\ Emission.clobbers \in SUBSET Regs
      /\ out' \in SUBSET Items
      /\ \A it \in out' : Within(it, cap) /\ Within(it, offset + Emission.size)
      /\ \A a, b \in out' : a # b => Disjoint(a, b)
      /\ \A it \in out' : it.op = "load" => ScratchReg(mode) \in clob \cup Emission.clobbers
      /\ hazards' \in SUBSET Hazards
  BY <1>1, TurnFacts
<1>3. /\ recs \in Seq(Records) /\ offset \in Nat /\ cap \in Nat /\ n \in Nat
      /\ clob \in SUBSET Regs /\ status = "NONE" /\ clob \subseteq allowed
      /\ dstatus = "OK" /\ Len(insts) \in Nat
  BY <1>1 DEF RelocateInv, TypeOK, PhaseInv, ClobberInv, DecodeTypeOK
<1>4. new \in Records
  <2>1. Current.address \in Int /\ Current.inst.size \in Nat
    BY <1>2 DEF Decoded, Inst, MaxInstBytes
  <2> QED BY <1>2, <1>3, <2>1 DEF Records
<1>5. /\ Len(recs') = n + 1 /\ recs' \in Seq(Records)
      /\ recs'[n + 1] = new /\ \A k \in 1..n : recs'[k] = recs[k]
  <2> HIDE DEF new
  <2> QED BY <1>1, <1>3, <1>4
<1>6. Emission.size <= cap - offset
  BY <1>1, <1>2 DEF Contract, Accountable
<1>7. TypeOK'
  <2> HIDE DEF new, n
  <2>1. DecodeTypeOK'
    BY <1>2 DEF BlockInv
  <2>2. /\ raddr' \in Int /\ cont' \in Int /\ cap' \in Nat
        /\ bmode' \in BranchModes /\ allowed' \in SUBSET Regs
        /\ rpc' \in {"decode", "relocate", "done"}
        /\ result' \in [overwritten: Nat, count: Nat, jumpAt: Nat, jumpSize: Nat]
        /\ status' \in Statuses \cup {"NONE"}
    BY <1>1 DEF RelocateInv, TypeOK
  <2>3. offset' \in Nat /\ clob' \in SUBSET Regs
    BY <1>1, <1>2, <1>3
  <2> QED BY <1>2, <1>5, <2>1, <2>2, <2>3 DEF TypeOK
<1>8. PhaseInv'
  BY <1>1, <1>2, <1>3 DEF PhaseInv
<1>9. BufferInv'
  BY <1>1, <1>2, <1>3, <1>6 DEF BufferInv
<1>10. ClobberInv'
  BY <1>1, <1>2, <1>3 DEF ClobberInv
<1>11. RecordInv'
  <2>1. ASSUME NEW k \in 1..(n + 1)
        PROVE  /\ recs'[k].original = insts[k].address
               /\ recs'[k].originalSize = insts[k].inst.size
               /\ recs'[k].at + recs'[k].size =
                     IF k < n + 1 THEN recs'[k + 1].at ELSE offset'
    <3>1. CASE k = n + 1
      BY <1>1, <1>3, <1>5, <3>1 DEF Current
    <3>2. CASE k = n /\ k \in 1..n
      BY <1>1, <1>3, <1>5, <3>2 DEF RelocateInv, RecordInv
    <3>3. CASE k # n /\ k \in 1..n
      <4>1. k + 1 \in 1..n
        BY <1>3, <3>3
      <4> QED BY <1>3, <1>5, <3>3, <4>1 DEF RelocateInv, RecordInv
    <3> QED BY <1>3, <3>1, <3>2, <3>3
  <2>2. recs'[1].at = 0
    <3>1. CASE n = 0
      <4>1. offset = 0
        BY <1>3, <3>1 DEF RelocateInv, RecordInv
      <4> QED BY <1>5, <3>1, <4>1
    <3>2. CASE n > 0
      BY <1>3, <1>5, <3>2 DEF RelocateInv, RecordInv
    <3> QED BY <1>3, <3>1, <3>2
  <2>3. Len(recs') = n + 1 /\ n \in Nat /\ n < Len(insts) /\ insts' = insts
    BY <1>1, <1>2, <1>3, <1>5
  <2> HIDE DEF n
  <2> QED BY <2>1, <2>2, <2>3 DEF RecordInv
<1>12. ResultInv'
  BY <1>1, <1>3 DEF ResultInv
<1> QED BY <1>2, <1>7, <1>8, <1>9, <1>10, <1>11, <1>12 DEF RelocateInv

\* A turn that is refused, by the relocator or for its clobbers, ends the call.
LEMMA RelocateEndsInv ==
    ASSUME RelocateInv, RelocateRefused \/ RelocateClobbers
    PROVE  RelocateInv'
<1>1. /\ RelocateTurn /\ rpc = "relocate" /\ rpc' = "done"
      /\ clob' = (IF Emission.status = "OK" THEN clob \cup Emission.clobbers ELSE clob)
      /\ status' = (IF Emission.status = "OK" THEN "FORBIDDEN_CLOBBER" ELSE Emission.status)
      /\ UNCHANGED <<raddr, cont, bmode, allowed, cap, result, recs, offset>>
  BY DEF RelocateRefused, RelocateClobbers, RelocateTurn, argVars
<1>2. /\ BlockInv' /\ mode' = mode /\ insts' = insts
      /\ Contract(mode, Emission, cap - offset)
      /\ Emission.clobbers \in SUBSET Regs
      /\ out' \in SUBSET Items
      /\ \A it \in out' : Within(it, cap)
      /\ \A a, b \in out' : a # b => Disjoint(a, b)
      /\ \A it \in out' : it.op = "load" => ScratchReg(mode) \in clob \cup Emission.clobbers
      /\ Emission.status # "OK" => out' = out
      /\ hazards' \in SUBSET Hazards
  BY <1>1, TurnFacts
<1>3. status' \in Statuses /\ status' # "OK" /\ clob' \in SUBSET Regs
  BY <1>1, <1>2 DEF RelocateInv, TypeOK, Contract, Accountable, EmitResults, Statuses
<1>4. TypeOK'
  BY <1>1, <1>2, <1>3 DEF RelocateInv, BlockInv, TypeOK
<1>5. PhaseInv' /\ ResultInv'
  BY <1>1, <1>3 DEF PhaseInv, ResultInv
<1>6. BufferInv'
  BY <1>1, <1>2 DEF RelocateInv, BufferInv
<1>7. ClobberInv'
  BY <1>1, <1>2, <1>3 DEF RelocateInv, ClobberInv
<1>8. RecordInv'
  BY <1>1, <1>2 DEF RelocateInv, RecordInv
<1> QED BY <1>2, <1>4, <1>5, <1>6, <1>7, <1>8 DEF RelocateInv

\* The jump back, whether it succeeds or not, ends the call.
LEMMA JumpBackInv ==
    ASSUME RelocateInv, JumpBack \/ JumpBackFails
    PROVE  RelocateInv'
<1> DEFINE opts == [given |-> TRUE, mode |-> bmode, allowed |-> allowed]
<1>1. /\ rpc = "relocate" /\ rpc' = "done" /\ Len(recs) = Len(insts)
      /\ out' = out \cup Placed(Return.code, offset)
      /\ status' = Return.status
      /\ clob' = (IF Return.status \in {"OK", "FORBIDDEN_CLOBBER"}
                  THEN clob \cup Return.clobbers ELSE clob)
      /\ Return.status = "OK" =>
            result' = [overwritten |-> total, count |-> Len(insts),
                       jumpAt |-> offset, jumpSize |-> Return.size]
      /\ Return.status # "OK" => result' = [result EXCEPT !.jumpAt = offset]
      /\ UNCHANGED <<mode, code, tail, need, room, insts, total, dstatus>>
      /\ UNCHANGED <<raddr, cont, bmode, allowed, cap, offset, recs, hazards>>
  BY DEF JumpBack, JumpBackFails, JumpBackTurn, decodeVars, argVars
<1>2. /\ mode \in Modes /\ raddr \in Int /\ cont \in Int /\ bmode \in BranchModes
      /\ allowed \in SUBSET Regs /\ offset \in Nat /\ cap \in Nat /\ offset <= cap
      /\ out \in SUBSET Items /\ clob \in SUBSET Regs /\ total \in Nat
      /\ Len(insts) \in Nat /\ dstatus = "OK" /\ clob \subseteq allowed
      /\ result \in [overwritten: Nat, count: Nat, jumpAt: Nat, jumpSize: Nat]
  BY <1>1 DEF RelocateInv, TypeOK, DecodeTypeOK, BufferInv, PhaseInv, ClobberInv
<1>3. Accountable(mode, Return, cap - offset)
  <2>1. opts \in EmitOptions /\ raddr + offset \in Int /\ cap - offset \in Nat
    BY <1>2 DEF EmitOptions
  <2> QED BY <1>2, <2>1, EmitTransferContract DEF Return, EmitJump
<1>4. Return.status = "OK" => Return.clobbers \subseteq allowed
  <2>1. opts.given /\ opts.allowed = allowed
    OBVIOUS
  <2> HIDE DEF opts
  <2> QED BY <2>1, EmittedClobbersAllowed DEF Return, EmitJump, opts
<1>5. /\ Return.status \in Statuses /\ Return.size \in Nat
      /\ Return.clobbers \in SUBSET Regs
  BY <1>3 DEF Accountable, EmitResults
<1>6. BlockInv'
  BY <1>1, DecodeStepInv DEF RelocateInv, decodeVars
<1>7. /\ \A it \in out : Within(it, offset)
      /\ \A a, b \in out : a # b => Disjoint(a, b)
      /\ \A it \in out : it.op = "load" => ScratchReg(mode) \in clob
  BY <1>1 DEF RelocateInv, BufferInv, ClobberInv
<1>8. /\ out' \in SUBSET Items
      /\ \A it \in out' : Within(it, cap)
      /\ \A a, b \in out' : a # b => Disjoint(a, b)
      /\ \A it \in Placed(Return.code, offset) :
            it.op = "load" => ScratchReg(mode) \in Return.clobbers
  <2> DEFINE r   == Return
             new == out \cup Placed(r.code, offset)
  <2>1. /\ Accountable(mode, r, cap - offset)
        /\ out \in SUBSET Items /\ offset \in Nat /\ cap \in Nat /\ offset <= cap
        /\ \A it \in out : Within(it, offset)
        /\ \A a, b \in out : a # b => Disjoint(a, b)
    BY <1>2, <1>3, <1>7
  <2> HIDE DEF r
  <2>2. /\ new \in SUBSET Items
        /\ \A it \in new : Within(it, cap)
        /\ \A it \in new : Within(it, offset + r.size)
        /\ \A a, b \in new : a # b => Disjoint(a, b)
        /\ \A it \in Placed(r.code, offset) : it.op = "load" => ScratchReg(mode) \in r.clobbers
    BY <2>1, AppendCode
  <2>3. out' = new
    BY <1>1 DEF r
  <2> HIDE DEF new
  <2> QED BY <2>2, <2>3 DEF r
<1>9. Return.status \notin {"OK", "FORBIDDEN_CLOBBER"} => Placed(Return.code, offset) = {}
  <2>1. Return.status \notin {"OK", "FORBIDDEN_CLOBBER"} => Return.code = {}
    BY <1>3 DEF Accountable
  <2> QED BY <2>1 DEF Placed
<1> HIDE DEF opts
<1>10. TypeOK'
  <2>1. result' \in [overwritten: Nat, count: Nat, jumpAt: Nat, jumpSize: Nat]
    BY <1>1, <1>2, <1>5
  <2>2. clob' \in SUBSET Regs
    BY <1>1, <1>2, <1>5
  <2> QED BY <1>1, <1>5, <1>6, <1>8, <2>1, <2>2 DEF RelocateInv, BlockInv, TypeOK
<1>11. PhaseInv'
  BY <1>1 DEF PhaseInv
<1>12. BufferInv'
  BY <1>1, <1>2, <1>8 DEF BufferInv
<1>13. ClobberInv'
  <2>1. \A it \in out' : it.op = "load" => ScratchReg(mode) \in clob'
    BY <1>1, <1>7, <1>8, <1>9
  <2>2. status' = "OK" => clob' \subseteq allowed'
    BY <1>1, <1>2, <1>4
  <2> QED BY <1>1, <2>1, <2>2 DEF ClobberInv
<1>14. RecordInv'
  BY <1>1 DEF RelocateInv, RecordInv
<1>15. ResultInv'
  BY <1>1, <1>2 DEF ResultInv
<1> QED BY <1>6, <1>10, <1>11, <1>12, <1>13, <1>14, <1>15 DEF RelocateInv

\* Every step keeps it.
LEMMA RelocateStepInv ==
    ASSUME RelocateInv, [Next]_vars
    PROVE  RelocateInv'
<1>1. CASE Decoding
  BY <1>1, DecodingInv
<1>2. CASE BlockDecoded \/ BlockRefused \/ RelocateUnsupported
  BY <1>2, BlockEndsInv
<1>3. CASE RelocateOne
  BY <1>3, RelocateOneInv
<1>4. CASE RelocateRefused \/ RelocateClobbers
  BY <1>4, RelocateEndsInv
<1>5. CASE JumpBack \/ JumpBackFails
  BY <1>5, JumpBackInv
<1>6. CASE UNCHANGED vars
  <2>1. BlockInv'
    BY <1>6, DecodeStepInv DEF RelocateInv, vars
  <2> QED BY <1>6, <2>1
          DEF vars, argVars, workVars, decodeVars, RelocateInv, BlockInv, TypeOK, PhaseInv,
              BufferInv, ClobberInv, RecordInv, ResultInv
<1> QED BY <1>1, <1>2, <1>3, <1>4, <1>5, <1>6 DEF Next

-----------------------------------------------------------------------------
(***************************************************************************)
(* The theorems.                                                           *)
(***************************************************************************)

\* asmkit_relocate_prologue stays in the inductive invariant.
THEOREM RelocateInvariant == Spec => []RelocateInv
<1>1. Init => RelocateInv
  BY RelocateInitInv
<1>2. RelocateInv /\ [Next]_vars => RelocateInv'
  BY RelocateStepInv
<1> QED BY <1>1, <1>2, PTL DEF Spec

\* Its variables keep their types.
THEOREM TypeCorrect == Spec => []TypeOK
<1>1. RelocateInv => TypeOK
  BY DEF RelocateInv
<1> QED BY <1>1, RelocateInvariant, PTL

\* It never writes outside the caller's buffer, nor twice over the same bytes.
THEOREM LayoutAlwaysSound == Spec => []LayoutSound
<1>1. RelocateInv => LayoutSound
  BY RelocateInvImplies
<1> QED BY <1>1, RelocateInvariant, PTL

\* Its records map the overwritten bytes onto the buffer without a gap.
THEOREM RecordsAlwaysMap == Spec => []RecordsMapPrologue
<1>1. RelocateInv => RecordsMapPrologue
  BY RelocateInvImplies
<1> QED BY <1>1, RelocateInvariant, PTL

\* It reports every register its code destroys, and destroys none that was
\* not granted when it succeeds.
THEOREM ClobbersAlwaysAccounted == Spec => []ClobbersAccounted
<1>1. RelocateInv => ClobbersAccounted
  BY RelocateInvImplies
<1> QED BY <1>1, RelocateInvariant, PTL

-----------------------------------------------------------------------------
(***************************************************************************)
(* Where the relocated code leads.  This takes what the decoders guarantee *)
(* of their instructions and, for AArch64, that the buffer starts and      *)
(* continues on a whole word of the original code's alignment.             *)
(***************************************************************************)

\* Code reaches no less when more code stands beside it.
LEMMA ReachesMore ==
    ASSUME NEW m, NEW S, NEW T, S \subseteq T, NEW base, NEW it
    PROVE  Reaches(m, S, base, it) \subseteq Reaches(m, T, base, it)
  BY DEF Reaches

\* Code that leads somewhere still does when it is placed in the buffer.
LEMMA PlacedAims ==
    ASSUME NEW m, NEW raddr0 \in Int, NEW off \in Nat, NEW to, NEW r,
           r.code \in SUBSET Items, Aims(m, r, raddr0 + off, to),
           NEW S, Placed(Sent(r), off) \subseteq S
    PROVE  \E it \in S : to \in Reaches(m, S, raddr0, it)
<1> DEFINE Moved(x) == [x EXCEPT !.at = x.at + off]
<1>1. \A x \in Sent(r) : Moved(x) \in S
  BY DEF Placed
<1>2. \A x \in Items : /\ Moved(x).op = x.op /\ Moved(x).len = x.len
                       /\ Moved(x).disp = x.disp /\ Moved(x).inst = x.inst
                       /\ Moved(x).at = x.at + off /\ x.at \in Nat
  BY DEF Items
<1>3. Sent(r) \subseteq Items
  BY DEF Sent
<1>4. PICK it \in Sent(r) : to \in Reaches(m, Sent(r), raddr0 + off, it)
  BY DEF Aims
<1> DEFINE y     == Moved(it)
           where == Points(m, raddr0 + off + it.at, it)
<1>5. y \in S /\ y.op = it.op /\ y.at = it.at + off
  BY <1>1, <1>2, <1>3
<1>6. Points(m, raddr0 + y.at, y) = where
  <2>1. raddr0 + y.at = raddr0 + off + it.at
    <3>1. it.at \in Nat
      BY <1>2, <1>3
    <3> HIDE DEF y
    <3> QED BY <1>5, <3>1
  <2>2. y.op = it.op /\ y.len = it.len /\ y.disp = it.disp /\ y.inst = it.inst
    BY <1>2, <1>3
  <2> HIDE DEF y
  <2> QED BY <2>1, <2>2 DEF Points, FetchedLen
<1> HIDE DEF y, where
<1>7. CASE it.op \in DirectOps
  <2>1. to = where
    BY <1>4, <1>7 DEF Reaches, DirectOps, where
  <2>2. to \in Reaches(m, S, raddr0, y)
    BY <1>5, <1>6, <1>7, <2>1 DEF Reaches, DirectOps
  <2> QED BY <1>5, <2>2
<1>8. CASE it.op \notin DirectOps
  <2>1. /\ it.op \in ThroughOps
        /\ to \in {d.disp : d \in {x \in Sent(r) : x.op = "data" /\ raddr0 + off + x.at = where}}
    BY <1>4, <1>8 DEF Reaches, DirectOps, ThroughOps, where
  <2>2. PICK x \in Sent(r) : x.op = "data" /\ raddr0 + off + x.at = where /\ x.disp = to
    BY <2>1
  <2> DEFINE z == Moved(x)
  <2>3. z \in S /\ z.op = "data" /\ z.disp = to /\ z.at = x.at + off /\ x.at \in Nat
    BY <1>1, <1>2, <1>3, <2>2
  <2> HIDE DEF z
  <2>4. raddr0 + z.at = where
    BY <2>2, <2>3
  <2>5. to \in {d.disp : d \in {u \in S : u.op = "data" /\ raddr0 + u.at = where}}
    BY <2>3, <2>4
  <2>6. to \in Reaches(m, S, raddr0, y)
    BY <1>5, <1>6, <1>8, <2>1, <2>5 DEF Reaches, DirectOps, ThroughOps
  <2> QED BY <1>5, <2>6
<1> QED BY <1>7, <1>8

-----------------------------------------------------------------------------

\* What has been decoded is decodable, and AArch64 code fills whole words.
DecodableInv ==
    /\ \A k \in 1..Len(code) : Decodable(mode, code[k])
    /\ \A k \in 1..Len(insts) : Decodable(mode, insts[k].inst)

WordsInv == mode = "a64" => offset % 4 = 0

TargetInv == DecodableInv /\ WordsInv /\ TargetsKept

\* An instruction keeps its target while code is added to the buffer.
LEMMA KeepsOn ==
    ASSUME NEW k, Keeps(k), out \subseteq out', recs'[k] = recs[k],
           insts' = insts, mode' = mode, raddr' = raddr
    PROVE  Keeps(k)'
<1>1. CodeOf(k) \subseteq CodeOf(k)'
  BY DEF CodeOf
<1>2. PICK it \in CodeOf(k) : insts[k].inst.target \in Reaches(mode, CodeOf(k), raddr, it)
  BY DEF Keeps
<1> DEFINE T == CodeOf(k)'
<1>3. it \in T /\ CodeOf(k) \subseteq T
  BY <1>1
<1> HIDE DEF T
<1>4. insts[k].inst.target \in Reaches(mode, T, raddr, it)
  BY <1>2, <1>3, ReachesMore
<1> QED BY <1>3, <1>4 DEF Keeps, T

\* So all those moved before do.
LEMMA EarlierKept ==
    ASSUME OperandsKept, out \subseteq out', insts' = insts, mode' = mode, raddr' = raddr,
           NEW k \in 1..Len(recs), recs'[k] = recs[k],
           WordsStayWords', (insts[k].inst.pcrel /\ ~Excepted(k))'
    PROVE  Keeps(k)'
<1>1. WordsStayWords /\ insts[k].inst.pcrel /\ ~Excepted(k)
  BY DEF WordsStayWords, Excepted
<1>2. Keeps(k)
  BY <1>1 DEF OperandsKept
<1> QED BY <1>2, KeepsOn

\* What refers to its target goes on doing so when more is written behind it.
LEMMA AllEarlierKept ==
    ASSUME OperandsKept, out \subseteq out', recs' = recs, insts' = insts,
           mode' = mode, raddr' = raddr
    PROVE  OperandsKept'
<1> SUFFICES ASSUME WordsStayWords', NEW k \in 1..Len(recs),
                    (insts[k].inst.pcrel /\ ~Excepted(k))'
             PROVE  Keeps(k)'
  BY DEF OperandsKept
<1> QED BY EarlierKept

\* Addresses that are whole words from a third are whole words apart.
LEMMA WholeWordsApart ==
    ASSUME NEW to \in Int, NEW origin \in Int, NEW placed \in Int, NEW off \in Nat,
           (to - origin) % 4 = 0, (placed - origin) % 4 = 0, off % 4 = 0
    PROVE  (to - (placed + off)) % 4 = 0
<1>1. /\ to - origin = 4 * ((to - origin) \div 4)
      /\ placed - origin = 4 * ((placed - origin) \div 4)
      /\ off = 4 * (off \div 4)
  OBVIOUS
<1>2. PICK a \in Int, b \in Int, c \in Int :
         to - origin = 4 * a /\ placed - origin = 4 * b /\ off = 4 * c
  BY <1>1
<1>3. to - (placed + off) = 4 * (a - b - c)
  BY <1>2
<1> QED BY <1>3

\* Nothing has been moved when the call begins.
LEMMA CallBeginsTargets == CallBegins => TargetInv
<1> SUFFICES ASSUME CallBegins
             PROVE  TargetInv
  OBVIOUS
<1>1. DecodableInv
  <2>1. PICK p \in Programs : mode = p.mode /\ code = p.code
    BY DEF CallBegins, DecodeInit
  <2>2. insts = <<>>
    BY DEF CallBegins, DecodeInit
  <2> QED BY <2>1, <2>2, DecoderAssumption DEF DecodableInv
<1>2. recs = <<>> /\ offset = 0 /\ status = "NONE"
  BY DEF CallBegins, WorkInit
<1> QED BY <1>1, <1>2 DEF TargetInv, WordsInv, TargetsKept, OperandsKept, ReturnKept

\* Decoding adds instructions, all of them decodable, and moves none.
LEMMA DecodingTargets ==
    ASSUME RelocateInv, TargetInv, Decoding
    PROVE  TargetInv'
<1>1. /\ rpc = "decode" /\ recs = <<>> /\ status = "NONE" /\ offset = 0
      /\ UNCHANGED <<offset, recs, status>>
      /\ code' = code /\ mode' = mode
  BY DEF RelocateInv, PhaseInv, Decoding, workVars, DecodeStep, DecodeOne,
         DecodeFails, LoopEnds
<1>2. DecodableInv'
  <2>1. CASE insts' = insts
    BY <1>1, <2>1 DEF TargetInv, DecodableInv
  <2>2. CASE DecodeOne
    <3> DEFINE n   == Len(insts)
               new == [address |-> Origin + total, inst |-> code[n + 1]]
    <3>1. insts' = Append(insts, new) /\ n < Len(code)
      BY <2>2 DEF DecodeOne
    <3>2. insts \in Seq(Decoded) /\ code \in Seq(Inst) /\ n \in Nat
      BY DEF RelocateInv, TypeOK, DecodeTypeOK
    <3>3. new \in Decoded
      <4>1. n + 1 \in 1..Len(code)
        BY <3>1, <3>2
      <4>2. code[n + 1] \in Inst
        BY <3>2, <4>1
      <4>3. Origin + total \in Int
        BY BlockAssumption DEF RelocateInv, TypeOK, DecodeTypeOK
      <4> QED BY <4>2, <4>3 DEF Decoded
    <3>4. new.inst = code[n + 1] /\ Decodable(mode, code[n + 1])
      <4>1. n + 1 \in 1..Len(code)
        BY <3>1, <3>2
      <4> QED BY <4>1 DEF TargetInv, DecodableInv
    <3> HIDE DEF new
    <3>5. /\ Len(insts') = n + 1 /\ insts'[n + 1] = new
          /\ \A k \in 1..n : insts'[k] = insts[k]
      BY <3>1, <3>2, <3>3
    <3>6. \A k \in 1..(n + 1) : Decodable(mode, insts'[k].inst)
      <4> SUFFICES ASSUME NEW k \in 1..(n + 1)
                   PROVE  Decodable(mode, insts'[k].inst)
        OBVIOUS
      <4>1. CASE k = n + 1
        BY <3>4, <3>5, <4>1
      <4>2. CASE k \in 1..n
        BY <3>5, <4>2 DEF TargetInv, DecodableInv
      <4> QED BY <3>2, <4>1, <4>2
    <3> QED BY <1>1, <3>5, <3>6 DEF TargetInv, DecodableInv
  <2> QED BY <2>1, <2>2 DEF Decoding, DecodeStep, DecodeFails, LoopEnds
<1> QED BY <1>1, <1>2 DEF TargetInv, WordsInv, TargetsKept, OperandsKept, ReturnKept

\* The end of the decoding phase moves nothing either.
LEMMA BlockEndsTargets ==
    ASSUME RelocateInv, TargetInv, BlockDecoded \/ BlockRefused \/ RelocateUnsupported
    PROVE  TargetInv'
<1>1. /\ UNCHANGED <<mode, code, insts, raddr, offset, recs, out>>
      /\ recs = <<>> /\ status' # "OK"
  BY DEF BlockDecoded, BlockRefused, RelocateUnsupported, decodeVars, argVars,
         RelocateInv, PhaseInv
<1> QED BY <1>1 DEF TargetInv, DecodableInv, WordsInv, TargetsKept, OperandsKept, ReturnKept

\* The emission of a turn that succeeds leads to its instruction's target.
LEMMA EmissionAims ==
    ASSUME RelocateInv, TargetInv, RelocateTurn, Emission.status = "OK",
           WordsStayWords, Current.inst.pcrel,
           ~(mode = "x86_16" /\ Current.inst.cls = "condBranch"),
           ~(mode = "a32" /\ Current.inst.cls = "directCall" /\ Emission.size = 12),
           Current.inst.enc # "misread"
    PROVE  Aims(mode, Emission, raddr + offset, Current.inst.target)
<1> DEFINE inst == Current.inst
<1>1. /\ mode \in Modes /\ raddr \in Int /\ offset \in Nat /\ Origin \in Int
      /\ insts \in Seq(Decoded) /\ Len(recs) \in Nat /\ Len(recs) < Len(insts)
  BY BlockAssumption DEF RelocateInv, TypeOK, DecodeTypeOK, RelocateTurn
<1>2. inst \in Inst /\ Decodable(mode, inst)
  <2>1. Len(recs) + 1 \in 1..Len(insts)
    BY <1>1
  <2>2. Current \in Decoded
    BY <1>1, <2>1 DEF Current
  <2> QED BY <2>1, <2>2 DEF Current, TargetInv, DecodableInv, Decoded
<1> HIDE DEF inst
<1>3. inst.target \in Int
  BY <1>2 DEF Inst
<1>4. mode = "a64" /\ inst.enc \in A64Conditionals \cup {"literal"} =>
          (inst.target - (raddr + offset)) % 4 = 0
  <2> SUFFICES ASSUME mode = "a64", inst.enc \in A64Conditionals \cup {"literal"}
               PROVE  (inst.target - (raddr + offset)) % 4 = 0
    OBVIOUS
  <2>1. (inst.target - Origin) % 4 = 0
    BY <1>2 DEF Decodable
  <2>2. (raddr - Origin) % 4 = 0 /\ offset % 4 = 0
    BY DEF WordsStayWords, TargetInv, WordsInv
  <2> QED BY <1>1, <1>3, <2>1, <2>2, WholeWordsApart
<1>5. /\ mode \in X86Modes \cup {"a64"} => inst.operand
      /\ mode = "a64" /\ inst.enc = "adrp" => inst.target % PageSize = 0
      /\ inst.pcrel
  BY <1>2 DEF Decodable, inst
<1>6. Emission = RelocateInst(mode, inst, raddr + offset, cap - offset)
  BY DEF Emission, inst
<1>7. /\ ~(mode = "x86_16" /\ inst.cls = "condBranch")
      /\ ~(mode = "a32" /\ inst.cls = "directCall" /\ Emission.size = 12)
      /\ inst.enc # "misread"
  BY DEF inst
<1>8. raddr + offset \in Int
  BY <1>1
<1>9. Aims(mode, Emission, raddr + offset, inst.target)
  BY <1>1, <1>2, <1>4, <1>5, <1>6, <1>7, <1>8, RelocateInstAims
<1> QED BY <1>9 DEF inst

\* The items of an emission that is placed lie where the offset was.
LEMMA PlacedHead ==
    ASSUME NEW r, r.code \in SUBSET Items, r.size \in Nat, NEW off \in Nat
    PROVE  /\ Placed(Sent(r), off) \subseteq Placed(r.code, off)
           /\ \A it \in Placed(Sent(r), off) : off <= it.at /\ it.at < off + r.size
<1>1. Sent(r) \subseteq r.code
  BY DEF Sent
<1>2. Placed(Sent(r), off) \subseteq Placed(r.code, off)
  BY <1>1 DEF Placed
<1>3. ASSUME NEW it \in Placed(Sent(r), off)
      PROVE  off <= it.at /\ it.at < off + r.size
  <2>1. PICK x \in Sent(r) : it = [x EXCEPT !.at = x.at + off]
    BY <1>3 DEF Placed
  <2>2. x \in Items /\ x.at < r.size
    BY <1>1 DEF Sent
  <2>3. x.at \in Nat /\ it.at = x.at + off
    BY <2>1, <2>2 DEF Items
  <2> QED BY <2>2, <2>3
<1> QED BY <1>2, <1>3

\* A turn that moves an instruction keeps its target, and those before it.
LEMMA RelocateOneTargets ==
    ASSUME RelocateInv, TargetInv, RelocateOne
    PROVE  TargetInv'
<1> DEFINE n   == Len(recs)
           new == [original |-> Current.address, originalSize |-> Current.inst.size,
                   at |-> offset, size |-> Emission.size]
<1>1. /\ RelocateTurn /\ Emission.status = "OK"
      /\ recs' = Append(recs, new) /\ offset' = offset + Emission.size
      /\ out' = out \cup Placed(Emission.code, offset)
      /\ UNCHANGED <<mode, code, insts, raddr, status>>
      /\ status = "NONE" /\ n < Len(insts)
  BY DEF RelocateOne, RelocateTurn, decodeVars, argVars, RelocateInv, PhaseInv
<1>2. /\ Current \in Decoded /\ Emission.size \in Nat
      /\ Contract(mode, Emission, cap - offset)
  BY <1>1, TurnFacts
<1>3. /\ recs \in Seq(Records) /\ offset \in Nat /\ n \in Nat /\ raddr \in Int
      /\ Emission.code \in SUBSET Items
  BY <1>2 DEF RelocateInv, TypeOK, Contract, Accountable, EmitResults
<1>4. new \in Records
  <2>1. Current.address \in Int /\ Current.inst.size \in Nat
    BY <1>2 DEF Decoded, Inst, MaxInstBytes
  <2> QED BY <1>2, <1>3, <2>1 DEF Records
<1>5. /\ Len(recs') = n + 1
      /\ recs'[n + 1] = new /\ \A k \in 1..n : recs'[k] = recs[k]
  <2> HIDE DEF new
  <2> QED BY <1>1, <1>3, <1>4
<1>6. WordsInv'
  <2> SUFFICES ASSUME mode = "a64"
               PROVE  (offset + Emission.size) % 4 = 0
    BY <1>1 DEF WordsInv
  <2>1. Current.inst \in Inst /\ Decodable(mode, Current.inst)
    <3>1. n + 1 \in 1..Len(insts)
      <4>1. Len(insts) \in Nat
        BY DEF RelocateInv, TypeOK, DecodeTypeOK
      <4> QED BY <1>1, <1>3, <4>1
    <3> QED BY <1>2, <3>1 DEF Decoded, Current, TargetInv, DecodableInv
  <2>2. Current.inst.size = 4
    BY <2>1 DEF Decodable
  <2>3. Emission = A64Relocate(Current.inst, raddr + offset, cap - offset)
    BY DEF Emission, RelocateInst, X86Modes
  <2>4. Emission.size % 4 = 0
    BY <1>1, <2>1, <2>2, <2>3, A64RelocateWords
  <2>5. offset % 4 = 0
    BY DEF TargetInv, WordsInv
  <2> QED BY <1>2, <1>3, <2>4, <2>5
<1>7. OperandsKept'
  <2> SUFFICES ASSUME WordsStayWords', NEW k \in 1..(n + 1),
                      (insts[k].inst.pcrel /\ ~Excepted(k))'
               PROVE  Keeps(k)'
    BY <1>5 DEF OperandsKept
  <2>1. CASE k \in 1..n
    BY <1>1, <1>5, <2>1, EarlierKept DEF TargetInv, TargetsKept
  <2>2. CASE k = n + 1
    <3> DEFINE r == Emission
               S == CodeOf(k)'
    <3>1. insts[k] = Current /\ insts'[k] = Current /\ recs'[k] = new
      BY <1>1, <1>5, <2>2 DEF Current
    <3>2. WordsStayWords /\ Current.inst.pcrel
      BY <1>1, <3>1 DEF WordsStayWords
    <3>3. /\ ~(mode = "x86_16" /\ Current.inst.cls = "condBranch")
          /\ ~(mode = "a32" /\ Current.inst.cls = "directCall" /\ Emission.size = 12)
          /\ Current.inst.enc # "misread"
      BY <1>1, <3>1 DEF Excepted
    <3>4. Aims(mode, r, raddr + offset, Current.inst.target)
      BY <1>1, <3>2, <3>3, EmissionAims
    <3>5. Placed(Sent(r), offset) \subseteq S
      <4>1. recs'[k].at = offset /\ recs'[k].size = r.size
        BY <3>1
      <4>2. out' = out \cup Placed(r.code, offset)
        BY <1>1
      <4>3. r.code \in SUBSET Items /\ r.size \in Nat
        BY <1>2, <1>3
      <4> HIDE DEF r
      <4>4. /\ Placed(Sent(r), offset) \subseteq Placed(r.code, offset)
            /\ \A it \in Placed(Sent(r), offset) : offset <= it.at /\ it.at < offset + r.size
        BY <1>3, <4>3, PlacedHead
      <4> QED BY <4>1, <4>2, <4>4 DEF CodeOf
    <3>6. r.code \in SUBSET Items
      BY <1>3
    <3> HIDE DEF r, S
    <3>7. \E it \in S : Current.inst.target \in Reaches(mode, S, raddr, it)
      BY <1>3, <3>4, <3>5, <3>6, PlacedAims
    <3> QED BY <1>1, <3>1, <3>7 DEF Keeps, S
  <2> QED BY <1>3, <2>1, <2>2
<1>8. DecodableInv' /\ ReturnKept'
  BY <1>1 DEF TargetInv, DecodableInv, ReturnKept
<1> QED BY <1>6, <1>7, <1>8 DEF TargetInv, TargetsKept

\* A turn that is refused leaves what it has written behind.
LEMMA RelocateEndsTargets ==
    ASSUME RelocateInv, TargetInv, RelocateRefused \/ RelocateClobbers
    PROVE  TargetInv'
<1>1. /\ RelocateTurn /\ UNCHANGED <<mode, code, insts, raddr, recs, offset>>
      /\ out \subseteq out' /\ status' = (IF Emission.status = "OK"
                                         THEN "FORBIDDEN_CLOBBER" ELSE Emission.status)
  BY DEF RelocateRefused, RelocateClobbers, RelocateTurn, decodeVars, argVars
<1>2. OperandsKept'
  BY <1>1, AllEarlierKept DEF TargetInv, TargetsKept
<1>3. DecodableInv' /\ WordsInv' /\ ReturnKept'
  BY <1>1 DEF TargetInv, DecodableInv, WordsInv, ReturnKept
<1> QED BY <1>2, <1>3 DEF TargetInv, TargetsKept

\* The jump back, when it succeeds, goes to the continuation.
LEMMA JumpBackTargets ==
    ASSUME RelocateInv, TargetInv, JumpBack \/ JumpBackFails
    PROVE  TargetInv'
<1> DEFINE opts == [given |-> TRUE, mode |-> bmode, allowed |-> allowed]
<1>1. /\ out' = out \cup Placed(Return.code, offset)
      /\ status' = Return.status /\ result'.jumpAt = offset
      /\ UNCHANGED <<mode, code, insts, raddr, cont, recs, offset>>
  <2>1. result \in [overwritten: Nat, count: Nat, jumpAt: Nat, jumpSize: Nat]
    BY DEF RelocateInv, TypeOK
  <2> QED BY <2>1 DEF JumpBack, JumpBackFails, JumpBackTurn, decodeVars, argVars
<1>2. OperandsKept'
  BY <1>1, AllEarlierKept DEF TargetInv, TargetsKept
<1>3. ReturnKept'
  <2> SUFFICES ASSUME Return.status = "OK"
               PROVE  (\E it \in JumpBackCode :
                           cont \in Reaches(mode, JumpBackCode, raddr, it))'
    BY <1>1 DEF ReturnKept
  <2> DEFINE r == Return
             S == JumpBackCode'
  <2>1. /\ mode \in Modes /\ raddr \in Int /\ cont \in Int /\ bmode \in BranchModes
        /\ allowed \in SUBSET Regs /\ offset \in Nat /\ cap - offset \in Nat
    <3>1. /\ mode \in Modes /\ raddr \in Int /\ cont \in Int /\ bmode \in BranchModes
          /\ allowed \in SUBSET Regs /\ offset \in Nat /\ cap \in Nat /\ offset <= cap
      BY DEF RelocateInv, TypeOK, DecodeTypeOK, BufferInv
    <3> QED BY <3>1
  <2>2. raddr + offset \in Int
    BY <2>1
  <2>3. r.code \in SUBSET Items /\ r.size \in Nat
    <3>1. opts \in EmitOptions
      BY <2>1 DEF EmitOptions
    <3>2. Accountable(mode, Return, cap - offset)
      BY <2>1, <2>2, <3>1, EmitTransferContract DEF Return, EmitJump
    <3> QED BY <3>2 DEF Accountable, EmitResults
  <2>4. Aims(mode, r, raddr + offset, cont)
    BY <2>1, <2>2, EmitJumpAims DEF Return
  <2>5. Placed(Sent(r), offset) \subseteq S
    <3>1. out' = out \cup Placed(r.code, offset) /\ result'.jumpAt = offset
      BY <1>1
    <3> HIDE DEF r
    <3>2. /\ Placed(Sent(r), offset) \subseteq Placed(r.code, offset)
          /\ \A it \in Placed(Sent(r), offset) : offset <= it.at
      BY <2>1, <2>3, PlacedHead
    <3> QED BY <3>1, <3>2 DEF JumpBackCode
  <2> HIDE DEF r, S
  <2>6. \E it \in S : cont \in Reaches(mode, S, raddr, it)
    BY <2>1, <2>3, <2>4, <2>5, PlacedAims
  <2> QED BY <1>1, <2>6 DEF S
<1>4. DecodableInv' /\ WordsInv'
  BY <1>1 DEF TargetInv, DecodableInv, WordsInv
<1> QED BY <1>2, <1>3, <1>4 DEF TargetInv, TargetsKept

\* Every step keeps the targets.
LEMMA TargetStepInv ==
    ASSUME RelocateInv, TargetInv, [Next]_vars
    PROVE  TargetInv'
<1>1. CASE UNCHANGED vars
  <2>1. /\ UNCHANGED <<mode, code, insts, raddr, cont, recs, offset, out, status, result>>
    BY <1>1 DEF vars, decodeVars, argVars, workVars
  <2>2. OperandsKept'
    BY <2>1, AllEarlierKept DEF TargetInv, TargetsKept
  <2>3. DecodableInv' /\ WordsInv' /\ ReturnKept'
    BY <2>1 DEF TargetInv, TargetsKept, DecodableInv, WordsInv, ReturnKept, JumpBackCode
  <2> QED BY <2>2, <2>3 DEF TargetInv, TargetsKept
<1> QED BY <1>1, DecodingTargets, BlockEndsTargets, RelocateOneTargets,
           RelocateEndsTargets, JumpBackTargets DEF Next

\* The relocated prologue refers where the original did, for every program that
\* is decodable and every placement, and the jump back reaches the continuation.
THEOREM TargetsAlwaysKept == Spec => []TargetsKept
<1>1. Init => RelocateInv /\ TargetInv
  <2>1. Init => CallBegins
    BY BlockAssumption, RelocateAssumption DEF Init, AtLeastOne, CallBegins
  <2> QED BY <2>1, CallBeginsInv, CallBeginsTargets
<1>2. RelocateInv /\ TargetInv /\ [Next]_vars => RelocateInv' /\ TargetInv'
  BY RelocateStepInv, TargetStepInv
<1>3. TargetInv => TargetsKept
  BY DEF TargetInv
<1> QED BY <1>1, <1>2, <1>3, PTL DEF Spec
=============================================================================
