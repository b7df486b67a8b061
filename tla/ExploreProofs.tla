---------------------------- MODULE ExploreProofs ----------------------------
(***************************************************************************)
(* Theorems about following the successors of the control analysis, for    *)
(* every code whose classes and flags say what its instructions do.  The   *)
(* byte AsmKit keeps for an IT block stands for the conditions left in it, *)
(* so that a successor's state is where the processor gets to; and the     *)
(* places visited are closed under successors, up to those pending.        *)
(***************************************************************************)
EXTENDS Explore, SequenceTheorems, TLAPS

-----------------------------------------------------------------------------
(***************************************************************************)
(* The IT state.                                                           *)
(***************************************************************************)

\* The bits of a number, and the place of the lowest one of a mask.
LEMMA Bits ==
    ASSUME NEW n \in Int
    PROVE  /\ Bit(n, 0) = n % 2
           /\ Bit(n, 1) = (n \div 2) % 2
           /\ Bit(n, 2) = (n \div 4) % 2
           /\ Bit(n, 3) = (n \div 8) % 2
           /\ Bit(n, 4) = (n \div 16) % 2
  BY DEF Bit

LowestBit(mask) ==
    IF mask % 2 = 1 THEN 0 ELSE IF mask % 4 = 2 THEN 1 ELSE IF mask % 8 = 4 THEN 2 ELSE 3

\* An IT block is as long as its mask says by its lowest bit.
LEMMA ItLengthIs ==
    ASSUME NEW mask \in 1..15
    PROVE  ItLength(mask) = 4 - LowestBit(mask)
<1> DEFINE P(k) == Bit(mask, k) = 1 /\ \A j \in 0..(k - 1) : Bit(mask, j) = 0
<1>1. /\ Bit(mask, 0) = mask % 2
      /\ Bit(mask, 1) = (mask \div 2) % 2
      /\ Bit(mask, 2) = (mask \div 4) % 2
      /\ Bit(mask, 3) = (mask \div 8) % 2
  <2>1. mask \in Int
    OBVIOUS
  <2> QED BY <2>1, Bits
<1>2. /\ P(0) <=> mask % 2 = 1
      /\ P(1) <=> mask % 4 = 2
      /\ P(2) <=> mask % 8 = 4
      /\ P(3) <=> mask = 8
  <2>1. P(0) <=> Bit(mask, 0) = 1
    OBVIOUS
  <2>2. P(1) <=> Bit(mask, 1) = 1 /\ Bit(mask, 0) = 0
    <3>1. 0..(1 - 1) = {0}
      OBVIOUS
    <3> QED BY <3>1
  <2>3. P(2) <=> Bit(mask, 2) = 1 /\ Bit(mask, 1) = 0 /\ Bit(mask, 0) = 0
    <3>1. 0..(2 - 1) = {0, 1}
      OBVIOUS
    <3> QED BY <3>1
  <2>4. P(3) <=> Bit(mask, 3) = 1 /\ Bit(mask, 2) = 0 /\ Bit(mask, 1) = 0 /\ Bit(mask, 0) = 0
    <3>1. 0..(3 - 1) = {0, 1, 2}
      OBVIOUS
    <3> QED BY <3>1
  <2> HIDE DEF P
  <2> QED BY <1>1, <2>1, <2>2, <2>3, <2>4
<1> HIDE DEF P
<1>3. LowestBit(mask) \in 0..3 /\ \A k \in 0..3 : P(k) <=> k = LowestBit(mask)
  <2>1. mask % 2 = 1 \/ mask % 4 = 2 \/ mask % 8 = 4 \/ mask = 8
    OBVIOUS
  <2>2. 0..3 = {0, 1, 2, 3}
    OBVIOUS
  <2> QED BY <1>2, <2>1, <2>2 DEF LowestBit
<1>4. (CHOOSE k \in 0..3 : P(k)) = LowestBit(mask)
  BY <1>3
<1> QED BY <1>4 DEF ItLength, P

\* The conditions a byte of IT state stands for.
Left(v) == [n \in 1..ItLength(v % 16) |-> 2 * (v \div 32) + Bit(v, 5 - n)]

\* The conditions a byte stands for: one per place left, each the first condition's upper
\* bits and a bit of the mask.
LEMMA LeftIs ==
    ASSUME NEW v \in 0..255, v % 16 # 0
    PROVE  /\ Left(v) \in Seq(Conditions) /\ Left(v) # <<>>
           /\ Len(Left(v)) = 4 - LowestBit(v % 16)
           /\ Len(Left(v)) \in 1..4
           /\ \A n \in 1..Len(Left(v)) : Left(v)[n] = 2 * (v \div 32) + Bit(v, 5 - n)
<1> DEFINE len == 4 - LowestBit(v % 16)
           e(n) == 2 * (v \div 32) + Bit(v, 5 - n)
<1>1. ItLength(v % 16) = len
  BY ItLengthIs
<1>2. len \in 1..4
  BY DEF LowestBit
<1>3. \A n \in 1..4 : e(n) \in Conditions
  <2>1. v \in Int
    OBVIOUS
  <2>2. \A n \in {1, 2, 3, 4} : Bit(v, 5 - n) \in {0, 1}
    <3>1. /\ Bit(v, 1) = (v \div 2) % 2 /\ Bit(v, 2) = (v \div 4) % 2
          /\ Bit(v, 3) = (v \div 8) % 2 /\ Bit(v, 4) = (v \div 16) % 2
      BY <2>1, Bits
    <3>2. \A x \in Nat : x % 2 \in {0, 1}
      OBVIOUS
    <3>3. v \div 2 \in Nat /\ v \div 4 \in Nat /\ v \div 8 \in Nat /\ v \div 16 \in Nat
      OBVIOUS
    <3>4. \A k \in {1, 2, 3, 4} : Bit(v, k) \in {0, 1}
      BY <3>1, <3>2, <3>3
    <3> QED BY <3>4
  <2>3. 1..4 = {1, 2, 3, 4}
    OBVIOUS
  <2>4. v \div 32 \in 0..7
    OBVIOUS
  <2>5. SUFFICES ASSUME NEW n \in 1..4 PROVE e(n) \in Conditions
    OBVIOUS
  <2>6. Bit(v, 5 - n) \in {0, 1}
    BY <2>2, <2>3
  <2> HIDE DEF e
  <2> QED BY <2>4, <2>6 DEF e, Conditions
<1>4. Left(v) = [n \in 1..len |-> e(n)]
  BY <1>1 DEF Left
<1> HIDE DEF len, e
<1>5. Left(v) \in [1..len -> Conditions]
  BY <1>2, <1>3, <1>4
<1>6. Left(v) \in Seq(Conditions) /\ Len(Left(v)) = len
  BY <1>2, <1>5
<1>7. Left(v) # <<>>
  BY <1>2, <1>5, <1>6
<1> QED BY <1>2, <1>4, <1>6, <1>7 DEF len, e

\* Moving the low bits up leaves what is behind the first condition.
LEMMA LeftAdvances ==
    ASSUME NEW v \in 0..255, v % 8 # 0
    PROVE  /\ AdvanceIt(v) \in 0..255 /\ AdvanceIt(v) % 16 # 0
           /\ Left(AdvanceIt(v)) = Tail(Left(v))
<1> DEFINE w == AdvanceIt(v)
<1>1. w = 32 * (v \div 32) + ((2 * v) % 32)
  BY DEF AdvanceIt
<1>2. /\ w \in 0..255
      /\ w % 16 = (2 * v) % 16 /\ w % 16 # 0
      /\ w \div 32 = v \div 32
  <2> DEFINE a == v \div 32
             b == (2 * v) % 32
  <2>1. a \in 0..7 /\ b \in 0..31 /\ (2 * v) % 16 = b % 16 /\ b % 16 # 0
    OBVIOUS
  <2>2. w = 32 * a + b
    BY <1>1
  <2> HIDE DEF a, b, w
  <2>3. w \in 0..255 /\ w % 16 = b % 16 /\ w \div 32 = a
    BY <2>1, <2>2
  <2> QED BY <2>1, <2>3 DEF a
<1>3. /\ (w \div 16) % 2 = (v \div 8) % 2
      /\ (w \div 8) % 2 = (v \div 4) % 2
      /\ (w \div 4) % 2 = (v \div 2) % 2
  BY <1>1
<1>4. v % 16 # 0
  OBVIOUS
<1>5. LowestBit(w % 16) = LowestBit(v % 16) + 1
  <2>1. w % 16 = 2 * (v % 8)
    BY <1>2
  <2>2. /\ (v % 16) % 2 = v % 2 /\ (v % 16) % 4 = v % 4 /\ (v % 16) % 8 = v % 8
        /\ (2 * (v % 8)) % 2 = 0
        /\ (2 * (v % 8)) % 4 = 2 <=> v % 2 = 1
        /\ (2 * (v % 8)) % 8 = 4 <=> v % 4 = 2
    OBVIOUS
  <2>3. v % 2 = 1 \/ v % 4 = 2 \/ v % 8 = 4
    OBVIOUS
  <2>4. v % 8 = 4 => v % 4 # 2
    OBVIOUS
  <2> HIDE DEF w
  <2> QED BY <2>1, <2>2, <2>3, <2>4 DEF LowestBit
<1> HIDE DEF w
<1>6. /\ Left(v) \in Seq(Conditions) /\ Len(Left(v)) \in 1..4
      /\ Len(Left(v)) = 4 - LowestBit(v % 16)
      /\ \A n \in 1..Len(Left(v)) : Left(v)[n] = 2 * (v \div 32) + Bit(v, 5 - n)
  BY <1>4, LeftIs
<1>7. /\ Left(w) \in Seq(Conditions)
      /\ Len(Left(w)) = 4 - LowestBit(w % 16)
      /\ \A n \in 1..Len(Left(w)) : Left(w)[n] = 2 * (w \div 32) + Bit(w, 5 - n)
  BY <1>2, LeftIs
<1>8. LowestBit(v % 16) \in 0..3
  BY DEF LowestBit
<1>9. Len(Left(w)) = Len(Left(v)) - 1 /\ Len(Left(w)) \in 0..3
  BY <1>5, <1>6, <1>7, <1>8
<1>10. /\ Tail(Left(v)) \in Seq(Conditions)
       /\ Len(Tail(Left(v))) = Len(Left(v)) - 1
       /\ \A n \in 1..Len(Tail(Left(v))) : Tail(Left(v))[n] = Left(v)[n + 1]
  <2>1. Left(v) # <<>>
    BY <1>6
  <2> QED BY <1>6, <2>1, HeadTailProperties
<1>11. \A n \in 1..3 : Bit(w, 5 - n) = Bit(v, 5 - (n + 1))
  <2>1. v \in Int /\ w \in Int
    BY <1>2
  <2>2. Bit(w, 4) = Bit(v, 3) /\ Bit(w, 3) = Bit(v, 2) /\ Bit(w, 2) = Bit(v, 1)
    <3>1. /\ Bit(w, 2) = (w \div 4) % 2 /\ Bit(w, 3) = (w \div 8) % 2
          /\ Bit(w, 4) = (w \div 16) % 2
      BY <2>1, Bits
    <3>2. /\ Bit(v, 1) = (v \div 2) % 2 /\ Bit(v, 2) = (v \div 4) % 2
          /\ Bit(v, 3) = (v \div 8) % 2
      BY <2>1, Bits
    <3> QED BY <1>3, <3>1, <3>2
  <2>3. 1..3 = {1, 2, 3}
    OBVIOUS
  <2>4. /\ 5 - 1 = 4 /\ 5 - 2 = 3 /\ 5 - 3 = 2
        /\ 5 - (1 + 1) = 3 /\ 5 - (2 + 1) = 2 /\ 5 - (3 + 1) = 1
    OBVIOUS
  <2>5. \A n \in {1, 2, 3} : Bit(w, 5 - n) = Bit(v, 5 - (n + 1))
    BY <2>2, <2>4
  <2> QED BY <2>3, <2>5
<1>12. ASSUME NEW n \in 1..Len(Left(w))
       PROVE  Left(w)[n] = Tail(Left(v))[n]
  <2>1. n \in 1..3 /\ n \in 1..Len(Tail(Left(v))) /\ n + 1 \in 1..Len(Left(v))
    BY <1>6, <1>9, <1>10
  <2>2. Left(w)[n] = 2 * (w \div 32) + Bit(w, 5 - n)
    BY <1>7
  <2>3. Tail(Left(v))[n] = 2 * (v \div 32) + Bit(v, 5 - (n + 1))
    BY <1>6, <1>10, <2>1
  <2>4. Bit(w, 5 - n) = Bit(v, 5 - (n + 1))
    BY <1>11, <2>1
  <2> QED BY <1>2, <2>2, <2>3, <2>4
<1>13. Left(w) = Tail(Left(v))
  <2>1. Len(Left(w)) = Len(Tail(Left(v)))
    BY <1>9, <1>10
  <2> HIDE DEF Left
  <2> QED BY <1>7, <1>10, <1>12, <2>1, SeqEqual
<1> QED BY <1>2, <1>13 DEF w

\* The last condition is gone when the low bits end in 1000.
LEMMA LeftEnds ==
    ASSUME NEW v \in 0..255, v % 16 # 0, v % 8 = 0
    PROVE  AdvanceIt(v) = 0 /\ Tail(Left(v)) = <<>>
<1>1. AdvanceIt(v) = 0
  BY DEF AdvanceIt
<1>2. LowestBit(v % 16) = 3
  BY DEF LowestBit
<1>3. Left(v) \in Seq(Conditions) /\ Len(Left(v)) = 1
  <2>1. Left(v) \in Seq(Conditions) /\ Len(Left(v)) = 4 - LowestBit(v % 16)
    BY LeftIs
  <2> QED BY <1>2, <2>1
<1>4. Tail(Left(v)) \in Seq(Conditions) /\ Len(Tail(Left(v))) = 0
  <2>1. Left(v) # <<>>
    BY <1>3
  <2> QED BY <1>3, <2>1, HeadTailProperties
<1> QED BY <1>1, <1>4, EmptySeq

\* An IT instruction gives the byte that stands for its conditions.
ItByte(first, mask) == ((16 * first) % 256) + mask

LEMMA LeftBegins ==
    ASSUME NEW first \in 0..15, NEW mask \in 1..15
    PROVE  /\ ItByte(first, mask) \in 0..255 /\ ItByte(first, mask) % 16 # 0
           /\ ItConditions(first, mask) = Left(ItByte(first, mask))
<1> DEFINE v == ItByte(first, mask)
<1>1. v = 16 * first + mask
  BY DEF ItByte
<1>2. v \in 0..255 /\ v % 16 = mask /\ v \div 32 = first \div 2
  BY <1>1
<1>3. /\ (v \div 16) % 2 = first % 2
      /\ (v \div 8) % 2 = (mask \div 8) % 2
      /\ (v \div 4) % 2 = (mask \div 4) % 2
      /\ (v \div 2) % 2 = (mask \div 2) % 2
  BY <1>1
<1> HIDE DEF v
<1>4. ItLength(mask) \in 1..4
  BY ItLengthIs DEF LowestBit
<1>5. \A n \in 1..4 : (IF n = 1 THEN first ELSE 2 * (first \div 2) + Bit(mask, 5 - n))
                         = 2 * (v \div 32) + Bit(v, 5 - n)
  <2>1. v \in Int /\ mask \in Int
    BY <1>2
  <2>2. Bit(v, 4) = first % 2
    BY <1>3, <2>1, Bits
  <2>3. Bit(v, 3) = Bit(mask, 3) /\ Bit(v, 2) = Bit(mask, 2) /\ Bit(v, 1) = Bit(mask, 1)
    <3>1. /\ Bit(v, 1) = (v \div 2) % 2 /\ Bit(v, 2) = (v \div 4) % 2
          /\ Bit(v, 3) = (v \div 8) % 2
      BY <2>1, Bits
    <3>2. /\ Bit(mask, 1) = (mask \div 2) % 2 /\ Bit(mask, 2) = (mask \div 4) % 2
          /\ Bit(mask, 3) = (mask \div 8) % 2
      BY <2>1, Bits
    <3> QED BY <1>3, <3>1, <3>2
  <2>4. /\ 1..4 = {1, 2, 3, 4}
        /\ 5 - 1 = 4 /\ 5 - 2 = 3 /\ 5 - 3 = 2 /\ 5 - 4 = 1
    OBVIOUS
  <2>5. first = 2 * (first \div 2) + (first % 2)
    OBVIOUS
  <2>6. \A n \in {2, 3, 4} : Bit(v, 5 - n) = Bit(mask, 5 - n)
    BY <2>3, <2>4
  <2>7. TAKE n \in 1..4
  <2>8. CASE n = 1
    BY <1>2, <2>2, <2>4, <2>5, <2>8
  <2>9. CASE n # 1
    BY <1>2, <2>6, <2>4, <2>9
  <2> QED BY <2>8, <2>9
<1>6. ItConditions(first, mask) = Left(v)
  <2>1. Left(v) = [n \in 1..ItLength(mask) |-> 2 * (v \div 32) + Bit(v, 5 - n)]
    BY <1>2 DEF Left
  <2>2. 1..ItLength(mask) \subseteq 1..4
    BY <1>4
  <2> QED BY <1>5, <2>1, <2>2 DEF ItConditions
<1> QED BY <1>2, <1>6 DEF v

-----------------------------------------------------------------------------
(***************************************************************************)
(* One call of the analysis.                                               *)
(***************************************************************************)

\* What the code can be made of.
PlaceOK(p) ==
    /\ p \in Placed
    /\ p.i.inst.cls = "it" => /\ p.mode = "thumb" /\ p.i.inst.operand /\ p.i.mask # 0
                              /\ p.i.inst.does = "plain"

\* The states a client gets to.
StateOK(s) ==
    /\ s \in DecodeStates /\ s.mode \in Modes
    /\ s.isa = "it" => s.mode = "thumb" /\ s.it % 16 # 0

\* What is left of the IT block behind an instruction.
Rest(p, cs) ==
    IF p.i.inst.cls = "it" THEN ItConditions(p.i.first, p.i.mask)
    ELSE IF cs = <<>> THEN <<>> ELSE Tail(cs)

\* The types of a place of the code, for the provers.
LEMMA PlaceFacts ==
    ASSUME NEW p, PlaceOK(p)
    PROVE  /\ p.at \in Int /\ p.mode \in Modes /\ p.i \in CtlInst
           /\ p.i.inst \in Inst /\ p.i.inst.size \in Int /\ p.i.inst.target \in Int
           /\ p.i.first \in 0..15 /\ p.i.mask \in 0..15 /\ p.i.reported \in Int
           /\ p.i.inst.does \in {"plain", "ref", "jump", "cond", "call", "leave"}
           /\ Address(p.i) \in Int
<1>1. p.at \in Int /\ p.mode \in Modes /\ p.i \in CtlInst
  BY DEF PlaceOK, Placed
<1>2. /\ p.i.inst \in Inst /\ p.i.first \in 0..15 /\ p.i.mask \in 0..15
      /\ p.i.reported \in Int
  BY <1>1 DEF CtlInst, Conditions
<1>3. /\ p.i.inst.size \in Int /\ p.i.inst.target \in Int
      /\ p.i.inst.does \in {"plain", "ref", "jump", "cond", "call", "leave"}
  BY <1>2 DEF Inst, Effects, MaxInstBytes
<1>4. Address(p.i) \in Int
  BY <1>2 DEF Address
<1> QED BY <1>1, <1>2, <1>3, <1>4

\* A decode state is its three fields.
LEMMA StateFacts ==
    ASSUME NEW s, StateOK(s)
    PROVE  /\ s.mode \in Modes /\ s.isa \in {"none", "it"} /\ s.it \in 0..255
           /\ s = [mode |-> s.mode, isa |-> s.isa, it |-> s.it]
  BY DEF StateOK, DecodeStates

\* A decode state shows at most four conditions, and none outside an IT block.
LEMMA ShownIs ==
    ASSUME NEW s, StateOK(s)
    PROVE  /\ Shown(s) \in Seq(Conditions) /\ Len(Shown(s)) <= 4
           /\ Shown(s) # <<>> <=> s.isa = "it"
           /\ s.isa = "it" => Shown(s) = Left(s.it)
<1>1. CASE s.isa = "it"
  <2> DEFINE v == s.it
  <2>1. Shown(s) = Left(v)
    BY <1>1 DEF Shown, Left
  <2>2. v \in 0..255 /\ v % 16 # 0
    BY <1>1, StateFacts DEF StateOK
  <2> HIDE DEF v
  <2>3. Left(v) \in Seq(Conditions) /\ Len(Left(v)) \in 1..4 /\ Left(v) # <<>>
    BY <2>2, LeftIs
  <2>4. \A k \in 1..4 : k <= 4
    OBVIOUS
  <2> QED BY <1>1, <2>1, <2>3, <2>4 DEF v
<1>2. CASE s.isa = "none"
  <2>1. Shown(s) = <<>>
    BY <1>2 DEF Shown
  <2> QED BY <1>2, <2>1
<1> QED BY <1>1, <1>2, StateFacts

\* The state reported for the next instruction stands for the conditions a processor
\* has left there.
LEMMA NextStateIs ==
    ASSUME NEW p, PlaceOK(p), NEW s, StateOK(s), s.mode = p.mode
    PROVE  LET n == NextState(p.mode, p.i, s)
           IN  /\ StateOK(n) /\ n.mode = p.mode
               /\ Shown(n) = Rest(p, Shown(s))
<1> DEFINE n == NextState(p.mode, p.i, s)
<1>1. /\ s.mode \in Modes /\ s.isa \in {"none", "it"} /\ s.it \in 0..255
      /\ s = [mode |-> s.mode, isa |-> s.isa, it |-> s.it]
  BY StateFacts
<1>2. p.i.first \in 0..15 /\ p.i.mask \in 0..15
  BY PlaceFacts
<1>3. CASE p.i.inst.cls = "it"
  <2> DEFINE v == ItByte(p.i.first, p.i.mask)
  <2>1. p.mode = "thumb" /\ p.i.inst.operand /\ p.i.mask \in 1..15
    BY <1>2, <1>3 DEF PlaceOK
  <2>2. StartsIt(p.mode, p.i)
    BY <1>3, <2>1 DEF StartsIt
  <2>3. v \in 0..255 /\ v % 16 # 0 /\ ItConditions(p.i.first, p.i.mask) = Left(v)
    BY <1>2, <2>1, LeftBegins
  <2>4. n = [s EXCEPT !.isa = "it", !.it = v]
    BY <2>2 DEF NextState, ItByte
  <2> HIDE DEF v
  <2>5. n = [mode |-> "thumb", isa |-> "it", it |-> v]
    BY <1>1, <2>1, <2>4
  <2> HIDE DEF n
  <2>6. StateOK(n)
    BY <1>1, <2>1, <2>3, <2>5 DEF StateOK, DecodeStates
  <2>7. Shown(n) = Left(v)
    BY <2>5, <2>6, ShownIs
  <2>8. Rest(p, Shown(s)) = Left(v)
    BY <1>3, <2>3 DEF Rest
  <2> QED BY <2>1, <2>5, <2>6, <2>7, <2>8 DEF n
<1>4. CASE p.i.inst.cls # "it" /\ s.isa = "it"
  <2>1. p.mode = "thumb" /\ s.it % 16 # 0
    BY <1>4 DEF StateOK
  <2>2. n = InBlock(p.mode, AdvanceIt(s.it))
    BY <1>4, <2>1 DEF NextState, StartsIt
  <2>3. Shown(s) = Left(s.it) /\ Shown(s) # <<>>
    BY <1>4, ShownIs
  <2>4. Rest(p, Shown(s)) = Tail(Left(s.it))
    <3> HIDE DEF Left
    <3> QED BY <1>4, <2>3 DEF Rest
  <2>5. CASE s.it % 8 = 0
    <3>1. AdvanceIt(s.it) = 0 /\ Tail(Left(s.it)) = <<>>
      BY <1>1, <2>1, <2>5, LeftEnds
    <3>2. n = [mode |-> p.mode, isa |-> "none", it |-> 0]
      BY <2>2, <3>1 DEF InBlock
    <3> HIDE DEF n
    <3>3. StateOK(n) /\ Shown(n) = <<>>
      BY <1>1, <3>2 DEF StateOK, DecodeStates, Shown
    <3> QED BY <2>4, <3>1, <3>2, <3>3 DEF n
  <2>6. CASE s.it % 8 # 0
    <3> DEFINE v == AdvanceIt(s.it)
    <3>1. v \in 0..255 /\ v % 16 # 0 /\ Left(v) = Tail(Left(s.it))
      BY <1>1, <2>6, LeftAdvances
    <3> HIDE DEF v
    <3>2. n = [mode |-> p.mode, isa |-> "it", it |-> v]
      <4>1. v # 0
        BY <3>1
      <4> QED BY <2>2, <4>1 DEF InBlock, v
    <3> HIDE DEF n
    <3>3. StateOK(n)
      BY <1>1, <2>1, <3>1, <3>2 DEF StateOK, DecodeStates
    <3>4. Shown(n) = Left(v)
      BY <3>2, <3>3, ShownIs
    <3> QED BY <2>4, <3>1, <3>2, <3>3, <3>4 DEF n
  <2> QED BY <2>5, <2>6
<1>5. CASE p.i.inst.cls # "it" /\ s.isa = "none"
  <2>1. n = s
    BY <1>5 DEF NextState, StartsIt
  <2>2. Shown(s) = <<>>
    BY <1>5 DEF Shown
  <2>3. Rest(p, Shown(s)) = <<>>
    BY <1>5, <2>2 DEF Rest
  <2> QED BY <2>1, <2>2, <2>3
<1> QED BY <1>1, <1>3, <1>4, <1>5

\* The places a client is told of.
Told(p, s) == UNION {Follow(p, x) : x \in AnalyzeWithState(p.mode, p.i, s).succs}

Behind(p, s) == [at |-> p.at + p.i.inst.size, state |-> NextState(p.mode, p.i, s)]
There(p, s)  == [at    |-> Address(p.i),
                 state |-> TargetState(p.mode, p.i, NextState(p.mode, p.i, s))]

\* Only calls and branches have a target.
LEMMA TargetIsTransfer ==
    ASSUME NEW m, NEW i, HasTarget(m, i)
    PROVE  IsCall(m, i) \/ IsBranch(m, i)
  BY DEF HasTarget, IsCall, IsBranch, VmHasTarget, VmBranches, WasmBranches

\* An accepted analysis tells of the instruction behind, if execution can get there, and
\* of the target, if there is one.
LEMMA ToldIs ==
    ASSUME NEW p, PlaceOK(p), NEW s, StateOK(s), s.mode = p.mode
    PROVE  /\ AnalyzeWithState(p.mode, p.i, s).status = "OK"
           /\ AnalyzeWithState(p.mode, p.i, s).predicate = Predicate(p.mode, p.i, s)
           /\ Told(p, s) = {f \in {Behind(p, s)} : GoesOn(p.mode, p.i)}
                             \cup {f \in {There(p, s)} : HasTarget(p.mode, p.i)}
<1> DEFINE next   == NextState(p.mode, p.i, s)
           target == TargetState(p.mode, p.i, next)
           succs  == Successors(p.mode, p.i, next, target)
<1>1. /\ s.mode \in Modes /\ s.mode # "default"
      /\ s.isa = "it" => p.mode = "thumb"
      /\ s = [s EXCEPT !.mode = s.mode]
  BY StateFacts DEF StateOK, Modes, X86Modes, VmModes
<1>2. AnalyzeWithState(p.mode, p.i, s)
        = [status |-> "OK", predicate |-> Predicate(p.mode, p.i, s), succs |-> succs]
  BY <1>1 DEF AnalyzeWithState
<1> HIDE DEF succs, next, target
<1>3. Told(p, s) = UNION {Follow(p, x) : x \in succs}
  BY <1>2 DEF Told
<1>4. Follow(p, Successor("FALLTHROUGH", next)) = {Behind(p, s)}
  BY DEF Follow, Successor, Behind, next
<1>5. \A flow \in {"BRANCH", "CALL"} :
        Follow(p, Successor(flow, target))
          = IF HasTarget(p.mode, p.i) THEN {There(p, s)} ELSE {}
  BY DEF Follow, Successor, There, next, target
<1>6. \A flow \in {"RETURN", "TRAP"} : Follow(p, Successor(flow, next)) = {}
  BY DEF Follow, Successor
<1>7. CASE IsCall(p.mode, p.i)
  <2>1. succs = {Successor("CALL", target)}
                  \cup (IF p.i.inst.term THEN {} ELSE {Successor("FALLTHROUGH", next)})
    BY <1>7 DEF succs, Successors
  <2>2. GoesOn(p.mode, p.i) <=> ~p.i.inst.term
    BY <1>7 DEF GoesOn
  <2> QED BY <1>2, <1>3, <1>4, <1>5, <2>1, <2>2
<1>8. CASE ~IsCall(p.mode, p.i) /\ IsBranch(p.mode, p.i)
  <2>1. succs = {Successor("BRANCH", target)}
                  \cup (IF IsConditional(p.i) THEN {Successor("FALLTHROUGH", next)} ELSE {})
    BY <1>8 DEF succs, Successors
  <2>2. GoesOn(p.mode, p.i) <=> IsConditional(p.i)
    BY <1>8 DEF GoesOn
  <2> QED BY <1>2, <1>3, <1>4, <1>5, <2>1, <2>2
<1>9. CASE ~IsCall(p.mode, p.i) /\ ~IsBranch(p.mode, p.i)
  <2>1. ~HasTarget(p.mode, p.i)
    BY <1>9, TargetIsTransfer
  <2>2. succs = IF IsReturn(p.mode, p.i) THEN {Successor("RETURN", next)}
                ELSE IF p.i.inst.term THEN {Successor("TRAP", next)}
                ELSE {Successor("FALLTHROUGH", next)}
    BY <1>9 DEF succs, Successors
  <2>3. GoesOn(p.mode, p.i) <=> ~IsReturn(p.mode, p.i) /\ ~p.i.inst.term
    BY <1>9 DEF GoesOn
  <2> QED BY <1>2, <1>3, <1>4, <1>6, <2>1, <2>2, <2>3
<1> QED BY <1>7, <1>8, <1>9

\* A place told of has a state the analysis takes.
LEMMA ToldAccepted ==
    ASSUME NEW p, PlaceOK(p), NEW s, StateOK(s), s.mode = p.mode, NEW f \in Told(p, s)
    PROVE  f \in Places /\ StateOK(f.state)
<1>1. f = Behind(p, s) \/ (f = There(p, s) /\ HasTarget(p.mode, p.i))
  BY ToldIs
<1>2. StateOK(NextState(p.mode, p.i, s))
  BY NextStateIs
<1>3. CASE f = Behind(p, s)
  BY <1>2, <1>3, PlaceFacts DEF Behind, Places, StateOK
<1>4. CASE f = There(p, s) /\ HasTarget(p.mode, p.i)
  <2>1. StateOK(f.state)
    <3>1. f.state = TargetState(p.mode, p.i, NextState(p.mode, p.i, s))
      BY <1>4 DEF There
    <3>2. \A m \in {"thumb", "a32"} : StateOK(State(m))
      BY DEF StateOK, State, DecodeStates, Modes
    <3> QED BY <1>2, <1>4, <3>1, <3>2 DEF TargetState
  <2> QED BY <1>4, <2>1, PlaceFacts DEF There, Places, StateOK
<1> QED BY <1>1, <1>3, <1>4

-----------------------------------------------------------------------------
(***************************************************************************)
(* The places told of and the places the processor moves to.               *)
(***************************************************************************)

Onward(p, cs) == At(p.at + p.i.inst.size, p.mode, Rest(p, cs))
Taken(p)      == At(p.i.inst.target, IF p.i.switch THEN Other(p.mode) ELSE p.mode, <<>>)

\* The moves, case by case.
LEMMA MovesAre ==
    ASSUME NEW p, PlaceOK(p), NEW cs
    PROVE  /\ ~Predictable(p, cs) => Moves(p, cs) = {}
           /\ Predictable(p, cs) =>
                /\ p.i.inst.does \in {"plain", "ref"} => Moves(p, cs) = {Onward(p, cs)}
                /\ p.i.inst.does = "jump" =>
                      Moves(p, cs) = {Taken(p)} \cup {n \in {Onward(p, cs)} : Governs(p, cs) < 14}
                /\ p.i.inst.does = "cond" => Moves(p, cs) = {Taken(p), Onward(p, cs)}
                /\ p.i.inst.does = "call" =>
                      Moves(p, cs) = {Onward(p, cs)} \cup {n \in {Taken(p)} : HasTarget(p.mode, p.i)}
                /\ p.i.inst.does = "leave" =>
                      Moves(p, cs) = {n \in {Onward(p, cs)} : Governs(p, cs) < 14}
<1>1. CASE ~Predictable(p, cs)
  BY <1>1 DEF Moves
<1>2. CASE Predictable(p, cs)
  <2> USE <1>2 DEF Moves, Onward, Taken, Rest
  <2>1. p.i.inst.does \in {"plain", "ref"} => Moves(p, cs) = {Onward(p, cs)}
    OBVIOUS
  <2>2. p.i.inst.does = "jump" =>
          Moves(p, cs) = {Taken(p)} \cup {n \in {Onward(p, cs)} : Governs(p, cs) < 14}
    OBVIOUS
  <2>3. p.i.inst.does = "cond" => Moves(p, cs) = {Taken(p), Onward(p, cs)}
    OBVIOUS
  <2>4. p.i.inst.does = "call" =>
          Moves(p, cs) = {Onward(p, cs)} \cup {n \in {Taken(p)} : HasTarget(p.mode, p.i)}
    OBVIOUS
  <2>5. p.i.inst.does = "leave" =>
          Moves(p, cs) = {n \in {Onward(p, cs)} : Governs(p, cs) < 14}
    OBVIOUS
  <2> QED BY <2>1, <2>2, <2>3, <2>4, <2>5
<1> QED BY <1>1, <1>2

\* The place behind stands for the move onward.
LEMMA BehindIsOnward ==
    ASSUME NEW p, PlaceOK(p), NEW s, StateOK(s), s.mode = p.mode
    PROVE  Position(Behind(p, s)) = Onward(p, Shown(s))
<1>1. /\ NextState(p.mode, p.i, s).mode = p.mode
      /\ Shown(NextState(p.mode, p.i, s)) = Rest(p, Shown(s))
  BY NextStateIs
<1> QED BY <1>1 DEF Position, Behind, Onward

\* And the target reported for the move to the target, unless an IT block goes
\* on, in which no branch occurs.
LEMMA ThereIsTaken ==
    ASSUME NEW c, NEW p, PlaceOK(p), Regular(c, p), NEW s, StateOK(s), s.mode = p.mode,
           HasTarget(p.mode, p.i), Predictable(p, Shown(s))
    PROVE  Position(There(p, s)) = Taken(p)
<1> DEFINE next == NextState(p.mode, p.i, s)
<1>1. /\ p.i.inst.does \in {"jump", "cond", "call"}
      /\ Address(p.i) = p.i.inst.target
      /\ p.i.switch => /\ p.mode \in {"a32", "thumb"}
                       /\ p.i.reported % 2 = 1 <=> p.mode = "a32"
  BY DEF Regular
<1>2. CASE p.i.switch
  <2>1. TargetState(p.mode, p.i, next) = State(Other(p.mode))
    <3> HIDE DEF next
    <3> QED BY <1>1, <1>2 DEF TargetState, Other
  <2>2. Shown(State(Other(p.mode))) = <<>> /\ State(Other(p.mode)).mode = Other(p.mode)
    BY DEF Shown, State
  <2> QED BY <1>1, <1>2, <2>1, <2>2 DEF Position, There, Taken
<1>3. CASE ~p.i.switch
  <2>1. TargetState(p.mode, p.i, next) = next
    <3> HIDE DEF next
    <3> QED BY <1>3 DEF TargetState
  <2>2. next.mode = p.mode /\ Shown(next) = Rest(p, Shown(s))
    BY NextStateIs
  <2>3. p.i.inst.cls # "it"
    BY <1>1 DEF PlaceOK
  <2>4. Shown(s) # <<>> => Tail(Shown(s)) = <<>>
    <3>1. Shown(s) \in Seq(Conditions) /\ ~(Len(Shown(s)) > 1)
      BY <1>1, ShownIs DEF Predictable
    <3>2. HAVE Shown(s) # <<>>
    <3>3. Tail(Shown(s)) \in Seq(Conditions) /\ Len(Tail(Shown(s))) = Len(Shown(s)) - 1
      BY <3>1, <3>2, HeadTailProperties
    <3>4. Len(Shown(s)) \in Nat /\ Len(Tail(Shown(s))) \in Nat
      BY <3>1, <3>3, LenProperties
    <3>5. Len(Tail(Shown(s))) = 0
      BY <3>1, <3>3, <3>4
    <3> QED BY <3>3, <3>5, EmptySeq
  <2>5. Rest(p, Shown(s)) = <<>>
    BY <2>3, <2>4 DEF Rest
  <2> HIDE DEF next
  <2> QED BY <1>1, <1>3, <2>1, <2>2, <2>5 DEF Position, There, Taken, next
<1> QED BY <1>2, <1>3

\* What the class and flags say of going on is what the condition decides.
LEMMA GoesOnIs ==
    ASSUME NEW c, NEW p, PlaceOK(p), Regular(c, p), NEW s, StateOK(s), s.mode = p.mode
    PROVE  /\ p.i.inst.does \notin {"jump", "leave"} => GoesOn(p.mode, p.i)
           /\ p.i.inst.does \in {"jump", "leave"} /\ GoesOn(p.mode, p.i)
                => Governs(p, Shown(s)) < 14
           /\ /\ p.i.inst.does \in {"jump", "leave"} /\ Governs(p, Shown(s)) < 14
              /\ Shown(s) # <<>> => Head(Shown(s)) >= 14
              => GoesOn(p.mode, p.i)
<1>1. p.i.inst.does \notin {"jump", "leave"} => GoesOn(p.mode, p.i)
  BY DEF Regular
<1>2. ASSUME p.i.inst.does \in {"jump", "leave"}
      PROVE  GoesOn(p.mode, p.i) <=> p.i.tests < 14
  BY <1>2 DEF Regular
<1>3. p.mode = "thumb" /\ p.i.inst.does # "cond" => p.i.tests = 16
  BY DEF Regular, Always
<1>4. ASSUME p.i.inst.does \in {"jump", "leave"}, Shown(s) # <<>>
      PROVE  ~GoesOn(p.mode, p.i) /\ p.i.tests = 16
  <2>1. p.mode = "thumb"
    BY <1>4, ShownIs DEF StateOK
  <2> QED BY <1>2, <1>3, <1>4, <2>1
<1>5. ASSUME p.i.inst.does \in {"jump", "leave"}, GoesOn(p.mode, p.i)
      PROVE  Governs(p, Shown(s)) < 14
  BY <1>2, <1>4, <1>5 DEF Governs
<1>6. ASSUME p.i.inst.does \in {"jump", "leave"}, Governs(p, Shown(s)) < 14,
             Shown(s) # <<>> => Head(Shown(s)) >= 14
      PROVE  GoesOn(p.mode, p.i)
  <2>1. CASE Shown(s) = <<>>
    BY <1>2, <1>6, <2>1 DEF Governs
  <2>2. CASE Shown(s) # <<>>
    <3>1. Head(Shown(s)) \in 0..15
      BY <2>2, ShownIs, HeadTailProperties DEF Conditions
    <3>2. p.i.inst.cls # "it"
      BY <1>6 DEF PlaceOK
    <3> QED BY <1>6, <2>2, <3>1, <3>2 DEF Governs
  <2> QED BY <2>1, <2>2
<1> QED BY <1>1, <1>5, <1>6

\* A place told of is one the processor can move to.
LEMMA ToldIsReached ==
    ASSUME NEW c, NEW p, PlaceOK(p), Regular(c, p), NEW s, StateOK(s), s.mode = p.mode,
           NEW f \in Told(p, s), Predictable(p, Shown(s))
    PROVE  Position(f) \in Moves(p, Shown(s))
<1>1. \/ f = Behind(p, s) /\ GoesOn(p.mode, p.i)
      \/ f = There(p, s) /\ HasTarget(p.mode, p.i)
  BY ToldIs
<1>2. p.i.inst.does \in {"plain", "ref", "jump", "cond", "call", "leave"}
  BY PlaceFacts
<1>3. CASE f = Behind(p, s) /\ GoesOn(p.mode, p.i)
  <2>1. Position(f) = Onward(p, Shown(s))
    BY <1>3, BehindIsOnward
  <2>2. p.i.inst.does \in {"jump", "leave"} => Governs(p, Shown(s)) < 14
    BY <1>3, GoesOnIs
  <2> QED BY <1>2, <2>1, <2>2, MovesAre
<1>4. CASE f = There(p, s) /\ HasTarget(p.mode, p.i)
  <2>1. Position(f) = Taken(p)
    BY <1>4, ThereIsTaken
  <2>2. p.i.inst.does \in {"jump", "cond", "call"}
    BY <1>4 DEF Regular
  <2> QED BY <1>4, <2>1, <2>2, MovesAre
<1> QED BY <1>1, <1>3, <1>4

\* A move within the code leads to a place told of.
LEMMA ReachedIsTold ==
    ASSUME NEW c, NEW p, PlaceOK(p), Regular(c, p), NEW s, StateOK(s), s.mode = p.mode,
           /\ Shown(s) # <<>> /\ p.i.inst.does \in {"jump", "leave"}
           => Head(Shown(s)) >= 14,
           NEW n \in Moves(p, Shown(s)), \E q \in c : q.at = n.at
    PROVE  \E f \in Told(p, s) : Position(f) = n
<1>1. Predictable(p, Shown(s))
  BY MovesAre
<1>2. p.i.inst.does \in {"plain", "ref", "jump", "cond", "call", "leave"}
  BY PlaceFacts
<1>3. \/ /\ n = Onward(p, Shown(s))
         /\ p.i.inst.does \in {"jump", "leave"} => Governs(p, Shown(s)) < 14
      \/ /\ n = Taken(p)
         /\ p.i.inst.does \in {"jump", "cond"} \/ HasTarget(p.mode, p.i)
  BY <1>1, <1>2, MovesAre
<1>4. CASE /\ n = Onward(p, Shown(s))
           /\ p.i.inst.does \in {"jump", "leave"} => Governs(p, Shown(s)) < 14
  <2>1. GoesOn(p.mode, p.i)
    BY <1>4, GoesOnIs
  <2>2. Behind(p, s) \in Told(p, s)
    BY <2>1, ToldIs
  <2> QED BY <1>4, <2>2, BehindIsOnward
<1>5. CASE /\ n = Taken(p)
           /\ p.i.inst.does \in {"jump", "cond"} \/ HasTarget(p.mode, p.i)
  <2>1. \E q \in c : q.at = p.i.inst.target
    BY <1>5 DEF Taken, At
  <2>2. HasTarget(p.mode, p.i)
    BY <1>5, <2>1 DEF Regular
  <2>3. There(p, s) \in Told(p, s)
    BY <2>2, ToldIs
  <2> QED BY <1>1, <1>5, <2>2, <2>3, ThereIsTaken
<1> QED BY <1>3, <1>4, <1>5

-----------------------------------------------------------------------------
(***************************************************************************)
(* The invariants of client and processor.                                 *)
(***************************************************************************)

StatesInv == \A w \in seen \cup pending : StateOK(w.state)

\* What is told at a place visited has been visited or is pending.
ClosedInv ==
    \A w \in seen : \A p \in program :
        p.at = w.at /\ p.mode = w.state.mode => Told(p, w.state) \subseteq seen \cup pending

ExploreInv ==
    /\ ExploreTypeOK /\ program \in Codes
    /\ StatesInv
    /\ StatesAccepted
    /\ ClosedInv

\* The processor is at a place visited or pending.
CoverInv ==
    InCode(pc.at, pc.mode) =>
        \E w \in seen \cup pending : Position(w) = At(pc.at, pc.mode, conds)

Here(w) == {p \in program : p.at = w.at /\ p.mode = w.state.mode}

\* The codes of the instance are made of places.
LEMMA CodePlaces ==
    ASSUME NEW c \in Codes, NEW p \in c
    PROVE  PlaceOK(p)
  BY ExploreAssumption, ItAssumption DEF PlaceOK

\* What a visit changes.
LEMMA VisitIs ==
    ASSUME NEW w, Visit(w)
    PROVE  /\ w \in pending
           /\ seen' = seen \cup {w}
           /\ pending' = (pending \cup UNION {Told(p, w.state) : p \in Here(w)}) \ (seen \cup {w})
           /\ refusals' = refusals \cup ({AnalyzeWithState(p.mode, p.i, w.state).status :
                                            p \in Here(w)} \ {"OK"})
           /\ UNCHANGED <<program, pc, conds>>
<1> DEFINE told == [p \in Here(w) |-> AnalyzeWithState(p.mode, p.i, w.state)]
           next == UNION {UNION {Follow(p, s) : s \in told[p].succs} : p \in Here(w)}
<1>1. /\ w \in pending
      /\ seen' = seen \cup {w}
      /\ pending' = (pending \cup next) \ seen'
      /\ refusals' = refusals \cup ({told[p].status : p \in Here(w)} \ {"OK"})
      /\ UNCHANGED <<program, pc, conds>>
  BY DEF Visit, Here
<1>2. \A p \in Here(w) : told[p] = AnalyzeWithState(p.mode, p.i, w.state)
  OBVIOUS
<1> HIDE DEF told
<1>3. next = UNION {Told(p, w.state) : p \in Here(w)}
  BY <1>2 DEF Told
<1>4. {told[p].status : p \in Here(w)}
        = {AnalyzeWithState(p.mode, p.i, w.state).status : p \in Here(w)}
  BY <1>2
<1> HIDE DEF next
<1> QED BY <1>1, <1>3, <1>4

\* A visit keeps the invariant,
LEMMA VisitInv ==
    ASSUME ExploreInv, NEW w, Visit(w)
    PROVE  ExploreInv'
<1>1. /\ w \in pending
      /\ seen' = seen \cup {w}
      /\ pending' = (pending \cup UNION {Told(p, w.state) : p \in Here(w)}) \ (seen \cup {w})
      /\ refusals' = refusals \cup ({AnalyzeWithState(p.mode, p.i, w.state).status :
                                       p \in Here(w)} \ {"OK"})
      /\ program' = program /\ pc' = pc /\ conds' = conds
  BY VisitIs
<1>2. \A p \in Here(w) : PlaceOK(p) /\ p.mode = w.state.mode
  BY CodePlaces DEF ExploreInv, Here
<1>3. StateOK(w.state)
  BY <1>1 DEF ExploreInv, StatesInv
<1>4. \A p \in Here(w) : AnalyzeWithState(p.mode, p.i, w.state).status = "OK"
  BY <1>2, <1>3, ToldIs
<1>5. \A p \in Here(w) : \A f \in Told(p, w.state) : f \in Places /\ StateOK(f.state)
  BY <1>2, <1>3, ToldAccepted
<1>6. refusals' = refusals
  BY <1>1, <1>4
<1>7. (ExploreTypeOK /\ program \in Codes)'
  BY <1>1, <1>5, <1>6 DEF ExploreInv, ExploreTypeOK
<1>8. StatesInv'
  BY <1>1, <1>3, <1>5 DEF ExploreInv, StatesInv
<1>9. StatesAccepted'
  BY <1>6 DEF ExploreInv, StatesAccepted
<1>10. ClosedInv'
  <2>1. seen \cup pending \subseteq seen' \cup pending'
    BY <1>1
  <2>2. SUFFICES ASSUME NEW v \in seen', NEW p \in program,
                        p.at = v.at, p.mode = v.state.mode
                 PROVE  Told(p, v.state) \subseteq seen' \cup pending'
    BY <1>1 DEF ClosedInv
  <2>3. CASE v \in seen
    BY <2>1, <2>2, <2>3 DEF ExploreInv, ClosedInv
  <2>4. CASE v = w
    BY <1>1, <2>2, <2>4 DEF Here
  <2> QED BY <1>1, <2>3, <2>4
<1> QED BY <1>7, <1>8, <1>9, <1>10 DEF ExploreInv

\* What is left of an IT block is a list of conditions.
LEMMA RestOK ==
    ASSUME NEW p, PlaceOK(p), NEW cs \in Seq(Conditions), Len(cs) <= 4
    PROVE  Rest(p, cs) \in Seq(Conditions) /\ Len(Rest(p, cs)) <= 4
<1>1. CASE p.i.inst.cls = "it"
  <2> DEFINE v == ItByte(p.i.first, p.i.mask)
  <2>1. p.i.first \in 0..15 /\ p.i.mask \in 1..15
    BY <1>1, PlaceFacts DEF PlaceOK
  <2>2. v \in 0..255 /\ v % 16 # 0 /\ Rest(p, cs) = Left(v)
    <3>1. v \in 0..255 /\ v % 16 # 0 /\ ItConditions(p.i.first, p.i.mask) = Left(v)
      BY <2>1, LeftBegins
    <3> HIDE DEF v
    <3> QED BY <1>1, <3>1 DEF Rest
  <2> HIDE DEF v
  <2>3. Left(v) \in Seq(Conditions) /\ Len(Left(v)) \in 1..4
    BY <2>2, LeftIs
  <2>4. \A k \in 1..4 : k <= 4
    OBVIOUS
  <2> QED BY <2>2, <2>3, <2>4
<1>2. CASE p.i.inst.cls # "it" /\ cs = <<>>
  <2>1. Rest(p, cs) = <<>>
    BY <1>2 DEF Rest
  <2> QED BY <1>2, <2>1
<1>3. CASE p.i.inst.cls # "it" /\ cs # <<>>
  <2>1. Rest(p, cs) = Tail(cs)
    BY <1>3 DEF Rest
  <2>2. Tail(cs) \in Seq(Conditions) /\ Len(Tail(cs)) = Len(cs) - 1 /\ Len(cs) \in Nat
    BY <1>3, HeadTailProperties, LenProperties
  <2> QED BY <2>1, <2>2
<1> QED BY <1>1, <1>2, <1>3

\* A processor moves to an address, in a mode, with conditions left.
LEMMA MovesTyped ==
    ASSUME NEW p, PlaceOK(p), NEW cs \in Seq(Conditions), Len(cs) <= 4, NEW n \in Moves(p, cs)
    PROVE  n.at \in Int /\ n.mode \in Modes /\ n.conds \in Seq(Conditions) /\ Len(n.conds) <= 4
<1>1. n = Onward(p, cs) \/ n = Taken(p)
  BY MovesAre, PlaceFacts
<1>2. CASE n = Onward(p, cs)
  <2>1. n.at = p.at + p.i.inst.size /\ n.mode = p.mode /\ n.conds = Rest(p, cs)
    BY <1>2 DEF Onward, At
  <2> QED BY <2>1, RestOK, PlaceFacts
<1>3. CASE n = Taken(p)
  <2>1. /\ n.at = p.i.inst.target /\ n.conds = <<>>
        /\ n.mode = IF p.i.switch THEN Other(p.mode) ELSE p.mode
    BY <1>3 DEF Taken, At
  <2>2. Other(p.mode) \in Modes
    BY DEF Other, Modes
  <2> QED BY <2>1, <2>2, PlaceFacts, EmptySeq
<1> QED BY <1>1, <1>2, <1>3

\* What an instruction executed changes.
LEMMA ExecuteIs ==
    ASSUME Execute
    PROVE  /\ pending = {}
           /\ \E p \in program : \E n \in Moves(p, conds) :
                 /\ p.at = pc.at /\ p.mode = pc.mode
                 /\ pc' = [at |-> n.at, mode |-> n.mode] /\ conds' = n.conds
           /\ program' = program /\ seen' = seen /\ pending' = pending /\ refusals' = refusals
  BY DEF Execute

\* an executed instruction keeps it,
LEMMA ExecuteInv ==
    ASSUME ExploreInv, Execute
    PROVE  ExploreInv'
<1>1. /\ program' = program /\ seen' = seen /\ pending' = pending /\ refusals' = refusals
  BY ExecuteIs
<1>2. PICK p \in program : \E n \in Moves(p, conds) :
            pc' = [at |-> n.at, mode |-> n.mode] /\ conds' = n.conds
  BY ExecuteIs
<1>3. PICK n \in Moves(p, conds) : pc' = [at |-> n.at, mode |-> n.mode] /\ conds' = n.conds
  BY <1>2
<1>4. n.at \in Int /\ n.mode \in Modes /\ n.conds \in Seq(Conditions) /\ Len(n.conds) <= 4
  <2>1. PlaceOK(p)
    BY CodePlaces DEF ExploreInv
  <2>2. conds \in Seq(Conditions) /\ Len(conds) <= 4
    BY DEF ExploreInv, ExploreTypeOK
  <2> QED BY <2>1, <2>2, MovesTyped
<1>5. (ExploreTypeOK /\ program \in Codes)'
  BY <1>1, <1>3, <1>4 DEF ExploreInv, ExploreTypeOK
<1>6. (StatesInv /\ StatesAccepted /\ ClosedInv)'
  BY <1>1 DEF ExploreInv, StatesInv, StatesAccepted, ClosedInv
<1> QED BY <1>5, <1>6 DEF ExploreInv

\* The places known before any step: the entry, in the mode it has.
LEMMA InitIs ==
    ASSUME ExploreInit
    PROVE  /\ ExploreInv
           /\ CoverInv
           /\ \A w \in seen \cup pending : w.at = Entry
<1>1. program \in Codes /\ seen = {} /\ refusals = {} /\ conds = <<>>
  BY DEF ExploreInit
<1>2. PICK p \in program : /\ p.at = Entry
                           /\ pending = {[at |-> Entry, state |-> State(p.mode)]}
                           /\ pc = [at |-> Entry, mode |-> p.mode]
  BY DEF ExploreInit
<1>3. PlaceOK(p)
  BY <1>1, CodePlaces
<1>4. p.mode \in Modes /\ Entry \in Int /\ program \subseteq Placed
  BY <1>1, <1>3, PlaceFacts, ExploreAssumption
<1>5. StateOK(State(p.mode)) /\ Shown(State(p.mode)) = <<>> /\ State(p.mode).mode = p.mode
  BY <1>4 DEF StateOK, State, DecodeStates, Shown
<1>6. ExploreTypeOK
  <2>1. State(p.mode) \in DecodeStates
    BY <1>5 DEF StateOK
  <2>2. conds \in Seq(Conditions) /\ Len(conds) <= 4
    BY <1>1, EmptySeq
  <2> QED BY <1>1, <1>2, <1>4, <2>1, <2>2 DEF ExploreTypeOK, Places
<1>7. StatesInv /\ StatesAccepted /\ ClosedInv
  BY <1>1, <1>2, <1>5 DEF StatesInv, StatesAccepted, ClosedInv
<1>8. CoverInv
  BY <1>1, <1>2, <1>5 DEF CoverInv, Position
<1> QED BY <1>1, <1>2, <1>6, <1>7, <1>8 DEF ExploreInv

\* and so every step.
LEMMA ExploreStep ==
    ASSUME ExploreInv, [ExploreNext]_exploreVars
    PROVE  ExploreInv'
<1>1. ASSUME NEW w \in pending, Visit(w)
      PROVE  ExploreInv'
  BY <1>1, VisitInv
<1>2. CASE Execute
  BY <1>2, ExecuteInv
<1>3. CASE UNCHANGED exploreVars
  BY <1>3 DEF exploreVars, ExploreInv, ExploreTypeOK, StatesInv, StatesAccepted, ClosedInv
<1> QED BY <1>1, <1>2, <1>3 DEF ExploreNext

\* The invariant of client and processor: decode states are of the form the analysis
\* accepts (asmkit_analyze_inst_with_state), and what is told of a visited place is visited
\* or pending.
THEOREM ExploreInvariant == ExploreSpec => []ExploreInv
<1>1. ExploreInit => ExploreInv
  BY InitIs
<1>2. ExploreInv /\ [ExploreNext]_exploreVars => ExploreInv'
  BY ExploreStep
<1> QED BY <1>1, <1>2, PTL DEF ExploreSpec

\* The client's and the processor's state stays well formed: in particular the
\* byte kept for an IT block is one, in the Thumb state.
THEOREM ExploreTypeCorrect == ExploreSpec => []ExploreTypeOK
<1>1. ExploreInv => ExploreTypeOK
  BY DEF ExploreInv
<1> QED BY <1>1, ExploreInvariant, PTL

\* A state the analysis reports is one it accepts, whatever the code: no later
\* call fails with it.
THEOREM StatesAlwaysAccepted == ExploreSpec => []StatesAccepted
<1>1. ExploreInv => StatesAccepted
  BY DEF ExploreInv
<1> QED BY <1>1, ExploreInvariant, PTL

-----------------------------------------------------------------------------
(***************************************************************************)
(* For code whose classes and flags say what its instructions do.          *)
(***************************************************************************)

\* A visit adds only what a processor can reach.
LEMMA VisitInvents ==
    ASSUME ExploreInv, RegularCode, NothingInvented, NEW w, Visit(w)
    PROVE  NothingInvented'
<1>1. /\ w \in pending
      /\ seen' = seen \cup {w}
      /\ pending' = (pending \cup UNION {Told(p, w.state) : p \in Here(w)}) \ (seen \cup {w})
      /\ program' = program
  BY VisitIs
<1>2. SUFFICES ASSUME NEW f \in seen' \cup pending', f.at # Entry
               PROVE  \E v \in seen' : \E p \in program :
                          /\ p.at = v.at /\ p.mode = v.state.mode
                          /\ \/ Position(f) \in Moves(p, Shown(v.state))
                             \/ ~Predictable(p, Shown(v.state))
  BY <1>1 DEF NothingInvented
<1>3. CASE f \in seen \cup pending
  BY <1>1, <1>2, <1>3 DEF NothingInvented
<1>4. ASSUME NEW p \in Here(w), f \in Told(p, w.state)
      PROVE  /\ p \in program /\ p.at = w.at /\ p.mode = w.state.mode
             /\ \/ Position(f) \in Moves(p, Shown(w.state))
                \/ ~Predictable(p, Shown(w.state))
  <2>1. p \in program /\ p.at = w.at /\ p.mode = w.state.mode
    BY DEF Here
  <2>2. PlaceOK(p) /\ Regular(program, p)
    BY <2>1, CodePlaces DEF ExploreInv, RegularCode
  <2>3. StateOK(w.state)
    BY <1>1 DEF ExploreInv, StatesInv
  <2> QED BY <1>4, <2>1, <2>2, <2>3, ToldIsReached
<1>5. CASE f \notin seen \cup pending
  <2>1. PICK p \in Here(w) : f \in Told(p, w.state)
    BY <1>1, <1>5
  <2> QED BY <1>1, <1>4, <2>1
<1> QED BY <1>3, <1>5

\* Nothing that cannot be reached is reported: for all code whose classes and
\* flags are right, every place a client is told of is the entry or one the
\* processor can move to from a place visited before, at the same point of the
\* same IT block.
THEOREM NothingEverInvented == ExploreSpec /\ []RegularCode => []NothingInvented
<1>1. ExploreInit => NothingInvented
  BY InitIs DEF NothingInvented
<1>2. ASSUME ExploreInv, RegularCode, NothingInvented, [ExploreNext]_exploreVars
      PROVE  NothingInvented'
  <2>1. ASSUME NEW w \in pending, Visit(w)
        PROVE  NothingInvented'
    BY <1>2, <2>1, VisitInvents
  <2>2. CASE Execute
    BY <1>2, <2>2, ExecuteIs DEF NothingInvented
  <2>3. CASE UNCHANGED exploreVars
    BY <1>2, <2>3 DEF exploreVars, NothingInvented
  <2> QED BY <1>2, <2>1, <2>2, <2>3 DEF ExploreNext
<1> QED BY <1>1, <1>2, ExploreInvariant, PTL DEF ExploreSpec

\* A visit loses no place.
LEMMA VisitCovers ==
    ASSUME CoverInv, NEW w, Visit(w)
    PROVE  CoverInv'
<1>1. /\ seen \cup pending \subseteq seen' \cup pending'
      /\ program' = program /\ pc' = pc /\ conds' = conds
  BY VisitIs
<1> QED BY <1>1 DEF CoverInv, InCode

\* The processor only gets to places visited.
LEMMA ExecuteCovers ==
    ASSUME ExploreInv, RegularCode, Steadily, CoverInv, Execute
    PROVE  CoverInv'
<1>1. /\ pending = {}
      /\ program' = program /\ seen' = seen /\ pending' = pending
  BY ExecuteIs
<1>2. PICK p \in program : /\ p.at = pc.at /\ p.mode = pc.mode
                           /\ \E n \in Moves(p, conds) :
                                 pc' = [at |-> n.at, mode |-> n.mode] /\ conds' = n.conds
  BY ExecuteIs
<1>3. PICK n \in Moves(p, conds) : pc' = [at |-> n.at, mode |-> n.mode] /\ conds' = n.conds
  BY <1>2
<1>4. PlaceOK(p) /\ Regular(program, p)
  BY CodePlaces DEF ExploreInv, RegularCode
<1>5. PICK w \in seen : Position(w) = At(pc.at, pc.mode, conds)
  BY <1>1, <1>2 DEF CoverInv, InCode
<1>6. w.at = pc.at /\ w.state.mode = pc.mode /\ Shown(w.state) = conds /\ StateOK(w.state)
  BY <1>5 DEF Position, At, ExploreInv, StatesInv
<1>7. Told(p, w.state) \subseteq seen
  BY <1>1, <1>2, <1>6 DEF ExploreInv, ClosedInv
<1>8. conds # <<>> /\ p.i.inst.does \in {"jump", "leave"} => Head(conds) >= 14
  BY <1>2 DEF Steadily
<1>9. n = At(n.at, n.mode, n.conds)
  <2>1. n = Onward(p, conds) \/ n = Taken(p)
    BY <1>3, <1>4, MovesAre, PlaceFacts
  <2> QED BY <2>1 DEF Onward, Taken, At
<1>10. ASSUME InCode(pc'.at, pc'.mode)
       PROVE  \E f \in seen : Position(f) = At(pc'.at, pc'.mode, conds')
  <2>1. \E q \in program : q.at = n.at
    BY <1>3, <1>10 DEF InCode
  <2>2. PICK f \in Told(p, w.state) : Position(f) = n
    BY <1>2, <1>3, <1>4, <1>6, <1>8, <2>1, ReachedIsTold
  <2> QED BY <1>3, <1>7, <1>9, <2>2
<1> QED BY <1>1, <1>10 DEF CoverInv, InCode

\* The processor is always at a place the client knows: for all code whose
\* classes and flags are right, and whose IT blocks make no branch conditional,
\* following the successors reported reaches, in the right mode and at the right
\* point of the right IT block, all the code that can be executed.
THEOREM ExplorerAlwaysCovers ==
    ExploreSpec /\ []RegularCode /\ []Steadily => []ExplorerCovers
<1>1. ExploreInit => CoverInv
  BY InitIs
<1>2. ASSUME ExploreInv, RegularCode, Steadily, CoverInv, [ExploreNext]_exploreVars
      PROVE  CoverInv'
  <2>1. ASSUME NEW w \in pending, Visit(w)
        PROVE  CoverInv'
    BY <1>2, <2>1, VisitCovers
  <2>2. CASE Execute
    BY <1>2, <2>2, ExecuteCovers
  <2>3. CASE UNCHANGED exploreVars
    BY <1>2, <2>3 DEF exploreVars, CoverInv, InCode
  <2> QED BY <1>2, <2>1, <2>2, <2>3 DEF ExploreNext
<1>3. CoverInv => ExplorerCovers
  BY DEF CoverInv, ExplorerCovers
<1> QED BY <1>1, <1>2, <1>3, ExploreInvariant, PTL DEF ExploreSpec

\* The predicate reported is the condition that governs the instruction.
LEMMA PredicateIs ==
    ASSUME NEW p, PlaceOK(p), NEW s, StateOK(s), s.mode = p.mode,
           Predictable(p, Shown(s)), ConditionRead(p)
    PROVE  Same(Predicate(p.mode, p.i, s), Governs(p, Shown(s)))
<1>1. CASE s.isa = "it"
  <2> DEFINE v == s.it
  <2>1. /\ p.mode = "thumb" /\ v \in 0..255 /\ v % 16 # 0
        /\ Shown(s) = Left(v) /\ Shown(s) # <<>>
    BY <1>1, ShownIs, StateFacts DEF StateOK
  <2>2. p.i.inst.cls # "it"
    BY <2>1 DEF Predictable
  <2>3. Predicate(p.mode, p.i, s) = v \div 16
    <3>1. v # 0
      BY <2>1
    <3> QED BY <1>1, <2>1, <2>2, <3>1 DEF Predicate
  <2>4. Governs(p, Shown(s)) = Head(Left(v))
    BY <2>1, <2>2 DEF Governs
  <2> HIDE DEF v
  <2>5. Head(Left(v)) = v \div 16
    <3>1. Left(v) \in Seq(Conditions) /\ Left(v) # <<>> /\ 1 \in 1..Len(Left(v))
      <4>1. Left(v) \in Seq(Conditions) /\ Left(v) # <<>> /\ Len(Left(v)) \in 1..4
        BY <2>1, LeftIs
      <4>2. \A k \in 1..4 : 1 \in 1..k
        OBVIOUS
      <4> QED BY <4>1, <4>2
    <3>2. Head(Left(v)) = Left(v)[1]
      BY <3>1
    <3>3. Left(v)[1] = 2 * (v \div 32) + Bit(v, 4)
      <4>1. Left(v)[1] = 2 * (v \div 32) + Bit(v, 5 - 1)
        BY <2>1, <3>1, LeftIs
      <4>2. 5 - 1 = 4
        OBVIOUS
      <4> QED BY <4>1, <4>2
    <3>4. Bit(v, 4) = (v \div 16) % 2
      <4>1. v \in Int
        BY <2>1
      <4> QED BY <4>1, Bits
    <3>5. 2 * (v \div 32) + ((v \div 16) % 2) = v \div 16
      BY <2>1
    <3> QED BY <3>2, <3>3, <3>4, <3>5
  <2> QED BY <2>3, <2>4, <2>5 DEF Same
<1>2. CASE s.isa = "none"
  <2>1. Shown(s) = <<>>
    BY <1>2 DEF Shown
  <2>2. Governs(p, Shown(s)) = p.i.tests
    BY <2>1 DEF Governs
  <2>3. Predicate(p.mode, p.i, s)
          = IF ((p.mode = "thumb" /\ IsConditional(p.i)) \/ p.mode = "a32") /\ p.i.cond < 14
            THEN p.i.cond ELSE Always
    BY <1>2 DEF Predicate
  <2> QED BY <2>2, <2>3 DEF ConditionRead
<1> QED BY <1>1, <1>2, StateFacts

\* For all code in which the conditions are read where the instructions have
\* them, the condition reported for an instruction, in the state a client is told
\* to decode it in, is the one the processor executes it under.
THEOREM PredicatesAlwaysHold == ExploreSpec /\ []ConditionsRead => []PredicatesHold
<1>1. ASSUME ExploreInv, ConditionsRead
      PROVE  PredicatesHold
  <2>1. SUFFICES ASSUME NEW p \in program, NEW w \in seen,
                        p.at = pc.at, p.mode = pc.mode, Predictable(p, conds),
                        Position(w) = At(pc.at, pc.mode, conds)
                 PROVE  Same(AnalyzeWithState(p.mode, p.i, w.state).predicate,
                             Governs(p, conds))
    BY DEF PredicatesHold
  <2>2. w.state.mode = p.mode /\ Shown(w.state) = conds
    BY <2>1 DEF Position, At
  <2>3. PlaceOK(p) /\ StateOK(w.state)
    BY <1>1, CodePlaces DEF ExploreInv, StatesInv
  <2>4. AnalyzeWithState(p.mode, p.i, w.state).predicate = Predicate(p.mode, p.i, w.state)
    BY <2>2, <2>3, ToldIs
  <2>5. Same(Predicate(p.mode, p.i, w.state), Governs(p, Shown(w.state)))
    BY <1>1, <2>1, <2>2, <2>3, PredicateIs DEF ConditionsRead
  <2> QED BY <2>2, <2>4, <2>5
<1> QED BY <1>1, ExploreInvariant, PTL
=============================================================================
