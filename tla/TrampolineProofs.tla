--------------------------- MODULE TrampolineProofs ---------------------------
(***************************************************************************)
(* That running a trampoline is running the instructions it replaces, for  *)
(* every program, placement, branch mode, grant and capacity.  The code of *)
(* every moved instruction, and of the jump back, Follows it; a processor  *)
(* in the buffer always stands at an item of one of these pieces of code,  *)
(* and each of its steps either stays in the piece or does what the        *)
(* instruction does and goes on to the next one.                           *)
(***************************************************************************)
EXTENDS Trampoline, RelocateProofs

\* The defects of the code; that an instruction refers to the overwritten bytes
\* is a limit of what can be promised, and needs no exemption here.
Faults == Defects \ {"target in patch"}

\* What the jump back stands for.
Back == [NoInst EXCEPT !.does = "jump", !.target = cont]

Spotless ==
    /\ \A it \in out : it.op \notin {"callMem", "callReg", "spoilt"}
    /\ \A k \in 1..Len(insts) :
          /\ mode \in {"a32", "x86_16"} => insts[k].inst.does # "cond"
          /\ insts[k].inst.does = "ref" => insts[k].inst.pcrel

-----------------------------------------------------------------------------
(***************************************************************************)
(* The code in the buffer.                                                 *)
(***************************************************************************)

\* What has been decoded is the beginning of the code.
PrefixInv ==
    /\ Len(insts) <= Len(code)
    /\ \A k \in 1..Len(insts) : insts[k].inst = code[k]

\* The pieces of code lie one behind the other.
OrderInv ==
    /\ Sized(out)
    /\ \A k \in 1..Len(recs) : recs[k].at + recs[k].size <= offset
    /\ \A j, k \in 1..Len(recs) : j < k => recs[j].at + recs[j].size <= recs[k].at
    /\ status = "OK" =>
          /\ result.jumpAt + result.jumpSize <= cap
          /\ \A it \in out : it.at < result.jumpAt + result.jumpSize

\* And each does what it stands for.
FollowInv ==
    Spotless =>
        /\ \A k \in 1..Len(recs) :
              Follows(mode, out, raddr, recs[k].at, recs[k].size, insts[k].inst)
        /\ status = "OK" =>
              Follows(mode, out, raddr, result.jumpAt, result.jumpSize, Back)

CodeInv == ProperCall /\ PrefixInv /\ OrderInv /\ FollowInv

\* A piece of code is run the same with more code around it.
LEMMA RunsMore ==
    ASSUME NEW m, NEW S, NEW T, S \subseteq T, NEW base, NEW at, NEW n, NEW inst, NEW it,
           Runs(m, S, base, at, n, inst, it)
    PROVE  Runs(m, T, base, at, n, inst, it)
<1>1. Hops(m, S, base, at, n, inst, it) => Hops(m, T, base, at, n, inst, it)
  BY DEF Hops
<1>2. Finds(m, S, base, at, n, inst, it) => Finds(m, T, base, at, n, inst, it)
  <2>1. Locates(m, S, base, it, inst.target) => Locates(m, T, base, it, inst.target)
    BY DEF Locates
  <2> QED BY <2>1 DEF Finds
<1> QED BY <1>1, <1>2 DEF Runs

\* So it follows what it did, if none of the code around lies within it.
LEMMA FollowsMore ==
    ASSUME NEW m, NEW S, NEW T, S \subseteq T, NEW base, NEW at, NEW n, NEW inst,
           Follows(m, S, base, at, n, inst),
           \A it \in T : it \in S \/ ~(at <= it.at /\ it.at < at + n)
    PROVE  Follows(m, T, base, at, n, inst)
<1>1. \A it : Runs(m, S, base, at, n, inst, it) => Runs(m, T, base, at, n, inst, it)
  BY RunsMore
<1>2. n > 0 /\ \E it \in T : it.at = at /\ Runs(m, T, base, at, n, inst, it)
  BY <1>1 DEF Follows
<1>3. \A it \in T : at <= it.at /\ it.at < at + n =>
          it.op = "data" \/ Runs(m, T, base, at, n, inst, it)
  BY <1>1 DEF Follows
<1> QED BY <1>2, <1>3 DEF Follows

\* An item that is moved with its surroundings does what it did.
LEMMA RunsPlaced ==
    ASSUME NEW m, NEW S \in SUBSET Items, NEW base \in Int, NEW off \in Nat,
           NEW n \in Nat, NEW inst,
           NEW T, Placed(S, off) \subseteq T,
           NEW it \in S, Runs(m, S, base + off, 0, n, inst, it)
    PROVE  Runs(m, T, base, off, n, inst, [it EXCEPT !.at = it.at + off])
<1> DEFINE Moved(x) == [x EXCEPT !.at = x.at + off]
           y == Moved(it)
<1>1. \A x \in S : /\ Moved(x) \in T
                   /\ Moved(x).op = x.op /\ Moved(x).len = x.len
                   /\ Moved(x).disp = x.disp /\ Moved(x).inst = x.inst
                   /\ Moved(x).at = x.at + off
                   /\ x.at \in Nat /\ x.len \in Nat
  BY DEF Items, Placed
<1>2. /\ y.op = it.op /\ y.len = it.len /\ y.disp = it.disp /\ y.inst = it.inst
      /\ y.at = it.at + off /\ it.at \in Nat
  BY <1>1
<1> HIDE DEF y
<1>3. /\ FetchedLen(m, y) = FetchedLen(m, it)
      /\ \A a : Points(m, a, y) = Points(m, a, it)
  BY <1>2 DEF Points, FetchedLen
<1>4. base + off + 0 = base + off /\ base + off + it.at = base + y.at
  BY <1>2
<1>5. it.at = 0 <=> y.at = off
  BY <1>2
<1>6. ASSUME NEW x \in S, x.at = it.at + it.len, x.at < 0 + n
      PROVE  Moved(x) \in T /\ Moved(x).op = x.op
             /\ Moved(x).at = y.at + y.len /\ Moved(x).at < off + n
  <2> DEFINE z == Moved(x)
  <2>1. z \in T /\ z.op = x.op /\ z.at = x.at + off
    BY <1>1
  <2>2. it.len \in Nat
    BY <1>1
  <2> HIDE DEF z
  <2>3. z.at = y.at + y.len /\ z.at < off + n
    BY <1>2, <1>6, <2>1, <2>2
  <2> QED BY <2>1, <2>3 DEF z
<1>7. CASE Stands(m, base + off, 0, n, inst, it)
  <2>1. Points(m, base + off + 0, it) = Points(m, base + off, y)
    BY <1>3, <1>4
  <2>2. Stands(m, base, off, n, inst, y)
    BY <1>2, <1>3, <1>5, <1>7, <2>1 DEF Stands
  <2> QED BY <2>2 DEF Runs, y
<1>8. CASE Hops(m, S, base + off, 0, n, inst, it)
  <2>1. PICK x \in S : x.at = it.at + it.len /\ x.at < 0 + n /\ x.op \in {"jumpMem", "load"}
    BY <1>8 DEF Hops
  <2>2. \E z \in T : z.at = y.at + y.len /\ z.at < off + n /\ z.op \in {"jumpMem", "load"}
    BY <1>6, <2>1
  <2>3. Points(m, base + off + 0, it) = base + off + 0 + n
    BY <1>8 DEF Hops
  <2>4. Points(m, base + off, y) = base + off + n
    BY <1>3, <1>4, <2>3
  <2>5. Hops(m, T, base, off, n, inst, y)
    BY <1>2, <1>5, <1>8, <2>2, <2>4 DEF Hops
  <2> QED BY <2>5 DEF Runs, y
<1>9. CASE Finds(m, S, base + off, 0, n, inst, it)
  <2>1. PICK d \in S : /\ d.op = "data" /\ d.disp = inst.target
                       /\ base + off + d.at = Points(m, base + off + it.at, it)
    BY <1>9 DEF Finds, Locates
  <2> DEFINE e == Moved(d)
  <2>2. e \in T /\ e.op = "data" /\ e.disp = inst.target /\ e.at = d.at + off /\ d.at \in Nat
    BY <1>1, <2>1
  <2> HIDE DEF e
  <2>3. base + e.at = Points(m, base + y.at, y)
    <3>1. base + e.at = base + off + d.at
      BY <2>2
    <3> QED BY <1>3, <1>4, <2>1, <3>1
  <2>4. Locates(m, T, base, y, inst.target)
    BY <2>2, <2>3 DEF Locates
  <2>5. y.op = "load" =>
            \E z \in T : z.at = y.at + y.len /\ z.at < off + n /\ z.op = "branchReg"
    <3> SUFFICES ASSUME y.op = "load"
                 PROVE  \E z \in T : z.at = y.at + y.len /\ z.at < off + n /\ z.op = "branchReg"
      OBVIOUS
    <3>1. PICK x \in S : x.at = it.at + it.len /\ x.at < 0 + n /\ x.op = "branchReg"
      BY <1>2, <1>9 DEF Finds
    <3> QED BY <1>6, <3>1
  <2>6. Finds(m, T, base, off, n, inst, y)
    BY <1>2, <1>5, <1>9, <2>4, <2>5 DEF Finds
  <2> QED BY <2>6 DEF Runs, y
<1>10. CASE Through(0, inst, it)
  <2>1. off < y.at
    BY <1>2, <1>10 DEF Through
  <2> QED BY <1>2, <1>10, <2>1 DEF Through, Runs, y
<1> QED BY <1>7, <1>8, <1>9, <1>10 DEF Runs

\* A piece of code that is written behind what is there already.
LEMMA FollowsPlaced ==
    ASSUME NEW m, NEW S \in SUBSET Items, NEW base \in Int, NEW off \in Nat,
           NEW n \in Nat, NEW inst, Follows(m, S, base + off, 0, n, inst),
           NEW before \in SUBSET Items, \A it \in before : it.at < off
    PROVE  Follows(m, before \cup Placed(S, off), base, off, n, inst)
<1> DEFINE T == before \cup Placed(S, off)
           Moved(x) == [x EXCEPT !.at = x.at + off]
<1>1. \A x \in S : Moved(x) \in T /\ Moved(x).at = x.at + off
                   /\ Moved(x).op = x.op /\ x.at \in Nat
  BY DEF Items, Placed
<1>2. \A x \in S : Runs(m, S, base + off, 0, n, inst, x) => Runs(m, T, base, off, n, inst, Moved(x))
  <2>1. Placed(S, off) \subseteq T
    OBVIOUS
  <2> HIDE DEF T
  <2> QED BY <2>1, RunsPlaced
<1>3. \E it \in T : it.at = off /\ Runs(m, T, base, off, n, inst, it)
  <2>1. PICK x \in S : x.at = 0 /\ Runs(m, S, base + off, 0, n, inst, x)
    BY DEF Follows
  <2> DEFINE y == Moved(x)
  <2>2. y \in T /\ y.at = x.at + off /\ Runs(m, T, base, off, n, inst, y)
    BY <1>1, <1>2, <2>1
  <2> HIDE DEF y, T
  <2>3. y.at = off
    BY <2>1, <2>2
  <2> QED BY <2>2, <2>3
<1>4. ASSUME NEW it \in T, off <= it.at, it.at < off + n
      PROVE  it.op = "data" \/ Runs(m, T, base, off, n, inst, it)
  <2>1. it \in Placed(S, off)
    <3>1. it \in before => FALSE
      <4>1. SUFFICES ASSUME it \in before PROVE FALSE
        OBVIOUS
      <4> HIDE DEF T
      <4>2. it.at < off /\ off <= it.at
        BY <1>4, <4>1
      <4>3. it.at \in Nat
        BY <4>1 DEF Items
      <4> QED BY <4>2, <4>3
    <3> QED BY <3>1
  <2>2. PICK x \in S : it = Moved(x)
    BY <2>1 DEF Placed
  <2>3. it.at = x.at + off /\ it.op = x.op /\ x.at \in Nat
    BY <1>1, <2>2
  <2>4. 0 <= x.at /\ x.at < 0 + n
    <3> HIDE DEF T
    <3> QED BY <1>4, <2>3
  <2>5. x.op = "data" \/ Runs(m, S, base + off, 0, n, inst, x)
    BY <2>4 DEF Follows
  <2> HIDE DEF T
  <2> QED BY <1>2, <2>2, <2>3, <2>5
<1>5. n > 0
  BY DEF Follows
<1> HIDE DEF T
<1>6. Follows(m, T, base, off, n, inst)
  BY <1>3, <1>4, <1>5 DEF Follows
<1> QED BY <1>6 DEF T


\* The items of a piece of code are not empty where it is placed either.
LEMMA PlacedSized ==
    ASSUME NEW S \in SUBSET Items, Sized(S), NEW off \in Nat,
           NEW before, Sized(before)
    PROVE  Sized(before \cup Placed(S, off))
<1>1. \A it \in Placed(S, off) : \E x \in S : it.len = x.len
  BY PlacedItems
<1> QED BY <1>1 DEF Sized

\* Code that is placed lies behind the offset it is placed at.
LEMMA PlacedBehind ==
    ASSUME NEW S \in SUBSET Items, NEW off \in Nat
    PROVE  \A it \in Placed(S, off) : /\ it.at \in Nat /\ off <= it.at
                                     /\ \E x \in S : x.at \in Nat /\ it.at = x.at + off
<1> SUFFICES ASSUME NEW it \in Placed(S, off)
             PROVE  /\ it.at \in Nat /\ off <= it.at
                    /\ \E x \in S : x.at \in Nat /\ it.at = x.at + off
  OBVIOUS
<1>1. PICK x \in S : it = [x EXCEPT !.at = x.at + off]
  BY DEF Placed
<1>2. x.at \in Nat /\ it.at = x.at + off
  BY <1>1 DEF Items
<1> QED BY <1>2

\* An item within a number of bytes starts below it, unless it is empty.
LEMMA StartsWithin ==
    ASSUME NEW S \in SUBSET Items, Sized(S), NEW n \in Nat, \A it \in S : Within(it, n)
    PROVE  \A it \in S : it.at < n
  BY DEF Items, Sized, Within

-----------------------------------------------------------------------------

\* Nothing is in the buffer of a call that begins.
LEMMA CallBeginsCode ==
    ASSUME CallBegins, ProperCall
    PROVE  CodeInv
<1>1. insts = <<>> /\ recs = <<>> /\ out = {} /\ status = "NONE" /\ code \in Seq(Inst)
  BY CallBeginsInv DEF CallBegins, DecodeInit, WorkInit, RelocateInv, TypeOK, DecodeTypeOK
<1>2. Len(insts) = 0 /\ Len(recs) = 0 /\ Len(code) \in Nat
  BY <1>1
<1> QED BY <1>1, <1>2 DEF CodeInv, PrefixInv, OrderInv, FollowInv, Sized

\* The arguments do not change.
LEMMA ProperStays ==
    ASSUME ProperCall, UNCHANGED <<mode, code, raddr, cont, cap>>
    PROVE  ProperCall'
  BY DEF ProperCall, WordsStayWords

\* Steps that move nothing.
LEMMA QuietCode ==
    ASSUME CodeInv, UNCHANGED <<mode, code, insts, raddr, cont, cap, offset, recs, out>>,
           status' = "OK" => status = "OK" /\ result' = result
    PROVE  CodeInv'
<1>1. ProperCall'
  BY ProperStays DEF CodeInv
<1>2. PrefixInv' /\ OrderInv'
  BY DEF CodeInv, PrefixInv, OrderInv
<1>3. FollowInv'
  <2>1. Spotless' => Spotless
    BY DEF Spotless
  <2>2. Back' = Back
    BY DEF Back
  <2> QED BY <2>1, <2>2 DEF CodeInv, FollowInv
<1> QED BY <1>1, <1>2, <1>3 DEF CodeInv

\* Decoding.
LEMMA DecodingCode ==
    ASSUME RelocateInv, CodeInv, Decoding
    PROVE  CodeInv'
<1>1. /\ rpc = "decode" /\ recs = <<>> /\ out = {} /\ status = "NONE" /\ offset = 0
      /\ UNCHANGED <<raddr, cont, cap, offset, recs, out, status>>
      /\ code' = code /\ mode' = mode
  BY DEF RelocateInv, PhaseInv, Decoding, argVars, workVars, DecodeStep, DecodeOne,
         DecodeFails, LoopEnds
<1>2. Len(recs) = 0
  BY <1>1
<1>3. ProperCall'
  BY <1>1, ProperStays DEF CodeInv
<1>4. OrderInv' /\ FollowInv'
  BY <1>1, <1>2 DEF OrderInv, FollowInv, Sized
<1>5. PrefixInv'
  <2>1. CASE insts' = insts
    BY <1>1, <2>1 DEF CodeInv, PrefixInv
  <2>2. CASE DecodeOne
    <3> DEFINE n   == Len(insts)
               new == [address |-> Origin + total, inst |-> code[n + 1]]
    <3>1. insts' = Append(insts, new) /\ n < Len(code)
      BY <2>2 DEF DecodeOne
    <3>2. insts \in Seq(Decoded) /\ code \in Seq(Inst) /\ n \in Nat /\ Len(code) \in Nat
      BY DEF RelocateInv, TypeOK, DecodeTypeOK
    <3>3. new \in Decoded
      <4>1. n + 1 \in 1..Len(code)
        BY <3>1, <3>2
      <4>2. code[n + 1] \in Inst
        BY <3>2, <4>1
      <4>3. Origin + total \in Int
        BY BlockAssumption DEF RelocateInv, TypeOK, DecodeTypeOK
      <4> QED BY <4>2, <4>3 DEF Decoded
    <3>4. new.inst = code[n + 1]
      OBVIOUS
    <3> HIDE DEF new
    <3>5. /\ Len(insts') = n + 1 /\ insts'[n + 1] = new
          /\ \A k \in 1..n : insts'[k] = insts[k]
      BY <3>1, <3>2, <3>3
    <3>6. \A k \in 1..(n + 1) : insts'[k].inst = code[k]
      <4> SUFFICES ASSUME NEW k \in 1..(n + 1)
                   PROVE  insts'[k].inst = code[k]
        OBVIOUS
      <4>1. CASE k = n + 1
        BY <3>4, <3>5, <4>1
      <4>2. CASE k \in 1..n
        BY <3>5, <4>2 DEF CodeInv, PrefixInv
      <4> QED BY <3>2, <4>1, <4>2
    <3>7. n + 1 <= Len(code)
      BY <3>1, <3>2
    <3> QED BY <1>1, <3>5, <3>6, <3>7 DEF PrefixInv
  <2> QED BY <2>1, <2>2 DEF Decoding, DecodeStep, DecodeFails, LoopEnds
<1> QED BY <1>3, <1>4, <1>5 DEF CodeInv

\* What a turn of the loop adds lies behind all there is.
LEMMA TurnCode ==
    ASSUME RelocateInv, CodeInv, RelocateTurn
    PROVE  /\ Emission.code \in SUBSET Items /\ Emission.size \in Nat
           /\ out \in SUBSET Items /\ offset \in Nat /\ raddr \in Int
           /\ \A it \in out : it.at < offset
           /\ Sized(out')
           /\ ProperCall' /\ PrefixInv'
           /\ Spotless' => Spotless
           /\ Current \in Decoded
<1>1. /\ rpc = "relocate" /\ out' = out \cup Placed(Emission.code, offset)
      /\ UNCHANGED <<mode, code, insts, raddr, cont, cap>>
  BY DEF RelocateTurn, decodeVars, argVars
<1>2. /\ Current \in Decoded /\ Emission.size \in Nat
      /\ Contract(mode, Emission, cap - offset)
  BY TurnFacts
<1>3. /\ out \in SUBSET Items /\ offset \in Nat /\ raddr \in Int
      /\ Emission.code \in SUBSET Items
      /\ \A it \in out : Within(it, offset)
  BY <1>1, <1>2 DEF RelocateInv, TypeOK, BufferInv, Contract, Accountable, EmitResults
<1>4. \A it \in out : it.at < offset
  BY <1>3, StartsWithin DEF CodeInv, OrderInv
<1>5. Sized(out')
  <2>1. Sized(Emission.code)
    BY <1>2, RelocateInstSized DEF Emission, Decoded
  <2> QED BY <1>1, <1>3, <2>1, PlacedSized DEF CodeInv, OrderInv
<1>6. ProperCall' /\ PrefixInv'
  BY <1>1, ProperStays DEF CodeInv, PrefixInv
<1>7. Spotless' => Spotless
  BY <1>1 DEF Spotless
<1> QED BY <1>2, <1>3, <1>4, <1>5, <1>6, <1>7

\* The emission of a turn that succeeds does what its instruction does.
LEMMA EmissionCarries ==
    ASSUME RelocateInv, TargetInv, CodeInv, RelocateTurn, Emission.status = "OK", Spotless'
    PROVE  Carries(mode, Emission, raddr + offset, Current.inst)
<1> DEFINE inst == Current.inst
           n    == Len(recs) + 1
<1>1. /\ mode \in Modes /\ raddr \in Int /\ offset \in Nat /\ Origin \in Int
      /\ insts \in Seq(Decoded) /\ Len(recs) \in Nat /\ Len(recs) < Len(insts)
      /\ insts' = insts /\ mode' = mode /\ Emission.code \in SUBSET Items
      /\ out' = out \cup Placed(Emission.code, offset)
  BY BlockAssumption, TurnCode
  DEF RelocateInv, TypeOK, DecodeTypeOK, RelocateTurn, decodeVars
<1>2. n \in 1..Len(insts) /\ Current = insts[n]
  BY <1>1 DEF Current
<1>3. inst \in Inst /\ Decodable(mode, inst)
  <2>1. Current \in Decoded
    BY <1>1, <1>2
  <2> QED BY <1>2, <2>1 DEF TargetInv, DecodableInv, Decoded
<1>4. Honest(mode, inst)
  <2>1. n \in 1..Len(code) /\ insts[n].inst = code[n]
    <3>1. Len(insts) <= Len(code) /\ code \in Seq(Inst)
      BY DEF CodeInv, PrefixInv, RelocateInv, TypeOK, DecodeTypeOK
    <3>2. Len(insts) \in Nat /\ Len(code) \in Nat
      BY <1>1, <3>1
    <3>3. n \in 1..Len(code)
      BY <1>2, <3>1, <3>2
    <3> QED BY <1>2, <3>3 DEF CodeInv, PrefixInv
  <2> QED BY <1>2, <2>1 DEF CodeInv, ProperCall
<1>5. Clean(mode, inst, Emission.code)
  <2>1. /\ mode \in {"a32", "x86_16"} => inst.does # "cond"
        /\ inst.does = "ref" => inst.pcrel
    BY <1>1, <1>2 DEF Spotless
  <2>2. ASSUME NEW x \in Emission.code
        PROVE  x.op \notin {"callMem", "callReg", "spoilt"}
    <3>1. [x EXCEPT !.at = x.at + offset] \in out'
      BY <1>1 DEF Placed
    <3>2. [x EXCEPT !.at = x.at + offset].op = x.op
      BY <1>1 DEF Items
    <3> QED BY <3>1, <3>2 DEF Spotless
  <2> QED BY <2>1, <2>2 DEF Clean
<1> HIDE DEF inst, n
<1>6. inst.target \in Int
  BY <1>3 DEF Inst
<1>7. mode = "a64" /\ inst.enc \in A64Conditionals \cup {"literal"} =>
          (inst.target - (raddr + offset)) % 4 = 0
  <2> SUFFICES ASSUME mode = "a64", inst.enc \in A64Conditionals \cup {"literal"}
               PROVE  (inst.target - (raddr + offset)) % 4 = 0
    OBVIOUS
  <2>1. (inst.target - Origin) % 4 = 0
    BY <1>3 DEF Decodable
  <2>2. (raddr - Origin) % 4 = 0 /\ offset % 4 = 0
    BY DEF CodeInv, ProperCall, WordsStayWords, TargetInv, WordsInv
  <2> QED BY <1>1, <1>6, <2>1, <2>2, WholeWordsApart
<1>8. /\ mode \in X86Modes \cup {"a64"} /\ inst.pcrel => inst.operand
      /\ mode \in ArmModes /\ inst.cls \in {"directBranch", "directCall"} => inst.operand
      /\ mode = "a64" /\ inst.enc = "b" => inst.cls \in {"directBranch", "directCall"}
      /\ mode = "a64" /\ inst.enc = "adrp" => inst.target % PageSize = 0
  BY <1>3 DEF Decodable, ArmModes
<1>9. Emission = RelocateInst(mode, inst, raddr + offset, cap - offset)
  BY DEF Emission, inst
<1>10. raddr + offset \in Int
  BY <1>1
<1>11. Carries(mode, Emission, raddr + offset, inst)
  BY <1>1, <1>3, <1>4, <1>5, <1>7, <1>8, <1>9, <1>10, RelocateInstCarries
<1> QED BY <1>11 DEF inst

\* A turn that moves an instruction.
LEMMA RelocateOneCode ==
    ASSUME RelocateInv, TargetInv, CodeInv, RelocateOne
    PROVE  CodeInv'
<1> DEFINE n   == Len(recs)
           new == [original |-> Current.address, originalSize |-> Current.inst.size,
                   at |-> offset, size |-> Emission.size]
<1>1. /\ RelocateTurn /\ Emission.status = "OK"
      /\ recs' = Append(recs, new) /\ offset' = offset + Emission.size
      /\ out' = out \cup Placed(Emission.code, offset)
      /\ UNCHANGED <<mode, code, insts, raddr, cont, cap, status>>
      /\ status = "NONE" /\ n < Len(insts)
  BY DEF RelocateOne, RelocateTurn, decodeVars, argVars, RelocateInv, PhaseInv
<1>2. /\ Emission.code \in SUBSET Items /\ Emission.size \in Nat
      /\ out \in SUBSET Items /\ offset \in Nat /\ raddr \in Int
      /\ \A it \in out : it.at < offset
      /\ Sized(out') /\ ProperCall' /\ PrefixInv' /\ (Spotless' => Spotless)
      /\ Current \in Decoded
  BY <1>1, TurnCode
<1>3. recs \in Seq(Records) /\ n \in Nat
  BY DEF RelocateInv, TypeOK
<1>4. new \in Records
  <2>1. Current.address \in Int /\ Current.inst.size \in Nat
    BY <1>2 DEF Decoded, Inst, MaxInstBytes
  <2> QED BY <1>2, <2>1 DEF Records
<1>5. /\ Len(recs') = n + 1
      /\ recs'[n + 1] = new /\ \A k \in 1..n : recs'[k] = recs[k]
  <2> HIDE DEF new
  <2> QED BY <1>1, <1>3, <1>4
<1>6. new.at = offset /\ new.size = Emission.size
  OBVIOUS
<1> HIDE DEF new
<1>7. \A k \in 1..n : /\ recs[k].at \in Nat /\ recs[k].size \in Nat
                      /\ recs[k].at + recs[k].size <= offset
  <2>1. \A k \in 1..n : recs[k] \in Records
    BY <1>3
  <2> QED BY <2>1 DEF CodeInv, OrderInv, Records
<1>8. \A k \in 1..(n + 1) : k \in 1..n \/ k = n + 1
  BY <1>3
<1>9. OrderInv'
  <2>1. ASSUME NEW k \in 1..(n + 1)
        PROVE  recs'[k].at + recs'[k].size <= offset'
    <3>1. CASE k = n + 1
      BY <1>1, <1>2, <1>5, <1>6, <3>1
    <3>2. CASE k \in 1..n
      <4>1. recs'[k] = recs[k]
        BY <1>5, <3>2
      <4>2. /\ recs[k].at \in Nat /\ recs[k].size \in Nat
            /\ recs[k].at + recs[k].size <= offset
        BY <1>7, <3>2
      <4>3. offset' = offset + Emission.size /\ offset \in Nat /\ Emission.size \in Nat
        BY <1>1, <1>2
      <4>4. recs[k].at + recs[k].size <= offset + Emission.size
        <5>1. \A a, b, c, d \in Nat : a + b <= c => a + b <= c + d
          OBVIOUS
        <5> QED BY ONLY <4>2, <4>3, <5>1
      <4> QED BY <4>1, <4>3, <4>4
    <3> QED BY <1>8, <3>1, <3>2
  <2>2. ASSUME NEW j \in 1..(n + 1), NEW k \in 1..(n + 1), j < k
        PROVE  recs'[j].at + recs'[j].size <= recs'[k].at
    <3>1. j \in 1..n
      BY <1>3, <2>2
    <3>2. CASE k = n + 1
      BY <1>5, <1>6, <1>7, <3>1, <3>2
    <3>3. CASE k \in 1..n
      BY <1>5, <2>2, <3>1, <3>3 DEF CodeInv, OrderInv
    <3> QED BY <1>8, <3>2, <3>3
  <2> QED BY <1>1, <1>2, <1>5, <2>1, <2>2 DEF OrderInv
<1>10. FollowInv'
  <2> SUFFICES ASSUME Spotless', NEW k \in 1..(n + 1)
               PROVE  Follows(mode, out', raddr, recs'[k].at, recs'[k].size, insts[k].inst)
    BY <1>1, <1>5 DEF FollowInv
  <2> DEFINE S == Emission.code
             T == out \cup Placed(S, offset)
  <2>1. CASE k \in 1..n
    <3>1. Follows(mode, out, raddr, recs[k].at, recs[k].size, insts[k].inst)
      BY <1>2, <2>1 DEF CodeInv, FollowInv
    <3>2. \A it \in Placed(S, offset) : it.at \in Nat /\ offset <= it.at
      <4>1. S \in SUBSET Items
        BY <1>2
      <4> HIDE DEF S
      <4> QED BY <1>2, <4>1, PlacedBehind
    <3>3. /\ recs[k].at \in Nat /\ recs[k].size \in Nat
          /\ recs[k].at + recs[k].size <= offset
      BY <1>7, <2>1
    <3> HIDE DEF S
    <3>4. \A it \in T : it \in out \/ ~(recs[k].at <= it.at /\ it.at < recs[k].at + recs[k].size)
      <4> SUFFICES ASSUME NEW it \in Placed(S, offset)
                   PROVE  ~(it.at < recs[k].at + recs[k].size)
        OBVIOUS
      <4>1. it.at \in Nat /\ offset <= it.at
        BY <3>2
      <4>2. offset \in Nat
        BY <1>2
      <4> QED BY ONLY <3>3, <4>1, <4>2
    <3>5. out \subseteq T
      OBVIOUS
    <3> HIDE DEF T
    <3>6. Follows(mode, T, raddr, recs[k].at, recs[k].size, insts[k].inst)
      BY <3>1, <3>4, <3>5, FollowsMore
    <3> QED BY <1>1, <1>5, <2>1, <3>6 DEF S, T
  <2>2. CASE k = n + 1
    <3>1. Follows(mode, S, raddr + offset, 0, Emission.size, Current.inst)
      BY <1>1, EmissionCarries DEF Carries
    <3>2. S \in SUBSET Items
      BY <1>2
    <3> HIDE DEF S
    <3>3. Follows(mode, T, raddr, offset, Emission.size, Current.inst)
      BY <1>2, <3>1, <3>2, FollowsPlaced
    <3> QED BY <1>1, <1>5, <1>6, <2>2, <3>3 DEF Current, S
  <2> QED BY <1>8, <2>1, <2>2
<1> QED BY <1>2, <1>9, <1>10 DEF CodeInv

\* What is written without being recorded changes nothing for what is.
LEMMA LeftoverCode ==
    ASSUME RelocateInv, CodeInv, UNCHANGED <<mode, insts, raddr, offset, recs>>,
           Sized(out'), status' # "OK",
           NEW S \in SUBSET Items, out' = out \cup Placed(S, offset)
    PROVE  OrderInv' /\ FollowInv'
<1>1. OrderInv'
  BY DEF CodeInv, OrderInv
<1>2. FollowInv'
  <2> SUFFICES ASSUME Spotless', NEW k \in 1..Len(recs)
               PROVE  Follows(mode, out', raddr, recs[k].at, recs[k].size, insts[k].inst)
    BY DEF FollowInv
  <2>1. Spotless
    BY DEF Spotless
  <2>2. Follows(mode, out, raddr, recs[k].at, recs[k].size, insts[k].inst)
    BY <2>1 DEF CodeInv, FollowInv
  <2>3. /\ offset \in Nat /\ recs[k].at \in Nat /\ recs[k].size \in Nat
        /\ recs[k].at + recs[k].size <= offset
    <3>1. recs \in Seq(Records) /\ offset \in Nat
      BY DEF RelocateInv, TypeOK
    <3>2. recs[k] \in Records
      BY <3>1
    <3> QED BY <3>1, <3>2 DEF CodeInv, OrderInv, Records
  <2>4. \A it \in Placed(S, offset) : it.at \in Nat /\ offset <= it.at
    BY <2>3, PlacedBehind
  <2>5. \A it \in out' : it \in out \/ ~(recs[k].at <= it.at /\ it.at < recs[k].at + recs[k].size)
    <3> SUFFICES ASSUME NEW it \in Placed(S, offset)
                 PROVE  ~(it.at < recs[k].at + recs[k].size)
      OBVIOUS
    <3> QED BY <2>3, <2>4
  <2> QED BY <2>2, <2>5, FollowsMore
<1> QED BY <1>1, <1>2

\* A turn that is refused leaves what it has written behind.
LEMMA RelocateEndsCode ==
    ASSUME RelocateInv, TargetInv, CodeInv, RelocateRefused \/ RelocateClobbers
    PROVE  CodeInv'
<1>1. /\ RelocateTurn /\ UNCHANGED <<mode, insts, raddr, offset, recs>>
      /\ out' = out \cup Placed(Emission.code, offset)
      /\ status' # "OK"
  BY DEF RelocateRefused, RelocateClobbers, RelocateTurn, decodeVars, argVars
<1>2. Emission.code \in SUBSET Items /\ Sized(out') /\ ProperCall' /\ PrefixInv'
  BY <1>1, TurnCode
<1>3. OrderInv' /\ FollowInv'
  BY <1>1, <1>2, LeftoverCode
<1> QED BY <1>2, <1>3 DEF CodeInv

\* The jump back ends the code.
LEMMA JumpBackCodeInv ==
    ASSUME RelocateInv, TargetInv, CodeInv, JumpBack \/ JumpBackFails
    PROVE  CodeInv'
<1> DEFINE opts == [given |-> TRUE, mode |-> bmode, allowed |-> allowed]
           S    == Return.code
<1>1. /\ rpc = "relocate" /\ out' = out \cup Placed(S, offset)
      /\ status' = Return.status
      /\ Return.status = "OK" => result'.jumpAt = offset /\ result'.jumpSize = Return.size
      /\ UNCHANGED <<mode, code, insts, raddr, cont, cap, recs, offset>>
  BY DEF JumpBack, JumpBackFails, JumpBackTurn, decodeVars, argVars
<1>2. /\ mode \in Modes /\ raddr \in Int /\ cont \in Int /\ bmode \in BranchModes
      /\ allowed \in SUBSET Regs /\ offset \in Nat /\ cap \in Nat /\ offset <= cap
      /\ out \in SUBSET Items /\ \A it \in out : Within(it, offset)
  BY <1>1 DEF RelocateInv, TypeOK, DecodeTypeOK, BufferInv
<1>3. opts \in EmitOptions /\ raddr + offset \in Int /\ cap - offset \in Nat
  BY <1>2 DEF EmitOptions
<1>4. Accountable(mode, Return, cap - offset) /\ Sized(S)
  BY <1>2, <1>3, EmitTransferContract, EmitJumpSized DEF Return, EmitJump
<1>5. /\ S \in SUBSET Items /\ Return.size \in Nat
      /\ Return.status = "OK" => Return.size <= cap - offset
      /\ \A it \in S : Within(it, Return.size)
  BY <1>4 DEF Accountable, EmitResults
<1>6. Return.status = "OK" => Carries(mode, Return, raddr + offset, Back)
  <2>1. Back.does = "jump" /\ Back.target = cont
    BY DEF Back, NoInst
  <2> HIDE DEF opts
  <2> QED BY <1>2, <1>3, <2>1, EmitJumpCarries DEF Return, opts
<1> HIDE DEF opts, S
<1>7. ProperCall' /\ PrefixInv'
  BY <1>1, ProperStays DEF CodeInv, PrefixInv
<1>8. Sized(out')
  BY <1>1, <1>2, <1>4, <1>5, PlacedSized DEF CodeInv, OrderInv
<1>9. \A it \in out : it.at < offset
  BY <1>2, StartsWithin DEF CodeInv, OrderInv
<1>10. CASE Return.status # "OK"
  <2>1. OrderInv' /\ FollowInv'
    BY <1>1, <1>5, <1>8, <1>10, LeftoverCode
  <2> QED BY <1>7, <2>1 DEF CodeInv
<1>11. CASE Return.status = "OK"
  <2>1. \A it \in out' : it.at < offset + Return.size
    <3>1. \A x \in S : x.at \in Nat /\ x.at < Return.size
      BY <1>4, <1>5, StartsWithin DEF Items
    <3>2. \A it \in Placed(S, offset) : \E x \in S : x.at \in Nat /\ it.at = x.at + offset
      BY <1>2, <1>5, PlacedBehind
    <3>3. \A it \in out : it.at \in Nat
      BY <1>2 DEF Items
    <3>4. ASSUME NEW it \in out' PROVE it.at < offset + Return.size
      <4>1. CASE it \in out
        BY <1>2, <1>5, <1>9, <3>3, <4>1
      <4>2. CASE it \in Placed(S, offset)
        BY <1>2, <1>5, <3>1, <3>2, <4>2
      <4> QED BY <1>1, <4>1, <4>2
    <3> QED BY <3>4
  <2>2. OrderInv'
    <3>1. offset + Return.size <= cap
      BY <1>2, <1>5, <1>11
    <3> QED BY <1>1, <1>8, <1>11, <2>1, <3>1 DEF CodeInv, OrderInv
  <2>3. FollowInv'
    <3> SUFFICES ASSUME Spotless'
                 PROVE  /\ \A k \in 1..Len(recs) :
                              Follows(mode, out', raddr, recs[k].at, recs[k].size, insts[k].inst)
                        /\ Follows(mode, out', raddr, offset, Return.size, Back)
      BY <1>1, <1>11 DEF FollowInv, Back
    <3>1. Spotless
      BY <1>1 DEF Spotless
    <3>2. ASSUME NEW k \in 1..Len(recs)
          PROVE  Follows(mode, out', raddr, recs[k].at, recs[k].size, insts[k].inst)
      <4>1. Follows(mode, out, raddr, recs[k].at, recs[k].size, insts[k].inst)
        BY <3>1 DEF CodeInv, FollowInv
      <4>2. /\ recs[k].at \in Nat /\ recs[k].size \in Nat
            /\ recs[k].at + recs[k].size <= offset
        <5>1. recs[k] \in Records
          BY DEF RelocateInv, TypeOK
        <5> QED BY <5>1 DEF CodeInv, OrderInv, Records
      <4>3. \A it \in Placed(S, offset) : it.at \in Nat /\ offset <= it.at
        BY <1>2, <1>5, PlacedBehind
      <4>4. \A it \in out' :
               it \in out \/ ~(recs[k].at <= it.at /\ it.at < recs[k].at + recs[k].size)
        <5> SUFFICES ASSUME NEW it \in Placed(S, offset)
                     PROVE  ~(it.at < recs[k].at + recs[k].size)
          BY <1>1
        <5> QED BY <1>2, <4>2, <4>3
      <4>5. out \subseteq out'
        BY <1>1
      <4> QED BY <4>1, <4>4, <4>5, FollowsMore
    <3>3. Follows(mode, out', raddr, offset, Return.size, Back)
      <4>1. Follows(mode, S, raddr + offset, 0, Return.size, Back)
        BY <1>6, <1>11 DEF Carries, S
      <4>2. Follows(mode, out \cup Placed(S, offset), raddr, offset, Return.size, Back)
        BY <1>2, <1>5, <1>9, <4>1, FollowsPlaced
      <4> QED BY <1>1, <4>2
    <3> QED BY <3>2, <3>3
  <2> QED BY <1>7, <2>2, <2>3 DEF CodeInv
<1> QED BY <1>10, <1>11

\* Every step keeps the code in order.
LEMMA CodeStepInv ==
    ASSUME RelocateInv, TargetInv, CodeInv, [Next]_vars
    PROVE  CodeInv'
<1>1. CASE UNCHANGED vars
  BY <1>1, QuietCode DEF vars, decodeVars, argVars, workVars
<1>2. CASE BlockDecoded \/ BlockRefused \/ RelocateUnsupported
  <2>1. /\ UNCHANGED <<mode, code, insts, raddr, cont, cap, offset, recs, out>>
        /\ status' # "OK"
    BY <1>2 DEF BlockDecoded, BlockRefused, RelocateUnsupported, decodeVars, argVars,
                RelocateInv, PhaseInv
  <2> QED BY <2>1, QuietCode
<1> QED BY <1>1, <1>2, DecodingCode, RelocateOneCode, RelocateEndsCode, JumpBackCodeInv
        DEF Next

\* Every relocated instruction, and the jump back, is followed by the code written
\* for it: a copy of it, an item that does the same to the same target, or an
\* expansion whose inverted condition hops past it and whose jump or load finds
\* the target in its literal.
THEOREM CodeAlwaysFollows == Spec /\ ProperCall => []FollowInv
<1>1. Init /\ ProperCall => RelocateInv /\ TargetInv /\ CodeInv
  <2>1. Init => CallBegins
    BY BlockAssumption, RelocateAssumption DEF Init, AtLeastOne, CallBegins
  <2> QED BY <2>1, CallBeginsInv, CallBeginsTargets, CallBeginsCode
<1>2. RelocateInv /\ TargetInv /\ CodeInv /\ [Next]_vars
        => RelocateInv' /\ TargetInv' /\ CodeInv'
  BY RelocateStepInv, TargetStepInv, CodeStepInv
<1>3. CodeInv => FollowInv
  BY DEF CodeInv
<1> QED BY <1>1, <1>2, <1>3, PTL DEF Spec

-----------------------------------------------------------------------------
(***************************************************************************)
(* The pieces of code a processor finds in the buffer: one slot for every  *)
(* record, in order, and one for the jump back.                            *)
(***************************************************************************)
Slots   == 1 .. (Len(recs) + 1)
At(s)   == IF s <= Len(recs) THEN recs[s].at ELSE result.jumpAt
Size(s) == IF s <= Len(recs) THEN recs[s].size ELSE result.jumpSize
Body(s) == IF s <= Len(recs) THEN insts[s].inst ELSE Back

\* Where the code ends, as an offset.
End == result.jumpAt + result.jumpSize

Buffer == raddr .. (raddr + cap - 1)

\* A code that can be run.
Ready == Faults \subseteq Exempt /\ RelocateInv /\ CodeInv /\ Runnable

\* What the exempted defects leave of the code.
LEMMA RunnableSpotless == Ready => Spotless
<1> SUFFICES ASSUME Ready PROVE Spotless
  OBVIOUS
<1>1. ASSUME NEW d \in Faults PROVE ~Shows(d)
  BY DEF Ready, Runnable
<1>2. /\ "absolute call" \in Faults /\ "a32 condition" \in Faults
      /\ "16-bit jcc" \in Faults /\ "unflagged reference" \in Faults
      /\ "misread displacement" \in Faults
  BY DEF Faults, Defects
<1>3. \A it \in out : it.op \notin {"callMem", "callReg", "spoilt"}
  BY <1>1, <1>2, Zenon DEF Shows
<1>4. mode = "a32" => \A k \in 1..Len(insts) : insts[k].inst.does # "cond"
  BY <1>1, <1>2, Zenon DEF Shows
<1>5. mode = "x86_16" => \A k \in 1..Len(insts) : insts[k].inst.does # "cond"
  BY <1>1, <1>2, Zenon DEF Shows
<1>6. \A k \in 1..Len(insts) : insts[k].inst.does = "ref" => insts[k].inst.pcrel
  BY <1>1, <1>2, Zenon DEF Shows
<1> QED BY <1>3, <1>4, <1>5, <1>6 DEF Spotless

\* The records and the result of a call that succeeded.
LEMMA ReadyFacts ==
    ASSUME Ready
    PROVE  /\ Len(recs) \in Nat /\ Len(insts) = Len(recs) /\ result.jumpAt = offset
           /\ raddr \in Nat /\ cap \in Nat /\ offset \in Nat /\ cont \in Nat
           /\ result.jumpSize \in Nat /\ End \in Nat /\ End <= cap
           /\ Origin \in Int /\ Origin \notin Buffer /\ cont \notin Buffer
           /\ \A k \in 1..Len(recs) : recs[k] \in Records /\ insts[k] \in Decoded
           /\ out \in SUBSET Items
<1>1. /\ recs \in Seq(Records) /\ insts \in Seq(Decoded) /\ Len(recs) \in Nat
      /\ cap \in Nat /\ offset \in Nat /\ out \in SUBSET Items
      /\ result \in [overwritten: Nat, count: Nat, jumpAt: Nat, jumpSize: Nat]
  BY DEF Ready, RelocateInv, TypeOK, DecodeTypeOK
<1>2. Len(insts) = Len(recs) /\ result.jumpAt = offset
  BY DEF Ready, Runnable, RelocateInv, ResultInv
<1>3. \A k \in 1..Len(recs) : recs[k] \in Records /\ insts[k] \in Decoded
  BY <1>1, <1>2
<1>4. result.jumpSize \in Nat /\ End \in Nat
  BY <1>1 DEF End
<1>5. End <= cap
  BY DEF Ready, Runnable, CodeInv, OrderInv, End
<1>6. raddr \in Nat /\ \A a \in {Origin, cont} : a \in Nat \ Buffer
  BY DEF Ready, CodeInv, ProperCall, Buffer
<1> QED BY <1>1, <1>2, <1>3, <1>4, <1>5, <1>6

\* A slot.
LEMMA SlotFacts ==
    ASSUME Ready, NEW s \in Slots
    PROVE  /\ At(s) \in Nat /\ Size(s) \in Nat /\ Size(s) > 0 /\ At(s) + Size(s) <= End
           /\ Follows(mode, out, raddr, At(s), Size(s), Body(s))
           /\ Body(s).target \in Nat \ Buffer
           /\ s <= Len(recs) => Body(s) \in Inst
           /\ s > Len(recs) => Body(s) = Back
<1>1. s \in Int /\ (s <= Len(recs) => s \in 1..Len(recs)) /\ Len(recs) \in Nat
  BY ReadyFacts DEF Slots
<1>2. Spotless /\ status = "OK"
  BY RunnableSpotless DEF Ready, Runnable
<1>3. CASE s <= Len(recs)
  <2>1. s \in 1..Len(recs)
    BY <1>1, <1>3
  <2>2. At(s) = recs[s].at /\ Size(s) = recs[s].size /\ Body(s) = insts[s].inst
    BY <1>3 DEF At, Size, Body
  <2>3. Follows(mode, out, raddr, At(s), Size(s), Body(s))
    BY <1>2, <2>1, <2>2 DEF Ready, CodeInv, FollowInv
  <2>4. At(s) \in Nat /\ Size(s) \in Nat /\ Body(s) \in Inst
    BY <2>1, <2>2, ReadyFacts DEF Records, Decoded
  <2>5. At(s) + Size(s) <= End
    <3>1. recs[s].at + recs[s].size <= offset
      BY <2>1 DEF Ready, CodeInv, OrderInv
    <3>2. offset \in Nat /\ result.jumpSize \in Nat /\ End = offset + result.jumpSize
      BY ReadyFacts DEF End
    <3> QED BY <2>2, <2>4, <3>1, <3>2
  <2>6. Body(s).target \in Nat \ Buffer
    <3>1. s \in 1..Len(code) /\ insts[s].inst = code[s]
      <4>1. Len(insts) = Len(recs) /\ Len(insts) <= Len(code) /\ code \in Seq(Inst)
        BY ReadyFacts DEF Ready, CodeInv, PrefixInv, RelocateInv, TypeOK, DecodeTypeOK
      <4>2. Len(code) \in Nat
        BY <4>1
      <4> QED BY <1>1, <2>1, <4>1, <4>2 DEF Ready, CodeInv, PrefixInv
    <3> QED BY <2>2, <3>1 DEF Ready, CodeInv, ProperCall, Buffer
  <2>7. Size(s) > 0
    BY <2>3 DEF Follows
  <2> QED BY <1>1, <1>3, <2>3, <2>4, <2>5, <2>6, <2>7
<1>4. CASE ~(s <= Len(recs))
  <2>1. At(s) = result.jumpAt /\ Size(s) = result.jumpSize /\ Body(s) = Back
    BY <1>4 DEF At, Size, Body
  <2>2. Follows(mode, out, raddr, At(s), Size(s), Body(s))
    BY <1>2, <2>1 DEF Ready, CodeInv, FollowInv
  <2>3. At(s) \in Nat /\ Size(s) \in Nat /\ At(s) + Size(s) <= End
    BY <2>1, ReadyFacts DEF End
  <2>4. Body(s).target \in Nat \ Buffer
    BY <2>1, ReadyFacts DEF Back, NoInst
  <2>5. Size(s) > 0
    BY <2>2 DEF Follows
  <2> QED BY <1>4, <2>1, <2>2, <2>3, <2>4, <2>5
<1> QED BY <1>3, <1>4

\* The slots follow upon each other.
LEMMA SlotOrder ==
    ASSUME Ready
    PROVE  /\ At(1) = 0 /\ 1 \in Slots
           /\ \A s \in 1..Len(recs) : s + 1 \in Slots /\ At(s) + Size(s) = At(s + 1)
           /\ \A s, t \in Slots : s < t => At(s) + Size(s) <= At(t)
<1> DEFINE n == Len(recs)
<1>1. n \in Nat /\ result.jumpAt = offset
  BY ReadyFacts
<1>2. /\ \A k \in 1..n : recs[k].at + recs[k].size = IF k < n THEN recs[k + 1].at ELSE offset
      /\ IF n > 0 THEN recs[1].at = 0 ELSE offset = 0
  BY DEF Ready, RelocateInv, RecordInv
<1>3. /\ \A k \in 1..n : recs[k].at + recs[k].size <= offset
      /\ \A j, k \in 1..n : j < k => recs[j].at + recs[j].size <= recs[k].at
  BY DEF Ready, CodeInv, OrderInv
<1>4. At(1) = 0 /\ 1 \in Slots
  BY <1>1, <1>2 DEF At, Slots
<1>5. ASSUME NEW s \in 1..n
      PROVE  s + 1 \in Slots /\ At(s) + Size(s) = At(s + 1)
  <2>1. s + 1 \in Slots
    BY <1>1 DEF Slots
  <2>2. At(s) = recs[s].at /\ Size(s) = recs[s].size
    BY <1>1 DEF At, Size
  <2>3. At(s + 1) = IF s < n THEN recs[s + 1].at ELSE offset
    BY <1>1 DEF At
  <2> QED BY <1>2, <2>1, <2>2, <2>3
<1>6. ASSUME NEW s \in Slots, NEW t \in Slots, s < t
      PROVE  At(s) + Size(s) <= At(t)
  <2>1. s \in 1..n
    BY <1>1, <1>6 DEF Slots
  <2>2. At(s) = recs[s].at /\ Size(s) = recs[s].size
    BY <1>1, <2>1 DEF At, Size
  <2>3. CASE t <= n
    <3>1. t \in 1..n
      BY <1>1, <2>3 DEF Slots
    <3> QED BY <1>3, <1>6, <2>1, <2>2, <2>3, <3>1 DEF At
  <2>4. CASE ~(t <= n)
    BY <1>1, <1>3, <2>1, <2>2, <2>4 DEF At
  <2> QED BY <2>3, <2>4
<1> QED BY <1>4, <1>5, <1>6

\* An offset belongs to one slot,
LEMMA OneSlot ==
    ASSUME Ready, NEW s \in Slots, NEW t \in Slots, NEW x \in Int,
           At(s) <= x, x < At(s) + Size(s), At(t) <= x, x < At(t) + Size(t)
    PROVE  s = t
<1>1. s \in Int /\ t \in Int
  BY ReadyFacts DEF Slots
<1>2. /\ At(s) \in Nat /\ Size(s) \in Nat /\ At(t) \in Nat /\ Size(t) \in Nat
  BY SlotFacts
<1>3. ~(s < t) /\ ~(t < s)
  BY <1>2, SlotOrder
<1> QED BY <1>1, <1>3

\* and holds one item.
LEMMA OneItem ==
    ASSUME Ready, NEW a \in out, NEW b \in out, a.at = b.at
    PROVE  a = b
<1>1. a \in Items /\ b \in Items /\ Sized(out)
  BY ReadyFacts DEF Ready, CodeInv, OrderInv
<1>2. a.at \in Nat /\ a.len \in Nat /\ b.len \in Nat /\ a.len > 0 /\ b.len > 0
  BY <1>1 DEF Items, Sized
<1>3. a # b => a.at + a.len <= b.at \/ b.at + b.len <= a.at
  BY DEF Ready, RelocateInv, BufferInv, Disjoint
<1> QED BY <1>2, <1>3

\* The instruction an item was written for.
LEMMA SourceIs ==
    ASSUME Ready, NEW s \in Slots, s <= Len(recs), NEW it \in out,
           At(s) <= it.at, it.at < At(s) + Size(s)
    PROVE  Source(it) = s
<1>1. Len(recs) \in Nat /\ it.at \in Nat
  BY ReadyFacts DEF Items
<1>2. s \in 1..Len(recs)
  BY <1>1 DEF Slots
<1>3. \A k \in 1..Len(recs) : k \in Slots /\ At(k) = recs[k].at /\ Size(k) = recs[k].size
  BY <1>1 DEF Slots, At, Size
<1> DEFINE P(k) == recs[k].at <= it.at /\ it.at < recs[k].at + recs[k].size
<1>4. P(s)
  BY <1>2, <1>3
<1>5. \A k \in 1..Len(recs) : P(k) => k = s
  BY <1>1, <1>3, OneSlot
<1>6. Source(it) = CHOOSE k \in 1..Len(recs) : P(k)
  BY DEF Source
<1> HIDE DEF P
<1> QED BY <1>2, <1>4, <1>5, <1>6

\* The literal it reads.
LEMMA LiteralIs ==
    ASSUME Ready, NEW it \in out, it.op \in {"jumpMem", "load"},
           NEW to, Locates(mode, out, raddr, it, to)
    PROVE  Literal(it) = to
<1> DEFINE where == Points(mode, raddr + it.at, it)
           words == {d.disp : d \in {x \in out : x.op = "data" /\ raddr + x.at = where}}
<1>1. Reaches(mode, out, raddr, it) = words
  BY DEF Reaches
<1>2. PICK d \in out : d.op = "data" /\ d.disp = to /\ raddr + d.at = where
  BY DEF Locates
<1>3. \A x \in out : raddr + x.at = where => x = d
  <2> SUFFICES ASSUME NEW x \in out, raddr + x.at = where
               PROVE  x = d
    OBVIOUS
  <2>1. raddr \in Nat /\ x.at \in Nat /\ d.at \in Nat
    BY ReadyFacts DEF Items
  <2> HIDE DEF where
  <2>2. x.at = d.at
    BY <1>2, <2>1
  <2> QED BY <2>2, OneItem
<1>4. words = {to}
  <2> HIDE DEF where
  <2> QED BY <1>2, <1>3
<1> HIDE DEF words
<1>5. Literal(it) = IF words = {} THEN Garbage ELSE CHOOSE w \in words : TRUE
  BY <1>1 DEF Literal
<1> QED BY <1>4, <1>5

-----------------------------------------------------------------------------
(***************************************************************************)
(* The processor in the buffer.                                            *)
(***************************************************************************)
Events == [does: Effects, what: Inst \cup {NoInst}, ref: Int]

\* A program counter `a' at the item `it' of the slot s, with `r' in the scratch
\* register.
Here(s, it, a, r) ==
    /\ s \in Slots /\ it \in out
    /\ At(s) <= it.at /\ it.at < At(s) + Size(s)
    /\ raddr + it.at = a
    /\ Runs(mode, out, raddr, At(s), Size(s), Body(s), it)
    /\ it.op = "branchReg" => r = Body(s).target

Standing(a, r) == \E s \in Slots, it \in out : Here(s, it, a, r)

\* Until the call has returned the function is not entered; from then on a
\* processor in the buffer stands at an item of a slot.
CpuInv ==
    /\ pc \in Int /\ log \in Seq(Events)
    /\ ~Runnable => pc = Origin
    /\ Runnable /\ Inside => Standing(pc, reg)

\* Where the original run stands when the trampoline's is at `a'.
StandIn(a) ==
    IF ~(Runnable /\ raddr <= a /\ a < CodeEnd) THEN a
    ELSE IF a >= raddr + result.jumpAt THEN cont
    ELSE LET k == CHOOSE j \in 1..Len(recs) :
                     raddr + recs[j].at <= a /\ a < raddr + recs[j].at + recs[j].size
         IN  IF insts[k].inst.does = "cond" /\ a > raddr + recs[k].at
             THEN insts[k].inst.target
             ELSE recs[k].original

\* The processor changes nothing of the call and its code.
LEMMA SameRunnable == UNCHANGED vars => (Runnable' <=> Runnable)
<1> SUFFICES ASSUME UNCHANGED vars PROVE Runnable' <=> Runnable
  OBVIOUS
<1>1. UNCHANGED <<mode, insts, total, cont, rpc, out, status>>
  BY DEF vars, decodeVars, argVars, workVars
<1>2. ASSUME NEW d PROVE Shows(d)' <=> Shows(d)
  BY <1>1 DEF Shows, Overwritten
<1> QED BY <1>1, <1>2 DEF Runnable

\* A step of the processor keeps the invariant if it ends out of the code or at
\* an item of a slot.
LEMMA SameCode ==
    ASSUME UNCHANGED vars, Runnable, pc' \in Int, log' \in Seq(Events),
           raddr <= pc' /\ pc' < CodeEnd => Standing(pc', reg')
    PROVE  CpuInv'
<1>1. Runnable' /\ (Inside' <=> raddr <= pc' /\ pc' < CodeEnd)
  BY SameRunnable DEF vars, argVars, workVars, Inside, CodeEnd
<1>2. Standing(pc', reg') => Standing(pc, reg)'
  BY DEF vars, decodeVars, argVars, workVars, Standing, Here, Slots, At, Size, Body, Back
<1> QED BY <1>1, <1>2 DEF CpuInv

\* The refinement mapping, of the program counter before and after.
LEMMA SameStandIn ==
    /\ OriginalPc = StandIn(pc)
    /\ UNCHANGED vars => OriginalPc' = StandIn(pc')
<1>1. OriginalPc = StandIn(pc)
  BY DEF OriginalPc, StandIn, Inside
<1>2. UNCHANGED vars => OriginalPc' = StandIn(pc')
  BY SameRunnable DEF vars, decodeVars, argVars, workVars, OriginalPc, StandIn, Inside, CodeEnd
<1> QED BY <1>1, <1>2

\* Where a slot begins an instruction can be fetched.
LEMMA SlotStarts ==
    ASSUME Ready, NEW s \in Slots, NEW r
    PROVE  Standing(raddr + At(s), r)
<1>1. PICK it \in out : it.at = At(s) /\ Runs(mode, out, raddr, At(s), Size(s), Body(s), it)
  BY SlotFacts DEF Follows
<1>2. it.op # "branchReg"
  <2>1. ~Through(At(s), Body(s), it)
    BY <1>1, SlotFacts DEF Through
  <2>2. it.op \in {"copy", "ref", "cond", "jump", "call", "skip", "jumpMem", "load"}
    BY <1>1, <2>1 DEF Runs, Stands, Hops, Finds
  <2> QED BY <2>2
<1>3. Here(s, it, raddr + At(s), r)
  BY <1>1, <1>2, SlotFacts DEF Here
<1> QED BY <1>3 DEF Standing

\* The code ends where its last slot does, within the buffer.
LEMMA CodeEndIs ==
    ASSUME Ready
    PROVE  /\ CodeEnd = raddr + End /\ CodeEnd \in Int
           /\ \A a : raddr <= a /\ a < CodeEnd /\ a \in Int => a \in Buffer
<1>1. /\ raddr \in Nat /\ result.jumpAt \in Nat /\ result.jumpSize \in Nat
      /\ cap \in Nat /\ End \in Nat /\ End <= cap
  BY ReadyFacts
<1>2. CodeEnd = raddr + End
  BY <1>1 DEF CodeEnd, End
<1> QED BY <1>1, <1>2 DEF Buffer

\* The program counter of a processor in a slot.
LEMMA HereInside ==
    ASSUME Ready, NEW s, NEW it, NEW a, NEW r, Here(s, it, a, r)
    PROVE  /\ a \in Int /\ raddr <= a /\ a < CodeEnd
           /\ it \in Items /\ it.at \in Nat /\ it.len \in Nat /\ it.len > 0
<1>1. it \in Items /\ Sized(out)
  BY ReadyFacts DEF Here, Ready, CodeInv, OrderInv
<1>2. it.at \in Nat /\ it.len \in Nat /\ it.len > 0
  BY <1>1 DEF Items, Sized, Here
<1>3. At(s) \in Nat /\ Size(s) \in Nat /\ At(s) + Size(s) <= End
  BY SlotFacts DEF Here
<1>4. raddr \in Nat /\ End \in Nat /\ CodeEnd = raddr + End
  BY ReadyFacts, CodeEndIs
<1>5. it.at < At(s) + Size(s) /\ a = raddr + it.at
  BY DEF Here
<1>6. it.at < End
  BY <1>2, <1>3, <1>4, <1>5
<1> QED BY <1>1, <1>2, <1>4, <1>5, <1>6

-----------------------------------------------------------------------------
(***************************************************************************)
(* One instruction of the processor.                                       *)
(***************************************************************************)

\* What it does with the item it is at.
Turn(it) ==
    \/ it.op = "copy" /\ Executes(it, it.inst.does, CopiedRef(it), Source(it) \in taken)
    \/ /\ it.op \in {"ref", "cond"}
       /\ Executes(it, it.inst.does, Points(mode, pc, it), Source(it) \in taken)
    \/ it.op = "skip" /\ Executes(it, "cond", Points(mode, pc, it), Source(it) \notin taken)
    \/ it.op \in {"jump", "call"} /\ Executes(it, it.op, Points(mode, pc, it), TRUE)
    \/ it.op = "jumpMem" /\ Executes(it, "jump", Literal(it), TRUE)
    \/ it.op = "branchReg" /\ Executes(it, "jump", reg, TRUE)
    \/ /\ it.op = "load"
       /\ reg' = Literal(it) /\ pc' = pc + it.len /\ UNCHANGED <<vars, log, taken>>

\* It fetches the item it stands at.
LEMMA Fetch ==
    ASSUME Ready, Processor, NEW s, NEW it, Here(s, it, pc, reg)
    PROVE  Turn(it)
<1>1. it \in out /\ raddr + it.at = pc /\ it.at \in Nat /\ raddr \in Nat
  BY HereInside, ReadyFacts DEF Here
<1>2. \A x \in out : Executing(x) => x = it
  <2> SUFFICES ASSUME NEW x \in out, Executing(x) PROVE x = it
    OBVIOUS
  <2>1. x.at \in Nat /\ raddr + x.at = pc
    BY ReadyFacts DEF Items, Executing
  <2>2. x.at = it.at
    BY <1>1, <2>1
  <2> QED BY <1>1, <2>2, OneItem
<1>3. pc # Origin
  <2>1. pc \in Buffer
    BY HereInside, CodeEndIs
  <2> QED BY <2>1, ReadyFacts
<1>4. it.op \notin {"callMem", "callReg"}
  BY <1>1, RunnableSpotless DEF Spotless
<1>5. CASE RunCopy
  <2>1. it.op = "copy" /\ Executes(it, it.inst.does, CopiedRef(it), Source(it) \in taken)
    BY <1>2, <1>5 DEF RunCopy
  <2> QED BY <2>1 DEF Turn
<1>6. CASE RunRewritten
  <2>1. /\ it.op \in {"ref", "cond"}
        /\ Executes(it, it.inst.does, Points(mode, pc, it), Source(it) \in taken)
    BY <1>2, <1>6 DEF RunRewritten
  <2> QED BY <2>1 DEF Turn
<1>7. CASE RunSkip
  <2>1. it.op = "skip" /\ Executes(it, "cond", Points(mode, pc, it), Source(it) \notin taken)
    BY <1>2, <1>7 DEF RunSkip
  <2> QED BY <2>1 DEF Turn
<1>8. CASE RunDirect
  <2>1. it.op \in {"jump", "call"} /\ Executes(it, it.op, Points(mode, pc, it), TRUE)
    BY <1>2, <1>8 DEF RunDirect
  <2> QED BY <2>1 DEF Turn
<1>9. CASE RunThroughMemory
  <2>1. /\ it.op \in {"jumpMem", "callMem"}
        /\ Executes(it, IF it.op = "jumpMem" THEN "jump" ELSE "call", Literal(it), TRUE)
    BY <1>2, <1>9 DEF RunThroughMemory
  <2> QED BY <1>4, <2>1 DEF Turn
<1>10. CASE RunThroughRegister
  <2>1. /\ it.op \in {"branchReg", "callReg"}
        /\ Executes(it, IF it.op = "branchReg" THEN "jump" ELSE "call", reg, TRUE)
    BY <1>2, <1>10 DEF RunThroughRegister
  <2> QED BY <1>4, <2>1 DEF Turn
<1>11. CASE RunLoad
  <2>1. /\ it.op = "load"
        /\ reg' = Literal(it) /\ pc' = pc + it.len /\ UNCHANGED <<vars, log, taken>>
    BY <1>2, <1>11 DEF RunLoad
  <2> QED BY <2>1 DEF Turn
<1>12. ~Enter
  BY <1>3 DEF Enter
<1> QED BY <1>5, <1>6, <1>7, <1>8, <1>9, <1>10, <1>11, <1>12 DEF Processor

\* On to a later item of the same slot, before a jump or a condition that is
\* met has been passed or after it,
Stays(s) ==
    /\ log' = log
    /\ Body(s).does \in {"jump", "cond"}
    /\ Body(s).does = "cond" => raddr + At(s) < pc \/ s \in taken
    /\ \E it \in out : /\ At(s) < it.at /\ it.at < At(s) + Size(s)
                       /\ raddr + it.at = pc' /\ it.op # "data"
                       /\ it.op = "branchReg" => reg' = Body(s).target

\* the effect of the whole instruction,
Passes(s) ==
    /\ Body(s).does = "cond" => pc = raddr + At(s)
    /\ pc' = NextPc(Body(s).does, Body(s).target, raddr + At(s) + Size(s), s \in taken)
    /\ log' = log \o Observed(Body(s).does, Body(s), Body(s).target)

\* or at the target of a condition that was met before.
Arrives(s) ==
    /\ Body(s).does = "cond" /\ raddr + At(s) < pc
    /\ pc' = Body(s).target /\ log' = log

\* A fetched item of the slot s.
Fetched(s, it) == Ready /\ CpuInv /\ Here(s, it, pc, reg) /\ Turn(it)

\* Where it is, and that its condition is that of its slot.
LEMMA FetchedFacts ==
    ASSUME NEW s, NEW it, Fetched(s, it)
    PROVE  /\ s \in Slots /\ it \in out /\ pc = raddr + it.at /\ pc \in Int
           /\ raddr \in Nat /\ it.at \in Nat /\ it.len \in Nat /\ it.len > 0
           /\ At(s) \in Nat /\ Size(s) \in Nat
           /\ At(s) <= it.at /\ it.at < At(s) + Size(s)
           /\ log \o <<>> = log
           /\ Body(s).does = "cond" => Source(it) = s
<1>1. Ready /\ Here(s, it, pc, reg)
  BY DEF Fetched
<1>2. /\ s \in Slots /\ it \in out /\ pc = raddr + it.at
      /\ At(s) <= it.at /\ it.at < At(s) + Size(s)
  BY <1>1 DEF Here
<1>3. pc \in Int /\ it.at \in Nat /\ it.len \in Nat /\ it.len > 0
  BY <1>1, HereInside
<1>4. raddr \in Nat /\ At(s) \in Nat /\ Size(s) \in Nat
  BY <1>1, <1>2, ReadyFacts, SlotFacts
<1>5. log \o <<>> = log
  <2>1. log \in Seq(Events)
    BY DEF Fetched, CpuInv
  <2> QED BY <2>1
<1>6. Body(s).does = "cond" => Source(it) = s
  <2> SUFFICES ASSUME Body(s).does = "cond" PROVE Source(it) = s
    OBVIOUS
  <2>1. s <= Len(recs)
    BY DEF Body, Back, NoInst
  <2> QED BY <1>1, <1>2, <2>1, SourceIs
<1> QED BY <1>1, <1>2, <1>3, <1>4, <1>5, <1>6

\* A copy, a rewritten instruction or a relative branch does it all at once.
LEMMA StandsStep ==
    ASSUME NEW s, NEW it, Fetched(s, it),
           Stands(mode, raddr, At(s), Size(s), Body(s), it)
    PROVE  Passes(s)
<1> DEFINE b == Body(s)
           n == raddr + At(s) + Size(s)
<1>1. /\ it.at = At(s) /\ pc = raddr + At(s) /\ raddr \in Nat
      /\ At(s) \in Nat /\ Size(s) \in Nat
      /\ b.does = "cond" => Source(it) = s
  BY FetchedFacts DEF Stands
<1>2. \A d, ref : b.does = d => NextPc(d, ref, n, Source(it) \in taken)
                                  = NextPc(d, ref, n, s \in taken)
  BY <1>1 DEF NextPc
<1>3. pc + Size(s) = n
  BY <1>1
<1> HIDE DEF b, n
<1>4. CASE it.op = "copy" /\ it.len = Size(s) /\ it.inst = b /\ b.does # "ref"
  <2>1. /\ pc' = NextPc(b.does, CopiedRef(it), n, Source(it) \in taken)
        /\ log' = log \o Observed(b.does, b, CopiedRef(it))
    <3>1. FetchedLen(mode, it) = Size(s)
      BY <1>4 DEF FetchedLen
    <3> QED BY <1>3, <1>4, <3>1 DEF Fetched, Turn, Executes
  <2>2. CopiedRef(it) = b.target
    BY <1>4 DEF CopiedRef
  <2>3. pc' = NextPc(b.does, b.target, n, s \in taken)
    BY <1>2, <2>1, <2>2
  <2> QED BY <1>1, <2>1, <2>2, <2>3 DEF Passes, b, n
<1>5. CASE /\ it.op \in {"ref", "cond"} /\ FetchedLen(mode, it) = Size(s) /\ it.inst = b
           /\ Points(mode, raddr + At(s), it) = b.target
  <2>1. /\ pc' = NextPc(b.does, b.target, n, Source(it) \in taken)
        /\ log' = log \o Observed(b.does, b, b.target)
    BY <1>1, <1>3, <1>5 DEF Fetched, Turn, Executes
  <2>2. pc' = NextPc(b.does, b.target, n, s \in taken)
    BY <1>2, <2>1
  <2> QED BY <1>1, <2>1, <2>2 DEF Passes, b, n
<1>6. CASE /\ it.op \in {"jump", "call"} /\ it.len = Size(s) /\ it.op = b.does
           /\ Points(mode, raddr + At(s), it) = b.target
  <2>1. FetchedLen(mode, it) = Size(s)
    BY <1>6 DEF FetchedLen
  <2>2. /\ pc' = NextPc(b.does, b.target, n, TRUE)
        /\ log' = log \o Observed(b.does, it.inst, b.target)
    BY <1>1, <1>3, <1>6, <2>1 DEF Fetched, Turn, Executes
  <2>3. /\ NextPc(b.does, b.target, n, TRUE) = NextPc(b.does, b.target, n, s \in taken)
        /\ Observed(b.does, it.inst, b.target) = Observed(b.does, b, b.target)
    BY <1>6 DEF NextPc, Observed
  <2> QED BY <1>1, <2>2, <2>3 DEF Passes, b, n
<1> QED BY <1>4, <1>5, <1>6 DEF Stands, b

\* The inverted condition passes the instruction if the condition is not met.
LEMMA HopsStep ==
    ASSUME NEW s, NEW it, Fetched(s, it),
           Hops(mode, out, raddr, At(s), Size(s), Body(s), it)
    PROVE  Stays(s) \/ Passes(s)
<1>1. /\ it.op = "skip" /\ it.at = At(s) /\ Body(s).does = "cond"
      /\ Points(mode, raddr + At(s), it) = raddr + At(s) + Size(s)
  BY DEF Hops
<1>2. PICK next \in out : /\ next.at = it.at + it.len /\ next.at < At(s) + Size(s)
                          /\ next.op \in {"jumpMem", "load"}
  BY DEF Hops
<1>3. /\ pc = raddr + At(s) /\ Source(it) = s /\ log \o <<>> = log
      /\ raddr \in Nat /\ At(s) \in Nat /\ it.len \in Nat /\ it.len > 0
  BY <1>1, FetchedFacts
<1>4. FetchedLen(mode, it) = it.len
  BY <1>1 DEF FetchedLen
<1>5. /\ pc' = NextPc("cond", raddr + At(s) + Size(s), pc + it.len, s \notin taken)
      /\ log' = log \o Observed("cond", it.inst, raddr + At(s) + Size(s))
  BY <1>1, <1>3, <1>4 DEF Fetched, Turn, Executes
<1>6. log' = log /\ log' = log \o Observed("cond", Body(s), Body(s).target)
  BY <1>3, <1>5 DEF Observed
<1>7. CASE s \in taken
  <2>1. pc' = pc + it.len
    BY <1>5, <1>7 DEF NextPc
  <2>2. raddr + next.at = pc' /\ At(s) < next.at
    BY <1>1, <1>2, <1>3, <2>1
  <2>3. next.op # "data" /\ next.op # "branchReg"
    BY <1>2
  <2> QED BY <1>1, <1>2, <1>6, <1>7, <2>2, <2>3 DEF Stays
<1>8. CASE s \notin taken
  <2>1. pc' = raddr + At(s) + Size(s)
    BY <1>5, <1>8 DEF NextPc
  <2> QED BY <1>1, <1>3, <1>6, <1>8, <2>1 DEF Passes, NextPc
<1> QED BY <1>7, <1>8

\* What leads to the target whatever it is reached through.
LEMMA GoesThere ==
    ASSUME NEW s, NEW it, Fetched(s, it),
           Body(s).does = IF it.at = At(s) THEN "jump" ELSE "cond",
           pc' = Body(s).target, log' = log
    PROVE  Passes(s) \/ Arrives(s)
<1>1. /\ pc = raddr + it.at /\ At(s) <= it.at /\ log \o <<>> = log
      /\ raddr \in Nat /\ At(s) \in Nat /\ it.at \in Nat
  BY FetchedFacts
<1>2. CASE it.at = At(s)
  BY <1>1, <1>2 DEF Passes, NextPc, Observed
<1>3. CASE it.at # At(s)
  <2>1. raddr + At(s) < pc
    BY <1>1, <1>3
  <2> QED BY <1>3, <2>1 DEF Arrives
<1> QED BY <1>2, <1>3

\* A jump through memory goes there; a load stays, with the target loaded.
LEMMA FindsStep ==
    ASSUME NEW s, NEW it, Fetched(s, it),
           Finds(mode, out, raddr, At(s), Size(s), Body(s), it)
    PROVE  Stays(s) \/ Passes(s) \/ Arrives(s)
<1>1. /\ it.op \in {"jumpMem", "load"}
      /\ Body(s).does = IF it.at = At(s) THEN "jump" ELSE "cond"
  BY DEF Finds
<1>2. /\ pc = raddr + it.at /\ At(s) <= it.at /\ log \o <<>> = log /\ it \in out
      /\ raddr \in Nat /\ At(s) \in Nat /\ it.at \in Nat /\ it.len \in Nat /\ it.len > 0
  BY FetchedFacts
<1>3. Literal(it) = Body(s).target
  BY <1>1, <1>2, LiteralIs DEF Fetched, Finds
<1>4. CASE it.op = "jumpMem"
  <2>1. pc' = Body(s).target /\ log' = log
    BY <1>2, <1>3, <1>4 DEF Fetched, Turn, Executes, NextPc, Observed
  <2> QED BY <1>1, <2>1, GoesThere
<1>5. CASE it.op = "load"
  <2>1. reg' = Body(s).target /\ pc' = pc + it.len /\ log' = log
    BY <1>3, <1>5 DEF Fetched, Turn
  <2>2. PICK next \in out : /\ next.at = it.at + it.len /\ next.at < At(s) + Size(s)
                            /\ next.op = "branchReg"
    BY <1>5 DEF Finds
  <2>3. raddr + next.at = pc' /\ At(s) < next.at
    BY <1>2, <2>1, <2>2
  <2>4. Body(s).does = "cond" => raddr + At(s) < pc
    BY <1>1, <1>2
  <2> QED BY <1>1, <2>1, <2>2, <2>3, <2>4 DEF Stays
<1> QED BY <1>1, <1>4, <1>5

\* The branch through the register goes where the load has sent it.
LEMMA ThroughStep ==
    ASSUME NEW s, NEW it, Fetched(s, it), Through(At(s), Body(s), it)
    PROVE  Passes(s) \/ Arrives(s)
<1>1. it.op = "branchReg" /\ At(s) < it.at /\ Body(s).does \in {"jump", "cond"}
  BY DEF Through
<1>2. /\ pc = raddr + it.at /\ log \o <<>> = log
      /\ raddr \in Nat /\ At(s) \in Nat /\ it.at \in Nat
  BY FetchedFacts
<1>3. pc' = Body(s).target /\ log' = log
  BY <1>1, <1>2 DEF Fetched, Here, Turn, Executes, NextPc, Observed
<1>4. raddr + At(s) < pc
  BY <1>1, <1>2
<1>5. CASE Body(s).does = "cond"
  BY <1>3, <1>4, <1>5 DEF Arrives
<1>6. CASE Body(s).does = "jump"
  BY <1>2, <1>3, <1>6 DEF Passes, NextPc, Observed
<1> QED BY <1>1, <1>5, <1>6

\* One of the three it is.
LEMMA StepIs ==
    ASSUME NEW s, NEW it, Fetched(s, it)
    PROVE  Stays(s) \/ Passes(s) \/ Arrives(s)
<1>1. Runs(mode, out, raddr, At(s), Size(s), Body(s), it)
  BY DEF Fetched, Here
<1> QED BY <1>1, StandsStep, HopsStep, FindsStep, ThroughStep DEF Runs

-----------------------------------------------------------------------------
(***************************************************************************)
(* The processor is always somewhere in a slot or outside the buffer.      *)
(***************************************************************************)

\* Where the effect of an instruction leads: out of the buffer or to the next
\* slot.
LEMMA PassesTo ==
    ASSUME Ready, NEW s \in Slots, Passes(s)
    PROVE  \/ pc' \in Int \ Buffer
           \/ s \in 1..Len(recs) /\ pc' = raddr + At(s + 1)
<1>1. Body(s).target \in Int \ Buffer
  BY SlotFacts
<1>2. Gone \in Int \ Buffer
  BY ReadyFacts DEF Gone, Buffer
<1>3. \/ pc' \in {Body(s).target, Gone}
      \/ pc' = raddr + At(s) + Size(s) /\ Body(s).does # "jump"
  BY DEF Passes, NextPc
<1>4. Body(s).does # "jump" => s <= Len(recs)
  BY DEF Body, Back, NoInst
<1>5. s <= Len(recs) => s \in 1..Len(recs)
  BY ReadyFacts DEF Slots
<1>6. ASSUME s \in 1..Len(recs) PROVE raddr + At(s) + Size(s) = raddr + At(s + 1)
  <2>1. At(s) + Size(s) = At(s + 1)
    BY <1>6, SlotOrder
  <2>2. raddr \in Nat /\ At(s) \in Nat /\ Size(s) \in Nat
    BY ReadyFacts, SlotFacts
  <2> QED BY <2>1, <2>2
<1> QED BY <1>1, <1>2, <1>3, <1>4, <1>5, <1>6

\* Out of the buffer it is not in the code.
LEMMA OutsideBuffer ==
    ASSUME Ready, NEW a \in Int \ Buffer
    PROVE  ~(raddr <= a /\ a < CodeEnd)
  BY CodeEndIs

\* and the original run is where the trampoline's is.
LEMMA StandsOutside ==
    ASSUME Ready, NEW a \in Int \ Buffer
    PROVE  StandIn(a) = a
<1>1. ~(raddr <= a /\ a < CodeEnd)
  BY OutsideBuffer
<1> QED BY <1>1 DEF StandIn

\* What is logged is an event.
LEMMA ObservedType ==
    ASSUME Ready, NEW s \in Slots
    PROVE  Observed(Body(s).does, Body(s), Body(s).target) \in Seq(Events)
<1>1. Body(s).target \in Int
  BY SlotFacts
<1>2. CASE s <= Len(recs)
  <2>1. Body(s) \in Inst
    BY <1>2, SlotFacts
  <2>2. Body(s).does \in Effects
    BY <2>1 DEF Inst
  <2> DEFINE e == [does |-> Body(s).does,
                   what |-> IF Body(s).does = "call" THEN NoInst ELSE Body(s),
                   ref  |-> IF Body(s).does = "plain" THEN 0 ELSE Body(s).target]
  <2>3. e \in Events
    BY <1>1, <2>1, <2>2 DEF Events
  <2>4. Observed(Body(s).does, Body(s), Body(s).target) \in {<<>>, <<e>>}
    BY DEF Observed
  <2> HIDE DEF e
  <2>5. <<>> \in Seq(Events) /\ <<e>> \in Seq(Events)
    BY <2>3
  <2> QED BY <2>4, <2>5
<1>3. CASE ~(s <= Len(recs))
  <2>1. Body(s).does = "jump"
    BY <1>3 DEF Body, Back, NoInst
  <2> QED BY <2>1 DEF Observed
<1> QED BY <1>2, <1>3

\* A processor runs what the call has left, and leaves it as it is.
LEMMA ProcessorRuns ==
    Processor => Runnable /\ UNCHANGED <<vars, taken>>
<1>1. \A it : Executing(it) => Runnable
  BY DEF Executing
<1>2. Enter => Runnable /\ UNCHANGED <<vars, taken>>
  BY DEF Enter
<1>3. RunCopy \/ RunRewritten \/ RunSkip => Runnable /\ UNCHANGED <<vars, taken>>
  BY <1>1 DEF RunCopy, RunRewritten, RunSkip, Executes
<1>4. RunDirect \/ RunThroughMemory \/ RunThroughRegister => Runnable /\ UNCHANGED <<vars, taken>>
  BY <1>1 DEF RunDirect, RunThroughMemory, RunThroughRegister, Executes
<1>5. RunLoad => Runnable /\ UNCHANGED <<vars, taken>>
  BY <1>1 DEF RunLoad
<1> QED BY <1>2, <1>3, <1>4, <1>5 DEF Processor

\* Unless it enters the trampoline it fetches from it.
LEMMA ProcessorFetches ==
    ASSUME Ready, CpuInv, Processor, ~Enter
    PROVE  \E s, it : Fetched(s, it)
<1>1. \E it \in out : raddr + it.at = pc
  BY DEF Processor, RunCopy, RunRewritten, RunSkip, RunDirect, RunThroughMemory,
         RunThroughRegister, RunLoad, Executing
<1>2. PICK it \in out : raddr + it.at = pc
  BY <1>1
<1>3. Inside
  <2>1. it.at \in Nat /\ it.at < End /\ End \in Nat /\ raddr \in Nat
    BY ReadyFacts DEF Items, Ready, Runnable, CodeInv, OrderInv, End
  <2> QED BY <1>2, <2>1, CodeEndIs DEF Inside
<1>4. PICK s \in Slots, x \in out : Here(s, x, pc, reg)
  BY <1>3 DEF CpuInv, Standing, Ready
<1> QED BY <1>4, Fetch DEF Fetched

\* A step of the processor,
LEMMA ProcessorCpu ==
    ASSUME Ready, CpuInv, Processor
    PROVE  CpuInv'
<1>1. Runnable /\ UNCHANGED vars
  BY ProcessorRuns
<1>2. CASE Enter
  <2>1. pc' = raddr /\ log' = log
    BY <1>2 DEF Enter
  <2>2. raddr = raddr + At(1) /\ raddr \in Int
    BY SlotOrder, ReadyFacts
  <2>3. Standing(pc', reg')
    BY <2>1, <2>2, SlotOrder, SlotStarts
  <2> QED BY <1>1, <2>1, <2>2, <2>3, SameCode DEF CpuInv
<1>3. CASE ~Enter
  <2>1. PICK s, it : Fetched(s, it)
    BY <1>3, ProcessorFetches
  <2>2. s \in Slots /\ raddr \in Nat /\ log \in Seq(Events)
    BY <2>1, FetchedFacts DEF CpuInv
  <2>3. CASE Stays(s)
    <3>1. PICK next \in out : /\ At(s) < next.at /\ next.at < At(s) + Size(s)
                              /\ raddr + next.at = pc' /\ next.op # "data"
                              /\ next.op = "branchReg" => reg' = Body(s).target
      BY <2>3 DEF Stays
    <3>2. next.at \in Nat /\ At(s) \in Nat
      BY <2>2, ReadyFacts, SlotFacts DEF Items
    <3>3. At(s) <= next.at
      BY <3>1, <3>2
    <3>4. Runs(mode, out, raddr, At(s), Size(s), Body(s), next)
      BY <2>2, <3>1, <3>3, SlotFacts DEF Follows
    <3>5. Standing(pc', reg')
      BY <2>2, <3>1, <3>3, <3>4 DEF Standing, Here
    <3>6. pc' \in Int /\ log' \in Seq(Events)
      BY <2>2, <2>3, <3>1, <3>2 DEF Stays
    <3> QED BY <1>1, <3>5, <3>6, SameCode
  <2>4. CASE Passes(s)
    <3>1. log' \in Seq(Events)
      <4>1. Observed(Body(s).does, Body(s), Body(s).target) \in Seq(Events)
        BY <2>2, ObservedType
      <4> QED BY <2>2, <2>4, <4>1 DEF Passes
    <3>2. CASE pc' \in Int \ Buffer
      BY <1>1, <3>1, <3>2, OutsideBuffer, SameCode
    <3>3. CASE s \in 1..Len(recs) /\ pc' = raddr + At(s + 1)
      <4>1. s + 1 \in Slots
        BY <3>3, SlotOrder
      <4>2. At(s + 1) \in Nat
        BY <4>1, SlotFacts
      <4>3. pc' \in Int
        BY <2>2, <3>3, <4>2
      <4>4. Standing(pc', reg')
        BY <3>3, <4>1, SlotStarts
      <4> QED BY <1>1, <3>1, <4>3, <4>4, SameCode
    <3> QED BY <2>2, <2>4, <3>2, <3>3, PassesTo
  <2>5. CASE Arrives(s)
    <3>1. pc' \in Int \ Buffer
      BY <2>2, <2>5, SlotFacts DEF Arrives
    <3>2. log' \in Seq(Events)
      BY <2>2, <2>5 DEF Arrives
    <3> QED BY <1>1, <3>1, <3>2, OutsideBuffer, SameCode
  <2> QED BY <2>1, <2>3, <2>4, <2>5, StepIs
<1> QED BY <1>2, <1>3

\* a step of the call, during which the function is not entered,
LEMMA NextUnfinished == Next => rpc # "done"
  BY DEF Next, RelocateUnsupported, Decoding, BlockDecoded, BlockRefused, RelocateOne,
         RelocateRefused, RelocateClobbers, RelocateTurn, JumpBack, JumpBackFails, JumpBackTurn

\* because its entry is not in the buffer,
LEMMA OriginOutside ==
    RelocateInv /\ CodeInv /\ Runnable => ~(raddr <= Origin /\ Origin < CodeEnd)
<1> SUFFICES ASSUME RelocateInv, CodeInv, Runnable
             PROVE  ~(raddr <= Origin /\ Origin < CodeEnd)
  OBVIOUS
<1>1. /\ result.jumpAt \in Nat /\ result.jumpSize \in Nat /\ cap \in Nat
  BY DEF RelocateInv, TypeOK
<1>2. result.jumpAt + result.jumpSize <= cap
  BY DEF CodeInv, OrderInv, Runnable
<1>3. raddr \in Nat /\ Origin \in Nat /\ Origin \notin raddr .. (raddr + cap - 1)
  BY DEF CodeInv, ProperCall
<1> QED BY <1>1, <1>2, <1>3 DEF CodeEnd

\* so that it waits at the entry,
LEMMA RelocatingCpu ==
    ASSUME RelocateInv', CodeInv', CpuInv, Relocating
    PROVE  CpuInv' /\ pc = Origin /\ ~Runnable /\ ~(Runnable /\ Inside)'
<1>1. pc = Origin /\ ~Runnable
  BY NextUnfinished DEF Relocating, Runnable, CpuInv
<1>2. pc' = Origin /\ log' = log
  BY <1>1 DEF Relocating, cpuVars
<1>3. ~(Runnable /\ Inside)'
  <2>1. (RelocateInv /\ CodeInv /\ Runnable => ~(raddr <= Origin /\ Origin < CodeEnd))'
    BY OriginOutside, PTL
  <2> QED BY <1>2, <2>1 DEF Inside
<1> QED BY <1>1, <1>2, <1>3 DEF CpuInv

-----------------------------------------------------------------------------
(***************************************************************************)
(* The original run.                                                       *)
(***************************************************************************)

\* Its addresses are those of the decoded instructions.
LEMMA AddressIs ==
    ASSUME Ready, NEW k \in 1..Len(insts)
    PROVE  Original!AddressOf(k) = insts[k].address
<1> DEFINE Def(g) == [j \in 1..k |-> IF j = 1 THEN Origin ELSE g[j - 1] + code[j - 1].size]
           g == [j \in 1..k |-> insts[j].address]
<1>1. /\ Len(insts) \in Nat /\ k \in Nat /\ k > 0
      /\ \A j \in 1..k : j \in 1..Len(insts) /\ insts[j].inst = code[j]
  <2>1. Len(insts) \in Nat
    BY ReadyFacts
  <2> QED BY <2>1 DEF Ready, CodeInv, PrefixInv
<1>2. insts[1].address = Origin
  BY <1>1 DEF Ready, RelocateInv, BlockInv, Tiled
<1>3. \A j \in 1..k : j # 1 => insts[j].address = insts[j - 1].address + code[j - 1].size
  <2> SUFFICES ASSUME NEW j \in 1..k, j # 1
               PROVE  insts[j].address = insts[j - 1].address + code[j - 1].size
    OBVIOUS
  <2>1. j - 1 \in 1..k /\ j - 1 \in 1..Len(insts) /\ j - 1 < Len(insts) /\ (j - 1) + 1 = j
    BY <1>1
  <2>2. insts[j - 1].address + insts[j - 1].inst.size = insts[(j - 1) + 1].address
    BY <2>1 DEF Ready, RelocateInv, BlockInv, Tiled
  <2> QED BY <1>1, <2>1, <2>2
<1>4. g = Def(g)
  <2>1. \A j \in 1..k : g[j] = IF j = 1 THEN Origin ELSE g[j - 1] + code[j - 1].size
    <3> SUFFICES ASSUME NEW j \in 1..k
                 PROVE  g[j] = IF j = 1 THEN Origin ELSE g[j - 1] + code[j - 1].size
      OBVIOUS
    <3>1. j # 1 => j - 1 \in 1..k
      BY <1>1
    <3> QED BY <1>2, <1>3, <3>1
  <2> QED BY <2>1
<1> DEFINE addr == CHOOSE f : f = Def(f)
<1>5. Original!AddressOf(k) = addr[k]
  BY DEF Original!AddressOf
<1>6. addr = Def(addr)
  <2> HIDE DEF Def, g
  <2> QED BY <1>4
<1> HIDE DEF addr
<1>7. \A j \in 1..k : addr[j] = IF j = 1 THEN Origin ELSE addr[j - 1] + code[j - 1].size
  BY <1>6
<1> DEFINE S == {n \in Nat : n + 1 <= k => addr[n + 1] = insts[n + 1].address}
<1>8. 0 \in S
  BY <1>1, <1>2, <1>7
<1>9. ASSUME NEW n \in Nat, n \in S
      PROVE  n + 1 \in S
  <2>1. SUFFICES ASSUME (n + 1) + 1 <= k
                 PROVE  addr[(n + 1) + 1] = insts[(n + 1) + 1].address
    OBVIOUS
  <2>2. /\ (n + 1) + 1 \in 1..k /\ (n + 1) + 1 # 1 /\ ((n + 1) + 1) - 1 = n + 1
        /\ n + 1 <= k
    BY <1>1, <2>1
  <2>3. addr[n + 1] = insts[n + 1].address
    BY <1>9, <2>2
  <2>4. addr[(n + 1) + 1] = addr[n + 1] + code[n + 1].size
    BY <1>7, <2>2
  <2>5. insts[(n + 1) + 1].address = insts[n + 1].address + code[n + 1].size
    BY <1>3, <2>2
  <2> QED BY <2>3, <2>4, <2>5
<1>10. Nat \subseteq S
  <2> HIDE DEF S
  <2> QED BY <1>8, <1>9, SetInduction
<1>11. k - 1 \in Nat /\ (k - 1) + 1 = k
  BY <1>1
<1>12. addr[k] = insts[k].address
  BY <1>10, <1>11
<1> QED BY <1>5, <1>12

\* A slot's instruction, in the original code,
LEMMA SlotOriginal ==
    ASSUME Ready, NEW s \in 1..Len(recs)
    PROVE  /\ s \in Slots /\ s \in 1..Len(code) /\ code[s] = Body(s)
           /\ recs[s].original = Original!AddressOf(s) /\ recs[s].original \in Int
           /\ recs[s].original + Body(s).size =
                 IF s < Len(recs) THEN recs[s + 1].original ELSE cont
<1>1. /\ Len(recs) \in Nat /\ Len(insts) = Len(recs) /\ s \in 1..Len(insts)
      /\ recs[s] \in Records
  BY ReadyFacts
<1>2. s \in Slots /\ Body(s) = insts[s].inst
  BY <1>1 DEF Slots, Body
<1>3. s \in 1..Len(code) /\ code[s] = Body(s)
  <2>1. code \in Seq(Inst) /\ Len(insts) <= Len(code) /\ insts[s].inst = code[s]
    BY <1>1 DEF Ready, CodeInv, PrefixInv, RelocateInv, TypeOK, DecodeTypeOK
  <2>2. Len(code) \in Nat
    BY <2>1
  <2> QED BY <1>1, <1>2, <2>1, <2>2
<1>4. \A k \in 1..Len(recs) : recs[k].original = insts[k].address
  BY DEF Ready, RelocateInv, RecordInv
<1>5. recs[s].original + Body(s).size = IF s < Len(recs) THEN recs[s + 1].original ELSE cont
  <2>1. insts[s].address + insts[s].inst.size =
          IF s < Len(insts) THEN insts[s + 1].address ELSE Origin + total
    BY <1>1 DEF Ready, RelocateInv, BlockInv, Tiled
  <2>2. cont = Origin + total
    BY DEF Ready, Runnable
  <2>3. s < Len(recs) => s + 1 \in 1..Len(recs)
    BY <1>1
  <2> QED BY <1>1, <1>2, <1>4, <2>1, <2>2, <2>3
<1>6. recs[s].original = Original!AddressOf(s)
  BY <1>1, <1>4, AddressIs
<1>7. recs[s].original \in Int
  BY <1>1 DEF Records
<1> QED BY <1>2, <1>3, <1>5, <1>6, <1>7

\* and where the original run is while the trampoline's is in it.
LEMMA StandsInSlot ==
    ASSUME Ready, NEW s \in Slots, NEW x \in Nat, At(s) <= x, x < At(s) + Size(s)
    PROVE  StandIn(raddr + x) =
             IF s > Len(recs) THEN cont
             ELSE IF Body(s).does = "cond" /\ x > At(s) THEN Body(s).target
             ELSE recs[s].original
<1>1. /\ raddr \in Nat /\ Len(recs) \in Nat /\ End \in Nat /\ result.jumpAt \in Nat
      /\ CodeEnd = raddr + End
  BY ReadyFacts, CodeEndIs
<1>2. /\ At(s) \in Nat /\ Size(s) \in Nat /\ At(s) + Size(s) <= End
  BY SlotFacts
<1>3. Runnable /\ raddr <= raddr + x /\ raddr + x < CodeEnd
  BY <1>1, <1>2 DEF Ready
<1>4. CASE s > Len(recs)
  <2>1. At(s) = result.jumpAt
    BY <1>1, <1>4 DEF At, Slots
  <2>2. raddr + x >= raddr + result.jumpAt
    BY <1>1, <2>1
  <2> QED BY <1>3, <1>4, <2>2 DEF StandIn
<1>5. CASE ~(s > Len(recs))
  <2>1. s \in 1..Len(recs)
    BY <1>1, <1>5 DEF Slots
  <2>2. /\ At(s) = recs[s].at /\ Size(s) = recs[s].size /\ Body(s) = insts[s].inst
    BY <1>1, <2>1 DEF At, Size, Body
  <2>3. At(s) + Size(s) <= result.jumpAt
    <3>1. recs[s].at + recs[s].size <= offset /\ result.jumpAt = offset
      BY <2>1, ReadyFacts DEF Ready, CodeInv, OrderInv
    <3> QED BY <2>2, <3>1
  <2>4. ~(raddr + x >= raddr + result.jumpAt)
    <3>1. x < result.jumpAt
      BY <1>1, <1>2, <2>3
    <3> QED BY <1>1, <3>1
  <2> DEFINE P(j) == /\ raddr + recs[j].at <= raddr + x
                     /\ raddr + x < raddr + recs[j].at + recs[j].size
  <2>5. ASSUME NEW j \in 1..Len(recs)
        PROVE  P(j) <=> recs[j].at <= x /\ x < recs[j].at + recs[j].size
    <3>1. recs[j].at \in Nat /\ recs[j].size \in Nat
      BY ReadyFacts DEF Records
    <3>2. \A a, n, r, y \in Nat : (r + a <= r + y <=> a <= y) /\ (r + y < r + a + n <=> y < a + n)
      OBVIOUS
    <3> QED BY <1>1, <3>1, <3>2
  <2> HIDE DEF P
  <2>6. P(s)
    BY <2>1, <2>2, <2>5
  <2>7. ASSUME NEW j \in 1..Len(recs), P(j) PROVE j = s
    <3>1. recs[j].at <= x /\ x < recs[j].at + recs[j].size
      BY <2>5, <2>7
    <3>2. j \in Slots /\ At(j) = recs[j].at /\ Size(j) = recs[j].size
      BY <1>1 DEF Slots, At, Size
    <3> QED BY <3>1, <3>2, OneSlot
  <2> DEFINE q == CHOOSE j \in 1..Len(recs) : P(j)
  <2>8. q = s
    BY <2>1, <2>6, <2>7
  <2> HIDE DEF q
  <2>9. StandIn(raddr + x) =
          IF insts[s].inst.does = "cond" /\ raddr + x > raddr + recs[s].at
          THEN insts[s].inst.target ELSE recs[s].original
    <3>1. StandIn(raddr + x) =
            IF ~(Runnable /\ raddr <= raddr + x /\ raddr + x < CodeEnd) THEN raddr + x
            ELSE IF raddr + x >= raddr + result.jumpAt THEN cont
            ELSE IF insts[q].inst.does = "cond" /\ raddr + x > raddr + recs[q].at
                 THEN insts[q].inst.target
                 ELSE recs[q].original
      BY Zenon DEF StandIn, q, P
    <3> QED BY <1>3, <2>4, <2>8, <3>1
  <2>10. raddr + x > raddr + At(s) <=> x > At(s)
    BY <1>1, <1>2
  <2> QED BY <1>5, <2>2, <2>9, <2>10
<1> QED BY <1>4, <1>5

\* Where a slot begins, it is at the instruction or at the continuation.
LEMMA StandsInStart ==
    ASSUME Ready, NEW s \in Slots
    PROVE  StandIn(raddr + At(s)) = IF s <= Len(recs) THEN recs[s].original ELSE cont
<1>1. At(s) \in Nat /\ Size(s) \in Nat /\ Size(s) > 0 /\ Len(recs) \in Nat /\ s \in Int
  BY SlotFacts, ReadyFacts DEF Slots
<1>2. At(s) <= At(s) /\ At(s) < At(s) + Size(s) /\ ~(At(s) > At(s)) /\ (s > Len(recs) <=> ~(s <= Len(recs)))
  BY <1>1
<1>3. StandIn(raddr + At(s)) =
        IF s > Len(recs) THEN cont
        ELSE IF Body(s).does = "cond" /\ At(s) > At(s) THEN Body(s).target
        ELSE recs[s].original
  BY <1>1, <1>2, StandsInSlot
<1> QED BY <1>2, <1>3

-----------------------------------------------------------------------------
(***************************************************************************)
(* The refinement.                                                         *)
(***************************************************************************)
originalVars == <<code, taken, OriginalPc, log>>

\* An item within the code of an instruction: the original run waits, or takes
\* the branch the trampoline has just found to be taken.
LEMMA StaysRefines ==
    ASSUME NEW s, NEW it, Fetched(s, it), Stays(s), UNCHANGED <<vars, taken>>
    PROVE  [Original!RunOriginal]_originalVars
<1>1. /\ Ready /\ s \in Slots /\ it \in out /\ pc = raddr + it.at /\ raddr \in Nat
      /\ it.at \in Nat /\ At(s) \in Nat /\ At(s) <= it.at /\ it.at < At(s) + Size(s)
      /\ log \o <<>> = log
  BY FetchedFacts DEF Fetched
<1>2. PICK next \in out : /\ At(s) < next.at /\ next.at < At(s) + Size(s)
                          /\ raddr + next.at = pc'
  BY DEF Stays
<1>3. next.at \in Nat /\ At(s) <= next.at /\ next.at > At(s)
  <2>1. next \in Items
    BY <1>1, <1>2, ReadyFacts
  <2>2. next.at \in Nat
    BY <2>1 DEF Items
  <2> QED BY <1>1, <1>2, <2>2
<1>4. UNCHANGED <<code, taken, log>>
  BY DEF Stays, vars, decodeVars
<1>5. OriginalPc = StandIn(pc) /\ OriginalPc' = StandIn(pc')
  BY SameStandIn
<1>6. OriginalPc = IF s > Len(recs) THEN cont
                   ELSE IF Body(s).does = "cond" /\ it.at > At(s) THEN Body(s).target
                   ELSE recs[s].original
  BY <1>1, <1>5, StandsInSlot
<1>7. OriginalPc' = IF s > Len(recs) THEN cont
                    ELSE IF Body(s).does = "cond" THEN Body(s).target
                    ELSE recs[s].original
  BY <1>1, <1>2, <1>3, <1>5, StandsInSlot
<1>8. CASE s > Len(recs) \/ Body(s).does # "cond" \/ it.at > At(s)
  <2>1. OriginalPc' = OriginalPc
    BY <1>6, <1>7, <1>8
  <2> QED BY <1>4, <2>1 DEF originalVars
<1>9. CASE ~(s > Len(recs)) /\ Body(s).does = "cond" /\ ~(it.at > At(s))
  <2>1. s \in 1..Len(recs)
    BY <1>1, <1>9, ReadyFacts DEF Slots
  <2>2. s \in taken
    BY <1>1, <1>9 DEF Stays
  <2>3. /\ s \in 1..Len(code) /\ code[s] = Body(s) /\ recs[s].original = Original!AddressOf(s)
    BY <1>1, <2>1, SlotOriginal
  <2>4. OriginalPc = Original!AddressOf(s) /\ OriginalPc' = Body(s).target
    BY <1>6, <1>7, <1>9, <2>3
  <2>5. /\ \A next_ : Original!NextPc("cond", Body(s).target, next_, TRUE) = Body(s).target
        /\ log' = log \o Original!Observed("cond", Body(s), Body(s).target)
    BY <1>1, <1>4 DEF Original!NextPc, Original!Observed
  <2>6. Original!RunOriginal
    BY <1>4, <1>9, <2>2, <2>3, <2>4, <2>5 DEF Original!RunOriginal
  <2> QED BY <2>6
<1> QED BY <1>8, <1>9

\* The whole effect: one step of the original, and none for the jump back.
LEMMA PassesRefines ==
    ASSUME NEW s, NEW it, Fetched(s, it), Passes(s), UNCHANGED <<vars, taken>>
    PROVE  [Original!RunOriginal]_originalVars
<1>1. /\ Ready /\ s \in Slots /\ it \in out /\ pc = raddr + it.at /\ raddr \in Nat
      /\ it.at \in Nat /\ At(s) \in Nat /\ At(s) <= it.at /\ it.at < At(s) + Size(s)
      /\ Size(s) \in Nat /\ log \o <<>> = log
  BY FetchedFacts DEF Fetched
<1>2. UNCHANGED <<code, taken>>
  BY DEF vars, decodeVars
<1>3. OriginalPc = StandIn(pc) /\ OriginalPc' = StandIn(pc')
  BY SameStandIn
<1>4. \A a \in Int \ Buffer : StandIn(a) = a
  BY <1>1, StandsOutside
<1>5. Body(s).does = "cond" => ~(it.at > At(s))
  <2>1. Body(s).does = "cond" => raddr + it.at = raddr + At(s)
    BY <1>1 DEF Passes
  <2> QED BY <1>1, <2>1
<1>6. OriginalPc = IF s > Len(recs) THEN cont ELSE recs[s].original
  <2>1. OriginalPc = IF s > Len(recs) THEN cont
                     ELSE IF Body(s).does = "cond" /\ it.at > At(s) THEN Body(s).target
                     ELSE recs[s].original
    BY <1>1, <1>3, StandsInSlot
  <2> QED BY <1>5, <2>1
<1>7. CASE s > Len(recs)
  <2>1. Body(s) = Back
    BY <1>1, <1>7, SlotFacts
  <2>2. Body(s).does = "jump" /\ Body(s).target = cont
    BY <2>1 DEF Back, NoInst
  <2>3. pc' = cont /\ log' = log
    BY <1>1, <2>2 DEF Passes, NextPc, Observed
  <2>4. OriginalPc' = OriginalPc
    BY <1>1, <1>3, <1>4, <1>6, <1>7, <2>3, ReadyFacts
  <2> QED BY <1>2, <2>3, <2>4 DEF originalVars
<1>8. CASE ~(s > Len(recs))
  <2>1. s \in 1..Len(recs)
    BY <1>1, <1>8, ReadyFacts DEF Slots
  <2>2. /\ s \in 1..Len(code) /\ code[s] = Body(s) /\ recs[s].original = Original!AddressOf(s)
        /\ recs[s].original + Body(s).size =
              IF s < Len(recs) THEN recs[s + 1].original ELSE cont
    BY <1>1, <2>1, SlotOriginal
  <2>3. OriginalPc = Original!AddressOf(s)
    BY <1>6, <1>8, <2>2
  <2>4. log' = log \o Original!Observed(Body(s).does, Body(s), Body(s).target)
    BY DEF Passes, Observed, Original!Observed, NoInst, Original!NoInst
  <2>5. OriginalPc' = Original!NextPc(Body(s).does, Body(s).target,
                                      OriginalPc + Body(s).size, s \in taken)
    <3>1. CASE Body(s).does = "jump" \/ (Body(s).does = "cond" /\ s \in taken)
      <4>1. pc' = Body(s).target
        BY <3>1 DEF Passes, NextPc
      <4>2. OriginalPc' = Body(s).target
        BY <1>1, <1>3, <1>4, <4>1, SlotFacts
      <4> QED BY <3>1, <4>2 DEF Original!NextPc
    <3>2. CASE Body(s).does = "leave"
      <4>1. pc' = Gone /\ Gone \in Int \ Buffer
        BY <1>1, <3>2, ReadyFacts DEF Passes, NextPc, Gone, Buffer
      <4>2. OriginalPc' = Gone
        BY <1>3, <1>4, <4>1
      <4> QED BY <3>2, <4>2 DEF Original!NextPc, Original!Gone, Gone
    <3>3. CASE ~(Body(s).does = "jump" \/ (Body(s).does = "cond" /\ s \in taken))
               /\ Body(s).does # "leave"
      <4>1. pc' = raddr + At(s) + Size(s)
        BY <3>3 DEF Passes, NextPc
      <4>2. At(s) + Size(s) = At(s + 1) /\ s + 1 \in Slots
        BY <1>1, <2>1, SlotOrder
      <4>3. pc' = raddr + At(s + 1)
        BY <1>1, <4>1, <4>2
      <4>4. OriginalPc' = IF s + 1 <= Len(recs) THEN recs[s + 1].original ELSE cont
        BY <1>1, <1>3, <4>2, <4>3, StandsInStart
      <4>5. s + 1 <= Len(recs) <=> s < Len(recs)
        <5>1. s \in Int /\ Len(recs) \in Int
          BY <1>1, <2>1, ReadyFacts
        <5> QED BY <5>1
      <4>6. OriginalPc' = OriginalPc + Body(s).size
        BY <2>2, <2>3, <4>4, <4>5
      <4> QED BY <3>3, <4>6 DEF Original!NextPc
    <3> QED BY <3>1, <3>2, <3>3
  <2>6. Original!RunOriginal
    BY <1>2, <2>2, <2>3, <2>4, <2>5 DEF Original!RunOriginal
  <2> QED BY <2>6
<1> QED BY <1>7, <1>8

\* The target of a branch taken earlier: the original run is there already.
LEMMA ArrivesRefines ==
    ASSUME NEW s, NEW it, Fetched(s, it), Arrives(s), UNCHANGED <<vars, taken>>
    PROVE  [Original!RunOriginal]_originalVars
<1>1. /\ Ready /\ s \in Slots /\ it \in out /\ pc = raddr + it.at /\ raddr \in Nat
      /\ it.at \in Nat /\ At(s) \in Nat /\ At(s) <= it.at /\ it.at < At(s) + Size(s)
  BY FetchedFacts DEF Fetched
<1>2. OriginalPc = StandIn(pc) /\ OriginalPc' = StandIn(pc')
  BY SameStandIn
<1>3. it.at > At(s) /\ Body(s).does = "cond" /\ pc' = Body(s).target /\ log' = log
  BY <1>1 DEF Arrives
<1>4. ~(s > Len(recs))
  <2>1. s > Len(recs) => Body(s).does = "jump"
    BY <1>1, SlotFacts DEF Back, NoInst
  <2> QED BY <1>3, <2>1
<1>5. OriginalPc = Body(s).target
  BY <1>1, <1>2, <1>3, <1>4, StandsInSlot
<1>6. OriginalPc' = Body(s).target
  <2>1. Body(s).target \in Int \ Buffer
    BY <1>1, SlotFacts
  <2> QED BY <1>1, <1>2, <1>3, <2>1, StandsOutside
<1> QED BY <1>3, <1>5, <1>6 DEF originalVars, vars, decodeVars

\* Every step of the processor.
LEMMA ProcessorRefines ==
    ASSUME Ready, CpuInv, Processor
    PROVE  [Original!RunOriginal]_originalVars
<1>1. Runnable /\ UNCHANGED <<vars, taken>>
  BY ProcessorRuns
<1>2. CASE Enter
  <2>1. pc = Origin /\ pc' = raddr /\ log' = log
    BY <1>2 DEF Enter
  <2>2. OriginalPc = StandIn(pc) /\ OriginalPc' = StandIn(pc')
    BY <1>1, SameStandIn
  <2>3. OriginalPc = Origin
    BY <2>1, <2>2, ReadyFacts, StandsOutside
  <2>4. raddr + At(1) = raddr /\ 1 \in Slots
    BY SlotOrder, ReadyFacts
  <2>5. OriginalPc' = IF 1 <= Len(recs) THEN recs[1].original ELSE cont
    BY <2>1, <2>2, <2>4, StandsInStart
  <2>6. /\ Len(recs) \in Nat /\ Len(insts) = Len(recs)
        /\ \A k \in 1..Len(recs) : recs[k].original = insts[k].address
        /\ IF Len(insts) > 0 THEN insts[1].address = Origin ELSE total = 0
        /\ cont = Origin + total /\ Origin \in Int
    BY ReadyFacts DEF Ready, Runnable, RelocateInv, RecordInv, BlockInv, Tiled
  <2>7. OriginalPc' = Origin
    BY <2>5, <2>6
  <2> QED BY <1>1, <2>1, <2>3, <2>7 DEF originalVars, vars, decodeVars
<1>3. CASE ~Enter
  <2>1. PICK s, it : Fetched(s, it)
    BY <1>3, ProcessorFetches
  <2> QED BY <1>1, <2>1, StepIs, StaysRefines, PassesRefines, ArrivesRefines
<1> QED BY <1>2, <1>3

\* The call itself: the function is not entered before it has returned.
LEMMA RelocatingRefines ==
    ASSUME RelocateInv', CodeInv', CpuInv, Relocating
    PROVE  [Original!RunOriginal]_originalVars
<1>1. pc = Origin /\ ~Runnable /\ ~(Runnable /\ Inside)'
  BY RelocatingCpu
<1>2. OriginalPc = pc /\ OriginalPc' = pc'
  BY <1>1 DEF OriginalPc
<1>3. UNCHANGED <<pc, log, taken>>
  BY DEF Relocating, cpuVars
<1>4. UNCHANGED code
  BY DEF Relocating, Next, RelocateUnsupported, Decoding, DecodeStep, DecodeOne, DecodeFails,
         LoopEnds, BlockDecoded, BlockRefused, RelocateOne, RelocateRefused, RelocateClobbers,
         RelocateTurn, JumpBack, JumpBackFails, JumpBackTurn, decodeVars
<1> QED BY <1>2, <1>3, <1>4 DEF originalVars

-----------------------------------------------------------------------------
(***************************************************************************)
(* The theorems.                                                           *)
(***************************************************************************)

\* The inductive invariant of the whole run.
RunInv == RelocateInv /\ TargetInv /\ CodeInv /\ CpuInv

\* The run begins in it,
LEMMA RunBegins == RunInit /\ ProperCall => RunInv
<1> SUFFICES ASSUME RunInit, ProperCall PROVE RunInv
  OBVIOUS
<1>1. CallBegins
  BY BlockAssumption, RelocateAssumption DEF RunInit, Init, AtLeastOne, CallBegins
<1>2. RelocateInv /\ TargetInv /\ CodeInv
  BY <1>1, CallBeginsInv, CallBeginsTargets, CallBeginsCode
<1>3. ~Runnable
  BY <1>1 DEF CallBegins, WorkInit, Runnable
<1>4. pc = Origin /\ pc \in Int /\ log = <<>> /\ log \in Seq(Events)
  BY BlockAssumption DEF RunInit
<1> QED BY <1>2, <1>3, <1>4 DEF RunInv, CpuInv

\* stays in it while nothing happens,
LEMMA QuietCpu ==
    ASSUME CpuInv, UNCHANGED RunVars
    PROVE  CpuInv'
<1>1. UNCHANGED vars /\ UNCHANGED cpuVars
  BY DEF RunVars
<1>2. UNCHANGED <<pc, reg, log>>
  BY <1>1 DEF cpuVars
<1>3. CASE Runnable
  <2>1. Inside <=> raddr <= pc' /\ pc' < CodeEnd
    BY <1>2 DEF Inside
  <2> QED BY <1>1, <1>2, <1>3, <2>1, SameCode DEF CpuInv
<1>4. CASE ~Runnable
  BY <1>1, <1>2, <1>4, SameRunnable DEF CpuInv
<1> QED BY <1>3, <1>4

\* and with every step.
LEMMA RunStepInv ==
    Faults \subseteq Exempt => (RunInv /\ [Relocating \/ Processor]_RunVars => RunInv')
<1> SUFFICES ASSUME Faults \subseteq Exempt, RunInv, [Relocating \/ Processor]_RunVars
             PROVE  RunInv'
  OBVIOUS
<1>1. [Next]_vars
  BY ProcessorRuns DEF Relocating, RunVars
<1>2. RelocateInv' /\ TargetInv' /\ CodeInv'
  BY <1>1, RelocateStepInv, TargetStepInv, CodeStepInv DEF RunInv
<1>3. CASE Relocating
  BY <1>2, <1>3, RelocatingCpu DEF RunInv
<1>4. CASE Processor
  <2>1. Ready
    BY <1>4, ProcessorRuns DEF RunInv, Ready
  <2> QED BY <1>2, <1>4, <2>1, ProcessorCpu DEF RunInv
<1>5. CASE UNCHANGED RunVars
  BY <1>2, <1>5, QuietCpu DEF RunInv
<1> QED BY <1>3, <1>4, <1>5

\* A processor that stands at an item of a slot is not off the rails.
LEMMA StandingIsSafe ==
    Faults \subseteq Exempt => (RunInv => NeverDerails)
<1> SUFFICES ASSUME Faults \subseteq Exempt, RunInv, Runnable, Inside
             PROVE  \E it \in out : /\ raddr + it.at = pc /\ it.op \notin {"data", "spoilt"}
                                    /\ it.op \in {"branchReg", "callReg"} => reg # Garbage
  BY DEF NeverDerails
<1>1. Ready
  BY DEF RunInv, Ready
<1>2. PICK s \in Slots, it \in out : Here(s, it, pc, reg)
  BY DEF RunInv, CpuInv, Standing
<1>3. /\ raddr + it.at = pc /\ Runs(mode, out, raddr, At(s), Size(s), Body(s), it)
      /\ it.op = "branchReg" => reg = Body(s).target
  BY <1>2 DEF Here
<1>4. Body(s).target # Garbage
  <2>1. Body(s).target \in Nat
    BY <1>1, SlotFacts
  <2> QED BY <2>1 DEF Garbage
<1>5. it.op \notin {"data", "spoilt", "callReg"}
  BY <1>3 DEF Runs, Stands, Hops, Finds, Through
<1> QED BY <1>3, <1>4, <1>5

\* While it is in the trampoline the processor only ever fetches the first byte
\* of an instruction, and branches through no register that was not loaded.
THEOREM NeverDerailed ==
    ASSUME Faults \subseteq Exempt
    PROVE  RunSpec /\ ProperCall => []NeverDerails
<1>1. RunInit /\ ProperCall => RunInv
  BY RunBegins
<1>2. RunInv /\ [Relocating \/ Processor]_RunVars => RunInv'
  BY RunStepInv
<1>3. RunInv => NeverDerails
  BY StandingIsSafe
<1> QED BY <1>1, <1>2, <1>3, PTL DEF RunSpec

\* The original run begins where the trampoline's does,
LEMMA RunBeginsOriginal == RunInit => Original!Init
<1> SUFFICES ASSUME RunInit PROVE Original!Init
  OBVIOUS
<1>1. ~Runnable
  BY DEF RunInit, Init, WorkInit, Runnable
<1>2. OriginalPc = pc
  BY <1>1 DEF OriginalPc
<1> QED BY <1>2 DEF RunInit, Original!Init

\* and does what it does, step by step.
LEMMA RunRefines ==
    Faults \subseteq Exempt =>
        (RunInv /\ RunInv' /\ [Relocating \/ Processor]_RunVars
            => [Original!RunOriginal]_<<code, taken, OriginalPc, log>>)
<1> SUFFICES ASSUME Faults \subseteq Exempt, RunInv, RunInv',
                    [Relocating \/ Processor]_RunVars
             PROVE  [Original!RunOriginal]_originalVars
  BY DEF originalVars
<1>1. CASE Relocating
  BY <1>1, RelocatingRefines DEF RunInv
<1>2. CASE Processor
  <2>1. Ready
    BY <1>2, ProcessorRuns DEF RunInv, Ready
  <2> QED BY <1>2, <2>1, ProcessorRefines DEF RunInv
<1>3. CASE UNCHANGED RunVars
  <2>1. UNCHANGED vars /\ UNCHANGED <<pc, log, taken>>
    BY <1>3 DEF RunVars, cpuVars
  <2>2. OriginalPc' = OriginalPc
    BY <2>1, SameStandIn
  <2> QED BY <2>1, <2>2 DEF originalVars, vars, decodeVars
<1> QED BY <1>1, <1>2, <1>3

\* Running the trampoline is running the overwritten instructions: the same
\* effects on the same addresses, in the same order, once each, the same branches
\* taken, and then the rest of the function.
THEOREM TrampolineIsOriginal ==
    ASSUME Faults \subseteq Exempt
    PROVE  RunSpec /\ ProperCall => RunsAsOriginal
<1>1. RunInit /\ ProperCall => RunInv
  BY RunBegins
<1>2. RunInv /\ [Relocating \/ Processor]_RunVars => RunInv'
  BY RunStepInv
<1>3. RunInit => Original!Init
  BY RunBeginsOriginal
<1>4. RunInv /\ RunInv' /\ [Relocating \/ Processor]_RunVars
        => [Original!RunOriginal]_<<code, taken, OriginalPc, log>>
  BY RunRefines
<1> QED BY <1>1, <1>2, <1>3, <1>4, PTL DEF RunSpec, RunsAsOriginal, Original!Spec
=============================================================================
