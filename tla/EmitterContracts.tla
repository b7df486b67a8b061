-------------------------- MODULE EmitterContracts --------------------------
(***************************************************************************)
(* What the callers of the emitters rely on, proved of every emitter and   *)
(* relocator of every target: the result is well formed, a successful one  *)
(* fits the capacity it was given, nothing is written beyond the size it   *)
(* reports or that capacity, nor twice over the same bytes, and a scratch  *)
(* register that is loaded is in its clobber set.                          *)
(***************************************************************************)
EXTENDS TargetOps, Cpu, TLAPS

Disjoint(a, b) == a.at + a.len <= b.at \/ b.at + b.len <= a.at

\* `it' lies within the first n bytes.
Within(it, n) == it.at + it.len <= n

Accountable(m, r, cap) ==
    /\ r \in EmitResults
    /\ r.status = "OK" => r.size <= cap
    /\ \A it \in r.code : Within(it, cap) /\ Within(it, r.size)
    /\ \A it \in r.code : it.op = "load" => ScratchReg(m) \in r.clobbers
    /\ \A a, b \in r.code : a # b => Disjoint(a, b)
    /\ r.code # {} => r.status \in {"OK", "FORBIDDEN_CLOBBER"}

\* The relocators and the targets' own emitters write nothing unless they
\* succeed.
Contract(m, r, cap) == Accountable(m, r, cap) /\ (r.code # {} => r.status = "OK")

\* An item is well typed when its parts are.
LEMMA ItemType ==
    ASSUME NEW op \in Ops, NEW at \in Nat, NEW len \in Nat, NEW disp \in Int,
           NEW inst \in Inst \cup {NoInst}
    PROVE  /\ Item(op, at, len, disp, inst) \in Items
           /\ Item(op, at, len, disp, inst).op = op
           /\ Item(op, at, len, disp, inst).at = at
           /\ Item(op, at, len, disp, inst).len = len
  BY DEF Item, Items

\* What a piece of code has to satisfy to be written as `size' bytes.
Layout(code, size) ==
    /\ code \in SUBSET Items
    /\ \A it \in code : Within(it, size)
    /\ \A a, b \in code : a # b => Disjoint(a, b)

\* The common way out of an emitter establishes the contract.
LEMMA WrittenKeepsContract ==
    ASSUME NEW m, NEW cap \in Nat, NEW size \in Nat,
           NEW clobbers \in SUBSET Regs, NEW code, Layout(code, size),
           \A it \in code : it.op = "load" => ScratchReg(m) \in clobbers
    PROVE  Contract(m, Written(size, clobbers, code, cap), cap)
<1> DEFINE r == Written(size, clobbers, code, cap)
<1> SUFFICES Contract(m, r, cap)
  OBVIOUS
<1>1. CASE cap < size
  <2>1. r = [status |-> "OUTPUT_TOO_SMALL", size |-> size, clobbers |-> clobbers, code |-> {}]
    BY <1>1 DEF Written
  <2> HIDE DEF r
  <2> QED BY <2>1 DEF Contract, Accountable, EmitResults, Statuses
<1>2. CASE ~(cap < size)
  <2>1. r = [status |-> "OK", size |-> size, clobbers |-> clobbers, code |-> code]
    BY <1>2 DEF Written
  <2> HIDE DEF r
  <2>2. r \in EmitResults /\ r.size <= cap
    BY <1>2, <2>1 DEF EmitResults, Statuses, Layout
  <2>3. \A it \in code : it.at \in Nat /\ it.len \in Nat /\ it.at + it.len <= size
    BY DEF Layout, Within, Items
  <2>4. \A it \in code : Within(it, cap) /\ Within(it, size)
    BY <1>2, <2>3 DEF Within
  <2> QED BY <2>1, <2>2, <2>4 DEF Contract, Accountable, Layout
<1> QED BY <1>1, <1>2

\* The same for a sequence that destroys nothing, and for a single item.
LEMMA CleanCodeContract ==
    ASSUME NEW m, NEW cap \in Nat, NEW size \in Nat, NEW code, Layout(code, size),
           \A it \in code : it.op # "load"
    PROVE  Contract(m, Written(size, {}, code, cap), cap)
<1>1. {} \in SUBSET Regs /\ \A it \in code : it.op = "load" => ScratchReg(m) \in {}
  OBVIOUS
<1> QED BY <1>1, WrittenKeepsContract

\* A single item other than a load, within the size reported.
LEMMA SingleItemContract ==
    ASSUME NEW m, NEW cap \in Nat, NEW size \in Nat, NEW it \in Items,
           it.op # "load", it.at + it.len <= size
    PROVE  Contract(m, Written(size, {}, {it}, cap), cap)
<1> DEFINE code == {it}
<1>1. Layout(code, size) /\ \A x \in code : x.op # "load"
  BY DEF Layout, Within
<1> HIDE DEF code
<1>2. Contract(m, Written(size, {}, code, cap), cap)
  BY <1>1, CleanCodeContract
<1> QED BY <1>2 DEF code

\* So does a refusal, which writes nothing.
LEMMA RefusedKeepsContract ==
    ASSUME NEW m, NEW cap \in Nat, NEW size \in Nat,
           NEW status \in Statuses \ {"OK"}
    PROVE  Contract(m, Refused(status, size), cap)
  BY DEF Contract, Accountable, Refused, EmitResults

\* Choosing between a direct and an absolute form keeps the contract of both.
LEMMA EmitAnyKeepsContract ==
    ASSUME NEW m, NEW cap \in Nat, NEW bmode, NEW direct, NEW otherwise,
           Contract(m, direct, cap), Contract(m, otherwise, cap)
    PROVE  Contract(m, EmitAny(direct, bmode, otherwise), cap)
  BY DEF EmitAny

-----------------------------------------------------------------------------
(***************************************************************************)
(* x86.                                                                    *)
(***************************************************************************)

\* The relative jump and call.
LEMMA X86EmitRelContract ==
    ASSUME NEW m \in X86Modes, NEW isCall \in BOOLEAN, NEW from \in Int,
           NEW to \in Int, NEW cap \in Nat
    PROVE  Contract(m, X86EmitRel(m, isCall, from, to, cap), cap)
<1> DEFINE n    == X86DirectSize(m)
           disp == to - (from + n)
           op   == IF isCall THEN "call" ELSE "jump"
           it   == Item(op, 0, n, disp, NoInst)
<1>1. n \in Nat /\ disp \in Int /\ op \in Ops /\ op # "load"
  BY DEF X86DirectSize, Ops
<1>2. it \in Items /\ it.op = op /\ it.at = 0 /\ it.len = n
  BY <1>1, ItemType
<1>3. Contract(m, Written(n, {}, {it}, cap), cap)
  <2> HIDE DEF n, it, op
  <2> QED BY <1>1, <1>2, SingleItemContract
<1>4. Contract(m, Refused("BRANCH_OUT_OF_RANGE", 0), cap)
  BY RefusedKeepsContract DEF Statuses
<1> QED BY <1>3, <1>4 DEF X86EmitRel

\* The layout of the absolute form.
LEMMA X86AbsCodeLayout ==
    ASSUME NEW isCall \in BOOLEAN, NEW to \in Int, NEW at \in Nat
    PROVE  /\ Layout(X86AbsCode(isCall, to, at), at + 14)
           /\ \A it \in X86AbsCode(isCall, to, at) : it.op # "load" /\ at <= it.at
<1> DEFINE op == IF isCall THEN "callMem" ELSE "jumpMem"
           a  == Item(op, at, 6, 0, NoInst)
           b  == Item("data", at + 6, 8, to, NoInst)
<1>1. op \in Ops /\ op # "load" /\ "data" \in Ops
  BY DEF Ops
<1>2. a \in Items /\ a.op = op /\ a.at = at /\ a.len = 6
  BY <1>1, ItemType
<1>3. b \in Items /\ b.op = "data" /\ b.at = at + 6 /\ b.len = 8
  BY <1>1, ItemType
<1>4. X86AbsCode(isCall, to, at) = {a, b}
  BY DEF X86AbsCode
<1> HIDE DEF a, b, op
<1> QED BY <1>1, <1>2, <1>3, <1>4 DEF Layout, Within, Disjoint

\* The absolute jump and call.
LEMMA X86EmitAbsContract ==
    ASSUME NEW m, NEW isCall \in BOOLEAN, NEW to \in Int, NEW cap \in Nat
    PROVE  Contract(m, X86EmitAbs(isCall, to, cap), cap)
<1> DEFINE code == X86AbsCode(isCall, to, 0)
<1>1. Layout(code, 0 + 14) /\ \A it \in code : it.op # "load"
  BY X86AbsCodeLayout
<1>2. 0 + 14 = 14
  OBVIOUS
<1> HIDE DEF code
<1>3. Contract(m, Written(14, {}, code, cap), cap)
  BY <1>1, <1>2, CleanCodeContract
<1> QED BY <1>3 DEF code, X86EmitAbs

\* emit_jump and emit_call.
LEMMA X86EmitContract ==
    ASSUME NEW m \in X86Modes, NEW isCall \in BOOLEAN, NEW from \in Int,
           NEW to \in Int, NEW bmode, NEW cap \in Nat
    PROVE  Contract(m, X86Emit(m, isCall, from, to, bmode, cap), cap)
<1>1. Contract(m, Refused("BRANCH_OUT_OF_RANGE", 0), cap)
  BY RefusedKeepsContract DEF Statuses
<1> QED BY <1>1, X86EmitRelContract, X86EmitAbsContract, EmitAnyKeepsContract DEF X86Emit

\* A moved conditional jump, in its near and in its expanded form.
LEMMA X86CondContract ==
    ASSUME NEW m \in X86Modes, NEW inst \in Inst, NEW raddr \in Int, NEW cap \in Nat
    PROVE  Contract(m, X86RelocateCond(m, inst, raddr, cap), cap)
<1> DEFINE to   == inst.target
           disp == to - (raddr + 6)
           near == Item("cond", 0, 6, disp, inst)
           skip == Item("skip", 0, 2, 14, inst)
<1>1. to \in Int /\ disp \in Int /\ {"cond", "skip"} \subseteq Ops
  BY DEF Inst, Ops
<1>2. near \in Items /\ near.op = "cond" /\ near.at = 0 /\ near.len = 6
  BY <1>1, ItemType
<1>3. skip \in Items /\ skip.op = "skip" /\ skip.at = 0 /\ skip.len = 2
  BY <1>1, ItemType
<1>4. Contract(m, Written(6, {}, {near}, cap), cap)
  <2> HIDE DEF near
  <2> QED BY <1>2, SingleItemContract
<1>5. Contract(m, X86ExpandJcc(inst, to, cap), cap)
  <2> DEFINE abs  == X86AbsCode(FALSE, to, 2)
             code == {skip} \cup abs
  <2>1. Layout(abs, 2 + 14) /\ \A it \in abs : it.op # "load" /\ 2 <= it.at
    BY <1>1, X86AbsCodeLayout
  <2>2. X86ExpandJcc(inst, to, cap) = Written(16, {}, code, cap)
    BY DEF X86ExpandJcc
  <2>3. Layout(code, 16) /\ \A it \in code : it.op # "load"
    <3> HIDE DEF skip, abs
    <3>1. \A it \in abs : it \in Items /\ it.at + it.len <= 16
      BY <2>1 DEF Layout, Within
    <3>2. \A it \in abs : it.at \in Nat /\ it.len \in Nat
      BY <3>1 DEF Items
    <3> QED BY <1>3, <2>1, <3>1, <3>2 DEF Layout, Within, Disjoint
  <2> HIDE DEF code
  <2> QED BY <2>2, <2>3, CleanCodeContract
<1>6. Contract(m, Refused("BRANCH_OUT_OF_RANGE", 6), cap)
  BY RefusedKeepsContract DEF Statuses
<1>7. Contract(m, Refused("UNSUPPORTED_RELOCATION", 0), cap)
  BY RefusedKeepsContract DEF Statuses
<1>8. Contract(m, X86EmitJcc(inst, raddr, to, cap), cap)
  BY <1>4, <1>6 DEF X86EmitJcc
<1> QED BY <1>5, <1>7, <1>8 DEF X86RelocateCond

\* An instruction written with its own length: copied, or its displacement
\* rewritten.
LEMMA OneItemContract ==
    ASSUME NEW m, NEW inst \in Inst, NEW size \in Nat, NEW op \in Ops \ {"load"},
           NEW disp \in Int, NEW cap \in Nat
    PROVE  Contract(m, Written(size, {}, {Item(op, 0, size, disp, inst)}, cap), cap)
<1> DEFINE it == Item(op, 0, size, disp, inst)
<1>1. it \in Items /\ it.op = op /\ it.at = 0 /\ it.len = size
  BY ItemType
<1> HIDE DEF it
<1>2. Contract(m, Written(size, {}, {it}, cap), cap)
  BY <1>1, SingleItemContract
<1> QED BY <1>2 DEF it

\* Every x86 relocation.
LEMMA X86RelocateContract ==
    ASSUME NEW m \in X86Modes, NEW inst \in Inst, NEW raddr \in Int, NEW cap \in Nat
    PROVE  Contract(m, X86Relocate(m, inst, raddr, cap), cap)
<1>1. inst.target \in Int /\ inst.size \in Nat /\ {"copy", "ref"} \subseteq Ops \ {"load"}
  BY DEF Inst, Ops, MaxInstBytes
<1>2. Contract(m, Refused("UNSUPPORTED_RELOCATION", 0), cap)
  BY RefusedKeepsContract DEF Statuses
<1>3. Contract(m, Refused("BRANCH_OUT_OF_RANGE", 0), cap)
  BY RefusedKeepsContract DEF Statuses
<1>4. Contract(m, X86RelocateBranch(m, inst, raddr, cap), cap)
  BY <1>1, <1>2, X86EmitRelContract, X86EmitAbsContract DEF X86RelocateBranch
<1>5. Contract(m, X86RelocateRip(inst, raddr, cap), cap)
  <2>1. RipOp(inst) \in Ops \ {"load"}
    BY DEF Ops, RipOp
  <2>2. inst.target - (raddr + inst.size) \in Int
    BY <1>1
  <2>3. Contract(m, Written(inst.size, {},
                 {Item(RipOp(inst), 0, inst.size, inst.target - (raddr + inst.size), inst)}, cap), cap)
    BY <1>1, <2>1, <2>2, OneItemContract
  <2> QED BY <1>2, <1>3, <2>3 DEF X86RelocateRip
<1>6. Contract(m, Written(inst.size, {}, {Item("copy", 0, inst.size, 0, inst)}, cap), cap)
  BY <1>1, OneItemContract
<1> QED BY <1>4, <1>5, <1>6, X86CondContract DEF X86Relocate

-----------------------------------------------------------------------------
(***************************************************************************)
(* ARM.                                                                    *)
(***************************************************************************)
ArmModes == {"a32", "thumb"}

\* The relative branch of both modes.
LEMMA ArmEmitRelContract ==
    ASSUME NEW m \in ArmModes, NEW isCall \in BOOLEAN, NEW from \in Int,
           NEW to \in Int, NEW cap \in Nat
    PROVE  Contract(m, ArmEmitRel(m, isCall, from, to, cap), cap)
<1> DEFINE op  == IF isCall THEN "call" ELSE "jump"
           a32 == Item(op, 0, 4, to - (from + 8), NoInst)
           t16 == Item(op, 0, 2, to - (from + 4), NoInst)
<1>1. op \in Ops /\ op # "load" /\ to - (from + 8) \in Int /\ to - (from + 4) \in Int
  BY DEF Ops
<1>2. a32 \in Items /\ a32.op = op /\ a32.at = 0 /\ a32.len = 4
  BY <1>1, ItemType
<1>3. t16 \in Items /\ t16.op = op /\ t16.at = 0 /\ t16.len = 2
  BY <1>1, ItemType
<1>4. Contract(m, Written(4, {}, {a32}, cap), cap)
  <2> HIDE DEF a32, op
  <2> QED BY <1>1, <1>2, SingleItemContract
<1>5. Contract(m, Written(2, {}, {t16}, cap), cap)
  <2> HIDE DEF t16, op
  <2> QED BY <1>1, <1>3, SingleItemContract
<1>6. \A n \in {0, 2, 4} : Contract(m, Refused("BRANCH_OUT_OF_RANGE", n), cap)
  BY RefusedKeepsContract DEF Statuses
<1>7. CASE m = "a32"
  BY <1>4, <1>6, <1>7 DEF ArmEmitRel
<1>8. CASE m # "a32"
  BY <1>5, <1>6, <1>8 DEF ArmEmitRel
<1> QED BY <1>7, <1>8

\* The literal jump and the call through ip.
LEMMA ArmEmitAbsContract ==
    ASSUME NEW isCall \in BOOLEAN, NEW to \in Int, NEW cap \in Nat
    PROVE  Contract("a32", ArmEmitAbsA32(isCall, to, cap), cap)
<1> DEFINE load  == Item("load", 0, 4, 4, NoInst)
           blx   == Item("callReg", 4, 4, 0, NoInst)
           word8 == Item("data", 8, 4, to, NoInst)
           ldrpc == Item("jumpMem", 0, 4, -4, NoInst)
           word4 == Item("data", 4, 4, to, NoInst)
<1>1. {"load", "callReg", "data", "jumpMem"} \subseteq Ops
  BY DEF Ops
<1>2. load \in Items /\ load.op = "load" /\ load.at = 0 /\ load.len = 4
  BY <1>1, ItemType
<1>3. blx \in Items /\ blx.op = "callReg" /\ blx.at = 4 /\ blx.len = 4
  BY <1>1, ItemType
<1>4. word8 \in Items /\ word8.op = "data" /\ word8.at = 8 /\ word8.len = 4
  BY <1>1, ItemType
<1>5. ldrpc \in Items /\ ldrpc.op = "jumpMem" /\ ldrpc.at = 0 /\ ldrpc.len = 4
  BY <1>1, ItemType
<1>6. word4 \in Items /\ word4.op = "data" /\ word4.at = 4 /\ word4.len = 4
  BY <1>1, ItemType
<1>7. Contract("a32", Written(12, {"ip"}, {load, blx, word8}, cap), cap)
  <2> DEFINE code == {load, blx, word8}
             ip   == {"ip"}
  <2>1. Layout(code, 12)
    <3> HIDE DEF load, blx, word8
    <3> QED BY <1>2, <1>3, <1>4 DEF Layout, Within, Disjoint
  <2>2. ip \in SUBSET Regs /\ ScratchReg("a32") \in ip
    BY DEF Regs, ScratchReg
  <2>3. Contract("a32", Written(12, ip, code, cap), cap)
    <3> HIDE DEF code, ip
    <3> QED BY <2>1, <2>2, WrittenKeepsContract
  <2> QED BY <2>3
<1>8. Contract("a32", Written(8, {}, {ldrpc, word4}, cap), cap)
  <2> DEFINE code == {ldrpc, word4}
  <2>1. Layout(code, 8) /\ \A it \in code : it.op # "load"
    <3> HIDE DEF ldrpc, word4
    <3> QED BY <1>5, <1>6 DEF Layout, Within, Disjoint
  <2>2. Contract("a32", Written(8, {}, code, cap), cap)
    <3> HIDE DEF code
    <3> QED BY <2>1, CleanCodeContract
  <2> QED BY <2>2
<1> QED BY <1>7, <1>8 DEF ArmEmitAbsA32

\* emit_jump and emit_call.
LEMMA ArmEmitContract ==
    ASSUME NEW m \in ArmModes, NEW isCall \in BOOLEAN, NEW from \in Int,
           NEW to \in Int, NEW bmode, NEW cap \in Nat
    PROVE  Contract(m, ArmEmit(m, isCall, from, to, bmode, cap), cap)
<1>1. Contract(m, Refused("BRANCH_OUT_OF_RANGE", 0), cap)
  BY RefusedKeepsContract DEF Statuses
<1> QED BY <1>1, ArmEmitRelContract, ArmEmitAbsContract, EmitAnyKeepsContract DEF ArmEmit

\* Every ARM relocation.
LEMMA ArmRelocateContract ==
    ASSUME NEW m \in ArmModes, NEW inst \in Inst, NEW raddr \in Int, NEW cap \in Nat
    PROVE  Contract(m, ArmRelocate(m, inst, raddr, cap), cap)
<1>1. inst.target \in Int /\ inst.size \in Nat /\ "copy" \in Ops \ {"load"}
  BY DEF Inst, Ops, MaxInstBytes
<1>2. Contract(m, Refused("UNSUPPORTED_RELOCATION", 0), cap)
  BY RefusedKeepsContract DEF Statuses
<1>3. Contract(m, ArmRelocateBranch(m, inst, raddr, cap), cap)
  BY <1>1, ArmEmitRelContract, ArmEmitAbsContract DEF ArmRelocateBranch
<1>4. Contract(m, Written(inst.size, {}, {Item("copy", 0, inst.size, 0, inst)}, cap), cap)
  BY <1>1, OneItemContract
<1> QED BY <1>2, <1>3, <1>4 DEF ArmRelocate

-----------------------------------------------------------------------------
(***************************************************************************)
(* AArch64.                                                                *)
(***************************************************************************)

\* The relative branch.
LEMMA A64EmitRelContract ==
    ASSUME NEW isCall \in BOOLEAN, NEW from \in Int, NEW to \in Int, NEW cap \in Nat
    PROVE  Contract("a64", A64EmitRel(isCall, from, to, cap), cap)
<1> DEFINE op == IF isCall THEN "call" ELSE "jump"
           it == Item(op, 0, 4, to - from, NoInst)
<1>1. op \in Ops /\ op # "load" /\ to - from \in Int
  BY DEF Ops
<1>2. it \in Items /\ it.op = op /\ it.at = 0 /\ it.len = 4
  BY <1>1, ItemType
<1>3. Contract("a64", Written(4, {}, {it}, cap), cap)
  <2> HIDE DEF it, op
  <2> QED BY <1>1, <1>2, SingleItemContract
<1>4. Contract("a64", Refused("BRANCH_OUT_OF_RANGE", 4), cap)
  BY RefusedKeepsContract DEF Statuses
<1> QED BY <1>3, <1>4 DEF A64EmitRel

\* The layout of the absolute form.
LEMMA A64AbsCodeLayout ==
    ASSUME NEW isCall \in BOOLEAN, NEW to \in Int, NEW at \in Nat
    PROVE  /\ Layout(A64AbsCode(isCall, to, at), at + 16)
           /\ \A it \in A64AbsCode(isCall, to, at) : at <= it.at
<1> DEFINE op   == IF isCall THEN "callReg" ELSE "branchReg"
           load == Item("load", at, 4, 8, NoInst)
           br   == Item(op, at + 4, 4, 0, NoInst)
           quad == Item("data", at + 8, 8, to, NoInst)
<1>1. op \in Ops /\ {"load", "data"} \subseteq Ops
  BY DEF Ops
<1>2. load \in Items /\ load.at = at /\ load.len = 4
  BY <1>1, ItemType
<1>3. br \in Items /\ br.at = at + 4 /\ br.len = 4
  BY <1>1, ItemType
<1>4. quad \in Items /\ quad.at = at + 8 /\ quad.len = 8
  BY <1>1, ItemType
<1>5. A64AbsCode(isCall, to, at) = {load, br, quad}
  BY DEF A64AbsCode
<1> HIDE DEF load, br, quad, op
<1> QED BY <1>2, <1>3, <1>4, <1>5 DEF Layout, Within, Disjoint

\* A sequence around the absolute form destroys x16 and says so.
LEMMA A64ScratchContract ==
    ASSUME NEW size \in Nat, NEW code, NEW cap \in Nat, Layout(code, size)
    PROVE  Contract("a64", Written(size, {"x16"}, code, cap), cap)
<1> DEFINE x16 == {"x16"}
<1>1. x16 \in SUBSET Regs /\ ScratchReg("a64") \in x16
  BY DEF Regs, ScratchReg
<1> HIDE DEF x16
<1>2. Contract("a64", Written(size, x16, code, cap), cap)
  BY <1>1, WrittenKeepsContract
<1> QED BY <1>2 DEF x16

\* The absolute branch.
LEMMA A64EmitAbsContract ==
    ASSUME NEW isCall \in BOOLEAN, NEW to \in Int, NEW cap \in Nat
    PROVE  Contract("a64", A64EmitAbs(isCall, to, cap), cap)
<1> DEFINE code == A64AbsCode(isCall, to, 0)
<1>1. Layout(code, 0 + 16)
  BY A64AbsCodeLayout
<1>2. 0 + 16 = 16
  OBVIOUS
<1> HIDE DEF code
<1>3. Contract("a64", Written(16, {"x16"}, code, cap), cap)
  BY <1>1, <1>2, A64ScratchContract
<1> QED BY <1>3 DEF code, A64EmitAbs

\* emit_jump and emit_call.
LEMMA A64EmitContract ==
    ASSUME NEW isCall \in BOOLEAN, NEW from \in Int, NEW to \in Int, NEW bmode,
           NEW given, NEW allowed, NEW cap \in Nat
    PROVE  Contract("a64", A64Emit(isCall, from, to, bmode, given, allowed, cap), cap)
<1>1. Contract("a64", Refused("FORBIDDEN_CLOBBER", 4), cap)
  BY RefusedKeepsContract DEF Statuses
<1> QED BY <1>1, A64EmitRelContract, A64EmitAbsContract, EmitAnyKeepsContract DEF A64Emit

\* The inverted condition and the absolute branch it hops over.
LEMMA A64ExpandContract ==
    ASSUME NEW inst \in Inst, NEW to \in Int, NEW cap \in Nat
    PROVE  Contract("a64", A64ExpandCond(inst, to, cap), cap)
<1> DEFINE skip == Item("skip", 0, 4, 20, inst)
           abs  == A64AbsCode(FALSE, to, 4)
           code == {skip} \cup abs
<1>1. skip \in Items /\ skip.at = 0 /\ skip.len = 4
  BY ItemType DEF Ops
<1>2. Layout(abs, 4 + 16) /\ \A it \in abs : 4 <= it.at
  BY A64AbsCodeLayout
<1>3. \A it \in abs : it \in Items /\ it.at + it.len <= 20
  <2> HIDE DEF abs
  <2> QED BY <1>2 DEF Layout, Within
<1>4. Layout(code, 20)
  <2> HIDE DEF skip, abs
  <2>1. \A it \in abs : it.at \in Nat /\ it.len \in Nat
    BY <1>3 DEF Items
  <2> QED BY <1>1, <1>2, <1>3, <2>1 DEF Layout, Within, Disjoint
<1> HIDE DEF code
<1>5. Contract("a64", Written(20, {"x16"}, code, cap), cap)
  BY <1>4, A64ScratchContract
<1> QED BY <1>5 DEF code, A64ExpandCond

\* The rewritten displacement is an integer.
LEMMA A64FieldType ==
    ASSUME NEW inst, NEW disp \in Int
    PROVE  A64Field(inst, disp) \in Int
  BY DEF A64Field

\* A rewritten immediate field, or the expansion of a branch out of its reach.
LEMMA A64FieldContract ==
    ASSUME NEW inst \in Inst, NEW raddr \in Int, NEW cap \in Nat
    PROVE  Contract("a64", A64RelocateField(inst, raddr, cap), cap)
<1> DEFINE to    == inst.target
           pages == (PageOf(to) - PageOf(raddr)) \div PageSize
           disp  == IF inst.enc = "adrp" THEN pages ELSE to - raddr
           field == A64Field(inst, disp)
           op    == IF inst.enc \in A64Conditionals THEN "cond" ELSE "ref"
<1>1. to \in Int
  BY DEF Inst
<1>2. op \in Ops \ {"load"}
  BY DEF Ops
<1>3. field \in Int
  <2>1. pages \in Int
    <3> HIDE DEF to
    <3> QED BY <1>1 DEF PageOf, PageSize
  <2> HIDE DEF pages, to
  <2> QED BY <1>1, <2>1, A64FieldType
<1>4. Contract("a64", Written(4, {}, {Item(op, 0, 4, field, inst)}, cap), cap)
  <2> HIDE DEF op, field
  <2> QED BY <1>2, <1>3, OneItemContract
<1>5. Contract("a64", A64ExpandCond(inst, to, cap), cap)
  BY <1>1, A64ExpandContract
<1>6. /\ Contract("a64", Refused("BRANCH_OUT_OF_RANGE", 0), cap)
      /\ Contract("a64", Refused("OUTPUT_TOO_SMALL", 4), cap)
      /\ Contract("a64", Refused("UNSUPPORTED_RELOCATION", 4), cap)
  BY RefusedKeepsContract DEF Statuses
<1> QED BY <1>4, <1>5, <1>6 DEF A64RelocateField

\* Every AArch64 relocation.
LEMMA A64RelocateContract ==
    ASSUME NEW inst \in Inst, NEW raddr \in Int, NEW cap \in Nat
    PROVE  Contract("a64", A64Relocate(inst, raddr, cap), cap)
<1>1. inst.target \in Int /\ inst.size \in Nat /\ "copy" \in Ops \ {"load"}
  BY DEF Inst, Ops, MaxInstBytes
<1>2. Contract("a64", Refused("UNSUPPORTED_RELOCATION", 0), cap)
  BY RefusedKeepsContract DEF Statuses
<1>3. Contract("a64", A64RelocateBranch(inst, raddr, cap), cap)
  BY <1>1, <1>2, A64EmitRelContract, A64EmitAbsContract DEF A64RelocateBranch
<1>4. Contract("a64", Written(inst.size, {}, {Item("copy", 0, inst.size, 0, inst)}, cap), cap)
  BY <1>1, OneItemContract
<1> QED BY <1>3, <1>4, A64FieldContract DEF A64Relocate

-----------------------------------------------------------------------------
(***************************************************************************)
(* The operation table.                                                    *)
(***************************************************************************)

\* What the bytecode targets answer.
LEMMA VmRefusesContract ==
    ASSUME NEW m, NEW cap \in Nat
    PROVE  Contract(m, Refused("UNSUPPORTED_TARGET_OPERATION", 0), cap)
  BY RefusedKeepsContract DEF Statuses

\* Whatever the target, relocating an instruction keeps to the room it was
\* given and reports every register its code destroys.
THEOREM RelocateInstContract ==
    ASSUME NEW m \in Modes, NEW inst \in Inst, NEW raddr \in Int, NEW cap \in Nat
    PROVE  Contract(m, RelocateInst(m, inst, raddr, cap), cap)
<1>1. CASE m \in X86Modes
  BY <1>1, X86RelocateContract DEF RelocateInst
<1>2. CASE m = "a64"
  BY <1>2, A64RelocateContract DEF RelocateInst, X86Modes
<1>3. CASE m \in ArmModes
  BY <1>3, ArmRelocateContract DEF RelocateInst, X86Modes, ArmModes, VmModes
<1>4. CASE m \in VmModes
  BY <1>4, VmRefusesContract
     DEF RelocateInst, X86Modes, VmModes, VmRelocate, BpfRelocate, WasmRelocate
<1> QED BY <1>1, <1>2, <1>3, <1>4 DEF Modes, ArmModes

\* So do the targets' emitters.
LEMMA TargetEmitContract ==
    ASSUME NEW m \in Modes, NEW isCall \in BOOLEAN, NEW from \in Int, NEW to \in Int,
           NEW opts \in EmitOptions, NEW cap \in Nat
    PROVE  Contract(m, TargetEmit(m, isCall, from, to, opts, cap), cap)
<1>1. CASE m \in X86Modes
  BY <1>1, X86EmitContract DEF TargetEmit
<1>2. CASE m = "a64"
  BY <1>2, A64EmitContract DEF TargetEmit, X86Modes
<1>3. CASE m \in ArmModes
  BY <1>3, ArmEmitContract DEF TargetEmit, X86Modes, ArmModes, VmModes
<1>4. CASE m \in VmModes
  BY <1>4, VmRefusesContract DEF TargetEmit, X86Modes, VmModes, VmEmit, BpfEmit, WasmEmit
<1> QED BY <1>1, <1>2, <1>3, <1>4 DEF Modes, ArmModes

\* So do the public ones, also when they refuse what they have written.
THEOREM EmitTransferContract ==
    ASSUME NEW m \in Modes, NEW isCall \in BOOLEAN, NEW from \in Int, NEW to \in Int,
           NEW opts \in EmitOptions, NEW cap \in Nat
    PROVE  Accountable(m, EmitTransfer(m, isCall, from, to, opts, cap), cap)
<1> DEFINE r == TargetEmit(m, isCall, from, to, opts, cap)
<1>1. Contract(m, r, cap)
  BY TargetEmitContract
<1> HIDE DEF r
<1>2. Accountable(m, [r EXCEPT !.status = "FORBIDDEN_CLOBBER"], cap)
  BY <1>1 DEF Contract, Accountable, EmitResults, Statuses
<1>3. Accountable(m, EmitFinish(opts, r), cap)
  BY <1>1, <1>2 DEF EmitFinish, Contract
<1> QED BY <1>3 DEF r, EmitTransfer

\* An emission that succeeds destroys only what the caller's options allow.
LEMMA EmittedClobbersAllowed ==
    ASSUME NEW m, NEW isCall, NEW from, NEW to, NEW opts, NEW cap,
           opts.given, EmitTransfer(m, isCall, from, to, opts, cap).status = "OK"
    PROVE  EmitTransfer(m, isCall, from, to, opts, cap).clobbers \subseteq opts.allowed
  BY DEF EmitTransfer, EmitFinish, ClobbersAllowed

-----------------------------------------------------------------------------
(***************************************************************************)
(* Where emitted code leads.                                               *)
(***************************************************************************)

Sent(r) == {it \in r.code : it.at < r.size}

\* Some item within the size r reports, placed at `base', leads to `to'.
Aims(m, r, base, to) ==
    \E it \in Sent(r) : to \in Reaches(m, Sent(r), base, it)

DirectOps  == {"jump", "call", "cond", "ref"}
ThroughOps == {"jumpMem", "callMem", "load"}

\* An item that carries its displacement leads where that points, and one that
\* goes through a literal to what the literal holds.
LEMMA DirectAims ==
    ASSUME NEW m, NEW r, NEW base, NEW to, NEW it \in r.code, it.at < r.size,
           it.op \in DirectOps, Points(m, base + it.at, it) = to
    PROVE  Aims(m, r, base, to)
  BY DEF Aims, Sent, Reaches, DirectOps

\* A jump through a literal that lies in the same emission.
LEMMA ThroughAims ==
    ASSUME NEW m, NEW r, NEW base, NEW to, NEW it \in r.code, it.at < r.size,
           NEW d \in r.code, d.at < r.size,
           it.op \in ThroughOps, d.op = "data", d.disp = to,
           Points(m, base + it.at, it) = base + d.at
    PROVE  Aims(m, r, base, to)
<1>1. d \in Sent(r) /\ it \in Sent(r)
  BY DEF Sent
<1>2. to \in {x.disp : x \in {y \in Sent(r) : y.op = "data" /\ base + y.at = base + d.at}}
  BY <1>1
<1> QED BY <1>1, <1>2 DEF Aims, Reaches, ThroughOps

\* A sequence that is written is the sequence.
LEMMA WrittenAll ==
    ASSUME NEW size, NEW clobbers, NEW code, NEW cap,
           Written(size, clobbers, code, cap).status = "OK"
    PROVE  /\ Written(size, clobbers, code, cap).code = code
           /\ Written(size, clobbers, code, cap).size = size
  BY DEF Written

\* A refusal aims at nothing.
LEMMA RefusedNotOk ==
    ASSUME NEW size, NEW status, status # "OK"
    PROVE  Refused(status, size).status # "OK"
  BY DEF Refused

\* One direct item that fills the sequence.
LEMMA SingleItemAims ==
    ASSUME NEW m, NEW base \in Int, NEW to \in Int, NEW cap, NEW size \in Nat \ {0},
           NEW op \in DirectOps, NEW disp \in Int, NEW inst,
           Points(m, base, Item(op, 0, size, disp, inst)) = to,
           Written(size, {}, {Item(op, 0, size, disp, inst)}, cap).status = "OK"
    PROVE  Aims(m, Written(size, {}, {Item(op, 0, size, disp, inst)}, cap), base, to)
<1> DEFINE it == Item(op, 0, size, disp, inst)
           r  == Written(size, {}, {it}, cap)
<1>1. r.code = {it} /\ r.size = size
  BY WrittenAll
<1>2. it.op = op /\ it.at = 0
  BY DEF Item
<1>3. Points(m, base + it.at, it) = to
  <2>1. base + 0 = base
    OBVIOUS
  <2> QED BY <1>2, <2>1
<1> HIDE DEF it, r
<1>4. it \in r.code /\ it.at < r.size
  BY <1>1, <1>2
<1>5. Aims(m, r, base, to)
  BY <1>2, <1>3, <1>4, DirectAims
<1> QED BY <1>5 DEF it, r

-----------------------------------------------------------------------------

\* x86: the relative jump or call.
LEMMA X86EmitRelAims ==
    ASSUME NEW m \in X86Modes, NEW isCall, NEW from \in Int, NEW to \in Int, NEW cap,
           X86EmitRel(m, isCall, from, to, cap).status = "OK"
    PROVE  Aims(m, X86EmitRel(m, isCall, from, to, cap), from, to)
<1> DEFINE n    == X86DirectSize(m)
           disp == to - (from + n)
           op   == IF isCall THEN "call" ELSE "jump"
           it   == Item(op, 0, n, disp, NoInst)
           r    == Written(n, {}, {it}, cap)
<1>1. X86EmitRel(m, isCall, from, to, cap) = r
  BY RefusedNotOk DEF X86EmitRel
<1>2. n \in Nat \ {0} /\ disp \in Int
  BY DEF X86DirectSize
<1>3. op \in DirectOps /\ op # "cond"
  BY DEF DirectOps
<1>4. Points(m, from, it) = to
  <2>1. it.len = n /\ it.disp = disp /\ it.op = op
    BY DEF Item
  <2>2. m # "a64" /\ m # "a32" /\ m # "thumb"
    BY DEF X86Modes
  <2>3. FetchedLen(m, it) = n
    BY <1>3, <2>1 DEF FetchedLen
  <2>4. Points(m, from, it) = from + n + disp
    BY <2>1, <2>2, <2>3 DEF Points
  <2> QED
    <3> HIDE DEF n, it
    <3> QED BY <1>2, <2>4
<1> HIDE DEF n, disp, op
<1> QED BY <1>1, <1>2, <1>3, <1>4, SingleItemAims

\* The absolute form at offset `at' of a longer sequence.
LEMMA X86AbsCodeAims ==
    ASSUME NEW isCall, NEW to \in Int, NEW at \in Nat, NEW base \in Int,
           NEW r, X86AbsCode(isCall, to, at) \subseteq r.code, r.size = at + 14
    PROVE  Aims("x86_64", r, base, to)
<1> DEFINE op == IF isCall THEN "callMem" ELSE "jumpMem"
           a  == Item(op, at, 6, 0, NoInst)
           d  == Item("data", at + 6, 8, to, NoInst)
<1>1. op \in ThroughOps /\ op # "cond"
  BY DEF ThroughOps
<1>2. a.op = op /\ a.at = at /\ a.len = 6 /\ a.disp = 0
  BY DEF Item
<1>3. d.op = "data" /\ d.at = at + 6 /\ d.disp = to
  BY DEF Item
<1>4. a \in r.code /\ d \in r.code
  BY DEF X86AbsCode
<1> HIDE DEF a, d, op
<1>5. Points("x86_64", base + a.at, a) = base + d.at
  BY <1>1, <1>2, <1>3 DEF Points, FetchedLen
<1>6. a.at < r.size /\ d.at < r.size
  BY <1>2, <1>3
<1> QED BY <1>1, <1>2, <1>3, <1>4, <1>5, <1>6, ThroughAims

\* The absolute sequence of x86-64 loads the literal it writes.
LEMMA X86EmitAbsAims ==
    ASSUME NEW isCall, NEW base \in Int, NEW to \in Int, NEW cap,
           X86EmitAbs(isCall, to, cap).status = "OK"
    PROVE  Aims("x86_64", X86EmitAbs(isCall, to, cap), base, to)
<1> DEFINE r == X86EmitAbs(isCall, to, cap)
<1>1. r.code = X86AbsCode(isCall, to, 0) /\ r.size = 0 + 14
  BY WrittenAll DEF X86EmitAbs
<1> HIDE DEF r
<1>2. Aims("x86_64", r, base, to)
  BY <1>1, X86AbsCodeAims
<1> QED BY <1>2 DEF r

\* A choice between a direct and an absolute form leads where both do.
LEMMA EmitAnyAims ==
    ASSUME NEW m, NEW base, NEW to, NEW direct, NEW bmode, NEW otherwise,
           direct.status = "OK" => Aims(m, direct, base, to),
           otherwise.status = "OK" => Aims(m, otherwise, base, to),
           EmitAny(direct, bmode, otherwise).status = "OK"
    PROVE  Aims(m, EmitAny(direct, bmode, otherwise), base, to)
  BY DEF EmitAny

\* emit_jump and emit_call.
LEMMA X86EmitAims ==
    ASSUME NEW m \in X86Modes, NEW isCall, NEW from \in Int, NEW to \in Int,
           NEW bmode, NEW cap, X86Emit(m, isCall, from, to, bmode, cap).status = "OK"
    PROVE  Aims(m, X86Emit(m, isCall, from, to, bmode, cap), from, to)
<1> DEFINE direct    == X86EmitRel(m, isCall, from, to, cap)
           otherwise == IF m # "x86_64" THEN Refused("BRANCH_OUT_OF_RANGE", 0)
                        ELSE X86EmitAbs(isCall, to, cap)
<1>1. direct.status = "OK" => Aims(m, direct, from, to)
  BY X86EmitRelAims
<1>2. otherwise.status = "OK" => Aims(m, otherwise, from, to)
  BY X86EmitAbsAims, RefusedNotOk
<1>3. X86Emit(m, isCall, from, to, bmode, cap) = EmitAny(direct, bmode, otherwise)
  BY DEF X86Emit
<1> HIDE DEF direct, otherwise
<1> QED BY <1>1, <1>2, <1>3, EmitAnyAims

\* A moved branch or call.
LEMMA X86BranchAims ==
    ASSUME NEW m \in X86Modes, NEW inst \in Inst, NEW raddr \in Int, NEW cap,
           X86RelocateBranch(m, inst, raddr, cap).status = "OK"
    PROVE  Aims(m, X86RelocateBranch(m, inst, raddr, cap), raddr, inst.target)
<1> DEFINE isCall == inst.cls = "directCall"
<1>1. inst.target \in Int
  BY DEF Inst
<1>2. Refused("UNSUPPORTED_RELOCATION", 0).status # "OK"
  BY RefusedNotOk
<1> QED BY <1>1, <1>2, X86EmitRelAims, X86EmitAbsAims DEF X86RelocateBranch

\* A moved conditional jump; in 16-bit code its displacement is misread.
LEMMA X86CondAims ==
    ASSUME NEW m \in X86Modes \ {"x86_16"}, NEW inst \in Inst, NEW raddr \in Int, NEW cap,
           X86RelocateCond(m, inst, raddr, cap).status = "OK"
    PROVE  Aims(m, X86RelocateCond(m, inst, raddr, cap), raddr, inst.target)
<1> DEFINE to   == inst.target
           disp == to - (raddr + 6)
           near == Item("cond", 0, 6, disp, inst)
           jcc  == X86EmitJcc(inst, raddr, to, cap)
           far  == X86ExpandJcc(inst, to, cap)
<1>1. to \in Int /\ disp \in Int
  BY DEF Inst
<1>2. ASSUME jcc.status = "OK"
      PROVE  Aims(m, jcc, raddr, to)
  <2>1. jcc = Written(6, {}, {near}, cap)
    BY <1>2, RefusedNotOk DEF X86EmitJcc
  <2>2. Points(m, raddr, near) = to
    <3>1. near.len = 6 /\ near.disp = disp
      BY DEF Item
    <3>2. Points(m, raddr, near) = raddr + 6 + disp
      BY <3>1 DEF X86Modes, Points, FetchedLen
    <3> HIDE DEF near, to
    <3> QED BY <1>1, <3>2
  <2>3. "cond" \in DirectOps
    BY DEF DirectOps
  <2> HIDE DEF jcc, disp, to
  <2> QED BY <1>1, <1>2, <2>1, <2>2, <2>3, SingleItemAims
<1>3. ASSUME far.status = "OK", m = "x86_64"
      PROVE  Aims(m, far, raddr, to)
  <2>1. far.size = 2 + 14 /\ X86AbsCode(FALSE, to, 2) \subseteq far.code
    <3> DEFINE all == {Item("skip", 0, 2, 14, inst)} \cup X86AbsCode(FALSE, to, 2)
               w   == Written(16, {}, all, cap)
    <3>1. far = w
      BY DEF X86ExpandJcc
    <3>2. w.status = "OK" => w.size = 16 /\ w.code = all
      <4> HIDE DEF all
      <4> QED BY WrittenAll
    <3>3. X86AbsCode(FALSE, to, 2) \subseteq all
      BY Zenon
    <3> HIDE DEF far, w, all
    <3>4. far.size = 16 /\ X86AbsCode(FALSE, to, 2) \subseteq far.code
      BY <1>3, <3>1, <3>2, <3>3
    <3>5. 16 = 2 + 14
      OBVIOUS
    <3> QED BY <3>4, <3>5
  <2> HIDE DEF far, to
  <2> QED BY <1>1, <1>3, <2>1, X86AbsCodeAims
<1>4. Refused("UNSUPPORTED_RELOCATION", 0).status # "OK"
  BY RefusedNotOk
<1> QED BY <1>2, <1>3, <1>4 DEF X86RelocateCond

\* A rewritten displacement.
LEMMA X86RipAims ==
    ASSUME NEW m \in X86Modes, NEW inst \in Inst, NEW raddr \in Int, NEW cap,
           inst.enc # "misread",
           X86RelocateRip(inst, raddr, cap).status = "OK"
    PROVE  Aims(m, X86RelocateRip(inst, raddr, cap), raddr, inst.target)
<1> DEFINE n    == inst.size
           disp == inst.target - (raddr + n)
           it   == Item("ref", 0, n, disp, inst)
<1>1. inst.target \in Int /\ n \in Nat \ {0} /\ disp \in Int
  BY DEF Inst, MaxInstBytes
<1>2. X86RelocateRip(inst, raddr, cap) = Written(n, {}, {it}, cap)
  BY RefusedNotOk DEF X86RelocateRip, RipOp
<1>3. Points(m, raddr, it) = inst.target
  <2>1. it.len = n /\ it.disp = disp /\ it.op = "ref"
    BY DEF Item
  <2>2. Points(m, raddr, it) = raddr + n + disp
    BY <2>1 DEF X86Modes, Points, FetchedLen
  <2> HIDE DEF n, it
  <2> QED BY <1>1, <2>2
<1>4. "ref" \in DirectOps
  BY DEF DirectOps
<1> HIDE DEF n, disp
<1> QED BY <1>1, <1>2, <1>3, <1>4, SingleItemAims

\* Every x86 instruction with a PC-relative operand.
LEMMA X86RelocateAims ==
    ASSUME NEW m \in X86Modes, NEW inst \in Inst, NEW raddr \in Int, NEW cap,
           inst.pcrel, inst.operand, ~(m = "x86_16" /\ inst.cls = "condBranch"),
           inst.enc # "misread",
           X86Relocate(m, inst, raddr, cap).status = "OK"
    PROVE  Aims(m, X86Relocate(m, inst, raddr, cap), raddr, inst.target)
<1>1. CASE inst.cls \in {"directCall", "directBranch"}
  BY <1>1, X86BranchAims DEF X86Relocate
<1>2. CASE inst.cls = "condBranch"
  BY <1>2, X86CondAims DEF X86Relocate
<1>3. CASE inst.cls \notin {"directCall", "directBranch", "condBranch"}
  BY <1>3, X86RipAims DEF X86Relocate
<1> QED BY <1>1, <1>2, <1>3

-----------------------------------------------------------------------------

\* ARM: the relative branch of both modes.
LEMMA ArmEmitRelAims ==
    ASSUME NEW m \in ArmModes, NEW isCall, NEW from \in Int, NEW to \in Int, NEW cap,
           ArmEmitRel(m, isCall, from, to, cap).status = "OK"
    PROVE  Aims(m, ArmEmitRel(m, isCall, from, to, cap), from, to)
<1> DEFINE n    == IF m = "a32" THEN 4 ELSE 2
           disp == to - (from + 2 * n)
           op   == IF isCall THEN "call" ELSE "jump"
           it   == Item(op, 0, n, disp, NoInst)
<1>1. n \in Nat \ {0} /\ disp \in Int
  OBVIOUS
<1>2. op \in DirectOps
  BY DEF DirectOps
<1>3. ArmEmitRel(m, isCall, from, to, cap) = Written(n, {}, {it}, cap)
  <2>1. disp = IF m = "a32" THEN to - (from + 8) ELSE to - (from + 4)
    OBVIOUS
  <2>2. \A k : Refused("BRANCH_OUT_OF_RANGE", k).status # "OK"
    BY RefusedNotOk
  <2>3. CASE m = "a32"
    BY <2>1, <2>2, <2>3 DEF ArmEmitRel
  <2>4. CASE m # "a32"
    BY <2>1, <2>2, <2>4 DEF ArmEmitRel
  <2> QED BY <2>3, <2>4
<1>4. Points(m, from, it) = to
  <2>1. it.disp = disp
    BY DEF Item
  <2>2. Points(m, from, it) = from + 2 * n + disp
    BY <2>1 DEF Points, ArmModes
  <2> HIDE DEF n, it
  <2> QED BY <1>1, <2>2
<1> HIDE DEF n, disp, op
<1> QED BY <1>1, <1>2, <1>3, <1>4, SingleItemAims

\* The literal jump of A32.
LEMMA ArmEmitAbsAims ==
    ASSUME NEW isCall, ~isCall, NEW base \in Int, NEW to \in Int, NEW cap,
           ArmEmitAbsA32(isCall, to, cap).status = "OK"
    PROVE  Aims("a32", ArmEmitAbsA32(isCall, to, cap), base, to)
<1> DEFINE a == Item("jumpMem", 0, 4, -4, NoInst)
           d == Item("data", 4, 4, to, NoInst)
           r == Written(8, {}, {a, d}, cap)
<1>1. ArmEmitAbsA32(isCall, to, cap) = r
  BY DEF ArmEmitAbsA32
<1>2. r.code = {a, d} /\ r.size = 8
  <2> HIDE DEF a, d
  <2> QED BY <1>1, WrittenAll
<1>3. a.op = "jumpMem" /\ a.at = 0 /\ a.disp = -4
  BY DEF Item
<1>4. d.op = "data" /\ d.at = 4 /\ d.disp = to
  BY DEF Item
<1> HIDE DEF a, d, r
<1>5. Points("a32", base + a.at, a) = base + d.at
  BY <1>3, <1>4 DEF Points
<1>6. "jumpMem" \in ThroughOps
  BY DEF ThroughOps
<1>7. a \in r.code /\ d \in r.code /\ a.at < r.size /\ d.at < r.size
  BY <1>2, <1>3, <1>4
<1>8. Aims("a32", r, base, to)
  BY <1>3, <1>4, <1>5, <1>6, <1>7, ThroughAims
<1> QED BY <1>1, <1>8

\* emit_jump.
LEMMA ArmEmitAims ==
    ASSUME NEW m \in ArmModes, NEW isCall, ~isCall, NEW from \in Int, NEW to \in Int,
           NEW bmode, NEW cap, ArmEmit(m, isCall, from, to, bmode, cap).status = "OK"
    PROVE  Aims(m, ArmEmit(m, isCall, from, to, bmode, cap), from, to)
<1> DEFINE direct    == ArmEmitRel(m, isCall, from, to, cap)
           otherwise == IF m = "a32" THEN ArmEmitAbsA32(isCall, to, cap)
                        ELSE Refused("BRANCH_OUT_OF_RANGE", 0)
<1>1. direct.status = "OK" => Aims(m, direct, from, to)
  BY ArmEmitRelAims
<1>2. otherwise.status = "OK" => Aims(m, otherwise, from, to)
  BY ArmEmitAbsAims, RefusedNotOk
<1>3. ArmEmit(m, isCall, from, to, bmode, cap) = EmitAny(direct, bmode, otherwise)
  BY DEF ArmEmit
<1> HIDE DEF direct, otherwise
<1> QED BY <1>1, <1>2, <1>3, EmitAnyAims

\* Every ARM instruction with a PC-relative operand, except the call through ip,
\* which loads the word after its literal.
LEMMA ArmRelocateAims ==
    ASSUME NEW m \in ArmModes, NEW inst \in Inst, NEW raddr \in Int, NEW cap,
           inst.pcrel, ArmRelocate(m, inst, raddr, cap).status = "OK",
           ~(/\ m = "a32" /\ inst.cls = "directCall"
             /\ ArmRelocate(m, inst, raddr, cap).size = 12)
    PROVE  Aims(m, ArmRelocate(m, inst, raddr, cap), raddr, inst.target)
<1> DEFINE isCall == inst.cls = "directCall"
           direct == ArmEmitRel(m, isCall, raddr, inst.target, cap)
           far    == ArmEmitAbsA32(isCall, inst.target, cap)
<1>1. inst.target \in Int
  BY DEF Inst
<1>2. ArmRelocate(m, inst, raddr, cap) = ArmRelocateBranch(m, inst, raddr, cap)
  BY RefusedNotOk DEF ArmRelocate
<1>3. direct.status = "OK" => Aims(m, direct, raddr, inst.target)
  BY <1>1, ArmEmitRelAims
<1>4. ASSUME m = "a32", far.status = "OK", far.size # 12 \/ ~isCall
      PROVE  Aims(m, far, raddr, inst.target)
  <2>1. isCall => far.size = 12
    BY <1>4 DEF ArmEmitAbsA32, Written
  <2> QED BY <1>1, <1>4, <2>1, ArmEmitAbsAims
<1>5. ArmRelocateBranch(m, inst, raddr, cap) =
        IF direct.status \in Settled \/ m # "a32" THEN direct ELSE far
  BY DEF ArmRelocateBranch
<1> HIDE DEF direct, far
<1> QED BY <1>2, <1>3, <1>4, <1>5

-----------------------------------------------------------------------------

\* AArch64: the relative branch.
LEMMA A64EmitRelAims ==
    ASSUME NEW isCall, NEW from \in Int, NEW to \in Int, NEW cap,
           A64EmitRel(isCall, from, to, cap).status = "OK"
    PROVE  Aims("a64", A64EmitRel(isCall, from, to, cap), from, to)
<1> DEFINE op == IF isCall THEN "call" ELSE "jump"
           it == Item(op, 0, 4, to - from, NoInst)
<1>1. A64EmitRel(isCall, from, to, cap) = Written(4, {}, {it}, cap)
  BY RefusedNotOk DEF A64EmitRel
<1>2. op \in DirectOps /\ op # "ref"
  BY DEF DirectOps
<1>3. Points("a64", from, it) = to
  <2>1. it.disp = to - from /\ it.op # "ref"
    BY <1>2 DEF Item
  <2>2. Points("a64", from, it) = from + (to - from)
    BY <2>1 DEF Points
  <2> HIDE DEF it
  <2> QED BY <2>2
<1> HIDE DEF op
<1> QED BY <1>1, <1>2, <1>3, SingleItemAims

\* The branch through x16, at offset `at' of a longer sequence.
LEMMA A64AbsCodeAims ==
    ASSUME NEW isCall, NEW to \in Int, NEW at \in Nat, NEW base \in Int,
           NEW r, A64AbsCode(isCall, to, at) \subseteq r.code, r.size = at + 16
    PROVE  Aims("a64", r, base, to)
<1> DEFINE a == Item("load", at, 4, 8, NoInst)
           d == Item("data", at + 8, 8, to, NoInst)
<1>1. a.op = "load" /\ a.at = at /\ a.disp = 8
  BY DEF Item
<1>2. d.op = "data" /\ d.at = at + 8 /\ d.disp = to
  BY DEF Item
<1>3. a \in r.code /\ d \in r.code
  BY DEF A64AbsCode
<1> HIDE DEF a, d
<1>4. Points("a64", base + a.at, a) = base + d.at
  BY <1>1, <1>2 DEF Points
<1>5. a.at < r.size /\ d.at < r.size /\ a.op \in ThroughOps
  BY <1>1, <1>2 DEF ThroughOps
<1> QED BY <1>1, <1>2, <1>3, <1>4, <1>5, ThroughAims

\* The absolute sequence of AArch64 loads the literal it writes.
LEMMA A64EmitAbsAims ==
    ASSUME NEW isCall, NEW base \in Int, NEW to \in Int, NEW cap,
           A64EmitAbs(isCall, to, cap).status = "OK"
    PROVE  Aims("a64", A64EmitAbs(isCall, to, cap), base, to)
<1> DEFINE r == A64EmitAbs(isCall, to, cap)
<1>1. r.code = A64AbsCode(isCall, to, 0) /\ r.size = 0 + 16
  BY WrittenAll DEF A64EmitAbs
<1> HIDE DEF r
<1>2. Aims("a64", r, base, to)
  BY <1>1, A64AbsCodeAims
<1> QED BY <1>2 DEF r

\* emit_jump and emit_call.
LEMMA A64EmitAims ==
    ASSUME NEW isCall, NEW from \in Int, NEW to \in Int, NEW bmode, NEW given,
           NEW allowed, NEW cap,
           A64Emit(isCall, from, to, bmode, given, allowed, cap).status = "OK"
    PROVE  Aims("a64", A64Emit(isCall, from, to, bmode, given, allowed, cap), from, to)
<1> DEFINE direct    == A64EmitRel(isCall, from, to, cap)
           otherwise == IF \/ bmode = "PREFER_CLOBBERLESS"
                           \/ given /\ bmode = "ALLOW_SCRATCH" /\ "x16" \notin allowed
                        THEN Refused("FORBIDDEN_CLOBBER", 4)
                        ELSE A64EmitAbs(isCall, to, cap)
<1>1. direct.status = "OK" => Aims("a64", direct, from, to)
  BY A64EmitRelAims
<1>2. otherwise.status = "OK" => Aims("a64", otherwise, from, to)
  BY A64EmitAbsAims, RefusedNotOk
<1>3. A64Emit(isCall, from, to, bmode, given, allowed, cap)
        = EmitAny(direct, bmode, otherwise)
  BY DEF A64Emit
<1> HIDE DEF direct, otherwise
<1> QED BY <1>1, <1>2, <1>3, EmitAnyAims

\* The inverted condition hops over a branch to the target.
LEMMA A64ExpandAims ==
    ASSUME NEW inst, NEW base \in Int, NEW to \in Int, NEW cap,
           A64ExpandCond(inst, to, cap).status = "OK"
    PROVE  Aims("a64", A64ExpandCond(inst, to, cap), base, to)
<1> DEFINE r   == A64ExpandCond(inst, to, cap)
           all == {Item("skip", 0, 4, 20, inst)} \cup A64AbsCode(FALSE, to, 4)
           w   == Written(20, {"x16"}, all, cap)
<1>1. r = w
  BY DEF A64ExpandCond
<1>2. w.status = "OK" => w.size = 20 /\ w.code = all
  <2> HIDE DEF all
  <2> QED BY WrittenAll
<1>3. A64AbsCode(FALSE, to, 4) \subseteq all
  BY Zenon
<1> HIDE DEF all, w
<1>4. r.size = 20 /\ A64AbsCode(FALSE, to, 4) \subseteq r.code
  BY <1>1, <1>2, <1>3
<1> HIDE DEF r
<1>5. r.size = 4 + 16
  BY <1>4
<1>6. Aims("a64", r, base, to)
  BY <1>4, <1>5, A64AbsCodeAims
<1> QED BY <1>6 DEF r

\* A displacement of whole words survives the loss of its two low bits, and one
\* between page numbers finds the page again.
LEMMA WholeWords ==
    ASSUME NEW d \in Int, d % 4 = 0
    PROVE  4 * (d \div 4) = d
  OBVIOUS

\* A page counted from the page of an address.
LEMMA WholePages ==
    ASSUME NEW a \in Int, NEW to \in Int, to % PageSize = 0
    PROVE  a - (a % 4096) + 4096 * ((PageOf(to) - PageOf(a)) \div PageSize) = to
  BY DEF PageOf, PageSize

\* A rewritten immediate field.
LEMMA A64FieldAims ==
    ASSUME NEW inst \in Inst, NEW raddr \in Int, NEW cap,
           inst.enc \in A64Conditionals \cup {"literal"} => (inst.target - raddr) % 4 = 0,
           inst.enc = "adrp" => inst.target % PageSize = 0,
           A64RelocateField(inst, raddr, cap).status = "OK"
    PROVE  Aims("a64", A64RelocateField(inst, raddr, cap), raddr, inst.target)
<1> DEFINE to    == inst.target
           pages == (PageOf(to) - PageOf(raddr)) \div PageSize
           disp  == IF inst.enc = "adrp" THEN pages ELSE to - raddr
           field == A64Field(inst, disp)
           op    == IF inst.enc \in A64Conditionals THEN "cond" ELSE "ref"
           it    == Item(op, 0, 4, field, inst)
           r     == A64RelocateField(inst, raddr, cap)
           far   == A64ExpandCond(inst, to, cap)
<1>1. to \in Int
  BY DEF Inst
<1>2. op \in DirectOps
  BY DEF DirectOps
<1>3. pages \in Int /\ disp \in Int
  <2>1. pages \in Int
    <3> HIDE DEF to
    <3> QED BY <1>1 DEF PageOf, PageSize
  <2> HIDE DEF pages, to
  <2> QED BY <1>1, <2>1
<1>4. field \in Int
  <2> HIDE DEF disp
  <2> QED BY <1>3, A64FieldType
<1>5. far.status = "OK" => Aims("a64", far, raddr, to)
  BY <1>1, A64ExpandAims
<1>6. \/ r = far
      \/ /\ inst.enc \in A64Conditionals \cup {"literal", "adr", "adrp"}
         /\ r = Written(4, {}, {it}, cap)
  BY RefusedNotOk DEF A64RelocateField
<1>7. ASSUME inst.enc \in A64Conditionals \cup {"literal", "adr", "adrp"}
      PROVE  Points("a64", raddr, it) = to
  <2>1. it.disp = field /\ it.op = op /\ it.inst = inst
    BY DEF Item
  <2>2. CASE inst.enc \in A64Conditionals \cup {"literal"}
    <3>1. inst.enc # "adrp" /\ disp = to - raddr /\ field = 4 * ((to - raddr) \div 4)
      BY <2>2 DEF A64Field, A64Conditionals
    <3>2. field = to - raddr
      BY <1>1, <2>2, <3>1, WholeWords
    <3>3. Points("a64", raddr, it) = raddr + field
      BY <2>1, <3>1 DEF Points
    <3> HIDE DEF it, field, to
    <3> QED BY <1>1, <3>2, <3>3
  <2>3. CASE inst.enc = "adr"
    <3>1. field = to - raddr /\ Points("a64", raddr, it) = raddr + field
      BY <2>1, <2>3 DEF A64Field, A64Conditionals, Points
    <3> HIDE DEF it, field, to
    <3> QED BY <1>1, <3>1
  <2>4. CASE inst.enc = "adrp"
    <3>1. op = "ref" /\ field = pages
      BY <2>4 DEF A64Field, A64Conditionals
    <3>2. Points("a64", raddr, it) = raddr - (raddr % 4096) + 4096 * pages
      BY <2>1, <2>4, <3>1 DEF Points
    <3> QED BY <1>1, <2>4, <3>2, WholePages
  <2> QED BY <1>7, <2>2, <2>3, <2>4
<1> HIDE DEF op, field, far, r, to
<1>8. CASE r = far
  <2>1. r.status = "OK"
    BY DEF r
  <2>2. Aims("a64", r, raddr, to)
    BY <1>5, <1>8, <2>1
  <2> QED BY <2>2 DEF r, to
<1>9. CASE /\ inst.enc \in A64Conditionals \cup {"literal", "adr", "adrp"}
           /\ r = Written(4, {}, {it}, cap)
  <2>1. r.status = "OK"
    BY DEF r
  <2>2. 4 \in Nat \ {0}
    OBVIOUS
  <2>3. Aims("a64", r, raddr, to)
    BY <1>1, <1>2, <1>4, <1>7, <1>9, <2>1, <2>2, SingleItemAims
  <2> QED BY <2>3 DEF r, to
<1> QED BY <1>6, <1>8, <1>9

\* Every AArch64 instruction with a PC-relative operand.
LEMMA A64RelocateAims ==
    ASSUME NEW inst \in Inst, NEW raddr \in Int, NEW cap,
           inst.pcrel, inst.operand,
           inst.enc \in A64Conditionals \cup {"literal"} => (inst.target - raddr) % 4 = 0,
           inst.enc = "adrp" => inst.target % PageSize = 0,
           A64Relocate(inst, raddr, cap).status = "OK"
    PROVE  Aims("a64", A64Relocate(inst, raddr, cap), raddr, inst.target)
<1> DEFINE isCall == inst.cls = "directCall"
           direct == A64EmitRel(isCall, raddr, inst.target, cap)
           far    == A64EmitAbs(isCall, inst.target, cap)
<1>1. inst.target \in Int
  BY DEF Inst
<1>2. CASE inst.enc = "b"
  <2>1. A64Relocate(inst, raddr, cap) =
          IF direct.status \in Settled THEN direct ELSE far
    BY <1>2 DEF A64Relocate, A64RelocateBranch
  <2>2. direct.status = "OK" => Aims("a64", direct, raddr, inst.target)
    BY <1>1, A64EmitRelAims
  <2>3. far.status = "OK" => Aims("a64", far, raddr, inst.target)
    BY <1>1, A64EmitAbsAims
  <2> HIDE DEF direct, far
  <2> QED BY <2>1, <2>2, <2>3
<1>3. CASE inst.enc # "b"
  BY <1>3, A64FieldAims DEF A64Relocate
<1> QED BY <1>2, <1>3

\* It is a whole number of words.
LEMMA A64RelocateWords ==
    ASSUME NEW inst \in Inst, inst.size = 4, NEW raddr, NEW cap,
           A64Relocate(inst, raddr, cap).status = "OK"
    PROVE  A64Relocate(inst, raddr, cap).size % 4 = 0
<1> DEFINE r == A64Relocate(inst, raddr, cap)
<1>1. r.size \in {4, 16, 20}
  BY DEF A64Relocate, A64RelocateBranch, A64RelocateField, A64EmitRel, A64EmitAbs,
         A64ExpandCond, Written, Refused
<1> HIDE DEF r
<1>2. r.size % 4 = 0
  BY <1>1
<1> QED BY <1>2 DEF r

-----------------------------------------------------------------------------

\* Whatever the target, an instruction with a PC-relative operand that is moved
\* still refers to its target, save for the two expansions that
\* miss it and for a RIP displacement that is looked for in the wrong place.
THEOREM RelocateInstAims ==
    ASSUME NEW m \in Modes, NEW inst \in Inst, NEW raddr \in Int, NEW cap,
           inst.pcrel, m \in X86Modes \cup {"a64"} => inst.operand,
           m = "a64" /\ inst.enc \in A64Conditionals \cup {"literal"} =>
               (inst.target - raddr) % 4 = 0,
           m = "a64" /\ inst.enc = "adrp" => inst.target % PageSize = 0,
           ~(m = "x86_16" /\ inst.cls = "condBranch"), inst.enc # "misread",
           ~(/\ m = "a32" /\ inst.cls = "directCall"
             /\ RelocateInst(m, inst, raddr, cap).size = 12),
           RelocateInst(m, inst, raddr, cap).status = "OK"
    PROVE  Aims(m, RelocateInst(m, inst, raddr, cap), raddr, inst.target)
<1>1. CASE m \in X86Modes
  BY <1>1, X86RelocateAims DEF RelocateInst
<1>2. CASE m = "a64"
  BY <1>2, A64RelocateAims DEF RelocateInst, X86Modes
<1>3. CASE m \in ArmModes
  BY <1>3, ArmRelocateAims DEF RelocateInst, X86Modes, ArmModes, VmModes
<1>4. CASE m \in VmModes
  BY <1>4 DEF RelocateInst, X86Modes, VmModes, VmRelocate, BpfRelocate, WasmRelocate, Refused
<1> QED BY <1>1, <1>2, <1>3, <1>4 DEF Modes, ArmModes

\* A jump that is emitted goes where it should.
THEOREM EmitJumpAims ==
    ASSUME NEW m \in Modes, NEW from \in Int, NEW to \in Int, NEW opts, NEW cap,
           EmitJump(m, from, to, opts, cap).status = "OK"
    PROVE  Aims(m, EmitJump(m, from, to, opts, cap), from, to)
<1> DEFINE r == TargetEmit(m, FALSE, from, to, opts, cap)
<1>1. EmitJump(m, from, to, opts, cap) = r /\ r.status = "OK"
  <2> HIDE DEF r
  <2>1. EmitFinish(opts, r).status = "OK" => EmitFinish(opts, r) = r
    BY DEF EmitFinish
  <2> QED BY <2>1 DEF EmitJump, EmitTransfer, r
<1>2. Aims(m, r, from, to)
  <2>1. CASE m \in X86Modes
    BY <1>1, <2>1, X86EmitAims DEF TargetEmit
  <2>2. CASE m = "a64"
    BY <1>1, <2>2, A64EmitAims DEF TargetEmit, X86Modes
  <2>3. CASE m \in ArmModes
    BY <1>1, <2>3, ArmEmitAims DEF TargetEmit, X86Modes, ArmModes, VmModes
  <2>4. CASE m \in VmModes
    BY <1>1, <2>4 DEF TargetEmit, X86Modes, VmModes, VmEmit, BpfEmit, WasmEmit, Refused
  <2> QED BY <2>1, <2>2, <2>3, <2>4 DEF Modes, ArmModes
<1> QED BY <1>1, <1>2
-----------------------------------------------------------------------------
(***************************************************************************)
(* What a processor makes of the code.  The code of an instruction `inst', *)
(* n bytes at offset `at' of the buffer at `base', is run from its first   *)
(* byte; it either does what `inst' does, at once, or gets by one or two   *)
(* steps through a literal to where `inst' goes.                           *)
(***************************************************************************)

\* One instruction that stands for `inst' and fills the code.
Stands(m, base, at, n, inst, it) ==
    /\ it.at = at
    /\ \/ it.op = "copy" /\ it.len = n /\ it.inst = inst /\ inst.does # "ref"
       \/ /\ it.op \in {"ref", "cond"} /\ FetchedLen(m, it) = n /\ it.inst = inst
          /\ Points(m, base + at, it) = inst.target
       \/ /\ it.op \in {"jump", "call"} /\ it.len = n /\ it.op = inst.does
          /\ Points(m, base + at, it) = inst.target

\* The inverted condition: past the code if it is met, else to what follows it.
Hops(m, code, base, at, n, inst, it) ==
    /\ it.op = "skip" /\ it.at = at /\ inst.does = "cond"
    /\ Points(m, base + at, it) = base + at + n
    /\ \E next \in code : /\ next.at = it.at + it.len /\ next.at < at + n
                          /\ next.op \in {"jumpMem", "load"}

\* Where `it' points lies a literal that holds `to'.
Locates(m, code, base, it, to) ==
    \E d \in code : /\ d.op = "data" /\ d.disp = to
                    /\ base + d.at = Points(m, base + it.at, it)

\* A jump or a load that finds the target in a literal; the load is followed by
\* the branch through its register.
Finds(m, code, base, at, n, inst, it) ==
    /\ it.op \in {"jumpMem", "load"}
    /\ inst.does = IF it.at = at THEN "jump" ELSE "cond"
    /\ Locates(m, code, base, it, inst.target)
    /\ it.op = "load" =>
          \E next \in code : /\ next.at = it.at + it.len /\ next.at < at + n
                             /\ next.op = "branchReg"

Through(at, inst, it) ==
    it.op = "branchReg" /\ at < it.at /\ inst.does \in {"jump", "cond"}

Runs(m, code, base, at, n, inst, it) ==
    \/ Stands(m, base, at, n, inst, it)
    \/ Hops(m, code, base, at, n, inst, it)
    \/ Finds(m, code, base, at, n, inst, it)
    \/ Through(at, inst, it)

Follows(m, code, base, at, n, inst) ==
    /\ n > 0
    /\ \E it \in code : it.at = at /\ Runs(m, code, base, at, n, inst, it)
    /\ \A it \in code : at <= it.at /\ it.at < at + n =>
          it.op = "data" \/ Runs(m, code, base, at, n, inst, it)

\* The known defects an instruction and its code can show.
Clean(m, inst, code) ==
    /\ m \in {"a32", "x86_16"} => inst.does # "cond"
    /\ inst.does = "ref" => inst.pcrel
    /\ \A it \in code : it.op \notin {"callMem", "callReg", "spoilt"}

\* What has been written, read back from the result.
LEMMA WrittenIs ==
    ASSUME NEW size, NEW clobbers, NEW code, NEW cap,
           NEW r, r = Written(size, clobbers, code, cap), r.status = "OK"
    PROVE  r.code = code /\ r.size = size
  BY WrittenAll

\* A copy does what it is a copy of, unless that refers to its own address.
LEMMA CopyFollows ==
    ASSUME NEW m, NEW base, NEW inst \in Inst, inst.does # "ref", NEW cap,
           NEW r, r = Written(inst.size, {}, {Item("copy", 0, inst.size, 0, inst)}, cap),
           r.status = "OK"
    PROVE  Follows(m, r.code, base, 0, r.size, inst)
<1> DEFINE it == Item("copy", 0, inst.size, 0, inst)
<1>1. r.code = {it} /\ r.size = inst.size
  BY WrittenAll
<1>2. it.op = "copy" /\ it.at = 0 /\ it.len = inst.size /\ it.inst = inst
  BY DEF Item
<1>3. inst.size > 0
  BY DEF Inst, MaxInstBytes
<1> HIDE DEF it
<1> QED BY <1>1, <1>2, <1>3 DEF Follows, Runs, Stands

\* A single item leads where its displacement points.
LEMMA AimsPoints ==
    ASSUME NEW m, NEW base, NEW to, NEW r, NEW it, r.code = {it}, it.op \in DirectOps,
           Aims(m, r, base, to)
    PROVE  Points(m, base + it.at, it) = to
  BY DEF Aims, Sent, Reaches, DirectOps

\* One that leads through a literal finds it in the same code.
LEMMA AimsFinds ==
    ASSUME NEW m, NEW base, NEW to, NEW r, NEW a \in r.code, a.op \in ThroughOps,
           \A it \in r.code : it = a \/ it.op \notin DirectOps \cup ThroughOps,
           Aims(m, r, base, to)
    PROVE  Locates(m, r.code, base, a, to)
<1>1. PICK it \in Sent(r) : to \in Reaches(m, Sent(r), base, it)
  BY DEF Aims
<1>2. it = a /\ it.op \notin DirectOps
  BY <1>1 DEF Sent, Reaches, DirectOps, ThroughOps
<1>3. to \in {d.disp : d \in {x \in Sent(r) : x.op = "data"
                                   /\ base + x.at = Points(m, base + a.at, a)}}
  BY <1>1, <1>2 DEF Reaches, DirectOps
<1> QED BY <1>3 DEF Sent, Locates

\* One relative branch, or one rewritten displacement.
LEMMA DirectFollows ==
    ASSUME NEW m, NEW base \in Int, NEW inst, NEW r, r.size \in Nat \ {0},
           NEW it, r.code = {it}, it.at = 0, Aims(m, r, base, inst.target),
           \/ it.op \in {"jump", "call"} /\ it.op = inst.does /\ it.len = r.size
           \/ it.op \in {"ref", "cond"} /\ it.inst = inst /\ FetchedLen(m, it) = r.size
    PROVE  Follows(m, r.code, base, 0, r.size, inst)
<1>1. it.op \in DirectOps
  BY DEF DirectOps
<1>2. Points(m, base + 0, it) = inst.target
  BY <1>1, AimsPoints
<1>3. Stands(m, base, 0, r.size, inst, it)
  BY <1>2 DEF Stands
<1> QED BY <1>3 DEF Follows, Runs, Stands

\* A jump or a load `a' that leads through a literal to the target, at the start
\* or behind an inverted condition, and for a load the branch that follows it.
FarForm(m, base, r, inst, a) ==
    /\ r.size > 0 /\ Aims(m, r, base, inst.target)
    /\ inst.does \in {"jump", "cond"}
    /\ a \in r.code /\ a.op \in {"jumpMem", "load"}
    /\ inst.does = IF a.at = 0 THEN "jump" ELSE "cond"
    /\ a.op = "load" =>
          \E next \in r.code : /\ next.at = a.at + a.len /\ next.at < 0 + r.size
                              /\ next.op = "branchReg"
    /\ \A it \in r.code :
          \/ it = a
          \/ it.op = "data"
          \/ it.op = "branchReg" /\ 0 < it.at
          \/ it.op = "skip" /\ Hops(m, r.code, base, 0, r.size, inst, it)
    /\ \E it \in r.code : it.at = 0 /\ (it = a \/ it.op = "skip")

\* Such a form follows the instruction.
LEMMA FarFollows ==
    ASSUME NEW m, NEW base, NEW inst, NEW r, NEW a, FarForm(m, base, r, inst, a)
    PROVE  Follows(m, r.code, base, 0, r.size, inst)
<1>1. /\ a.op \in ThroughOps
      /\ \A it \in r.code : it = a \/ it.op \notin DirectOps \cup ThroughOps
  BY DEF FarForm, DirectOps, ThroughOps
<1>2. Locates(m, r.code, base, a, inst.target)
  BY <1>1, AimsFinds DEF FarForm
<1>3. Finds(m, r.code, base, 0, r.size, inst, a)
  BY <1>2 DEF FarForm, Finds
<1>4. \A it \in r.code : it.op = "data" \/ Runs(m, r.code, base, 0, r.size, inst, it)
  BY <1>3 DEF FarForm, Runs, Through
<1>5. \E it \in r.code : it.at = 0 /\ Runs(m, r.code, base, 0, r.size, inst, it)
  BY <1>4 DEF FarForm
<1> QED BY <1>4, <1>5 DEF FarForm, Follows

\* What an emission for `inst' at `base' has to be.
Carries(m, r, base, inst) == Follows(m, r.code, base, 0, r.size, inst)

-----------------------------------------------------------------------------

\* x86: the relative jump or call.
LEMMA X86EmitRelCarries ==
    ASSUME NEW m \in X86Modes, NEW isCall \in BOOLEAN, NEW base \in Int, NEW inst,
           inst.target \in Int, inst.does = IF isCall THEN "call" ELSE "jump", NEW cap,
           X86EmitRel(m, isCall, base, inst.target, cap).status = "OK"
    PROVE  Carries(m, X86EmitRel(m, isCall, base, inst.target, cap), base, inst)
<1> DEFINE n    == X86DirectSize(m)
           op   == IF isCall THEN "call" ELSE "jump"
           it   == Item(op, 0, n, inst.target - (base + n), NoInst)
           r    == X86EmitRel(m, isCall, base, inst.target, cap)
<1>1. r = Written(n, {}, {it}, cap)
  BY RefusedNotOk DEF X86EmitRel
<1>2. n \in Nat \ {0}
  BY DEF X86DirectSize
<1>3. it.op = op /\ it.at = 0 /\ it.len = n
  BY DEF Item
<1>4. Aims(m, r, base, inst.target)
  BY X86EmitRelAims
<1>5. r.code = {it} /\ r.size = n
  <2>1. r.status = "OK"
    OBVIOUS
  <2> HIDE DEF r, n, it
  <2> QED BY <1>1, <2>1, WrittenAll
<1>6. op \in {"jump", "call"} /\ op = inst.does
  OBVIOUS
<1> HIDE DEF r, n, it, op
<1>7. Follows(m, r.code, base, 0, r.size, inst)
  BY <1>2, <1>3, <1>4, <1>5, <1>6, DirectFollows
<1> QED BY <1>7 DEF Carries, r

\* The jump through memory.
LEMMA X86EmitAbsCarries ==
    ASSUME NEW base \in Int, NEW inst, inst.target \in Int, inst.does = "jump", NEW cap,
           X86EmitAbs(FALSE, inst.target, cap).status = "OK"
    PROVE  Carries("x86_64", X86EmitAbs(FALSE, inst.target, cap), base, inst)
<1> DEFINE a == Item("jumpMem", 0, 6, 0, NoInst)
           d == Item("data", 0 + 6, 8, inst.target, NoInst)
           r == X86EmitAbs(FALSE, inst.target, cap)
<1>1. a.op = "jumpMem" /\ a.at = 0 /\ d.op = "data"
  BY DEF Item
<1>2. r.code = {a, d} /\ r.size = 14
  <2>1. r = Written(14, {}, {a, d}, cap) /\ r.status = "OK"
    BY DEF X86EmitAbs, X86AbsCode
  <2> HIDE DEF a, d, r
  <2> QED BY <2>1, WrittenAll
<1>3. Aims("x86_64", r, base, inst.target)
  BY X86EmitAbsAims
<1> HIDE DEF a, d, r
<1>4. r.size > 0 /\ a \in r.code
  BY <1>2
<1>5. FarForm("x86_64", base, r, inst, a)
  BY <1>1, <1>2, <1>3, <1>4 DEF FarForm
<1>6. Follows("x86_64", r.code, base, 0, r.size, inst)
  BY <1>5, FarFollows
<1> QED BY <1>6 DEF Carries, r

\* The inverted condition and the jump it hops over.
LEMMA X86ExpandCarries ==
    ASSUME NEW base \in Int, NEW inst, inst.target \in Int, inst.does = "cond", NEW cap,
           Aims("x86_64", X86ExpandJcc(inst, inst.target, cap), base, inst.target),
           X86ExpandJcc(inst, inst.target, cap).status = "OK"
    PROVE  Carries("x86_64", X86ExpandJcc(inst, inst.target, cap), base, inst)
<1> DEFINE s == Item("skip", 0, 2, 14, inst)
           a == Item("jumpMem", 2, 6, 0, NoInst)
           d == Item("data", 2 + 6, 8, inst.target, NoInst)
           r == X86ExpandJcc(inst, inst.target, cap)
<1>1. /\ s.op = "skip" /\ s.at = 0 /\ s.len = 2 /\ s.disp = 14
      /\ a.op = "jumpMem" /\ a.at = 2 /\ d.op = "data"
  BY DEF Item
<1>2. r.code = {s, a, d} /\ r.size = 16
  <2>1. {s} \cup X86AbsCode(FALSE, inst.target, 2) = {s, a, d}
    BY DEF X86AbsCode
  <2>2. r = Written(16, {}, {s, a, d}, cap) /\ r.status = "OK"
    BY <2>1 DEF X86ExpandJcc
  <2> HIDE DEF s, a, d, r
  <2> QED BY <2>2, WrittenAll
<1>3. Aims("x86_64", r, base, inst.target)
  OBVIOUS
<1> HIDE DEF s, a, d, r
<1>4. Points("x86_64", base + 0, s) = base + 0 + r.size
  BY <1>1, <1>2 DEF Points, FetchedLen
<1>5. Hops("x86_64", r.code, base, 0, r.size, inst, s)
  BY <1>1, <1>2, <1>4 DEF Hops
<1>6. r.size > 0 /\ a.at # 0
  BY <1>1, <1>2
<1>7. FarForm("x86_64", base, r, inst, a)
  BY <1>1, <1>2, <1>3, <1>5, <1>6 DEF FarForm
<1>8. Follows("x86_64", r.code, base, 0, r.size, inst)
  BY <1>7, FarFollows
<1> QED BY <1>8 DEF Carries, r

\* A moved branch or call, unless it takes the call through memory.
LEMMA X86BranchCarries ==
    ASSUME NEW m \in X86Modes, NEW inst \in Inst, NEW base \in Int, NEW cap,
           NEW r, r = X86RelocateBranch(m, inst, base, cap), r.status = "OK",
           inst.cls \in {"directBranch", "directCall"}, Honest(m, inst),
           Clean(m, inst, r.code)
    PROVE  Carries(m, r, base, inst)
<1> DEFINE isCall == inst.cls = "directCall"
           to     == inst.target
<1>1. to \in Int /\ isCall \in BOOLEAN
  BY DEF Inst
<1>2. inst.operand
  BY RefusedNotOk DEF X86RelocateBranch
<1>3. inst.does = IF isCall THEN "call" ELSE "jump"
  BY <1>2 DEF Honest, X86Modes
<1>4. \/ r = X86EmitRel(m, isCall, base, to, cap)
      \/ r = X86EmitAbs(isCall, to, cap) /\ m = "x86_64"
  BY RefusedNotOk DEF X86RelocateBranch
<1>5. CASE r = X86EmitRel(m, isCall, base, to, cap)
  <2>1. X86EmitRel(m, isCall, base, inst.target, cap).status = "OK"
    BY <1>5
  <2> HIDE DEF isCall
  <2>2. Carries(m, X86EmitRel(m, isCall, base, inst.target, cap), base, inst)
    BY <1>1, <1>3, <2>1, X86EmitRelCarries
  <2> QED BY <1>5, <2>2
<1>6. CASE r = X86EmitAbs(isCall, to, cap) /\ m = "x86_64"
  <2>1. ~isCall
    <3>1. SUFFICES ASSUME isCall PROVE FALSE
      OBVIOUS
    <3>2. r.code = X86AbsCode(TRUE, to, 0)
      <4> DEFINE code == X86AbsCode(TRUE, to, 0)
      <4>1. r = Written(14, {}, code, cap)
        BY <1>6, <3>1 DEF X86EmitAbs
      <4> HIDE DEF code
      <4>2. r.code = code
        BY <4>1, WrittenAll
      <4> QED BY <4>2 DEF code
    <3>3. Item("callMem", 0, 6, 0, NoInst) \in r.code
      BY <3>2 DEF X86AbsCode
    <3>4. Item("callMem", 0, 6, 0, NoInst).op = "callMem"
      BY DEF Item
    <3> QED BY <3>3, <3>4 DEF Clean
  <2>2. r = X86EmitAbs(FALSE, inst.target, cap) /\ inst.does = "jump"
    BY <1>3, <1>6, <2>1
  <2> QED BY <1>1, <1>6, <2>2, X86EmitAbsCarries
<1> QED BY <1>4, <1>5, <1>6

\* A moved conditional jump, outside 16-bit code.
LEMMA X86CondCarries ==
    ASSUME NEW m \in X86Modes, NEW inst \in Inst, NEW base \in Int, NEW cap,
           NEW r, r = X86RelocateCond(m, inst, base, cap), r.status = "OK",
           inst.cls = "condBranch", Honest(m, inst), Clean(m, inst, r.code)
    PROVE  Carries(m, r, base, inst)
<1> DEFINE to   == inst.target
           near == Item("cond", 0, 6, to - (base + 6), inst)
<1>1. to \in Int
  BY DEF Inst
<1>2. inst.operand
  BY RefusedNotOk DEF X86RelocateCond
<1>3. inst.does = "cond" /\ m # "x86_16"
  BY <1>2 DEF Honest, Clean
<1>4. Aims(m, r, base, to)
  BY <1>3, X86CondAims
<1>5. \/ r = Written(6, {}, {near}, cap)
      \/ r = X86ExpandJcc(inst, to, cap) /\ m = "x86_64"
  BY RefusedNotOk DEF X86RelocateCond, X86EmitJcc
<1>6. CASE r = Written(6, {}, {near}, cap)
  <2>1. near.op = "cond" /\ near.at = 0 /\ near.len = 6 /\ near.inst = inst
    BY DEF Item
  <2> HIDE DEF near, to
  <2>2. r.code = {near} /\ r.size = 6
    BY <1>6, WrittenAll
  <2>3. FetchedLen(m, near) = r.size /\ r.size \in Nat \ {0}
    BY <1>3, <2>1, <2>2 DEF FetchedLen
  <2>4. Follows(m, r.code, base, 0, r.size, inst)
    BY <1>4, <2>1, <2>2, <2>3, DirectFollows DEF to
  <2> QED BY <2>4 DEF Carries
<1>7. CASE r = X86ExpandJcc(inst, to, cap) /\ m = "x86_64"
  BY <1>1, <1>3, <1>4, <1>7, X86ExpandCarries
<1> QED BY <1>5, <1>6, <1>7

\* Every moved x86 instruction.
LEMMA X86RelocateCarries ==
    ASSUME NEW m \in X86Modes, NEW inst \in Inst, NEW base \in Int, NEW cap,
           NEW r, r = X86Relocate(m, inst, base, cap), r.status = "OK",
           inst.pcrel => inst.operand, Honest(m, inst), Clean(m, inst, r.code)
    PROVE  Carries(m, r, base, inst)
<1>1. CASE inst.cls \in {"directCall", "directBranch"}
  BY <1>1, X86BranchCarries DEF X86Relocate
<1>2. CASE inst.cls = "condBranch"
  BY <1>2, X86CondCarries DEF X86Relocate
<1>3. CASE /\ inst.cls \notin {"directCall", "directBranch", "condBranch"}
           /\ inst.pcrel /\ inst.operand
  <2> DEFINE n  == inst.size
             it == Item("ref", 0, n, inst.target - (base + n), inst)
  <2>1. r = X86RelocateRip(inst, base, cap)
    BY <1>3 DEF X86Relocate
  <2>2. inst.enc # "misread"
    <3> SUFFICES ASSUME inst.enc = "misread" PROVE FALSE
      OBVIOUS
    <3> DEFINE bad == Item("spoilt", 0, n, inst.target - (base + n), inst)
    <3>1. r = Written(n, {}, {bad}, cap)
      BY <2>1, RefusedNotOk DEF X86RelocateRip, RipOp
    <3>2. bad.op = "spoilt"
      BY DEF Item
    <3> HIDE DEF bad, n
    <3>3. bad \in r.code
      BY <3>1, WrittenAll
    <3> QED BY <3>2, <3>3 DEF Clean
  <2>3. r = Written(n, {}, {it}, cap)
    BY <2>2, <2>1, RefusedNotOk DEF X86RelocateRip, RipOp
  <2>4. Aims(m, r, base, inst.target)
    BY <2>2, <2>1, X86RipAims
  <2>5. n \in Nat \ {0}
    BY DEF Inst, MaxInstBytes
  <2>6. it.op = "ref" /\ it.at = 0 /\ it.len = n /\ it.inst = inst
    BY DEF Item
  <2> HIDE DEF it
  <2>7. r.code = {it} /\ r.size = n
    BY <2>3, WrittenAll
  <2>8. FetchedLen(m, it) = n
    BY <2>6 DEF FetchedLen
  <2>9. Follows(m, r.code, base, 0, r.size, inst)
    BY <2>4, <2>5, <2>6, <2>7, <2>8, DirectFollows
  <2> QED BY <2>9 DEF Carries
<1>4. CASE /\ inst.cls \notin {"directCall", "directBranch", "condBranch"}
           /\ ~(inst.pcrel /\ inst.operand)
  <2>1. r = Written(inst.size, {}, {Item("copy", 0, inst.size, 0, inst)}, cap)
    BY <1>4 DEF X86Relocate
  <2>2. inst.does # "ref"
    BY <1>4 DEF Clean
  <2> QED BY <2>1, <2>2, CopyFollows DEF Carries
<1> QED BY <1>1, <1>2, <1>3, <1>4

-----------------------------------------------------------------------------

\* ARM: the relative branch of both modes.
LEMMA ArmEmitRelCarries ==
    ASSUME NEW m \in ArmModes, NEW isCall \in BOOLEAN, NEW base \in Int, NEW inst,
           inst.target \in Int, inst.does = IF isCall THEN "call" ELSE "jump", NEW cap,
           NEW r, r = ArmEmitRel(m, isCall, base, inst.target, cap), r.status = "OK"
    PROVE  Carries(m, r, base, inst)
<1> DEFINE n    == IF m = "a32" THEN 4 ELSE 2
           disp == IF m = "a32" THEN inst.target - (base + 8) ELSE inst.target - (base + 4)
           op   == IF isCall THEN "call" ELSE "jump"
           it   == Item(op, 0, n, disp, NoInst)
<1>1. r = Written(n, {}, {it}, cap)
  BY RefusedNotOk DEF ArmEmitRel
<1>2. n \in Nat \ {0}
  OBVIOUS
<1>3. it.op = op /\ it.at = 0 /\ it.len = n
  BY DEF Item
<1>4. Aims(m, r, base, inst.target)
  BY ArmEmitRelAims
<1>5. op \in {"jump", "call"} /\ op = inst.does
  OBVIOUS
<1> HIDE DEF n, it, op
<1>6. r.code = {it} /\ r.size = n
  BY <1>1, WrittenAll
<1>7. Follows(m, r.code, base, 0, r.size, inst)
  BY <1>2, <1>3, <1>4, <1>5, <1>6, DirectFollows
<1> QED BY <1>7 DEF Carries

\* The literal jump of A32.
LEMMA ArmEmitAbsCarries ==
    ASSUME NEW base \in Int, NEW inst, inst.target \in Int, inst.does = "jump", NEW cap,
           NEW r, r = ArmEmitAbsA32(FALSE, inst.target, cap), r.status = "OK"
    PROVE  Carries("a32", r, base, inst)
<1> DEFINE a == Item("jumpMem", 0, 4, -4, NoInst)
           d == Item("data", 4, 4, inst.target, NoInst)
<1>1. a.op = "jumpMem" /\ a.at = 0 /\ d.op = "data"
  BY DEF Item
<1>2. r.code = {a, d} /\ r.size = 8
  <2> DEFINE code == {a, d}
  <2>1. r = Written(8, {}, code, cap) /\ r.status = "OK"
    BY DEF ArmEmitAbsA32
  <2> HIDE DEF code
  <2>2. r.code = code /\ r.size = 8
    BY ONLY <2>1, WrittenAll
  <2> QED BY <2>2 DEF code
<1>3. Aims("a32", r, base, inst.target)
  BY ArmEmitAbsAims
<1> HIDE DEF a, d
<1>4. FarForm("a32", base, r, inst, a)
  <2>1. r.size > 0 /\ a \in r.code
    BY ONLY <1>2
  <2> QED BY <1>1, <1>2, <1>3, <2>1 DEF FarForm
<1>5. Follows("a32", r.code, base, 0, r.size, inst)
  BY <1>4, FarFollows
<1> QED BY <1>5 DEF Carries

\* Every moved ARM instruction.
LEMMA ArmRelocateCarries ==
    ASSUME NEW m \in ArmModes, NEW inst \in Inst, NEW base \in Int, NEW cap,
           NEW r, r = ArmRelocate(m, inst, base, cap), r.status = "OK",
           inst.cls \in {"directBranch", "directCall"} => inst.operand,
           Honest(m, inst), Clean(m, inst, r.code)
    PROVE  Carries(m, r, base, inst)
<1> DEFINE isCall == inst.cls = "directCall"
           to     == inst.target
<1>1. to \in Int /\ isCall \in BOOLEAN
  BY DEF Inst
<1>2. CASE inst.cls \in {"directBranch", "directCall"}
  <2>1. inst.does = IF isCall THEN "call" ELSE "jump"
    BY <1>2 DEF Honest, Clean
  <2>2. \/ r = ArmEmitRel(m, isCall, base, to, cap)
        \/ r = ArmEmitAbsA32(isCall, to, cap) /\ m = "a32"
    BY <1>2 DEF ArmRelocate, ArmRelocateBranch
  <2>3. CASE r = ArmEmitRel(m, isCall, base, to, cap)
    <3> HIDE DEF isCall
    <3> QED BY <1>1, <2>1, <2>3, ArmEmitRelCarries
  <2>4. CASE r = ArmEmitAbsA32(isCall, to, cap) /\ m = "a32"
    <3>1. ~isCall
      <4>1. SUFFICES ASSUME isCall PROVE FALSE
        OBVIOUS
      <4> DEFINE blx  == Item("callReg", 4, 4, 0, NoInst)
                 code == {Item("load", 0, 4, 4, NoInst), blx, Item("data", 8, 4, to, NoInst)}
      <4>2. r = Written(12, {"ip"}, code, cap)
        BY <2>4, <4>1 DEF ArmEmitAbsA32
      <4>3. blx \in code /\ blx.op = "callReg"
        BY DEF Item
      <4> HIDE DEF code, blx
      <4>4. r.code = code
        BY <4>2, WrittenAll
      <4> QED BY <4>3, <4>4 DEF Clean
    <3>2. r = ArmEmitAbsA32(FALSE, to, cap) /\ inst.does = "jump"
      BY <2>1, <2>4, <3>1
    <3> QED BY <1>1, <2>4, <3>2, ArmEmitAbsCarries
  <2> QED BY <2>2, <2>3, <2>4
<1>3. CASE inst.cls \notin {"directBranch", "directCall"}
  <2>1. /\ r = Written(inst.size, {}, {Item("copy", 0, inst.size, 0, inst)}, cap)
        /\ ~inst.pcrel
    BY <1>3, RefusedNotOk DEF ArmRelocate
  <2>2. inst.does # "ref"
    BY <2>1 DEF Clean
  <2> QED BY <2>1, <2>2, CopyFollows DEF Carries
<1> QED BY <1>2, <1>3

-----------------------------------------------------------------------------

\* AArch64: the relative branch.
LEMMA A64EmitRelCarries ==
    ASSUME NEW isCall \in BOOLEAN, NEW base \in Int, NEW inst,
           inst.target \in Int, inst.does = IF isCall THEN "call" ELSE "jump", NEW cap,
           NEW r, r = A64EmitRel(isCall, base, inst.target, cap), r.status = "OK"
    PROVE  Carries("a64", r, base, inst)
<1> DEFINE op   == IF isCall THEN "call" ELSE "jump"
           it   == Item(op, 0, 4, inst.target - base, NoInst)
<1>1. r = Written(4, {}, {it}, cap)
  BY RefusedNotOk DEF A64EmitRel
<1>2. it.op = op /\ it.at = 0 /\ it.len = 4
  BY DEF Item
<1>3. Aims("a64", r, base, inst.target)
  BY A64EmitRelAims
<1>4. op \in {"jump", "call"} /\ op = inst.does
  OBVIOUS
<1> HIDE DEF it, op
<1>5. r.code = {it} /\ r.size = 4
  BY <1>1, WrittenAll
<1>6. r.size \in Nat \ {0}
  BY <1>5
<1>7. Follows("a64", r.code, base, 0, r.size, inst)
  BY <1>2, <1>3, <1>4, <1>5, <1>6, DirectFollows
<1> QED BY <1>7 DEF Carries

\* The jump through x16.
LEMMA A64EmitAbsCarries ==
    ASSUME NEW base \in Int, NEW inst, inst.target \in Int, inst.does = "jump", NEW cap,
           NEW r, r = A64EmitAbs(FALSE, inst.target, cap), r.status = "OK"
    PROVE  Carries("a64", r, base, inst)
<1> DEFINE a == Item("load", 0, 4, 8, NoInst)
           b == Item("branchReg", 0 + 4, 4, 0, NoInst)
           d == Item("data", 0 + 8, 8, inst.target, NoInst)
<1>1. /\ a.op = "load" /\ a.at = 0 /\ a.len = 4
      /\ b.op = "branchReg" /\ b.at = 4 /\ d.op = "data"
  BY DEF Item
<1>2. r.code = {a, b, d} /\ r.size = 16
  <2> DEFINE code == {a, b, d}
  <2>1. r = Written(16, {"x16"}, code, cap) /\ r.status = "OK"
    BY DEF A64EmitAbs, A64AbsCode
  <2> HIDE DEF code
  <2>2. r.code = code /\ r.size = 16
    BY ONLY <2>1, WrittenAll
  <2> QED BY <2>2 DEF code
<1>3. Aims("a64", r, base, inst.target)
  BY A64EmitAbsAims
<1> HIDE DEF a, b, d
<1>4. b.at = a.at + a.len /\ b.at < 0 + r.size /\ 0 < b.at /\ r.size > 0
  BY ONLY <1>1, <1>2
<1>5. FarForm("a64", base, r, inst, a)
  BY <1>1, <1>2, <1>3, <1>4 DEF FarForm
<1>6. Follows("a64", r.code, base, 0, r.size, inst)
  BY <1>5, FarFollows
<1> QED BY <1>6 DEF Carries

\* The inverted condition and the jump it hops over.
LEMMA A64ExpandCarries ==
    ASSUME NEW base \in Int, NEW inst, inst.target \in Int, inst.does = "cond", NEW cap,
           NEW r, r = A64ExpandCond(inst, inst.target, cap), r.status = "OK",
           Aims("a64", r, base, inst.target)
    PROVE  Carries("a64", r, base, inst)
<1> DEFINE s == Item("skip", 0, 4, 20, inst)
           a == Item("load", 4, 4, 8, NoInst)
           b == Item("branchReg", 4 + 4, 4, 0, NoInst)
           d == Item("data", 4 + 8, 8, inst.target, NoInst)
<1>1. /\ s.op = "skip" /\ s.at = 0 /\ s.len = 4 /\ s.disp = 20
      /\ a.op = "load" /\ a.at = 4 /\ a.len = 4
      /\ b.op = "branchReg" /\ b.at = 8 /\ d.op = "data"
  BY DEF Item
<1>2. r.code = {s, a, b, d} /\ r.size = 20
  <2>1. {s} \cup A64AbsCode(FALSE, inst.target, 4) = {s, a, b, d}
    BY DEF A64AbsCode
  <2> DEFINE code == {s, a, b, d}
  <2>2. r = Written(20, {"x16"}, code, cap)
    BY <2>1 DEF A64ExpandCond
  <2> HIDE DEF code
  <2>3. r.code = code /\ r.size = 20
    BY <2>2, WrittenIs
  <2> QED BY <2>3 DEF code
<1> HIDE DEF s, a, b, d
<1>3. Points("a64", base + 0, s) = base + 0 + r.size
  BY <1>1, <1>2 DEF Points
<1>4. Hops("a64", r.code, base, 0, r.size, inst, s)
  <2>1. a.at = s.at + s.len /\ a.at < 0 + r.size
    BY ONLY <1>1, <1>2
  <2> QED BY <1>1, <1>2, <1>3, <2>1 DEF Hops
<1>5. b.at = a.at + a.len /\ b.at < 0 + r.size /\ 0 < b.at /\ r.size > 0 /\ a.at # 0
  BY ONLY <1>1, <1>2
<1>6. FarForm("a64", base, r, inst, a)
  BY <1>1, <1>2, <1>4, <1>5 DEF FarForm
<1>7. Follows("a64", r.code, base, 0, r.size, inst)
  BY <1>6, FarFollows
<1> QED BY <1>7 DEF Carries

\* A moved branch or call, unless it takes the call through the register.
LEMMA A64BranchCarries ==
    ASSUME NEW inst \in Inst, NEW base \in Int, NEW cap,
           NEW r, r = A64RelocateBranch(inst, base, cap), r.status = "OK",
           inst.cls \in {"directBranch", "directCall"},
           Honest("a64", inst), Clean("a64", inst, r.code)
    PROVE  Carries("a64", r, base, inst)
<1> DEFINE isCall == inst.cls = "directCall"
           to     == inst.target
<1>1. to \in Int /\ isCall \in BOOLEAN
  BY DEF Inst
<1>2. inst.operand
  BY RefusedNotOk DEF A64RelocateBranch
<1>3. inst.does = IF isCall THEN "call" ELSE "jump"
  BY <1>2 DEF Honest
<1>4. r = A64EmitRel(isCall, base, to, cap) \/ r = A64EmitAbs(isCall, to, cap)
  BY <1>2 DEF A64RelocateBranch
<1>5. CASE r = A64EmitRel(isCall, base, to, cap)
  <2> HIDE DEF isCall
  <2> QED BY <1>1, <1>3, <1>5, A64EmitRelCarries
<1>6. CASE r = A64EmitAbs(isCall, to, cap)
  <2>1. ~isCall
    <3>1. SUFFICES ASSUME isCall PROVE FALSE
      OBVIOUS
    <3> DEFINE blr  == Item("callReg", 0 + 4, 4, 0, NoInst)
               code == A64AbsCode(TRUE, to, 0)
    <3>2. r = Written(16, {"x16"}, code, cap) /\ r.status = "OK"
      BY <1>6, <3>1 DEF A64EmitAbs
    <3>3. blr \in code
      BY DEF A64AbsCode
    <3>4. blr.op = "callReg"
      BY DEF Item
    <3> HIDE DEF code, blr
    <3>5. r.code = code
      BY ONLY <3>2, WrittenAll
    <3> QED BY <3>3, <3>4, <3>5 DEF Clean
  <2>2. r = A64EmitAbs(FALSE, inst.target, cap) /\ inst.does = "jump"
    BY <1>3, <1>6, <2>1
  <2> QED BY <1>1, <2>2, A64EmitAbsCarries
<1> QED BY <1>4, <1>5, <1>6

\* A rewritten immediate field, or the expansion of a condition out of its reach.
LEMMA A64FieldCarries ==
    ASSUME NEW inst \in Inst, inst.operand, NEW base \in Int, NEW cap,
           NEW r, r = A64RelocateField(inst, base, cap), r.status = "OK",
           Aims("a64", r, base, inst.target), Honest("a64", inst)
    PROVE  Carries("a64", r, base, inst)
<1> DEFINE disp == IF inst.enc = "adrp"
                   THEN (PageOf(inst.target) - PageOf(base)) \div PageSize
                   ELSE inst.target - base
           op   == IF inst.enc \in A64Conditionals THEN "cond" ELSE "ref"
           it   == Item(op, 0, 4, A64Field(inst, disp), inst)
<1>1. \/ r = A64ExpandCond(inst, inst.target, cap) /\ inst.cls = "condBranch"
      \/ r = Written(4, {}, {it}, cap)
  BY RefusedNotOk DEF A64RelocateField
<1>2. CASE r = A64ExpandCond(inst, inst.target, cap) /\ inst.cls = "condBranch"
  <2>1. inst.does = "cond" /\ inst.target \in Int
    BY <1>2 DEF Honest, Inst
  <2> QED BY <1>2, <2>1, A64ExpandCarries
<1>3. CASE r = Written(4, {}, {it}, cap)
  <2>1. it.op \in {"ref", "cond"} /\ it.at = 0 /\ it.len = 4 /\ it.inst = inst
    BY DEF Item
  <2> HIDE DEF it
  <2>2. r.code = {it} /\ r.size = 4
    BY <1>3, WrittenAll
  <2>3. FetchedLen("a64", it) = r.size /\ r.size \in Nat \ {0}
    BY <2>1, <2>2 DEF FetchedLen
  <2>4. Follows("a64", r.code, base, 0, r.size, inst)
    BY <2>1, <2>2, <2>3, DirectFollows
  <2> QED BY <2>4 DEF Carries
<1> QED BY <1>1, <1>2, <1>3

\* Every moved AArch64 instruction.
LEMMA A64RelocateCarries ==
    ASSUME NEW inst \in Inst, NEW base \in Int, NEW cap,
           NEW r, r = A64Relocate(inst, base, cap), r.status = "OK",
           inst.pcrel => inst.operand,
           inst.enc = "b" => inst.cls \in {"directBranch", "directCall"},
           inst.pcrel => Aims("a64", r, base, inst.target),
           Honest("a64", inst), Clean("a64", inst, r.code)
    PROVE  Carries("a64", r, base, inst)
<1>1. CASE inst.pcrel /\ inst.enc = "b"
  BY <1>1, A64BranchCarries DEF A64Relocate
<1>2. CASE inst.pcrel /\ inst.enc # "b"
  BY <1>2, A64FieldCarries DEF A64Relocate
<1>3. CASE ~inst.pcrel
  <2>1. r = Written(inst.size, {}, {Item("copy", 0, inst.size, 0, inst)}, cap)
    BY <1>3 DEF A64Relocate
  <2>2. inst.does # "ref"
    BY <1>3 DEF Clean
  <2> QED BY <2>1, <2>2, CopyFollows DEF Carries
<1> QED BY <1>1, <1>2, <1>3

-----------------------------------------------------------------------------

\* Whatever the target, the code a moved instruction becomes does what the
\* instruction does, unless it shows one of the known defects.
THEOREM RelocateInstCarries ==
    ASSUME NEW m \in Modes, NEW inst \in Inst, NEW base \in Int, NEW cap,
           NEW r, r = RelocateInst(m, inst, base, cap), r.status = "OK",
           m \in X86Modes \cup {"a64"} /\ inst.pcrel => inst.operand,
           m \in ArmModes /\ inst.cls \in {"directBranch", "directCall"} => inst.operand,
           m = "a64" /\ inst.enc = "b" => inst.cls \in {"directBranch", "directCall"},
           m = "a64" /\ inst.enc \in A64Conditionals \cup {"literal"} =>
               (inst.target - base) % 4 = 0,
           m = "a64" /\ inst.enc = "adrp" => inst.target % PageSize = 0,
           Honest(m, inst), Clean(m, inst, r.code)
    PROVE  Carries(m, r, base, inst)
<1>1. CASE m \in X86Modes
  BY <1>1, X86RelocateCarries DEF RelocateInst
<1>2. CASE m = "a64"
  <2>1. r = A64Relocate(inst, base, cap)
    BY <1>2 DEF RelocateInst, X86Modes
  <2>2. inst.pcrel => Aims("a64", r, base, inst.target)
    BY <1>2, <2>1, A64RelocateAims
  <2> QED BY <1>2, <2>1, <2>2, A64RelocateCarries
<1>3. CASE m \in ArmModes
  BY <1>3, ArmRelocateCarries DEF RelocateInst, X86Modes, ArmModes, VmModes
<1>4. CASE m \in VmModes
  BY <1>4 DEF RelocateInst, X86Modes, VmModes, VmRelocate, BpfRelocate, WasmRelocate, Refused
<1> QED BY <1>1, <1>2, <1>3, <1>4 DEF Modes, ArmModes

\* And the code of a jump does what a jump does.
THEOREM EmitJumpCarries ==
    ASSUME NEW m \in Modes, NEW from \in Int, NEW inst, inst.target \in Int,
           inst.does = "jump", NEW opts, NEW cap,
           NEW r, r = EmitJump(m, from, inst.target, opts, cap), r.status = "OK"
    PROVE  Carries(m, r, from, inst)
<1> DEFINE e == TargetEmit(m, FALSE, from, inst.target, opts, cap)
<1>1. r = e
  <2> HIDE DEF e
  <2>1. EmitFinish(opts, e).status = "OK" => EmitFinish(opts, e) = e
    BY DEF EmitFinish
  <2> QED BY <2>1 DEF EmitJump, EmitTransfer, e
<1>2. CASE m \in X86Modes
  <2>1. \/ r = X86EmitRel(m, FALSE, from, inst.target, cap)
        \/ r = X86EmitAbs(FALSE, inst.target, cap) /\ m = "x86_64"
    BY <1>1, <1>2, RefusedNotOk DEF TargetEmit, X86Emit, EmitAny
  <2>2. CASE r = X86EmitRel(m, FALSE, from, inst.target, cap)
    <3>1. inst.does = IF FALSE THEN "call" ELSE "jump"
      OBVIOUS
    <3>2. X86EmitRel(m, FALSE, from, inst.target, cap).status = "OK"
      BY <2>2
    <3> QED BY <1>2, <2>2, <3>1, <3>2, X86EmitRelCarries
  <2> QED BY <2>1, <2>2, X86EmitAbsCarries
<1>3. CASE m = "a64"
  <2>1. \/ r = A64EmitRel(FALSE, from, inst.target, cap)
        \/ r = A64EmitAbs(FALSE, inst.target, cap)
    BY <1>1, <1>3, RefusedNotOk DEF TargetEmit, A64Emit, EmitAny, X86Modes
  <2>2. inst.does = IF FALSE THEN "call" ELSE "jump"
    OBVIOUS
  <2>3. CASE r = A64EmitRel(FALSE, from, inst.target, cap)
    <3>1. Carries("a64", r, from, inst)
      BY <2>2, <2>3, A64EmitRelCarries
    <3> QED BY <1>3, <3>1
  <2>4. CASE r = A64EmitAbs(FALSE, inst.target, cap)
    <3>1. Carries("a64", r, from, inst)
      BY <2>4, A64EmitAbsCarries
    <3> QED BY <1>3, <3>1
  <2> QED BY <2>1, <2>3, <2>4
<1>4. CASE m \in ArmModes
  <2>1. \/ r = ArmEmitRel(m, FALSE, from, inst.target, cap)
        \/ r = ArmEmitAbsA32(FALSE, inst.target, cap) /\ m = "a32"
    BY <1>1, <1>4, RefusedNotOk
    DEF TargetEmit, ArmEmit, EmitAny, ArmModes, X86Modes, VmModes
  <2>2. inst.does = IF FALSE THEN "call" ELSE "jump"
    OBVIOUS
  <2>3. CASE r = ArmEmitRel(m, FALSE, from, inst.target, cap)
    BY <1>4, <2>2, <2>3, ArmEmitRelCarries
  <2>4. CASE r = ArmEmitAbsA32(FALSE, inst.target, cap) /\ m = "a32"
    <3>1. Carries("a32", r, from, inst)
      BY <2>4, ArmEmitAbsCarries
    <3> QED BY <2>4, <3>1
  <2> QED BY <2>1, <2>3, <2>4
<1>5. CASE m \in VmModes
  <2>1. e.status # "OK"
    BY <1>5 DEF TargetEmit, X86Modes, VmModes, VmEmit, BpfEmit, WasmEmit, Refused
  <2> HIDE DEF e
  <2> QED BY ONLY <1>1, <2>1, r.status = "OK"
<1> QED BY <1>2, <1>3, <1>4, <1>5 DEF Modes, ArmModes

-----------------------------------------------------------------------------
(***************************************************************************)
(* No item is empty: at one address there is one instruction at most.      *)
(***************************************************************************)
Sized(code) == \A it \in code : it.len > 0

\* What is written has sizes, if the items given to it have,
LEMMA WrittenSized ==
    ASSUME NEW size, NEW clobbers, NEW code, Sized(code), NEW cap
    PROVE  Sized(Written(size, clobbers, code, cap).code)
<1> DEFINE r == Written(size, clobbers, code, cap)
<1>1. r.code = {} \/ r.code = code
  BY DEF Written
<1> HIDE DEF r
<1>2. Sized(r.code)
  BY <1>1 DEF Sized
<1> QED BY <1>2 DEF r

\* a refusal has no items,
LEMMA RefusedSized ==
    ASSUME NEW status, NEW size
    PROVE  Sized(Refused(status, size).code)
  BY DEF Refused, Sized

\* and a single item has one.
LEMMA OneItemSized ==
    ASSUME NEW op, NEW at, NEW len, len > 0, NEW disp, NEW inst,
           NEW size, NEW clobbers, NEW cap
    PROVE  Sized(Written(size, clobbers, {Item(op, at, len, disp, inst)}, cap).code)
<1> DEFINE code == {Item(op, at, len, disp, inst)}
<1>1. Sized(code)
  BY DEF Sized, Item
<1> HIDE DEF code
<1>2. Sized(Written(size, clobbers, code, cap).code)
  BY <1>1, WrittenSized
<1> QED BY <1>2 DEF code

\* The sequences of more than one item.
LEMMA SequencesSized ==
    ASSUME NEW isCall, NEW to, NEW at, NEW inst, NEW cap
    PROVE  /\ Sized(X86AbsCode(isCall, to, at))
           /\ Sized(A64AbsCode(isCall, to, at))
           /\ Sized(X86EmitAbs(isCall, to, cap).code)
           /\ Sized(X86ExpandJcc(inst, to, cap).code)
           /\ Sized(ArmEmitAbsA32(isCall, to, cap).code)
           /\ Sized(A64EmitAbs(isCall, to, cap).code)
           /\ Sized(A64ExpandCond(inst, to, cap).code)
<1>1. \A x \in {at, 0, 2} : Sized(X86AbsCode(isCall, to, x)) /\ Sized(X86AbsCode(FALSE, to, x))
  BY DEF Sized, X86AbsCode, Item
<1>2. \A x \in {at, 0, 4} : Sized(A64AbsCode(isCall, to, x)) /\ Sized(A64AbsCode(FALSE, to, x))
  BY DEF Sized, A64AbsCode, Item
<1>3. Sized(X86EmitAbs(isCall, to, cap).code)
  BY <1>1, WrittenSized DEF X86EmitAbs
<1>4. Sized(X86ExpandJcc(inst, to, cap).code)
  <2> DEFINE code == {Item("skip", 0, 2, 14, inst)} \cup X86AbsCode(FALSE, to, 2)
  <2>1. Sized(code)
    <3>1. Item("skip", 0, 2, 14, inst).len > 0
      BY DEF Item
    <3> QED BY <1>1, <3>1 DEF Sized
  <2> HIDE DEF code
  <2>2. Sized(Written(16, {}, code, cap).code)
    BY <2>1, WrittenSized
  <2> QED BY <2>2 DEF X86ExpandJcc, code
<1>5. Sized(ArmEmitAbsA32(isCall, to, cap).code)
  <2> DEFINE call == {Item("load", 0, 4, 4, NoInst), Item("callReg", 4, 4, 0, NoInst),
                      Item("data", 8, 4, to, NoInst)}
             jump == {Item("jumpMem", 0, 4, -4, NoInst), Item("data", 4, 4, to, NoInst)}
  <2>1. Sized(call) /\ Sized(jump)
    BY DEF Sized, Item
  <2> HIDE DEF call, jump
  <2>2. Sized(Written(12, {"ip"}, call, cap).code) /\ Sized(Written(8, {}, jump, cap).code)
    BY <2>1, WrittenSized
  <2> QED BY <2>2 DEF ArmEmitAbsA32, call, jump
<1>6. Sized(A64EmitAbs(isCall, to, cap).code)
  BY <1>2, WrittenSized DEF A64EmitAbs
<1>7. Sized(A64ExpandCond(inst, to, cap).code)
  <2> DEFINE code == {Item("skip", 0, 4, 20, inst)} \cup A64AbsCode(FALSE, to, 4)
  <2>1. Sized(code)
    <3>1. Item("skip", 0, 4, 20, inst).len > 0
      BY DEF Item
    <3> QED BY <1>2, <3>1 DEF Sized
  <2> HIDE DEF code
  <2>2. Sized(Written(20, {"x16"}, code, cap).code)
    BY <2>1, WrittenSized
  <2> QED BY <2>2 DEF A64ExpandCond, code
<1> QED BY <1>1, <1>2, <1>3, <1>4, <1>5, <1>6, <1>7

\* The relative forms.
LEMMA RelativeSized ==
    ASSUME NEW m, NEW isCall, NEW from, NEW to, NEW cap
    PROVE  /\ Sized(X86EmitRel(m, isCall, from, to, cap).code)
           /\ Sized(ArmEmitRel(m, isCall, from, to, cap).code)
           /\ Sized(A64EmitRel(isCall, from, to, cap).code)
<1>1. X86DirectSize(m) > 0
  BY DEF X86DirectSize
<1>2. Sized(X86EmitRel(m, isCall, from, to, cap).code)
  BY <1>1, OneItemSized, RefusedSized DEF X86EmitRel
<1>3. Sized(ArmEmitRel(m, isCall, from, to, cap).code)
  BY OneItemSized, RefusedSized DEF ArmEmitRel
<1>4. Sized(A64EmitRel(isCall, from, to, cap).code)
  BY OneItemSized, RefusedSized DEF A64EmitRel
<1> QED BY <1>2, <1>3, <1>4

\* What becomes of an instruction, of any target.
LEMMA RelocateInstSized ==
    ASSUME NEW m, NEW inst \in Inst, NEW base, NEW cap
    PROVE  Sized(RelocateInst(m, inst, base, cap).code)
<1>1. Sized(Written(inst.size, {}, {Item("copy", 0, inst.size, 0, inst)}, cap).code)
  <2>1. inst.size > 0
    BY DEF Inst, MaxInstBytes
  <2> QED BY <2>1, OneItemSized
<1>2. Sized(X86RelocateRip(inst, base, cap).code)
  <2>1. inst.size > 0
    BY DEF Inst, MaxInstBytes
  <2> QED BY <2>1, OneItemSized, RefusedSized DEF X86RelocateRip
<1>3. Sized(X86RelocateBranch(m, inst, base, cap).code)
  BY SequencesSized, RelativeSized, RefusedSized DEF X86RelocateBranch
<1>4. Sized(X86RelocateCond(m, inst, base, cap).code)
  BY SequencesSized, OneItemSized, RefusedSized DEF X86RelocateCond, X86EmitJcc
<1>5. Sized(X86Relocate(m, inst, base, cap).code)
  BY <1>1, <1>2, <1>3, <1>4, RefusedSized DEF X86Relocate
<1>6. Sized(ArmRelocate(m, inst, base, cap).code)
  BY <1>1, SequencesSized, RelativeSized, RefusedSized DEF ArmRelocate, ArmRelocateBranch
<1>7. Sized(A64RelocateBranch(inst, base, cap).code)
  BY SequencesSized, RelativeSized, RefusedSized DEF A64RelocateBranch
<1>8. Sized(A64RelocateField(inst, base, cap).code)
  BY SequencesSized, OneItemSized, RefusedSized DEF A64RelocateField
<1>9. Sized(A64Relocate(inst, base, cap).code)
  BY <1>1, <1>7, <1>8 DEF A64Relocate
<1>10. Sized(VmRelocate(m).code)
  BY RefusedSized DEF VmRelocate, BpfRelocate, WasmRelocate
<1> QED BY <1>5, <1>6, <1>9, <1>10 DEF RelocateInst

\* And of a jump.
LEMMA EmitJumpSized ==
    ASSUME NEW m \in Modes, NEW from \in Int, NEW to \in Int, NEW opts \in EmitOptions,
           NEW cap \in Nat
    PROVE  Sized(EmitJump(m, from, to, opts, cap).code)
<1> DEFINE e == TargetEmit(m, FALSE, from, to, opts, cap)
<1>1. Sized(X86Emit(m, FALSE, from, to, ModeOf(opts), cap).code)
  BY SequencesSized, RelativeSized, RefusedSized DEF X86Emit, EmitAny
<1>2. Sized(ArmEmit(m, FALSE, from, to, ModeOf(opts), cap).code)
  BY SequencesSized, RelativeSized, RefusedSized DEF ArmEmit, EmitAny
<1>3. Sized(A64Emit(FALSE, from, to, ModeOf(opts), opts.given, opts.allowed, cap).code)
  BY SequencesSized, RelativeSized, RefusedSized DEF A64Emit, EmitAny
<1>4. Sized(VmEmit(m).code)
  BY RefusedSized DEF VmEmit, BpfEmit, WasmEmit
<1>5. Sized(e.code)
  BY <1>1, <1>2, <1>3, <1>4 DEF TargetEmit
<1>6. e \in EmitResults
  BY TargetEmitContract DEF Contract, Accountable
<1> HIDE DEF e
<1>7. EmitFinish(opts, e).code = e.code
  BY <1>6 DEF EmitFinish, EmitResults
<1>8. Sized(EmitFinish(opts, e).code)
  BY <1>5, <1>7
<1> QED BY <1>8 DEF EmitJump, EmitTransfer, e
=============================================================================
