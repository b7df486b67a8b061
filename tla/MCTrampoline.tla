---------------------------- MODULE MCTrampoline ----------------------------
(***************************************************************************)
(* TLC instances of Trampoline: codes of one and two instructions of every *)
(* mode, the second one possibly a terminator, run from a trampoline near  *)
(* the original and from one beyond the reach of the relative forms.       *)
(***************************************************************************)
EXTENDS Trampoline, MCForms

T  == Origin + 400
T2 == Origin - 96

X64Insts == {Plain(3), MovRip(7, T), MisreadRip(8, T), Jcc(2, T2), Call(5, T), CallReg, Jmp(2, T2),
             JmpRip(T), Ret(1)}
X32Insts == {Plain(3), Jcc(6, T), Call(5, T2), Jmp(5, T)}
X16Insts == {Plain(1), Call(3, T), Jmp(3, T2)}
A32Insts == {Plain(4), ArmB(T), ArmBl(T2), ArmBx}
T16Insts == {Plain(2), ThumbB(T), ThumbBx}
A64Insts == {Plain(4), A64B(T), A64Bl(T2), A64Blr, A64Br,
             A64Cond("bcond", T), A64Cond("tbz", T2), A64Ref("adr", T + 1),
             A64Ref("adrp", 4096), A64Ref("literal", T)}

Codes(m, S) ==
    [mode: {m}, tail: {"DECODE_FAILED"},
     code: SeqsUpTo(S, 1) \cup {c \in [1..2 -> S] : ~c[1].term}]

MCPrograms ==
    Codes("x86_64", X64Insts) \cup Codes("x86_32", X32Insts) \cup Codes("x86_16", X16Insts)
      \cup Codes("a32", A32Insts) \cup Codes("thumb", T16Insts) \cup Codes("a64", A64Insts)

\* The codes on which the defects show, alone: FarCalls in a run of its own, the others
\* with Programs set to their name in its configuration.
FarCalls      == Codes("x86_64", {Plain(3), Call(5, T)})
MisreadRips   == Codes("x86_64", {Plain(3), MovRip(7, T), MisreadRip(8, T)})
SixteenBit    == Codes("x86_16", {Plain(1), Jcc(2, T)})
FarArmCalls   == Codes("a32", {Plain(4), ArmBl(T)})
ArmConditions == Codes("a32", {Plain(4), ArmBcond(T)})
ThumbLiterals == Codes("thumb", {Plain(2), ThumbLdrLit(T)})

MCNeeds         == {0, 5}
MCPlacements    == {Origin + 512, Origin + 65536, Origin + 200000000}
MCContinuations == (Origin + 2)..(Origin + 8)
MCCapacities    == {36}
MCGrants        == {{}, Regs}

\* These are calls the theorems are about: ProperCall holds of every one.
ASSUME MCProper ==
    \A p \in Programs : \A r \in Placements :
        /\ \A k \in 1..Len(p.code) : Honest(p.mode, p.code[k])
        /\ \A a \in {Origin} \cup Continuations \cup {p.code[k].target : k \in 1..Len(p.code)} :
              a \in Nat /\ \A n \in Capacities : a \notin r .. (r + n - 1)
        /\ r \in Nat /\ (p.mode = "a64" => (r - Origin) % 4 = 0)
=============================================================================
