----------------------------- MODULE MCRelocate -----------------------------
(***************************************************************************)
(* A TLC instance of Relocate: codes of up to two instructions for every   *)
(* mode, placed next to the original, beyond the reach of each class of    *)
(* immediate field in turn, in buffers that are ample, exact and short.    *)
(***************************************************************************)
EXTENDS Relocate, MCForms

T  == Origin + 400      \* a target beyond the overwritten bytes
T2 == Origin - 96       \* and one before them

X64Insts == {Plain(3), MovRip(7, T), MisreadRip(8, T), Jcc(2, T2), Call(5, T), Jmp(2, T2), Loop(T)}
X32Insts == {Plain(3), Jcc(6, T), Call(5, T2)}
X16Insts == {Plain(1), Jcc(2, T), Jmp(3, T2)}
A32Insts == {Plain(4), ArmB(T), ArmBl(T2), ArmLdrLit(T)}
T16Insts == {Plain(2), ThumbB(T), ThumbBcond(T), ThumbIt}
A64Insts == {Plain(4), A64B(T), A64Bl(T2), A64Cond("bcond", T), A64Cond("tbz", T2),
             A64Ref("adr", T + 1), A64Ref("adrp", 4096), A64BcCond(T)}

\* Only an instruction that is not a terminator is decoded past.
Codes(m, S) ==
    [mode: {m}, tail: {"DECODE_FAILED"},
     code: SeqsUpTo(S, 1) \cup {c \in [1..2 -> S] : ~c[1].term}]

MCPrograms ==
    Codes("x86_64", X64Insts) \cup Codes("x86_32", X32Insts) \cup Codes("x86_16", X16Insts)
      \cup Codes("a32", A32Insts) \cup Codes("thumb", T16Insts) \cup Codes("a64", A64Insts)
      \cup Codes("bpf64", {Plain(8)})

MCNeeds         == {0, 5}
MCPlacements    == {Origin + 512, Origin + 65536, Origin + 2097152, Origin + 40000000,
                    Origin + 200000000}
MCContinuations == {Origin + 8}
MCCapacities    == {9, 36}
MCGrants        == {{}, Regs}
=============================================================================
