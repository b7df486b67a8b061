------------------------------ MODULE MCDetour ------------------------------
(***************************************************************************)
(* A TLC instance of Detour: codes of one to three instructions in every   *)
(* mode, a replacement within and one beyond the reach of the relative     *)
(* jumps, and trampolines at both edges of the reach and far beyond.       *)
(***************************************************************************)
EXTENDS Detour, MCForms

T  == Origin + 400

Block(m, S) == [mode: {m}, tail: {"DECODE_FAILED"}, code: S]

Two(S)   == {c \in [1..2 -> S] : ~c[1].term}
Pad14    == Plain(14)

MCPrograms ==
    Block("x86_64", {<<f>> \o <<Pad14>> : f \in {MovRip(7, T), Jcc(2, T), Call(5, T), Plain(3), Loop(T)}}
                      \cup {<<Jmp(5, T)>>, <<JmpRip(T)>>, <<Pad14, Fsubr>>, <<Jcc(6, T), Call(5, T), MovRip(7, T)>>})
      \cup Block("x86_32", Two({Plain(3), Jcc(2, T), Call(5, T)}))
      \cup Block("x86_16", Two({Plain(1), Plain(2), Call(3, T), Jcc(2, T)}))
      \cup Block("a32", Two({Plain(4), ArmBl(T), ArmB(T), ArmLdrLit(T)})
                         \cup {<<Plain(4), ArmSvc(1)>>})
      \cup Block("thumb", Two({Plain(2), ThumbB(T), ThumbIt, ThumbBl(T)}))
      \cup Block("a64", {<<f>> : f \in {A64B(T), A64Cond("tbz", T)}}
                   \cup {<<Plain(4), f, Plain(4), Plain(4)>> : f \in {A64Bl(T), A64Ref("adr", T), A64Blr}}
                   \cup {<<Plain(4), Plain(4), Plain(4), A64Cond("bcond", T)>>})
      \cup Block("bpf64", {<<Plain(8)>>}) \cup Block("wasm32", {<<Plain(1)>>})

MCNeeds         == {0}
MCPlacements    == {Origin + 512, Origin + 2000, Origin - 2100, Origin + 32700, Origin - 32800,
                    Origin + 65536, Origin + 99952, Origin - 100052, Origin + 33554000,
                    Origin + 134217000, Origin + 200000000}
MCContinuations == {Origin}
MCCapacities    == {0}
MCGrants        == {{}}
MCReplacements  == {Origin - 1000, Origin + 300000000}
MCOverrides     == {0, 8}
=============================================================================
