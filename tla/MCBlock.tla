------------------------------ MODULE MCBlock -------------------------------
(***************************************************************************)
(* A TLC instance of BlockDecode: every code of up to four instructions    *)
(* over four x86-64 instructions, two of them terminators, against every   *)
(* need from 0 to 6, every capacity up to the block bound of three.        *)
(***************************************************************************)
EXTENDS BlockDecode, MCForms

MCPrograms ==
    [mode: {"x86_64"},
     code: SeqsUpTo({Plain(1), Plain(3), Ret(1), Jmp(2, 900)}, 4),
     tail: DecodeFailures]

MCNeeds == 0..6
=============================================================================
