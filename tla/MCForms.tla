------------------------------ MODULE MCForms -------------------------------
(***************************************************************************)
(* Instructions for the TLC instances: what asmkit_decode_one reports for  *)
(* representative encodings of each target, read from the library's own    *)
(* output (class, size, flags), with the address `t' they refer to.        *)
(***************************************************************************)
EXTENDS Asmkit

Form(cls, size, term, pcrel, operand, reject, enc, does, t) ==
    [cls |-> cls, size |-> size, term |-> term, pcrel |-> pcrel,
     operand |-> operand, reject |-> reject, enc |-> enc, does |-> does,
     target |-> t]

Plain(size) == Form("plain", size, FALSE, FALSE, FALSE, FALSE, "other", "plain", 0)
Ret(size)   == Form("return", size, TRUE, FALSE, FALSE, FALSE, "other", "leave", 0)

\* x86: sizes of the short, 32-bit (or 16-bit) relative forms are the caller's.
Jmp(size, t)   == Form("directBranch", size, TRUE, TRUE, TRUE, FALSE, "other", "jump", t)
Jcc(size, t)   == Form("condBranch", size, FALSE, TRUE, TRUE, FALSE, "jcc", "cond", t)
Call(size, t)  == Form("directCall", size, FALSE, TRUE, TRUE, FALSE, "other", "call", t)
Loop(t)        == Form("condBranch", 2, FALSE, TRUE, TRUE, FALSE, "other", "cond", t)
Jrcxz(t)       == Form("condBranch", 2, TRUE, TRUE, TRUE, FALSE, "other", "cond", t)
MovRip(size, t) == Form("plain", size, FALSE, TRUE, TRUE, FALSE, "rip", "ref", t)
MisreadRip(size, t) == [MovRip(size, t) EXCEPT !.enc = "misread"]
JmpRip(t)      == Form("indirectBranch", 6, TRUE, TRUE, TRUE, TRUE, "rip", "leave", t)
JmpReg         == Form("indirectBranch", 2, TRUE, FALSE, FALSE, TRUE, "other", "leave", 0)
CallReg        == Form("indirectCall", 2, FALSE, FALSE, FALSE, TRUE, "other", "call", 0)
Hlt            == Form("directBranch", 1, TRUE, FALSE, FALSE, FALSE, "other", "leave", 0)
Xbegin(t)      == Form("directBranch", 6, TRUE, TRUE, TRUE, FALSE, "other", "cond", t)
Fsubr          == Form("directBranch", 2, TRUE, FALSE, TRUE, FALSE, "other", "plain", 0)
Endbr          == Form("landing", 4, FALSE, FALSE, FALSE, FALSE, "other", "plain", 0)

\* A32 and Thumb.  A32 reports a conditional B as an unconditional one.
ArmB(t)        == Jmp(4, t)
ArmBcond(t)    == Form("directBranch", 4, TRUE, TRUE, TRUE, FALSE, "other", "cond", t)
ArmBl(t)       == Call(4, t)
ArmLdrLit(t)   == Form("plain", 4, FALSE, TRUE, TRUE, FALSE, "other", "ref", t)
ArmBx          == Form("indirectBranch", 4, TRUE, FALSE, FALSE, FALSE, "other", "leave", 0)
ArmSvc(n)      == Form("directCall", 4, FALSE, FALSE, TRUE, FALSE, "other", "call", n)
ThumbB(t)      == Jmp(2, t)
ThumbBcond(t)  == Form("condBranch", 2, FALSE, TRUE, TRUE, FALSE, "other", "cond", t)
ThumbCbz(t)    == Form("condBranch", 2, TRUE, TRUE, TRUE, FALSE, "other", "cond", t)
ThumbBl(t)     == Call(4, t)
ThumbIt        == Form("it", 2, FALSE, FALSE, TRUE, FALSE, "other", "plain", 0)
ThumbLdrLit(t) == Form("plain", 2, FALSE, FALSE, FALSE, FALSE, "other", "ref", t)
ThumbLdrWide(t) == Form("plain", 4, FALSE, TRUE, TRUE, FALSE, "other", "ref", t)
ThumbBx        == Form("indirectBranch", 2, TRUE, FALSE, FALSE, FALSE, "other", "leave", 0)

\* AArch64.  Every conditional branch is reported as a terminator.
A64B(t)        == Form("directBranch", 4, TRUE, TRUE, TRUE, FALSE, "b", "jump", t)
A64Bl(t)       == Form("directCall", 4, FALSE, TRUE, TRUE, FALSE, "b", "call", t)
A64Cond(enc, t) == Form("condBranch", 4, TRUE, TRUE, TRUE, FALSE, enc, "cond", t)
A64BcCond(t)   == A64Cond("other", t)
A64Ref(enc, t) == Form("plain", 4, FALSE, TRUE, TRUE, FALSE, enc, "ref", t)
A64Br          == Form("indirectBranch", 4, TRUE, FALSE, FALSE, FALSE, "other", "leave", 0)
A64Blr         == Form("directCall", 4, FALSE, FALSE, FALSE, FALSE, "other", "call", 0)
A64Bti         == Form("landing", 4, FALSE, FALSE, FALSE, FALSE, "other", "plain", 0)

\* All sequences over S of at most n elements.
SeqsUpTo(S, n) == UNION {[1..k -> S] : k \in 0..n}
=============================================================================
