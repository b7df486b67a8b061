------------------------------ MODULE MCValues ------------------------------
(***************************************************************************)
(* TLC instances of ValueTrack.  Registers a and b (and a zero register in *)
(* AArch64) and a memory cell; the operands, classes and flags are those   *)
(* the decoders and the operand tables give.                               *)
(***************************************************************************)
EXTENDS ValueTrack, TLC

MCBitsOf == (8 :> 2) @@ (16 :> 3) @@ (32 :> 4) @@ (64 :> 5)

Operand0(kind, width, reg, imm, cell, use) ==
    [kind |-> kind, width |-> width, reg |-> reg, imm |-> imm, cell |-> cell, flags |-> use]

R == {"read"}
W == {"write"}
RW == {"read", "write"}
Reg(f, w, use) == Operand0("reg", w, [fam |-> f, width |-> w], 0, "none", use)
Imm(v, w)      == Operand0("imm", w, NoReg, v, "none", R)
Mem(w, use)    == Operand0("mem", w, NoReg, 0, "m", use)
Pc(t)          == Operand0("pcrel", 8, NoReg, t, "none", R)

NoControl == [pcrel |-> FALSE, target |-> 0, material |-> FALSE, cond |-> FALSE,
              predicate |-> Always]

Form(arch, mode, mn, cls, ops, does, dst, srcs, width) ==
    [inst    |-> [arch |-> arch, mode |-> mode, mn |-> mn, cls |-> cls, ops |-> ops,
                  addr |-> 4096],
     control |-> NoControl, does |-> does, dst |-> dst, srcs |-> srcs, signed |-> FALSE,
     sets    |-> "none", on |-> "always", width |-> width, entry |-> 0, real |-> 0,
     vague   |-> FALSE]

Signs(p)       == [p EXCEPT !.signed = TRUE]
Sets(p, what)  == [p EXCEPT !.sets = what]
Vague(p)       == [p EXCEPT !.vague = TRUE]
When(p, n, on) == Vague([p EXCEPT !.control.predicate = n, !.on = on])
Names(p, told, real, material) ==
    [p EXCEPT !.control.pcrel = TRUE, !.control.target = told, !.control.material = material,
              !.real = real]

\* An operation on its destination and another operand, or on two others.
Two(arch, mode, mn, does, a, b)      == Form(arch, mode, mn, "alu", <<a, b>>, does, 0, <<0, 1>>, a.width)
Three(arch, mode, mn, does, a, b, c) == Form(arch, mode, mn, "alu", <<a, b, c>>, does, 0, <<1, 2>>, a.width)
Move(arch, mode, mn, cls, a, b)      == Form(arch, mode, mn, cls, <<a, b>>, "move", 0, <<1>>, a.width)

-----------------------------------------------------------------------------
XForm(mn, cls, ops, does, dst, srcs, width) ==
    Form("x86", "x86_64", mn, cls, ops, does, dst, srcs, width)
X2(mn, does, a, b) == Sets(Two("x86", "x86_64", mn, does, a, b), "other")
X3(mn, does, a, b, c) == Three("x86", "x86_64", mn, does, a, b, c)
XMove(mn, a, b)    == Move("x86", "x86_64", mn, "alu", a, b)
XCompare(a, b)     == Sets(XForm("cmp", "alu", <<a, b>>, "none", -1, <<0, 1>>, a.width),
                           "compared")
XSub(a, b)         == Sets(X2("sub", "SUB", a, b), "compared")
XJcc(mn) == [XForm(mn, "condBranch", <<Pc(4112)>>, "branch", -1, <<>>, 64)
                EXCEPT !.on = mn, !.control.pcrel = TRUE, !.control.cond = TRUE]

X86Forms ==
    {XMove("mov", Reg("a", 32, W), Reg("b", 32, R)), XMove("mov", Reg("b", 64, W), Imm(-3, 32)),
     XMove("mov", Reg("a", 8, W), Reg("b", 8, R)), XMove("mov", Reg("b", 32, W), Mem(32, R)),
     XMove("mov", Mem(32, RW), Reg("a", 32, R)), XMove("mov", Mem(8, R), Imm(2, 8)),
     Signs(XMove("movsx", Reg("a", 32, W), Reg("b", 8, R))),
     Signs(XMove("movsx", Reg("b", 32, W), Mem(8, R))),
     XMove("movzx", Reg("a", 32, W), Reg("b", 8, R)),
     Signs(XMove("movsxd", Reg("a", 64, W), Reg("b", 32, R))),
     Names(XForm("lea", "other", <<Reg("b", 64, W), Mem(64, R)>>, "name", 0, <<>>, 64),
           4359, 4359, FALSE),
     Vague(XForm("lea", "other", <<Reg("b", 32, W), Mem(64, R)>>, "opaque", 0, <<0>>, 32)),
     Vague(Sets(XForm("inc", "other", <<Reg("a", 32, RW)>>, "opaque", 0, <<0>>, 32), "other")),
     XForm("push", "store", <<Reg("a", 64, R)>>, "none", -1, <<>>, 64)}
  \cup {X2(n[1], n[2], Reg("a", 32, RW), Reg("b", 32, R)) :
            n \in {<<"add", "ADD">>, <<"and", "AND">>, <<"or", "OR">>, <<"xor", "XOR">>, <<"imul", "MUL">>}}
  \cup {X2(n[1], n[2], Reg("a", 32, RW), Imm(3, 8)) :
            n \in {<<"shl", "SHIFT_LEFT">>, <<"shr", "SHIFT_RIGHT_LOGICAL">>,
                   <<"sar", "SHIFT_RIGHT_ARITHMETIC">>, <<"rol", "ROTATE_LEFT">>, <<"ror", "ROTATE_RIGHT">>}}
  \cup {X2("add", "ADD", Reg("b", 8, RW), Reg("a", 8, R)), XSub(Reg("a", 32, RW), Reg("b", 32, R)),
        XSub(Reg("b", 8, RW), Imm(1, 8)), X2("shl", "SHIFT_LEFT", Reg("a", 32, RW), Imm(1, 0)),
        X2("sar", "SHIFT_RIGHT_ARITHMETIC", Reg("a", 32, RW), Reg("b", 8, {})),
        Sets(X3("imul", "MUL", Reg("a", 32, W), Reg("b", 32, R), Imm(5, 32)), "other"),
        XCompare(Reg("a", 32, R), Reg("b", 32, R)), XCompare(Reg("b", 8, R), Imm(2, 8))}
  \cup {XJcc(mn) : mn \in (DOMAIN X86Taken) \cup {"js"}}

-----------------------------------------------------------------------------
TForm(mn, cls, ops, does, dst, srcs, width) ==
    Form("arm", "thumb", mn, cls, ops, does, dst, srcs, width)
A3(mode, mn, does, c) == Three("arm", mode, mn, does, Reg("a", 32, W), Reg("a", 32, R), c)
AMove(mode, a, b)     == Move("arm", mode, "mov", "alu", a, b)
ACompare(mode, b)     == Sets(Form("arm", mode, "cmp", "alu", <<Reg("a", 32, R), b>>, "none", -1, <<0, 1>>, 32),
                              "compared")
TBcond(n, on) == [TForm("b", "condBranch", <<Pc(4112)>>, "branch", -1, <<>>, 32)
                    EXCEPT !.on = on, !.control.cond = TRUE, !.control.predicate = n]
TCb(mn, on)   == [TForm(mn, "condBranch", <<Reg("b", 32, R), Pc(4112)>>, "test", -1, <<>>, 32)
                    EXCEPT !.on = on, !.control.cond = TRUE, !.control.predicate = 1]
TTable(mn, bits, at) ==
    [TForm(mn, "indirectBranch", <<Mem(0, R)>>, "table", -1, <<>>, 32)
        EXCEPT !.entry = bits, !.inst.addr = at]

ArmLogic == {<<"add", "ADD">>, <<"sub", "SUB">>, <<"and", "AND">>, <<"orr", "OR">>, <<"eor", "XOR">>}
ArmShift == {<<"lsl", "SHIFT_LEFT">>, <<"lsr", "SHIFT_RIGHT_LOGICAL">>,
             <<"asr", "SHIFT_RIGHT_ARITHMETIC">>, <<"ror", "ROTATE_RIGHT">>}
ArmConds == {<<0, "eq">>, <<1, "ne">>, <<2, "hs">>, <<3, "lo">>, <<4, "mi">>, <<8, "hi">>,
             <<9, "ls">>, <<10, "ge">>, <<11, "lt">>, <<12, "gt">>, <<13, "le">>}
AMem(cls) == Move("arm", "a32", IF cls = "load" THEN "ldr" ELSE "str", cls, Reg("b", 32, W), Mem(0, R))

ArmForms ==
    {AMove("a32", Reg("a", 32, W), Reg("b", 32, R)), AMove("a32", Reg("b", 32, W), Imm(5, 32)),
     When(AMove("a32", Reg("a", 32, W), Reg("b", 32, R)), 0, "eq"),
     When(A3("a32", "add", "ADD", Reg("b", 32, R)), 8, "hi"),
     ACompare("a32", Reg("b", 32, R)), When(ACompare("a32", Imm(5, 32)), 1, "ne"), Vague(AMem("load")),
     Vague(Form("arm", "a32", "str", "store", <<Reg("a", 32, R), Mem(0, RW)>>, "move", 1, <<0>>, 32)),
     Vague(Form("arm", "a32", "mvn", "alu", <<Reg("a", 32, W), Reg("b", 32, R)>>, "opaque", 0, <<1>>, 32))}
  \cup {A3("a32", n[1], n[2], Reg("b", 32, R)) : n \in ArmLogic}
  \cup {AMove("thumb", Reg("a", 32, W), Reg("b", 32, R)), AMove("thumb", Reg("b", 32, W), Imm(9, 32)),
        When(AMove("thumb", Reg("b", 32, W), Reg("a", 32, R)), 3, "lo"),
        ACompare("thumb", Reg("b", 32, R)), ACompare("thumb", Imm(5, 32)),
        A3("thumb", "addw", "ADD", Imm(7, 32)), A3("thumb", "subw", "SUB", Imm(7, 32)),
        TCb("cbz", "zero"), TCb("cbnz", "nonzero"), TTable("tbb", 2, 4096), TTable("tbh", 3, 4096)}
  \cup {A3("thumb", n[1], n[2], Imm(3, 32)) : n \in ArmShift}
  \cup {TBcond(n[1], n[2]) : n \in ArmConds}

-----------------------------------------------------------------------------
BForm(mn, cls, ops, does, dst, srcs, width) ==
    Form("aarch64", "aarch64", mn, cls, ops, does, dst, srcs, width)
BOp(mn, does, a, b, c) == Three("aarch64", "aarch64", mn, does, a, b, c)
B3(mn, does, w, c)     == BOp(mn, does, Reg("a", w, W), Reg("b", w, R), c)
BLoad(mn, a, b)    == Move("aarch64", "aarch64", mn, "load", a, b)
BCb(mn, on) == [BForm(mn, "condBranch", <<Reg("a", 64, R), Pc(4112)>>, "test", -1, <<>>, 64)
                  EXCEPT !.on = on, !.control.cond = TRUE]
BAdr(mn, t) == Names(BForm(mn, "other", <<Reg("a", 64, W), Pc(t)>>, "name", 0, <<>>, 64),
                     t, t, TRUE)

A64Forms ==
    {B3("orr", "OR", 64, Reg("b", 64, R)), B3("add", "ADD", 32, Imm(5, 32)),
     BOp("orr", "OR", Reg("b", 64, W), Reg("zero", 64, R), Reg("a", 64, R)),
     BOp("add", "ADD", Reg("zero", 64, W), Reg("b", 64, R), Reg("a", 64, R)),
     BForm("movz", "alu", <<Reg("b", 64, W), Imm(21, 32), Imm(0, 64)>>, "move", 0, <<1>>, 64),
     Vague(BForm("movk", "alu", <<Reg("a", 64, RW), Imm(5, 32), Imm(0, 64)>>, "opaque", 0, <<0>>, 64)),
     BLoad("ldr", Reg("a", 64, W), Mem(64, R)), BLoad("ldrb", Reg("b", 32, W), Mem(8, R)),
     Signs(BLoad("ldrsw", Reg("a", 64, W), Mem(32, R))), Signs(BLoad("ldrsb", Reg("a", 32, W), Mem(8, R))),
     BForm("str", "store", <<Reg("a", 64, R), Mem(64, RW)>>, "move", 1, <<0>>, 64),
     BForm("strb", "store", <<Reg("b", 32, R), Mem(8, RW)>>, "move", 1, <<0>>, 32),
     BCb("cbz", "zero"), BCb("cbnz", "nonzero"), BAdr("adr", 4100), BAdr("adrp", 20480)}
  \cup {B3(n[1], n[2], 64, Reg("a", 64, R)) : n \in ArmLogic}
  \cup {B3(n[1], n[2], 32, Imm(2, 32)) : n \in ArmShift}

PForm(mn, cls, ops, does, dst, srcs, width) ==
    Form("bpf", "bpf64", mn, cls, ops, does, dst, srcs, width)
PMove(mn, cls, a, b)  == Move("bpf", "bpf64", mn, cls, a, b)
P2(mn, does, w, b) == Two("bpf", "bpf64", mn, does, Reg("a", w, RW), b)

BpfForms ==
    {PMove("mov", "alu", Reg("a", 64, RW), Reg("b", 64, R)),
     PMove("mov", "alu", Reg("b", 64, RW), Imm(-1, 32)),
     PMove("mov", "alu", Reg("a", 32, RW), Reg("b", 32, R)),
     P2("add", "ADD", 32, Reg("b", 32, R)), P2("sub", "SUB", 64, Imm(5, 32)),
     PMove("ldx", "load", Reg("b", 64, W), Mem(64, R)),
     PMove("ldxb", "load", Reg("a", 64, W), Mem(8, R)),
     PMove("stx", "store", Mem(32, W), Reg("b", 64, R)),
     Vague(PForm("neg", "alu", <<Reg("a", 64, RW)>>, "opaque", 0, <<0>>, 64)),
     Vague(PForm("lddw", "pseudo", <<Reg("a", 64, W), Imm(5, 64)>>, "opaque", 0, <<0>>, 64))}
  \cup {P2(n[1], n[2], 64, Reg("b", 64, R)) :
            n \in {<<"add", "ADD">>, <<"sub", "SUB">>, <<"mul", "MUL">>, <<"and", "AND">>,
                   <<"or", "OR">>, <<"xor", "XOR">>}}
  \cup {P2(n[1], n[2], 64, Imm(3, 32)) :
            n \in {<<"sll", "SHIFT_LEFT">>, <<"srl", "SHIFT_RIGHT_LOGICAL">>,
                   <<"arsh", "SHIFT_RIGHT_ARITHMETIC">>}}

MCForms == X86Forms \cup ArmForms \cup A64Forms \cup BpfForms

Engines == {<<"x86", "x86_64">>, <<"arm", "a32">>, <<"arm", "thumb">>,
            <<"aarch64", "aarch64">>, <<"bpf", "bpf64">>}

MCStarts ==
    {[engine |-> [arch |-> e[1], mode |-> e[2]],
      regs |-> [f \in {"a", "b", "zero"} |-> CASE f = "a" -> v[1] [] f = "b" -> v[2] [] OTHER -> 0],
      cells |-> ("m" :> v[3])] :
        e \in Engines, v \in {<<5, 5, 6>>, <<0, 9, 30>>, <<12, 7, 3>>}}
=============================================================================
