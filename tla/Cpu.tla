-------------------------------- MODULE Cpu ---------------------------------
(***************************************************************************)
(* What a processor does with emitted code.  Nothing here is AsmKit's: it  *)
(* is the meaning the instruction sets give to the sequences the emitters  *)
(* write, and it is what their correctness is stated against.              *)
(***************************************************************************)
EXTENDS Asmkit

\* The length the processor gives a copied or rewritten item.  In 16-bit mode
\* the near conditional jump has a 16-bit displacement and is four bytes long.
FetchedLen(m, it) == IF m = "x86_16" /\ it.op = "cond" THEN 4 ELSE it.len

\* Where the displacement of an item at address `at' points.
Points(m, at, it) ==
    IF m = "a64"
    THEN IF it.op = "ref" /\ it.inst.enc = "adrp"
         THEN at - (at % 4096) + 4096 * it.disp
         ELSE at + it.disp
    ELSE IF m = "a32" THEN at + 8 + it.disp
    ELSE IF m = "thumb" THEN at + 4 + it.disp
    ELSE at + FetchedLen(m, it) + it.disp

\* The addresses the item `it' of the code placed at `base' can reach or read,
\* directly or through the literal it loads; none if it finds no literal there.
Reaches(m, code, base, it) ==
    LET where == Points(m, base + it.at, it)
    IN  IF it.op \in {"jump", "call", "cond", "ref"} THEN {where}
        ELSE IF it.op \in {"jumpMem", "callMem", "load"}
        THEN {d.disp : d \in {x \in code : x.op = "data" /\ base + x.at = where}}
        ELSE {}

\* The register a load item of mode `m' destroys.
ScratchReg(m) == IF m = "a64" THEN "x16" ELSE "ip"

(***************************************************************************)
(* Execution.  An effect `does' whose operand refers to the address `ref'  *)
(* leads to NextPc and, unless it only steers the program counter, leaves  *)
(* an observable event.  A call is one event: the callee returns to the    *)
(* address after the call.  `holds' is the outcome of the condition.       *)
(***************************************************************************)
Gone == -1      \* the program counter after an indirect branch or a return

NextPc(does, ref, next, holds) ==
    IF does = "jump" \/ (does = "cond" /\ holds) THEN ref
    ELSE IF does = "leave" THEN Gone
    ELSE next

Observed(does, inst, ref) ==
    IF does \in {"jump", "cond"} THEN <<>>
    ELSE <<[does |-> does,
            what |-> IF does = "call" THEN NoInst ELSE inst,
            ref  |-> IF does = "plain" THEN 0 ELSE ref]>>

\* The class and the operand a decoder reports tell what the instruction does;
\* A32 reports a conditional B as an unconditional one.
Honest(m, inst) ==
    inst.operand =>
        /\ inst.cls = "directBranch" =>
              inst.does = "jump" \/ (m = "a32" /\ inst.does = "cond")
        /\ inst.cls = "directCall" => inst.does = "call"
        /\ inst.cls = "condBranch" => inst.does = "cond"
=============================================================================
