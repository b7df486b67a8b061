----------------------------- MODULE Trampoline -----------------------------
(***************************************************************************)
(* The code asmkit_relocate_prologue has written, executed: a processor    *)
(* that reaches the original entry is sent to the trampoline, runs its     *)
(* items and leaves it.  Relocate writes the code, Cpu gives it a meaning, *)
(* and OriginalRun is what the whole has to look like.                     *)
(***************************************************************************)
EXTENDS Relocate

CONSTANT Exempt         \* the known defects the specification steers around

Defects == {"absolute call", "a32 condition", "16-bit jcc", "unflagged reference",
            "misread displacement", "target in patch"}

ASSUME ExemptAssumption == Exempt \subseteq Defects

VARIABLES
    pc,         \* the processor's program counter, an address
    reg,        \* the scratch register
    log,        \* what the run has done that is observable
    taken       \* the conditional instructions whose condition will be met

cpuVars == <<pc, reg, log, taken>>

Garbage == -2       \* what a load reads where no literal was written

Overwritten == Origin .. (Origin + total - 1)

Shows(defect) ==
    CASE defect = "absolute call"   -> \E it \in out : it.op \in {"callMem", "callReg"}
      [] defect = "a32 condition"   -> mode = "a32" /\ \E k \in 1..Len(insts) :
                                          insts[k].inst.does = "cond"
      [] defect = "16-bit jcc"      -> mode = "x86_16" /\ \E k \in 1..Len(insts) :
                                          insts[k].inst.does = "cond"
      [] defect = "unflagged reference" -> \E k \in 1..Len(insts) :
                                          insts[k].inst.does = "ref" /\ ~insts[k].inst.pcrel
      [] defect = "misread displacement" -> \E it \in out : it.op = "spoilt"
      [] defect = "target in patch" -> \E k \in 1..Len(insts) :
                                          insts[k].inst.target \in Overwritten

RunInit ==
    /\ Init
    /\ pc = Origin /\ reg = Garbage /\ log = <<>>
    /\ taken \in SUBSET {k \in 1..Len(code) : code[k].does = "cond"}

Relocating ==
    /\ Next
    /\ UNCHANGED cpuVars

\* The detour's entry jump is in place and the function is called.  A caller
\* resumes after the overwritten bytes.
Runnable ==
    /\ rpc = "done" /\ status = "OK"
    /\ cont = Origin + total
    /\ \A d \in Exempt : ~Shows(d)

Enter ==
    /\ Runnable /\ pc = Origin
    /\ pc' = raddr
    /\ UNCHANGED <<vars, reg, log, taken>>

-----------------------------------------------------------------------------
CodeEnd == raddr + result.jumpAt + result.jumpSize
Inside  == raddr <= pc /\ pc < CodeEnd

\* The record an item was emitted for.
Source(it) == CHOOSE k \in 1..Len(recs) :
                recs[k].at <= it.at /\ it.at < recs[k].at + recs[k].size

Literal(it) == LET words == Reaches(mode, out, raddr, it)
               IN  IF words = {} THEN Garbage ELSE CHOOSE w \in words : TRUE

\* An instruction copied verbatim takes its PC-relative reference with it.
CopiedRef(it) == IF it.inst.does = "ref"
                 THEN it.inst.target + pc - recs[Source(it)].original
                 ELSE it.inst.target

Executes(it, does, ref, holds) ==
    /\ pc' = NextPc(does, ref, pc + FetchedLen(mode, it), holds)
    /\ log' = log \o Observed(does, it.inst, ref)
    /\ UNCHANGED <<vars, reg, taken>>

Executing(it) == Runnable /\ raddr + it.at = pc

RunCopy == \E it \in out :
    /\ Executing(it) /\ it.op = "copy"
    /\ Executes(it, it.inst.does, CopiedRef(it), Source(it) \in taken)

RunRewritten == \E it \in out :
    /\ Executing(it) /\ it.op \in {"ref", "cond"}
    /\ Executes(it, it.inst.does, Points(mode, pc, it), Source(it) \in taken)

\* The expanded form of a conditional branch starts with the inverted one.
RunSkip == \E it \in out :
    /\ Executing(it) /\ it.op = "skip"
    /\ Executes(it, "cond", Points(mode, pc, it), Source(it) \notin taken)

RunDirect == \E it \in out :
    /\ Executing(it) /\ it.op \in {"jump", "call"}
    /\ Executes(it, it.op, Points(mode, pc, it), TRUE)

RunThroughMemory == \E it \in out :
    /\ Executing(it) /\ it.op \in {"jumpMem", "callMem"}
    /\ Executes(it, IF it.op = "jumpMem" THEN "jump" ELSE "call", Literal(it), TRUE)

RunThroughRegister == \E it \in out :
    /\ Executing(it) /\ it.op \in {"branchReg", "callReg"}
    /\ Executes(it, IF it.op = "branchReg" THEN "jump" ELSE "call", reg, TRUE)

RunLoad == \E it \in out :
    /\ Executing(it) /\ it.op = "load"
    /\ reg' = Literal(it)
    /\ pc' = pc + it.len
    /\ UNCHANGED <<vars, log, taken>>

Processor ==
    \/ Enter \/ RunCopy \/ RunRewritten \/ RunSkip \/ RunDirect
    \/ RunThroughMemory \/ RunThroughRegister \/ RunLoad

RunVars == <<vars, cpuVars>>

\* The relocation returns, a hooked function is eventually called, and the
\* processor does not stop between two instructions.
RunSpec ==
    /\ RunInit /\ [][Relocating \/ Processor]_RunVars
    /\ WF_RunVars(Relocating) /\ WF_RunVars(Processor)

-----------------------------------------------------------------------------
(***************************************************************************)
(* Properties.                                                             *)
(***************************************************************************)

\* While it is in the trampoline the processor only ever fetches the first
\* byte of an instruction: never the middle of one, never a literal, never one
\* whose opcode was overwritten; and it never branches through a register nothing
\* was loaded into.
NeverDerails ==
    Runnable /\ Inside =>
        \E it \in out : /\ raddr + it.at = pc
                        /\ it.op \notin {"data", "spoilt"}
                        /\ it.op \in {"branchReg", "callReg"} => reg # Garbage

\* What the call is given is what it takes it for: instructions that do what their
\* class says, a continuation, an entry and targets outside the buffer, and for
\* AArch64 a buffer in step with the words of the original code.
ProperCall ==
    /\ \A k \in 1..Len(code) : Honest(mode, code[k])
    /\ raddr \in Nat
    /\ \A a \in {Origin, cont} \cup {code[k].target : k \in 1..Len(code)} :
          a \in Nat \ (raddr .. (raddr + cap - 1))
    /\ WordsStayWords

\* Where the original run stands when the trampoline's is at `pc'.  Within an
\* expansion the original is still at the instruction expanded, except after
\* an inverted condition has let the absolute branch through.
OriginalPc ==
    IF ~(Runnable /\ Inside) THEN pc
    ELSE IF pc >= raddr + result.jumpAt THEN cont
    ELSE LET k == CHOOSE j \in 1..Len(recs) :
                     raddr + recs[j].at <= pc /\ pc < raddr + recs[j].at + recs[j].size
         IN  IF insts[k].inst.does = "cond" /\ pc > raddr + recs[k].at
             THEN insts[k].inst.target
             ELSE recs[k].original

Original == INSTANCE OriginalRun WITH pc <- OriginalPc

\* Running the trampoline is running the overwritten instructions: the same
\* effects on the same addresses, in the same order, once each, the same
\* branches taken, and then the rest of the function at the continuation.
RunsAsOriginal == Original!Spec

\* A processor that is sent to the trampoline leaves it again.
Leaves == (Runnable /\ pc = Origin) ~> (Runnable /\ pc # Origin /\ ~Inside)
=============================================================================
