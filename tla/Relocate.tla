------------------------------ MODULE Relocate ------------------------------
(***************************************************************************)
(* asmkit_relocate_prologue: decode the instructions a detour overwrites,  *)
(* move them one by one into the caller's buffer at `raddr', and jump back *)
(* to the rest of the function.  One action per turn of each loop and per  *)
(* exit; the decoding phase is BlockDecode's.                              *)
(***************************************************************************)
EXTENDS BlockDecode, Cpu

CONSTANTS
    Placements,     \* the addresses trampolines are placed at
    Continuations,  \* continuation_address values callers pass
    Capacities,     \* out_capacity values
    Grants          \* the clobber sets callers allow

ASSUME RelocateAssumption ==
    /\ Placements \subseteq Int
    /\ Continuations \subseteq Int
    /\ Capacities \subseteq Nat
    /\ Grants \subseteq SUBSET Regs

VARIABLES
    raddr, cont, bmode, allowed, cap,   \* the arguments
    rpc,            \* "decode", "relocate" or "done"
    offset,         \* bytes of out_code produced
    recs,           \* relocated_insts filled in so far
    out,            \* the items in out_code
    clob, hazards,  \* clobber mask and hazard flags of the result
    result,         \* the fields written on the way out
    status          \* "NONE", then the status returned

argVars   == <<raddr, cont, bmode, allowed, cap>>
workVars  == <<rpc, offset, recs, out, clob, hazards, result, status>>
vars      == <<decodeVars, argVars, workVars>>

Records == [original: Int, originalSize: Nat, at: Nat, size: Nat]

NoResult == [overwritten |-> 0, count |-> 0, jumpAt |-> 0, jumpSize |-> 0]

TypeOK ==
    /\ DecodeTypeOK
    /\ raddr \in Int /\ cont \in Int /\ cap \in Nat
    /\ bmode \in BranchModes
    /\ allowed \in SUBSET Regs
    /\ rpc \in {"decode", "relocate", "done"}
    /\ offset \in Nat
    /\ recs \in Seq(Records)
    /\ out \in SUBSET Items
    /\ clob \in SUBSET Regs
    /\ hazards \in SUBSET Hazards
    /\ result \in [overwritten: Nat, count: Nat, jumpAt: Nat, jumpSize: Nat]
    /\ status \in Statuses \cup {"NONE"}

\* options->min_overwrite_size, with 0 standing for 1.
AtLeastOne(n) == IF n = 0 THEN 1 ELSE n

WorkInit ==
    /\ rpc = "decode"
    /\ offset = 0
    /\ recs = <<>>
    /\ out = {}
    /\ clob = {}
    /\ hazards = {}
    /\ result = NoResult
    /\ status = "NONE"

Init ==
    /\ DecodeInit
    /\ \E n \in Needs : need = AtLeastOne(n)
    /\ room = MaxBlock
    /\ raddr \in Placements
    /\ cont \in Continuations
    /\ bmode \in BranchModes
    /\ allowed \in Grants
    /\ cap \in Capacities
    /\ WorkInit

\* BPF and WebAssembly code is refused before any of it is read.
RelocateUnsupported ==
    /\ rpc = "decode" /\ mode \in VmModes
    /\ rpc' = "done" /\ status' = "UNSUPPORTED_TARGET_OPERATION"
    /\ UNCHANGED <<decodeVars, argVars, offset, recs, out, clob, hazards, result>>

Decoding ==
    /\ rpc = "decode" /\ mode \notin VmModes
    /\ DecodeStep
    /\ UNCHANGED <<argVars, workVars>>

BlockDecoded ==
    /\ rpc = "decode" /\ dstatus = "OK"
    /\ rpc' = "relocate"
    /\ UNCHANGED <<decodeVars, argVars, offset, recs, out, clob, hazards, result, status>>

BlockRefused ==
    /\ rpc = "decode" /\ dstatus \notin {"RUNNING", "OK"}
    /\ rpc' = "done"
    /\ status' = dstatus
    /\ UNCHANGED <<decodeVars, argVars, offset, recs, out, clob, hazards, result>>

-----------------------------------------------------------------------------
\* Code emitted at offset `at' of a buffer, from its own offset 0.
Placed(items, at) == {[it EXCEPT !.at = it.at + at] : it \in items}

Current  == insts[Len(recs) + 1]
\* Mutants of Emission: the whole capacity at every offset; every instruction
\* relocated to the start of the buffer.
EmissionUnbounded == RelocateInst(mode, Current.inst, raddr + offset, cap)
EmissionAtStart   == RelocateInst(mode, Current.inst, raddr, cap - offset)

Emission == RelocateInst(mode, Current.inst, raddr + offset, cap - offset)

\* What every turn does, however it ends: the analysis accumulates hazards and
\* the target's relocator writes what it writes.
RelocateTurn ==
    /\ rpc = "relocate" /\ Len(recs) < Len(insts)
    /\ hazards' = hazards \cup Analyze(mode, Current.inst).hazards
    /\ out' = out \cup Placed(Emission.code, offset)
    /\ UNCHANGED <<decodeVars, argVars, result>>

\* Mutant of RelocateOne: the offset moves back.
RelocateOneBackwards ==
    /\ RelocateTurn
    /\ Emission.status = "OK" /\ Emission.clobbers \subseteq allowed
    /\ recs' = Append(recs, [original |-> Current.address,
                             originalSize |-> Current.inst.size,
                             at |-> offset, size |-> Emission.size])
    /\ offset' = offset - Emission.size
    /\ clob' = clob \cup Emission.clobbers
    /\ UNCHANGED <<rpc, status>>

RelocateOne ==
    /\ RelocateTurn
    /\ Emission.status = "OK" /\ Emission.clobbers \subseteq allowed
    /\ recs' = Append(recs, [original |-> Current.address,
                             originalSize |-> Current.inst.size,
                             at |-> offset, size |-> Emission.size])
    /\ offset' = offset + Emission.size
    /\ clob' = clob \cup Emission.clobbers
    /\ UNCHANGED <<rpc, status>>

\* Mutant of RelocateRefused: an instruction that is refused is tried again.
RelocateRefusedAgain ==
    /\ RelocateTurn
    /\ Emission.status # "OK"
    /\ UNCHANGED <<rpc, status, recs, offset, clob>>

RelocateRefused ==
    /\ RelocateTurn
    /\ Emission.status # "OK"
    /\ rpc' = "done" /\ status' = Emission.status
    /\ UNCHANGED <<recs, offset, clob>>

\* Mutant of RelocateClobbers: the register that was in the way is not named.
RelocateClobbersSilent ==
    /\ RelocateTurn
    /\ Emission.status = "OK" /\ ~(Emission.clobbers \subseteq allowed)
    /\ rpc' = "done" /\ status' = "FORBIDDEN_CLOBBER"
    /\ UNCHANGED <<recs, offset, clob>>

RelocateClobbers ==
    /\ RelocateTurn
    /\ Emission.status = "OK" /\ ~(Emission.clobbers \subseteq allowed)
    /\ clob' = clob \cup Emission.clobbers
    /\ rpc' = "done" /\ status' = "FORBIDDEN_CLOBBER"
    /\ UNCHANGED <<recs, offset>>

Return == EmitJump(mode, raddr + offset, cont,
                   [given |-> TRUE, mode |-> bmode, allowed |-> allowed], cap - offset)

JumpBackTurn ==
    /\ rpc = "relocate" /\ Len(recs) = Len(insts)
    /\ out' = out \cup Placed(Return.code, offset)
    /\ rpc' = "done" /\ status' = Return.status
    /\ UNCHANGED <<decodeVars, argVars, offset, recs, hazards>>

\* Mutant of JumpBack: what was asked for is reported as what was overwritten.
JumpBackAsked ==
    /\ JumpBackTurn
    /\ Return.status = "OK"
    /\ clob' = clob \cup Return.clobbers
    /\ result' = [overwritten |-> need, count |-> Len(insts),
                  jumpAt |-> offset, jumpSize |-> Return.size]

JumpBack ==
    /\ JumpBackTurn
    /\ Return.status = "OK"
    /\ clob' = clob \cup Return.clobbers
    /\ result' = [overwritten |-> total, count |-> Len(insts),
                  jumpAt |-> offset, jumpSize |-> Return.size]

JumpBackFails ==
    /\ JumpBackTurn
    /\ Return.status # "OK"
    /\ clob' = IF Return.status = "FORBIDDEN_CLOBBER" THEN clob \cup Return.clobbers ELSE clob
    /\ result' = [result EXCEPT !.jumpAt = offset]

Next ==
    \/ RelocateUnsupported \/ Decoding \/ BlockDecoded \/ BlockRefused
    \/ RelocateOne \/ RelocateRefused \/ RelocateClobbers
    \/ JumpBack \/ JumpBackFails

Spec == Init /\ [][Next]_vars

\* The call is synchronous: it runs until it returns.
FairSpec == Spec /\ WF_vars(Next)

-----------------------------------------------------------------------------
(***************************************************************************)
(* Properties.                                                             *)
(***************************************************************************)

\* The items of the k-th relocated instruction, and of the jump back.
CodeOf(k)    == {it \in out : recs[k].at <= it.at /\ it.at < recs[k].at + recs[k].size}
JumpBackCode == {it \in out : result.jumpAt <= it.at}

NoOverrun ==
    /\ offset <= cap
    /\ \A it \in out : it.at + it.len <= cap

NoOverlap ==
    \A a, b \in out : a # b => a.at + a.len <= b.at \/ b.at + b.len <= a.at

\* Nothing is ever written outside the caller's buffer, although each emitter
\* only sees the capacity that is left, as an unsigned difference; and no
\* instruction or literal is written over another one: the size an emitter
\* reports is the size of what it wrote.
LayoutSound == NoOverrun /\ NoOverlap

\* The records map the overwritten bytes onto the buffer, instruction by
\* instruction, in order and without gaps on either side; on success they
\* account for every byte that was overwritten and at least for those the
\* caller needs.
RecordsMapPrologue ==
    /\ \A k \in 1..Len(recs) :
          /\ recs[k].original = insts[k].address
          /\ recs[k].originalSize = insts[k].inst.size
          /\ recs[k].at + recs[k].size = IF k < Len(recs) THEN recs[k + 1].at ELSE offset
    /\ Len(recs) > 0 => recs[1].at = 0
    /\ status = "OK" =>
          /\ result.count = Len(recs) /\ result.jumpAt = offset
          /\ result.overwritten >= need
          /\ Len(recs) > 0 =>
                LET last == recs[Len(recs)]
                IN  last.original + last.originalSize = Origin + result.overwritten

\* Every register the emitted code destroys is in the clobber mask returned,
\* whatever the status, and a call that succeeds destroys only registers its
\* caller granted.
ClobbersAccounted ==
    /\ (\E it \in out : it.op = "load") => ScratchReg(mode) \in clob
    /\ status = "OK" => clob \subseteq allowed

\* Two expansions are known to miss their target, the 32-bit form of a
\* conditional jump in 16-bit code and the A32 absolute call, and a displacement
\* that is looked for in the wrong place is not rewritten.
Excepted(k) ==
    \/ mode = "x86_16" /\ insts[k].inst.cls = "condBranch"
    \/ mode = "a32" /\ insts[k].inst.cls = "directCall" /\ recs[k].size = 12
    \/ insts[k].inst.enc = "misread"

\* AArch64 code lies in whole words: so does its copy, if it starts on one.
WordsStayWords == mode = "a64" => (raddr - Origin) % 4 = 0

Keeps(k) ==
    \E it \in CodeOf(k) :
        insts[k].inst.target \in Reaches(mode, CodeOf(k), raddr, it)

OperandsKept ==
    WordsStayWords =>
        \A k \in 1..Len(recs) : insts[k].inst.pcrel /\ ~Excepted(k) => Keeps(k)

ReturnKept ==
    status = "OK" =>
        \E it \in JumpBackCode : cont \in Reaches(mode, JumpBackCode, raddr, it)

\* Wherever the trampoline is placed, each instruction with a PC-relative
\* operand still refers to the address it referred to in the original code,
\* and the jump back goes to the continuation.
TargetsKept == OperandsKept /\ ReturnKept

\* A call returns, with a status.
Returns == <>(rpc = "done" /\ status # "NONE")
=============================================================================
