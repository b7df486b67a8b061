------------------------------- MODULE Detour -------------------------------
(***************************************************************************)
(* A detour, as a caller of the library builds one: asmkit_plan_detour     *)
(* sizes the patch, the overwritten block and the trampoline before its    *)
(* address is known; the caller places a trampoline of exactly that size,  *)
(* lets asmkit_relocate_prologue fill it, granting it the clobbers the     *)
(* plan named, and then emits the jump to the replacement and the padding  *)
(* over the rest of the block.  The question is whether the plan, made     *)
(* from bounds, is honoured by the calls that follow it.                   *)
(***************************************************************************)
EXTENDS Relocate

CONSTANTS
    Replacements,   \* the addresses detours lead to
    Overrides       \* min_patch_size_override values

ASSUME DetourAssumption == Replacements \subseteq Int /\ Overrides \subseteq Nat

VARIABLES
    phase,          \* see Phases
    replacement, override,
    plan,           \* asmkit_detour_plan_t
    emitMax,        \* reloc_max_size
    analyzed,       \* instructions analyzed so far
    entry, padding  \* what the last two calls returned

Phases == {"size", "decode", "analyze", "planned", "relocate", "patch", "pad",
           "hooked", "refused", "abandoned"}

detourVars == <<phase, replacement, override, plan, emitMax, analyzed, entry, padding>>
sessionVars == <<vars, detourVars>>

NoPlan == [patch |-> 0, overwrite |-> 0, trampoline |-> 0, near |-> FALSE,
           min |-> 0, max |-> 0, clobbers |-> {}, hazards |-> {}]

NoEmission == Refused("OK", 0)

DetourTypeOK ==
    /\ TypeOK
    /\ phase \in Phases
    /\ plan \in [patch: Nat, overwrite: Nat, trampoline: Nat, near: BOOLEAN,
                 min: Int, max: Int, clobbers: SUBSET Regs, hazards: SUBSET Hazards]
    /\ emitMax \in Nat
    /\ analyzed \in 0..Len(insts)
    /\ entry \in EmitResults /\ padding \in EmitResults

PatchSize == MinPatchSize(mode, Origin, replacement, bmode)
BackBound == PlanJumpBack(mode, bmode)

DetourInit ==
    /\ DecodeInit /\ need = 0 /\ room = MaxBlock
    /\ raddr = 0 /\ cont = 0 /\ cap = 0 /\ allowed = {}
    /\ bmode \in BranchModes
    /\ WorkInit
    /\ phase = "size"
    /\ replacement \in Replacements
    /\ override \in Overrides
    /\ plan = NoPlan
    /\ emitMax = 0 /\ analyzed = 0
    /\ entry = NoEmission /\ padding = NoEmission

-----------------------------------------------------------------------------
(***************************************************************************)
(* asmkit_plan_detour.                                                     *)
(***************************************************************************)
Planning == UNCHANGED <<argVars, workVars, replacement, override, entry, padding>>

PlanRefused ==
    /\ phase = "size"
    /\ mode \in VmModes \/ PatchSize.size = 0 \/ BackBound.status # "OK"
    /\ phase' = "refused"
    /\ Planning /\ UNCHANGED <<decodeVars, plan, emitMax, analyzed>>

PlanSized ==
    /\ phase = "size"
    /\ mode \notin VmModes /\ PatchSize.size # 0 /\ BackBound.status = "OK"
    /\ need' = IF override > PatchSize.size THEN override ELSE PatchSize.size
    /\ phase' = "decode"
    /\ Planning /\ UNCHANGED <<inputVars, room, insts, total, dstatus, plan, emitMax, analyzed>>

PlanDecoding ==
    /\ phase = "decode"
    /\ DecodeStep
    /\ Planning /\ UNCHANGED <<phase, plan, emitMax, analyzed>>

PlanUndecodable ==
    /\ phase = "decode" /\ dstatus \notin {"RUNNING", "OK"}
    /\ phase' = "refused"
    /\ Planning /\ UNCHANGED <<decodeVars, plan, emitMax, analyzed>>

\* Mutant of PlanBlock: the size asked for in place of the size decoded.
PlanBlockAsked ==
    /\ phase = "decode" /\ dstatus = "OK"
    /\ plan' = [plan EXCEPT !.patch = PatchSize.size, !.overwrite = need,
                            !.near = BackBound.near, !.min = BackBound.min,
                            !.max = BackBound.max,
                            !.clobbers = PatchSize.clobbers \cup BackBound.clobbers]
    /\ phase' = "analyze"
    /\ Planning /\ UNCHANGED <<decodeVars, emitMax, analyzed>>

PlanBlock ==
    /\ phase = "decode" /\ dstatus = "OK"
    /\ plan' = [plan EXCEPT !.patch = PatchSize.size, !.overwrite = total,
                            !.near = BackBound.near, !.min = BackBound.min,
                            !.max = BackBound.max,
                            !.clobbers = PatchSize.clobbers \cup BackBound.clobbers]
    /\ phase' = "analyze"
    /\ Planning /\ UNCHANGED <<decodeVars, emitMax, analyzed>>

\* Mutant of AnalyzeNext: the index advanced twice.
AnalyzeNextButOne ==
    /\ phase = "analyze" /\ analyzed < Len(insts)
    /\ emitMax' = emitMax + Analyze(mode, insts[analyzed + 1].inst).max
    /\ analyzed' = analyzed + 2
    /\ Planning /\ UNCHANGED <<decodeVars, phase, plan>>

AnalyzeNext ==
    /\ phase = "analyze" /\ analyzed < Len(insts)
    /\ LET sem == Analyze(mode, insts[analyzed + 1].inst)
       IN  /\ emitMax' = emitMax + sem.max
           /\ plan' = [plan EXCEPT !.hazards = plan.hazards \cup sem.hazards]
           /\ phase' = IF sem.kind = "REJECT" THEN "refused" ELSE "analyze"
    /\ analyzed' = analyzed + 1
    /\ Planning /\ UNCHANGED decodeVars

PlanDone ==
    /\ phase = "analyze" /\ analyzed = Len(insts)
    /\ plan' = [plan EXCEPT !.trampoline = emitMax + BackBound.size]
    /\ phase' = "planned"
    /\ Planning /\ UNCHANGED <<decodeVars, emitMax, analyzed>>

-----------------------------------------------------------------------------
(***************************************************************************)
(* The calls that carry the plan out.                                      *)
(***************************************************************************)
PlaceTrampoline ==
    /\ phase = "planned"
    /\ phase' = "relocate"
    /\ raddr' \in Placements
    /\ cont' = Origin + plan.overwrite
    /\ cap' = plan.trampoline
    /\ allowed' = plan.clobbers
    /\ need' = AtLeastOne(plan.overwrite)
    /\ insts' = <<>> /\ total' = 0 /\ dstatus' = "RUNNING"
    /\ analyzed' = 0
    /\ UNCHANGED <<inputVars, room, bmode, workVars, replacement, override, plan,
                   emitMax, entry, padding>>

FillTrampoline ==
    /\ phase = "relocate"
    /\ Next
    /\ UNCHANGED detourVars

Abandon ==
    /\ phase = "relocate" /\ rpc = "done" /\ status # "OK"
    /\ phase' = "abandoned"
    /\ UNCHANGED <<vars, replacement, override, plan, emitMax, analyzed, entry, padding>>

EmitEntry ==
    /\ phase = "relocate" /\ rpc = "done" /\ status = "OK"
    /\ entry' = EmitJump(mode, Origin, replacement,
                         [given |-> TRUE, mode |-> bmode, allowed |-> plan.clobbers],
                         plan.overwrite)
    /\ phase' = IF entry'.status # "OK" THEN "abandoned"
                ELSE IF entry'.size < plan.overwrite THEN "pad" ELSE "hooked"
    /\ UNCHANGED <<vars, replacement, override, plan, emitMax, analyzed, padding>>

PadRest ==
    /\ phase = "pad"
    /\ padding' = EmitPadding(mode, plan.overwrite - entry.size, plan.overwrite - entry.size)
    /\ phase' = IF padding'.status = "OK" THEN "hooked" ELSE "abandoned"
    /\ UNCHANGED <<vars, replacement, override, plan, emitMax, analyzed, entry>>

DetourNext ==
    \/ PlanRefused \/ PlanSized \/ PlanDecoding \/ PlanUndecodable \/ PlanBlock
    \/ AnalyzeNext \/ PlanDone
    \/ PlaceTrampoline \/ FillTrampoline \/ Abandon \/ EmitEntry \/ PadRest

\* The caller is one thread that carries on.
DetourSpec == DetourInit /\ [][DetourNext]_sessionVars /\ WF_sessionVars(DetourNext)

-----------------------------------------------------------------------------
(***************************************************************************)
(* Properties.                                                             *)
(***************************************************************************)

Planned == phase \notin {"size", "decode", "analyze", "refused"}

\* Instructions the analysis is known to count too small: a RIP-relative one is
\* moved with its own length, which may be 15, where it counts 14; and one of a
\* branch class whose operand is not flagged PC-relative (fsubr st(i), jmpabs, a
\* far call, an A32 svc) counts as a copy and is relocated as a branch.
Underestimated(inst) ==
    \/ inst.enc \in {"rip", "misread"} /\ inst.size > 14
    \/ /\ inst.cls \in {"directBranch", "condBranch", "directCall"}
       /\ inst.operand /\ ~inst.pcrel

WellEstimated == \A k \in 1..Len(insts) : ~Underestimated(insts[k].inst)

\* A trampoline of the planned size is always enough, wherever it is placed:
\* no instruction expands beyond the bound the analysis gave for it, nor does
\* the jump back.
PlannedSizeSuffices ==
    Planned /\ WellEstimated => status # "OUTPUT_TOO_SMALL"

\* The relocation overwrites the block that was planned, the analysis of both
\* passes gives the same hazards, and a trampoline that was filled was
\* filled with clobbers the plan had named.
PlanHonoured ==
    Planned /\ status = "OK" =>
        /\ result.overwritten = plan.overwrite
        /\ hazards = plan.hazards
        /\ clob \subseteq plan.clobbers

\* Once the trampoline is filled nothing can fail any more: the jump to the
\* replacement has the planned size and fits, and whole no-operations cover
\* the rest of the block up to the next instruction.
PatchCovers ==
    /\ Planned => plan.patch <= plan.overwrite
    /\ phase \in {"pad", "hooked"} =>
          entry.status = "OK" /\ entry.size = plan.patch
    /\ phase = "hooked" => entry.size + padding.size = plan.overwrite
    /\ phase = "abandoned" => status # "OK"

\* The slack between the distance of the trampoline and that of its jump back:
\* both blocks and the read-ahead of the program counter.
Slack == plan.overwrite + plan.trampoline + 8

\* A trampoline that a plan requires to be near and that is placed within the
\* distances it names, less the slack, can jump back once every instruction is
\* moved, if both addresses are aligned as the instruction set wants them.
NearEnough ==
    Planned /\ plan.near /\ rpc = "done" /\ Len(recs) = Len(insts)
      /\ WellEstimated
      /\ Origin % PaddingUnit(mode) = 0 /\ raddr % PaddingUnit(mode) = 0
      /\ plan.min + Slack <= Origin - raddr /\ Origin - raddr <= plan.max - Slack =>
        status = "OK"
=============================================================================
