------------------------------ MODULE Transfer ------------------------------
(***************************************************************************)
(* A caller of asmkit_plan_control_transfer, asmkit_emit_jump and          *)
(* asmkit_emit_call: it plans one transfer, and then emits it, either into *)
(* a buffer of the planned size, or into a buffer of its own that it       *)
(* enlarges to the size reported, or to an island the plan asked for.      *)
(***************************************************************************)
EXTENDS TargetOps

CONSTANTS
    Sites,          \* the addresses transfers are emitted at
    Destinations,   \* and those they lead to, islands included
    Buffers         \* the capacities of the caller's own buffer

ASSUME TransferAssumption ==
    Sites \subseteq Int /\ Destinations \subseteq Int /\ Buffers \subseteq Nat

VARIABLES
    mode, isCall, from, to, opts,   \* the arguments of the plan
    tplan,                          \* the plan
    step,                           \* what the caller did last
    emission,                       \* what the last emission returned
    tries                           \* emissions so far

transferVars == <<mode, isCall, from, to, opts, tplan, step, emission, tries>>

Steps == {"start", "planned", "emitted", "guessed", "retried", "island"}

TransferPlans == [status: Statuses, size: Nat, clobbers: SUBSET Regs,
                  island: BOOLEAN, min: Int, max: Int]

TransferTypeOK ==
    /\ mode \in Modes /\ isCall \in BOOLEAN
    /\ from \in Int /\ to \in Int
    /\ opts \in EmitOptions
    /\ tplan \in TransferPlans
    /\ step \in Steps
    /\ emission \in EmitResults
    /\ tries \in 0..2

TransferInit ==
    /\ mode \in Modes /\ isCall \in BOOLEAN
    /\ from \in Sites /\ to \in Destinations
    /\ opts \in EmitOptions
    /\ tplan = TransferPlan("OK", 0, {}, FALSE, 0, 0)
    /\ step = "start"
    /\ emission = Refused("OK", 0)
    /\ tries = 0

Plan ==
    /\ step = "start"
    /\ tplan' = PlanControlTransfer(mode, isCall, from, to, opts)
    /\ step' = "planned"
    /\ UNCHANGED <<mode, isCall, from, to, opts, emission, tries>>

Emit(dest, o, cap, next) ==
    /\ emission' = EmitTransfer(mode, isCall, from, dest, o, cap)
    /\ tries' = tries + 1
    /\ step' = next
    /\ UNCHANGED <<mode, isCall, from, to, opts, tplan>>

EmitPlanned ==
    /\ step = "planned" /\ tplan.status = "OK" /\ ~tplan.island
    /\ Emit(to, opts, tplan.size, "emitted")

EmitGuessed ==
    /\ step = "planned"
    /\ \E cap \in Buffers : Emit(to, opts, cap, "guessed")

\* The caller repeats the call with a buffer of the size it was told.
Retry ==
    /\ step = "guessed" /\ emission.status = "OUTPUT_TOO_SMALL"
    /\ Emit(to, opts, emission.size, "retried")

\* The program counter a target's displacements are relative to, ahead of the
\* site; the distances of a plan are relative to it and not to the site.
Ahead == IF mode = "a32" THEN 8 ELSE IF mode = "thumb" THEN 4
         ELSE IF mode = "a64" THEN 0 ELSE X86DirectSize(mode)

\* An island is placed within the distances of the plan, at an address an
\* instruction can have, and reached directly.
EmitToIsland ==
    /\ step = "planned" /\ tplan.status = "OK" /\ tplan.island
    /\ \E island \in Destinations :
          /\ tplan.min + Ahead <= island - from /\ island - from <= tplan.max
          /\ (island - from) % PaddingUnit(mode) = 0
          /\ Emit(island, [opts EXCEPT !.given = TRUE, !.mode = "DIRECT_ONLY"],
                  tplan.size, "island")

TransferNext == Plan \/ EmitPlanned \/ EmitGuessed \/ Retry \/ EmitToIsland

TransferSpec == TransferInit /\ [][TransferNext]_transferVars

-----------------------------------------------------------------------------
(***************************************************************************)
(* Properties.                                                             *)
(***************************************************************************)

\* A plan that needs no island is a promise: the transfer it describes can be
\* emitted into a buffer of exactly the planned size, destroying exactly the
\* registers planned, although the plan was tried in a larger buffer.
PlanIsKept ==
    step = "emitted" =>
        /\ emission.status = "OK"
        /\ emission.size = tplan.size
        /\ emission.clobbers = tplan.clobbers

\* The size reported with OUTPUT_TOO_SMALL is the one that is needed: the same
\* call with that much room is not refused for its size again, and lands where
\* the plan would have.
RetrySettles ==
    step = "retried" =>
        /\ emission.status \in {"OK", "FORBIDDEN_CLOBBER"}
        /\ emission.status = "OK" <=> (tplan.status = "OK" /\ ~tplan.island)

\* Whatever the buffer, the planner and the emitter agree on whether the
\* transfer is possible without an island.
PlanPredicts ==
    step = "guessed" /\ emission.status = "OK" =>
        tplan.status = "OK" /\ ~tplan.island /\ emission.size = tplan.size

\* A jump can reach every island that lies within the distances of its plan,
\* up to the read-ahead of their lower end.  (Calls are planned by the same
\* bound and may find no encoding: Thumb has none.)
IslandReachable ==
    step = "island" /\ ~isCall => emission.status = "OK"
=============================================================================
