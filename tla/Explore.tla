------------------------------ MODULE Explore -------------------------------
(***************************************************************************)
(* What the control analysis is for: a client that follows the successors  *)
(* asmkit_analyze_inst_with_state reports, decoding each place in the      *)
(* state reported for it, until it has seen all the code; and a processor  *)
(* that then runs the code.  The client and the processor are not part of  *)
(* AsmKit.  The processor keeps the conditions of an IT block as the list  *)
(* the architecture defines, not as the byte AsmKit computes with.         *)
(***************************************************************************)
EXTENDS ControlState

CONSTANTS
    Codes,          \* the codes considered: sets of [at, mode, i]
    Entry           \* where each starts, in the mode it has there

Placed == [at: Int, mode: Modes, i: CtlInst]

\* Of two instructions at one address at most one is decoded, by its mode.
ASSUME ExploreAssumption ==
    /\ Entry \in Int
    /\ \A c \in Codes :
          /\ c \subseteq Placed
          /\ \A p, q \in c : p.at = q.at /\ p.mode = q.mode => p = q

\* Only the Thumb decoder reports an IT instruction, always with its operands,
\* and one whose mask is zero is a hint.
ASSUME ItAssumption ==
    \A c \in Codes : \A p \in c :
        p.i.inst.cls = "it" =>
            /\ p.mode = "thumb" /\ p.i.inst.operand /\ p.i.mask # 0
            /\ p.i.inst.does = "plain"

VARIABLES
    program,        \* the code
    seen,           \* the places visited, [at, state]
    pending,        \* the places reported and not visited
    refusals,       \* statuses other than OK the analysis has answered with
    pc, conds       \* the processor: [at, mode], and what is left of an IT block

exploreVars == <<program, seen, pending, refusals, pc, conds>>

Places == [at: Int, state: DecodeStates]

ExploreTypeOK ==
    /\ program \subseteq Placed
    /\ seen \subseteq Places /\ pending \subseteq Places
    /\ refusals \subseteq {"UNSUPPORTED_MODE", "INVALID_ARGUMENT"}
    /\ pc \in [at: Int, mode: Modes]
    /\ conds \in Seq(Conditions) /\ Len(conds) <= 4

ExploreInit ==
    /\ program \in Codes
    /\ \E p \in program :
          /\ p.at = Entry
          /\ pending = {[at |-> Entry, state |-> State(p.mode)]}
          /\ pc = [at |-> Entry, mode |-> p.mode]
    /\ seen = {} /\ refusals = {}
    /\ conds = <<>>

-----------------------------------------------------------------------------
(***************************************************************************)
(* The client.                                                             *)
(***************************************************************************)

\* The address of the target reported: bit 0 is not part of it if the state
\* switches.
Address(i) == IF i.switch THEN i.reported - (i.reported % 2) ELSE i.reported

\* Where a successor is.  A target that is not known is not followed.
Follow(p, s) ==
    IF s.flow = "FALLTHROUGH"
    THEN {[at |-> p.at + p.i.inst.size, state |-> s.state]}
    ELSE IF s.flow \in {"BRANCH", "CALL"} /\ HasTarget(p.mode, p.i)
    THEN {[at |-> Address(p.i), state |-> s.state]}
    ELSE {}

Visit(w) ==
    LET here == {p \in program : p.at = w.at /\ p.mode = w.state.mode}
        told == [p \in here |-> AnalyzeWithState(p.mode, p.i, w.state)]
        next == UNION {UNION {Follow(p, s) : s \in told[p].succs} : p \in here}
    IN  /\ w \in pending
        /\ seen' = seen \cup {w}
        /\ pending' = (pending \cup next) \ seen'
        /\ refusals' = refusals \cup ({told[p].status : p \in here} \ {"OK"})
        /\ UNCHANGED <<program, pc, conds>>

-----------------------------------------------------------------------------
(***************************************************************************)
(* The processor.                                                          *)
(***************************************************************************)

\* An IT instruction: the first condition, then for each mask bit above the
\* lowest one set, the condition with that bit as its last.
Bit(n, k) == (n \div (2 ^ k)) % 2

ItLength(mask) == 4 - (CHOOSE k \in 0..3 : Bit(mask, k) = 1 /\ \A j \in 0..(k - 1) : Bit(mask, j) = 0)

ItConditions(first, mask) ==
    [n \in 1..ItLength(mask) |->
        IF n = 1 THEN first ELSE 2 * (first \div 2) + Bit(mask, 5 - n)]

\* The condition an instruction is executed under.
Governs(p, cs) == IF cs # <<>> /\ p.i.inst.cls # "it" THEN Head(cs) ELSE p.i.tests

Other(m) == IF m = "a32" THEN "thumb" ELSE "a32"

At(a, m, cs) == [at |-> a, mode |-> m, conds |-> cs]

\* In an IT block, a branch is the last instruction, and neither an IT nor a
\* conditional branch occurs; anything else is unpredictable.
Predictable(p, cs) ==
    /\ Len(cs) > 1 => p.i.inst.does \in {"plain", "ref"}
    /\ cs # <<>> => p.i.inst.does # "cond" /\ p.i.inst.cls # "it"

\* Where the processor can be next.  A call leads into the callee and, when
\* that has returned, to the next instruction.
Moves(p, cs) ==
    LET rest  == IF p.i.inst.cls = "it" THEN ItConditions(p.i.first, p.i.mask)
                 ELSE IF cs = <<>> THEN <<>> ELSE Tail(cs)
        on    == At(p.at + p.i.inst.size, p.mode, rest)
        there == At(p.i.inst.target, IF p.i.switch THEN Other(p.mode) ELSE p.mode, <<>>)
        skip  == IF Governs(p, cs) < 14 THEN {on} ELSE {}
    IN  IF ~Predictable(p, cs) THEN {}
        ELSE CASE p.i.inst.does \in {"plain", "ref"} -> {on}
               [] p.i.inst.does = "jump"  -> {there} \cup skip
               [] p.i.inst.does = "cond"  -> {there, on}
               [] p.i.inst.does = "call"  -> {on} \cup (IF HasTarget(p.mode, p.i) THEN {there} ELSE {})
               [] p.i.inst.does = "leave" -> skip

Execute ==
    /\ pending = {}
    /\ \E p \in program : \E n \in Moves(p, conds) :
          /\ p.at = pc.at /\ p.mode = pc.mode
          /\ pc' = [at |-> n.at, mode |-> n.mode]
          /\ conds' = n.conds
    /\ UNCHANGED <<program, seen, pending, refusals>>

ExploreNext == (\E w \in pending : Visit(w)) \/ Execute

ExploreSpec == ExploreInit /\ [][ExploreNext]_exploreVars

-----------------------------------------------------------------------------
(***************************************************************************)
(* The code the analysis is made for.  It sees the class and the flags of  *)
(* an instruction, and of an IT block only the condition: what the         *)
(* processor does has to agree with them.  The README lists the            *)
(* instructions for which it does not.                                     *)
(***************************************************************************)

\* The class and the flags say that the instruction behind can be next.
GoesOn(m, i) ==
    IF IsCall(m, i) THEN ~i.inst.term
    ELSE IF IsBranch(m, i) THEN IsConditional(i)
    ELSE ~IsReturn(m, i) /\ ~i.inst.term

Regular(c, p) ==
    LET m == p.mode
        i == p.i
    IN  /\ i.inst.does \in {"jump", "leave"} => (GoesOn(m, i) <=> i.tests < 14)
        /\ i.inst.does \notin {"jump", "leave"} => GoesOn(m, i)
        /\ i.inst.does \in {"jump", "cond"} =>
              HasTarget(m, i) \/ ~\E q \in c : q.at = i.inst.target
        /\ HasTarget(m, i) =>
              /\ i.inst.does \in {"jump", "cond", "call"}
              /\ Address(i) = i.inst.target
              /\ i.switch => /\ m \in {"a32", "thumb"}
                             /\ i.reported % 2 = 1 <=> m = "a32"
        /\ m = "thumb" /\ i.inst.does # "cond" => i.tests = Always

RegularCode == \A p \in program : Regular(program, p)

\* The condition read in an instruction is the one it tests (14 is the condition
\* that always holds).
Same(reported, real) == reported = real \/ {reported, real} \subseteq {14, Always}

ConditionRead(p) ==
    LET read == (p.mode = "thumb" /\ IsConditional(p.i)) \/ p.mode = "a32"
    IN  Same(IF read /\ p.i.cond < 14 THEN p.i.cond ELSE Always, p.i.tests)

ConditionsRead == \A p \in program : ConditionRead(p)

\* No branch the processor comes to is made conditional by an IT block.
Steadily ==
    \A p \in program :
        /\ p.at = pc.at /\ p.mode = pc.mode /\ conds # <<>>
        /\ p.i.inst.does \in {"jump", "leave"}
        => Head(conds) >= 14

-----------------------------------------------------------------------------
(***************************************************************************)
(* Properties.                                                             *)
(***************************************************************************)

\* The conditions the byte of a decode state stands for: the last bit of the
\* base is shifted out of the low five, which end at the lowest bit set.
Shown(s) ==
    IF s.isa = "none" THEN <<>>
    ELSE [n \in 1..ItLength(s.it % 16) |-> 2 * (s.it \div 32) + Bit(s.it, 5 - n)]

\* A place of the client as a position of the processor.
Position(w) == At(w.at, w.state.mode, Shown(w.state))

InCode(at, mode) == \E p \in program : p.at = at /\ p.mode = mode

\* Wherever a run of the code gets, the client has been, in the same mode and
\* at the same point of the same IT block: following the successors reported
\* reaches all the code that can be executed.
ExplorerCovers ==
    pending = {} /\ InCode(pc.at, pc.mode) =>
        \E w \in seen : Position(w) = At(pc.at, pc.mode, conds)

\* And nowhere else: every place reported is one the processor can move to
\* from a place visited before, so data behind a jump is not taken for code
\* and no IT block outlives its instructions.
NothingInvented ==
    \A w \in seen \cup pending :
        \/ w.at = Entry
        \/ \E v \in seen : \E p \in program :
              /\ p.at = v.at /\ p.mode = v.state.mode
              /\ \/ Position(w) \in Moves(p, Shown(v.state))
                 \/ ~Predictable(p, Shown(v.state))

\* The condition reported for the instruction a run is about to execute, in
\* the state the successors of its predecessors were reported with, is the one
\* it is executed under.
PredicatesHold ==
    pending = {} =>
        \A p \in program, w \in seen :
            /\ p.at = pc.at /\ p.mode = pc.mode /\ Predictable(p, conds)
            /\ Position(w) = At(pc.at, pc.mode, conds)
            => Same(AnalyzeWithState(p.mode, p.i, w.state).predicate, Governs(p, conds))

\* A state the analysis reports is one it accepts: what a client is told to
\* decode with never makes a later call fail.
StatesAccepted == refusals = {}
=============================================================================
