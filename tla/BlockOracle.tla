---------------------------- MODULE BlockOracle -----------------------------
(***************************************************************************)
(* What decoding a block promises, with no loop in it: the block is the    *)
(* shortest prefix of the code at which decoding has a reason to stop, and *)
(* the first reason in the order need, capacity, terminator, end of the    *)
(* decodable bytes gives the status.  The prefix is measured all at once.  *)
(***************************************************************************)
EXTENDS Asmkit

CONSTANT MaxBlock

VARIABLES code, tail, need, room, verdict

Undecided == [status |-> "RUNNING", count |-> 0, total |-> 0]

\* The bytes the first k instructions of a program occupy.
PrefixSizes(c) ==
    LET sizes[k \in 0..Len(c)] == IF k = 0 THEN 0 ELSE sizes[k - 1] + c[k].size
    IN  sizes

Enough(k)   == PrefixSizes(code)[k] >= need
Full(k)     == k = room \/ k = MaxBlock
Terminal(k) == k > 0 /\ code[k].term

StopsAt(k) ==
    /\ Enough(k) \/ Full(k) \/ Terminal(k) \/ k = Len(code)
    /\ \A j \in 0..(k - 1) : ~(Enough(j) \/ Full(j) \/ Terminal(j))

Decide ==
    /\ verdict = Undecided
    /\ \E k \in 0..Len(code) :
          /\ StopsAt(k)
          /\ verdict' = [status |-> IF Enough(k) THEN "OK"
                                    ELSE IF Full(k) \/ Terminal(k) THEN "OUTPUT_TOO_SMALL"
                                    ELSE tail,
                         count  |-> k,
                         total  |-> PrefixSizes(code)[k]]
    /\ UNCHANGED <<code, tail, need, room>>

Spec == verdict = Undecided /\ [][Decide]_<<code, tail, need, room, verdict>>
=============================================================================
