---------------------------- MODULE OriginalRun -----------------------------
(***************************************************************************)
(* What a trampoline has to be indistinguishable from: the processor       *)
(* running the original instructions in place.  `taken' holds the indices  *)
(* of the conditional instructions whose condition will be met.            *)
(***************************************************************************)
EXTENDS Cpu

CONSTANT Origin

VARIABLES code, taken, pc, log

AddressOf(k) ==
    LET addr[j \in 1..k] == IF j = 1 THEN Origin ELSE addr[j - 1] + code[j - 1].size
    IN  addr[k]

RunOriginal ==
    \E k \in 1..Len(code) :
        /\ pc = AddressOf(k)
        /\ LET inst == code[k]
           IN  /\ pc' = NextPc(inst.does, inst.target, pc + inst.size, k \in taken)
               /\ log' = log \o Observed(inst.does, inst, inst.target)
        /\ UNCHANGED <<code, taken>>

Init == pc = Origin /\ log = <<>>

Spec == Init /\ [][RunOriginal]_<<code, taken, pc, log>>
=============================================================================
