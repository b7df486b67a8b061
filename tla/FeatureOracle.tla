--------------------------- MODULE FeatureOracle ----------------------------
(***************************************************************************)
(* What docs/api-reference.md promises of engines: an engine has all       *)
(* target features unless explicit ones are supplied, and then exactly     *)
(* those; and it is immutable, whatever happens to the configuration it    *)
(* was made from.  Failure may leave the old engine or none.               *)
(***************************************************************************)
CONSTANT Features

VARIABLES
    wanted,     \* <<S>>, the features supplied, or <<>> if there are none
    has         \* <<S>>, those of the engine, or <<>> if there is none

Init == wanted = <<>> /\ has = <<>>

Restart == wanted' = <<>> /\ UNCHANGED has

Supply(S) == wanted' = <<S>> /\ UNCHANGED has

Add(f) ==
    /\ wanted' = IF wanted = <<>> THEN <<{f}>> ELSE <<wanted[1] \cup {f}>>
    /\ UNCHANGED has

Create ==
    /\ has' = IF wanted = <<>> THEN <<Features>> ELSE wanted
    /\ UNCHANGED wanted

CreateFails == has' \in {has, <<>>} /\ UNCHANGED wanted

\* A configuration can be copied from the engine.
Copy == has # <<>> /\ wanted' = has /\ UNCHANGED has

Next ==
    \/ Restart \/ Create \/ CreateFails \/ Copy
    \/ \E S \in SUBSET Features : Supply(S)
    \/ \E f \in Features : Add(f)

Spec == Init /\ [][Next]_<<wanted, has>>
=============================================================================
