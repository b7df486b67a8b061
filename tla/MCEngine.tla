------------------------------ MODULE MCEngine ------------------------------
(***************************************************************************)
(* A TLC instance of EngineConfig: two words of two bits, an architecture  *)
(* with several modes and one with a single mode, a mode of neither, and   *)
(* CPUs with features in both words, none, and one that does not fit.      *)
(***************************************************************************)
EXTENDS EngineConfig

MCCpus == (<<"x86", 0>> :> <<0, 3>>) @@ (<<"x86", 1>> :> <<>>) @@ (<<"bpf", 0>> :> <<1, 4>>)
=============================================================================
