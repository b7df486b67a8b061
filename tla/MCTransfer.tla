----------------------------- MODULE MCTransfer -----------------------------
(***************************************************************************)
(* A TLC instance of Transfer: destinations and islands on both sides of   *)
(* every limit of the relative jumps, and every branch mode and grant.     *)
(***************************************************************************)
EXTENDS Transfer

MCSites == {1000000000}

Limits == {2048, 32768, 100000, 33554432, 134217728}

MCDestinations == UNION {{s + l - 16, s + l - 4, s + l, s + l + 16,
                          s - l - 16, s - l - 1, s - l, s - l + 3, s - l + 4, s - l + 8} :
                            s \in MCSites, l \in Limits}
MCBuffers == {0, 3, 7, 32}
=============================================================================
