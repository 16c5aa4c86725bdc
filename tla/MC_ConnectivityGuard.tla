------------------------ MODULE MC_ConnectivityGuard ------------------------
(* Model values and bounds for ConnectivityGuard. *)
EXTENDS ConnectivityGuard, TLC

CONSTANTS r1, r2, auth, sentinel

RequestSymmetry == Permutations(Requests)
=============================================================================
