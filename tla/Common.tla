------------------------------- MODULE Common -------------------------------
(***************************************************************************)
(* Arithmetic shared by the modules of several components.                 *)
(***************************************************************************)
EXTENDS Integers, FiniteSets, Sequences

Lesser(a, b)  == IF a <= b THEN a ELSE b
Greater(a, b) == IF a >= b THEN a ELSE b

\* Python's bool used as an int, and the max(0, n - 1) of every counter here.
AsCount(b)    == IF b THEN 1 ELSE 0
OneLess(n) == Greater(0, n - 1)
=============================================================================
