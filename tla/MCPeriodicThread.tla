-------------------------- MODULE MCPeriodicThread --------------------------
(* PeriodicThread for TLC: a short and a long task, or the long one alone. *)
EXTENDS PeriodicThread, TLC

CONSTANTS a, b

ShortAndLong == (a :> 1) @@ (b :> 2)
LongAlone    == (b :> 3)
=============================================================================
