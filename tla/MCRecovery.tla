----------------------------- MODULE MCRecovery -----------------------------
(***************************************************************************)
(* Small instances of Recovery for TLC, of one customer.  Handlers, calls  *)
(* and links are interchangeable.                                          *)
(***************************************************************************)
EXTENDS Recovery, TLC

Symmetry == Permutations(Handlers) \cup Permutations(Calls) \cup Permutations(Links)

\* No date, a date already gone or today's, and one within the horizon.
MCPromiseDates == {Null, 0, 3}
=============================================================================
