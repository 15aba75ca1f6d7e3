------------------------------- MODULE MCPool -------------------------------
(* Pool with threads that are interchangeable, and one address per place. *)
EXTENDS Pool, TLC

ThreadSymmetry == Permutations(Threads) \cup Permutations(Conns)
=============================================================================
