---------------------------- MODULE MCHttpServer ----------------------------
(* HttpServer with interchangeable workers and connections. *)
EXTENDS HttpServer, TLC

ServerSymmetry == Permutations(Workers) \cup Permutations(Conns)
=============================================================================
