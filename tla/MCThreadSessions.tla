-------------------------- MODULE MCThreadSessions --------------------------
(* Threads are interchangeable.                                            *)
EXTENDS ThreadSessions, TLC

Symmetry == Permutations(Thread)
=============================================================================
