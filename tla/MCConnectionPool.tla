------------------------- MODULE MCConnectionPool -------------------------
(* Instances of ConnectionPool for TLC.                                    *)
EXTENDS ConnectionPool, TLC

\* Threads run the same code and connections are interchangeable.
Symmetry == Permutations(Threads) \cup Permutations(Conns)
=============================================================================
