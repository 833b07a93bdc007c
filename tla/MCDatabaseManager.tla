------------------------- MODULE MCDatabaseManager -------------------------
(* Instances of DatabaseManager for TLC.                                   *)
EXTENDS DatabaseManager, TLC

Symmetry == Permutations(Threads) \cup Permutations(Conns)

AllFaults == [execute |-> {"integrity", "busy", "driver"},
              transaction |-> {"integrity", "busy", "driver", "body"}]

\* Everything but constraint violations.
DriverFaults == [execute |-> {"busy", "driver"},
                 transaction |-> {"busy", "driver", "body"}]

ConflictFaults == [execute |-> {"integrity"}, transaction |-> {"integrity"}]
=============================================================================
