----------------------------- MODULE AtomicUnits -----------------------------
(***************************************************************************)
(* What the unit of work promises (infrastructure/database/unit_of_work.py *)
(* and manager.py), without connections, statements or locks: the writes   *)
(* of a unit are stored together or not at all, and its caller is told     *)
(* which.                                                                  *)
(*                                                                         *)
(* Two things the code does not promise.  After a driver error of an       *)
(* autocommit statement its caller cannot know whether it is stored.  And  *)
(* whoever gives up in that way may harm others, though none that was      *)
(* already answered.                                                       *)
(***************************************************************************)

CONSTANT Units

VARIABLES stored,   \* the units that are in the database
          ended,    \* ended[u]: what the caller was told
          harmed    \* units that somebody else rolled back

unitsVars == <<stored, ended, harmed>>

UnitsTypeOK ==
    /\ stored \subseteq Units \ harmed
    /\ ended \in [Units -> {"open", "returned", "raised", "unknown"}]
    /\ harmed \subseteq Units

UnitsInit ==
    /\ stored = {}
    /\ ended = [u \in Units |-> "open"]
    /\ harmed = {}

\* Those whose callers have not been told whether they are stored.
Undecided == {u \in Units : ended[u] \in {"open", "unknown"}}

End(u, answer) ==
    /\ ended[u] = "open"
    /\ ended' = [ended EXCEPT ![u] = answer]

\* A commit: of one unit, and of what failed commits left on its connection.
Store(S) ==
    /\ S \subseteq Undecided \ harmed
    /\ stored' = stored \cup S
    /\ UNCHANGED <<ended, harmed>>

Return(u) ==
    /\ u \in stored \cup harmed
    /\ End(u, "returned")
    /\ UNCHANGED <<stored, harmed>>

Raise(u) ==
    /\ u \notin stored
    /\ End(u, "raised")
    /\ UNCHANGED <<stored, harmed>>

GiveUp(u, S) ==
    /\ End(u, "unknown")
    /\ S \subseteq Undecided
    /\ stored' = stored \ S
    /\ harmed' = harmed \cup S

UnitsNext ==
    \/ \E S \in SUBSET Units : Store(S)
    \/ \E u \in Units : Return(u) \/ Raise(u) \/ \E S \in SUBSET Units : GiveUp(u, S)

UnitsSpec == UnitsInit /\ [][UnitsNext]_unitsVars
=============================================================================
