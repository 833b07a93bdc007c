------------------------------ MODULE Backups ------------------------------
(***************************************************************************)
(* BackupService: VACUUM INTO a new file, then rotation, run by the job    *)
(* and by administrators at the same time.  A file is named by its stamp.  *)
(***************************************************************************)
EXTENDS Naturals, FiniteSetsExt

CONSTANTS Runs,      \* calls of create(), and of delete()
          Keep

ASSUME BackupsAssumption == Keep \in Nat \ {0}

VARIABLES files,     \* the directory
          lastStamp,
          pc, mine,  \* where a call is, and the stamp of its file
          doomed,    \* what _rotate has still to unlink
          whole,     \* files whose VACUUM INTO has ended
          deleted    \* files that delete() removed

backupVars == <<files, lastStamp, pc, mine, doomed, whole, deleted>>

BackupsTypeOK ==
    /\ files \subseteq 1..lastStamp /\ whole \subseteq 1..lastStamp /\ deleted \subseteq 1..lastStamp
    /\ lastStamp \in Nat
    /\ pc \in [Runs -> {"start", "stamped", "vacuum", "list", "unlink", "stat", "checked",
                        "ok", "failed"}]
    /\ mine \in [Runs -> 0..lastStamp]
    /\ doomed \in [Runs -> SUBSET (1..lastStamp)]

BackupsInit ==
    /\ files = {} /\ whole = {} /\ deleted = {}
    /\ lastStamp = 0
    /\ pc = [r \in Runs |-> "start"]
    /\ mine = [r \in Runs |-> 0]
    /\ doomed = [r \in Runs |-> {}]

Newest(n, S) == {f \in S : Cardinality({g \in S : g > f}) < n}

-----------------------------------------------------------------------------
\* Fault variants, each substituted for the definition named beside it.
OldestKept(S) == S \ {f \in S : Cardinality({g \in S : g < f}) < Keep}    \* Surplus

-----------------------------------------------------------------------------
Goto(r, label) == pc' = [pc EXCEPT ![r] = label]

TakeStamp(r) ==
    /\ pc[r] = "start"
    /\ lastStamp' = lastStamp + 1
    /\ mine' = [mine EXCEPT ![r] = lastStamp + 1]
    /\ Goto(r, "stamped")
    /\ UNCHANGED <<files, doomed, whole, deleted>>

\* VACUUM INTO creates the file, fills it, and may fail on the way.
OpenFile(r) ==
    /\ pc[r] = "stamped"
    /\ files' = files \cup {mine[r]}
    /\ Goto(r, "vacuum")
    /\ UNCHANGED <<lastStamp, mine, doomed, whole, deleted>>

Vacuum(r) ==
    /\ pc[r] = "vacuum"
    /\ \/ /\ whole' = whole \cup {mine[r]}
          /\ Goto(r, "list")
       \/ Goto(r, "failed") /\ UNCHANGED whole
    /\ UNCHANGED <<files, lastStamp, mine, doomed, deleted>>

\* sorted(glob)[:-keep]
Surplus(S) == S \ Newest(Keep, S)

List(r) ==
    /\ pc[r] = "list"
    /\ doomed' = [doomed EXCEPT ![r] = Surplus(files)]
    /\ Goto(r, "unlink")
    /\ UNCHANGED <<files, lastStamp, mine, whole, deleted>>

\* unlink(missing_ok=True), oldest first
Unlink(r) ==
    /\ pc[r] = "unlink"
    /\ IF doomed[r] = {}
       THEN Goto(r, "stat") /\ UNCHANGED <<files, doomed>>
       ELSE LET f == Min(doomed[r]) IN
            /\ files' = files \ {f}
            /\ doomed' = [doomed EXCEPT ![r] = @ \ {f}]
            /\ UNCHANGED pc
    /\ UNCHANGED <<lastStamp, mine, whole, deleted>>

\* The audit row comes first; stat() of a file that is gone is an error.
Stat(r) ==
    /\ pc[r] = "stat"
    /\ Goto(r, IF mine[r] \in files THEN "ok" ELSE "failed")
    /\ UNCHANGED <<files, lastStamp, mine, doomed, whole, deleted>>

\* delete(): path_for finds the file, unlink removes it, or raises.
Choose(r) ==
    /\ pc[r] = "start"
    /\ \E f \in files : mine' = [mine EXCEPT ![r] = f]
    /\ Goto(r, "checked")
    /\ UNCHANGED <<files, lastStamp, doomed, whole, deleted>>

DeleteFile(r) ==
    /\ pc[r] = "checked"
    /\ files' = files \ {mine[r]}
    /\ deleted' = IF mine[r] \in files THEN deleted \cup {mine[r]} ELSE deleted
    /\ Goto(r, IF mine[r] \in files THEN "ok" ELSE "failed")
    /\ UNCHANGED <<lastStamp, mine, doomed, whole>>

BackupsNext ==
    \E r \in Runs :
        \/ TakeStamp(r) \/ OpenFile(r) \/ Vacuum(r) \/ List(r) \/ Unlink(r) \/ Stat(r)
        \/ Choose(r) \/ DeleteFile(r)

BackupsSpec == BackupsInit /\ [][BackupsNext]_backupVars

-----------------------------------------------------------------------------
\* "consistent online snapshots (VACUUM INTO) with rotation"
\* (backup_service.py:1): however backups and deletions overlap, a finished
\* backup is there until Keep later ones were begun, or somebody deleted it.
\* Begun, not finished: rotation takes a file that is still being written, or
\* was left by a failure, for a backup.
NewestKept ==
    \A f \in whole \ files : f \in deleted \/ lastStamp - f >= Keep
=============================================================================
