-------------------------------- MODULE Boot --------------------------------
(***************************************************************************)
(* SchemaInitializer.ensure() in containers that boot against one SQLite   *)
(* file, as ApplicationBuilder runs it before a container serves.          *)
(*                                                                         *)
(* DDL commits by itself; the first INSERT of a transaction takes the      *)
(* write lock, which others wait for until their busy time-out.  A         *)
(* container that could not boot, or died, is started again from outside.  *)
(***************************************************************************)
EXTENDS Naturals, SequencesExt

CONSTANTS Containers, NoOne,
          OldColumns,   \* columns of users in the databases of earlier releases
          MaxCrashes    \* bound of the crashes

\* _TABLES, and what CREATE TABLE users already has of the later columns.
Tables == {"users", "menus", "audit_logs", "db_connections", "contents", "system_settings",
           "contact_messages", "redirects", "traffic_stats", "traffic_daily"}
\* What the community edition creates: its columns are the same.
CommunityTables == Tables \ {"redirects", "traffic_stats", "traffic_daily"}
CreatedColumns == {"token_version", "must_change_password"}

\* _MIGRATION_COLUMNS, in order.
Columns == <<"token_version", "must_change_password", "totp_secret", "totp_enabled">>

ASSUME BootAssumption ==
    NoOne \notin Containers /\ OldColumns \subseteq ToSet(Columns) /\ MaxCrashes \in Nat

\* The tables _seed fills, in order.
Seeds == <<"users", "menus", "contents", "system_settings">>
SeedTables == ToSet(Seeds)

VARIABLES tables, columns, fts,   \* the schema in the file
          seeded,      \* seeded[t]: how many times t was seeded, 0 when it is empty
          writer,    \* who has the write lock
          bootPc, step,  \* where a container is, at which column or table
          pending,   \* tables seeded by the open transaction
          crashes,
          emptied    \* an administrator deleted every menu item

bootVars == <<tables, columns, fts, seeded, writer, bootPc, step, pending, crashes, emptied>>
schemaVars == <<tables, columns, fts>>

BootTypeOK ==
    /\ tables \subseteq Tables /\ columns \subseteq ToSet(Columns) /\ fts \in BOOLEAN
    /\ seeded \in [SeedTables -> Nat]
    /\ writer \in Containers \cup {NoOne}
    /\ bootPc \in [Containers -> {"down", "create", "check", "alter", "fts", "count",
                              "insert", "commit", "up"}]
    /\ step \in [Containers -> 1..4]
    /\ pending \in [Containers -> SUBSET SeedTables]
    /\ crashes \in 0..MaxCrashes
    /\ emptied \in BOOLEAN

\* A new file, one of an earlier release, or one of the community edition, of
\* which the index may be there as well.
BootInit ==
    /\ \/ tables = {} /\ columns = {} /\ fts = FALSE /\ seeded = [t \in SeedTables |-> 0]
       \/ tables = Tables /\ columns = OldColumns /\ fts = FALSE
             /\ seeded = [t \in SeedTables |-> 1]
       \/ tables = CommunityTables /\ columns = ToSet(Columns) /\ fts \in BOOLEAN
             /\ seeded = [t \in SeedTables |-> 1]
    /\ writer = NoOne
    /\ bootPc = [c \in Containers |-> "down"]
    /\ step = [c \in Containers |-> 1]
    /\ pending = [c \in Containers |-> {}]
    /\ crashes = 0
    /\ emptied = FALSE

-----------------------------------------------------------------------------
BootAt(c, label, k) == bootPc' = [bootPc EXCEPT ![c] = label] /\ step' = [step EXCEPT ![c] = k]

\* Fault variants, each substituted for the definition named beside it.
ColumnUnknown(c) == FALSE                                           \* HasColumn
AccountsKept(t) == seeded[t] = 0 /\ t # "users"                       \* IsEmpty
NoConflict(t) == FALSE                                              \* HasUnique

-----------------------------------------------------------------------------
Free(c) == writer \in {NoOne, c}

Start(c) ==
    /\ bootPc[c] = "down"
    /\ BootAt(c, "create", 1)
    /\ UNCHANGED <<schemaVars, seeded, writer, pending, crashes, emptied>>

\* CREATE ... IF NOT EXISTS: what a crash in between leaves is completed later.
CreateTables(c) ==
    /\ bootPc[c] = "create" /\ Free(c)
    /\ columns' = IF "users" \in tables THEN columns ELSE CreatedColumns
    /\ tables' = Tables
    /\ BootAt(c, "check", 1)
    /\ UNCHANGED <<fts, seeded, writer, pending, crashes, emptied>>

HasColumn(c) == Columns[step[c]] \in columns

NextColumn(c) == IF step[c] = Len(Columns) THEN BootAt(c, "fts", 1) ELSE BootAt(c, "check", step[c] + 1)

\* PRAGMA table_info
CheckColumn(c) ==
    /\ bootPc[c] = "check"
    /\ IF HasColumn(c) THEN NextColumn(c) ELSE BootAt(c, "alter", step[c])
    /\ UNCHANGED <<schemaVars, seeded, writer, pending, crashes, emptied>>

AddColumn(c) ==
    /\ bootPc[c] = "alter" /\ Free(c)
    /\ Columns[step[c]] \notin columns
    /\ columns' = columns \cup {Columns[step[c]]}
    /\ NextColumn(c)
    /\ UNCHANGED <<tables, fts, seeded, writer, pending, crashes, emptied>>

\* The column is there by now, or the lock is not to be had: the exception of
\* DDL outside the try block ends the boot.
DdlFails(c) ==
    /\ \/ bootPc[c] = "alter" /\ Columns[step[c]] \in columns
       \/ bootPc[c] \in {"create", "alter"} /\ ~Free(c)
    /\ BootAt(c, "down", 1)
    /\ UNCHANGED <<schemaVars, seeded, writer, pending, crashes, emptied>>

\* _ensure_fts goes on without the index when it cannot build it.
BuildIndex(c) ==
    /\ bootPc[c] = "fts"
    /\ \/ Free(c) /\ fts' = TRUE
       \/ UNCHANGED fts
    /\ BootAt(c, "count", 1)
    /\ UNCHANGED <<tables, columns, seeded, writer, pending, crashes, emptied>>

-----------------------------------------------------------------------------
(* _seed, in a transaction. *)

IsEmpty(t) == seeded[t] = 0

NextSeed(c) == IF step[c] = Len(Seeds) THEN BootAt(c, "commit", 1) ELSE BootAt(c, "count", step[c] + 1)

CountSeeds(c) ==
    /\ bootPc[c] = "count"
    /\ IF IsEmpty(Seeds[step[c]]) THEN BootAt(c, "insert", step[c]) ELSE NextSeed(c)
    /\ UNCHANGED <<schemaVars, seeded, writer, pending, crashes, emptied>>

\* username, slug and key are UNIQUE.
HasUnique(t) == t # "menus"

Conflicts(c) == HasUnique(Seeds[step[c]]) /\ seeded[Seeds[step[c]]] > 0

InsertSeed(c) ==
    /\ bootPc[c] = "insert" /\ Free(c) /\ ~Conflicts(c)
    /\ writer' = c
    /\ pending' = [pending EXCEPT ![c] = @ \cup {Seeds[step[c]]}]
    /\ NextSeed(c)
    /\ UNCHANGED <<schemaVars, seeded, crashes, emptied>>

Unlock(c) ==
    /\ writer' = IF writer = c THEN NoOne ELSE writer
    /\ pending' = [pending EXCEPT ![c] = {}]

\* "another instance seeded first": a conflict or a busy database rolls the
\* transaction back, and the container serves.
SeedSkipped(c) ==
    /\ bootPc[c] = "insert" /\ (~Free(c) \/ Conflicts(c))
    /\ Unlock(c)
    /\ BootAt(c, "up", 1)
    /\ UNCHANGED <<schemaVars, seeded, crashes, emptied>>

CommitSeed(c) ==
    /\ bootPc[c] = "commit"
    /\ seeded' = [t \in SeedTables |-> IF t \in pending[c] THEN seeded[t] + 1 ELSE seeded[t]]
    /\ Unlock(c)
    /\ BootAt(c, "up", 1)
    /\ UNCHANGED <<schemaVars, crashes, emptied>>

-----------------------------------------------------------------------------
ContainerDies(c) ==
    /\ crashes < MaxCrashes /\ bootPc[c] # "down"
    /\ crashes' = crashes + 1
    /\ Unlock(c)
    /\ BootAt(c, "down", 1)
    /\ UNCHANGED <<schemaVars, seeded, emptied>>

\* MenuService.delete of every item, in a container that is up.
EmptyMenus ==
    /\ \E c \in Containers : bootPc[c] = "up"
    /\ writer = NoOne /\ ~emptied
    /\ seeded' = [seeded EXCEPT !["menus"] = 0]
    /\ emptied' = TRUE
    /\ UNCHANGED <<schemaVars, writer, bootPc, step, pending, crashes>>

BootStep(c) ==
    \/ Start(c) \/ CreateTables(c) \/ CheckColumn(c) \/ AddColumn(c) \/ DdlFails(c)
    \/ BuildIndex(c) \/ CountSeeds(c) \/ InsertSeed(c) \/ SeedSkipped(c) \/ CommitSeed(c)

BootNext ==
    \/ \E c \in Containers : BootStep(c) \/ ContainerDies(c)
    \/ EmptyMenus

BootSpec == BootInit /\ [][BootNext]_bootVars

-----------------------------------------------------------------------------
\* "the first one wins the seed, the others just continue" (schema.py:205):
\* nothing is seeded twice, except menus that an administrator had emptied
\* before two containers booted side by side: no UNIQUE column stops the second.
SeededOnce == \A t \in SeedTables : seeded[t] <= 1 \/ (t = "menus" /\ emptied)

\* A container that serves finds every table and column it was written for,
\* whichever containers created them.
UpMeansMigrated ==
    \A c \in Containers : bootPc[c] = "up" => tables = Tables /\ columns = ToSet(Columns)

\* A container that skipped the seed counts on the one it lost to: there is an
\* account to log in with, or its seeder is still at it, or it died meanwhile.
UpMeansSeeded ==
    \A c \in Containers : bootPc[c] = "up" =>
        \/ seeded["users"] > 0
        \/ \E d \in Containers : "users" \in pending[d]
        \/ crashes > 0

\* Both: a container that serves was started on a complete database.
UpMeansReady == UpMeansMigrated /\ UpMeansSeeded

\* Two containers that see the same column missing cannot both add it, and the
\* second fails to boot; started again, each comes up in the end: from the
\* first start on, all are up sooner or later, as crashes are bounded.
AllComeUp ==
    (\E c \in Containers : bootPc[c] # "down") ~> (\A c \in Containers : bootPc[c] = "up")
=============================================================================
