-------------------------- MODULE OperationsProofs --------------------------
(***************************************************************************)
(* Proofs about what keeps a deployment running: booting against a shared  *)
(* database, constructing services, backups, the daily jobs and the        *)
(* traffic counters.                                                       *)
(***************************************************************************)
EXTENDS Boot, Container, Backups, DailySchedule, Traffic, FiniteSetTheorems,
        SequenceTheorems, WellFoundedInduction, TLAPS

-----------------------------------------------------------------------------
(* Any number of containers of any release boot against one database. *)

BootLabels == {"down", "create", "check", "alter", "fts", "count", "insert", "commit", "up"}

\* The four seeded tables, and their order.
LEMMA SeedFacts ==
    /\ Len(Seeds) = 4 /\ Seeds[1] = "users" /\ Seeds[2] = "menus"
    /\ Seeds[3] = "contents" /\ Seeds[4] = "system_settings"
    /\ SeedTables = {"users", "menus", "contents", "system_settings"}
<1>1. DOMAIN Seeds = 1..4
  BY DEF Seeds
<1>2. SeedTables = {Seeds[i] : i \in 1..4}
  BY <1>1 DEF SeedTables, ToSet
<1>3. /\ Len(Seeds) = 4 /\ Seeds[1] = "users" /\ Seeds[2] = "menus"
      /\ Seeds[3] = "contents" /\ Seeds[4] = "system_settings"
  BY DEF Seeds
<1> QED  BY <1>2, <1>3

\* The four columns added since the first release; a created table has them all.
LEMMA ColumnFacts ==
    /\ Len(Columns) = 4
    /\ ToSet(Columns) = {Columns[i] : i \in 1..4}
    /\ CreatedColumns \subseteq ToSet(Columns)
<1>1. DOMAIN Columns = 1..4
  BY DEF Columns
<1>2. ToSet(Columns) = {Columns[i] : i \in 1..4}
  BY <1>1 DEF ToSet
<1>3. Len(Columns) = 4 /\ Columns[1] = "token_version" /\ Columns[2] = "must_change_password"
  BY DEF Columns
<1> QED  BY <1>2, <1>3 DEF CreatedColumns

\* A container past the schema finds what it was written for; on the way, the
\* columns it has passed are there.  Nothing else removes tables or columns.
SchemaOK(c) ==
    /\ bootPc[c] \notin {"down", "create"} => tables = Tables
    /\ bootPc[c] \in {"check", "alter"} => \A i \in 1..4 : i < step[c] => Columns[i] \in columns
    /\ bootPc[c] \in {"fts", "count", "insert", "commit", "up"} => columns = ToSet(Columns)

SchemaInv == \A c \in Containers : SchemaOK(c)

Unique == {"users", "contents", "system_settings"}

\* The unique tables are seeded together, and the menus with them until they
\* are emptied.
TogetherInv ==
    /\ (\A t \in Unique : seeded[t] = 0) \/ (\A t \in Unique : seeded[t] = 1)
    /\ ~emptied => seeded["menus"] = seeded["users"]

PastUsers(c) == bootPc[c] = "commit" \/ (bootPc[c] \in {"count", "insert"} /\ step[c] > 1)
Passed(c) == {i \in 1..4 : bootPc[c] = "commit" \/ i < step[c]}

\* Between the first table and the commit a container either seeds them all
\* under the lock, in a database where none was, or at most emptied menus.
SeedsAll(c) ==
    /\ writer = c
    /\ \A t \in Unique : seeded[t] = 0
    /\ \A i \in Passed(c) : i # 2 => Seeds[i] \in pending[c]
    /\ ~emptied /\ 2 \in Passed(c) => "menus" \in pending[c]

SeedsMenus(c) ==
    /\ \A t \in Unique : seeded[t] = 1
    /\ pending[c] \subseteq {"menus"}
    /\ bootPc[c] = "insert" => step[c] = 2 /\ emptied
    /\ pending[c] # {} => emptied

SeedOK(c) ==
    /\ pending[c] # {} => writer = c
    /\ writer = c => PastUsers(c)
    /\ PastUsers(c) => SeedsAll(c) \/ SeedsMenus(c)

SeedInv == \A c \in Containers : SeedOK(c)

BootInv ==
    /\ BootTypeOK /\ SchemaInv /\ TogetherInv /\ SeedInv /\ UpMeansSeeded

LEMMA BootStarts == BootInit => BootInv
<1> SUFFICES ASSUME BootInit PROVE BootInv
  OBVIOUS
<1> USE SeedFacts, ColumnFacts, BootAssumption DEF BootInit
<1>1. BootTypeOK
  <2>1. tables \subseteq Tables /\ columns \subseteq ToSet(Columns) /\ fts \in BOOLEAN
    BY DEF Tables, CommunityTables, BootAssumption
  <2>2. seeded \in [SeedTables -> Nat]
    OBVIOUS
  <2>3. bootPc \in [Containers -> BootLabels]
    BY DEF BootLabels
  <2>4. step \in [Containers -> 1..4]
    OBVIOUS
  <2>5. pending \in [Containers -> SUBSET SeedTables]
    OBVIOUS
  <2>6. writer \in Containers \cup {NoOne} /\ crashes \in 0..MaxCrashes
    OBVIOUS
  <2>7. emptied \in BOOLEAN
    BY Zenon
  <2> QED  BY <2>1, <2>2, <2>3, <2>4, <2>5, <2>6, <2>7 DEF BootTypeOK, BootLabels
<1>2. SchemaInv
  BY DEF SchemaInv, SchemaOK
<1>3. TogetherInv
  BY DEF TogetherInv, Unique
<1>4. SeedInv
  BY DEF SeedInv, SeedOK, PastUsers
<1>5. UpMeansSeeded
  BY DEF UpMeansSeeded
<1> QED  BY <1>1, <1>2, <1>3, <1>4, <1>5 DEF BootInv

LEMMA BootTypeKept == BootInv /\ [BootNext]_bootVars => BootTypeOK'
<1> SUFFICES ASSUME BootInv, [BootNext]_bootVars PROVE BootTypeOK'
  OBVIOUS
<1> USE SeedFacts, ColumnFacts, BootAssumption DEF BootInv, BootTypeOK, schemaVars
<1>1. ASSUME NEW c \in Containers, Start(c) PROVE BootTypeOK'
  BY <1>1 DEF Start, BootAt
<1>2. ASSUME NEW c \in Containers, CreateTables(c) PROVE BootTypeOK'
  BY <1>2 DEF CreateTables, BootAt
<1>3. ASSUME NEW c \in Containers, CheckColumn(c) PROVE BootTypeOK'
  BY <1>3 DEF CheckColumn, BootAt, NextColumn
<1>4. ASSUME NEW c \in Containers, AddColumn(c) PROVE BootTypeOK'
  BY <1>4 DEF AddColumn, BootAt, NextColumn
<1>5. ASSUME NEW c \in Containers, DdlFails(c) PROVE BootTypeOK'
  BY <1>5 DEF DdlFails, BootAt
<1>6. ASSUME NEW c \in Containers, BuildIndex(c) PROVE BootTypeOK'
  <2>1. fts' \in BOOLEAN
    <3>1. fts' = TRUE \/ fts' = fts
      BY <1>6 DEF BuildIndex
    <3> QED  BY <3>1
  <2> QED  BY <1>6, <2>1 DEF BuildIndex, BootAt
<1>7. ASSUME NEW c \in Containers, CountSeeds(c) PROVE BootTypeOK'
  BY <1>7 DEF CountSeeds, BootAt, NextSeed
<1>8. ASSUME NEW c \in Containers, InsertSeed(c) PROVE BootTypeOK'
  <2>1. Seeds[step[c]] \in SeedTables
    BY DEF SeedTables
  <2>2. pending' \in [Containers -> SUBSET SeedTables]
    BY <1>8, <2>1 DEF InsertSeed
  <2>3. bootPc' \in [Containers -> BootLabels] /\ step' \in [Containers -> 1..4]
    BY <1>8 DEF InsertSeed, BootAt, NextSeed, BootLabels
  <2>4. /\ tables' \subseteq Tables /\ columns' \subseteq ToSet(Columns) /\ fts' \in BOOLEAN
        /\ seeded' \in [SeedTables -> Nat]
    BY <1>8 DEF InsertSeed
  <2>5. writer' \in Containers \cup {NoOne} /\ crashes' \in 0..MaxCrashes
    BY <1>8 DEF InsertSeed
  <2>6. emptied' \in BOOLEAN
    BY <1>8 DEF InsertSeed
  <2> QED  BY <2>2, <2>3, <2>4, <2>5, <2>6, Zenon DEF BootLabels
<1>9. ASSUME NEW c \in Containers, SeedSkipped(c) PROVE BootTypeOK'
  BY <1>9 DEF SeedSkipped, BootAt, Unlock
<1>10. ASSUME NEW c \in Containers, CommitSeed(c) PROVE BootTypeOK'
  BY <1>10 DEF CommitSeed, BootAt, Unlock
<1>11. ASSUME NEW c \in Containers, ContainerDies(c) PROVE BootTypeOK'
  BY <1>11 DEF ContainerDies, BootAt, Unlock, BootAssumption
<1>12. ASSUME EmptyMenus PROVE BootTypeOK'
  BY <1>12 DEF EmptyMenus
<1>13. ASSUME UNCHANGED bootVars PROVE BootTypeOK'
  BY <1>13 DEF bootVars
<1> QED  BY <1>1, <1>2, <1>3, <1>4, <1>5, <1>6, <1>7, <1>8, <1>9, <1>10, <1>11, <1>12, <1>13
         DEF BootNext, BootStep

LEMMA SchemaKept == BootInv /\ [BootNext]_bootVars => SchemaInv'
<1> SUFFICES ASSUME BootInv, [BootNext]_bootVars, NEW d \in Containers PROVE SchemaOK(d)'
  BY DEF SchemaInv
<1> USE ColumnFacts DEF BootInv, BootTypeOK, schemaVars, SchemaInv
<1>1. ASSUME NEW c \in Containers, Start(c) PROVE SchemaOK(d)'
  BY <1>1 DEF Start, BootAt, SchemaOK
<1>2. ASSUME NEW c \in Containers, CreateTables(c) PROVE SchemaOK(d)'
  BY <1>2 DEF CreateTables, BootAt, SchemaOK, Tables
<1>3. ASSUME NEW c \in Containers, CheckColumn(c) PROVE SchemaOK(d)'
  <2>1. CASE d # c
    BY <1>3, <2>1 DEF CheckColumn, BootAt, NextColumn, SchemaOK
  <2>2. CASE d = c /\ ~HasColumn(c)
    BY <1>3, <2>2 DEF CheckColumn, BootAt, SchemaOK
  <2>3. CASE d = c /\ HasColumn(c) /\ step[c] = 4
    <3>1. \A i \in 1..4 : Columns[i] \in columns
      BY <1>3, <2>3 DEF CheckColumn, HasColumn, SchemaOK
    <3>2. columns = ToSet(Columns)
      BY <3>1
    <3> QED  BY <1>3, <2>3, <3>2 DEF CheckColumn, BootAt, NextColumn, SchemaOK
  <2>4. CASE d = c /\ HasColumn(c) /\ step[c] # 4
    BY <1>3, <2>4 DEF CheckColumn, HasColumn, BootAt, NextColumn, SchemaOK
  <2> QED  BY <2>1, <2>2, <2>3, <2>4, Zenon
<1>4. ASSUME NEW c \in Containers, AddColumn(c) PROVE SchemaOK(d)'
  BY <1>4 DEF AddColumn, BootAt, NextColumn, SchemaOK
<1>5. ASSUME NEW c \in Containers, DdlFails(c) PROVE SchemaOK(d)'
  BY <1>5 DEF DdlFails, BootAt, SchemaOK
<1>6. ASSUME NEW c \in Containers, BuildIndex(c) PROVE SchemaOK(d)'
  BY <1>6 DEF BuildIndex, BootAt, SchemaOK
<1>7. ASSUME NEW c \in Containers, CountSeeds(c) PROVE SchemaOK(d)'
  BY <1>7 DEF CountSeeds, BootAt, NextSeed, SchemaOK
<1>8. ASSUME NEW c \in Containers, InsertSeed(c) PROVE SchemaOK(d)'
  BY <1>8 DEF InsertSeed, BootAt, NextSeed, SchemaOK
<1>9. ASSUME NEW c \in Containers, SeedSkipped(c) PROVE SchemaOK(d)'
  BY <1>9 DEF SeedSkipped, BootAt, Unlock, SchemaOK
<1>10. ASSUME NEW c \in Containers, CommitSeed(c) PROVE SchemaOK(d)'
  BY <1>10 DEF CommitSeed, BootAt, Unlock, SchemaOK
<1>11. ASSUME NEW c \in Containers, ContainerDies(c) PROVE SchemaOK(d)'
  BY <1>11 DEF ContainerDies, BootAt, Unlock, SchemaOK
<1>12. ASSUME EmptyMenus PROVE SchemaOK(d)'
  BY <1>12 DEF EmptyMenus, SchemaOK
<1>13. ASSUME UNCHANGED bootVars PROVE SchemaOK(d)'
  BY <1>13 DEF bootVars, SchemaOK
<1> QED  BY <1>1, <1>2, <1>3, <1>4, <1>5, <1>6, <1>7, <1>8, <1>9, <1>10, <1>11, <1>12, <1>13
         DEF BootNext, BootStep

LEMMA SeedKept == BootInv /\ [BootNext]_bootVars => SeedInv'
<1> SUFFICES ASSUME BootInv, [BootNext]_bootVars, NEW d \in Containers PROVE SeedOK(d)'
  BY DEF SeedInv
<1> USE SeedFacts, BootAssumption DEF BootInv, BootTypeOK, schemaVars, SeedInv, PastUsers, Passed, SeedsAll, SeedsMenus, TogetherInv, Unique, Conflicts, HasUnique, IsEmpty, Free
<1>1. ASSUME NEW c \in Containers, Start(c) PROVE SeedOK(d)'
  BY <1>1 DEF Start, BootAt, SeedOK
<1>2. ASSUME NEW c \in Containers, CreateTables(c) PROVE SeedOK(d)'
  BY <1>2 DEF CreateTables, BootAt, SeedOK
<1>3. ASSUME NEW c \in Containers, CheckColumn(c) PROVE SeedOK(d)'
  BY <1>3 DEF CheckColumn, HasColumn, BootAt, NextColumn, SeedOK
<1>4. ASSUME NEW c \in Containers, AddColumn(c) PROVE SeedOK(d)'
  BY <1>4 DEF AddColumn, BootAt, NextColumn, SeedOK
<1>5. ASSUME NEW c \in Containers, DdlFails(c) PROVE SeedOK(d)'
  BY <1>5 DEF DdlFails, BootAt, SeedOK
<1>6. ASSUME NEW c \in Containers, BuildIndex(c) PROVE SeedOK(d)'
  BY <1>6 DEF BuildIndex, BootAt, SeedOK
<1>7. ASSUME NEW c \in Containers, CountSeeds(c) PROVE SeedOK(d)'
  <2>1. CASE d # c
    BY <1>7, <2>1 DEF CountSeeds, BootAt, NextSeed, SeedOK
  <2>2. CASE d = c /\ IsEmpty(Seeds[step[c]])
    BY <1>7, <2>2 DEF CountSeeds, BootAt, SeedOK
  <2>3. CASE d = c /\ ~IsEmpty(Seeds[step[c]]) /\ step[c] = 1
    BY <1>7, <2>3 DEF CountSeeds, BootAt, NextSeed, SeedOK
  <2>4. CASE d = c /\ ~IsEmpty(Seeds[step[c]]) /\ step[c] # 1
    BY <1>7, <2>4 DEF CountSeeds, BootAt, NextSeed, SeedOK
  <2> QED  BY <2>1, <2>2, <2>3, <2>4, Zenon
<1>8. ASSUME NEW c \in Containers, InsertSeed(c) PROVE SeedOK(d)'
  <2>1. CASE d # c
    BY <1>8, <2>1 DEF InsertSeed, BootAt, NextSeed, SeedOK
  <2>2. CASE d = c /\ step[c] = 1
    BY <1>8, <2>2 DEF InsertSeed, BootAt, NextSeed, SeedOK
  <2>3. CASE d = c /\ step[c] # 1 /\ SeedsAll(c)
    BY <1>8, <2>3 DEF InsertSeed, BootAt, NextSeed, SeedOK
  <2>4. CASE d = c /\ step[c] # 1 /\ SeedsMenus(c)
    BY <1>8, <2>4 DEF InsertSeed, BootAt, NextSeed, SeedOK
  <2>5. step[c] # 1 => SeedsAll(c) \/ SeedsMenus(c)
    BY <1>8 DEF InsertSeed, SeedOK
  <2> QED  BY <2>1, <2>2, <2>3, <2>4, <2>5, Zenon
<1>9. ASSUME NEW c \in Containers, SeedSkipped(c) PROVE SeedOK(d)'
  <2>1. CASE d = c
    BY <1>9, <2>1 DEF SeedSkipped, BootAt, Unlock, SeedOK
  <2>2. CASE d # c
    BY <1>9, <2>2 DEF SeedSkipped, BootAt, Unlock, SeedOK
  <2> QED  BY <2>1, <2>2, Zenon
<1>10. ASSUME NEW c \in Containers, CommitSeed(c) PROVE SeedOK(d)'
  <2>1. CASE d = c
    BY <1>10, <2>1 DEF CommitSeed, BootAt, Unlock, SeedOK
  <2>2. CASE d # c /\ pending[c] = {}
    BY <1>10, <2>2 DEF CommitSeed, BootAt, Unlock, SeedOK
  <2>3. CASE d # c /\ pending[c] # {} /\ PastUsers(d)
    <3>1. writer = c /\ pending[d] = {} /\ SeedsMenus(d)
      BY <2>3 DEF SeedOK
    <3>2. pending[c] \subseteq {"menus"}
      BY <1>10, <3>1 DEF CommitSeed, SeedOK
    <3>3. \A t \in Unique : seeded'[t] = 1
      BY <1>10, <3>1, <3>2 DEF CommitSeed
    <3>4. bootPc'[d] = bootPc[d] /\ step'[d] = step[d] /\ pending'[d] = {} /\ emptied' = emptied
      BY <1>10, <2>3, <3>1 DEF CommitSeed, BootAt, Unlock
    <3>5. writer' # d
      BY <1>10, <3>1 DEF CommitSeed, Unlock
    <3> QED  BY <2>3, <3>1, <3>3, <3>4, <3>5 DEF SeedOK
  <2>4. CASE d # c /\ pending[c] # {} /\ ~PastUsers(d)
    BY <1>10, <2>4 DEF CommitSeed, BootAt, Unlock, SeedOK
  <2> QED  BY <2>1, <2>2, <2>3, <2>4, Zenon
<1>11. ASSUME NEW c \in Containers, ContainerDies(c) PROVE SeedOK(d)'
  BY <1>11 DEF ContainerDies, BootAt, Unlock, SeedOK
<1>12. ASSUME EmptyMenus PROVE SeedOK(d)'
  BY <1>12 DEF EmptyMenus, SeedOK
<1>13. ASSUME UNCHANGED bootVars PROVE SeedOK(d)'
  BY <1>13 DEF bootVars, SeedOK
<1> QED  BY <1>1, <1>2, <1>3, <1>4, <1>5, <1>6, <1>7, <1>8, <1>9, <1>10, <1>11, <1>12, <1>13
         DEF BootNext, BootStep

LEMMA TogetherKept == BootInv /\ [BootNext]_bootVars => TogetherInv'
<1> SUFFICES ASSUME BootInv, [BootNext]_bootVars PROVE TogetherInv'
  OBVIOUS
<1> USE SeedFacts DEF BootInv, BootTypeOK, TogetherInv, Unique
<1>1. CASE \E c \in Containers : CommitSeed(c)
  <2> PICK c \in Containers : CommitSeed(c)
    BY <1>1
  <2>1. emptied' = emptied /\ \A t \in SeedTables :
            seeded'[t] = IF t \in pending[c] THEN seeded[t] + 1 ELSE seeded[t]
    BY DEF CommitSeed
  <2>2. CASE SeedsAll(c)
    <3>1. Passed(c) = 1..4
      BY DEF CommitSeed, Passed
    <3>2. \A t \in Unique : t \in pending[c] /\ seeded[t] = 0
      BY <2>2, <3>1 DEF SeedsAll
    <3>3. ~emptied => "menus" \in pending[c]
      BY <2>2, <3>1 DEF SeedsAll
    <3> QED  BY <2>1, <3>2, <3>3
  <2>3. CASE SeedsMenus(c)
    BY <2>1, <2>3 DEF SeedsMenus
  <2> QED  BY <2>2, <2>3 DEF SeedInv, SeedOK, PastUsers, CommitSeed
<1>2. CASE EmptyMenus
  BY <1>2 DEF EmptyMenus
<1>3. CASE UNCHANGED <<seeded, emptied>>
  BY <1>3
<1> QED
  BY <1>1, <1>2, <1>3 DEF BootNext, BootStep, bootVars, Start, CreateTables, CheckColumn, AddColumn,
        DdlFails, BuildIndex, CountSeeds, InsertSeed, SeedSkipped, ContainerDies

\* Somebody answers for the accounts.
SomeAccount == seeded["users"] > 0 \/ (\E d \in Containers : "users" \in pending[d]) \/ crashes > 0

\* Once there is an account, a seed of one, or a crash, there is one from then on.
LEMMA AccountKept == BootInv /\ [BootNext]_bootVars /\ SomeAccount => SomeAccount'
<1> SUFFICES ASSUME BootInv, [BootNext]_bootVars, SomeAccount PROVE SomeAccount'
  OBVIOUS
<1> USE SeedFacts DEF BootInv, BootTypeOK, SomeAccount
<1>1. CASE \E c \in Containers : CommitSeed(c)
  <2> PICK c \in Containers : CommitSeed(c)
    BY <1>1
  <2>1. seeded'["users"] = IF "users" \in pending[c] THEN seeded["users"] + 1 ELSE seeded["users"]
    BY DEF CommitSeed
  <2>2. crashes' = crashes /\ pending' = [pending EXCEPT ![c] = {}]
    BY DEF CommitSeed, Unlock
  <2> QED  BY <2>1, <2>2
<1>2. CASE \E c \in Containers : SeedSkipped(c)
  <2> PICK c \in Containers : SeedSkipped(c)
    BY <1>2
  <2>1. "users" \notin pending[c]
    <3> SUFFICES ASSUME "users" \in pending[c] PROVE FALSE
      OBVIOUS
    <3>1. writer = c /\ bootPc[c] = "insert" /\ Conflicts(c)
      BY DEF SeedSkipped, SeedInv, SeedOK, Free
    <3>2. SeedsAll(c)
      BY <3>1 DEF SeedInv, SeedOK, SeedsMenus
    <3> QED  BY <3>1, <3>2 DEF SeedsAll, Conflicts, HasUnique, Unique
  <2> QED  BY <2>1 DEF SeedSkipped, Unlock
<1>3. CASE \E c \in Containers : ContainerDies(c)
  BY <1>3 DEF ContainerDies
<1>4. CASE \E c \in Containers : InsertSeed(c)
  BY <1>4 DEF InsertSeed
<1>5. CASE EmptyMenus
  BY <1>5 DEF EmptyMenus
<1>6. CASE UNCHANGED <<seeded, pending, crashes>>
  BY <1>6
<1> QED
  BY <1>1, <1>2, <1>3, <1>4, <1>5, <1>6 DEF BootNext, BootStep, bootVars, Start, CreateTables,
        CheckColumn, AddColumn, DdlFails, BuildIndex, CountSeeds

\* Whoever comes up without the seed has seen the one that has it.
LEMMA UpIsAnswered ==
    ASSUME BootInv, [BootNext]_bootVars, NEW d \in Containers, bootPc'[d] = "up", bootPc[d] # "up"
    PROVE  SomeAccount'
<1> USE SeedFacts DEF BootInv, BootTypeOK
<1>1. CASE \E c \in Containers : CommitSeed(c)
  <2> PICK c \in Containers : CommitSeed(c)
    BY <1>1
  <2>1. "users" \in pending[c] \/ seeded["users"] > 0
    <3>1. SeedsAll(c) \/ SeedsMenus(c)
      BY DEF SeedInv, SeedOK, PastUsers, CommitSeed
    <3>2. 1 \in Passed(c)
      BY DEF Passed, CommitSeed
    <3> QED  BY <3>1, <3>2 DEF SeedsAll, SeedsMenus, Unique
  <2>2. seeded'["users"] = IF "users" \in pending[c] THEN seeded["users"] + 1 ELSE seeded["users"]
    BY DEF CommitSeed
  <2> QED  BY <2>1, <2>2 DEF SomeAccount
<1>2. CASE \E c \in Containers : SeedSkipped(c)
  <2> PICK c \in Containers : SeedSkipped(c)
    BY <1>2
  <2>1. CASE Conflicts(c)
    <3>1. seeded["users"] > 0
      BY <2>1 DEF Conflicts, HasUnique, TogetherInv, Unique
    <3> QED  BY <3>1, AccountKept DEF SomeAccount
  <2>2. CASE ~Free(c)
    <3>1. writer \in Containers /\ PastUsers(writer)
      BY <2>2 DEF Free, SeedInv, SeedOK
    <3>2. SeedsAll(writer) \/ SeedsMenus(writer)
      BY <3>1 DEF SeedInv, SeedOK
    <3>3. 1 \in Passed(writer)
      BY <3>1 DEF PastUsers, Passed
    <3>4. SomeAccount
      BY <3>1, <3>2, <3>3 DEF SeedsAll, SeedsMenus, Unique, SomeAccount
    <3> QED  BY <3>4, AccountKept
  <2> QED  BY <2>1, <2>2 DEF SeedSkipped
<1>3. CASE \E c \in Containers : ContainerDies(c)
  BY <1>3 DEF ContainerDies, BootAt
<1>4. CASE EmptyMenus \/ UNCHANGED bootVars
  BY <1>4 DEF EmptyMenus, bootVars
<1>5. ASSUME NEW c \in Containers,
             Start(c) \/ CreateTables(c) \/ CheckColumn(c) \/ AddColumn(c) \/ DdlFails(c)
             \/ BuildIndex(c) \/ CountSeeds(c) \/ InsertSeed(c)
      PROVE  FALSE
  <2>1. ASSUME NEW label, NEW k, label # "up", BootAt(c, label, k) PROVE FALSE
    BY <2>1 DEF BootAt
  <2>2. CASE Start(c) \/ CreateTables(c) \/ DdlFails(c) \/ BuildIndex(c)
    BY <2>1, <2>2 DEF Start, CreateTables, DdlFails, BuildIndex
  <2>3. CASE CheckColumn(c) \/ AddColumn(c)
    BY <2>1, <2>3 DEF CheckColumn, AddColumn, NextColumn
  <2>4. CASE CountSeeds(c) \/ InsertSeed(c)
    BY <2>1, <2>4 DEF CountSeeds, InsertSeed, NextSeed
  <2> QED  BY <1>5, <2>2, <2>3, <2>4
<1> QED
  BY <1>1, <1>2, <1>3, <1>4, <1>5 DEF BootNext, BootStep

LEMMA UpKept == BootInv /\ [BootNext]_bootVars => UpMeansSeeded'
<1> SUFFICES ASSUME BootInv, [BootNext]_bootVars, NEW d \in Containers, bootPc'[d] = "up"
             PROVE  SomeAccount'
  BY DEF UpMeansSeeded, SomeAccount
<1>1. CASE bootPc[d] = "up"
  <2>1. SomeAccount
    BY <1>1 DEF BootInv, UpMeansSeeded, SomeAccount
  <2> QED  BY <2>1, AccountKept
<1>2. CASE bootPc[d] # "up"
  BY <1>2, UpIsAnswered
<1> QED  BY <1>1, <1>2

\* The inductive invariant of booting containers, for any number of them, of
\* releases and of deaths.
THEOREM BootInvariant == BootSpec => []BootInv
<1>1. BootInv /\ [BootNext]_bootVars => BootInv'
  BY BootTypeKept, SchemaKept, TogetherKept, SeedKept, UpKept DEF BootInv
<1> QED  BY BootStarts, <1>1, PTL DEF BootSpec

\* The variables of booting containers keep their types.
THEOREM BootTypeCorrect == BootSpec => []BootTypeOK
<1>1. BootInv => BootTypeOK
  BY DEF BootInv
<1> QED  BY BootInvariant, <1>1, PTL

\* However many containers boot against one database, whichever die and
\* whatever release it comes from, no table is seeded twice but emptied menus.
THEOREM SeedsOnce == BootSpec => []SeededOnce
<1>1. BootInv => SeededOnce
  <2> SUFFICES ASSUME BootInv, NEW t \in SeedTables PROVE seeded[t] <= 1 \/ (t = "menus" /\ emptied)
    BY DEF SeededOnce
  <2> QED  BY SeedFacts DEF BootInv, BootTypeOK, TogetherInv, Unique
<1> QED  BY BootInvariant, <1>1, PTL

\* A container comes up on a complete schema, and on a database with an account
\* unless the one that was to seed it is still at it, or died.
THEOREM UpIsReady == BootSpec => []UpMeansReady
<1>1. BootInv => UpMeansReady
  BY DEF BootInv, SchemaInv, SchemaOK, UpMeansReady, UpMeansMigrated
<1> QED  BY BootInvariant, <1>1, PTL

\* Whoever has the write lock is in its seed transaction, where nothing waits
\* for another container: it goes on to its commit, gives up, or dies.
WriterSeeds ==
    /\ writer # NoOne => writer \in Containers
    /\ \A c \in Containers : writer = c => bootPc[c] \in {"count", "insert", "commit"}

\* Without the accounts table there is no column to lose.
ColumnsNeedTable == "users" \notin tables => columns = {}

\* The write lock is never left behind, by a boot that fails or dies either, so
\* that all come up if each container only goes on (AllComeUp).
THEOREM LockIsInUse == BootSpec => []WriterSeeds
<1>1. BootInv => WriterSeeds
  BY DEF BootInv, BootTypeOK, SeedInv, SeedOK, PastUsers, WriterSeeds
<1> QED  BY BootInvariant, <1>1, PTL

\* No container takes back what another has migrated: whatever fails, each boot
\* finds no less of the schema than the one before (schema.py:215-232).
THEOREM SchemaGrows ==
    BootSpec => [][tables \subseteq tables' /\ columns \subseteq columns' /\ (fts => fts')]_bootVars
<1>1. BootInit => ColumnsNeedTable
  BY DEF BootInit, ColumnsNeedTable, Tables, CommunityTables
<1>2. ASSUME BootInv, ColumnsNeedTable, BootNext
      PROVE  /\ tables \subseteq tables' /\ columns \subseteq columns' /\ (fts => fts')
             /\ ColumnsNeedTable'
  <2>1. ASSUME NEW c \in Containers, CreateTables(c)
        PROVE  /\ tables \subseteq tables' /\ columns \subseteq columns' /\ (fts => fts')
               /\ ColumnsNeedTable'
    <3>1. tables \subseteq Tables /\ tables' = Tables /\ "users" \in Tables /\ fts' = fts
      BY <1>2, <2>1 DEF CreateTables, BootInv, BootTypeOK, Tables
    <3>2. columns \subseteq columns'
      BY <1>2, <2>1 DEF CreateTables, ColumnsNeedTable
    <3> QED  BY <3>1, <3>2 DEF ColumnsNeedTable
  <2>2. ASSUME NEW c \in Containers, AddColumn(c)
        PROVE  /\ tables \subseteq tables' /\ columns \subseteq columns' /\ (fts => fts')
               /\ ColumnsNeedTable'
    <3>1. tables = Tables /\ tables' = Tables /\ "users" \in Tables
      BY <1>2, <2>2 DEF AddColumn, BootInv, SchemaInv, SchemaOK, Tables
    <3> QED  BY <2>2, <3>1 DEF AddColumn, ColumnsNeedTable
  <2>3. ASSUME NEW c \in Containers, BuildIndex(c)
        PROVE  tables' = tables /\ columns' = columns /\ (fts => fts')
    BY <2>3 DEF BuildIndex
  <2>4. CASE EmptyMenus \/ \E c \in Containers :
                \/ Start(c) \/ CheckColumn(c) \/ DdlFails(c) \/ CountSeeds(c) \/ InsertSeed(c)
                \/ SeedSkipped(c) \/ CommitSeed(c) \/ ContainerDies(c)
    <3>1. UNCHANGED schemaVars
      BY <2>4 DEF EmptyMenus, Start, CheckColumn, DdlFails, CountSeeds, InsertSeed, SeedSkipped,
            CommitSeed, ContainerDies
    <3> QED  BY <1>2, <3>1 DEF schemaVars, ColumnsNeedTable
  <2> QED  BY <1>2, <2>1, <2>2, <2>3, <2>4 DEF BootNext, BootStep, ColumnsNeedTable
<1>3. BootInv /\ ColumnsNeedTable /\ [BootNext]_bootVars => ColumnsNeedTable'
  BY <1>2 DEF bootVars, schemaVars, ColumnsNeedTable
<1>4. BootInv /\ ColumnsNeedTable /\ [BootNext]_bootVars =>
          [tables \subseteq tables' /\ columns \subseteq columns' /\ (fts => fts')]_bootVars
  BY <1>2
<1> QED  BY <1>1, <1>3, <1>4, BootInvariant, PTL DEF BootSpec

-----------------------------------------------------------------------------
(* Any number of threads have their services constructed, in either        *)
(* edition.                                                                *)

Layer0 == {"Database", "Cache", "Mailer"}
ServiceNames == {"AuthService", "UserService", "MenuService", "ContentService", "SearchService",
                 "ContactService", "SiteSettingsService", "RedirectService", "DashboardService",
                 "SystemService"}
Rank(k) == IF k \in Layer0 THEN 0 ELSE IF k \in Repositories THEN 1 ELSE 2

\* What is wired as infrastructure, and what as a service.
LEMMA WiringKeys ==
    /\ DOMAIN InfrastructureNeeds = Layer0 \cup {"AuthHandler"}
    /\ DOMAIN ServiceNeeds = ServiceNames
BY DEF InfrastructureNeeds, ServiceNeeds, ServiceNames, Layer0

\* Infrastructure needs what was given to the container, but for the guard of the
\* requests, which reads accounts.
LEMMA InfrastructureWiring ==
    \A k \in DOMAIN InfrastructureNeeds :
        InfrastructureNeeds[k] \subseteq IF k = "AuthHandler" THEN {"UserRepository"} \cup GivenInstances ELSE {}
BY WiringKeys DEF InfrastructureNeeds, Layer0, GivenInstances

\* Services need infrastructure and repositories; that of the redirects, which the
\* community edition does not have, only its own service.
LEMMA ServiceWiring ==
    \A k \in DOMAIN ServiceNeeds :
        /\ ServiceNeeds[k] \subseteq Layer0 \cup Repositories \cup GivenInstances
        /\ k # "RedirectService" => "RedirectRepository" \notin ServiceNeeds[k]
BY WiringKeys DEF ServiceNeeds, ServiceNames, Layer0, GivenInstances, Repositories

Provided(p) == SingletonsOf(p) \cup GivenInstances

\* What each edition registers.
LEMMA EditionKeys ==
    \A p :
        /\ SingletonsOf(p) \subseteq Layer0 \cup {"AuthHandler"} \cup Repositories \cup ServiceNames
        /\ Layer0 \cup {"AuthHandler", "UserRepository"} \subseteq SingletonsOf(p)
        /\ Repositories \ {"RedirectRepository"} \subseteq SingletonsOf(p)
        /\ ServiceNames \ {"RedirectService"} \subseteq SingletonsOf(p)
        /\ p.edition = "main" => SingletonsOf(p) = Layer0 \cup {"AuthHandler"} \cup Repositories \cup ServiceNames
        /\ p.edition # "main" => "RedirectService" \notin SingletonsOf(p)
<1> SUFFICES ASSUME NEW p
             PROVE  /\ SingletonsOf(p) \subseteq Layer0 \cup {"AuthHandler"} \cup Repositories \cup ServiceNames
                    /\ Layer0 \cup {"AuthHandler", "UserRepository"} \subseteq SingletonsOf(p)
                    /\ Repositories \ {"RedirectRepository"} \subseteq SingletonsOf(p)
                    /\ ServiceNames \ {"RedirectService"} \subseteq SingletonsOf(p)
                    /\ p.edition = "main" => SingletonsOf(p) = Layer0 \cup {"AuthHandler"} \cup Repositories \cup ServiceNames
                    /\ p.edition # "main" => "RedirectService" \notin SingletonsOf(p)
  OBVIOUS
<1>1. CASE p.edition = "main"
  BY <1>1, WiringKeys DEF SingletonsOf, Singletons, Repositories
<1>2. CASE p.edition # "main"
  <2>1. SingletonsOf(p) = (Layer0 \cup {"AuthHandler"}) \cup CommunityRepositories \cup CommunityServices
    BY <1>2, WiringKeys DEF SingletonsOf
  <2>2. /\ CommunityServices = ServiceNames \ {"RedirectService"}
        /\ CommunityRepositories = Repositories \ {"RedirectRepository"}
        /\ "UserRepository" \in CommunityRepositories
    BY WiringKeys DEF CommunityServices, CommunityRepositories, Repositories
  <2>3. "RedirectService" \notin Layer0 \cup {"AuthHandler"} \cup Repositories
    BY DEF Layer0, Repositories
  <2> QED  BY <1>2, <2>1, <2>2, <2>3
<1> QED  BY <1>1, <1>2

\* The layers share no key, and nothing given is constructed.
LEMMA KeysApart ==
    \A p : /\ SingletonsOf(p) \cap GivenInstances = {}
           /\ Repositories \cap ServiceNames = {}
           /\ "AuthHandler" \notin Repositories \cup ServiceNames
           /\ Layer0 \cap (Repositories \cup ServiceNames \cup {"AuthHandler"}) = {}
<1>1. (Layer0 \cup {"AuthHandler"} \cup Repositories \cup ServiceNames) \cap GivenInstances = {}
  BY DEF Layer0, Repositories, ServiceNames, GivenInstances
<1>2. /\ Repositories \cap ServiceNames = {}
      /\ "AuthHandler" \notin Repositories \cup ServiceNames
      /\ Layer0 \cap (Repositories \cup ServiceNames \cup {"AuthHandler"}) = {}
  BY DEF Layer0, Repositories, ServiceNames
<1> QED  BY <1>1, <1>2, EditionKeys

\* In either edition, a factory needs what is registered there, of a lower layer.
LEMMA NeedsKnown ==
    \A p : \A k \in SingletonsOf(p) :
        /\ Needs(k) \subseteq Provided(p)
        /\ \A n \in Needs(k) \ GivenInstances : Rank(n) < Rank(k)
<1> SUFFICES ASSUME NEW p, NEW k \in SingletonsOf(p), NEW n \in Needs(k)
             PROVE  n \in Provided(p) /\ (n \notin GivenInstances => Rank(n) < Rank(k))
  OBVIOUS
<1>1. CASE k \in Repositories
  <2>1. n = "Database"
    BY <1>1 DEF Needs
  <2>2. n \in Layer0
    BY <2>1 DEF Layer0
  <2> QED  BY <1>1, <2>2, EditionKeys, KeysApart DEF Provided, Rank
<1>2. CASE k \in ServiceNames
  <2>1. n \in Layer0 \cup Repositories \cup GivenInstances
    BY <1>2, WiringKeys, ServiceWiring, KeysApart DEF Needs
  <2>2. n = "RedirectRepository" => k = "RedirectService"
    BY <1>2, WiringKeys, ServiceWiring, KeysApart DEF Needs
  <2>3. n \in Provided(p)
    BY <2>1, <2>2, EditionKeys DEF Provided
  <2>4. Rank(k) = 2
    BY <1>2, KeysApart DEF Rank
  <2> QED  BY <2>1, <2>3, <2>4 DEF Rank
<1>3. CASE k \in Layer0 \cup {"AuthHandler"}
  <2>1. Needs(k) = InfrastructureNeeds[k] /\ k \in DOMAIN InfrastructureNeeds
    BY <1>3, WiringKeys, KeysApart DEF Needs
  <2>2. k = "AuthHandler" /\ n \in {"UserRepository"} \cup GivenInstances
    BY <2>1, InfrastructureWiring
  <2>3. Rank(k) = 2 /\ "UserRepository" \in Repositories
    BY <2>2, KeysApart DEF Rank, Repositories
  <2> QED  BY <2>2, <2>3, EditionKeys DEF Provided, Rank
<1> QED  BY <1>1, <1>2, <1>3, EditionKeys

\* What boots and handlers ask for in both editions.
AskedKeys ==
    {"EventBus", "Database", "PasswordHasher", "Cache", "Mailer", "ServerHealthChecker",
     "LogRepository", "MenuService", "ContentService", "SearchService", "ContactService",
     "AuthHandler", "AuthService", "UserService", "DashboardService", "SystemService",
     "SiteSettingsService"}

\* Whatever a boot or a handler asks for is there in both editions.
LEMMA ProvidedKeys ==
    \A p : /\ AskedKeys \subseteq Provided(p)
           /\ p.edition = "main" => "RedirectService" \in Provided(p)
<1> SUFFICES ASSUME NEW p
             PROVE  /\ AskedKeys \subseteq Provided(p)
                    /\ p.edition = "main" => "RedirectService" \in Provided(p)
  OBVIOUS
<1>1. {"Database", "Cache", "Mailer"} \subseteq Provided(p)
  BY EditionKeys DEF Provided, Layer0
<1>2. {"EventBus", "PasswordHasher", "ServerHealthChecker"} \subseteq Provided(p)
  BY DEF Provided, GivenInstances
<1>3. "LogRepository" \in Repositories \ {"RedirectRepository"}
  BY DEF Repositories
<1>4. {"MenuService", "ContentService", "SearchService", "ContactService", "AuthService", "UserService",
       "DashboardService", "SystemService", "SiteSettingsService"} \subseteq ServiceNames \ {"RedirectService"}
  BY DEF ServiceNames
<1>5. "RedirectService" \in ServiceNames
  BY DEF ServiceNames
<1> QED  BY <1>1, <1>2, <1>3, <1>4, <1>5, EditionKeys DEF Provided, AskedKeys

\* Everything that is asked for is registered in the edition.
LEMMA AsksKnown == \A p : BootAsks(p) \in Seq(Provided(p)) /\ LateAsks(p) \subseteq Provided(p)
<1> SUFFICES ASSUME NEW p PROVE BootAsks(p) \in Seq(Provided(p)) /\ LateAsks(p) \subseteq Provided(p)
  OBVIOUS
<1> DEFINE K == Provided(p)
<1>1. /\ "EventBus" \in K /\ "Database" \in K /\ "PasswordHasher" \in K /\ "Cache" \in K
      /\ "Mailer" \in K /\ "ServerHealthChecker" \in K /\ "LogRepository" \in K
      /\ "MenuService" \in K /\ "ContentService" \in K /\ "SearchService" \in K
      /\ "ContactService" \in K /\ "AuthHandler" \in K /\ "AuthService" \in K
      /\ "UserService" \in K /\ "DashboardService" \in K /\ "SystemService" \in K
      /\ "SiteSettingsService" \in K
      /\ p.edition = "main" => "RedirectService" \in K
  BY ProvidedKeys DEF AskedKeys
<1>2. LateAsks(p) \subseteq K
  BY <1>1 DEF LateAsks, RequestAsks, CommunityEventAsks, MainEventAsks
<1> HIDE DEF K
<1>3. StartAsks(p) \in Seq(K)
  <2>1. <<"EventBus", "Database", "PasswordHasher">> \in Seq(K)
    BY <1>1
  <2>2. SchedulerAsks \in Seq(K)
    BY <1>1 DEF SchedulerAsks
  <2>3. <<"SiteSettingsService">> \in Seq(K)
    BY <1>1
  <2> QED  BY <2>1, <2>2, <2>3 DEF StartAsks
<1>4. CommunityControllerAsks(p) \in Seq(K)
  <2>1. <<"MenuService", "ContentService", "SearchService", "ContactService">> \in Seq(K)
    BY <1>1
  <2>2. <<"AuthHandler", "AuthService", "MenuService", "UserService", "DashboardService",
          "SystemService", "LogRepository", "ContentService", "SiteSettingsService",
          "ContactService">> \in Seq(K)
    BY <1>1
  <2> QED  BY <2>1, <2>2 DEF CommunityControllerAsks
<1>5. p.edition = "main" => MainControllerAsks(p) \in Seq(K)
  BY <1>1, <1>4 DEF MainControllerAsks
<1> QED  BY <1>2, <1>3, <1>4, <1>5 DEF BootAsks, K

(* The stack of factories. *)

Falling(s) == \A i, j \in 1..Len(s) : i < j => Rank(s[j]) < Rank(s[i])

\* Layers are numbered.
LEMMA RanksAreNumbers == \A k : Rank(k) \in Nat
BY DEF Rank

\* The stacks with no factory and with one.
LEMMA StackEnds == ToSet(<<>>) = {} /\ \A k : ToSet(<<k>>) = {k} /\ Falling(<<k>>)
<1>1. ToSet(<<>>) = {}
  BY DEF ToSet
<1>2. ASSUME NEW k PROVE ToSet(<<k>>) = {k} /\ Falling(<<k>>)
  <2>1. Len(<<k>>) = 1 /\ DOMAIN <<k>> = 1..1 /\ <<k>>[1] = k
    OBVIOUS
  <2> QED  BY <2>1 DEF ToSet, Falling
<1> QED  BY <1>1, <1>2

\* A factory of a lower layer may be pushed: the stack still falls.
LEMMA StackPush ==
    ASSUME NEW S, NEW s \in Seq(S), NEW n \in S
    PROVE  /\ Append(s, n) \in Seq(S) /\ ToSet(Append(s, n)) = ToSet(s) \cup {n}
           /\ Append(s, n) # <<>>
           /\ s # <<>> /\ Falling(s) /\ Rank(n) < Rank(Last(s)) => Falling(Append(s, n))
<1> DEFINE t == Append(s, n)
<1>1. /\ t \in Seq(S) /\ Len(t) = Len(s) + 1 /\ Len(s) \in Nat /\ t[Len(s) + 1] = n
      /\ \A i \in 1..Len(s) : t[i] = s[i]
  OBVIOUS
<1>2. DOMAIN t = 1..(Len(s) + 1) /\ DOMAIN s = 1..Len(s)
  BY <1>1
<1> HIDE DEF t
<1>3. ToSet(t) = ToSet(s) \cup {n}
  BY <1>1, <1>2 DEF ToSet
<1>4. ASSUME s # <<>>, Falling(s), Rank(n) < Rank(Last(s)) PROVE Falling(t)
  <2> SUFFICES ASSUME NEW i \in 1..Len(t), NEW j \in 1..Len(t), i < j PROVE Rank(t[j]) < Rank(t[i])
    BY DEF Falling
  <2>1. i \in 1..Len(s) /\ t[i] = s[i]
    BY <1>1
  <2>2. CASE j \in 1..Len(s)
    BY <1>1, <1>4, <2>1, <2>2 DEF Falling
  <2>3. CASE j = Len(s) + 1
    <3>1. i = Len(s) \/ Rank(s[Len(s)]) < Rank(s[i])
      BY <1>1, <1>4, <2>1 DEF Falling
    <3>2. t[j] = n /\ Last(s) = s[Len(s)]
      BY <1>1, <2>3 DEF Last
    <3> QED  BY <1>4, <2>1, <3>1, <3>2, RanksAreNumbers
  <2> QED  BY <1>1, <2>2, <2>3
<1>5. t # <<>>
  BY <1>1
<1> QED  BY <1>1, <1>3, <1>4, <1>5 DEF t

\* What popping a stack that falls leaves, and that nothing on it is as low as its
\* top.
LEMMA StackPop ==
    ASSUME NEW S, NEW s \in Seq(S), s # <<>>, Falling(s)
    PROVE  /\ Last(s) \in S /\ Last(s) \in ToSet(s)
           /\ Front(s) \in Seq(S) /\ ToSet(Front(s)) = ToSet(s) \ {Last(s)} /\ Falling(Front(s))
           /\ Len(s) = 1 => ToSet(s) = {Last(s)}
           /\ Len(s) # 1 => Front(s) # <<>>
           /\ \A k \in ToSet(s) : ~(Rank(k) < Rank(Last(s)))
<1> DEFINE n == Len(s)
           t == Front(s)
<1>1. n \in Nat \ {0} /\ DOMAIN s = 1..n /\ \A i \in 1..n : s[i] \in S
  BY EmptySeq, LenProperties
<1>2. t \in Seq(S) /\ Len(t) = n - 1 /\ DOMAIN t = 1..(n - 1) /\ \A i \in 1..(n - 1) : t[i] = s[i]
  BY <1>1 DEF Front
<1>3. Last(s) = s[n]
  BY DEF Last
<1>0. \A i, j \in 1..n : i < j => Rank(s[j]) < Rank(s[i])
  BY DEF Falling
<1> HIDE DEF n, t
<1>4. \A i \in 1..n : i = n \/ Rank(s[n]) < Rank(s[i])
  BY <1>0, <1>1
<1>5. ToSet(s) = {s[i] : i \in 1..n} /\ ToSet(t) = {s[i] : i \in 1..(n - 1)}
  BY <1>1, <1>2 DEF ToSet
<1>6. \A i \in 1..(n - 1) : s[i] # s[n]
  BY <1>1, <1>4, RanksAreNumbers
<1>7. ToSet(t) = ToSet(s) \ {s[n]}
  BY <1>1, <1>5, <1>6
<1>8. Falling(t)
  <2> SUFFICES ASSUME NEW i \in 1..(n - 1), NEW j \in 1..(n - 1), i < j PROVE Rank(t[j]) < Rank(t[i])
    BY <1>2 DEF Falling
  <2>1. i \in 1..n /\ j \in 1..n /\ t[i] = s[i] /\ t[j] = s[j]
    BY <1>1, <1>2
  <2> QED  BY <1>0, <2>1
<1>9. \A k \in ToSet(s) : ~(Rank(k) < Rank(s[n]))
  BY <1>4, <1>5, RanksAreNumbers
<1>10. n # 1 => t # <<>>
  BY <1>1, <1>2
<1>11. n = 1 => ToSet(s) = {s[n]}
  BY <1>5
<1>12. s[n] \in S /\ s[n] \in ToSet(s)
  BY <1>1, <1>5
<1>13. /\ Last(s) \in S /\ Last(s) \in ToSet(s)
       /\ t \in Seq(S) /\ ToSet(t) = ToSet(s) \ {Last(s)} /\ Falling(t)
       /\ n = 1 => ToSet(s) = {Last(s)}
       /\ n # 1 => t # <<>>
       /\ \A k \in ToSet(s) : ~(Rank(k) < Rank(Last(s)))
  BY <1>2, <1>3, <1>7, <1>8, <1>9, <1>10, <1>11, <1>12
<1> QED  BY <1>13 DEF n, t

Registered == SingletonsOf(process)

\* The lock is held as long as there is a factory to leave; the factories on
\* the stack are of ever lower layers.
StackInv ==
    /\ owner = NoThread <=> stack = <<>>
    /\ stack \in Seq(Registered) /\ Falling(stack)

\* What was built is there, and what was lost was lost with a factory that
\* raised: what a factory needs is never below it on the stack.
PlaceInv ==
    /\ BuiltOnce
    /\ \A k \in Registered : built[k] > 0 => k \in made
    /\ GivenInstances \subseteq made
    /\ lostKeys # {} => raised # {}

ContainerInv == ContainerTypeOK /\ StackInv /\ PlaceInv /\ UnregisteredOnlyAfterFailure

\* What is registered is one of the keys.
LEMMA RegisteredKeys == Registered \subseteq Singletons
<1>1. CommunityRepositories \subseteq Repositories /\ CommunityServices \subseteq DOMAIN ServiceNeeds
  BY DEF CommunityRepositories, CommunityServices
<1> QED  BY <1>1 DEF Registered, SingletonsOf, Singletons

LEMMA ContainerStarts == ContainerInit => ContainerInv
<1> SUFFICES ASSUME ContainerInit PROVE ContainerInv
  OBVIOUS
<1> USE DEF ContainerInit
<1>1. BootAsks(process) \in Seq(Provided(process)) /\ Len(BootAsks(process)) \in Nat
  BY AsksKnown, LenProperties
<1>2. ContainerTypeOK
  <2>1. stack \in Seq(Singletons)
    BY EmptySeq
  <2>2. asking \in 0..(Len(BootAsks(process)) + 1)
    BY <1>1
  <2> QED  BY <2>1, <2>2 DEF ContainerTypeOK
<1>3. StackInv
  <2>1. Len(<<>>) = 0
    BY EmptySeq
  <2>2. Falling(<<>>)
    BY <2>1 DEF Falling
  <2> QED  BY <2>2, EmptySeq DEF StackInv
<1>4. PlaceInv
  <2>1. \A k \in Registered : k \in factories /\ built[k] = 0 /\ k \notin ToSet(stack) /\ k \notin lostKeys
    BY RegisteredKeys, StackEnds DEF Registered
  <2> QED  BY <2>1 DEF PlaceInv, BuiltOnce, Registered
<1>5. UnregisteredOnlyAfterFailure
  BY DEF UnregisteredOnlyAfterFailure
<1> QED  BY <1>2, <1>3, <1>4, <1>5 DEF ContainerInv

\* A known key without instance and factory is being built, or lost.
LEMMA WhereKeysAre ==
    ASSUME ContainerInv, NEW k \in Provided(process), k \notin made, k \notin factories, k \notin ToSet(stack)
    PROVE  raised # {}
<1>1. k \in Registered /\ k \in Singletons
  BY RegisteredKeys DEF ContainerInv, PlaceInv, Provided, Registered
<1>2. built[k] \in Nat /\ ~(built[k] > 0)
  BY <1>1 DEF ContainerInv, ContainerTypeOK, PlaceInv
<1>3. k \in lostKeys
  BY <1>1, <1>2 DEF ContainerInv, PlaceInv, BuiltOnce, Registered
<1> QED  BY <1>3 DEF ContainerInv, PlaceInv

\* A thread asks only for what its edition provides.
LEMMA AskedIsKnown == ASSUME ContainerInv, NEW t \in Threads, NEW k \in Asks(t) PROVE k \in Provided(process)
<1>1. BootAsks(process) \in Seq(Provided(process)) /\ Len(BootAsks(process)) \in Nat
  BY AsksKnown, LenProperties
<1>2. CASE asking # 0 /\ Booting
  <2>1. asking \in 1..Len(BootAsks(process)) /\ k = BootAsks(process)[asking]
    BY <1>1, <1>2 DEF Asks, Booting, ContainerInv, ContainerTypeOK
  <2> QED  BY <1>1, <2>1, ElementOfSeq
<1>3. CASE asking # 0 /\ ~Booting
  BY <1>3, AsksKnown DEF Asks
<1> QED  BY <1>2, <1>3 DEF Asks

\* However a thread leaves the lock, it leaves no factory behind.
LEMMA LeaveKeeps ==
    ASSUME ContainerInv, NEW t \in Threads, NEW outcome \in {"ok", "unregistered", "raised"},
           Leave(t, outcome)
    PROVE  /\ asking' \in 0..(Len(BootAsks(process')) + 1) /\ process' = process
           /\ owner' = NoThread /\ stack' = <<>> /\ StackInv'
           /\ result' \in [Threads -> {"none", "ok", "unregistered", "raised"}]
           /\ \A u \in Threads : result'[u] = IF u = t THEN outcome ELSE result[u]
<1>1. BootAsks(process) \in Seq(Provided(process)) /\ Len(BootAsks(process)) \in Nat
  BY AsksKnown, LenProperties
<1>2. process' = process /\ owner' = NoThread /\ stack' = <<>> /\ asking' = AskingAfter(outcome)
      /\ result' = [result EXCEPT ![t] = outcome]
  BY DEF Leave
<1>3. asking' \in 0..(Len(BootAsks(process)) + 1)
  BY <1>1, <1>2 DEF AskingAfter, Booting, ContainerInv, ContainerTypeOK
<1>4. StackInv'
  <2>1. Falling(<<>>)
    BY EmptySeq DEF Falling
  <2> QED  BY <1>2, <2>1, EmptySeq DEF StackInv
<1> QED  BY <1>2, <1>3, <1>4 DEF ContainerInv, ContainerTypeOK

\* A thread that asks finds the lock free and starts with an empty stack.
LEMMA AskKeeps == ASSUME ContainerInv, NEW t \in Threads, NEW k \in Asks(t), Ask(t, k) PROVE ContainerInv'
<1>1. k \in Provided(process) /\ owner = NoThread /\ stack = <<>> /\ ToSet(stack) = {}
  BY AskedIsKnown, StackEnds DEF Ask, ContainerInv, StackInv
<1>2. CASE k \in made \/ k \notin factories
  <2> DEFINE outcome == IF k \in made THEN "ok" ELSE "unregistered"
  <2>1. Leave(t, outcome) /\ UNCHANGED <<made, factories, built, lostKeys, raised>>
    BY <1>2 DEF Ask
  <2>2. outcome \in {"ok", "unregistered", "raised"} /\ (outcome = "unregistered" => raised # {})
    BY <1>1, <1>2, WhereKeysAre
  <2> HIDE DEF outcome
  <2>3. /\ asking' \in 0..(Len(BootAsks(process')) + 1) /\ process' = process
        /\ owner' = NoThread /\ stack' = <<>> /\ StackInv'
        /\ result' \in [Threads -> {"none", "ok", "unregistered", "raised"}]
        /\ \A u \in Threads : result'[u] = IF u = t THEN outcome ELSE result[u]
    BY <2>1, <2>2, LeaveKeeps
  <2>4. ContainerTypeOK'
    BY <2>1, <2>3, <1>1 DEF ContainerInv, ContainerTypeOK
  <2>5. PlaceInv'
    BY <2>1, <2>3, <1>1 DEF ContainerInv, PlaceInv, BuiltOnce, Registered
  <2>6. UnregisteredOnlyAfterFailure'
    BY <2>1, <2>2, <2>3 DEF ContainerInv, UnregisteredOnlyAfterFailure
  <2> QED  BY <2>3, <2>4, <2>5, <2>6 DEF ContainerInv
<1>3. CASE k \notin made /\ k \in factories
  <2>1. /\ owner' = t /\ stack' = <<k>> /\ factories' = factories \ {k}
        /\ UNCHANGED <<process, asking, made, result, built, lostKeys, raised>>
    BY <1>3 DEF Ask, Popped
  <2>2. k \in Registered /\ k \in Singletons
    BY <1>3, RegisteredKeys DEF ContainerInv, ContainerTypeOK, Registered
  <2>3. stack' \in Seq(Registered) /\ stack' \in Seq(Singletons) /\ stack' # <<>>
    BY <2>1, <2>2
  <2>4. ContainerTypeOK'
    BY <2>1, <2>3 DEF ContainerInv, ContainerTypeOK
  <2>5. StackInv'
    BY <2>1, <2>3, StackEnds, ContainerAssumption DEF StackInv, Registered
  <2>6. PlaceInv'
    <3>1. ToSet(stack') = {k}
      BY <2>1, StackEnds
    <3>2. built[k] = 0 /\ k \notin lostKeys
      BY <1>3, <2>2 DEF ContainerInv, ContainerTypeOK, PlaceInv, BuiltOnce, Registered
    <3>3. BuiltOnce'
      BY <1>1, <2>1, <3>1, <3>2, <1>3 DEF ContainerInv, PlaceInv, BuiltOnce
    <3> QED  BY <2>1, <3>3 DEF ContainerInv, PlaceInv, Registered
  <2>7. UnregisteredOnlyAfterFailure'
    BY <2>1 DEF ContainerInv, UnregisteredOnlyAfterFailure
  <2> QED  BY <2>4, <2>5, <2>6, <2>7 DEF ContainerInv
<1> QED  BY <1>2, <1>3

\* What a thread that has the lock finds on top of the stack.
LEMMA TopOfStack ==
    ASSUME ContainerInv, NEW t \in Threads, owner = t
    PROVE  /\ stack # <<>> /\ stack \in Seq(Registered) /\ Falling(stack)
           /\ Last(stack) \in Registered /\ Last(stack) \in ToSet(stack)
           /\ ToSet(stack) \subseteq Registered
<1>1. stack # <<>> /\ stack \in Seq(Registered) /\ Falling(stack)
  BY ContainerAssumption DEF ContainerInv, StackInv
<1>2. DOMAIN stack = 1..Len(stack) /\ \A i \in 1..Len(stack) : stack[i] \in Registered
  BY <1>1, LenProperties, ElementOfSeq
<1>3. ToSet(stack) \subseteq Registered
  BY <1>2 DEF ToSet
<1> QED  BY <1>1, <1>3, StackPop

\* A factory that raises, or misses a key, takes the stack with it.
LEMMA LossKeeps ==
    ASSUME ContainerInv, NEW t \in Threads, owner = t,
           NEW outcome \in {"ok", "unregistered", "raised"}, Leave(t, outcome),
           lostKeys' = lostKeys \cup ToSet(stack), UNCHANGED <<made, factories, built>>,
           raised \subseteq raised', raised' # {}, raised' \subseteq lostKeys'
    PROVE  ContainerInv'
<1>1. ToSet(stack) \subseteq Registered
  BY TopOfStack
<1>2. /\ asking' \in 0..(Len(BootAsks(process')) + 1) /\ process' = process
      /\ owner' = NoThread /\ stack' = <<>> /\ StackInv'
      /\ result' \in [Threads -> {"none", "ok", "unregistered", "raised"}]
  BY LeaveKeeps
<1>3. ToSet(stack') = {} /\ stack' \in Seq(Singletons)
  BY <1>2, StackEnds, EmptySeq
<1>4. ContainerTypeOK'
  BY <1>1, <1>2, <1>3 DEF ContainerInv, ContainerTypeOK, Registered
<1>5. PlaceInv'
  <2> DEFINE Sum(k, s, l) == built[k] + (IF k \in factories THEN 1 ELSE 0)
                             + (IF k \in s THEN 1 ELSE 0) + (IF k \in l THEN 1 ELSE 0)
  <2>1. ASSUME NEW k \in Registered PROVE Sum(k, ToSet(stack'), lostKeys') = 1
    <3>1. built[k] \in Nat
      BY RegisteredKeys DEF ContainerInv, ContainerTypeOK
    <3>2. Sum(k, ToSet(stack), lostKeys) = 1
      BY DEF ContainerInv, PlaceInv, BuiltOnce, Registered
    <3>3. k \in ToSet(stack) => k \notin lostKeys
      BY <3>1, <3>2
    <3>4. Sum(k, {}, lostKeys \cup ToSet(stack)) = 1
      BY <3>1, <3>2, <3>3
    <3>5. ToSet(stack') = {} /\ lostKeys' = lostKeys \cup ToSet(stack)
      BY <1>3
    <3> HIDE DEF Sum
    <3> QED  BY <3>4, <3>5
  <2>2. BuiltOnce'
    BY <1>2, <2>1 DEF BuiltOnce, Registered
  <2> QED  BY <1>2, <2>2 DEF ContainerInv, PlaceInv, Registered
<1>6. UnregisteredOnlyAfterFailure'
  BY DEF UnregisteredOnlyAfterFailure
<1> QED  BY <1>2, <1>4, <1>5, <1>6 DEF ContainerInv

\* A factory asks for what it needs, of a lower layer.
LEMMA NeedKeeps == ASSUME ContainerInv, NEW t \in Threads, ResolveNeed(t) PROVE ContainerInv'
<1> DEFINE k == Last(stack)
<1>1. PICK n \in Missing(k) :
          IF n \in factories
          THEN /\ stack' = Append(stack, n)
               /\ factories' = Popped(n)
               /\ UNCHANGED <<process, asking, made, owner, result, built, lostKeys, raised>>
          ELSE /\ lostKeys' = lostKeys \cup ToSet(stack)
               /\ Leave(t, "unregistered")
               /\ UNCHANGED <<made, factories, built, raised>>
  BY DEF ResolveNeed
<1>2. owner = t
  BY DEF ResolveNeed
<1>3. /\ stack # <<>> /\ stack \in Seq(Registered) /\ Falling(stack) /\ k \in Registered
  BY <1>2, TopOfStack
<1>4. n \in Provided(process) /\ n \notin made /\ n \notin GivenInstances /\ Rank(n) < Rank(k)
  BY <1>3, NeedsKnown DEF Missing, ContainerInv, PlaceInv, Registered
<1>5. n \notin ToSet(stack)
  BY <1>3, <1>4, StackPop
<1>6. CASE n \in factories
  <2>1. /\ stack' = Append(stack, n) /\ factories' = factories \ {n}
        /\ UNCHANGED <<process, asking, made, owner, result, built, lostKeys, raised>>
    BY <1>1, <1>6 DEF Popped
  <2>2. n \in Registered
    BY <1>6 DEF ContainerInv, ContainerTypeOK, Registered
  <2>3. stack' \in Seq(Registered) /\ ToSet(stack') = ToSet(stack) \cup {n} /\ stack' # <<>> /\ Falling(stack')
    BY <1>3, <1>4, <2>1, <2>2, StackPush
  <2>4. stack' \in Seq(Singletons)
    BY <2>3, RegisteredKeys, SeqMonotonic
  <2>5. ContainerTypeOK'
    BY <2>1, <2>4 DEF ContainerInv, ContainerTypeOK
  <2>6. StackInv'
    BY <1>2, <2>1, <2>3, ContainerAssumption DEF StackInv, Registered
  <2>7. BuiltOnce'
    <3>1. built[n] = 0 /\ n \notin lostKeys
      BY <1>6, <2>2, RegisteredKeys DEF ContainerInv, ContainerTypeOK, PlaceInv, BuiltOnce, Registered
    <3> QED  BY <1>5, <1>6, <2>1, <2>3, <3>1 DEF ContainerInv, PlaceInv, BuiltOnce
  <2>8. PlaceInv'
    BY <2>1, <2>7 DEF ContainerInv, PlaceInv, Registered
  <2>9. UnregisteredOnlyAfterFailure'
    BY <2>1 DEF ContainerInv, UnregisteredOnlyAfterFailure
  <2> QED  BY <2>5, <2>6, <2>8, <2>9 DEF ContainerInv
<1>7. CASE n \notin factories
  <2>1. raised # {}
    BY <1>4, <1>5, <1>7, WhereKeysAre
  <2>2. raised \subseteq lostKeys
    BY DEF ContainerInv, ContainerTypeOK
  <2> QED  BY <1>1, <1>2, <1>7, <2>1, <2>2, LossKeeps
<1> QED  BY <1>6, <1>7

\* The factory on top has all it needs and is done.
LEMMA ConstructKeeps == ASSUME ContainerInv, NEW t \in Threads, Construct(t) PROVE ContainerInv'
<1> DEFINE k == Last(stack)
<1>1. /\ owner = t /\ made' = made \cup {k} /\ built' = [built EXCEPT ![k] = @ + 1]
      /\ IF Len(stack) = 1 THEN Leave(t, "ok")
         ELSE stack' = Front(stack) /\ UNCHANGED <<process, asking, owner, result>>
      /\ UNCHANGED <<factories, lostKeys, raised>>
  BY DEF Construct
<1>2. /\ stack # <<>> /\ stack \in Seq(Registered) /\ Falling(stack)
      /\ k \in Registered /\ k \in ToSet(stack)
  BY <1>1, TopOfStack
<1>3. k \in Singletons
  BY <1>2, RegisteredKeys
<1>4. /\ process' = process /\ asking' \in 0..(Len(BootAsks(process')) + 1)
      /\ owner' \in Threads \cup {NoThread} /\ StackInv' /\ ToSet(stack') = ToSet(stack) \ {k}
      /\ result' \in [Threads -> {"none", "ok", "unregistered", "raised"}]
      /\ \A u \in Threads : result'[u] = "unregistered" => result[u] = "unregistered"
  <2>1. CASE Len(stack) = 1
    <3>1. Leave(t, "ok")
      BY <1>1, <2>1
    <3>2. /\ asking' \in 0..(Len(BootAsks(process')) + 1) /\ process' = process
          /\ owner' = NoThread /\ stack' = <<>> /\ StackInv'
          /\ result' \in [Threads -> {"none", "ok", "unregistered", "raised"}]
          /\ \A u \in Threads : result'[u] = IF u = t THEN "ok" ELSE result[u]
      BY <3>1, LeaveKeeps
    <3>3. ToSet(stack') = {} /\ ToSet(stack) = {k}
      BY <1>2, <2>1, <3>2, StackEnds, StackPop
    <3> QED  BY <3>2, <3>3
  <2>2. CASE Len(stack) # 1
    <3>1. stack' = Front(stack) /\ UNCHANGED <<process, asking, owner, result>>
      BY <1>1, <2>2
    <3>2. /\ Front(stack) \in Seq(Registered) /\ ToSet(Front(stack)) = ToSet(stack) \ {k}
          /\ Falling(Front(stack)) /\ Front(stack) # <<>>
      BY <1>2, <2>2, StackPop
    <3>3. StackInv'
      BY <1>1, <3>1, <3>2, ContainerAssumption DEF StackInv, Registered
    <3> QED  BY <3>1, <3>2, <3>3 DEF ContainerInv, ContainerTypeOK
  <2> QED  BY <2>1, <2>2
<1> HIDE DEF k
<1>5. stack' \in Seq(Singletons)
  <2>1. stack' \in Seq(Registered)
    BY <1>4 DEF StackInv, Registered
  <2> QED  BY <2>1, RegisteredKeys, SeqMonotonic
<1>6. ContainerTypeOK'
  BY <1>1, <1>2, <1>3, <1>4, <1>5 DEF ContainerInv, ContainerTypeOK, Registered
<1>7. BuiltOnce'
  <2>1. built[k] = 0 /\ k \notin lostKeys /\ k \notin factories
    BY <1>2, <1>3 DEF ContainerInv, ContainerTypeOK, PlaceInv, BuiltOnce, Registered
  <2> QED  BY <1>1, <1>2, <1>3, <1>4, <2>1 DEF ContainerInv, ContainerTypeOK, PlaceInv, BuiltOnce
<1>8. PlaceInv'
  <2>1. \A q \in Registered' : built'[q] > 0 => q \in made'
    BY <1>1, <1>3, <1>4, RegisteredKeys DEF ContainerInv, ContainerTypeOK, PlaceInv, Registered
  <2> QED  BY <1>1, <1>7, <2>1 DEF ContainerInv, PlaceInv
<1>9. UnregisteredOnlyAfterFailure'
  BY <1>1, <1>4 DEF ContainerInv, UnregisteredOnlyAfterFailure
<1> QED  BY <1>4, <1>6, <1>8, <1>9 DEF ContainerInv

\* The factory on top raises, and every factory below it.
LEMMA RaiseKeeps == ASSUME ContainerInv, NEW t \in Threads, FactoryRaises(t) PROVE ContainerInv'
<1>1. /\ owner = t /\ Leave(t, "raised") /\ lostKeys' = lostKeys \cup ToSet(stack)
      /\ raised' = raised \cup {Last(stack)} /\ UNCHANGED <<made, factories, built>>
  BY DEF FactoryRaises
<1>2. Last(stack) \in ToSet(stack)
  BY <1>1, TopOfStack
<1>3. raised' \subseteq lostKeys'
  BY <1>1, <1>2 DEF ContainerInv, ContainerTypeOK
<1>4. raised \subseteq raised' /\ raised' # {}
  BY <1>1
<1> QED  BY <1>1, <1>3, <1>4, LossKeeps

\* The inductive invariant of the container, for any threads and deployment.
THEOREM ContainerInvariant == ContainerSpec => []ContainerInv
<1>1. ContainerInv /\ [ContainerNext]_containerVars => ContainerInv'
  <2> SUFFICES ASSUME ContainerInv, [ContainerNext]_containerVars PROVE ContainerInv'
    OBVIOUS
  <2>1. CASE UNCHANGED containerVars
    BY <2>1 DEF containerVars, ContainerInv, ContainerTypeOK, StackInv, PlaceInv, BuiltOnce, Registered,
          UnregisteredOnlyAfterFailure
  <2> QED  BY <2>1, AskKeeps, NeedKeeps, ConstructKeeps, RaiseKeeps DEF ContainerNext
<1> QED  BY ContainerStarts, <1>1, PTL DEF ContainerSpec

\* The variables of the service container keep their types.
THEOREM ContainerTypeCorrect == ContainerSpec => []ContainerTypeOK
<1>1. ContainerInv => ContainerTypeOK
  BY DEF ContainerInv
<1> QED  BY ContainerInvariant, <1>1, PTL

\* In every edition and whichever modules were started, with any threads and
\* any factories that raise, a key is built once, and "No registration" is
\* answered only after a factory raised.
THEOREM ContainerSound == ContainerSpec => []SingletonsSound
<1>1. ContainerInv => SingletonsSound
  BY DEF ContainerInv, PlaceInv, SingletonsSound
<1> QED  BY ContainerInvariant, <1>1, PTL

-----------------------------------------------------------------------------
(* Overlapping backups and deletions, for every number of files to keep. *)

Creating(r) == pc[r] \in {"stamped", "vacuum", "list", "unlink", "stat"}

\* Files that were opened and are, or were, being filled.
Opened == {f \in 1..lastStamp : f \in whole \/ \E r \in Runs : pc[r] = "vacuum" /\ mine[r] = f}

\* Files that rotation, or a deletion, may have removed.
Expendable(f) == f \in deleted \/ lastStamp - f >= Keep

\* Whoever creates has a stamp of its own time; what a rotation has still to
\* unlink had Keep newer ones already; whatever was opened and is gone was
\* deleted or rotated.
BackupsInv ==
    /\ BackupsTypeOK
    /\ \A r \in Runs : Creating(r) => mine[r] # 0
    /\ \A r \in Runs : \A f \in doomed[r] : lastStamp - f >= Keep
    /\ \A f \in Opened : f \in files \/ Expendable(f)

\* A set of stamps has a least one.
LEMMA LeastInSet == \A S : S \subseteq Nat /\ S # {} => Min(S) \in S
<1> SUFFICES ASSUME NEW S, S \subseteq Nat, S # {} PROVE Min(S) \in S
  OBVIOUS
<1>1. PICK x \in S : \A y \in S : ~(<<y, x>> \in OpToRel(<, Nat))
  BY NatLessThanWellFounded, WFMin
<1>2. \A y \in S : x <= y
  <2> SUFFICES ASSUME NEW y \in S, y < x PROVE FALSE
    OBVIOUS
  <2>1. <<y, x>> \in Nat \X Nat /\ <<y, x>>[1] < <<y, x>>[2]
    OBVIOUS
  <2> QED  BY <1>1, <2>1 DEF OpToRel
<1> QED  BY <1>2 DEF Min

\* Where n files are newer than f, n stamps were taken after it.
LEMMA NewerStamps ==
    ASSUME BackupsTypeOK, NEW f \in files, f \notin Newest(Keep, files)
    PROVE  lastStamp - f >= Keep
<1> DEFINE N == {g \in files : g > f}
<1>1. f \in Nat /\ lastStamp \in Nat /\ f <= lastStamp
  BY DEF BackupsTypeOK
<1>2. N \subseteq (f + 1)..lastStamp
  <2>1. \A g \in files : g \in Nat /\ g <= lastStamp
    BY DEF BackupsTypeOK
  <2>2. \A g \in Nat : g > f => g >= f + 1
    BY <1>1
  <2>3. \A g \in N : g \in Int /\ f + 1 <= g /\ g <= lastStamp
    BY <2>1, <2>2
  <2>4. f + 1 \in Int /\ lastStamp \in Int
    BY <1>1
  <2> HIDE DEF N
  <2> QED  BY <2>3, <2>4
<1>3. IsFiniteSet((f + 1)..lastStamp) /\ Cardinality((f + 1)..lastStamp) = lastStamp - f
  <2> DEFINE a == f + 1
  <2>1. a \in Int /\ lastStamp \in Int /\ a <= lastStamp + 1 /\ lastStamp - a + 1 = lastStamp - f
    BY <1>1
  <2> HIDE DEF a
  <2>2. IsFiniteSet(a..lastStamp)
    BY <2>1, FS_Interval
  <2>3. Cardinality(a..lastStamp) = IF a > lastStamp THEN 0 ELSE lastStamp - a + 1
    BY <2>1, FS_Interval
  <2>4. Cardinality(a..lastStamp) = lastStamp - a + 1
    BY <2>1, <2>3
  <2> QED  BY <2>1, <2>2, <2>4 DEF a
<1>4. IsFiniteSet(N) /\ Cardinality(N) <= lastStamp - f
  BY <1>2, <1>3, FS_Subset
<1>5. Cardinality(N) \in Nat
  BY <1>4, FS_CardinalityType
<1>6. ~(Cardinality(N) < Keep)
  BY DEF Newest
<1> HIDE DEF N
<1> QED  BY <1>1, <1>4, <1>5, <1>6, BackupsAssumption

LEMMA BackupsStart == BackupsInit => BackupsInv
BY BackupsAssumption DEF BackupsInit, BackupsInv, BackupsTypeOK, Creating, Opened

\* A run takes a stamp nobody has.
LEMMA StampKeeps == ASSUME BackupsInv, NEW r \in Runs, TakeStamp(r) PROVE BackupsInv'
<1>1. /\ pc[r] = "start" /\ pc' = [pc EXCEPT ![r] = "stamped"]
      /\ lastStamp \in Nat /\ lastStamp' = lastStamp + 1
      /\ mine' = [mine EXCEPT ![r] = lastStamp + 1] /\ UNCHANGED <<files, doomed, whole, deleted>>
  BY DEF TakeStamp, Goto, BackupsInv, BackupsTypeOK
<1>2. BackupsTypeOK'
  BY <1>1 DEF BackupsInv, BackupsTypeOK
<1>3. \A q \in Runs : Creating(q)' => mine'[q] # 0
  BY <1>1 DEF BackupsInv, BackupsTypeOK, Creating
<1>4. \A q \in Runs : \A f \in doomed'[q] : lastStamp' - f >= Keep
  BY <1>1, BackupsAssumption DEF BackupsInv, BackupsTypeOK
<1>5. \A f \in Opened' : f \in files' \/ Expendable(f)'
  <2> SUFFICES ASSUME NEW f \in Opened' PROVE f \in files' \/ Expendable(f)'
    OBVIOUS
  <2>1. f \in Opened
    BY <1>1 DEF Opened, BackupsInv, BackupsTypeOK
  <2>2. f \in Nat
    BY <2>1 DEF Opened
  <2> QED  BY <1>1, <2>1, <2>2, BackupsAssumption DEF BackupsInv, Expendable
<1> QED  BY <1>2, <1>3, <1>4, <1>5 DEF BackupsInv

\* Opening the file makes it the newest, or one among those begun later.
LEMMA OpenKeeps == ASSUME BackupsInv, NEW r \in Runs, OpenFile(r) PROVE BackupsInv'
<1>1. /\ pc[r] = "stamped" /\ pc' = [pc EXCEPT ![r] = "vacuum"] /\ files' = files \cup {mine[r]}
      /\ UNCHANGED <<lastStamp, mine, doomed, whole, deleted>>
  BY DEF OpenFile, Goto
<1>2. mine[r] \in 1..lastStamp
  BY <1>1 DEF BackupsInv, BackupsTypeOK, Creating
<1>3. BackupsTypeOK'
  BY <1>1, <1>2 DEF BackupsInv, BackupsTypeOK
<1>4. \A q \in Runs : Creating(q)' => mine'[q] # 0
  BY <1>1 DEF BackupsInv, BackupsTypeOK, Creating
<1>5. \A f \in Opened' : f \in files' \/ Expendable(f)'
  BY <1>1 DEF BackupsInv, BackupsTypeOK, Opened, Expendable
<1> QED  BY <1>1, <1>3, <1>4, <1>5 DEF BackupsInv

\* A filled file is whole.
LEMMA VacuumKeeps == ASSUME BackupsInv, NEW r \in Runs, Vacuum(r) PROVE BackupsInv'
<1>1. /\ pc[r] = "vacuum" /\ UNCHANGED <<files, lastStamp, mine, doomed, deleted>>
      /\ \/ whole' = whole \cup {mine[r]} /\ pc' = [pc EXCEPT ![r] = "list"]
         \/ whole' = whole /\ pc' = [pc EXCEPT ![r] = "failed"]
  BY DEF Vacuum, Goto
<1>2. mine[r] \in 1..lastStamp
  BY <1>1 DEF BackupsInv, BackupsTypeOK, Creating
<1>3. BackupsTypeOK'
  BY <1>1, <1>2 DEF BackupsInv, BackupsTypeOK
<1>4. \A q \in Runs : Creating(q)' => mine'[q] # 0
  BY <1>1 DEF BackupsInv, BackupsTypeOK, Creating
<1>5. Opened' \subseteq Opened
  BY <1>1, <1>2 DEF BackupsInv, BackupsTypeOK, Opened
<1> QED  BY <1>1, <1>3, <1>4, <1>5 DEF BackupsInv, Expendable

\* What a listing dooms has Keep newer ones.
LEMMA ListKeeps == ASSUME BackupsInv, NEW r \in Runs, List(r) PROVE BackupsInv'
<1>1. /\ pc[r] = "list" /\ pc' = [pc EXCEPT ![r] = "unlink"]
      /\ doomed' = [doomed EXCEPT ![r] = Surplus(files)]
      /\ UNCHANGED <<files, lastStamp, mine, whole, deleted>>
  BY DEF List, Goto
<1>2. Surplus(files) \subseteq files
  BY DEF Surplus
<1>3. BackupsTypeOK'
  BY <1>1, <1>2 DEF BackupsInv, BackupsTypeOK
<1>4. \A q \in Runs : Creating(q)' => mine'[q] # 0
  BY <1>1 DEF BackupsInv, BackupsTypeOK, Creating
<1>5. \A f \in Surplus(files) : lastStamp - f >= Keep
  BY NewerStamps DEF Surplus, BackupsInv
<1>6. \A q \in Runs : \A f \in doomed'[q] : lastStamp' - f >= Keep
  BY <1>1, <1>5 DEF BackupsInv, BackupsTypeOK
<1>7. Opened' \subseteq Opened
  BY <1>1 DEF BackupsInv, BackupsTypeOK, Opened
<1> QED  BY <1>1, <1>3, <1>4, <1>6, <1>7 DEF BackupsInv, Expendable

\* A file that is unlinked was doomed by a listing.
LEMMA UnlinkKeeps == ASSUME BackupsInv, NEW r \in Runs, Unlink(r) PROVE BackupsInv'
<1>1. /\ pc[r] = "unlink" /\ UNCHANGED <<lastStamp, mine, whole, deleted>>
      /\ pc' = pc \/ pc' = [pc EXCEPT ![r] = "stat"]
  BY DEF Unlink, Goto
<1>2. PICK gone \in SUBSET doomed[r] :
          files' = files \ gone /\ doomed' = [doomed EXCEPT ![r] = @ \ gone]
  <2>1. CASE doomed[r] = {}
    <3>1. files' = files \ {} /\ doomed' = [doomed EXCEPT ![r] = @ \ {}]
      BY <2>1 DEF Unlink, BackupsInv, BackupsTypeOK
    <3> QED  BY <3>1
  <2>2. CASE doomed[r] # {}
    <3>1. Min(doomed[r]) \in doomed[r]
      BY <2>2, LeastInSet DEF BackupsInv, BackupsTypeOK
    <3> QED  BY <2>2, <3>1 DEF Unlink
  <2> QED  BY <2>1, <2>2
<1>3. BackupsTypeOK'
  BY <1>1, <1>2 DEF BackupsInv, BackupsTypeOK
<1>4. \A q \in Runs : Creating(q)' => mine'[q] # 0
  BY <1>1 DEF BackupsInv, BackupsTypeOK, Creating
<1>5. \A q \in Runs : doomed'[q] \subseteq doomed[q]
  BY <1>2 DEF BackupsInv, BackupsTypeOK
<1>6. \A f \in gone : lastStamp - f >= Keep
  BY DEF BackupsInv
<1>7. Opened' \subseteq Opened
  BY <1>1 DEF BackupsInv, BackupsTypeOK, Opened
<1> QED  BY <1>1, <1>2, <1>3, <1>4, <1>5, <1>6, <1>7 DEF BackupsInv, Expendable

\* What an administrator deletes is on record as deleted.
LEMMA DeletionKeeps ==
    ASSUME BackupsInv, NEW r \in Runs, Stat(r) \/ Choose(r) \/ DeleteFile(r)
    PROVE  BackupsInv'
<1>1. BackupsTypeOK'
  <2>1. CASE Stat(r)
    BY <2>1 DEF Stat, Goto, BackupsInv, BackupsTypeOK
  <2>2. CASE Choose(r)
    BY <2>2 DEF Choose, Goto, BackupsInv, BackupsTypeOK
  <2>3. CASE DeleteFile(r)
    BY <2>3 DEF DeleteFile, Goto, BackupsInv, BackupsTypeOK
  <2> QED  BY <2>1, <2>2, <2>3
<1>2. \A q \in Runs : Creating(q)' => Creating(q) /\ mine'[q] = mine[q]
  BY DEF Stat, Choose, DeleteFile, Goto, BackupsInv, BackupsTypeOK, Creating
<1>3. Opened' \subseteq Opened
  BY DEF Stat, Choose, DeleteFile, Goto, BackupsInv, BackupsTypeOK, Opened
<1>4. /\ files' \cup deleted' = files \cup deleted /\ deleted \subseteq deleted'
      /\ lastStamp' = lastStamp /\ doomed' = doomed
  BY DEF Stat, Choose, DeleteFile
<1> QED  BY <1>1, <1>2, <1>3, <1>4 DEF BackupsInv, Expendable

\* The inductive invariant of the backups, for any number of overlapping runs.
THEOREM BackupsInvariant == BackupsSpec => []BackupsInv
<1>1. BackupsInv /\ [BackupsNext]_backupVars => BackupsInv'
  <2> SUFFICES ASSUME BackupsInv, [BackupsNext]_backupVars PROVE BackupsInv'
    OBVIOUS
  <2>1. CASE UNCHANGED backupVars
    BY <2>1 DEF backupVars, BackupsInv, BackupsTypeOK, Creating, Opened, Expendable
  <2> QED
    BY <2>1, StampKeeps, OpenKeeps, VacuumKeeps, ListKeeps, UnlinkKeeps, DeletionKeeps DEF BackupsNext
<1> QED  BY BackupsStart, <1>1, PTL DEF BackupsSpec

\* The variables of the backup service keep their types.
THEOREM BackupsTypeCorrect == BackupsSpec => []BackupsTypeOK
<1>1. BackupsInv => BackupsTypeOK
  BY DEF BackupsInv
<1> QED  BY BackupsInvariant, <1>1, PTL

\* For every number of overlapping backups and deletions and every Keep, a
\* finished backup is gone only when Keep later ones were begun, or deleted.
THEOREM NewestAreKept == BackupsSpec => []NewestKept
<1>1. BackupsInv => NewestKept
  BY DEF BackupsInv, BackupsTypeOK, Opened, Expendable, NewestKept
<1> QED  BY BackupsInvariant, <1>1, PTL

-----------------------------------------------------------------------------
(* A job runs once a day, for days of any length and targets at any hour. *)

\* A time lies in its day.
LEMMA DayFacts ==
    \A x \in Int : Day(x) \in Int /\ Day(x) * DayLength <= x /\ x < Day(x) * DayLength + DayLength
BY ScheduleAssumption, SMTT(30) DEF Day

\* A day begins after the days before it.
LEMMA TimesMonotone == \A a, b \in Int : a < b => a * DayLength + DayLength <= b * DayLength
<1> SUFFICES ASSUME NEW a \in Int, NEW b \in Int, a < b
             PROVE  a * DayLength + DayLength <= b * DayLength
  OBVIOUS
<1>1. (b - a - 1) * DayLength >= 0
  BY ScheduleAssumption, SMTT(30)
<1>2. (b - a - 1) * DayLength = b * DayLength - (a * DayLength + DayLength)
  BY ScheduleAssumption, SMTT(30)
<1>3. a * DayLength \in Int /\ b * DayLength \in Int
  BY ScheduleAssumption
<1> QED  BY <1>1, <1>2, <1>3, ScheduleAssumption

\* Days follow each other as their hours do.
LEMMA DaysInOrder == \A x, y \in Int : x <= y => Day(x) <= Day(y)
<1> SUFFICES ASSUME NEW x \in Int, NEW y \in Int, x <= y, Day(y) < Day(x) PROVE FALSE
  BY DayFacts
<1>1. Day(y) * DayLength + DayLength <= Day(x) * DayLength
  BY TimesMonotone, DayFacts
<1>2. Day(x) * DayLength \in Int /\ Day(y) * DayLength \in Int
  BY DayFacts, ScheduleAssumption
<1> QED  BY <1>1, <1>2, DayFacts, ScheduleAssumption

\* Days are numbered from zero.
LEMMA DaysCounted == \A x \in Nat : Day(x) \in Nat
<1> SUFFICES ASSUME NEW x \in Nat PROVE Day(x) \in Nat
  OBVIOUS
<1>1. Day(0) = 0
  BY ScheduleAssumption DEF Day
<1> QED  BY <1>1, DaysInOrder, DayFacts

\* The target lies within its day.
LEMMA TargetInDay ==
    \A d, x \in Int :
        /\ TargetOf(d) \in Int
        /\ Day(x) < d => x < TargetOf(d)
        /\ x >= TargetOf(d) => Day(x) >= d
<1> SUFFICES ASSUME NEW d \in Int, NEW x \in Int
             PROVE  TargetOf(d) \in Int /\ (Day(x) < d => x < TargetOf(d))
  BY DayFacts
<1>1. d * DayLength \in Int /\ Day(x) * DayLength \in Int
  BY DayFacts, ScheduleAssumption
<1>2. Day(x) < d => Day(x) * DayLength + DayLength <= d * DayLength
  BY TimesMonotone, DayFacts
<1> QED  BY <1>1, <1>2, DayFacts, ScheduleAssumption DEF TargetOf

\* An hour back is at most a day back.
LEMMA AnHourBack == \A x \in Int : Day(x) - 1 <= Day(x - 1)
<1> SUFFICES ASSUME NEW x \in Int, Day(x - 1) < Day(x) - 1 PROVE FALSE
  BY DayFacts
<1> DEFINE a == Day(x - 1)
           b == Day(x) - 1
<1>1. a \in Int /\ b \in Int /\ x - 1 \in Int
  BY DayFacts
<1>2. a * DayLength \in Int /\ b * DayLength \in Int /\ Day(x) * DayLength \in Int
  BY <1>1, DayFacts, ScheduleAssumption
<1>3. a * DayLength + DayLength <= b * DayLength
  BY <1>1, TimesMonotone
<1>4. b * DayLength + DayLength <= Day(x) * DayLength
  BY <1>1, TimesMonotone, DayFacts
<1>5. Day(x) * DayLength <= x /\ x - 1 < a * DayLength + DayLength
  BY <1>1, DayFacts
<1> HIDE DEF a, b
<1> QED  BY <1>2, <1>3, <1>4, <1>5, ScheduleAssumption

\* The wall clock stays within the days of the model.
ClockInv ==
    /\ shift <= DayLength - 1 + shifts
    /\ lastRun # NeverRun => lastRun <= monotonic

\* A day whose target a tick, or a "Run now" before it, has served.
Served == ticked \cup byHand

\* What the job has done of the days that nothing disturbed: none is served from
\* the future, today is served exactly when the last run reaches its target by
\* the clock.
RunInv ==
    /\ \A d \in Served : d <= Day(Wall) \/ d \in shiftedDays
    /\ Day(Wall) \in Served \ shiftedDays =>
           lastRun # NeverRun /\ lastRun + shift >= TargetOf(Day(Wall))
    /\ lastRun # NeverRun /\ lastRun + shift >= TargetOf(Day(Wall)) =>
           Day(Wall) \in Served \cup shiftedDays

ScheduleInv == ScheduleTypeOK /\ ClockInv /\ RunInv /\ OncePerDay

\* The clock stays among the days of the model.
LEMMA TodayIsADay == ScheduleTypeOK /\ ClockInv => Day(Wall) \in ScheduleDays
<1> SUFFICES ASSUME ScheduleTypeOK, ClockInv PROVE Day(Wall) \in ScheduleDays
  OBVIOUS
<1>1. Wall \in Nat /\ Wall <= LastHour + DayLength + MaxShifts
  BY ScheduleAssumption DEF ScheduleTypeOK, ClockInv, Wall
<1>2. LastHour + DayLength + MaxShifts \in Int
  BY ScheduleAssumption
<1> QED  BY <1>1, <1>2, DaysCounted, DaysInOrder, DayFacts DEF ScheduleDays

LEMMA ScheduleStarts == ScheduleInit => ScheduleInv
<1> SUFFICES ASSUME ScheduleInit PROVE ScheduleInv
  OBVIOUS
<1>1. ScheduleTypeOK
  BY ScheduleAssumption DEF ScheduleInit, ScheduleTypeOK, Wall
<1>2. ClockInv /\ RunInv /\ OncePerDay
  BY ScheduleAssumption DEF ScheduleInit, ClockInv, RunInv, Served, OncePerDay
<1> QED  BY <1>1, <1>2 DEF ScheduleInv

\* A tick that runs the job records that it ran.
LEMMA TickKeeps == ScheduleInv /\ EngineTick => ScheduleInv'
<1> SUFFICES ASSUME ScheduleInv, EngineTick PROVE ScheduleInv'
  OBVIOUS
<1> DEFINE wallDay == Day(Wall)
<1>1. wallDay \in ScheduleDays /\ wallDay \in Int /\ Wall \in Nat /\ TargetOf(wallDay) \in Int
  BY TodayIsADay, DayFacts, TargetInDay DEF ScheduleInv, ScheduleTypeOK
<1>2. Wall' = Wall /\ shift' = shift /\ shiftedDays' = shiftedDays /\ shifts' = shifts
      /\ monotonic' = monotonic /\ byHand' = byHand
  BY DEF EngineTick, Wall
<1>3. ticked' = IF Reached THEN ticked \cup {wallDay} ELSE ticked
  BY DEF EngineTick
<1>4. CASE Due
  <2>1. lastRun' = monotonic /\ runs' = [runs EXCEPT ![wallDay] = @ + 1] /\ Reached
    BY <1>4 DEF EngineTick, Due
  <2>2. Wall >= TargetOf(wallDay) /\ ticked' = ticked \cup {wallDay} /\ lastRun' + shift = Wall
        /\ lastRun' # NeverRun
    BY <1>3, <2>1, ScheduleAssumption DEF Reached, Wall, ScheduleInv, ScheduleTypeOK
  <2>3. wallDay \in shiftedDays \/ wallDay \notin Served
    <3> SUFFICES ASSUME wallDay \in Served \ shiftedDays PROVE FALSE
      OBVIOUS
    <3>1. lastRun # NeverRun /\ lastRun + shift >= TargetOf(wallDay)
      BY DEF ScheduleInv, RunInv
    <3>2. lastRun + shift = Wall - (monotonic - lastRun)
      BY <3>1 DEF Wall, ScheduleInv, ScheduleTypeOK
    <3> QED  BY <1>4, <1>1, <3>1, <3>2 DEF Due, Unserved, ScheduleInv, ScheduleTypeOK
  <2>4. ScheduleTypeOK'
    BY <1>1, <1>2, <2>1, <2>2 DEF ScheduleInv, ScheduleTypeOK
  <2>5. ClockInv'
    BY <1>2, <2>1 DEF ScheduleInv, ScheduleTypeOK, ClockInv
  <2>6. RunInv'
    BY <1>1, <1>2, <2>2 DEF ScheduleInv, RunInv, Served
  <2>7. OncePerDay'
    BY <1>1, <1>2, <2>1, <2>2, <2>3 DEF ScheduleInv, ScheduleTypeOK, OncePerDay, Served
  <2> QED  BY <2>4, <2>5, <2>6, <2>7 DEF ScheduleInv
<1>5. CASE ~Due
  <2>1. lastRun' = lastRun /\ runs' = runs
    BY <1>5 DEF EngineTick
  <2>2. ScheduleTypeOK' /\ ClockInv'
    BY <1>1, <1>2, <1>3, <2>1 DEF ScheduleInv, ScheduleTypeOK, ClockInv
  <2>3. CASE ~Reached
    BY <1>2, <1>3, <2>1, <2>2, <2>3 DEF ScheduleInv, RunInv, OncePerDay, Served
  <2>4. CASE Reached
    <3>1. lastRun # NeverRun /\ lastRun + shift >= TargetOf(wallDay)
      <4>1. lastRun # NeverRun /\ ~Unserved(lastRun)
        BY <1>5, <2>4 DEF Due
      <4>2. lastRun + shift = Wall - (monotonic - lastRun)
        BY <4>1 DEF Wall, ScheduleInv, ScheduleTypeOK
      <4> QED  BY <1>1, <4>1, <4>2 DEF Unserved, ScheduleInv, ScheduleTypeOK
    <3>2. wallDay \in Served \cup shiftedDays
      BY <3>1 DEF ScheduleInv, RunInv
    <3>3. RunInv'
      BY <1>1, <1>2, <1>3, <2>1, <2>4, <3>1 DEF ScheduleInv, RunInv, Served
    <3>4. OncePerDay'
      BY <1>2, <1>3, <2>1, <2>4, <3>2 DEF ScheduleInv, OncePerDay, Served
    <3> QED  BY <2>2, <3>3, <3>4 DEF ScheduleInv
  <2> QED  BY <2>3, <2>4
<1> QED  BY <1>4, <1>5

\* "Run now" serves today, once the target is reached, and no other day.
LEMMA RunNowKeeps == ScheduleInv /\ RunJobNow => ScheduleInv'
<1> SUFFICES ASSUME ScheduleInv, RunJobNow PROVE ScheduleInv'
  OBVIOUS
<1> DEFINE wallDay == Day(Wall)
<1>1. wallDay \in ScheduleDays /\ wallDay \in Int /\ Wall \in Nat /\ TargetOf(wallDay) \in Int
  BY TodayIsADay, DayFacts, TargetInDay DEF ScheduleInv, ScheduleTypeOK
<1>2. /\ Wall' = Wall /\ lastRun' = monotonic
      /\ UNCHANGED <<monotonic, shift, runs, ticked, shifts, shiftedDays>>
  BY DEF RunJobNow, Wall
<1>3. byHand' = IF Reached /\ wallDay \notin ticked THEN byHand \cup {wallDay} ELSE byHand
  BY DEF RunJobNow
<1>4. lastRun' # NeverRun /\ lastRun' + shift' = Wall
  BY <1>2, ScheduleAssumption DEF Wall, ScheduleInv, ScheduleTypeOK
<1>5. wallDay \in Served \ shiftedDays => Wall >= TargetOf(wallDay)
  <2> SUFFICES ASSUME lastRun # NeverRun, lastRun + shift >= TargetOf(wallDay)
               PROVE  Wall >= TargetOf(wallDay)
    BY DEF ScheduleInv, RunInv
  <2> QED  BY <1>1 DEF Wall, ScheduleInv, ScheduleTypeOK, ClockInv
<1>6. ScheduleTypeOK' /\ ClockInv'
  BY <1>1, <1>2, <1>3 DEF ScheduleInv, ScheduleTypeOK, ClockInv
<1>7. RunInv'
  BY <1>1, <1>2, <1>3, <1>4, <1>5 DEF ScheduleInv, RunInv, Served, Reached
<1>8. OncePerDay'
  BY <1>1, <1>2, <1>3 DEF ScheduleInv, OncePerDay
<1> QED  BY <1>6, <1>7, <1>8 DEF ScheduleInv

\* An hour that passes moves the clock past no run.
LEMMA HourKeeps == ScheduleInv /\ Hour => ScheduleInv'
<1> SUFFICES ASSUME ScheduleInv, Hour PROVE ScheduleInv'
  OBVIOUS
<1>1. monotonic' = monotonic + 1 /\ monotonic < LastHour /\ Wall' = Wall + 1 /\ Wall \in Nat
  BY DEF Hour, Wall, ScheduleInv, ScheduleTypeOK
<1>2. UNCHANGED <<shift, lastRun, runs, ticked, byHand, shifts, shiftedDays>>
  BY DEF Hour
<1>3. ScheduleTypeOK' /\ ClockInv' /\ OncePerDay'
  BY <1>1, <1>2, ScheduleAssumption DEF ScheduleInv, ScheduleTypeOK, ClockInv, OncePerDay
<1>4. Day(Wall) \in Int /\ Day(Wall') \in Int /\ Day(Wall) <= Day(Wall')
  BY <1>1, DayFacts, DaysInOrder
<1>5. Served \subseteq Int /\ Served' = Served
  BY <1>2 DEF ScheduleInv, ScheduleTypeOK, ScheduleDays, Served
<1>6. CASE Day(Wall') = Day(Wall)
  BY <1>2, <1>3, <1>4, <1>5, <1>6 DEF ScheduleInv, RunInv
<1>7. CASE Day(Wall) < Day(Wall')
  <2>1. Day(Wall') \in Served' => Day(Wall') \in shiftedDays'
    BY <1>2, <1>4, <1>5, <1>7 DEF ScheduleInv, RunInv
  <2>2. ~(lastRun' # NeverRun /\ lastRun' + shift' >= TargetOf(Day(Wall')))
    <3> SUFFICES ASSUME lastRun # NeverRun PROVE lastRun + shift < TargetOf(Day(Wall'))
      BY <1>2, <1>4, TargetInDay DEF ScheduleInv, ScheduleTypeOK
    <3>1. lastRun + shift \in Int /\ lastRun + shift <= Wall
      BY DEF ScheduleInv, ScheduleTypeOK, ClockInv, Wall
    <3>2. Day(lastRun + shift) \in Int /\ Day(lastRun + shift) <= Day(Wall)
      BY <1>1, <3>1, DayFacts, DaysInOrder
    <3> QED  BY <1>4, <1>7, <3>1, <3>2, TargetInDay
  <2>3. RunInv'
    BY <1>2, <1>4, <1>5, <2>1, <2>2 DEF ScheduleInv, RunInv
  <2> QED  BY <1>3, <2>3 DEF ScheduleInv
<1> QED  BY <1>4, <1>6, <1>7

\* A change of the clock, or a restart, taints the days it touches.
LEMMA DisturbKeeps ==
    ASSUME ScheduleInv, Disturb, ScheduleTypeOK', ClockInv', UNCHANGED <<runs, ticked, byHand>>,
           Wall' >= Wall - 1
    PROVE  ScheduleInv'
<1>1. shiftedDays' = shiftedDays \cup {Day(Wall), Day(Wall')}
  BY DEF Disturb
<1>2. OncePerDay'
  BY <1>1 DEF ScheduleInv, OncePerDay
<1>3. Day(Wall) \in Int /\ Day(Wall') \in Int /\ Wall' \in Int
  BY DayFacts DEF ScheduleInv, ScheduleTypeOK
<1>4. \A d \in Served' : d <= Day(Wall') \/ d \in shiftedDays'
  <2>1. Day(Wall) - 1 <= Day(Wall - 1) /\ Day(Wall - 1) <= Day(Wall') /\ Day(Wall - 1) \in Int
    <3>1. Wall \in Int /\ Wall - 1 \in Int
      BY DEF ScheduleInv, ScheduleTypeOK
    <3> QED  BY <3>1, <1>3, AnHourBack, DaysInOrder, DayFacts
  <2>2. Served \subseteq Int /\ Served' = Served
    BY DEF ScheduleInv, ScheduleTypeOK, ScheduleDays, Served
  <2> QED  BY <1>1, <1>3, <2>1, <2>2 DEF ScheduleInv, RunInv
<1>5. RunInv'
  BY <1>1, <1>4 DEF RunInv
<1> QED  BY <1>2, <1>5 DEF ScheduleInv

\* A change of the clock stays within what the model bounds.
LEMMA DisturbTyped ==
    ASSUME ScheduleInv, Disturb, UNCHANGED <<monotonic, runs, ticked, byHand>>,
           Wall' \in Nat, shift' \in {shift - 1, shift, shift + 1}, lastRun' \in {lastRun, NeverRun}
    PROVE  ScheduleTypeOK' /\ ClockInv'
<1> USE ScheduleAssumption DEF ScheduleInv, ScheduleTypeOK, ClockInv
<1>1. shifts' = shifts + 1 /\ shifts < MaxShifts /\ shifts \in 0..MaxShifts
  BY DEF Disturb
<1>2. shift' \in Int /\ shift' <= DayLength - 1 + shifts' /\ shifts' \in 0..MaxShifts
  BY <1>1
<1>3. ClockInv'
  BY <1>2
<1>4. Day(Wall) \in ScheduleDays
  BY TodayIsADay
<1>5. Day(Wall') \in ScheduleDays
  <2>1. Wall' <= LastHour + DayLength + MaxShifts
    <3>1. monotonic' \in 0..LastHour
      OBVIOUS
    <3>2. Wall' = monotonic' + shift'
      BY DEF Wall
    <3> HIDE DEF ScheduleInv, ScheduleTypeOK, ClockInv
    <3> DEFINE m == monotonic'
               s == shift'
               n == shifts'
    <3>3. m \in 0..LastHour /\ s \in Int /\ s <= DayLength - 1 + n /\ n \in 0..MaxShifts
      BY <1>2, <3>1
    <3>4. Wall' = m + s
      BY <3>2
    <3> HIDE DEF m, s, n
    <3> QED  BY <3>3, <3>4
  <2>2. LastHour + DayLength + MaxShifts \in Int
    OBVIOUS
  <2> QED  BY <2>1, <2>2, DaysCounted, DaysInOrder, DayFacts DEF ScheduleDays
<1>6. shiftedDays' \subseteq ScheduleDays
  BY <1>4, <1>5 DEF Disturb
<1>7. lastRun' \in Nat \cup {NeverRun}
  OBVIOUS
<1> QED  BY <1>2, <1>3, <1>6, <1>7

\* The inductive invariant of the daily schedule, for days of any length.
THEOREM ScheduleInvariant == ScheduleSpec => []ScheduleInv
<1>1. ScheduleInv /\ [ScheduleNext]_scheduleVars => ScheduleInv'
  <2> SUFFICES ASSUME ScheduleInv, [ScheduleNext]_scheduleVars PROVE ScheduleInv'
    OBVIOUS
  <2>1. CASE ClockChange
    <3>1. PICK change \in {-1, 1} : Wall + change \in Nat /\ shift' = shift + change
      BY <2>1 DEF ClockChange
    <3>2. UNCHANGED <<monotonic, lastRun, runs, ticked, byHand>> /\ Disturb
      BY <2>1 DEF ClockChange
    <3>3. /\ shift \in Int /\ shift' \in {shift - 1, shift, shift + 1}
          /\ Wall' = Wall + change /\ Wall' \in Nat /\ Wall' >= Wall - 1
      BY <3>1, <3>2, ScheduleAssumption DEF Wall, ScheduleInv, ScheduleTypeOK
    <3>4. ScheduleTypeOK' /\ ClockInv'
      BY <3>2, <3>3, DisturbTyped
    <3> QED  BY <3>2, <3>3, <3>4, DisturbKeeps
  <2>2. CASE RestartEngine
    <3>1. lastRun' = NeverRun /\ UNCHANGED <<monotonic, shift, runs, ticked, byHand>> /\ Disturb
      BY <2>2 DEF RestartEngine
    <3>2. shift' \in {shift - 1, shift, shift + 1} /\ Wall' \in Nat /\ Wall' >= Wall - 1
      BY <3>1 DEF Wall, ScheduleInv, ScheduleTypeOK
    <3>3. ScheduleTypeOK' /\ ClockInv'
      BY <3>1, <3>2, DisturbTyped
    <3> QED  BY <3>1, <3>2, <3>3, DisturbKeeps
  <2>3. CASE UNCHANGED scheduleVars
    BY <2>3 DEF scheduleVars, ScheduleInv, ScheduleTypeOK, ClockInv, RunInv, Served, OncePerDay,
                 Wall
  <2> QED  BY <2>1, <2>2, <2>3, TickKeeps, RunNowKeeps, HourKeeps DEF ScheduleNext
<1> QED  BY ScheduleStarts, <1>1, PTL DEF ScheduleSpec

\* The variables of the daily schedule keep their types.
THEOREM ScheduleTypeCorrect == ScheduleSpec => []ScheduleTypeOK
<1>1. ScheduleInv => ScheduleTypeOK
  BY DEF ScheduleInv
<1> QED  BY ScheduleInvariant, <1>1, PTL

\* Days of any length, targets at any hour of them, ticks and "Run now" whenever
\* they come: on a day on which nothing moved the clock or restarted the engine,
\* and that had a tick at or after the target, the ticks run the job once, unless
\* somebody ran it by hand between the target and the first such tick.
THEOREM RunsOnceADay == ScheduleSpec => []OncePerDay
<1>1. ScheduleInv => OncePerDay
  BY DEF ScheduleInv
<1> QED  BY ScheduleInvariant, <1>1, PTL

-----------------------------------------------------------------------------
(* Views are counted once, for any number of visitors and overlapping      *)
(* flushes.                                                                *)

InFlight(k) == UNION {HeldBy(f, k) : f \in Flushers}

\* What is in flight can be counted, and every view is in one place.
CountInv ==
    /\ \A k \in Counters : IsFiniteSet(InFlight(k))
    /\ ViewsConserved

\* Whatever is known of a day's visitors, in memory, drained or stored, is
\* about visitors that were seen.
SeenInv ==
    \A d \in Days :
        /\ uniques[d] \subseteq seen[d]
        /\ \A f \in Flushers : batch[f] # NoBatch => batch[f].uniques[d] <= Cardinality(seen[d])
        /\ storedUniques[d] <= Cardinality(seen[d])

TrafficInv == TrafficTypeOK /\ CountInv /\ SeenInv

\* Visitors can be counted, and fewer of them are no more.
LEMMA VisitorsCounted ==
    \A S, T \in SUBSET Visitors : Cardinality(S) \in Nat /\ (S \subseteq T => Cardinality(S) <= Cardinality(T))
<1> SUFFICES ASSUME NEW S \in SUBSET Visitors, NEW T \in SUBSET Visitors
             PROVE  Cardinality(S) \in Nat /\ (S \subseteq T => Cardinality(S) <= Cardinality(T))
  OBVIOUS
<1>1. IsFiniteSet(S) /\ IsFiniteSet(T)
  BY TrafficAssumption, FS_Subset
<1> QED  BY <1>1, FS_Subset, FS_CardinalityType

\* A batch of n views is n views in flight.
LEMMA BatchSize == \A f, n : n \in Nat => IsFiniteSet({f} \X (1..n)) /\ Cardinality({f} \X (1..n)) = n
<1> SUFFICES ASSUME NEW f, NEW n \in Nat
             PROVE  IsFiniteSet({f} \X (1..n)) /\ Cardinality({f} \X (1..n)) = n
  OBVIOUS
<1>1. IsFiniteSet({f}) /\ Cardinality({f}) = 1
  BY FS_Singleton
<1>2. IsFiniteSet(1..n) /\ Cardinality(1..n) = n
  BY FS_Interval
<1>3. IsFiniteSet({f} \X (1..n)) /\ Cardinality({f} \X (1..n)) = 1 * n
  BY <1>1, <1>2, FS_Product, ZenonT(40)
<1> QED  BY <1>3

\* The size of a union of disjoint sets is the sum of their sizes.
LEMMA DisjointSum ==
    \A S, T : IsFiniteSet(S) /\ IsFiniteSet(T) /\ S \cap T = {} =>
        /\ IsFiniteSet(S \cup T) /\ Cardinality(S) \in Nat
        /\ Cardinality(S \cup T) = Cardinality(S) + Cardinality(T)
<1> SUFFICES ASSUME NEW S, NEW T, IsFiniteSet(S), IsFiniteSet(T), S \cap T = {}
             PROVE  /\ IsFiniteSet(S \cup T) /\ Cardinality(S) \in Nat
                    /\ Cardinality(S \cup T) = Cardinality(S) + Cardinality(T)
  OBVIOUS
<1>1. IsFiniteSet(S \cup T) /\ Cardinality(S \cup T) = Cardinality(S) + Cardinality(T) - Cardinality(S \cap T)
  BY FS_Union
<1>2. Cardinality(S) \in Nat /\ Cardinality(T) \in Nat
  BY FS_CardinalityType
<1>3. Cardinality(S \cap T) = 0
  BY FS_EmptySet
<1> QED  BY <1>1, <1>2, <1>3

LEMMA TrafficStarts == TrafficInit => TrafficInv
<1> SUFFICES ASSUME TrafficInit PROVE TrafficInv
  OBVIOUS
<1> USE DEF TrafficInit
<1>1. TrafficTypeOK
  <2>1. Zero \in [Counters -> Nat]
    BY DEF Zero
  <2>2. 1 \in Days
    BY TrafficAssumption DEF Days
  <2> QED  BY <2>1, <2>2 DEF TrafficTypeOK
<1>2. CountInv
  <2> SUFFICES ASSUME NEW k \in Counters
               PROVE  IsFiniteSet(InFlight(k)) /\ recorded[k] = views[k] + Unwritten(k) + stored[k] + lostViews[k]
    BY DEF CountInv, ViewsConserved
  <2>1. InFlight(k) = {}
    BY DEF InFlight, HeldBy
  <2>2. Unwritten(k) = 0 /\ IsFiniteSet(InFlight(k))
    BY <2>1, FS_EmptySet DEF Unwritten, InFlight
  <2> QED  BY <2>2 DEF Zero
<1>3. SeenInv
  <2>1. Cardinality({}) = 0
    BY FS_EmptySet
  <2> QED  BY <2>1 DEF SeenInv
<1> QED  BY <1>1, <1>2, <1>3 DEF TrafficInv

\* Nothing in flight moves as long as no batch does.
LEMMA InFlightKept ==
    ASSUME TrafficInv, batch' = batch, NEW k \in Counters
    PROVE  Unwritten(k)' = Unwritten(k) /\ InFlight(k)' = InFlight(k)
BY DEF Unwritten, InFlight, HeldBy

\* A request is counted once, with its visitor.
LEMMA RecordKeeps ==
    ASSUME TrafficInv, NEW path \in Paths, NEW v \in Visitors, NEW d \in Days, Record(path, v, d)
    PROVE  TrafficInv'
<1> DEFINE c == Tracked(d, path)
<1>1. c \in Counters
  BY DEF Tracked, Counters
<1>2. /\ views' = [views EXCEPT ![c] = @ + 1] /\ recorded' = [recorded EXCEPT ![c] = @ + 1]
      /\ uniques' = [uniques EXCEPT ![d] = @ \cup {v}] /\ seen' = [seen EXCEPT ![d] = @ \cup {v}]
      /\ UNCHANGED <<today, batch, stored, storedUniques, lostViews>>
  BY DEF Record
<1> HIDE DEF c
<1>3. TrafficTypeOK'
  BY <1>1, <1>2 DEF TrafficInv, TrafficTypeOK
<1>4. CountInv'
  <2> SUFFICES ASSUME NEW k \in Counters
               PROVE  /\ IsFiniteSet(InFlight(k)')
                      /\ recorded'[k] = views'[k] + Unwritten(k)' + stored'[k] + lostViews'[k]
    BY DEF CountInv, ViewsConserved
  <2>1. Unwritten(k)' = Unwritten(k) /\ InFlight(k)' = InFlight(k)
    BY <1>2, InFlightKept
  <2>2. IsFiniteSet(InFlight(k)) /\ recorded[k] = views[k] + Unwritten(k) + stored[k] + lostViews[k]
    BY DEF TrafficInv, CountInv, ViewsConserved
  <2>3. Unwritten(k) \in Nat
    BY <2>2, FS_CardinalityType DEF Unwritten, InFlight
  <2> QED  BY <1>1, <1>2, <2>1, <2>2, <2>3 DEF TrafficInv, TrafficTypeOK
<1>5. SeenInv'
  <2> SUFFICES ASSUME NEW e \in Days
               PROVE  /\ uniques'[e] \subseteq seen'[e]
                      /\ \A f \in Flushers : batch'[f] # NoBatch => batch'[f].uniques[e] <= Cardinality(seen'[e])
                      /\ storedUniques'[e] <= Cardinality(seen'[e])
    BY DEF SeenInv
  <2>1. seen[e] \in SUBSET Visitors /\ seen'[e] \in SUBSET Visitors /\ seen[e] \subseteq seen'[e]
    BY <1>2 DEF TrafficInv, TrafficTypeOK
  <2> DEFINE n == Cardinality(seen'[e])
  <2>2. n \in Nat /\ Cardinality(seen[e]) \in Nat /\ Cardinality(seen[e]) <= n
    BY <2>1, VisitorsCounted
  <2>3. uniques'[e] \subseteq seen'[e]
    BY <1>2 DEF TrafficInv, TrafficTypeOK, SeenInv
  <2> HIDE DEF n
  <2>4. storedUniques[e] <= n
    BY <2>2 DEF TrafficInv, TrafficTypeOK, SeenInv
  <2>5. ASSUME NEW f \in Flushers, batch[f] # NoBatch PROVE batch[f].uniques[e] <= n
    <3>1. batch[f].uniques[e] \in Nat
      BY <2>5 DEF TrafficInv, TrafficTypeOK, Batch
    <3> QED  BY <2>2, <2>5, <3>1 DEF TrafficInv, SeenInv
  <2> QED  BY <1>2, <2>3, <2>4, <2>5 DEF n
<1> QED  BY <1>3, <1>4, <1>5 DEF TrafficInv

\* A flush takes what is counted into its batch.
LEMMA DrainKeeps == ASSUME TrafficInv, NEW f \in Flushers, Drain(f) PROVE TrafficInv'
<1> DEFINE new == [views |-> views, uniques |-> [d \in Days |-> Cardinality(uniques[d])]]
<1>1. /\ batch[f] = NoBatch /\ batch' = [batch EXCEPT ![f] = new] /\ views' = Zero
      /\ uniques' = [d \in Days |-> IF d = today THEN uniques[d] ELSE {}]
      /\ UNCHANGED <<today, stored, storedUniques, recorded, lostViews, seen>>
  BY DEF Drain, AfterDrain
<1>2. new \in Batch /\ new # NoBatch
  BY VisitorsCounted, TrafficAssumption DEF TrafficInv, TrafficTypeOK, Batch
<1>3. new.views = views /\ \A d \in Days : new.uniques[d] = Cardinality(uniques[d])
  OBVIOUS
<1> HIDE DEF new
<1>4. TrafficTypeOK'
  BY <1>1, <1>2 DEF TrafficInv, TrafficTypeOK, Zero
<1>5. CountInv'
  <2> SUFFICES ASSUME NEW k \in Counters
               PROVE  /\ IsFiniteSet(InFlight(k)')
                      /\ recorded'[k] = views'[k] + Unwritten(k)' + stored'[k] + lostViews'[k]
    BY DEF CountInv, ViewsConserved
  <2> DEFINE H == {f} \X (1..views[k])
  <2>1. views[k] \in Nat /\ recorded[k] \in Nat /\ stored[k] \in Nat /\ lostViews[k] \in Nat
    BY DEF TrafficInv, TrafficTypeOK
  <2>2. IsFiniteSet(H) /\ Cardinality(H) = views[k]
    BY <2>1, BatchSize
  <2>3. IsFiniteSet(InFlight(k)) /\ recorded[k] = views[k] + Unwritten(k) + stored[k] + lostViews[k]
    BY DEF TrafficInv, CountInv, ViewsConserved
  <2>4. \A g \in Flushers : HeldBy(g, k)' = IF g = f THEN H ELSE HeldBy(g, k)
    BY <1>1, <1>2, <1>3 DEF HeldBy, TrafficInv, TrafficTypeOK
  <2>5. HeldBy(f, k) = {}
    BY <1>1 DEF HeldBy
  <2>6. InFlight(k)' = InFlight(k) \cup H
    BY <2>4, <2>5 DEF InFlight
  <2>7. \A g \in Flushers : HeldBy(g, k) \subseteq {g} \X Nat
    BY DEF HeldBy
  <2>8. InFlight(k) \cap H = {}
    BY <2>5, <2>7 DEF InFlight
  <2> HIDE DEF H
  <2>9. IsFiniteSet(InFlight(k)') /\ Cardinality(InFlight(k)') = Cardinality(InFlight(k)) + views[k]
    BY <2>2, <2>3, <2>6, <2>8, DisjointSum
  <2>10. Cardinality(InFlight(k)) \in Nat
    BY <2>3, FS_CardinalityType
  <2>11. Unwritten(k) = Cardinality(InFlight(k)) /\ Unwritten(k)' = Cardinality(InFlight(k)')
    BY DEF Unwritten, InFlight
  <2> QED  BY <1>1, <2>1, <2>3, <2>9, <2>10, <2>11 DEF Zero
<1>6. SeenInv'
  <2> SUFFICES ASSUME NEW e \in Days
               PROVE  /\ uniques'[e] \subseteq seen'[e]
                      /\ \A g \in Flushers : batch'[g] # NoBatch => batch'[g].uniques[e] <= Cardinality(seen'[e])
                      /\ storedUniques'[e] <= Cardinality(seen'[e])
    BY DEF SeenInv
  <2>1. uniques[e] \in SUBSET Visitors /\ seen[e] \in SUBSET Visitors /\ uniques[e] \subseteq seen[e]
    BY DEF TrafficInv, TrafficTypeOK, SeenInv
  <2>2. new.uniques[e] <= Cardinality(seen[e])
    BY <1>3, <2>1, VisitorsCounted
  <2> QED  BY <1>1, <2>1, <2>2 DEF TrafficInv, TrafficTypeOK, SeenInv
<1> QED  BY <1>4, <1>5, <1>6 DEF TrafficInv

\* A batch that is put away leaves what is in flight by exactly its views.
LEMMA PutAway ==
    ASSUME TrafficInv, NEW f \in Flushers, batch[f] # NoBatch, NEW k \in Counters,
           batch' = [batch EXCEPT ![f] = NoBatch]
    PROVE  /\ IsFiniteSet(InFlight(k)') /\ batch[f].views[k] \in Nat
           /\ Unwritten(k)' \in Nat /\ Unwritten(k) = Unwritten(k)' + batch[f].views[k]
<1> DEFINE n == batch[f].views[k]
           H == {f} \X (1..n)
<1>1. n \in Nat
  BY DEF TrafficInv, TrafficTypeOK, Batch
<1>2. IsFiniteSet(H) /\ Cardinality(H) = n
  BY <1>1, BatchSize
<1>3. HeldBy(f, k) = H /\ \A g \in Flushers : HeldBy(g, k)' = IF g = f THEN {} ELSE HeldBy(g, k)
  BY DEF HeldBy, TrafficInv, TrafficTypeOK
<1>4. \A g \in Flushers : HeldBy(g, k) \subseteq {g} \X Nat
  BY DEF HeldBy
<1> HIDE DEF n, H
<1>5. InFlight(k) = InFlight(k)' \cup H
  BY <1>3 DEF InFlight
<1>6. InFlight(k)' \cap H = {}
  BY <1>3, <1>4 DEF InFlight, H
<1>7. IsFiniteSet(InFlight(k)')
  BY <1>5, FS_Subset DEF TrafficInv, CountInv
<1>8. Cardinality(InFlight(k)') \in Nat /\ Cardinality(InFlight(k)) = Cardinality(InFlight(k)') + n
  BY <1>2, <1>5, <1>6, <1>7, DisjointSum
<1>9. Unwritten(k) = Cardinality(InFlight(k)) /\ Unwritten(k)' = Cardinality(InFlight(k)')
  BY DEF Unwritten, InFlight
<1> QED  BY <1>1, <1>7, <1>8, <1>9 DEF n

\* A row of a batch is written once, and taken off it.
LEMMA WriteKeeps == ASSUME TrafficInv, NEW f \in Flushers, WriteBatch(f) PROVE TrafficInv'
<1> DEFINE old == batch[f]
<1>1. /\ old # NoBatch /\ batch' = [batch EXCEPT ![f] = NoBatch]
      /\ stored' = Plus(stored, old.views)
      /\ UNCHANGED <<today, views, uniques, recorded, lostViews, seen>>
  BY DEF WriteBatch
<1>2. old \in Batch
  BY <1>1 DEF TrafficInv, TrafficTypeOK
<1>3. \A d \in Days : /\ old.uniques[d] \in Nat /\ storedUniques[d] \in Nat
                      /\ storedUniques'[d] \in {storedUniques[d], old.uniques[d]}
  BY <1>2 DEF WriteBatch, Estimate, TrafficInv, TrafficTypeOK, Batch
<1>4. TrafficTypeOK'
  <2>1. storedUniques' \in [Days -> Nat]
    <3>1. storedUniques' = [d \in Days |-> storedUniques'[d]]
      BY DEF WriteBatch
    <3> QED  BY <1>3, <3>1
  <2>2. stored' \in [Counters -> Nat]
    BY <1>1, <1>2 DEF Plus, TrafficInv, TrafficTypeOK, Batch
  <2>3. batch' \in [Flushers -> Batch \cup {NoBatch}]
    BY <1>1 DEF TrafficInv, TrafficTypeOK
  <2> QED  BY <1>1, <2>1, <2>2, <2>3 DEF TrafficInv, TrafficTypeOK
<1>5. CountInv'
  <2> SUFFICES ASSUME NEW k \in Counters
               PROVE  /\ IsFiniteSet(InFlight(k)')
                      /\ recorded'[k] = views'[k] + Unwritten(k)' + stored'[k] + lostViews'[k]
    BY DEF CountInv, ViewsConserved
  <2>1. /\ IsFiniteSet(InFlight(k)') /\ old.views[k] \in Nat
        /\ Unwritten(k)' \in Nat /\ Unwritten(k) = Unwritten(k)' + old.views[k]
    BY <1>1, PutAway
  <2>2. recorded[k] = views[k] + Unwritten(k) + stored[k] + lostViews[k]
    BY DEF TrafficInv, CountInv, ViewsConserved
  <2>3. views[k] \in Nat /\ stored[k] \in Nat /\ lostViews[k] \in Nat /\ recorded[k] \in Nat
    BY DEF TrafficInv, TrafficTypeOK
  <2>4. stored'[k] = stored[k] + old.views[k]
    BY <1>1 DEF Plus
  <2> HIDE DEF old
  <2> QED  BY <1>1, <2>1, <2>2, <2>3, <2>4
<1>6. SeenInv'
  BY <1>1, <1>3 DEF TrafficInv, TrafficTypeOK, SeenInv
<1> QED  BY <1>4, <1>5, <1>6 DEF TrafficInv

\* A flush that fails loses what is left of its batch.
LEMMA FailKeeps == ASSUME TrafficInv, NEW f \in Flushers, WriteBatchFails(f) PROVE TrafficInv'
<1> DEFINE old == batch[f]
<1>1. /\ old # NoBatch /\ batch' = [batch EXCEPT ![f] = NoBatch]
      /\ lostViews' = Plus(lostViews, old.views)
      /\ UNCHANGED <<today, views, uniques, stored, storedUniques, recorded, seen>>
  BY DEF WriteBatchFails
<1>2. old \in Batch
  BY <1>1 DEF TrafficInv, TrafficTypeOK
<1>3. TrafficTypeOK'
  <2>1. lostViews' \in [Counters -> Nat]
    BY <1>1, <1>2 DEF Plus, TrafficInv, TrafficTypeOK, Batch
  <2>2. batch' \in [Flushers -> Batch \cup {NoBatch}]
    BY <1>1 DEF TrafficInv, TrafficTypeOK
  <2> QED  BY <1>1, <2>1, <2>2 DEF TrafficInv, TrafficTypeOK
<1>4. CountInv'
  <2> SUFFICES ASSUME NEW k \in Counters
               PROVE  /\ IsFiniteSet(InFlight(k)')
                      /\ recorded'[k] = views'[k] + Unwritten(k)' + stored'[k] + lostViews'[k]
    BY DEF CountInv, ViewsConserved
  <2>1. /\ IsFiniteSet(InFlight(k)') /\ old.views[k] \in Nat
        /\ Unwritten(k)' \in Nat /\ Unwritten(k) = Unwritten(k)' + old.views[k]
    BY <1>1, PutAway
  <2>2. recorded[k] = views[k] + Unwritten(k) + stored[k] + lostViews[k]
    BY DEF TrafficInv, CountInv, ViewsConserved
  <2>3. views[k] \in Nat /\ stored[k] \in Nat /\ lostViews[k] \in Nat /\ recorded[k] \in Nat
    BY DEF TrafficInv, TrafficTypeOK
  <2>4. lostViews'[k] = lostViews[k] + old.views[k]
    BY <1>1 DEF Plus
  <2> HIDE DEF old
  <2> QED  BY <1>1, <2>1, <2>2, <2>3, <2>4
<1>5. SeenInv'
  BY <1>1 DEF TrafficInv, TrafficTypeOK, SeenInv
<1> QED  BY <1>3, <1>4, <1>5 DEF TrafficInv

\* A restart loses what is in memory and in the batches, and forgets the visitors.
LEMMA RestartKeeps == ASSUME TrafficInv, RestartTracker PROVE TrafficInv'
<1>1. /\ lostViews' = [k \in Counters |-> lostViews[k] + views[k] + Unwritten(k)]
      /\ views' = Zero /\ uniques' = [d \in Days |-> {}] /\ batch' = [f \in Flushers |-> NoBatch]
      /\ UNCHANGED <<today, stored, storedUniques, recorded, seen>>
  BY DEF RestartTracker
<1>2. \A k \in Counters : Unwritten(k) \in Nat
  BY FS_CardinalityType DEF TrafficInv, CountInv, InFlight, Unwritten
<1>3. TrafficTypeOK'
  <2>1. lostViews' \in [Counters -> Nat]
    BY <1>1, <1>2 DEF TrafficInv, TrafficTypeOK
  <2> QED  BY <1>1, <2>1 DEF TrafficInv, TrafficTypeOK, Zero
<1>4. CountInv'
  <2> SUFFICES ASSUME NEW k \in Counters
               PROVE  /\ IsFiniteSet(InFlight(k)')
                      /\ recorded'[k] = views'[k] + Unwritten(k)' + stored'[k] + lostViews'[k]
    BY DEF CountInv, ViewsConserved
  <2>1. InFlight(k)' = {}
    BY <1>1 DEF InFlight, HeldBy
  <2>2. Unwritten(k)' = 0 /\ IsFiniteSet(InFlight(k)')
    BY <2>1, FS_EmptySet DEF Unwritten, InFlight
  <2>3. recorded[k] = views[k] + Unwritten(k) + stored[k] + lostViews[k]
    BY DEF TrafficInv, CountInv, ViewsConserved
  <2>4. views[k] \in Nat /\ stored[k] \in Nat /\ lostViews[k] \in Nat /\ Unwritten(k) \in Nat
    BY <1>2 DEF TrafficInv, TrafficTypeOK
  <2> QED  BY <1>1, <2>2, <2>3, <2>4 DEF Zero
<1>5. SeenInv'
  BY <1>1 DEF TrafficInv, SeenInv
<1> QED  BY <1>3, <1>4, <1>5 DEF TrafficInv

\* The inductive invariant of the traffic counters, for any number of flushes.
THEOREM TrafficInvariant == TrafficSpec => []TrafficInv
<1>1. TrafficInv /\ [TrafficNext]_trafficVars => TrafficInv'
  <2> SUFFICES ASSUME TrafficInv, [TrafficNext]_trafficVars PROVE TrafficInv'
    OBVIOUS
  <2>1. CASE Midnight \/ UNCHANGED trafficVars
    <3>1. UNCHANGED <<views, uniques, batch, stored, storedUniques, recorded, lostViews, seen>>
      BY <2>1 DEF Midnight, trafficVars
    <3>2. today' \in Days
      BY <2>1, TrafficAssumption DEF Midnight, trafficVars, TrafficInv, TrafficTypeOK, Days
    <3>3. \A k \in Counters : Unwritten(k)' = Unwritten(k) /\ InFlight(k)' = InFlight(k)
      BY <3>1, InFlightKept
    <3>4. TrafficTypeOK'
      BY <3>1, <3>2 DEF TrafficInv, TrafficTypeOK
    <3>5. CountInv'
      BY <3>1, <3>3 DEF TrafficInv, CountInv, ViewsConserved
    <3>6. SeenInv'
      BY <3>1 DEF TrafficInv, SeenInv
    <3> QED  BY <3>4, <3>5, <3>6 DEF TrafficInv
  <2> QED  BY <2>1, RecordKeeps, DrainKeeps, WriteKeeps, FailKeeps, RestartKeeps DEF TrafficNext
<1> QED  BY TrafficStarts, <1>1, PTL DEF TrafficSpec

\* The counters, batches and tables of the traffic keep their types.
THEOREM TrafficTypeCorrect == TrafficSpec => []TrafficTypeOK
<1>1. TrafficInv => TrafficTypeOK
  BY DEF TrafficInv
<1> QED  BY TrafficInvariant, <1>1, PTL

\* With any number of overlapping flushes, failures and restarts, a view that
\* was recorded is in memory, in one batch, stored or lost.
THEOREM NoViewTwice == TrafficSpec => []ViewsConserved
<1>1. TrafficInv => ViewsConserved
  BY DEF TrafficInv, CountInv
<1> QED  BY TrafficInvariant, <1>1, PTL

\* A stored number of visitors never shrinks, and never exceeds those seen.
THEOREM EstimatesGrow == TrafficSpec => UniquesOnlyGrow
<1> DEFINE Grows == \A d \in Days : storedUniques[d] <= storedUniques'[d]
                                    /\ storedUniques'[d] <= Cardinality(seen[d])
<1>1. TrafficInv /\ [TrafficNext]_trafficVars => [Grows]_trafficVars
  <2> SUFFICES ASSUME TrafficInv, TrafficNext, NEW d \in Days
               PROVE  storedUniques[d] <= storedUniques'[d] /\ storedUniques'[d] <= Cardinality(seen[d])
    OBVIOUS
  <2>1. storedUniques[d] \in Nat /\ storedUniques[d] <= Cardinality(seen[d])
    BY DEF TrafficInv, TrafficTypeOK, SeenInv
  <2>2. CASE \E f \in Flushers : WriteBatch(f)
    <3> PICK f \in Flushers : WriteBatch(f)
      BY <2>2
    <3>1. batch[f].uniques[d] \in Nat /\ batch[f].uniques[d] <= Cardinality(seen[d])
      BY DEF WriteBatch, TrafficInv, TrafficTypeOK, Batch, SeenInv
    <3>2. storedUniques'[d] = IF batch[f].uniques[d] = 0 THEN storedUniques[d]
                              ELSE Estimate(storedUniques[d], batch[f].uniques[d])
      BY DEF WriteBatch
    <3> QED  BY <2>1, <3>1, <3>2 DEF Estimate
  <2>3. CASE storedUniques' = storedUniques
    BY <2>1, <2>3
  <2> QED  BY <2>2, <2>3 DEF TrafficNext, Midnight, Record, Drain, WriteBatchFails, RestartTracker
<1> QED  BY TrafficInvariant, <1>1, PTL DEF TrafficSpec, UniquesOnlyGrow
=============================================================================
