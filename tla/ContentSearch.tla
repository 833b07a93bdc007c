--------------------------- MODULE ContentSearch ---------------------------
(***************************************************************************)
(* Searching the published contents: the FTS5 index that _ensure_fts makes *)
(* when a container boots, the triggers that keep it, and                  *)
(* ContentRepository.search, which asks the index and falls back to LIKE   *)
(* when that raises.                                                       *)
(*                                                                         *)
(* Python's sqlite3 opens a transaction for INSERT but not for CREATE, so  *)
(* each object of the index is there as soon as it is created, and only    *)
(* the rebuild is undone by the rollback.  A text either matches the term  *)
(* searched for or it does not.                                            *)
(***************************************************************************)
EXTENDS Naturals, FiniteSets

CONSTANTS Items,       \* contents.id
          Indexers,    \* containers that boot
          Searches,    \* requests
          MaxEdits     \* bound of the edits

ASSUME ContentSearchAssumption == MaxEdits \in Nat

VARIABLES text,      \* text[i]: what contents holds
          published,     \* the published rows
          objects,   \* how many of _FTS_OBJECTS exist, in the order they are created
          indexed,     \* indexed[i]: the text the index has for rowid i
          damaged,   \* an entry was removed under a text it was not made of
          indexer,   \* indexer[b]: the object it is at, Rebuilding or Serving
          rebuilt,   \* a container has rebuilt the index
          query,     \* query[s]: the state of a search
          edits

searchVars == <<text, published, objects, indexed, damaged, indexer, rebuilt, query, edits>>

Rebuilding == 5
Serving == 6

Texts == {"none", "match", "other"}
NoAnswer == [stage |-> "idle", whole |-> FALSE, must |-> {}, found |-> {}]

SearchTypeOK ==
    /\ text \in [Items -> Texts] /\ published \subseteq Items
    /\ objects \in 0..4 /\ indexed \in [Items -> Texts] /\ damaged \in BOOLEAN
    /\ indexer \in [Indexers -> 1..Serving]
    /\ rebuilt \in BOOLEAN
    /\ query \in [Searches -> [stage : {"idle", "index", "like", "answered"},
                               whole : BOOLEAN, must : SUBSET Items, found : SUBSET Items]]
    /\ edits \in 0..MaxEdits

\* A database of a release without the index, with contents in it.
SearchInit ==
    /\ text \in [Items -> Texts] /\ published = {i \in Items : text[i] # "none"}
    /\ objects = 0 /\ indexed = [i \in Items |-> "none"] /\ damaged = FALSE
    /\ indexer = [b \in Indexers |-> 1]
    /\ rebuilt = FALSE
    /\ query = [s \in Searches |-> NoAnswer]
    /\ edits = 0

-----------------------------------------------------------------------------
\* Fault variants, each substituted for the definition named beside it.
IndexNeverRaises == TRUE                                             \* IndexAnswers

-----------------------------------------------------------------------------
(* Booting: _ensure_fts. *)

\* CREATE ... IF NOT EXISTS: the virtual table, then a trigger for inserts, one
\* for deletes, one for updates.
CreateObject(b) ==
    /\ indexer[b] \in 1..4
    /\ objects' = IF objects < indexer[b] THEN indexer[b] ELSE objects
    /\ indexer' = [indexer EXCEPT ![b] = @ + 1]
    /\ UNCHANGED <<text, published, indexed, damaged, rebuilt, query, edits>>

Rebuild(b) ==
    /\ indexer[b] = Rebuilding
    /\ indexed' = text
    /\ damaged' = FALSE /\ rebuilt' = TRUE
    /\ indexer' = [indexer EXCEPT ![b] = Serving]
    /\ UNCHANGED <<text, published, objects, query, edits>>

\* The database is busy: a warning, and the container serves.
IndexingFails(b) ==
    /\ indexer[b] \in 1..Rebuilding
    /\ indexer' = [indexer EXCEPT ![b] = Serving]
    /\ UNCHANGED <<text, published, objects, indexed, damaged, rebuilt, query, edits>>

Reboot(b) ==
    /\ indexer[b] = Serving /\ edits < MaxEdits
    /\ indexer' = [indexer EXCEPT ![b] = 1]
    /\ edits' = edits + 1
    /\ UNCHANGED <<text, published, objects, indexed, damaged, rebuilt, query>>

-----------------------------------------------------------------------------
(* Edits, and the triggers. *)

\* contents_fts_ai is the second object, contents_fts_ad the third,
\* contents_fts_au the fourth.
TriggerFires(i, new) ==
    CASE text[i] = "none" -> objects >= 2
      [] text[i] # "none" /\ new = "none" -> objects >= 3
      [] OTHER -> objects >= 4

\* ContentService.create, update, delete.  A search that has begun is bound to
\* find only what stays as it is.
EditItem(i, new, publish) ==
    /\ edits < MaxEdits /\ edits' = edits + 1
    /\ text' = [text EXCEPT ![i] = new]
    /\ published' = IF publish /\ new # "none" THEN published \cup {i} ELSE published \ {i}
    /\ IF TriggerFires(i, new)
       THEN /\ indexed' = [indexed EXCEPT ![i] = new]
            /\ damaged' = (damaged \/ indexed[i] # text[i])
       ELSE UNCHANGED <<indexed, damaged>>
    /\ query' = [s \in Searches |-> [query[s] EXCEPT !.must = @ \ {i}]]
    /\ UNCHANGED <<objects, indexer, rebuilt>>

-----------------------------------------------------------------------------
(* Searching. *)

\* Rows whose entry matches; the join drops what is no row any more.
Matching == {i \in Items : indexed[i] = "match" /\ text[i] # "none"}

\* Without the virtual table the first statement raises.
IndexAnswers == objects >= 1

\* SELECT COUNT(*), on the index if it answers, or with LIKE.
BeginSearch(s) ==
    /\ query[s].stage = "idle"
    /\ \E stage \in (IF IndexAnswers THEN {"index"} ELSE {}) \cup
                    (IF ~IndexAnswers \/ damaged THEN {"like"} ELSE {}) :
          query' = [query EXCEPT ![s] =
                       [stage |-> stage, whole |-> objects = 0 \/ rebuilt,
                        must |-> {i \in published : text[i] = "match"}, found |-> {}]]
    /\ UNCHANGED <<text, published, objects, indexed, damaged, indexer, rebuilt, edits>>

SearchAnswered(s, rows) ==
    query' = [query EXCEPT ![s] = [@ EXCEPT !.stage = "answered", !.found = rows]]

\* The page of rows, a statement of its own.
SelectIndex(s) ==
    /\ query[s].stage = "index"
    /\ SearchAnswered(s, Matching \cap published)
    /\ UNCHANGED <<text, published, objects, indexed, damaged, indexer, rebuilt, edits>>

\* A damaged index may raise here as well as at the count.
FallBack(s) ==
    /\ query[s].stage = "index" /\ damaged
    /\ query' = [query EXCEPT ![s].stage = "like"]
    /\ UNCHANGED <<text, published, objects, indexed, damaged, indexer, rebuilt, edits>>

SelectLike(s) ==
    /\ query[s].stage = "like"
    /\ SearchAnswered(s, {i \in published : text[i] = "match"})
    /\ UNCHANGED <<text, published, objects, indexed, damaged, indexer, rebuilt, edits>>

SearchNext ==
    \/ \E b \in Indexers : CreateObject(b) \/ Rebuild(b) \/ IndexingFails(b) \/ Reboot(b)
    \/ \E i \in Items, new \in Texts, publish \in BOOLEAN :
          (text[i] # "none" \/ new # "none") /\ EditItem(i, new, publish)
    \/ \E s \in Searches : BeginSearch(s) \/ SelectIndex(s) \/ FallBack(s) \/ SelectLike(s)

SearchSpec == SearchInit /\ [][SearchNext]_searchVars

-----------------------------------------------------------------------------
\* "kept in sync by triggers" (schema.py:145): once a container has rebuilt the
\* index, it holds what contents holds, whichever container created which of
\* its objects, and whatever was edited between two of them.
IndexFollowsContents == rebuilt => indexed = text /\ ~damaged

\* A search that began without an index, or with one that some container had
\* completed, finds every published row that matched all along.  "On failure
\* the search layer falls back to LIKE" (schema.py:231) does not hold in between:
\* an index whose rebuild failed, or has still to come, answers without raising,
\* and misses what was there before it.
SearchIsComplete ==
    \A s \in Searches :
        query[s].stage = "answered" /\ query[s].whole => query[s].must \subseteq query[s].found

\* Both: the index serves searches as the table would.
IndexServesSearch == IndexFollowsContents /\ SearchIsComplete
=============================================================================
