------------------------------ MODULE Listing ------------------------------
(***************************************************************************)
(* BaseRepository.list_page() and PageRequest: a client that reads a table *)
(* page by page, newest first, while rows come and go.  Every page is a    *)
(* COUNT and a SELECT with LIMIT and OFFSET, two statements.  A row is its *)
(* id.  The client asks for pages until the one it got was the last.       *)
(***************************************************************************)
EXTENDS Naturals, FiniteSetsExt

CONSTANTS PageSize, FirstRows, LastId

ASSUME ListingAssumption == PageSize \in Nat \ {0} /\ LastId \in Nat /\ FirstRows \in 0..LastId

VARIABLES rows, nextId,
          page, total,   \* the page the client is at, and the COUNT it came with
          stage,         \* "count", "select" or "over"
          shown,         \* rows the client was shown
          disturbed      \* a row was deleted, or added between the two statements

listingVars == <<rows, nextId, page, total, stage, shown, disturbed>>

ListingTypeOK ==
    /\ rows \subseteq 1..LastId /\ nextId \in 1..(LastId + 1)
    /\ page \in Nat \ {0} /\ total \in Nat
    /\ stage \in {"count", "select", "over"}
    /\ shown \subseteq 1..LastId
    /\ disturbed \in BOOLEAN

ListingInit ==
    /\ rows = 1..FirstRows /\ nextId = FirstRows + 1
    /\ page = 1 /\ total = 0 /\ stage = "count"
    /\ shown = {} /\ disturbed = FALSE

-----------------------------------------------------------------------------
\* Fault variants, each substituted for the definition named beside it.
FromZero(p) == p * PageSize                                          \* Offset

-----------------------------------------------------------------------------
Offset(p) == (p - 1) * PageSize
PageCount(n) == IF n = 0 THEN 1 ELSE (n + PageSize - 1) \div PageSize

\* ORDER BY id DESC LIMIT size OFFSET offset
Slice(p) ==
    {r \in rows : LET before == Cardinality({s \in rows : s > r})
                  IN  Offset(p) <= before /\ before < Offset(p) + PageSize}

\* The pager shows a link to the next page.
HasNext == page < PageCount(total)

CountRows ==
    /\ stage = "count"
    /\ total' = Cardinality(rows)
    /\ stage' = "select"
    /\ UNCHANGED <<rows, nextId, page, shown, disturbed>>

SelectRows ==
    /\ stage = "select"
    /\ shown' = shown \cup Slice(page)
    /\ IF HasNext THEN page' = page + 1 /\ stage' = "count"
       ELSE stage' = "over" /\ UNCHANGED page
    /\ UNCHANGED <<rows, nextId, total, disturbed>>

AddRow ==
    /\ stage # "over" /\ nextId <= LastId
    /\ rows' = rows \cup {nextId}
    /\ nextId' = nextId + 1
    /\ disturbed' = (disturbed \/ stage = "select")
    /\ UNCHANGED <<page, total, stage, shown>>

DeleteRow ==
    /\ stage # "over"
    /\ \E r \in rows : rows' = rows \ {r}
    /\ disturbed' = TRUE
    /\ UNCHANGED <<nextId, page, total, stage, shown>>

ListingNext == CountRows \/ SelectRows \/ AddRow \/ DeleteRow

ListingSpec == ListingInit /\ [][ListingNext]_listingVars

-----------------------------------------------------------------------------
\* The newest-first order (base.py:119) is what paging relies on: new rows push
\* old ones to later pages, so a client that reads to the last page has seen
\* every row that was there when it began.  It may have missed one if a row
\* was deleted, or was added between the COUNT and the SELECT of a page, for
\* then the number of pages is out of date.
NothingMissed == stage = "over" /\ ~disturbed => 1..FirstRows \subseteq shown
=============================================================================
