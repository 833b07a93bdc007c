-------------------------------- MODULE Site --------------------------------
(***************************************************************************)
(* Pages and the redirects that follow their renames: ContentService,      *)
(* EventBus, the slug_changed handler of bootstrap.py, RedirectService and *)
(* the two ways a path is answered (fixed route, catch-all route).         *)
(*                                                                         *)
(* Edits run in worker threads; each database statement is an action.  A   *)
(* path is "/" and a slug and is named by the slug; drafts, which no path   *)
(* answers, and the caches in front of both tables (ReadThroughCache) are  *)
(* left out.                                                               *)
(***************************************************************************)
EXTENDS Naturals

CONSTANTS PageIds, Slugs, Edits, NoPage, NoEdit,
          Gone, Done,   \* the id of a deleted row; an edit that is over
          FirstRules,  \* the rules that earlier renames have left
          FixedSlugs   \* slugs with a route of their own: /about, /terms, ...

VARIABLES pages,      \* contents: the slug of a published page, NoPage or Gone
          redirects,  \* redirects: the target of the rule from a path, or "none"
          edit,       \* edit[e]: what the thread e is doing
          newest,     \* newest[s]: where the last rename away from s went, or "none"
          excused,    \* paths whose rule was deleted or made by hand, whose handler
                      \* failed or ran next to another one for that path, or which
                      \* an update left without knowing (its copy was older)
          reused      \* slugs that a page took after a rename had left them

siteVars == <<pages, redirects, edit, newest, excused, reused>>

Edit == [op : {"create", "update", "delete", "redirect"},
         id : PageIds \cup {NoPage},
         slug : Slugs,          \* the slug submitted; the target of a rule
         old : Slugs,           \* existing.slug; the source of a rule
         stage : {"fetch", "check", "write", "finish", "lookup", "forward"},
         found : {"none", "rule", "gone"}]   \* what find_by_from_path returned

ASSUME SiteAssumption ==
    /\ {NoEdit, Done} \cap Edit = {}
    /\ {NoPage, Gone, "none"} \cap Slugs = {} /\ NoPage # Gone
    /\ FirstRules \subseteq [Slugs -> Slugs \cup {"none"}]

SiteTypeOK ==
    /\ pages \in [PageIds -> Slugs \cup {NoPage, Gone}]
    /\ redirects \in [Slugs -> Slugs \cup {"none"}]
    /\ edit \in [Edits -> Edit \cup {NoEdit, Done}]
    /\ newest \in [Slugs -> Slugs \cup {"none"}]
    /\ excused \subseteq Slugs /\ reused \subseteq Slugs

Stored(i) == pages[i] \in Slugs
PageAt(s) == {i \in PageIds : pages[i] = s}
SlugTaken(s, own) == PageAt(s) \ own # {}
Active(e) == edit[e] \notin {NoEdit, Done}
Editing(e, stage) == Active(e) /\ edit[e].stage = stage

SiteInit ==
    /\ pages \in {p \in [PageIds -> Slugs \cup {NoPage}] :
                    \A i, j \in PageIds : i # j => p[i] = NoPage \/ p[i] # p[j]}
    /\ redirects \in FirstRules
    /\ edit = [e \in Edits |-> NoEdit]
    /\ newest = redirects
    /\ excused = {}
    /\ reused = {s \in Slugs : redirects[s] # "none" /\ PageAt(s) # {}}

\* A rename away from s whose rule has not been written yet.
Pending(s) == {e \in Edits : Active(e) /\ edit[e].op = "update" /\ edit[e].old = s
                             /\ edit[e].stage \in {"finish", "lookup", "forward"}}

-----------------------------------------------------------------------------
\* Fault variants, each substituted for the definition named beside it.
KeepFirstRule(s, to) == redirects' = IF redirects[s] = "none"
                                     THEN [redirects EXCEPT ![s] = to] ELSE redirects  \* Upsert
Backwards(q) == [source |-> q.slug, target |-> q.old]                             \* SlugChanged

-----------------------------------------------------------------------------
(* ContentService. *)

Begin(e, op, i, slug, old) ==
    /\ edit[e] = NoEdit
    /\ edit' = [edit EXCEPT ![e] =
          [op |-> op, id |-> i, slug |-> slug, old |-> old, found |-> "none",
           stage |-> CASE op = "create" -> "check" [] op = "redirect" -> "lookup"
                       [] OTHER -> "fetch"]]
    /\ UNCHANGED <<pages, redirects, newest, excused, reused>>

Goes(e, stage) == edit' = [edit EXCEPT ![e].stage = stage]
Ends(e) == edit' = [edit EXCEPT ![e] = Done]

\* get_by_id; a row that is not there is the end of the edit.
FetchPage(e) ==
    LET q == edit[e] IN
    /\ Editing(e, "fetch")
    /\ IF Stored(q.id)
       THEN edit' = [edit EXCEPT ![e].old = pages[q.id],
                                 ![e].stage = IF q.op = "delete" THEN "write" ELSE "check"]
       ELSE Ends(e)
    /\ UNCHANGED <<pages, redirects, newest, excused, reused>>

\* slug_exists
CheckSlug(e) ==
    LET q == edit[e] IN
    /\ Editing(e, "check")
    /\ IF SlugTaken(q.slug, IF q.op = "update" THEN {q.id} ELSE {})
       THEN Ends(e) ELSE Goes(e, "write")
    /\ UNCHANGED <<pages, redirects, newest, excused, reused>>

Takes(s) == reused' = IF newest[s] # "none" THEN reused \cup {s} ELSE reused

InsertPage(e) ==
    LET q == edit[e] IN
    /\ Editing(e, "write") /\ q.op = "create"
    /\ ~SlugTaken(q.slug, {})
    /\ \E i \in PageIds : pages[i] = NoPage /\ pages' = [pages EXCEPT ![i] = q.slug]
    /\ Takes(q.slug)
    /\ Goes(e, "finish")
    /\ UNCHANGED <<redirects, newest, excused>>

UpdatePage(e) ==
    LET q == edit[e] IN
    /\ Editing(e, "write") /\ q.op = "update"
    /\ Stored(q.id) /\ ~SlugTaken(q.slug, {q.id})
    /\ pages' = [pages EXCEPT ![q.id] = q.slug]
    /\ IF q.slug = pages[q.id] THEN UNCHANGED reused ELSE Takes(q.slug)
    /\ newest' = IF q.slug = q.old THEN newest ELSE [newest EXCEPT ![q.old] = q.slug]
    /\ excused' = excused \cup (IF Pending(q.old) = {} THEN {} ELSE {q.old})
                          \cup ({pages[q.id]} \ {q.old, q.slug})
    /\ Goes(e, "finish")
    /\ UNCHANGED redirects

DeletePage(e) ==
    LET q == edit[e] IN
    /\ Editing(e, "write") /\ q.op = "delete"
    /\ Stored(q.id)
    /\ pages' = [pages EXCEPT ![q.id] = Gone]
    /\ Goes(e, "finish")
    /\ UNCHANGED <<redirects, newest, excused, reused>>

\* The UNIQUE slug was taken, or the row deleted, since the checks, or the
\* database fails.
WriteFails(e) ==
    /\ Editing(e, "write")
    /\ Ends(e)
    /\ UNCHANGED <<pages, redirects, newest, excused, reused>>

\* The event a rename publishes.
SlugChanged(q) == [source |-> q.old, target |-> q.slug]

\* Invalidate, audit, publish.  A failing audit insert ends the edit here, with
\* the row changed and the event unpublished.
Finish(e) ==
    LET q == edit[e]
        renamed == q.op = "update" /\ q.slug # q.old
    IN
    /\ Editing(e, "finish")
    /\ \/ /\ IF renamed THEN Goes(e, "lookup") ELSE Ends(e)
          /\ UNCHANGED excused
       \/ /\ Ends(e)
          /\ excused' = IF renamed THEN excused \cup {q.old} ELSE excused
    /\ UNCHANGED <<pages, redirects, newest, reused>>

-----------------------------------------------------------------------------
(* RedirectService: auto_create for the event, create for an administrator. *)

Valid(r) == r.source # r.target

\* auto_create finds the rule and updates it; create refuses when there is one.
Lookup(e) ==
    LET q == edit[e]
        r == SlugChanged(q)
        known == redirects[r.source] # "none"
    IN
    /\ Editing(e, "lookup")
    /\ IF ~Valid(r) \/ (q.op = "redirect" /\ known) THEN Ends(e)
       ELSE edit' = [edit EXCEPT ![e].found = IF known THEN "rule" ELSE "none",
                                 ![e].stage = "forward"]
    /\ UNCHANGED <<pages, redirects, newest, excused, reused>>

Upsert(s, to) == redirects' = [redirects EXCEPT ![s] = to]

\* UPDATE by the id of the rule that was found, or INSERT with UNIQUE(from_path).
Forward(e) ==
    LET q == edit[e]
        r == SlugChanged(q)
    IN
    /\ Editing(e, "forward")
    /\ CASE q.found = "rule" -> Upsert(r.source, r.target)
         [] q.found = "gone" -> UNCHANGED redirects
         [] q.found = "none" /\ redirects[r.source] = "none" -> Upsert(r.source, r.target)
         [] OTHER -> UNCHANGED redirects
    /\ excused' = IF q.op = "redirect" THEN excused \cup {r.source} ELSE excused
    /\ Ends(e)
    /\ UNCHANGED <<pages, newest, reused>>

\* A failing database: the bus swallows the handler's exception.
ForwardFails(e) ==
    /\ Editing(e, "forward")
    /\ excused' = excused \cup {edit[e].old}
    /\ Ends(e)
    /\ UNCHANGED <<pages, redirects, newest, reused>>

\* An update that has found the rule will change no row.
DropRule(s) ==
    /\ redirects[s] # "none"
    /\ redirects' = [redirects EXCEPT ![s] = "none"]
    /\ excused' = excused \cup {s}
    /\ edit' = [e \in Edits |-> IF Editing(e, "forward") /\ edit[e].old = s /\ edit[e].found = "rule"
                                THEN [edit[e] EXCEPT !.found = "gone"] ELSE edit[e]]
    /\ UNCHANGED <<pages, newest, reused>>

EditStep(e) ==
    \/ FetchPage(e) \/ CheckSlug(e) \/ InsertPage(e) \/ UpdatePage(e) \/ DeletePage(e)
    \/ WriteFails(e) \/ Finish(e) \/ Lookup(e) \/ Forward(e) \/ ForwardFails(e)

SiteNext ==
    \/ \E e \in Edits, s \in Slugs :
          \/ Begin(e, "create", NoPage, s, s)
          \/ \E i \in PageIds : Begin(e, "update", i, s, s)
          \/ \E to \in Slugs : Begin(e, "redirect", NoPage, to, s)
    \/ \E e \in Edits, i \in PageIds :
          Stored(i) /\ Begin(e, "delete", i, pages[i], pages[i])
    \/ \E e \in Edits : EditStep(e)
    \/ \E s \in Slugs : DropRule(s)

SiteSpec == SiteInit /\ [][SiteNext]_siteVars

-----------------------------------------------------------------------------
(* What a visitor gets. *)

\* A fixed route serves its page and never looks at the rules; the catch-all
\* looks at the rules before the pages.
Answer(s) ==
    IF s \notin FixedSlugs /\ redirects[s] # "none" THEN [kind |-> "moved", to |-> redirects[s]]
    ELSE IF PageAt(s) # {} THEN [kind |-> "page", to |-> s]
    ELSE [kind |-> "missing", to |-> s]

\* "A subscriber turns this into a 301 redirect (SEO-safe rename)"
\* (content_service.py:87): once the handlers are done, the rule from a slug
\* that a page has left leads where the last rename went, whatever was there.
ForwardsToNewest ==
    \A s \in Slugs \ excused :
        newest[s] # "none" /\ Pending(s) = {} => redirects[s] = newest[s]

\* A published page is answered at its path.  redirect_service.py:3-4 promises
\* it for every page ("lookups happen only on the 404 path"); in fact a page
\* that takes a slug left by a rename, or named by a rule made by hand, is
\* hidden behind the rule.
HiddenOnlyByReuse ==
    \A i \in PageIds : Stored(i) =>
        Answer(pages[i]).kind = "page" \/ pages[i] \in reused \cup excused
=============================================================================
