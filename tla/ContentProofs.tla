--------------------------- MODULE ContentProofs ----------------------------
(***************************************************************************)
(* Proofs about what administrators edit: rows behind forms, slugs and the *)
(* rules that forward from them, settings, the search index and media      *)
(* files.                                                                  *)
(***************************************************************************)
EXTENDS EditForms, Site, SiteSettings, ContentSearch, Media, TLAPS

-----------------------------------------------------------------------------
(* What an administrator wrote is lost only to an older copy or a default, *)
(* and a save that is reported wrote the row, for any number of forms.     *)

\* Fields the handler of a menu item fills with a default.
Reset == resource = "menus" /\ field \in {"parent_id", "created_at"}

\* A copy that would lose nothing.
Current(copy) ==
    copy = meant \/ undone \/ Reset \/ (leftOut /\ copy = "default" /\ field \in Optional[resource])

Holds(f) == form[f].stage \in {"open", "read"} /\ form[f].copy # "none"

\* A copy that is not known to be old is current, and what was typed is in the
\* request.
CopyOK(f) ==
    /\ Holds(f) /\ ~form[f].old /\ ~form[f].typed => Current(form[f].copy)
    /\ form[f].stage = "open" /\ Shows(form[f].client) => form[f].copy # "none"
    /\ form[f].stage = "read" => form[f].copy # "none"
    /\ form[f].stage = "read" /\ form[f].typed => form[f].copy = f /\ ~form[f].omits
    /\ form[f].omits => field \in Optional[resource]

CopiesInv == \A f \in Forms : CopyOK(f)

\* Only a deletion makes a form late.
LateInv == ~gone => \A f \in Forms : ~form[f].late

FInv == FormsTypeOK /\ EditsStay /\ CopiesInv /\ LateInv /\ SavedMeansStored

\* What a form shows is what a client sees, and what no client sees is read
\* first, but for a menu item.
LEMMA HiddenFields ==
    ASSUME FormsTypeOK
    PROVE  \A client \in {"page", "api"} :
               ~Shows(client) /\ field \notin ReadFirst => Reset
<1> SUFFICES ASSUME NEW client \in {"page", "api"}, ~Shows(client), field \notin ReadFirst
             PROVE  Reset
  OBVIOUS
<1>1. resource # "users"
  BY DEF FormsTypeOK, ReadFirst
<1>2. resource # "contents"
  <2> SUFFICES ASSUME resource = "contents" PROVE FALSE
    OBVIOUS
  <2>1. RowFields[resource] = ContentForm \cup {"created_at"}
    BY DEF RowFields, ContentRow
  <2>2. /\ PageFields[resource] = ContentForm /\ RequestFields[resource] = ContentForm
    BY DEF PageFields, RequestFields
  <2>3. ReadFirst = {"created_at"}
    BY DEF ReadFirst
  <2>4. QED BY <2>1, <2>2, <2>3 DEF FormsTypeOK, Shows
<1>3. resource = "menus"
  BY <1>1, <1>2 DEF FormsTypeOK, Resources
<1>4. RowFields[resource] = MenuForm \cup {"parent_id", "created_at"}
  BY <1>3 DEF RowFields, MenuRow
<1>5. /\ PageFields[resource] = MenuForm /\ RequestFields[resource] = MenuForm \cup {"parent_id"}
  BY <1>3 DEF PageFields, RequestFields
<1>6. QED BY <1>3, <1>4, <1>5 DEF FormsTypeOK, Shows, Reset

\* A loaded database starts every invariant.
LEMMA InitInv == FormsInit => FInv
<1> SUFFICES ASSUME FormsInit PROVE FInv
  OBVIOUS
<1>1. FormsTypeOK
  BY DEF FormsInit, FormsTypeOK, FormRecord, Writers, Closed
<1>2. EditsStay
  BY DEF FormsInit, EditsStay
<1>3. CopiesInv /\ LateInv /\ SavedMeansStored
  BY DEF FormsInit, Closed, CopiesInv, CopyOK, Holds, LateInv, SavedMeansStored
<1>4. QED BY <1>1, <1>2, <1>3 DEF FInv

\* Every step keeps the types.
LEMMA StepType ==
    ASSUME FormsTypeOK, CopiesInv, [FormsNext]_formVars
    PROVE  FormsTypeOK'
<1>1. CASE UNCHANGED formVars
  BY <1>1 DEF FormsTypeOK, formVars, Writers
<1>2. ASSUME NEW f \in Forms, NEW client \in {"page", "api"}, OpenForm(f, client)
      PROVE  FormsTypeOK'
  BY <1>2 DEF FormsTypeOK, FormRecord, OpenForm, Closed
<1>3. ASSUME NEW f \in Forms, NEW changed \in BOOLEAN, NEW omits \in BOOLEAN, Submit(f, changed, omits)
      PROVE  FormsTypeOK'
  <2>1. CopySent(f, changed) \in Writers \cup {"none"}
    BY ZenonT(40) DEF FormsTypeOK, FormRecord, CopySent, Writers
  <2>2. QED BY <1>3, <2>1, ZenonT(40) DEF FormsTypeOK, FormRecord, Submit
<1>4. ASSUME NEW f \in Forms, Refuse(f)
      PROVE  FormsTypeOK'
  BY <1>4, ZenonT(40) DEF FormsTypeOK, FormRecord, Refuse
<1>5. ASSUME NEW f \in Forms, Write(f)
      PROVE  FormsTypeOK'
  <2>1. CASE ~RowHit
    BY <1>5, <2>1 DEF FormsTypeOK, FormRecord, Write
  <2>2. CASE RowHit
    <3> DEFINE others == IF form[f].typed THEN Aged(f) ELSE form
    <3>1. form[f] \in FormRecord /\ form[f].copy \in Writers
      BY <1>5 DEF FormsTypeOK, FormRecord, CopiesInv, CopyOK, Write
    <3>2. value' \in Writers /\ meant' \in Writers
      BY <1>5, <2>2, <3>1 DEF FormsTypeOK, Write, Writers
    <3>3. undone' \in BOOLEAN /\ leftOut' \in BOOLEAN
      BY <1>5, <2>2, <3>1 DEF FormsTypeOK, FormRecord, Write
    <3>4. others \in [Forms -> FormRecord]
      BY ZenonT(40) DEF FormsTypeOK, FormRecord, Aged
    <3>5. [Closed EXCEPT !.stage = "saved", !.late = form[f].late] \in FormRecord
      BY <3>1 DEF Closed, FormRecord
    <3>6. form' \in [Forms -> FormRecord]
      BY <1>5, <2>2, <3>4, <3>5 DEF Write
    <3>7. resource' = resource /\ field' = field /\ gone' = gone
      BY <1>5 DEF Write
    <3>8. QED BY <3>2, <3>3, <3>6, <3>7 DEF FormsTypeOK
  <2>3. QED BY <2>1, <2>2
<1>6. CASE WriteHidden
  BY <1>6 DEF FormsTypeOK, FormRecord, WriteHidden, Aged, Writers
<1>7. CASE DeleteShown
  BY <1>7 DEF FormsTypeOK, FormRecord, DeleteShown
<1>8. QED BY <1>1, <1>2, <1>3, <1>4, <1>5, <1>6, <1>7 DEF FormsNext

\* Every step keeps every copy that is not old current, and the row with it.
\* A copy of a form that does nothing stays as good as it was, while nobody
\* sets out to write the field.
LEMMA CopyKept ==
    ASSUME NEW g \in Forms, CopyOK(g), form'[g] = form[g], meant' = meant, undone => undone',
           leftOut => leftOut', resource' = resource, field' = field
    PROVE  CopyOK(g)'
BY DEF CopyOK, Holds, Current, Reset, Shows

\* And when somebody does, it is old.
LEMMA CopyAged ==
    ASSUME FormsTypeOK, NEW w, NEW g \in Forms, g # w, CopyOK(g), form'[g] = Aged(w)[g],
           resource' = resource, field' = field
    PROVE  CopyOK(g)'
BY ZenonT(40) DEF CopyOK, Holds, Shows, Aged, FormsTypeOK, FormRecord

\* A value that no form holds.
LEMMA NoneIsNoWriter == "none" \notin Writers
BY FormsAssumption DEF Writers

LEMMA StepLoss ==
    ASSUME FInv, [FormsNext]_formVars
    PROVE  EditsStay' /\ CopiesInv'
<1> USE DEF FInv
<1>1. CASE UNCHANGED formVars
  BY <1>1 DEF formVars, EditsStay, CopiesInv, CopyOK, Holds, Current, Reset, Shows
<1>2. ASSUME NEW f \in Forms, NEW client \in {"page", "api"}, OpenForm(f, client)
      PROVE  EditsStay' /\ CopiesInv'
  <2>1. EditsStay'
    BY <1>2 DEF OpenForm, EditsStay
  <2>2. CopyOK(f)'
    BY <1>2, NoneIsNoWriter, ZenonT(40) DEF FormsTypeOK, OpenForm, Closed, EditsStay, CopyOK,
                                            Holds, Current, Reset, Shows
  <2>3. \A g \in Forms \ {f} : CopyOK(g)'
    BY <1>2, CopyKept DEF FormsTypeOK, OpenForm, CopiesInv
  <2>4. QED BY <2>1, <2>2, <2>3 DEF CopiesInv
<1>3. ASSUME NEW f \in Forms, NEW changed \in BOOLEAN, NEW omits \in BOOLEAN, Submit(f, changed, omits)
      PROVE  EditsStay' /\ CopiesInv'
  <2>1. form[f] \in FormRecord /\ form[f].stage = "open" /\ CopyOK(f)
    BY <1>3 DEF FormsTypeOK, Submit, CopiesInv
  <2>2. CopySent(f, changed) # "none"
    BY <2>1, FormsAssumption, NoneIsNoWriter DEF FormsTypeOK, CopySent, CopyOK
  <2>3. changed => CopySent(f, changed) = f
    BY DEF CopySent
  <2>4. ASSUME ~changed, ~form[f].old PROVE Current(CopySent(f, changed))
    <3>1. ~form[f].typed
      BY <1>3, <2>4 DEF Submit
    <3>2. CASE Shows(form[f].client)
      BY <2>1, <2>4, <3>1, <3>2 DEF CopySent, CopyOK, Holds
    <3>3. CASE ~Shows(form[f].client) /\ field \in ReadFirst
      BY <2>4, <3>3 DEF CopySent, Current, EditsStay, Reset
    <3>4. CASE ~Shows(form[f].client) /\ field \notin ReadFirst
      BY <2>1, <3>4, HiddenFields DEF FormRecord, Current
    <3>5. QED BY <3>2, <3>3, <3>4
  <2>5. EditsStay'
    BY <1>3 DEF Submit, EditsStay
  <2>6. \A g \in Forms \ {f} : CopyOK(g)'
    BY <1>3, CopyKept DEF FormsTypeOK, Submit, CopiesInv
  <2>7. CopyOK(f)'
    <3>1. CASE gone /\ ReadFirst # {}
      BY <1>3, <2>1, <3>1 DEF FormsTypeOK, FormRecord, Submit, CopyOK, Holds
    <3>2. CASE ~(gone /\ ReadFirst # {})
      <4>1. form'[f] = [form[f] EXCEPT !.stage = "read", !.typed = changed,
                                       !.omits = omits, !.copy = CopySent(f, changed)]
        BY <1>3, <3>2 DEF FormsTypeOK, Submit
      <4>2. /\ form'[f].stage = "read" /\ form'[f].typed = changed
            /\ form'[f].copy = CopySent(f, changed) /\ form'[f].old = form[f].old
            /\ form'[f].omits = omits
        BY <2>1, <4>1 DEF FormRecord
      <4>3. UNCHANGED <<meant, undone, leftOut, resource, field>>
        BY <1>3 DEF Submit
      <4>4. omits => ~changed /\ field \in Optional[resource]
        BY <1>3 DEF Submit, MayOmit
      <4>5. ~changed /\ ~form'[f].old => Current(form[f].copy)'
        <5> SUFFICES ASSUME ~changed, ~form[f].old PROVE Current(form[f].copy)'
          BY <4>2
        <5>1. Current(CopySent(f, changed))
          BY <2>4
        <5>2. QED BY <5>1, <4>2, <4>3 DEF Current, Reset
      <4>6. form'[f].typed => form'[f].copy = f /\ ~form'[f].omits
        BY <2>3, <4>2, <4>4
      <4>7. form'[f].omits => field' \in Optional[resource']
        BY <4>2, <4>3, <4>4
      <4>8. form'[f].copy # "none" /\ form'[f].stage = "read"
        BY <2>2, <4>2
      <4>9. QED BY <4>2, <4>5, <4>6, <4>7, <4>8 DEF CopyOK
    <3>3. QED BY <3>1, <3>2
  <2>8. QED BY <2>5, <2>6, <2>7 DEF CopiesInv
<1>4. ASSUME NEW f \in Forms, Refuse(f)
      PROVE  EditsStay' /\ CopiesInv'
  <2>1. form[f] \in FormRecord /\ form[f].stage = "read" /\ CopyOK(f)
    BY <1>4 DEF FormsTypeOK, Refuse, CopiesInv
  <2>2. EditsStay'
    BY <1>4 DEF Refuse, EditsStay
  <2>3. \A g \in Forms \ {f} : CopyOK(g)'
    BY <1>4, CopyKept DEF FormsTypeOK, Refuse, CopiesInv
  <2>4. CopyOK(f)'
    <3>1. CASE Shows(form[f].client)
      <4>1. form' = [form EXCEPT ![f] = [form[f] EXCEPT !.stage = "open", !.omits = FALSE]]
        BY <1>4, <3>1 DEF Refuse
      <4>2. /\ form'[f].stage = "open" /\ form'[f].typed = form[f].typed
            /\ form'[f].copy = form[f].copy /\ form'[f].old = form[f].old
            /\ form'[f].omits = FALSE
        BY <2>1, <4>1 DEF FormsTypeOK, FormRecord
      <4>3. UNCHANGED <<meant, undone, leftOut, resource, field>>
        BY <1>4 DEF Refuse
      <4>4. QED BY <2>1, <4>2, <4>3 DEF CopyOK, Holds, Current, Reset
    <3>2. CASE ~Shows(form[f].client)
      <4>1. form' = [form EXCEPT ![f] = [form[f] EXCEPT !.stage = "open", !.old = FALSE, !.copy = "none"]]
        BY <1>4, <3>2 DEF Refuse
      <4>2. /\ form'[f].stage = "open" /\ form'[f].copy = "none"
            /\ form'[f].client = form[f].client /\ form'[f].omits = form[f].omits
        BY <2>1, <4>1 DEF FormsTypeOK, FormRecord
      <4>3. resource' = resource /\ field' = field
        BY <1>4 DEF Refuse
      <4>4. ~Shows(form[f].client)'
        BY <3>2, <4>2, <4>3 DEF Shows
      <4>5. QED BY <2>1, <4>2, <4>3, <4>4 DEF CopyOK, Holds
    <3>3. QED BY <3>1, <3>2
  <2>5. QED BY <2>2, <2>3, <2>4 DEF CopiesInv
<1>5. ASSUME NEW f \in Forms, Write(f)
      PROVE  EditsStay' /\ CopiesInv'
  <2>1. form[f] \in FormRecord /\ form[f].stage = "read" /\ CopyOK(f)
    BY <1>5 DEF FormsTypeOK, Write, CopiesInv
  <2>2. CASE ~RowHit
    <3>1. form' = [form EXCEPT ![f].stage = "not found"]
      BY <1>5, <2>2 DEF Write
    <3>2. CopyOK(f)'
      <4>1. form'[f].stage = "not found" /\ form'[f].omits = form[f].omits
        BY <2>1, <3>1 DEF FormsTypeOK, FormRecord
      <4>2. resource' = resource /\ field' = field
        BY <1>5 DEF Write
      <4>3. QED BY <2>1, <4>1, <4>2 DEF CopyOK, Holds
    <3>3. \A g \in Forms \ {f} : CopyOK(g)'
      BY <1>5, <2>2, <3>1, CopyKept DEF FormsTypeOK, Write, CopiesInv
    <3>4. QED BY <1>5, <2>2, <3>2, <3>3 DEF Write, EditsStay, CopiesInv
  <2>3. CASE RowHit
    <3>1. /\ value' = IF form[f].omits THEN "default" ELSE form[f].copy
          /\ resource' = resource /\ field' = field
      BY <1>5, <2>3 DEF Write, RowHit
    <3>2. CopyOK(f)'
      BY <1>5, <2>3 DEF FormsTypeOK, Write, Closed, CopyOK, Holds, Aged
    <3>3. CASE form[f].typed
      <4>1. meant' = f /\ form[f].copy = f /\ ~form[f].omits
        BY <1>5, <2>1, <2>3, <3>3 DEF Write, CopyOK
      <4>2. \A g \in Forms \ {f} : form'[g] = Aged(f)[g]
        BY <1>5, <2>3, <3>3 DEF FormsTypeOK, Write, Aged
      <4>3. \A g \in Forms \ {f} : CopyOK(g)'
        BY <3>1, <4>2, CopyAged DEF CopiesInv
      <4>4. QED BY <3>1, <3>2, <4>1, <4>3 DEF EditsStay, CopiesInv
    <3>4. CASE ~form[f].typed
      <4>1. /\ meant' = meant
            /\ undone' = (undone \/ (form[f].old /\ ~form[f].omits))
            /\ leftOut' = (leftOut \/ form[f].omits)
        BY <1>5, <2>3, <3>4 DEF Write
      <4>2. \A g \in Forms \ {f} : CopyOK(g)'
        BY <1>5, <2>3, <3>1, <3>4, <4>1, CopyKept DEF FormsTypeOK, Write, CopiesInv
      <4>3. EditsStay'
        <5>1. CASE form[f].omits
          BY <2>1, <3>1, <4>1, <5>1 DEF EditsStay, CopyOK
        <5>2. CASE ~form[f].omits
          <6>1. undone' \/ Current(form[f].copy)
            BY <2>1, <3>4, <4>1, <5>2 DEF CopyOK, Holds
          <6>2. QED BY <3>1, <4>1, <5>2, <6>1 DEF EditsStay, Current, Reset
        <5>3. QED BY <5>1, <5>2
      <4>4. QED BY <3>2, <4>2, <4>3 DEF CopiesInv
    <3>5. QED BY <3>3, <3>4
  <2>4. QED BY <2>2, <2>3
<1>6. CASE WriteHidden
  <2>1. \A g \in Forms : g # "other"
    BY FormsAssumption
  <2>2. \A g \in Forms : CopyOK(g)'
    BY <1>6, <2>1, CopyAged DEF WriteHidden, CopiesInv
  <2>3. QED BY <1>6, <2>2 DEF WriteHidden, EditsStay, CopiesInv
<1>7. CASE DeleteShown
  <2>1. UNCHANGED <<resource, field, value, meant, undone, leftOut>>
    BY <1>7 DEF DeleteShown
  <2>2. \A f \in Forms : /\ form'[f].stage = form[f].stage /\ form'[f].client = form[f].client
                         /\ form'[f].copy = form[f].copy /\ form'[f].typed = form[f].typed
                         /\ form'[f].omits = form[f].omits /\ form'[f].old = form[f].old
    BY <1>7 DEF FormsTypeOK, FormRecord, DeleteShown
  <2>3. EditsStay'
    BY <2>1 DEF EditsStay
  <2>4. \A f \in Forms : CopyOK(f)'
    <3> SUFFICES ASSUME NEW f \in Forms, CopyOK(f) PROVE CopyOK(f)'
      BY DEF CopiesInv
    <3>1. (Holds(f) = Holds(f)') /\ (Shows(form[f].client) = Shows(form[f].client)')
      BY <2>1, <2>2 DEF Holds, Shows
    <3>2. Current(form[f].copy) => Current(form[f].copy)'
      BY <2>1, <2>2 DEF Current, Reset
    <3>3. QED BY <2>1, <2>2, <3>1, <3>2 DEF CopyOK
  <2>5. QED BY <2>3, <2>4 DEF CopiesInv
<1>8. QED BY <1>1, <1>2, <1>3, <1>4, <1>5, <1>6, <1>7 DEF FormsNext

\* A form is late only when the row is gone, and then it is not saved.
LEMMA StepLate ==
    ASSUME FInv, [FormsNext]_formVars
    PROVE  LateInv' /\ SavedMeansStored'
<1> USE DEF FInv, LateInv, SavedMeansStored
<1>1. CASE UNCHANGED formVars
  BY <1>1 DEF formVars
<1>2. ASSUME NEW f \in Forms, NEW client \in {"page", "api"}, OpenForm(f, client)
      PROVE  LateInv' /\ SavedMeansStored'
  BY <1>2 DEF FormsTypeOK, FormRecord, OpenForm, Closed
<1>3. ASSUME NEW f \in Forms, NEW changed \in BOOLEAN, NEW omits \in BOOLEAN, Submit(f, changed, omits)
      PROVE  LateInv' /\ SavedMeansStored'
  <2>1. \A g \in Forms : form'[g].late = form[g].late /\ (form'[g].stage = "saved" => form[g].stage = "saved")
    <3>1. CASE gone /\ ReadFirst # {}
      BY <1>3, <3>1 DEF FormsTypeOK, FormRecord, Submit
    <3>2. CASE ~(gone /\ ReadFirst # {})
      <4>1. form' = [form EXCEPT ![f] = [form[f] EXCEPT
                        !.stage = "read", !.typed = changed, !.omits = omits,
                        !.copy = CopySent(f, changed)]]
        BY <1>3, <3>2 DEF Submit
      <4>2. QED BY <4>1 DEF FormsTypeOK, FormRecord
    <3>3. QED BY <3>1, <3>2
  <2>2. QED BY <1>3, <2>1 DEF Submit
<1>4. ASSUME NEW f \in Forms, Refuse(f)
      PROVE  LateInv' /\ SavedMeansStored'
  BY <1>4 DEF FormsTypeOK, FormRecord, Refuse
<1>5. ASSUME NEW f \in Forms, Write(f)
      PROVE  LateInv' /\ SavedMeansStored'
  <2>1. CASE gone
    <3>1. gone' = gone /\ form' = [form EXCEPT ![f].stage = "not found"]
      BY <1>5, <2>1 DEF Write, RowHit
    <3>2. QED BY <2>1, <3>1 DEF FormsTypeOK, FormRecord
  <2>2. CASE ~gone
    <3>1. /\ gone' = gone
          /\ form' = [(IF form[f].typed THEN Aged(f) ELSE form) EXCEPT
                         ![f] = [Closed EXCEPT !.stage = "saved", !.late = form[f].late]]
      BY <1>5, <2>2 DEF Write, RowHit
    <3>2. form'[f].late = form[f].late /\ ~form[f].late
      BY <2>2, <3>1 DEF FormsTypeOK, FormRecord, Aged, Closed
    <3>3. \A g \in Forms \ {f} : form'[g].late = form[g].late
      BY <3>1 DEF FormsTypeOK, FormRecord, Aged
    <3>4. QED BY <2>2, <3>1, <3>2, <3>3
  <2>3. QED BY <2>1, <2>2
<1>6. CASE WriteHidden
  BY <1>6 DEF FormsTypeOK, FormRecord, WriteHidden, Aged
<1>7. CASE DeleteShown
  BY <1>7 DEF FormsTypeOK, FormRecord, DeleteShown
<1>8. QED BY <1>1, <1>2, <1>3, <1>4, <1>5, <1>6, <1>7 DEF FormsNext

\* The invariant of the forms.
LEMMA FormsInvariant == FormsSpec => []FInv
<1>1. FInv /\ [FormsNext]_formVars => FInv'
  BY StepType, StepLoss, StepLate DEF FInv
<1>2. QED BY InitInv, <1>1, PTL DEF FormsSpec

\* Every field always has one of its types.
THEOREM FormsTypeCorrect == FormsSpec => []FormsTypeOK
<1>1. FInv => FormsTypeOK
  BY DEF FInv
<1>2. QED BY FormsInvariant, <1>1, PTL

\* What was written is lost only to an older copy, or to a default: that of a
\* field a client left out, or those of a menu item.  In any number of forms.
THEOREM EditsLost == FormsSpec => []EditsStay
<1>1. FInv => EditsStay
  BY DEF FInv
<1>2. QED BY FormsInvariant, <1>1, PTL

\* A save that is reported as one wrote the row.
THEOREM SavesAreStored == FormsSpec => []SavedMeansStored
<1>1. FInv => SavedMeansStored
  BY DEF FInv
<1>2. QED BY FormsInvariant, <1>1, PTL

\* What was reported as saved is stored, and only older copies and the defaults of
\* fields that were not sent take it back.
THEOREM EditsKept == FormsSpec => []EditsAreKept
<1>1. EditsStay /\ SavedMeansStored => EditsAreKept
  BY DEF EditsAreKept
<1>2. QED BY <1>1, EditsLost, SavesAreStored, PTL

-----------------------------------------------------------------------------
(* Renamed pages are forwarded to and published pages are shown, for any   *)
(* number of slugs, pages and overlapping edits.                           *)

\* An edit that has renamed a page away from s and not yet written the rule.
Renames(q, s) ==
    /\ q \notin {NoEdit, Done}
    /\ q.op = "update" /\ q.old = s /\ q.stage \in {"finish", "lookup", "forward"}

\* Only updates and rules made by hand come to the rules, updates only with a rename.
StageOK(q) ==
    /\ q.op \in {"update", "delete"} => q.id \in PageIds
    /\ q.stage \in {"lookup", "forward"} => q.op \in {"update", "redirect"}
    /\ q.stage \in {"lookup", "forward"} /\ q.op = "update" => q.slug # q.old

StageInv == \A e \in Edits : Active(e) => StageOK(edit[e])

\* A path without an excuse has one rename under way at most, which is the newest
\* one and will find what it has found.
PendingInv ==
    \A s \in Slugs \ excused : \A e \in Edits : Renames(edit[e], s) =>
        /\ \A f \in Edits : Renames(edit[f], s) => f = e
        /\ edit[e].slug # s => newest[s] = edit[e].slug
        /\ edit[e].stage = "forward" =>
              edit[e].found = "rule" \/ (edit[e].found = "none" /\ redirects[s] = "none")

\* Without one, the rule is the newest; and there is no rule without a rename.
RuleInv ==
    \A s \in Slugs \ excused :
        /\ redirects[s] # "none" => newest[s] # "none"
        /\ newest[s] # "none" =>
              \/ redirects[s] = newest[s]
              \/ \E e \in Edits : Renames(edit[e], s) /\ edit[e].slug # s

\* A slug is on one page, and one that a rename left is on none, or reused.
PageInv ==
    /\ \A i, j \in PageIds : Stored(i) /\ pages[i] = pages[j] => i = j
    /\ \A s \in Slugs : newest[s] # "none" /\ PageAt(s) # {} => s \in reused \cup excused

\* A copy of a page that is older than the page was left by a rename.
EditCopyOK(q) ==
    q.op = "update" /\ q.stage \in {"check", "write"} =>
        \/ pages[q.id] \in {q.old, Gone}
        \/ pages[q.id] # NoPage /\ (q.old \in excused \/ newest[q.old] # "none")

CopyInv == \A e \in Edits : Active(e) => EditCopyOK(edit[e])

SiteInv == SiteTypeOK /\ StageInv /\ PendingInv /\ RuleInv /\ PageInv /\ CopyInv

LEMMA SiteInit_Inv == SiteInit => SiteInv
<1> SUFFICES ASSUME SiteInit PROVE SiteInv
  OBVIOUS
<1>1. SiteTypeOK
  BY SiteAssumption DEF SiteInit, SiteTypeOK
<1>2. StageInv /\ PendingInv /\ RuleInv /\ CopyInv
  BY DEF SiteInit, StageInv, PendingInv, RuleInv, CopyInv, Renames, Active
<1>3. PageInv
  BY SiteAssumption DEF SiteInit, PageInv, Stored, PageAt
<1> QED  BY <1>1, <1>2, <1>3 DEF SiteInv

\* An edit that moves on, with no page and no path without an excuse touched.
LEMMA EditMoves ==
    ASSUME SiteInv, NEW e \in Edits, NEW q \in Edit \cup {NoEdit, Done},
           edit' = [edit EXCEPT ![e] = q],
           UNCHANGED <<pages, newest, reused>>,
           excused \subseteq excused', excused' \subseteq Slugs,
           redirects' \in [Slugs -> Slugs \cup {"none"}],
           \A s \in Slugs \ excused' : redirects'[s] = redirects[s],
           q \in Edit => StageOK(q) /\ EditCopyOK(q),
           \A s \in Slugs \ excused' :
              /\ Renames(q, s) =>
                    /\ Renames(edit[e], s) /\ q.slug = edit[e].slug
                    /\ q.stage = "forward" =>
                          q.found = "rule" \/ (q.found = "none" /\ redirects[s] = "none")
              /\ Renames(edit[e], s) /\ edit[e].slug # s => Renames(q, s)
    PROVE  SiteInv'
<1>1. /\ edit'[e] = q /\ \A f \in Edits \ {e} : edit'[f] = edit[f]
      /\ edit' \in [Edits -> Edit \cup {NoEdit, Done}]
  BY DEF SiteInv, SiteTypeOK
<1>2. SiteTypeOK'
  BY <1>1 DEF SiteInv, SiteTypeOK
<1>3. StageInv'
  <2>1. \A f \in Edits \ {e} : Active(f)' => StageOK(edit'[f])
    BY <1>1 DEF SiteInv, StageInv, Active
  <2>2. Active(e)' => StageOK(edit'[e])
    BY <1>1 DEF Active
  <2> QED  BY <2>1, <2>2 DEF StageInv, StageOK
<1>4. CopyInv'
  <2> SUFFICES ASSUME NEW f \in Edits, Active(f)' PROVE EditCopyOK(edit[f])'
    BY DEF CopyInv
  <2>1. EditCopyOK(edit'[f])
    BY <1>1 DEF SiteInv, CopyInv, Active
  <2> QED  BY <2>1 DEF EditCopyOK
<1>5. PendingInv'
  <2> SUFFICES ASSUME NEW s \in Slugs \ excused', NEW f \in Edits, Renames(edit'[f], s)
               PROVE  /\ \A g \in Edits : Renames(edit'[g], s) => g = f
                      /\ edit'[f].slug # s => newest[s] = edit'[f].slug
                      /\ edit'[f].stage = "forward" =>
                            edit'[f].found = "rule" \/ (edit'[f].found = "none" /\ redirects'[s] = "none")
    BY DEF PendingInv, Renames
  <2>1. s \in Slugs \ excused
    OBVIOUS
  <2>2. \A g \in Edits : Renames(edit'[g], s) => Renames(edit[g], s)
    BY <1>1
  <2>3. \A g \in Edits : Renames(edit'[g], s) => g = f
    BY <2>1, <2>2 DEF SiteInv, PendingInv
  <2>4. edit'[f].slug = edit[f].slug
    BY <1>1
  <2>5. edit'[f].slug # s => newest[s] = edit'[f].slug
    BY <2>1, <2>2, <2>4 DEF SiteInv, PendingInv
  <2>6. CASE f = e
    BY <1>1, <2>3, <2>5, <2>6
  <2>7. CASE f # e
    <3>1. edit'[f] = edit[f]
      BY <1>1, <2>7
    <3> QED  BY <2>1, <2>2, <2>3, <2>5, <3>1 DEF SiteInv, PendingInv
  <2> QED  BY <2>6, <2>7
<1>6. RuleInv'
  <2> SUFFICES ASSUME NEW s \in Slugs \ excused'
               PROVE  /\ redirects'[s] # "none" => newest[s] # "none"
                      /\ newest[s] # "none" =>
                            \/ redirects'[s] = newest[s]
                            \/ \E f \in Edits : Renames(edit'[f], s) /\ edit'[f].slug # s
    BY DEF RuleInv, Renames
  <2>1. redirects'[s] = redirects[s] /\ s \in Slugs \ excused
    OBVIOUS
  <2>2. ASSUME NEW f \in Edits, Renames(edit[f], s), edit[f].slug # s
        PROVE  Renames(edit'[f], s) /\ edit'[f].slug # s
    BY <1>1, <2>2
  <2> QED  BY <2>1, <2>2 DEF SiteInv, RuleInv
<1>7. PageInv'
  BY DEF SiteInv, PageInv, PageAt, Stored
<1> QED  BY <1>2, <1>3, <1>4, <1>5, <1>6, <1>7 DEF SiteInv

\* An active edit, and what it becomes.
LEMMA EditFacts ==
    ASSUME SiteTypeOK, NEW e \in Edits, Active(e)
    PROVE  /\ edit[e] \in Edit
           /\ \A stage \in {"fetch", "check", "write", "finish", "lookup", "forward"} :
                 /\ [edit[e] EXCEPT !.stage = stage] \in Edit
                 /\ Goes(e, stage) => edit' = [edit EXCEPT ![e] = [edit[e] EXCEPT !.stage = stage]]
<1>1. edit[e] \in Edit
  BY DEF SiteTypeOK, Active
<1>2. \A stage \in {"fetch", "check", "write", "finish", "lookup", "forward"} :
         [edit[e] EXCEPT !.stage = stage] \in Edit
  BY <1>1 DEF Edit
<1> QED  BY <1>1, <1>2 DEF Goes, SiteTypeOK

\* An edit begins with a row it has read.
LEMMA BeginKeeps ==
    ASSUME SiteInv, NEW e \in Edits, NEW op \in {"create", "update", "delete", "redirect"},
           NEW i \in PageIds \cup {NoPage}, NEW slug \in Slugs, NEW old \in Slugs,
           op \in {"update", "delete"} => i \in PageIds,
           Begin(e, op, i, slug, old)
    PROVE  SiteInv'
<1> DEFINE q == [op |-> op, id |-> i, slug |-> slug, old |-> old, found |-> "none",
                 stage |-> CASE op = "create" -> "check" [] op = "redirect" -> "lookup"
                             [] OTHER -> "fetch"]
<1>1. /\ edit' = [edit EXCEPT ![e] = q] /\ edit[e] = NoEdit
      /\ UNCHANGED <<pages, redirects, newest, excused, reused>>
  BY DEF Begin
<1>2. q \in Edit
  BY DEF Edit
<1>3. StageOK(q) /\ EditCopyOK(q) /\ \A s \in Slugs : ~Renames(q, s) /\ ~Renames(edit[e], s)
  BY <1>1 DEF StageOK, EditCopyOK, Renames
<1> HIDE DEF q
<1> QED  BY <1>1, <1>2, <1>3, EditMoves DEF SiteInv, SiteTypeOK

\* An edit that is over before or without a rename.
LEMMA EndKeeps ==
    ASSUME SiteInv, NEW e \in Edits, Ends(e), UNCHANGED <<pages, newest, reused>>,
           excused \subseteq excused', excused' \subseteq Slugs,
           redirects' \in [Slugs -> Slugs \cup {"none"}],
           \A s \in Slugs \ excused' : redirects'[s] = redirects[s],
           \A s \in Slugs \ excused' : Renames(edit[e], s) => edit[e].slug = s
    PROVE  SiteInv'
<1>1. edit' = [edit EXCEPT ![e] = Done] /\ Done \notin Edit
  BY SiteAssumption DEF Ends
<1>2. \A s \in Slugs : ~Renames(Done, s)
  BY DEF Renames
<1> QED  BY <1>1, <1>2, EditMoves

\* The steps before a page is written.
LEMMA EarlyKeeps ==
    ASSUME SiteInv, NEW e \in Edits, FetchPage(e) \/ CheckSlug(e) \/ WriteFails(e)
    PROVE  SiteInv'
<1>1. /\ Active(e) /\ edit[e].stage \in {"fetch", "check", "write"}
      /\ UNCHANGED <<pages, redirects, newest, excused, reused>>
  BY DEF FetchPage, CheckSlug, WriteFails, Editing
<1>2. /\ edit[e] \in Edit /\ \A s \in Slugs : ~Renames(edit[e], s)
      /\ excused \subseteq Slugs /\ redirects \in [Slugs -> Slugs \cup {"none"}]
      /\ StageOK(edit[e]) /\ EditCopyOK(edit[e])
  BY <1>1, EditFacts DEF SiteInv, SiteTypeOK, StageInv, CopyInv, Renames
<1>3. CASE Ends(e)
  BY <1>1, <1>2, <1>3, EndKeeps
<1>4. CASE FetchPage(e) /\ ~Ends(e)
  <2> DEFINE q == [edit[e] EXCEPT !.old = pages[edit[e].id],
                                  !.stage = IF edit[e].op = "delete" THEN "write" ELSE "check"]
  <2>1. Stored(edit[e].id) /\ edit' = [edit EXCEPT ![e] = q]
    BY <1>4 DEF FetchPage, SiteInv, SiteTypeOK
  <2>2. q \in Edit /\ q.old = pages[edit[e].id] /\ q.id = edit[e].id /\ q.op = edit[e].op
        /\ q.stage \in {"check", "write"}
    BY <1>2, <2>1 DEF Edit, Stored
  <2>3. StageOK(q) /\ EditCopyOK(q) /\ \A s \in Slugs : ~Renames(q, s)
    BY <1>2, <2>2 DEF StageOK, EditCopyOK, Renames
  <2> HIDE DEF q
  <2> QED  BY <1>1, <1>2, <2>1, <2>2, <2>3, EditMoves
<1>5. CASE CheckSlug(e) /\ ~Ends(e)
  <2> DEFINE q == [edit[e] EXCEPT !.stage = "write"]
  <2>1. Goes(e, "write") /\ edit[e].stage = "check"
    BY <1>5 DEF CheckSlug, Editing
  <2>2. edit' = [edit EXCEPT ![e] = q] /\ q \in Edit
    BY <1>1, <2>1, EditFacts DEF SiteInv
  <2>3. StageOK(q) /\ EditCopyOK(q) /\ \A s \in Slugs : ~Renames(q, s)
    BY <1>2, <2>1 DEF StageOK, EditCopyOK, Renames, Edit
  <2> HIDE DEF q
  <2> QED  BY <1>1, <1>2, <2>2, <2>3, EditMoves
<1> QED  BY <1>3, <1>4, <1>5 DEF WriteFails

\* Invalidating, the audit entry, the event, and what it finds.
LEMMA FinishKeeps == ASSUME SiteInv, NEW e \in Edits, Finish(e) PROVE SiteInv'
<1> DEFINE p == edit[e]
           renamed == p.op = "update" /\ p.slug # p.old
           q == [p EXCEPT !.stage = "lookup"]
<1>1. /\ Active(e) /\ p.stage = "finish" /\ UNCHANGED <<pages, redirects, newest, reused>>
      /\ \/ renamed /\ Goes(e, "lookup") /\ UNCHANGED excused
         \/ ~renamed /\ Ends(e) /\ UNCHANGED excused
         \/ Ends(e) /\ excused' = IF renamed THEN excused \cup {p.old} ELSE excused
  BY DEF Finish, Editing
<1>2. /\ p \in Edit /\ excused \subseteq Slugs /\ redirects \in [Slugs -> Slugs \cup {"none"}]
      /\ StageOK(p) /\ p.old \in Slugs
  BY <1>1, EditFacts DEF SiteInv, SiteTypeOK, StageInv, Edit
<1>3. \A s \in Slugs : Renames(p, s) /\ p.slug # s => renamed /\ s = p.old
  BY DEF Renames
<1>4. CASE renamed /\ Goes(e, "lookup") /\ UNCHANGED excused
  <2>1. edit' = [edit EXCEPT ![e] = q] /\ q \in Edit
    BY <1>1, <1>4, EditFacts DEF SiteInv
  <2>2. /\ q.op = p.op /\ q.slug = p.slug /\ q.old = p.old /\ q.id = p.id /\ q.stage = "lookup"
    BY <1>2 DEF Edit
  <2>3. StageOK(q) /\ EditCopyOK(q)
    BY <1>2, <1>4, <2>2 DEF StageOK, EditCopyOK
  <2>4. \A s \in Slugs : Renames(q, s) <=> Renames(p, s)
    BY <1>1, <1>2, <2>1, <2>2, SiteAssumption DEF Renames
  <2> HIDE DEF q
  <2> QED  BY <1>1, <1>2, <1>4, <2>1, <2>2, <2>3, <2>4, EditMoves
<1>5. CASE Ends(e) /\ ~renamed /\ UNCHANGED excused
  BY <1>1, <1>2, <1>3, <1>5, EndKeeps
<1>6. CASE Ends(e) /\ renamed /\ excused' = excused \cup {p.old}
  <2>1. \A s \in Slugs \ excused' : Renames(p, s) => p.slug = s
    BY <1>3, <1>6
  <2> HIDE DEF renamed
  <2> QED  BY <1>1, <1>2, <1>6, <2>1, EndKeeps
<1> QED  BY <1>1, <1>4, <1>5, <1>6

LEMMA LookupKeeps == ASSUME SiteInv, NEW e \in Edits, Lookup(e) PROVE SiteInv'
<1> DEFINE p == edit[e]
           known == redirects[p.old] # "none"
           q == [p EXCEPT !.found = IF known THEN "rule" ELSE "none", !.stage = "forward"]
<1>1. /\ Active(e) /\ p.stage = "lookup"
      /\ UNCHANGED <<pages, redirects, newest, excused, reused>>
      /\ \/ p.old = p.slug \/ p.op = "redirect"
         \/ edit' = [edit EXCEPT ![e] = q]
      /\ Ends(e) \/ edit' = [edit EXCEPT ![e] = q]
  BY DEF Lookup, Editing, Valid, SlugChanged, SiteInv, SiteTypeOK
<1>2. /\ p \in Edit /\ excused \subseteq Slugs /\ redirects \in [Slugs -> Slugs \cup {"none"}]
      /\ StageOK(p)
  BY <1>1, EditFacts DEF SiteInv, SiteTypeOK, StageInv
<1>3. CASE edit' = [edit EXCEPT ![e] = q]
  <2>1. /\ q.op = p.op /\ q.slug = p.slug /\ q.old = p.old /\ q.id = p.id /\ q.stage = "forward"
        /\ q.found = (IF known THEN "rule" ELSE "none") /\ q \in Edit
    BY <1>2 DEF Edit
  <2>2. StageOK(q) /\ EditCopyOK(q)
    BY <1>1, <1>2, <2>1 DEF StageOK, EditCopyOK
  <2>3. \A s \in Slugs : Renames(q, s) <=> Renames(p, s)
    BY <1>1, <1>2, <2>1, SiteAssumption DEF Renames
  <2>4. \A s \in Slugs : Renames(q, s) =>
           q.found = "rule" \/ (q.found = "none" /\ redirects[s] = "none")
    BY <2>1 DEF Renames
  <2> HIDE DEF q
  <2> QED  BY <1>1, <1>2, <1>3, <2>1, <2>2, <2>3, <2>4, EditMoves
<1>4. CASE Ends(e) /\ (p.old = p.slug \/ p.op = "redirect")
  <2>1. \A s \in Slugs \ excused' : Renames(p, s) => p.slug = s
    BY <1>4 DEF Renames
  <2> QED  BY <1>1, <1>2, <1>4, <2>1, EndKeeps
<1> QED  BY <1>1, <1>3, <1>4

LEMMA ForwardKeeps == ASSUME SiteInv, NEW e \in Edits, Forward(e) PROVE SiteInv'
<1> DEFINE p == edit[e]
<1>1. /\ Active(e) /\ p.stage = "forward" /\ UNCHANGED <<pages, newest, reused>> /\ Ends(e)
      /\ redirects' \in {redirects, [redirects EXCEPT ![p.old] = p.slug]}
      /\ p.found = "rule" \/ (p.found = "none" /\ redirects[p.old] = "none") =>
            redirects' = [redirects EXCEPT ![p.old] = p.slug]
      /\ excused' = IF p.op = "redirect" THEN excused \cup {p.old} ELSE excused
  BY DEF Forward, Editing, SlugChanged, Upsert
<1>2. /\ p \in Edit /\ excused \subseteq Slugs /\ redirects \in [Slugs -> Slugs \cup {"none"}]
      /\ p.op \in {"update", "redirect"} /\ (p.op = "update" => p.slug # p.old)
      /\ p.old \in Slugs /\ p.slug \in Slugs
  BY <1>1, EditFacts, ZenonT(40) DEF SiteInv, SiteTypeOK, StageInv, StageOK, Edit
<1>3. /\ excused \subseteq excused' /\ excused' \subseteq Slugs
      /\ redirects' \in [Slugs -> Slugs \cup {"none"}]
  BY <1>1, <1>2
<1>4. CASE p.op = "redirect"
  <2>1. \A s \in Slugs \ excused' : redirects'[s] = redirects[s]
    BY <1>1, <1>2, <1>4
  <2>2. \A s \in Slugs \ excused' : Renames(p, s) => p.slug = s
    BY <1>4 DEF Renames
  <2> QED  BY <1>1, <1>3, <2>1, <2>2, EndKeeps
<1>5. CASE p.op = "update"
  <2>1. excused' = excused /\ edit' = [edit EXCEPT ![e] = Done] /\ Renames(p, p.old)
    BY <1>1, <1>2, <1>5 DEF Ends, Renames, Active
  <2>2. /\ edit'[e] = Done /\ \A f \in Edits \ {e} : edit'[f] = edit[f]
        /\ edit' \in [Edits -> Edit \cup {NoEdit, Done}]
    BY <2>1 DEF SiteInv, SiteTypeOK
  <2>3. \A s \in Slugs : ~Renames(Done, s)
    BY DEF Renames
  <2>4. p.old \notin excused =>
           /\ redirects'[p.old] = p.slug /\ newest[p.old] = p.slug
           /\ \A f \in Edits : Renames(edit[f], p.old) => f = e
    <3> SUFFICES ASSUME p.old \notin excused
                 PROVE  /\ redirects'[p.old] = p.slug /\ newest[p.old] = p.slug
                        /\ \A f \in Edits : Renames(edit[f], p.old) => f = e
      OBVIOUS
    <3>1. /\ \A f \in Edits : Renames(edit[f], p.old) => f = e
          /\ newest[p.old] = p.slug
          /\ p.found = "rule" \/ (p.found = "none" /\ redirects[p.old] = "none")
      BY <1>1, <1>2, <1>5, <2>1 DEF SiteInv, PendingInv
    <3> QED  BY <1>1, <1>2, <3>1
  <2>5. \A s \in Slugs : s # p.old => redirects'[s] = redirects[s] /\ ~Renames(p, s)
    BY <1>1, <1>2 DEF Renames
  <2>6. SiteTypeOK'
    BY <1>1, <1>3, <2>2 DEF SiteInv, SiteTypeOK
  <2>7. StageInv'
    <3> SUFFICES ASSUME NEW f \in Edits, Active(f)' PROVE StageOK(edit[f])'
      BY DEF StageInv
    <3>1. f # e
      BY <2>2 DEF Active
    <3> QED  BY <2>2, <3>1 DEF SiteInv, StageInv, StageOK, Active
  <2>8. CopyInv'
    <3> SUFFICES ASSUME NEW f \in Edits, Active(f)' PROVE EditCopyOK(edit[f])'
      BY DEF CopyInv
    <3>1. f # e
      BY <2>2 DEF Active
    <3>2. EditCopyOK(edit[f]) /\ edit'[f] = edit[f]
      BY <2>2, <3>1 DEF SiteInv, CopyInv, Active
    <3> QED  BY <1>1, <2>1, <3>2 DEF EditCopyOK
  <2>9. PendingInv'
    <3> SUFFICES ASSUME NEW s \in Slugs \ excused, NEW f \in Edits, Renames(edit'[f], s)
                 PROVE  /\ \A g \in Edits : Renames(edit'[g], s) => g = f
                        /\ edit'[f].slug # s => newest[s] = edit'[f].slug
                        /\ edit'[f].stage = "forward" =>
                              edit'[f].found = "rule"
                              \/ (edit'[f].found = "none" /\ redirects'[s] = "none")
      BY <1>1, <2>1 DEF PendingInv, Renames
    <3>1. f # e /\ edit'[f] = edit[f]
      BY <2>2, <2>3
    <3>2. s # p.old
      BY <2>4, <3>1
    <3>3. \A g \in Edits : Renames(edit'[g], s) => Renames(edit[g], s)
      BY <2>2, <2>3
    <3> QED  BY <2>5, <3>1, <3>2, <3>3 DEF SiteInv, PendingInv
  <2>10. RuleInv'
    <3> SUFFICES ASSUME NEW s \in Slugs \ excused
                 PROVE  /\ redirects'[s] # "none" => newest[s] # "none"
                        /\ newest[s] # "none" =>
                              \/ redirects'[s] = newest[s]
                              \/ \E f \in Edits : Renames(edit'[f], s) /\ edit'[f].slug # s
      BY <1>1, <2>1 DEF RuleInv, Renames
    <3>1. CASE s = p.old
      BY <1>2, <2>4, <3>1, SiteAssumption
    <3>2. CASE s # p.old
      <4>1. \A f \in Edits : Renames(edit[f], s) => edit'[f] = edit[f]
        BY <2>2, <2>5, <3>2
      <4> QED  BY <2>5, <3>2, <4>1 DEF SiteInv, RuleInv
    <3> QED  BY <3>1, <3>2
  <2>11. PageInv'
    BY <1>1, <2>1 DEF SiteInv, PageInv, PageAt, Stored
  <2> QED  BY <2>6, <2>7, <2>8, <2>9, <2>10, <2>11 DEF SiteInv
<1> QED  BY <1>2, <1>4, <1>5

LEMMA ForwardFailsKeeps == ASSUME SiteInv, NEW e \in Edits, ForwardFails(e) PROVE SiteInv'
<1>1. /\ Active(e) /\ Ends(e) /\ UNCHANGED <<pages, redirects, newest, reused>>
      /\ excused' = excused \cup {edit[e].old}
  BY DEF ForwardFails, Editing
<1>2. /\ edit[e] \in Edit /\ edit[e].old \in Slugs
      /\ excused \subseteq Slugs /\ redirects \in [Slugs -> Slugs \cup {"none"}]
  BY <1>1, EditFacts DEF SiteInv, SiteTypeOK, Edit
<1>3. \A s \in Slugs \ excused' : ~Renames(edit[e], s)
  BY <1>1 DEF Renames
<1> QED  BY <1>1, <1>2, <1>3, EndKeeps

LEMMA DropRuleKeeps == ASSUME SiteInv, NEW s \in Slugs, DropRule(s) PROVE SiteInv'
<1>1. /\ redirects' = [redirects EXCEPT ![s] = "none"]
      /\ excused' = excused \cup {s}
      /\ UNCHANGED <<pages, newest, reused>>
  BY DEF DropRule
<1>2. \A e \in Edits :
         \/ edit'[e] = edit[e]
         \/ /\ Active(e) /\ edit[e].old = s /\ edit[e].stage = "forward"
            /\ edit'[e] = [edit[e] EXCEPT !.found = "gone"]
  BY DEF DropRule, Editing
<1>3. \A e \in Edits :
         /\ edit'[e] \in Edit \cup {NoEdit, Done}
         /\ Active(e)' => /\ Active(e)
                          /\ edit'[e].op = edit[e].op /\ edit'[e].id = edit[e].id
                          /\ edit'[e].slug = edit[e].slug /\ edit'[e].old = edit[e].old
                          /\ edit'[e].stage = edit[e].stage
  <2> SUFFICES ASSUME NEW e \in Edits
               PROVE  /\ edit'[e] \in Edit \cup {NoEdit, Done}
                      /\ Active(e)' => /\ Active(e)
                                       /\ edit'[e].op = edit[e].op /\ edit'[e].id = edit[e].id
                                       /\ edit'[e].slug = edit[e].slug
                                       /\ edit'[e].old = edit[e].old
                                       /\ edit'[e].stage = edit[e].stage
    OBVIOUS
  <2>1. CASE edit'[e] = edit[e]
    BY <2>1 DEF SiteInv, SiteTypeOK, Active
  <2>2. CASE edit'[e] # edit[e]
    <3>1. Active(e) /\ edit[e] \in Edit /\ edit'[e] = [edit[e] EXCEPT !.found = "gone"]
      BY <1>2, <2>2, EditFacts DEF SiteInv
    <3> QED  BY <3>1 DEF Edit
  <2> QED  BY <2>1, <2>2
<1>4. \A t \in Slugs \ excused' : \A e \in Edits :
         Renames(edit'[e], t) \/ Renames(edit[e], t) => edit'[e] = edit[e]
  <2> SUFFICES ASSUME NEW t \in Slugs \ excused', NEW e \in Edits,
                      Renames(edit'[e], t) \/ Renames(edit[e], t), edit'[e] # edit[e]
               PROVE  FALSE
    OBVIOUS
  <2>1. Active(e) /\ edit[e].old = s /\ edit'[e] = [edit[e] EXCEPT !.found = "gone"]
        /\ edit[e] \in Edit
    BY <1>2, EditFacts DEF SiteInv
  <2>2. edit'[e].old = s
    BY <2>1 DEF Edit
  <2> QED  BY <1>1, <2>1, <2>2 DEF Renames
<1>5. SiteTypeOK'
  <2>1. edit' = [e \in Edits |-> edit'[e]]
    BY DEF DropRule
  <2>2. edit' \in [Edits -> Edit \cup {NoEdit, Done}]
    BY <1>3, <2>1
  <2> QED  BY <1>1, <2>2 DEF SiteInv, SiteTypeOK
<1>6. StageInv' /\ CopyInv'
  BY <1>1, <1>3 DEF SiteInv, StageInv, CopyInv, StageOK, EditCopyOK
<1>7. PendingInv'
  <2> SUFFICES ASSUME NEW t \in Slugs \ excused', NEW e \in Edits, Renames(edit'[e], t)
               PROVE  /\ \A f \in Edits : Renames(edit'[f], t) => f = e
                      /\ edit'[e].slug # t => newest[t] = edit'[e].slug
                      /\ edit'[e].stage = "forward" =>
                            edit'[e].found = "rule"
                            \/ (edit'[e].found = "none" /\ redirects'[t] = "none")
    BY <1>1 DEF PendingInv, Renames
  <2>1. t \in Slugs \ excused /\ t # s
    BY <1>1
  <2>2. redirects'[t] = redirects[t]
    BY <1>1, <2>1 DEF SiteInv, SiteTypeOK
  <2> QED  BY <1>4, <2>1, <2>2 DEF SiteInv, PendingInv
<1>8. RuleInv'
  <2> SUFFICES ASSUME NEW t \in Slugs \ excused'
               PROVE  /\ redirects'[t] # "none" => newest[t] # "none"
                      /\ newest[t] # "none" =>
                            \/ redirects'[t] = newest[t]
                            \/ \E e \in Edits : Renames(edit'[e], t) /\ edit'[e].slug # t
    BY <1>1 DEF RuleInv, Renames
  <2>1. t \in Slugs \ excused /\ t # s
    BY <1>1
  <2>2. redirects'[t] = redirects[t]
    BY <1>1, <2>1 DEF SiteInv, SiteTypeOK
  <2> QED  BY <1>4, <2>1, <2>2 DEF SiteInv, RuleInv
<1>9. PageInv'
  BY <1>1 DEF SiteInv, PageInv, PageAt, Stored
<1> QED  BY <1>5, <1>6, <1>7, <1>8, <1>9 DEF SiteInv

\* What writing a page that leaves no path behind does to everything but pages.
LEMMA WriteMoves ==
    ASSUME SiteInv, NEW e \in Edits, Active(e), edit[e].stage = "write", edit[e].op # "update",
           Goes(e, "finish"), UNCHANGED <<redirects, newest, excused>>,
           pages' \in [PageIds -> Slugs \cup {NoPage, Gone}], reused' \subseteq Slugs,
           PageInv',
           \A i \in PageIds : pages'[i] # pages[i] => pages[i] = NoPage \/ pages'[i] = Gone
    PROVE  SiteInv'
<1> DEFINE q == [edit[e] EXCEPT !.stage = "finish"]
<1>1. /\ edit[e] \in Edit /\ q \in Edit /\ edit' = [edit EXCEPT ![e] = q]
  BY EditFacts DEF SiteInv
<1>2. q.op = edit[e].op /\ q.id = edit[e].id /\ q.stage = "finish"
  BY <1>1 DEF Edit
<1> HIDE DEF q
<1>3. /\ edit'[e] = q /\ \A f \in Edits \ {e} : edit'[f] = edit[f]
      /\ edit' \in [Edits -> Edit \cup {NoEdit, Done}]
  BY <1>1 DEF SiteInv, SiteTypeOK
<1>4. SiteTypeOK'
  BY <1>3 DEF SiteInv, SiteTypeOK
<1>5. StageInv'
  <2> SUFFICES ASSUME NEW f \in Edits, Active(f)' PROVE StageOK(edit[f])'
    BY DEF StageInv
  <2>1. StageOK(edit[e]) /\ (f # e => StageOK(edit[f]))
    BY <1>3 DEF SiteInv, StageInv, Active
  <2> QED  BY <1>2, <1>3, <2>1 DEF StageOK
<1>6. CopyInv'
  <2> SUFFICES ASSUME NEW f \in Edits, Active(f)', edit'[f].op = "update",
                      edit'[f].stage \in {"check", "write"}
               PROVE  \/ pages'[edit'[f].id] \in {edit'[f].old, Gone}
                      \/ /\ pages'[edit'[f].id] # NoPage
                         /\ edit'[f].old \in excused \/ newest[edit'[f].old] # "none"
    BY DEF CopyInv, EditCopyOK
  <2>1. f # e /\ edit'[f] = edit[f] /\ Active(f)
    BY <1>2, <1>3 DEF Active
  <2>2. edit[f].id \in PageIds /\ edit[f].old \in Slugs
    BY <2>1, EditFacts, ZenonT(40) DEF SiteInv, StageInv, StageOK, Edit
  <2>3. EditCopyOK(edit[f]) /\ pages[edit[f].id] # NoPage
    BY <2>1, <2>2, SiteAssumption DEF SiteInv, CopyInv, EditCopyOK
  <2> QED  BY <2>1, <2>2, <2>3 DEF EditCopyOK
<1>7. \A s \in Slugs : \A f \in Edits :
         Renames(edit'[f], s) \/ Renames(edit[f], s) => f # e /\ edit'[f] = edit[f]
  BY <1>2, <1>3 DEF Renames
<1>8. PendingInv'
  <2> SUFFICES ASSUME NEW s \in Slugs \ excused, NEW f \in Edits, Renames(edit'[f], s)
               PROVE  /\ \A g \in Edits : Renames(edit'[g], s) => g = f
                      /\ edit'[f].slug # s => newest[s] = edit'[f].slug
                      /\ edit'[f].stage = "forward" =>
                            edit'[f].found = "rule"
                            \/ (edit'[f].found = "none" /\ redirects[s] = "none")
    BY DEF PendingInv, Renames
  <2> QED  BY <1>7 DEF SiteInv, PendingInv
<1>9. RuleInv'
  <2> SUFFICES ASSUME NEW s \in Slugs \ excused
               PROVE  /\ redirects[s] # "none" => newest[s] # "none"
                      /\ newest[s] # "none" =>
                            \/ redirects[s] = newest[s]
                            \/ \E f \in Edits : Renames(edit'[f], s) /\ edit'[f].slug # s
    BY DEF RuleInv, Renames
  <2> QED  BY <1>7 DEF SiteInv, RuleInv
<1> QED  BY <1>4, <1>5, <1>6, <1>8, <1>9 DEF SiteInv

LEMMA InsertKeeps == ASSUME SiteInv, NEW e \in Edits, InsertPage(e) PROVE SiteInv'
<1> DEFINE slug == edit[e].slug
<1>1. /\ Active(e) /\ edit[e].stage = "write" /\ edit[e].op = "create" /\ PageAt(slug) = {}
      /\ reused' = IF newest[slug] # "none" THEN reused \cup {slug} ELSE reused
      /\ Goes(e, "finish") /\ UNCHANGED <<redirects, newest, excused>>
  BY DEF InsertPage, Editing, SlugTaken, Takes
<1>2. PICK i \in PageIds : pages[i] = NoPage /\ pages' = [pages EXCEPT ![i] = slug]
  BY DEF InsertPage
<1>3. slug \in Slugs
  BY <1>1, EditFacts DEF SiteInv, Edit
<1> HIDE DEF slug
<1>4. /\ pages' \in [PageIds -> Slugs \cup {NoPage, Gone}] /\ reused' \subseteq Slugs
      /\ pages'[i] = slug /\ \A j \in PageIds \ {i} : pages'[j] = pages[j]
  BY <1>1, <1>2, <1>3 DEF SiteInv, SiteTypeOK
<1>5. PageInv'
  <2>1. \A j, k \in PageIds : pages'[j] \in Slugs /\ pages'[j] = pages'[k] => j = k
    <3>1. \A j \in PageIds : pages[j] # slug
      BY <1>1 DEF PageAt
    <3> QED  BY <1>4, <3>1 DEF SiteInv, PageInv, Stored
  <2>2. ASSUME NEW s \in Slugs, newest[s] # "none", NEW j \in PageIds, pages'[j] = s
        PROVE  s \in reused' \cup excused
    <3>1. CASE s = slug
      BY <1>1, <2>2, <3>1
    <3>2. CASE s # slug
      <4>1. j # i /\ pages[j] = s
        BY <1>4, <2>2, <3>2
      <4> QED  BY <1>1, <2>2, <4>1 DEF SiteInv, PageInv, PageAt
    <3> QED  BY <3>1, <3>2
  <2> QED  BY <1>1, <2>1, <2>2 DEF PageInv, PageAt, Stored
<1>6. \A j \in PageIds : pages'[j] # pages[j] => pages[j] = NoPage \/ pages'[j] = Gone
  BY <1>2, <1>4
<1> QED  BY <1>1, <1>4, <1>5, <1>6, WriteMoves

LEMMA DeleteKeeps == ASSUME SiteInv, NEW e \in Edits, DeletePage(e) PROVE SiteInv'
<1>1. /\ Active(e) /\ edit[e].stage = "write" /\ edit[e].op = "delete"
      /\ pages' = [pages EXCEPT ![edit[e].id] = Gone]
      /\ Goes(e, "finish") /\ UNCHANGED <<redirects, newest, excused, reused>>
  BY DEF DeletePage, Editing
<1>2. edit[e].id \in PageIds
  BY <1>1 DEF SiteInv, StageInv, StageOK
<1>3. /\ pages' \in [PageIds -> Slugs \cup {NoPage, Gone}] /\ reused' \subseteq Slugs
      /\ \A j \in PageIds : pages'[j] = pages[j] \/ pages'[j] = Gone
  BY <1>1, <1>2 DEF SiteInv, SiteTypeOK
<1>4. PageInv'
  <2>1. \A j \in PageIds : pages'[j] \in Slugs => pages'[j] = pages[j]
    BY <1>3, SiteAssumption
  <2>2. \A j, k \in PageIds : pages'[j] \in Slugs /\ pages'[j] = pages'[k] => j = k
    BY <2>1 DEF SiteInv, PageInv, Stored
  <2> QED  BY <1>1, <2>1, <2>2 DEF SiteInv, PageInv, PageAt, Stored
<1> QED  BY <1>1, <1>3, <1>4, WriteMoves

LEMMA UpdateKeeps == ASSUME SiteInv, NEW e \in Edits, UpdatePage(e) PROVE SiteInv'
<1> DEFINE q == [edit[e] EXCEPT !.stage = "finish"]
           i == edit[e].id
           slug == edit[e].slug
           old == edit[e].old
           cur == pages[i]
<1>1. /\ Active(e) /\ edit[e].stage = "write" /\ edit[e].op = "update"
      /\ Goes(e, "finish") /\ UNCHANGED redirects
      /\ cur \in Slugs /\ PageAt(slug) \ {i} = {}
      /\ pages' = [pages EXCEPT ![i] = slug]
      /\ reused' = IF slug # cur /\ newest[slug] # "none" THEN reused \cup {slug} ELSE reused
      /\ newest' = IF slug = old THEN newest ELSE [newest EXCEPT ![old] = slug]
      /\ excused' = excused \cup (IF Pending(old) = {} THEN {} ELSE {old})
                            \cup ({cur} \ {old, slug})
  BY DEF UpdatePage, Editing, Stored, SlugTaken, Takes
<1>2. /\ edit[e] \in Edit /\ q \in Edit /\ edit' = [edit EXCEPT ![e] = q]
      /\ StageOK(edit[e]) /\ EditCopyOK(edit[e])
  BY <1>1, EditFacts DEF SiteInv, StageInv, CopyInv
<1>3. /\ i \in PageIds /\ slug \in Slugs /\ old \in Slugs
      /\ cur = old \/ old \in excused \/ newest[old] # "none"
  BY <1>1, <1>2, SiteAssumption DEF Edit, StageOK, EditCopyOK
<1>4. q.op = "update" /\ q.id = i /\ q.stage = "finish" /\ q.old = old /\ q.slug = slug
  BY <1>1, <1>2 DEF Edit
<1>5. q \notin {NoEdit, Done}
  BY <1>2, SiteAssumption
<1> HIDE DEF q, i, slug, old, cur
<1>6. /\ edit'[e] = q /\ \A f \in Edits \ {e} : edit'[f] = edit[f]
      /\ edit' \in [Edits -> Edit \cup {NoEdit, Done}]
  BY <1>2 DEF SiteInv, SiteTypeOK
<1>7. /\ pages' \in [PageIds -> Slugs \cup {NoPage, Gone}]
      /\ pages'[i] = slug /\ \A j \in PageIds \ {i} : pages'[j] = pages[j]
      /\ pages[i] = cur
  BY <1>1, <1>3 DEF SiteInv, SiteTypeOK, cur
<1>8. /\ newest' \in [Slugs -> Slugs \cup {"none"}]
      /\ \A s \in Slugs \ {old} : newest'[s] = newest[s]
      /\ slug # old => newest'[old] = slug
      /\ slug = old => newest'[old] = newest[old]
      /\ \A s \in Slugs : newest[s] # "none" => newest'[s] # "none"
  BY <1>1, <1>3, SiteAssumption DEF SiteInv, SiteTypeOK
<1>9. /\ excused \subseteq excused' /\ excused' \subseteq Slugs
      /\ reused \subseteq reused' /\ reused' \subseteq Slugs
      /\ cur \notin {old, slug} => cur \in excused'
      /\ old \notin excused' => \A f \in Edits : ~Renames(edit[f], old)
  <2>1. old \notin excused' => Pending(old) = {}
    BY <1>1
  <2>2. \A f \in Edits : Renames(edit[f], old) => f \in Pending(old)
    BY DEF Renames, Pending, Active
  <2> QED  BY <1>1, <1>3, <2>1, <2>2 DEF SiteInv, SiteTypeOK
<1>10. SiteTypeOK'
  BY <1>1, <1>6, <1>7, <1>8, <1>9 DEF SiteInv, SiteTypeOK
<1>11. StageInv'
  <2> SUFFICES ASSUME NEW f \in Edits, Active(f)' PROVE StageOK(edit[f])'
    BY DEF StageInv
  <2>1. CASE f = e
    BY <1>3, <1>4, <1>6, <2>1 DEF StageOK
  <2>2. CASE f # e
    BY <1>6, <2>2 DEF SiteInv, StageInv, StageOK, Active
  <2> QED  BY <2>1, <2>2
<1>12. CopyInv'
  <2> SUFFICES ASSUME NEW f \in Edits, Active(f)', edit'[f].op = "update",
                      edit'[f].stage \in {"check", "write"}
               PROVE  \/ pages'[edit'[f].id] \in {edit'[f].old, Gone}
                      \/ /\ pages'[edit'[f].id] # NoPage
                         /\ edit'[f].old \in excused' \/ newest'[edit'[f].old] # "none"
    BY DEF CopyInv, EditCopyOK
  <2>1. f # e /\ edit'[f] = edit[f] /\ Active(f)
    BY <1>4, <1>6 DEF Active
  <2>2. edit[f].id \in PageIds /\ edit[f].old \in Slugs /\ EditCopyOK(edit[f])
    BY <2>1, EditFacts, ZenonT(40) DEF SiteInv, StageInv, StageOK, CopyInv, Edit
  <2>3. CASE edit[f].id # i
    BY <1>7, <1>8, <1>9, <2>1, <2>2, <2>3 DEF EditCopyOK
  <2>4. CASE edit[f].id = i
    <3>1. pages'[i] = slug /\ slug # NoPage
      BY <1>3, <1>7, SiteAssumption
    <3>2. cur = edit[f].old \/ edit[f].old \in excused \/ newest[edit[f].old] # "none"
      BY <1>1, <1>7, <2>1, <2>2, <2>4, SiteAssumption DEF EditCopyOK
    <3>3. CASE cur = edit[f].old
      BY <1>3, <1>8, <1>9, <2>1, <2>4, <3>1, <3>3, SiteAssumption
    <3>4. CASE cur # edit[f].old
      BY <1>8, <1>9, <2>1, <2>2, <2>4, <3>1, <3>2, <3>4
    <3> QED  BY <3>3, <3>4
  <2> QED  BY <2>3, <2>4
<1>13. PageInv'
  <2>1. \A j \in PageIds \ {i} : pages[j] # slug
    BY <1>1 DEF PageAt
  <2>2. \A j, k \in PageIds : pages'[j] \in Slugs /\ pages'[j] = pages'[k] => j = k
    BY <1>7, <2>1 DEF SiteInv, PageInv, Stored
  <2>3. ASSUME NEW s \in Slugs, newest'[s] # "none", NEW j \in PageIds, pages'[j] = s
        PROVE  s \in reused' \cup excused'
    <3>1. newest[s] # "none" /\ (\E k \in PageIds : pages[k] = s) => s \in reused' \cup excused'
      BY <1>9 DEF SiteInv, PageInv, PageAt
    <3>2. CASE s = slug
      <4>1. newest[slug] # "none"
        BY <1>3, <1>8, <2>3, <3>2
      <4> QED  BY <1>1, <1>3, <1>7, <3>1, <3>2, <4>1
    <3>3. CASE s # slug
      <4>1. j # i /\ pages[j] = s
        BY <1>7, <2>3, <3>3
      <4>2. s = old => cur # old
        BY <1>1, <1>3, <1>7, <4>1 DEF SiteInv, PageInv, Stored
      <4>3. newest[s] # "none" \/ s \in excused
        BY <1>3, <1>8, <2>3, <4>2
      <4> QED  BY <1>9, <3>1, <4>1, <4>3
    <3> QED  BY <3>2, <3>3
  <2> QED  BY <2>2, <2>3 DEF PageInv, PageAt, Stored
<1>14. \A s \in Slugs \ {old} : \A f \in Edits :
          Renames(edit'[f], s) \/ Renames(edit[f], s) => edit'[f] = edit[f]
  BY <1>1, <1>4, <1>6 DEF Renames
<1>15. PendingInv'
  <2> SUFFICES ASSUME NEW s \in Slugs \ excused', NEW f \in Edits, Renames(edit'[f], s)
               PROVE  /\ \A g \in Edits : Renames(edit'[g], s) => g = f
                      /\ edit'[f].slug # s => newest'[s] = edit'[f].slug
                      /\ edit'[f].stage = "forward" =>
                            edit'[f].found = "rule"
                            \/ (edit'[f].found = "none" /\ redirects'[s] = "none")
    BY DEF PendingInv, Renames
  <2>1. CASE s = old
    <3>1. \A g \in Edits : Renames(edit'[g], s) => g = e
      BY <1>6, <1>9, <2>1
    <3> QED  BY <1>4, <1>6, <1>8, <2>1, <3>1
  <2>2. CASE s # old
    BY <1>1, <1>8, <1>9, <1>14, <2>2 DEF SiteInv, PendingInv
  <2> QED  BY <2>1, <2>2
<1>16. RuleInv'
  <2> SUFFICES ASSUME NEW s \in Slugs \ excused'
               PROVE  /\ redirects[s] # "none" => newest'[s] # "none"
                      /\ newest'[s] # "none" =>
                            \/ redirects[s] = newest'[s]
                            \/ \E f \in Edits : Renames(edit'[f], s) /\ edit'[f].slug # s
    BY <1>1 DEF RuleInv, Renames
  <2>1. s \in Slugs \ excused
    BY <1>9
  <2>2. CASE s = old /\ slug # old
    <3>1. Renames(edit'[e], s) /\ edit'[e].slug # s
      BY <1>4, <1>5, <1>6, <2>2 DEF Renames
    <3> QED  BY <1>3, <1>8, <2>2, <3>1, SiteAssumption
  <2>3. CASE s = old /\ slug = old
    BY <1>8, <1>9, <2>1, <2>3 DEF SiteInv, RuleInv
  <2>4. CASE s # old
    BY <1>8, <1>14, <2>1, <2>4 DEF SiteInv, RuleInv
  <2> QED  BY <2>2, <2>3, <2>4
<1> QED  BY <1>10, <1>11, <1>12, <1>13, <1>15, <1>16 DEF SiteInv

LEMMA SiteStep == SiteInv /\ [SiteNext]_siteVars => SiteInv'
<1> SUFFICES ASSUME SiteInv, [SiteNext]_siteVars PROVE SiteInv'
  OBVIOUS
<1>1. CASE UNCHANGED siteVars
  BY <1>1 DEF siteVars, SiteInv, SiteTypeOK, StageInv, StageOK, PendingInv, RuleInv, PageInv,
              CopyInv, EditCopyOK, Renames, Active, Stored, PageAt
<1>2. ASSUME NEW e \in Edits, EditStep(e) PROVE SiteInv'
  BY <1>2, EarlyKeeps, InsertKeeps, UpdateKeeps, DeleteKeeps, FinishKeeps, LookupKeeps,
     ForwardKeeps, ForwardFailsKeeps DEF EditStep
<1>3. ASSUME NEW e \in Edits, NEW s \in Slugs,
             \/ Begin(e, "create", NoPage, s, s)
             \/ \E i \in PageIds : Begin(e, "update", i, s, s)
             \/ \E to \in Slugs : Begin(e, "redirect", NoPage, to, s)
      PROVE  SiteInv'
  BY <1>3, BeginKeeps
<1>4. ASSUME NEW e \in Edits, NEW i \in PageIds, Stored(i), Begin(e, "delete", i, pages[i], pages[i])
      PROVE  SiteInv'
  BY <1>4, BeginKeeps DEF Stored
<1> QED  BY <1>1, <1>2, <1>3, <1>4, DropRuleKeeps DEF SiteNext

\* Pages, rules and edits always have their types.
THEOREM SiteTypeCorrect == SiteSpec => []SiteTypeOK
<1>1. SiteInv => SiteTypeOK
  BY DEF SiteInv
<1> QED  BY SiteInit_Inv, SiteStep, <1>1, PTL DEF SiteSpec

\* Whatever edits overlap, and whatever the other rules are, the rule from a slug
\* that was left leads where the last rename went, once its handler is done.
THEOREM RulesFollow == SiteSpec => []ForwardsToNewest
<1>1. SiteInv => ForwardsToNewest
  <2> SUFFICES ASSUME SiteInv, NEW s \in Slugs \ excused, newest[s] # "none", Pending(s) = {}
               PROVE  redirects[s] = newest[s]
    BY DEF ForwardsToNewest
  <2>1. \A e \in Edits : ~Renames(edit[e], s)
    BY DEF Pending, Renames, Active
  <2> QED  BY <2>1 DEF SiteInv, RuleInv
<1> QED  BY SiteInit_Inv, SiteStep, <1>1, PTL DEF SiteSpec

\* A published page is hidden by a rule only at a slug that it took after a rename
\* had left it, or that has an excuse.
THEOREM PagesAnswered == SiteSpec => []HiddenOnlyByReuse
<1>1. SiteInv => HiddenOnlyByReuse
  <2> SUFFICES ASSUME SiteInv, NEW i \in PageIds, Stored(i), pages[i] \notin reused \cup excused
               PROVE  Answer(pages[i]).kind = "page"
    BY DEF HiddenOnlyByReuse
  <2>1. PageAt(pages[i]) # {} /\ pages[i] \in Slugs
    BY DEF PageAt, Stored
  <2>2. redirects[pages[i]] = "none"
    BY <2>1 DEF SiteInv, RuleInv, PageInv
  <2> QED  BY <2>1, <2>2 DEF Answer
<1> QED  BY SiteInit_Inv, SiteStep, <1>1, PTL DEF SiteSpec

-----------------------------------------------------------------------------
(* What the site shows is stored, and saves are kept, for any number of    *)
(* overlapping pages, saves and loads.                                     *)

\* A value that was loaded is the stored one, or known to be outdated.
LoaderInv ==
    \A r \in Loaders :
        /\ reader[r] # NoEntry /\ r \notin outdated => reader[r] = settings
        /\ reader[r] # NoEntry /\ r \in Saves => save[r].at = "closed"

\* An update has written keys and has still to end.
HalfWay == \E a \in Saves : Writing(a) /\ save[a].next > 1

\* An entry without an excuse, and the values of the last update, are the stored
\* ones, but for what an update that has not ended has written.
EntryInv == entry # NoEntry /\ behind = "no" => entry = settings \/ HalfWay
WholeInv == ~mixed => settings = lastSaved \/ HalfWay

\* Two updates that run at the same time are crossed, and what an update has
\* written that is not stays.
WriterInv ==
    /\ \A a, b \in Saves : Writing(a) /\ Writing(b) /\ a # b => a \in crossed
    /\ \A a \in Saves : Writing(a) /\ a \notin crossed =>
          \A n \in 1..2 : n < save[a].next => settings[Known[n]] = save[a].values[Known[n]]

\* What nobody typed into, on a page that has no excuse, is as it is stored.
SavePageInv ==
    \A a \in Saves :
        /\ save[a].at \in {"closed", "open"} => save[a].next = 1 /\ save[a].typed = {}
        /\ save[a].at \in {"open", "write"} /\ ~save[a].excused =>
              \A n \in 1..2 : n >= save[a].next /\ Known[n] \notin save[a].typed =>
                  save[a].values[Known[n]] = settings[Known[n]]

Page == [values : Settings, typed : SUBSET KnownKeys, excused : BOOLEAN, next : 1..3,
         at : {"closed", "open", "write", "over"}]

\* SettingsTypeOK, with the number of the keys.
Typed ==
    /\ settings \in Settings
    /\ entry \in Settings \cup {NoEntry}
    /\ save \in [Saves -> Page]
    /\ reader \in [Loaders -> Settings \cup {NoEntry}]
    /\ keyLock \in Loaders \cup {NoEntry}
    /\ outdated \subseteq Loaders
    /\ behind \in {"no", "late fill", "failed update"}
    /\ crossed \subseteq Saves /\ mixed \in BOOLEAN
    /\ lastSaved \in Settings /\ wronged \in BOOLEAN

SettingsInv ==
    Typed /\ LoaderInv /\ EntryInv /\ WholeInv /\ WriterInv /\ SavePageInv /\ ~wronged

\* The two known settings.
LEMMA KnownFacts ==
    /\ Len(Known) = 2 /\ Known[1] \in KnownKeys /\ Known[2] \in KnownKeys
    /\ Known[1] # Known[2] /\ KnownKeys = {Known[1], Known[2]}
BY DEF Known, KnownKeys

LEMMA SettingsInit_Inv == SettingsInit => SettingsInv
<1> SUFFICES ASSUME SettingsInit PROVE SettingsInv
  OBVIOUS
<1>1. Defaults \in Settings
  BY DEF Defaults, Settings, SettingValues
<1>2. Typed
  <2>1. save \in [Saves -> Page]
    BY <1>1 DEF SettingsInit, Page
  <2> QED  BY <1>1, <2>1 DEF SettingsInit, Typed
<1>3. LoaderInv /\ EntryInv /\ WholeInv /\ WriterInv /\ ~wronged
  BY DEF SettingsInit, LoaderInv, EntryInv, WholeInv, WriterInv, Writing
<1>4. SavePageInv
  BY DEF SettingsInit, SavePageInv
<1> QED  BY <1>2, <1>3, <1>4 DEF SettingsInv

(* The steps of a page. *)

\* Filling a page: what it shows without an excuse is what is stored.
LEMMA ShownKeeps ==
    ASSUME SettingsInv, NEW a \in Saves, save[a].at = "closed",
           NEW values \in Settings, NEW old \in BOOLEAN, ~old /\ Others(a) = {} => values = settings,
           save' = Shown(a, values, old),
           UNCHANGED <<settings, crossed, mixed, lastSaved, wronged>>
    PROVE  /\ save' \in [Saves -> Page] /\ SavePageInv' /\ WriterInv' /\ WholeInv'
           /\ \A b \in Saves \ {a} : save'[b] = save[b]
           /\ HalfWay' <=> HalfWay
<1>1. save \in [Saves -> Page]
  BY DEF Typed, SettingsInv
<1>2. /\ save'[a] = [save[a] EXCEPT !.at = "open", !.values = values,
                                    !.excused = old \/ Others(a) # {}]
      /\ \A b \in Saves \ {a} : save'[b] = save[b]
  BY <1>1 DEF Shown
<1>3. save' \in [Saves -> Page]
  BY <1>1 DEF Shown, Page
<1>4. /\ save'[a].at = "open" /\ save'[a].next = 1 /\ save'[a].typed = {}
      /\ save'[a].values = values /\ save'[a].excused = (old \/ Others(a) # {})
  BY <1>1, <1>2 DEF SettingsInv, SavePageInv, Page
<1>5. SavePageInv'
  <2> SUFFICES ASSUME NEW b \in Saves
               PROVE  /\ save'[b].at \in {"closed", "open"} => save'[b].next = 1 /\ save'[b].typed = {}
                      /\ save'[b].at \in {"open", "write"} /\ ~save'[b].excused =>
                            \A n \in 1..2 : n >= save'[b].next /\ Known[n] \notin save'[b].typed =>
                                save'[b].values[Known[n]] = settings[Known[n]]
    BY DEF SavePageInv
  <2>1. CASE b = a
    BY <1>4, <2>1
  <2>2. CASE b # a
    BY <1>2, <2>2 DEF SettingsInv, SavePageInv
  <2> QED  BY <2>1, <2>2
<1>6. \A b \in Saves : Writing(b)' <=> Writing(b) /\ b # a
  BY <1>2, <1>4 DEF Writing
<1>7. ~Writing(a)
  BY DEF Writing
<1>8. HalfWay' <=> HalfWay
  BY <1>2, <1>6, <1>7 DEF HalfWay
<1>9. WriterInv'
  BY <1>2, <1>6 DEF SettingsInv, WriterInv
<1>10. WholeInv'
  BY <1>8 DEF SettingsInv, WholeInv
<1> QED  BY <1>2, <1>3, <1>5, <1>8, <1>9, <1>10

LEMMA OpenPageKeeps == ASSUME SettingsInv, NEW a \in Saves, OpenPage(a) PROVE SettingsInv'
<1>1. /\ save[a].at = "closed" /\ entry \in Settings
      /\ save' = Shown(a, entry, behind # "no")
      /\ UNCHANGED <<settings, entry, reader, keyLock, outdated, behind, mixed, crossed,
                     lastSaved, wronged>>
      /\ reader[a] = NoEntry
  BY DEF Typed, OpenPage, SettingsInv
<1>2. behind = "no" /\ Others(a) = {} => entry = settings
  <2> SUFFICES ASSUME behind = "no", Others(a) = {} PROVE entry = settings
    OBVIOUS
  <2>1. \A b \in Saves : ~Writing(b)
    BY <1>1 DEF Others, Writing
  <2> QED  BY <1>1, <2>1 DEF Typed, SettingsInv, EntryInv, HalfWay, OpenPage
<1>3. /\ save' \in [Saves -> Page] /\ SavePageInv' /\ WriterInv' /\ WholeInv'
      /\ \A b \in Saves \ {a} : save'[b] = save[b]
      /\ HalfWay' <=> HalfWay
  <2> DEFINE old == behind # "no"
  <2>1. old \in BOOLEAN /\ (~old /\ Others(a) = {} => entry = settings)
    BY <1>2
  <2>2. save' = Shown(a, entry, old)
    BY <1>1
  <2> HIDE DEF old
  <2> QED  BY <1>1, <2>1, <2>2, ShownKeeps
<1>5. Typed'
  BY <1>1, <1>3 DEF SettingsInv, Typed
<1>6. LoaderInv'
  BY <1>1, <1>3 DEF SettingsInv, LoaderInv
<1>7. EntryInv'
  BY <1>1, <1>3 DEF SettingsInv, EntryInv
<1> QED  BY <1>1, <1>3, <1>5, <1>6, <1>7 DEF SettingsInv

LEMMA BeginSaveKeeps ==
    ASSUME SettingsInv, NEW a \in Saves, NEW typed \in SUBSET KnownKeys, BeginSave(a, typed)
    PROVE  SettingsInv'
<1> DEFINE values == [k \in KnownKeys |->
                         IF k \in typed THEN CHOOSE v \in SettingValues : v # save[a].values[k]
                         ELSE save[a].values[k]]
<1>1. /\ save[a].at = "open" /\ save[a] \in Page
      /\ save' = [save EXCEPT ![a].at = "write", ![a].typed = typed, ![a].values = values]
      /\ UNCHANGED <<settings, entry, reader, keyLock, outdated, behind, mixed, lastSaved,
                     wronged>>
      /\ crossed' = IF Others(a) = {} THEN crossed ELSE crossed \cup Others(a) \cup {a}
  BY DEF BeginSave, SettingsInv, Typed
<1>2. values \in Settings
  <2>1. \A x : (CHOOSE v \in SettingValues : v # x) \in SettingValues
    <3> SUFFICES ASSUME NEW x PROVE \E v \in SettingValues : v # x
      OBVIOUS
    <3> QED  BY DEF SettingValues
  <2> QED  BY <1>1, <2>1 DEF Page, Settings
<1> HIDE DEF values
<1>3. /\ save' \in [Saves -> Page]
      /\ \A b \in Saves \ {a} : save'[b] = save[b]
      /\ save'[a].at = "write" /\ save'[a].typed = typed /\ save'[a].values = values
      /\ save'[a].next = save[a].next /\ save'[a].excused = save[a].excused
  BY <1>1, <1>2 DEF Page, SettingsInv, Typed
<1>4. save[a].next = 1 /\ save[a].typed = {}
  BY <1>1 DEF SettingsInv, SavePageInv
<1>5. \A b \in Saves : Writing(b)' <=> Writing(b) \/ b = a
  BY <1>3 DEF Writing
<1>6. HalfWay' <=> HalfWay
  BY <1>1, <1>3, <1>4, <1>5 DEF HalfWay, Writing
<1>7. Typed'
  BY <1>1, <1>3 DEF SettingsInv, Typed, Others
<1>8. LoaderInv' /\ EntryInv' /\ WholeInv' /\ ~wronged'
  BY <1>1, <1>3, <1>6 DEF SettingsInv, LoaderInv, EntryInv, WholeInv
<1>9. WriterInv'
  <2>1. \A b \in Saves : Writing(b) /\ b # a => b \in crossed' /\ a \in crossed'
    BY <1>1 DEF Others
  <2>2. \A b \in crossed : b \in crossed'
    BY <1>1
  <2>3. \A b, c \in Saves : Writing(b)' /\ Writing(c)' /\ b # c => b \in crossed'
    BY <1>5, <2>1, <2>2 DEF SettingsInv, WriterInv
  <2>4. ASSUME NEW b \in Saves, Writing(b)', b \notin crossed', NEW n \in 1..2, n < save'[b].next
        PROVE  settings'[Known[n]] = save'[b].values[Known[n]]
    BY <1>1, <1>3, <1>4, <1>5, <2>2, <2>4 DEF SettingsInv, WriterInv
  <2> QED  BY <2>3, <2>4 DEF WriterInv
<1>10. SavePageInv'
  <2>1. ASSUME ~save'[a].excused, NEW n \in 1..2, Known[n] \notin typed
        PROVE  values[Known[n]] = settings[Known[n]]
    <3>1. values[Known[n]] = save[a].values[Known[n]]
      BY <2>1, KnownFacts DEF values
    <3> QED  BY <1>1, <1>3, <1>4, <2>1, <3>1 DEF SettingsInv, SavePageInv
  <2> QED  BY <1>1, <1>3, <2>1 DEF SettingsInv, SavePageInv
<1> QED  BY <1>7, <1>8, <1>9, <1>10 DEF SettingsInv

LEMMA UpsertKeeps == ASSUME SettingsInv, NEW a \in Saves, UpsertSetting(a) PROVE SettingsInv'
<1> DEFINE m == save[a].next
           k == Known[m]
<1>1. /\ Writing(a) /\ save[a] \in Page /\ m \in 1..2
      /\ settings' = [settings EXCEPT ![k] = save[a].values[k]]
      /\ UNCHANGED <<entry, reader, keyLock, behind, mixed, crossed, lastSaved>>
      /\ outdated' = {r \in Loaders : reader[r] # NoEntry /\ reader[r] # settings'}
  <2>1. save[a] \in Page
    BY DEF SettingsInv, Typed
  <2>2. m \in 1..2
    <3>1. m \in 1..3
      BY <2>1 DEF Page
    <3>2. ~(m > 2)
      BY KnownFacts DEF UpsertSetting, AllWritten
    <3> QED  BY <3>1, <3>2
  <2> QED  BY <2>1, <2>2 DEF UpsertSetting
<1>2. /\ k \in KnownKeys /\ settings' \in Settings
      /\ settings'[k] = save[a].values[k]
      /\ \A n \in 1..2 : n # m => settings'[Known[n]] = settings[Known[n]]
  <2>1. k \in KnownKeys /\ \A n \in 1..2 : Known[n] \in KnownKeys /\ (n # m => Known[n] # k)
    BY <1>1, KnownFacts
  <2>2. settings \in [KnownKeys -> SettingValues] /\ save[a].values \in [KnownKeys -> SettingValues]
    BY <1>1 DEF Page, Settings, SettingsInv, Typed
  <2> HIDE DEF k
  <2>3. settings' \in [KnownKeys -> SettingValues] /\ settings'[k] = save[a].values[k]
    BY <1>1, <2>1, <2>2
  <2>4. \A q \in KnownKeys : q # k => settings'[q] = settings[q]
    BY <1>1, <2>1, <2>2
  <2> QED  BY <2>1, <2>3, <2>4 DEF Settings
<1>3. /\ save'[a] = [save[a] EXCEPT !.next = @ + 1]
      /\ \A b \in Saves \ {a} :
            save'[b] = IF save[b].at \in {"open", "write"} /\ settings' # settings
                       THEN [save[b] EXCEPT !.excused = TRUE] ELSE save[b]
  BY DEF UpsertSetting
<1>4. \A b \in Saves \ {a} :
         /\ save'[b] \in Page /\ save'[b].at = save[b].at /\ save'[b].next = save[b].next
         /\ save'[b].values = save[b].values /\ save'[b].typed = save[b].typed
         /\ save'[b].at \in {"open", "write"} /\ ~save'[b].excused =>
               settings' = settings /\ ~save[b].excused
  BY <1>3 DEF Page, SettingsInv, Typed
<1>5. /\ save'[a] \in Page /\ save'[a].at = "write" /\ save'[a].next = m + 1
      /\ save'[a].values = save[a].values /\ save'[a].typed = save[a].typed
      /\ save'[a].excused = save[a].excused /\ save[a].at = "write"
  BY <1>1, <1>3 DEF Page, Writing
<1>6. \A b \in Saves : Writing(b)' <=> Writing(b)
  BY <1>4, <1>5 DEF Writing
<1>7. HalfWay'
  BY <1>1, <1>5, <1>6 DEF HalfWay
<1>8. Typed'
  <2>1. save' \in [Saves -> Page]
    BY <1>4, <1>5 DEF UpsertSetting
  <2>2. wronged' \in BOOLEAN /\ outdated' \subseteq Loaders
    BY <1>1 DEF UpsertSetting
  <2> QED  BY <1>1, <1>2, <2>1, <2>2 DEF SettingsInv, Typed
<1>9. LoaderInv'
  <2>1. \A r \in Loaders : r \in Saves => (save'[r].at = "closed" <=> save[r].at = "closed")
    BY <1>4, <1>5
  <2> QED  BY <1>1, <2>1 DEF SettingsInv, LoaderInv
<1>10. EntryInv' /\ WholeInv'
  BY <1>7 DEF EntryInv, WholeInv
<1>11. WriterInv'
  <2>1. ASSUME NEW b \in Saves, Writing(b), b \notin crossed
        PROVE  b = a
    BY <1>1, <2>1 DEF SettingsInv, WriterInv
  <2>2. ASSUME a \notin crossed, NEW n \in 1..2, n < m + 1
        PROVE  settings'[Known[n]] = save[a].values[Known[n]]
    BY <1>1, <1>2, <2>2 DEF SettingsInv, WriterInv
  <2> QED  BY <1>1, <1>5, <1>6, <2>1, <2>2 DEF SettingsInv, WriterInv
<1>12. SavePageInv'
  <2>1. ASSUME ~save'[a].excused, NEW n \in 1..2, n >= m + 1, Known[n] \notin save[a].typed
        PROVE  save[a].values[Known[n]] = settings'[Known[n]]
    BY <1>1, <1>2, <1>5, <2>1 DEF SettingsInv, SavePageInv
  <2> QED  BY <1>4, <1>5, <2>1 DEF SettingsInv, SavePageInv
<1>13. ~wronged'
  <2>1. ~save[a].excused /\ k \notin save[a].typed => save[a].values[k] = settings[k]
    BY <1>1, <1>5 DEF SettingsInv, SavePageInv
  <2>2. save[a].values[k] = settings[k] => settings' = settings
    BY <1>1, <1>2 DEF SettingsInv, Typed, Settings
  <2> QED  BY <2>1, <2>2 DEF UpsertSetting, SettingsInv
<1> QED  BY <1>8, <1>9, <1>10, <1>11, <1>12, <1>13 DEF SettingsInv

\* An update that ends, whole or not, with whatever becomes of the entry.
LEMMA OverKeeps ==
    ASSUME SettingsInv, NEW a \in Saves, Writing(a), save' = [save EXCEPT ![a].at = "over"],
           UNCHANGED <<settings, reader, keyLock, outdated, crossed, wronged>>
    PROVE  /\ save' \in [Saves -> Page] /\ LoaderInv' /\ WriterInv' /\ SavePageInv' /\ ~wronged'
           /\ HalfWay => HalfWay' \/ save[a].next > 1
<1>1. /\ save' \in [Saves -> Page] /\ save'[a].at = "over" /\ save[a].at = "write"
      /\ \A b \in Saves \ {a} : save'[b] = save[b]
  BY DEF SettingsInv, Typed, Page, Writing
<1>2. \A b \in Saves : Writing(b)' <=> Writing(b) /\ b # a
  BY <1>1 DEF Writing
<1>3. LoaderInv' /\ SavePageInv' /\ ~wronged'
  BY <1>1 DEF SettingsInv, LoaderInv, SavePageInv
<1>4. WriterInv'
  BY <1>1, <1>2 DEF SettingsInv, WriterInv
<1>5. HalfWay => HalfWay' \/ save[a].next > 1
  BY <1>1, <1>2 DEF HalfWay
<1> QED  BY <1>1, <1>3, <1>4, <1>5

LEMMA SaveFailsKeeps == ASSUME SettingsInv, NEW a \in Saves, SaveFails(a) PROVE SettingsInv'
<1>1. /\ Writing(a) /\ save' = [save EXCEPT ![a].at = "over"]
      /\ UNCHANGED <<settings, entry, reader, keyLock, outdated, crossed, lastSaved, wronged>>
      /\ behind' = IF entry # NoEntry /\ save[a].next > 1 THEN "failed update" ELSE behind
      /\ mixed' = (mixed \/ save[a].next > 1)
  BY DEF SaveFails
<1>2. /\ save' \in [Saves -> Page] /\ LoaderInv' /\ WriterInv' /\ SavePageInv' /\ ~wronged'
      /\ HalfWay => HalfWay' \/ save[a].next > 1
  BY <1>1, OverKeeps
<1>3. Typed'
  BY <1>1, <1>2 DEF SettingsInv, Typed
<1>4. EntryInv' /\ WholeInv'
  BY <1>1, <1>2 DEF SettingsInv, EntryInv, WholeInv
<1> QED  BY <1>2, <1>3, <1>4 DEF SettingsInv

LEMMA EndSaveKeeps == ASSUME SettingsInv, NEW a \in Saves, EndSave(a) PROVE SettingsInv'
<1>1. /\ Writing(a) /\ save' = [save EXCEPT ![a].at = "over"] /\ save[a].next > 2
      /\ UNCHANGED <<settings, reader, keyLock, outdated, crossed, wronged>>
      /\ entry' = NoEntry /\ behind' = "no"
      /\ lastSaved' = save[a].values
      /\ mixed' = (a \in crossed)
  BY KnownFacts DEF EndSave, DropEntry, AllWritten
<1>2. /\ save' \in [Saves -> Page] /\ LoaderInv' /\ WriterInv' /\ SavePageInv' /\ ~wronged'
  BY <1>1, OverKeeps
<1>3. save[a] \in Page
  BY <1>1 DEF SettingsInv, Typed, Writing
<1>4. Typed'
  <2>1. save[a].values \in Settings
    BY <1>3 DEF Page
  <2>2. mixed' \in BOOLEAN
    BY <1>1
  <2> QED  BY <1>1, <1>2, <2>1, <2>2 DEF SettingsInv, Typed
<1>5. a \notin crossed => settings = save[a].values
  <2> SUFFICES ASSUME a \notin crossed PROVE settings = save[a].values
    OBVIOUS
  <2>1. settings \in Settings /\ save[a].values \in Settings /\ save[a].next \in Nat
    <3>1. settings \in Settings
      BY DEF SettingsInv, Typed
    <3>2. save[a].values \in Settings /\ save[a].next \in 1..3
      BY <1>3 DEF Page
    <3> QED  BY <3>1, <3>2
  <2>2. \A n \in 1..2 : settings[Known[n]] = save[a].values[Known[n]]
    BY <1>1, <2>1 DEF SettingsInv, WriterInv
  <2>3. \A q \in KnownKeys : settings[q] = save[a].values[q]
    BY <2>2, KnownFacts
  <2> QED  BY <2>1, <2>3 DEF Settings
<1>6. EntryInv' /\ WholeInv'
  BY <1>1, <1>5 DEF EntryInv, WholeInv
<1> QED  BY <1>2, <1>4, <1>6 DEF SettingsInv

(* The steps of the cache. *)

LEMMA LoadKeeps == ASSUME SettingsInv, NEW r \in Loaders, LoadSettings(r) PROVE SettingsInv'
<1>1. /\ r \in Saves => save[r].at = "closed"
      /\ keyLock' = r /\ reader' = [reader EXCEPT ![r] = settings]
      /\ outdated' = outdated \ {r}
      /\ UNCHANGED <<settings, entry, save, behind, mixed, crossed, lastSaved, wronged>>
  BY DEF LoadSettings
<1>2. Typed'
  BY <1>1 DEF SettingsInv, Typed
<1>3. LoaderInv'
  BY <1>1 DEF SettingsInv, LoaderInv, Typed
<1> QED  BY <1>1, <1>2, <1>3
         DEF SettingsInv, EntryInv, WholeInv, HalfWay, Writing, WriterInv, SavePageInv

LEMMA FillKeeps == ASSUME SettingsInv, NEW r \in Loaders, FillEntry(r) PROVE SettingsInv'
<1>1. /\ reader[r] # NoEntry /\ entry' = reader[r] /\ reader[r] \in Settings
      /\ behind' = IF r \in outdated THEN "late fill" ELSE behind
      /\ reader' = [reader EXCEPT ![r] = NoEntry]
      /\ keyLock' = NoEntry
      /\ save' = IF r \in Saves THEN Shown(r, reader[r], r \in outdated) ELSE save
      /\ UNCHANGED <<settings, outdated, mixed, crossed, lastSaved, wronged>>
  BY DEF FillEntry, SettingsInv, Typed
<1>2. r \notin outdated => reader[r] = settings
  BY <1>1 DEF SettingsInv, LoaderInv
<1>3. /\ save' \in [Saves -> Page] /\ SavePageInv' /\ WriterInv' /\ WholeInv'
      /\ \A b \in Saves \ {r} : save'[b] = save[b]
      /\ HalfWay' <=> HalfWay
  <2>1. CASE r \in Saves
    <3> DEFINE old == r \in outdated
               values == reader[r]
    <3>1. save[r].at = "closed"
      BY <1>1, <2>1 DEF SettingsInv, LoaderInv
    <3>2. old \in BOOLEAN
      OBVIOUS
    <3>3. ~old /\ Others(r) = {} => values = settings
      BY <1>2
    <3>4. values \in Settings
      BY <1>1
    <3>5. save' = Shown(r, values, old)
      BY <1>1, <2>1
    <3> HIDE DEF old, values
    <3> QED  BY <1>1, <2>1, <3>1, <3>2, <3>3, <3>4, <3>5, ShownKeeps
  <2>2. CASE r \notin Saves
    BY <1>1, <2>2 DEF SettingsInv, Typed, SavePageInv, WriterInv, WholeInv, HalfWay, Writing
  <2> QED  BY <2>1, <2>2
<1>4. Typed'
  BY <1>1, <1>3 DEF SettingsInv, Typed
<1>5. LoaderInv'
  BY <1>1, <1>3 DEF SettingsInv, LoaderInv, Typed
<1>6. EntryInv'
  BY <1>1, <1>2 DEF EntryInv
<1> QED  BY <1>1, <1>3, <1>4, <1>5, <1>6 DEF SettingsInv

LEMMA SettingsStep == SettingsInv /\ [SettingsNext]_settingsVars => SettingsInv'
<1> SUFFICES ASSUME SettingsInv, [SettingsNext]_settingsVars PROVE SettingsInv'
  OBVIOUS
<1>1. CASE UNCHANGED settingsVars
  BY <1>1 DEF settingsVars, SettingsInv, Typed, LoaderInv, EntryInv, WholeInv, HalfWay, Writing,
              WriterInv, SavePageInv
<1>2. CASE EntryExpires
  BY <1>2 DEF EntryExpires, SettingsInv, Typed, LoaderInv, EntryInv, WholeInv, HalfWay, Writing,
              WriterInv, SavePageInv
<1> QED  BY <1>1, <1>2, OpenPageKeeps, BeginSaveKeeps, UpsertKeeps, SaveFailsKeeps, EndSaveKeeps,
            LoadKeeps, FillKeeps DEF SettingsNext

\* Settings, pages, loads and the cache entry always have their types.
THEOREM SettingsTypeCorrect == SettingsSpec => []SettingsTypeOK
<1>1. SettingsInv => SettingsTypeOK
  <2>1. Len(Known) + 1 = 3
    BY KnownFacts
  <2> QED  BY <2>1 DEF SettingsInv, Typed, Page, SettingsTypeOK
<1> QED  BY SettingsInit_Inv, SettingsStep, <1>1, PTL DEF SettingsSpec

\* However many pages are saved and however loads race them, while no update is
\* running the entry differs from the table only after a late fill or an update
\* that failed half-way.
THEOREM EntryIsStored == SettingsSpec => []ShownAreStored
<1>1. SettingsInv => ShownAreStored
  BY DEF SettingsInv, EntryInv, HalfWay, ShownAreStored, Quiet
<1> QED  BY SettingsInit_Inv, SettingsStep, <1>1, PTL DEF SettingsSpec

\* A save that met no other one is stored as a whole, and no page that shows what
\* is stored sets a setting back.
THEOREM SavesKept == SettingsSpec => []SavesAreKept
<1>1. SettingsInv => SavesAreKept
  BY DEF SettingsInv, WholeInv, HalfWay, SavesAreKept, SavedAsAWhole, FreshPagesUndoNothing, Quiet
<1> QED  BY SettingsInit_Inv, SettingsStep, <1>1, PTL DEF SettingsSpec

-----------------------------------------------------------------------------
(* The index answers for what is published, for any number of contents,    *)
(* containers and searches.                                                *)

\* A container that is past an object of the index has created it.
ObjectsInv == \A b \in Indexers : indexer[b] \in 1..Rebuilding => indexer[b] <= objects + 1

\* Whoever rebuilds the index has created all of its objects.
IndexInv == rebuilt => objects = 4 /\ indexed = text /\ ~damaged

\* What a search is bound to find is there until it answers, and it asks the index
\* for all of it only when a container has rebuilt it.
QueryInv ==
    \A s \in Searches :
        /\ query[s].stage \in {"index", "like"} =>
              \A i \in query[s].must : i \in published /\ text[i] = "match"
        /\ query[s].stage = "index" /\ query[s].whole => rebuilt

SearchInv == SearchTypeOK /\ ObjectsInv /\ IndexInv /\ QueryInv /\ SearchIsComplete

\* A search.
Query == [stage : {"idle", "index", "like", "answered"},
          whole : BOOLEAN, must : SUBSET Items, found : SUBSET Items]

LEMMA SearchInit_Inv == SearchInit => SearchInv
<1> SUFFICES ASSUME SearchInit PROVE SearchInv
  OBVIOUS
<1>1. SearchTypeOK
  <2>1. query \in [Searches -> Query]
    <3>1. NoAnswer \in Query
      BY DEF NoAnswer, Query
    <3> QED  BY <3>1 DEF SearchInit
  <2>2. indexer \in [Indexers -> 1..Serving] /\ objects \in 0..4 /\ edits \in 0..MaxEdits
    BY ContentSearchAssumption DEF SearchInit, Serving
  <2>3. text \in [Items -> Texts] /\ published \subseteq Items /\ indexed \in [Items -> Texts]
    BY DEF SearchInit, Texts
  <2> QED  BY <2>1, <2>2, <2>3 DEF SearchInit, SearchTypeOK, Query
<1> QED  BY <1>1 DEF SearchInit, SearchInv, ObjectsInv, IndexInv, QueryInv, SearchIsComplete,
                    NoAnswer

LEMMA BootKeeps ==
    ASSUME SearchInv, NEW b \in Indexers,
           CreateObject(b) \/ Rebuild(b) \/ IndexingFails(b) \/ Reboot(b)
    PROVE  SearchInv'
<1> USE DEF Rebuilding, Serving
<1>1. UNCHANGED <<text, published, query>>
  BY DEF CreateObject, Rebuild, IndexingFails, Reboot
<1>2. SearchTypeOK'
  <2>1. CASE CreateObject(b)
    <3>1. objects' \in 0..4 /\ indexer' \in [Indexers -> 1..6]
      BY <2>1 DEF CreateObject, SearchInv, SearchTypeOK
    <3> QED  BY <2>1, <3>1 DEF CreateObject, SearchInv, SearchTypeOK
  <2>2. CASE Rebuild(b)
    <3>1. indexer' \in [Indexers -> 1..6]
      BY <2>2 DEF Rebuild, SearchInv, SearchTypeOK
    <3>2. indexed' \in [Items -> Texts] /\ damaged' \in BOOLEAN /\ rebuilt' \in BOOLEAN
      BY <2>2 DEF Rebuild, SearchInv, SearchTypeOK
    <3> QED  BY <2>2, <3>1, <3>2 DEF Rebuild, SearchInv, SearchTypeOK
  <2>3. CASE IndexingFails(b)
    BY <2>3 DEF IndexingFails, SearchInv, SearchTypeOK
  <2>4. CASE Reboot(b)
    <3>1. edits' \in 0..MaxEdits
      BY <2>4, ContentSearchAssumption DEF Reboot, SearchInv, SearchTypeOK
    <3> QED  BY <2>4, <3>1 DEF Reboot, SearchInv, SearchTypeOK
  <2> QED  BY <2>1, <2>2, <2>3, <2>4
<1>3. ObjectsInv'
  BY DEF SearchInv, SearchTypeOK, ObjectsInv, CreateObject, Rebuild, IndexingFails, Reboot
<1>4. IndexInv'
  <2>1. CASE CreateObject(b)
    <3>1. objects = 4 => objects' = 4
      BY <2>1 DEF CreateObject
    <3> QED  BY <2>1, <3>1 DEF CreateObject, SearchInv, IndexInv
  <2>2. CASE Rebuild(b)
    <3>1. objects = 4
      BY <2>2 DEF Rebuild, SearchInv, SearchTypeOK, ObjectsInv
    <3> QED  BY <2>2, <3>1 DEF Rebuild, IndexInv
  <2>3. CASE IndexingFails(b) \/ Reboot(b)
    BY <2>3 DEF IndexingFails, Reboot, SearchInv, IndexInv
  <2> QED  BY <2>1, <2>2, <2>3
<1>5. rebuilt => rebuilt'
  BY DEF CreateObject, Rebuild, IndexingFails, Reboot
<1>6. QueryInv' /\ SearchIsComplete'
  BY <1>1, <1>5 DEF SearchInv, QueryInv, SearchIsComplete
<1> QED  BY <1>2, <1>3, <1>4, <1>6 DEF SearchInv

LEMMA EditKeeps ==
    ASSUME SearchInv, NEW i \in Items, NEW new \in Texts, NEW publish \in BOOLEAN,
           EditItem(i, new, publish)
    PROVE  SearchInv'
<1>1. /\ edits' = edits + 1 /\ edits < MaxEdits
      /\ text' = [text EXCEPT ![i] = new]
      /\ published' = IF publish /\ new # "none" THEN published \cup {i} ELSE published \ {i}
      /\ query' = [s \in Searches |-> [query[s] EXCEPT !.must = @ \ {i}]]
      /\ UNCHANGED <<objects, indexer, rebuilt>>
  BY DEF EditItem
<1>2. \A s \in Searches : query[s] \in Query
  BY DEF SearchInv, SearchTypeOK, Query
<1>3. \A s \in Searches :
         /\ query'[s] \in Query
         /\ query'[s].stage = query[s].stage /\ query'[s].whole = query[s].whole
         /\ query'[s].found = query[s].found /\ query'[s].must = query[s].must \ {i}
  BY <1>1, <1>2 DEF Query
<1>4. /\ indexed' \in [Items -> Texts] /\ damaged' \in BOOLEAN
      /\ objects = 4 => /\ indexed' = [indexed EXCEPT ![i] = new]
                        /\ damaged' = (damaged \/ indexed[i] # text[i])
  <2>1. objects = 4 => TriggerFires(i, new)
    BY DEF TriggerFires
  <2>2. CASE TriggerFires(i, new)
    <3>1. indexed' = [indexed EXCEPT ![i] = new] /\ damaged' = (damaged \/ indexed[i] # text[i])
      BY <2>2 DEF EditItem
    <3>2. damaged' \in BOOLEAN
      BY <3>1 DEF SearchInv, SearchTypeOK
    <3> QED  BY <3>1, <3>2 DEF SearchInv, SearchTypeOK
  <2>3. CASE ~TriggerFires(i, new)
    BY <2>1, <2>3 DEF EditItem, SearchInv, SearchTypeOK
  <2> QED  BY <2>2, <2>3
<1>5. SearchTypeOK'
  <2>1. edits' \in 0..MaxEdits
    BY <1>1, ContentSearchAssumption DEF SearchInv, SearchTypeOK
  <2>2. text' \in [Items -> Texts] /\ published' \subseteq Items
    BY <1>1 DEF SearchInv, SearchTypeOK
  <2>3. query' \in [Searches -> Query]
    BY <1>1, <1>3
  <2> QED  BY <1>1, <1>4, <2>1, <2>2, <2>3 DEF SearchInv, SearchTypeOK, Query
<1>6. ObjectsInv'
  BY <1>1 DEF SearchInv, ObjectsInv
<1>7. IndexInv'
  BY <1>1, <1>4 DEF SearchInv, IndexInv
<1>8. QueryInv'
  <2> SUFFICES ASSUME NEW s \in Searches
               PROVE  /\ query[s].stage \in {"index", "like"} =>
                            \A j \in query[s].must \ {i} : j \in published' /\ text'[j] = "match"
                      /\ query[s].stage = "index" /\ query[s].whole => rebuilt
    BY <1>1, <1>3 DEF QueryInv
  <2>1. \A j \in query[s].must \ {i} : j \in Items
    BY <1>2 DEF Query
  <2> QED  BY <1>1, <2>1 DEF SearchInv, SearchTypeOK, QueryInv
<1>9. SearchIsComplete'
  BY <1>3 DEF SearchInv, SearchIsComplete
<1> QED  BY <1>5, <1>6, <1>7, <1>8, <1>9 DEF SearchInv

LEMMA QueryKeeps ==
    ASSUME SearchInv, NEW s \in Searches,
           BeginSearch(s) \/ SelectIndex(s) \/ FallBack(s) \/ SelectLike(s)
    PROVE  SearchInv'
<1>1. UNCHANGED <<text, published, objects, indexed, damaged, indexer, rebuilt, edits>>
  BY DEF BeginSearch, SelectIndex, FallBack, SelectLike
<1>2. query[s] \in Query /\ query \in [Searches -> Query]
  BY DEF SearchInv, SearchTypeOK, Query
<1>3. ObjectsInv' /\ IndexInv'
  BY <1>1 DEF SearchInv, ObjectsInv, IndexInv
<1>4. ASSUME NEW q \in Query, query' = [query EXCEPT ![s] = q],
             q.stage \in {"index", "like"} => \A i \in q.must : i \in published /\ text[i] = "match",
             q.stage = "index" /\ q.whole => rebuilt,
             q.stage = "answered" /\ q.whole => q.must \subseteq q.found
      PROVE  SearchInv'
  <2>1. query'[s] = q /\ \A t \in Searches \ {s} : query'[t] = query[t]
    BY <1>2, <1>4
  <2>2. QueryInv' /\ SearchIsComplete'
    BY <1>1, <1>4, <2>1 DEF SearchInv, QueryInv, SearchIsComplete
  <2>3. SearchTypeOK'
    BY <1>1, <1>2, <1>4 DEF SearchInv, SearchTypeOK, Query
  <2> QED  BY <1>3, <2>2, <2>3 DEF SearchInv
<1>5. CASE BeginSearch(s)
  <2>1. PICK stage \in {"index", "like"} :
           /\ stage = "index" => objects >= 1
           /\ query' = [query EXCEPT ![s] =
                           [stage |-> stage, whole |-> objects = 0 \/ rebuilt,
                            must |-> {i \in published : text[i] = "match"}, found |-> {}]]
    BY <1>5 DEF BeginSearch, IndexAnswers
  <2> DEFINE q == [stage |-> stage, whole |-> objects = 0 \/ rebuilt,
                   must |-> {i \in published : text[i] = "match"}, found |-> {}]
  <2>2. q \in Query
    BY <2>1 DEF Query, SearchInv, SearchTypeOK
  <2>3. q.stage = "index" /\ q.whole => rebuilt
    BY <2>1 DEF SearchInv, SearchTypeOK
  <2>4. \A i \in q.must : i \in published /\ text[i] = "match"
    OBVIOUS
  <2>5. q.stage # "answered"
    OBVIOUS
  <2>6. query' = [query EXCEPT ![s] = q]
    BY <2>1
  <2> HIDE DEF q
  <2> QED  BY <1>4, <2>2, <2>3, <2>4, <2>5, <2>6
<1>6. CASE SelectIndex(s) \/ SelectLike(s)
  <2>1. PICK rows \in SUBSET Items :
           /\ query' = [query EXCEPT ![s] = [@ EXCEPT !.stage = "answered", !.found = rows]]
           /\ query[s].whole => query[s].must \subseteq rows
    <3>1. CASE SelectIndex(s)
      <4>1. query[s].whole => query[s].must \subseteq Matching \cap published
        <5>1. query[s].stage = "index"
          BY <3>1 DEF SelectIndex
        <5>2. query[s].must \subseteq Items
          BY <1>2 DEF Query
        <5> QED  BY <5>1, <5>2 DEF SearchInv, QueryInv, IndexInv, Matching
      <4> QED  BY <3>1, <4>1 DEF SelectIndex, SearchAnswered, Matching
    <3>2. CASE SelectLike(s)
      <4>1. {i \in published : text[i] = "match"} \in SUBSET Items
        BY DEF SearchInv, SearchTypeOK
      <4>2. query[s].must \subseteq {i \in published : text[i] = "match"}
        BY <3>2 DEF SelectLike, SearchInv, QueryInv
      <4> QED  BY <3>2, <4>1, <4>2 DEF SelectLike, SearchAnswered
    <3> QED  BY <1>6, <3>1, <3>2
  <2> DEFINE q == [query[s] EXCEPT !.stage = "answered", !.found = rows]
  <2>2. /\ q \in Query /\ q.stage = "answered" /\ q.found = rows
        /\ q.must = query[s].must /\ q.whole = query[s].whole
    BY <1>2 DEF Query
  <2>3. query' = [query EXCEPT ![s] = q]
    BY <2>1
  <2> HIDE DEF q
  <2> QED  BY <1>4, <2>1, <2>2, <2>3
<1>7. CASE FallBack(s)
  <2> DEFINE q == [query[s] EXCEPT !.stage = "like"]
  <2>1. q \in Query /\ q.stage = "like" /\ q.must = query[s].must
    BY <1>2 DEF Query
  <2>2. query' = [query EXCEPT ![s] = q]
    BY <1>7 DEF FallBack
  <2>3. \A i \in q.must : i \in published /\ text[i] = "match"
    BY <1>7, <2>1 DEF FallBack, SearchInv, QueryInv
  <2> HIDE DEF q
  <2> QED  BY <1>4, <2>1, <2>2, <2>3
<1> QED  BY <1>5, <1>6, <1>7

LEMMA SearchStep == SearchInv /\ [SearchNext]_searchVars => SearchInv'
<1> SUFFICES ASSUME SearchInv, [SearchNext]_searchVars PROVE SearchInv'
  OBVIOUS
<1>1. CASE UNCHANGED searchVars
  BY <1>1 DEF searchVars, SearchInv, SearchTypeOK, ObjectsInv, IndexInv, QueryInv,
              SearchIsComplete
<1> QED  BY <1>1, BootKeeps, EditKeeps, QueryKeeps DEF SearchNext

\* Contents, the index, containers and searches always have their types.
THEOREM SearchTypeCorrect == SearchSpec => []SearchTypeOK
<1>1. SearchInv => SearchTypeOK
  BY DEF SearchInv
<1> QED  BY SearchInit_Inv, SearchStep, <1>1, PTL DEF SearchSpec

\* Whichever containers create and rebuild the index between edits, it holds what
\* the table holds, and a search that began without it or with all of it misses
\* nothing that was there all along.
THEOREM IndexServes == SearchSpec => []IndexServesSearch
<1>1. SearchInv => IndexServesSearch
  BY DEF SearchInv, IndexInv, IndexServesSearch, IndexFollowsContents
<1> QED  BY SearchInit_Inv, SearchStep, <1>1, PTL DEF SearchSpec

-----------------------------------------------------------------------------
(* The log is true of the directory, for any number of overlapping uploads *)
(* and deletions.                                                          *)

\* An upload that has begun has a file until a deletion unlinks it, and a file
\* that is still a part belongs to an upload that writes or has failed.
FileInv ==
    \A u \in Uploads :
        /\ upload[u] = "start" => file[u] = "none"
        /\ file[u] = "none" => upload[u] \in {"start", "failed"} \/ Unlinked(u)
        /\ file[u] = "part" => upload[u] \in {"writing", "failed"}

\* Only what was there is deleted, and it does not come back.
RemovalInv ==
    \A r \in Removals : removal[r].at # "start" =>
        /\ removal[r].name \in Uploads /\ upload[removal[r].name] # "start"
        /\ removal[r].at # "checked" => file[removal[r].name] = "none"

\* What is on record was done.
AuditInv ==
    \A u \in Uploads :
        /\ <<"uploaded", u>> \in audited <=> upload[u] = "ok"
        /\ <<"deleted", u>> \in audited => Unlinked(u)

MediaInv == MediaTypeOK /\ FileInv /\ RemovalInv /\ AuditInv

LEMMA MediaInit_Inv == MediaInit => MediaInv
BY DEF MediaInit, MediaInv, MediaTypeOK, FileInv, RemovalInv, AuditInv

\* An upload's step leaves every deletion where it is.
LEMMA UploadKeeps ==
    ASSUME MediaInv, NEW u \in Uploads,
           RefuseUpload(u) \/ OpenMedia(u) \/ WriteMedia(u) \/ StatMedia(u) \/ AuditUpload(u)
    PROVE  MediaInv'
<1> USE DEF MediaInv
<1>1. \A v \in Uploads : Unlinked(v)' <=> Unlinked(v)
  BY DEF RefuseUpload, OpenMedia, WriteMedia, StatMedia, AuditUpload, Unlinked
<1>2. CASE RefuseUpload(u)
  BY <1>1, <1>2 DEF RefuseUpload, MediaTypeOK, FileInv, RemovalInv, AuditInv
<1>3. CASE OpenMedia(u)
  <2>1. ~Unlinked(u)
    BY <1>3 DEF OpenMedia, RemovalInv, Unlinked, MediaTypeOK
  <2>2. MediaTypeOK' /\ AuditInv'
    BY <1>1, <1>3 DEF OpenMedia, MediaTypeOK, AuditInv
  <2>3. FileInv'
    BY <1>1, <1>3 DEF OpenMedia, MediaTypeOK, FileInv
  <2>4. RemovalInv'
    BY <1>3 DEF OpenMedia, MediaTypeOK, RemovalInv
  <2> QED  BY <2>2, <2>3, <2>4
<1>4. CASE WriteMedia(u)
  <2>1. MediaTypeOK' /\ AuditInv'
    BY <1>1, <1>4 DEF WriteMedia, Landed, MediaTypeOK, AuditInv
  <2>2. FileInv'
    BY <1>1, <1>4 DEF WriteMedia, Landed, MediaTypeOK, FileInv
  <2>3. RemovalInv'
    BY <1>4 DEF WriteMedia, Landed, MediaTypeOK, RemovalInv
  <2> QED  BY <2>1, <2>2, <2>3
<1>5. CASE StatMedia(u)
  BY <1>1, <1>5 DEF StatMedia, OnDisk, MediaTypeOK, FileInv, RemovalInv, AuditInv
<1>6. CASE AuditUpload(u)
  BY <1>1, <1>6 DEF AuditUpload, MediaTypeOK, FileInv, RemovalInv, AuditInv
<1> QED  BY <1>2, <1>3, <1>4, <1>5, <1>6

LEMMA RemovalKeeps ==
    ASSUME MediaInv, NEW r \in Removals,
           (\E u \in Uploads : FindMedia(r, u)) \/ UnlinkMedia(r) \/ AuditRemoval(r)
    PROVE  MediaInv'
<1> USE DEF MediaInv
<1>1. ASSUME NEW u \in Uploads, FindMedia(r, u) PROVE MediaInv'
  <2>1. \A v \in Uploads : Unlinked(v)' <=> Unlinked(v)
    BY <1>1 DEF FindMedia, Unlinked, MediaTypeOK
  <2>2. MediaTypeOK' /\ AuditInv' /\ FileInv'
    BY <1>1, <2>1 DEF FindMedia, MediaTypeOK, AuditInv, FileInv
  <2>3. RemovalInv'
    BY <1>1 DEF FindMedia, OnDisk, MediaTypeOK, FileInv, RemovalInv
  <2> QED  BY <2>2, <2>3
<1>2. CASE UnlinkMedia(r)
  <2> DEFINE n == removal[r].name
  <2>1. /\ n \in Uploads /\ upload[n] # "start"
        /\ file' = [file EXCEPT ![n] = "none"]
        /\ removal'[r].name = n /\ removal'[r].at = "unlinked"
        /\ \A q \in Removals \ {r} : removal'[q] = removal[q]
        /\ UNCHANGED <<upload, listing, audited>>
    BY <1>2 DEF UnlinkMedia, MediaTypeOK, RemovalInv
  <2>2. Unlinked(n)' /\ \A v \in Uploads : Unlinked(v) => Unlinked(v)'
    BY <1>2, <2>1 DEF UnlinkMedia, Unlinked
  <2>3. MediaTypeOK'
    BY <1>2, <2>1 DEF UnlinkMedia, MediaTypeOK
  <2>4. FileInv'
    BY <2>1, <2>2 DEF MediaTypeOK, FileInv
  <2>5. RemovalInv'
    BY <2>1 DEF MediaTypeOK, RemovalInv
  <2>6. AuditInv'
    BY <2>1, <2>2 DEF AuditInv
  <2> QED  BY <2>3, <2>4, <2>5, <2>6
<1>3. CASE AuditRemoval(r)
  <2>1. /\ removal'[r].name = removal[r].name /\ removal'[r].at \in {"ok", "failed"}
        /\ removal[r].at = "unlinked" /\ removal[r].name \in Uploads
        /\ \A q \in Removals \ {r} : removal'[q] = removal[q]
        /\ UNCHANGED <<file, upload, listing>>
        /\ audited' \in {audited, audited \cup {<<"deleted", removal[r].name>>}}
    BY <1>3 DEF AuditRemoval, MediaTypeOK, RemovalInv
  <2>2. \A v \in Uploads : Unlinked(v)' <=> Unlinked(v)
    BY <2>1 DEF Unlinked
  <2>3. Unlinked(removal[r].name)
    BY <2>1 DEF Unlinked
  <2>4. MediaTypeOK'
    BY <1>3, <2>1 DEF AuditRemoval, MediaTypeOK
  <2>5. FileInv' /\ RemovalInv'
    BY <2>1, <2>2 DEF FileInv, RemovalInv
  <2>6. ASSUME NEW u \in Uploads
        PROVE  /\ <<"uploaded", u>> \in audited' <=> <<"uploaded", u>> \in audited
               /\ <<"deleted", u>> \in audited' => <<"deleted", u>> \in audited \/ u = removal[r].name
    <3>1. <<"uploaded", u>> # <<"deleted", removal[r].name>>
      OBVIOUS
    <3>2. <<"deleted", u>> = <<"deleted", removal[r].name>> => u = removal[r].name
      OBVIOUS
    <3> QED  BY <2>1, <3>1, <3>2
  <2>7. AuditInv'
    BY <2>1, <2>2, <2>3, <2>6 DEF AuditInv
  <2> QED  BY <2>4, <2>5, <2>7
<1> QED  BY <1>1, <1>2, <1>3

LEMMA MediaStep == MediaInv /\ [MediaNext]_mediaVars => MediaInv'
<1> SUFFICES ASSUME MediaInv, [MediaNext]_mediaVars PROVE MediaInv'
  OBVIOUS
<1>1. CASE UNCHANGED mediaVars
  BY <1>1 DEF mediaVars, MediaInv, MediaTypeOK, FileInv, RemovalInv, AuditInv, Unlinked
<1>2. ASSUME NEW l \in Listings,
             ReadDirectory(l) \/ (\E u \in Uploads : StatListed(l, u)) \/ EndListing(l)
      PROVE  MediaInv'
  <2>1. UNCHANGED <<file, upload, removal, audited>>
    BY <1>2 DEF ReadDirectory, StatListed, EndListing
  <2>2. MediaTypeOK'
    BY <1>2 DEF ReadDirectory, StatListed, EndListing, OnDisk, MediaInv, MediaTypeOK
  <2> QED  BY <2>1, <2>2 DEF MediaInv, FileInv, RemovalInv, AuditInv, Unlinked
<1> QED  BY <1>1, <1>2, UploadKeeps, RemovalKeeps DEF MediaNext

\* Files, calls and the log of the media storage always have their types.
THEOREM MediaTypeCorrect == MediaSpec => []MediaTypeOK
<1>1. MediaInv => MediaTypeOK
  BY DEF MediaInv
<1> QED  BY MediaInit_Inv, MediaStep, <1>1, PTL DEF MediaSpec

\* However uploads, deletions and failing audit inserts overlap, what the audit
\* log tells of a file is true of the directory.
THEOREM LogTrue == MediaSpec => []LogTellsTheDirectory
<1>1. MediaInv => LogTellsTheDirectory
  <2> SUFFICES ASSUME MediaInv, NEW u \in Uploads
               PROVE  /\ <<"uploaded", u>> \in audited => file[u] = "whole" \/ Unlinked(u)
                      /\ <<"deleted", u>> \in audited => file[u] = "none"
                      /\ u \in OnDisk /\ <<"uploaded", u>> \notin audited => upload[u] # "ok"
    BY DEF LogTellsTheDirectory
  <2> QED  BY DEF MediaInv, MediaTypeOK, FileInv, RemovalInv, AuditInv, Unlinked
<1> QED  BY MediaInit_Inv, MediaStep, <1>1, PTL DEF MediaSpec
=============================================================================
