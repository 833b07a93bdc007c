----------------------------- MODULE EditForms -----------------------------
(***************************************************************************)
(* Administrators editing one row, of users, menus or contents, with the   *)
(* forms of the admin pages or as clients of the API.  A form holds copies *)
(* of the fields it shows and submits them all; a client may leave out the *)
(* ones with a default.  What is not sent the request fills with that      *)
(* default; what no request has the handler reads before it writes, or     *)
(* fills with its own.                                                     *)
(*                                                                         *)
(* Fields are read and written together and say nothing about one another: *)
(* a behaviour follows one field, and its value is who wrote it.           *)
(* updated_at, which every save writes, is left out.                       *)
(***************************************************************************)
EXTENDS Naturals

CONSTANTS Forms   \* pages and clients an administrator has open

ASSUME FormsAssumption == Forms \cap {"first", "default", "other", "none"} = {}

Resources == {"users", "menus", "contents"}

\* The inputs of the pages' forms, of which the script makes the payload.
UserForm == {"username", "email", "role", "is_active"}
MenuForm == {"title", "url", "area", "position", "is_active"}
ContentForm ==
    {"slug", "title", "summary", "body", "seo_title", "seo_description", "is_published"}
PageFields == [users |-> UserForm, menus |-> MenuForm, contents |-> ContentForm]

\* UserRequest, MenuRequest, ContentRequest.
RequestFields == [PageFields EXCEPT !["menus"] = @ \cup {"parent_id"}]

\* Of these, the ones a client need not send: they have a default.  A password
\* that is not sent is not changed.
Optional ==
    [users |-> {"role", "is_active"},
     menus |-> {"area", "parent_id", "position", "is_active"},
     contents |-> {"summary", "body", "seo_title", "seo_description", "is_published"}]

\* _to_params; "factor" is totp_secret and totp_enabled.
UserRow == UserForm \cup {"password_hash", "token_version", "must_change_password", "factor",
                          "created_at"}
MenuRow == MenuForm \cup {"parent_id", "created_at"}
ContentRow == ContentForm \cup {"created_at"}
RowFields == [users |-> UserRow, menus |-> MenuRow, contents |-> ContentRow]

VARIABLES resource, field,
          value,    \* who wrote the field in the row
          gone,     \* the row has been deleted
          form,     \* form[f]: a form, the request it sends, and its copy of the field
          meant,    \* who last set out to write the field
          undone,   \* since then it was written from a copy that was older than that
          leftOut   \* since then a request that had left it out was written

formVars == <<resource, field, value, gone, form, meant, undone, leftOut>>

Writers == Forms \cup {"first", "default", "other"}
FormRecord == [stage : {"closed", "open", "read", "saved", "not found"},
               client : {"page", "api"}, copy : Writers \cup {"none"},
               typed : BOOLEAN, omits : BOOLEAN, old : BOOLEAN, late : BOOLEAN]
Closed == [stage |-> "closed", client |-> "page", copy |-> "none", typed |-> FALSE,
           omits |-> FALSE, old |-> FALSE, late |-> FALSE]

FormsTypeOK ==
    /\ resource \in Resources /\ field \in RowFields[resource]
    /\ value \in Writers /\ meant \in Writers
    /\ gone \in BOOLEAN /\ undone \in BOOLEAN /\ leftOut \in BOOLEAN
    /\ form \in [Forms -> FormRecord]

FormsInit ==
    /\ resource \in Resources /\ field \in RowFields[resource]
    /\ value = "first" /\ meant = "first"
    /\ gone = FALSE /\ undone = FALSE /\ leftOut = FALSE
    /\ form = [f \in Forms |-> Closed]

-----------------------------------------------------------------------------
\* Fault variants, each substituted for the definition named beside it.
OnlyAccountsRead == IF resource = "users" THEN RowFields["users"] ELSE {} \* ReadFirst

-----------------------------------------------------------------------------
Shows(client) ==
    field \in IF client = "page" THEN PageFields[resource] ELSE RequestFields[resource]

\* _form, or GET and a client.
OpenForm(f, client) ==
    /\ form[f].stage \in {"closed", "saved"} /\ ~gone
    /\ form' = [form EXCEPT ![f] = [Closed EXCEPT
                   !.stage = "open", !.client = client,
                   !.copy = IF Shows(client) THEN value ELSE "none"]]
    /\ UNCHANGED <<resource, field, value, gone, meant, undone, leftOut>>

\* A request of a client without the field.
MayOmit(f) == form[f].client = "api" /\ field \in Optional[resource]

\* A password changes two fields that are not shown.
MayChange(f) ==
    Shows(form[f].client) \/ (resource = "users" /\ field \in {"password_hash", "token_version"})

\* The fields a handler keeps as they are in the database: UserService.update
\* patches the row, ContentService.update takes created_at from it, and a menu
\* item is made of the payload alone.
ReadFirst ==
    CASE resource = "users" -> RowFields["users"]
      [] resource = "contents" -> {"created_at"}
      [] OTHER -> {}

\* What is not in the payload and not read has the default of the dataclass.
CopySent(f, changed) ==
    CASE changed -> f
      [] ~changed /\ Shows(form[f].client) -> form[f].copy
      [] ~changed /\ ~Shows(form[f].client) /\ field \in ReadFirst -> value
      [] OTHER -> "default"

\* PUT: the handler reads the row, if it does.  A form that was refused still has
\* what was typed.
Submit(f, changed, omits) ==
    /\ form[f].stage = "open"
    /\ changed => MayChange(f)
    /\ omits => ~changed /\ MayOmit(f)
    /\ form[f].typed => changed
    /\ IF gone /\ ReadFirst # {}
       THEN form' = [form EXCEPT ![f].stage = "not found"]
       ELSE form' = [form EXCEPT ![f] = [form[f] EXCEPT
                        !.stage = "read", !.typed = changed, !.omits = omits,
                        !.copy = CopySent(f, changed)]]
    /\ UNCHANGED <<resource, field, value, gone, meant, undone, leftOut>>

\* A value that is invalid or taken: the form stays, with a message.
Refuse(f) ==
    /\ form[f].stage = "read"
    /\ IF Shows(form[f].client)
       THEN form' = [form EXCEPT ![f] = [form[f] EXCEPT !.stage = "open", !.omits = FALSE]]
       ELSE form' = [form EXCEPT ![f] = [form[f] EXCEPT
                        !.stage = "open", !.old = FALSE, !.copy = "none"]]
    /\ UNCHANGED <<resource, field, value, gone, meant, undone, leftOut>>

\* Whoever holds a copy when someone sets out to write the field holds an old one.
Aged(writer) ==
    [g \in Forms |-> IF g # writer /\ form[g].stage \in {"open", "read"} /\ form[g].copy # "none"
                     THEN [form[g] EXCEPT !.old = TRUE] ELSE form[g]]

\* UPDATE ... WHERE id: "not found" if it affects no row.
RowHit == ~gone

Write(f) ==
    /\ form[f].stage = "read"
    /\ IF RowHit
       THEN /\ value' = IF gone THEN value ELSE IF form[f].omits THEN "default" ELSE form[f].copy
            /\ IF form[f].typed
               THEN meant' = f /\ undone' = FALSE /\ leftOut' = FALSE
               ELSE /\ meant' = meant
                    /\ undone' = (undone \/ (form[f].old /\ ~form[f].omits))
                    /\ leftOut' = (leftOut \/ form[f].omits)
            /\ form' = [(IF form[f].typed THEN Aged(f) ELSE form) EXCEPT
                           ![f] = [Closed EXCEPT !.stage = "saved", !.late = form[f].late]]
       ELSE /\ form' = [form EXCEPT ![f].stage = "not found"]
            /\ UNCHANGED <<value, meant, undone, leftOut>>
    /\ UNCHANGED <<resource, field, gone>>

\* Logins, the account page and its second factor write what no form shows.
WriteHidden ==
    /\ resource = "users" /\ ~gone
    /\ field \in {"password_hash", "token_version", "must_change_password", "factor"}
    /\ value' = "other" /\ meant' = "other"
    /\ undone' = FALSE /\ leftOut' = FALSE
    /\ form' = Aged("other")
    /\ UNCHANGED <<resource, field, gone>>

\* The Delete button of any form.
DeleteShown ==
    /\ ~gone /\ gone' = TRUE
    /\ form' = [f \in Forms |-> IF form[f].stage \in {"open", "read"}
                               THEN [form[f] EXCEPT !.late = TRUE] ELSE form[f]]
    /\ UNCHANGED <<resource, field, value, meant, undone, leftOut>>

FormsNext ==
    \/ \E f \in Forms :
          \/ \E client \in {"page", "api"} : OpenForm(f, client)
          \/ \E changed, omits \in BOOLEAN : Submit(f, changed, omits)
          \/ Refuse(f) \/ Write(f)
    \/ WriteHidden \/ DeleteShown

FormsSpec == FormsInit /\ [][FormsNext]_formVars

-----------------------------------------------------------------------------
\* What an administrator, or a login, wrote into a field stays until someone sets
\* out to write that field again, or saves a copy that is older: of what a form
\* shows, one opened before; of what it does not, one read by its handler
\* before.  There are two exceptions, and in both the field goes back to its
\* default, not to another value: a client of the API saves a request without
\* the field (admin_api.py:66-91); and a menu item, which saving it from the page
\* takes out of its parent, and from anywhere makes new (admin_api.py:297-301).
EditsStay ==
    \/ value = meant \/ undone
    \/ leftOut /\ value = "default" /\ field \in Optional[resource]
    \/ resource = "menus" /\ field \in {"parent_id", "created_at"}

\* A save that is reported as one wrote the row: it was not deleted before.
SavedMeansStored == \A f \in Forms : form[f].stage = "saved" => ~form[f].late

\* Both: what an administrator is told was saved is in the row, and stays there.
EditsAreKept == EditsStay /\ SavedMeansStored
=============================================================================
