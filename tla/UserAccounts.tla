---------------------------- MODULE UserAccounts ----------------------------
(***************************************************************************)
(* Accounts, tokens and two-factor login: AuthService, UserService,        *)
(* TokenAuthHandler with RoleGuard, and the endpoints of AdminAuthApi-     *)
(* Controller and AdminUserApiController.                                  *)
(*                                                                         *)
(* Requests run in worker threads.  Each statement of the database is an   *)
(* action of its own, and between two statements other requests run.       *)
(* UserRepository.update() writes every column of the row as it was read.  *)
(* A token is the pair of the user and the version it embeds; its expiry   *)
(* and signature are left out, as are the audit rows.  A one-time code is  *)
(* named by the secret it was computed from.                               *)
(***************************************************************************)
EXTENDS Naturals

CONSTANTS Users, Requests, Names, Passwords, Secrets,
          NoRow,       \* an id not given out yet
          Gone,        \* the id of a deleted row
          NoSecret, NoPassword, NoRequest,
          FirstRows,   \* the rows the requests start from
          Forms        \* the UserInput values that are submitted

Roles == {"admin", "viewer"}
Row == [name : Names, pwd : Passwords, role : Roles, active : BOOLEAN, ver : Nat,
        must : BOOLEAN, secret : Secrets \cup {NoSecret}, tfa : BOOLEAN]
Form == [name : Names, pwd : Passwords \cup {NoPassword}, role : Roles, active : BOOLEAN]
Token == [uid : Users, ver : Nat]

AuthOps == {"change", "logout", "setup", "enable", "disable"}
UserOps == {"create", "update", "delete"}

Request == [op : AuthOps \cup UserOps,
            by : Users,                      \* the principal
            actor : Names,                   \* its name, as _actor_name read it
            uid : Users,                     \* the row the request is about
            form : Form,
            stage : {"fetch", "check", "store", "done"},
            row : Row \cup {NoRow}]          \* the copy this request works on

ASSUME UserAccountsAssumption ==
    /\ FirstRows \subseteq [Users -> Row \cup {NoRow}]
    /\ Forms \subseteq Form
    /\ NoRow \notin Row /\ Gone \notin Row /\ Gone # NoRow /\ NoSecret \notin Secrets
    /\ NoRequest \notin Request
    /\ \A rows \in FirstRows, u \in Users :
          rows[u] # NoRow /\ rows[u].tfa => rows[u].secret # NoSecret

VARIABLES users,    \* the table
          tokens,   \* every token issued
          req,      \* req[r]: the request r serves, or NoRequest
          revoked,  \* tokens that a revocation should have ended
          stale,    \* requests whose copy is older than the row
          lost,     \* users whose row was overwritten with an older copy
          reset     \* users who have no password change pending, or had one done

vars == <<users, tokens, req, revoked, stale, lost, reset>>

TypeOK ==
    /\ users \in [Users -> Row \cup {NoRow, Gone}]
    /\ tokens \subseteq Token
    /\ req \in [Requests -> Request \cup {NoRequest}]
    /\ revoked \subseteq tokens
    /\ stale \subseteq Requests
    /\ lost \subseteq Users
    /\ reset \subseteq Users

Exists(u) == users[u] \notin {NoRow, Gone}

\* Every active user has logged in once.
Init ==
    /\ users \in FirstRows
    /\ tokens = {[uid |-> u, ver |-> users[u].ver] :
                    u \in {v \in Users : Exists(v) /\ users[v].active}}
    /\ req = [r \in Requests |-> NoRequest]
    /\ revoked = {}
    /\ stale = {}
    /\ lost = {}
    /\ reset = {u \in Users : ~Exists(u) \/ ~users[u].must}

-----------------------------------------------------------------------------
\* Fault variants, each substituted for the definition named beside it.
VersionKept(row) == row                                              \* RevokeTokens
SecretOnly(row) == [row EXCEPT !.secret = NoSecret]                  \* FactorOff
GateOpen(op, row) == row.role = "admin"                              \* Admitted

-----------------------------------------------------------------------------
(* Authentication. *)

\* authenticate_request: the account is active and the version is current.
Accepted(t) == Exists(t.uid) /\ users[t.uid].active /\ t.ver = users[t.uid].ver

\* RoleGuard: the auth endpoints stay reachable while a change is pending.
Admitted(op, row) == row.role = "admin" /\ (op \in UserOps => ~row.must)

\* TotpProvider.verify
CodeFits(secret, code) == secret # NoSecret /\ code = secret

Login(name, pwd, code) ==
    /\ \E u \in Users :
          /\ Exists(u) /\ users[u].name = name
          /\ users[u].active /\ users[u].pwd = pwd
          /\ users[u].tfa => CodeFits(users[u].secret, code)
          /\ tokens' = tokens \cup {[uid |-> u, ver |-> users[u].ver]}
    /\ UNCHANGED <<users, req, revoked, stale, lost, reset>>

\* A request gets past its guard.  The endpoints about users also read the name
\* of the actor; the auth endpoints are about the principal's own row.
Enter(r, t, op, u, form) ==
    /\ req[r] = NoRequest
    /\ Accepted(t) /\ Admitted(op, users[t.uid])
    /\ op \in AuthOps => u = t.uid
    /\ req' = [req EXCEPT ![r] =
          [op |-> op, by |-> t.uid, actor |-> users[t.uid].name, uid |-> u, form |-> form,
           stage |-> IF op = "create" THEN "check" ELSE "fetch", row |-> NoRow]]
    /\ UNCHANGED <<users, tokens, revoked, stale, lost, reset>>

-----------------------------------------------------------------------------
(* What each operation makes of the row it read. *)

RevokeTokens(row) == [row EXCEPT !.ver = @ + 1]

NewPassword(row, pwd) == RevokeTokens([row EXCEPT !.pwd = pwd])

FactorOff(row) == [row EXCEPT !.tfa = FALSE, !.secret = NoSecret]

\* UserService.update: only a new password revokes.
Edited(row, form) ==
    LET named == [row EXCEPT !.name = form.name, !.role = form.role, !.active = form.active]
    IN  IF form.pwd = NoPassword THEN named ELSE NewPassword(named, form.pwd)

\* The rows an operation may come to after reading row.
Outcomes(q, row) ==
    CASE q.op = "change"  -> {[NewPassword(row, p) EXCEPT !.must = FALSE] : p \in Passwords \ {row.pwd}}
      [] q.op = "logout"  -> {RevokeTokens(row)}
      [] q.op = "setup"   -> {[row EXCEPT !.secret = s] : s \in Secrets \ {row.secret}}
      [] q.op = "enable"  -> {[row EXCEPT !.tfa = TRUE] : s \in {s \in Secrets : CodeFits(row.secret, s)}}
      [] q.op = "disable" -> {FactorOff(row) : s \in {s \in Secrets : CodeFits(row.secret, s)}}
      [] q.op = "update"  -> {Edited(row, q.form)}
      [] q.op = "delete"  -> IF row.name = q.actor THEN {} ELSE {row}

\* The row is gone, the current password or the code is wrong, or the account
\* is the actor's own.
MayRefuse(q) ==
    \/ ~Exists(q.uid)
    \/ q.op \in {"change", "enable", "disable"}
    \/ q.op = "delete" /\ Exists(q.uid) /\ users[q.uid].name = q.actor

Created(form) ==
    [name |-> form.name, pwd |-> form.pwd, role |-> form.role, active |-> form.active,
     ver |-> 0, must |-> FALSE, secret |-> NoSecret, tfa |-> FALSE]

Move(r, stage, row) ==
    req' = [req EXCEPT ![r].stage = stage, ![r].row = row]

\* get_by_id, the operation's own checks, and the change of the copy.
Fetch(r) ==
    LET q == req[r] IN
    /\ q # NoRequest /\ q.stage = "fetch"
    /\ \/ /\ Exists(q.uid)
          /\ \E row \in Outcomes(q, users[q.uid]) :
                Move(r, IF q.op = "update" THEN "check" ELSE "store", row)
       \/ MayRefuse(q) /\ Move(r, "done", NoRow)
    /\ stale' = stale \ {r}
    /\ UNCHANGED <<users, tokens, revoked, lost, reset>>

\* Username and email are one name here; a row does not collide with itself.
Taken(name, own) == \E v \in Users \ own : Exists(v) /\ users[v].name = name

Own(q) == IF q.op = "create" THEN {} ELSE {q.uid}

\* username_or_email_exists
Check(r) ==
    LET q == req[r] IN
    /\ q # NoRequest /\ q.stage = "check"
    /\ IF Taken(q.form.name, Own(q)) \/ (q.op = "create" /\ q.form.pwd = NoPassword)
       THEN Move(r, "done", NoRow)
       ELSE Move(r, "store", IF q.op = "create" THEN Created(q.form) ELSE q.row)
    /\ UNCHANGED <<users, tokens, revoked, stale, lost, reset>>

-----------------------------------------------------------------------------
(* The write. *)

\* UPDATE users SET <every column> WHERE id = ?
Written(u, row) == users' = [users EXCEPT ![u] = row]

\* Others that hold a copy of u are now behind; r itself may have been.
Overwritten(r, u) ==
    /\ stale' = (stale \ {r}) \cup {s \in Requests \ {r} :
                    req[s] # NoRequest /\ req[s].uid = u /\ req[s].row # NoRow}
    /\ lost' = IF r \in stale THEN lost \cup {u} ELSE lost

Revokes(q) == q.op \in {"change", "logout"} \/ (q.op = "update" /\ q.form.pwd # NoPassword)

\* change_password hands out a token for the row it has just stored, unless
\* the audit insert in between fails.
Store(r) ==
    LET q == req[r] IN
    /\ q # NoRequest /\ q.stage = "store"
    /\ q.op \notin {"create", "delete"}
    /\ Exists(q.uid) /\ ~Taken(q.row.name, Own(q))
    /\ Written(q.uid, q.row)
    /\ Overwritten(r, q.uid)
    /\ revoked' = IF Revokes(q) THEN revoked \cup {t \in tokens : t.uid = q.uid} ELSE revoked
    /\ \/ UNCHANGED tokens
       \/ q.op = "change" /\ tokens' = tokens \cup {[uid |-> q.uid, ver |-> q.row.ver]}
    /\ reset' = IF q.op = "change" THEN reset \cup {q.uid} ELSE reset
    /\ Move(r, "done", NoRow)

\* AUTOINCREMENT: the id was never used before.
Insert(r) ==
    LET q == req[r] IN
    /\ q # NoRequest /\ q.stage = "store" /\ q.op = "create"
    /\ ~Taken(q.row.name, Own(q))
    /\ \E u \in Users : users[u] = NoRow /\ Written(u, q.row)
    /\ Move(r, "done", NoRow)
    /\ UNCHANGED <<tokens, revoked, stale, lost, reset>>

Delete(r) ==
    LET q == req[r] IN
    /\ q # NoRequest /\ q.stage = "store" /\ q.op = "delete"
    /\ Exists(q.uid)
    /\ Written(q.uid, Gone)
    /\ Move(r, "done", NoRow)
    /\ UNCHANGED <<tokens, revoked, stale, lost, reset>>

\* No row has the id any more, another row has the name by now, or the
\* database fails: the statement, or the unit of work it is in, changes nothing.
StoreFails(r) ==
    LET q == req[r] IN
    /\ q # NoRequest /\ q.stage = "store"
    /\ Move(r, "done", NoRow)
    /\ UNCHANGED <<users, tokens, revoked, stale, lost, reset>>

Serve(r) == Fetch(r) \/ Check(r) \/ Store(r) \/ Insert(r) \/ Delete(r) \/ StoreFails(r)

Next ==
    \/ \E n \in Names, p \in Passwords, s \in Secrets \cup {NoSecret} : Login(n, p, s)
    \/ \E r \in Requests, t \in tokens, op \in AuthOps \cup UserOps, u \in Users, f \in Forms :
          Enter(r, t, op, u, f)
    \/ \E r \in Requests : Serve(r)

Spec == Init /\ [][Next]_vars

-----------------------------------------------------------------------------
\* "logout / password change revokes every outstanding token immediately"
\* (infrastructure/auth/manager.py:6): a revoked token is not accepted again.
RevokedStaysRevoked == \A t \in revoked : ~Accepted(t)

\* What the code does guarantee: only a request that wrote back a copy older
\* than the row can bring a revoked token back.
RevokedUnlessOverwritten == \A t \in revoked : Accepted(t) => t.uid \in lost

\* Whole rows are written, so whatever the interleaving, an account that asks
\* for a code has a secret to check it with: nobody is locked out by a race of
\* enable_totp and disable_totp.
EnabledHasSecret == \A u \in Users : Exists(u) /\ users[u].tfa => users[u].secret # NoSecret

\* "must_change_password forces a reset on first login before any other admin
\* action is allowed" (schema.py:251): whoever administers users has changed
\* the password that came with the account.
AdminActsAfterReset ==
    \A r \in Requests : req[r] # NoRequest /\ req[r].op \in UserOps => req[r].by \in reset
=============================================================================
