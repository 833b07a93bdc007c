------------------------- MODULE UserAccountsProofs -------------------------
(***************************************************************************)
(* Proofs about UserAccounts, for every number of accounts and requests.   *)
(* Each invariant is about rows and about the copies requests work on, and *)
(* is strengthened with what it needs to know of the copies.               *)
(***************************************************************************)
EXTENDS UserAccounts, TLAPS

Known(r) == r \in Requests /\ req[r] # NoRequest

Copy(r) == req[r].row

\* When a request has a copy.
Stages ==
    \A r \in Requests : req[r] # NoRequest =>
        /\ req[r].stage = "fetch" => req[r].op # "create" /\ Copy(r) = NoRow
        /\ req[r].stage = "check" /\ req[r].op # "create" => Copy(r) # NoRow
        /\ req[r].stage = "check" => req[r].op \in {"create", "update"}
        /\ req[r].stage = "store" => Copy(r) # NoRow

TypeInv == TypeOK /\ Stages

Sound(row) == row.tfa => row.secret # NoSecret

SecretInv ==
    /\ \A u \in Users : Exists(u) => Sound(users[u])
    /\ \A r \in Requests : req[r] # NoRequest /\ Copy(r) # NoRow => Sound(Copy(r))

\* Of a row that requires no password change the user is in reset: also of the
\* copies that are not a change of password themselves, and of the ids not yet
\* given out.
ResetInv ==
    /\ \A u \in Users : users[u] = NoRow => u \in reset
    /\ \A u \in Users : Exists(u) /\ ~users[u].must => u \in reset
    /\ \A r \in Requests : req[r] # NoRequest =>
          /\ Copy(r) # NoRow /\ req[r].op \notin {"create", "change"} /\ ~Copy(r).must
                => req[r].uid \in reset
          /\ req[r].op \in UserOps => req[r].by \in reset

\* A row that was never overwritten with an older copy has the highest version
\* of its tokens, and one above those revoked; a copy that is not stale has at
\* least the version of the row.
VersionInv ==
    /\ \A t \in tokens : users[t.uid] # NoRow
    /\ \A t \in tokens : Exists(t.uid) /\ t.uid \notin lost => t.ver <= users[t.uid].ver
    /\ \A t \in revoked : Exists(t.uid) /\ t.uid \notin lost => t.ver < users[t.uid].ver
    /\ \A r \in Requests :
          req[r] # NoRequest /\ Copy(r) # NoRow /\ req[r].op # "create" =>
             /\ users[req[r].uid] # NoRow
             /\ r \notin stale /\ Exists(req[r].uid) =>
                   /\ users[req[r].uid].ver <= Copy(r).ver
                   /\ Revokes(req[r]) => users[req[r].uid].ver < Copy(r).ver

-----------------------------------------------------------------------------
(* What an operation makes of the row it read.                             *)

LEMMA RevokedRow ==
    ASSUME NEW row \in Row
    PROVE  /\ RevokeTokens(row) \in Row
           /\ RevokeTokens(row).ver = row.ver + 1
           /\ RevokeTokens(row).must = row.must
           /\ RevokeTokens(row).tfa = row.tfa
           /\ RevokeTokens(row).secret = row.secret
BY DEF RevokeTokens, Row

LEMMA RenewedRow ==
    ASSUME NEW row \in Row, NEW pwd \in Passwords
    PROVE  /\ NewPassword(row, pwd) \in Row
           /\ NewPassword(row, pwd).ver = row.ver + 1
           /\ NewPassword(row, pwd).must = row.must
           /\ NewPassword(row, pwd).tfa = row.tfa
           /\ NewPassword(row, pwd).secret = row.secret
<1> DEFINE renewed == [row EXCEPT !.pwd = pwd]
<1>1. /\ renewed \in Row /\ renewed.ver = row.ver /\ renewed.must = row.must
      /\ renewed.tfa = row.tfa /\ renewed.secret = row.secret
  BY DEF Row
<1>2. NewPassword(row, pwd) = RevokeTokens(renewed)
  BY DEF NewPassword
<1> HIDE DEF renewed
<1> QED  BY <1>1, <1>2, RevokedRow

LEMMA EditedRow ==
    ASSUME NEW row \in Row, NEW form \in Form
    PROVE  /\ Edited(row, form) \in Row
           /\ Edited(row, form).ver >= row.ver
           /\ form.pwd # NoPassword => Edited(row, form).ver > row.ver
           /\ Edited(row, form).must = row.must
           /\ Edited(row, form).tfa = row.tfa
           /\ Edited(row, form).secret = row.secret
<1> DEFINE named == [row EXCEPT !.name = form.name, !.role = form.role, !.active = form.active]
<1>1. /\ named \in Row
      /\ named.ver = row.ver /\ named.must = row.must /\ named.tfa = row.tfa
      /\ named.secret = row.secret
  BY DEF Row, Form
<1>2. row.ver \in Nat
  BY DEF Row
<1>3. CASE form.pwd = NoPassword
  <2>1. Edited(row, form) = named
    BY <1>3 DEF Edited
  <2> QED  BY <1>1, <1>2, <1>3, <2>1
<1>4. CASE form.pwd # NoPassword
  <2>1. Edited(row, form) = NewPassword(named, form.pwd)
    BY <1>4 DEF Edited
  <2>2. form.pwd \in Passwords
    BY <1>4 DEF Form
  <2> HIDE DEF named
  <2> QED  BY <1>1, <1>2, <2>1, <2>2, RenewedRow
<1> QED  BY <1>3, <1>4

\* Every operation leaves a row of the right type behind, with a version that
\* is not lower, and higher if the operation revokes; nobody gets a second
\* factor without a secret, and only a new password ends the pending change.
LEMMA OutcomeFacts ==
    ASSUME NEW q \in Request, q.op # "create", NEW row \in Row,
           NEW new \in Outcomes(q, row)
    PROVE  /\ new \in Row
           /\ new.ver >= row.ver
           /\ Revokes(q) => new.ver > row.ver
           /\ Sound(row) => Sound(new)
           /\ q.op # "change" => new.must = row.must
<1>1. /\ q.op \in {"change", "logout", "setup", "enable", "disable", "update", "delete"}
      /\ q.form \in Form
  BY DEF Request, AuthOps, UserOps
<1>2. row.ver \in Nat
  BY DEF Row
<1>3. CASE q.op = "change"
  <2>1. PICK p \in Passwords : new = [NewPassword(row, p) EXCEPT !.must = FALSE]
    BY <1>3 DEF Outcomes
  <2>2. /\ new \in Row /\ new.ver = row.ver + 1 /\ new.tfa = row.tfa
        /\ new.secret = row.secret
    <3> DEFINE next == NewPassword(row, p)
    <3>1. /\ next \in Row /\ next.ver = row.ver + 1 /\ next.tfa = row.tfa
          /\ next.secret = row.secret
      BY RenewedRow
    <3>2. new = [next EXCEPT !.must = FALSE]
      BY <2>1
    <3> HIDE DEF next
    <3> QED  BY <3>1, <3>2 DEF Row
  <2> QED  BY <1>2, <1>3, <2>2 DEF Sound
<1>4. CASE q.op = "logout"
  <2>1. new = RevokeTokens(row)
    BY <1>4 DEF Outcomes
  <2> QED  BY <1>2, <1>4, <2>1, RevokedRow DEF Sound
<1>5. CASE q.op = "setup"
  <2>1. PICK s \in Secrets : new = [row EXCEPT !.secret = s]
    BY <1>5 DEF Outcomes
  <2>2. s # NoSecret
    BY UserAccountsAssumption
  <2>3. /\ new \in Row /\ new.ver = row.ver /\ new.secret = s /\ new.must = row.must
    BY <2>1 DEF Row
  <2> QED  BY <1>2, <1>5, <2>2, <2>3 DEF Sound, Revokes
<1>6. CASE q.op = "enable"
  <2>1. /\ new = [row EXCEPT !.tfa = TRUE]
        /\ row.secret # NoSecret
    BY <1>6 DEF Outcomes, CodeFits
  <2>2. /\ new \in Row /\ new.ver = row.ver /\ new.secret = row.secret
        /\ new.must = row.must
    BY <2>1 DEF Row
  <2> QED  BY <1>2, <1>6, <2>1, <2>2 DEF Sound, Revokes
<1>7. CASE q.op = "disable"
  <2>1. new = FactorOff(row)
    BY <1>7 DEF Outcomes
  <2>2. /\ new \in Row /\ new.ver = row.ver /\ new.tfa = FALSE /\ new.must = row.must
    BY <2>1 DEF Row, FactorOff
  <2> QED  BY <1>2, <1>7, <2>2 DEF Sound, Revokes
<1>8. CASE q.op = "update"
  <2>1. new = Edited(row, q.form)
    BY <1>8 DEF Outcomes
  <2> QED  BY <1>1, <1>2, <1>8, <2>1, EditedRow DEF Sound, Revokes
<1>9. CASE q.op = "delete"
  <2>1. new = row
    BY <1>9 DEF Outcomes
  <2> QED  BY <1>2, <1>9, <2>1 DEF Revokes
<1> QED  BY <1>1, <1>3, <1>4, <1>5, <1>6, <1>7, <1>8, <1>9

LEMMA CreatedRow ==
    ASSUME NEW form \in Form, form.pwd # NoPassword
    PROVE  Created(form) \in Row /\ Sound(Created(form))
BY DEF Created, Form, Row, Sound

-----------------------------------------------------------------------------
(* What a step does to the requests.                                       *)


\* Only request r went on, to the stage and the copy given.
Turned(r, stage, row) ==
    /\ req' \in [Requests -> Request \cup {NoRequest}]
    /\ \A s \in Requests \ {r} : req'[s] = req[s]
    /\ req'[r] # NoRequest
    /\ req'[r].op = req[r].op /\ req'[r].by = req[r].by
    /\ req'[r].uid = req[r].uid /\ req'[r].form = req[r].form
    /\ req'[r].stage = stage /\ req'[r].row = row

LEMMA RequestFacts ==
    ASSUME TypeOK, NEW r \in Requests, req[r] # NoRequest
    PROVE  /\ req[r] \in Request
           /\ req[r].op \in AuthOps \cup UserOps
           /\ req[r].by \in Users /\ req[r].uid \in Users
           /\ req[r].form \in Form
           /\ req[r].stage \in {"fetch", "check", "store", "done"}
           /\ Copy(r) \in Row \cup {NoRow}
BY DEF TypeOK, Request, Copy

LEMMA Moved ==
    ASSUME TypeOK, NEW r \in Requests, req[r] # NoRequest,
           NEW stage \in {"fetch", "check", "store", "done"},
           NEW row \in Row \cup {NoRow}, Move(r, stage, row)
    PROVE  Turned(r, stage, row)
<1>1. req \in [Requests -> Request \cup {NoRequest}] /\ req[r] \in Request
  BY DEF TypeOK
<1>2. req' = [req EXCEPT ![r] = [req[r] EXCEPT !.stage = stage, !.row = row]]
  BY <1>1 DEF Move
<1> DEFINE moved == [req[r] EXCEPT !.stage = stage, !.row = row]
<1>3. /\ moved \in Request
      /\ moved.op = req[r].op /\ moved.by = req[r].by /\ moved.uid = req[r].uid
      /\ moved.form = req[r].form /\ moved.stage = stage /\ moved.row = row
  BY <1>1 DEF Request
<1>4. NoRequest \notin Request
  BY UserAccountsAssumption
<1> HIDE DEF moved
<1>5. req' = [req EXCEPT ![r] = moved]
  BY <1>2 DEF moved
<1> QED  BY <1>1, <1>3, <1>4, <1>5 DEF Turned

\* The request a guard lets through has no copy yet.
LEMMA Entered ==
    ASSUME TypeOK, NEW r \in Requests, NEW t \in tokens, NEW op \in AuthOps \cup UserOps,
           NEW u \in Users, NEW form \in Forms, Enter(r, t, op, u, form)
    PROVE  /\ req' \in [Requests -> Request \cup {NoRequest}]
           /\ \A s \in Requests \ {r} : req'[s] = req[s]
           /\ req'[r] # NoRequest
           /\ req'[r].op = op /\ req'[r].by = t.uid /\ req'[r].row = NoRow
           /\ req'[r].stage = IF op = "create" THEN "check" ELSE "fetch"
<1> DEFINE new == [op |-> op, by |-> t.uid, actor |-> users[t.uid].name, uid |-> u,
                   form |-> form, stage |-> IF op = "create" THEN "check" ELSE "fetch",
                   row |-> NoRow]
<1>1. t.uid \in Users /\ users[t.uid] \in Row
  BY DEF TypeOK, Token, Enter, Accepted, Exists
<1>2. users[t.uid].name \in Names
  BY <1>1 DEF Row
<1>3. form \in Form
  BY UserAccountsAssumption
<1>4. new \in Request
  BY <1>1, <1>2, <1>3 DEF Request
<1>5. new # NoRequest
  BY <1>4, UserAccountsAssumption
<1>6. /\ new.op = op /\ new.by = t.uid /\ new.row = NoRow
      /\ new.stage = IF op = "create" THEN "check" ELSE "fetch"
  OBVIOUS
<1>7. req' = [req EXCEPT ![r] = new]
  BY DEF Enter
<1> HIDE DEF new
<1> QED  BY <1>4, <1>5, <1>6, <1>7 DEF TypeOK

\* A request reads the row, and has a copy from then on, or is refused.
LEMMA Fetched ==
    ASSUME TypeInv, NEW r \in Requests, Fetch(r)
    PROVE  \/ Turned(r, "done", NoRow)
           \/ /\ Exists(req[r].uid) /\ users[req[r].uid] \in Row
              /\ \E row \in Row :
                    /\ Turned(r, IF req[r].op = "update" THEN "check" ELSE "store", row)
                    /\ users[req[r].uid].ver <= row.ver
                    /\ Revokes(req[r]) => users[req[r].uid].ver < row.ver
                    /\ Sound(users[req[r].uid]) => Sound(row)
                    /\ req[r].op # "change" => row.must = users[req[r].uid].must
<1>1. req[r] # NoRequest /\ req[r].stage = "fetch" /\ TypeOK
  BY DEF Fetch, TypeInv
<1>2. req[r] \in Request /\ req[r].uid \in Users
  BY <1>1, RequestFacts
<1>3. req[r].op # "create"
  BY <1>1 DEF TypeInv, Stages
<1>4. CASE Move(r, "done", NoRow)
  BY <1>1, <1>4, Moved
<1>5. CASE /\ Exists(req[r].uid)
           /\ \E row \in Outcomes(req[r], users[req[r].uid]) :
                 Move(r, IF req[r].op = "update" THEN "check" ELSE "store", row)
  <2>1. PICK row \in Outcomes(req[r], users[req[r].uid]) :
            Move(r, IF req[r].op = "update" THEN "check" ELSE "store", row)
    BY <1>5
  <2>2. Exists(req[r].uid) /\ users[req[r].uid] \in Row
    BY <1>1, <1>2, <1>5 DEF TypeOK, Exists
  <2>3. /\ row \in Row
        /\ row.ver >= users[req[r].uid].ver
        /\ Revokes(req[r]) => row.ver > users[req[r].uid].ver
        /\ Sound(users[req[r].uid]) => Sound(row)
        /\ req[r].op # "change" => row.must = users[req[r].uid].must
    BY <1>2, <1>3, <2>2, OutcomeFacts
  <2>4. Turned(r, IF req[r].op = "update" THEN "check" ELSE "store", row)
    BY <1>1, <2>1, <2>3, Moved
  <2>5. row.ver \in Nat /\ users[req[r].uid].ver \in Nat
    BY <2>2, <2>3 DEF Row
  <2> QED  BY <2>2, <2>3, <2>4, <2>5
<1> QED  BY <1>4, <1>5 DEF Fetch

\* A name that is free lets the request write what it has, or the new account.
LEMMA Checked ==
    ASSUME TypeInv, NEW r \in Requests, Check(r)
    PROVE  \/ Turned(r, "done", NoRow)
           \/ req[r].op = "update" /\ Copy(r) # NoRow /\ Turned(r, "store", Copy(r))
           \/ /\ req[r].op = "create"
              /\ \E row \in Row : Sound(row) /\ Turned(r, "store", row)
<1>1. req[r] # NoRequest /\ req[r].stage = "check" /\ TypeOK
  BY DEF Check, TypeInv
<1>2. req[r].op \in {"create", "update"} /\ req[r].form \in Form /\ Copy(r) \in Row \cup {NoRow}
  BY <1>1, RequestFacts DEF TypeInv, Stages
<1>3. CASE Move(r, "done", NoRow)
  BY <1>1, <1>3, Moved
<1>4. CASE req[r].op = "update" /\ Move(r, "store", Copy(r))
  <2>1. Copy(r) # NoRow
    BY <1>1, <1>4 DEF TypeInv, Stages
  <2> QED  BY <1>1, <1>2, <1>4, <2>1, Moved
<1>5. CASE /\ req[r].op = "create" /\ req[r].form.pwd # NoPassword
           /\ Move(r, "store", Created(req[r].form))
  <2>1. Created(req[r].form) \in Row /\ Sound(Created(req[r].form))
    BY <1>2, <1>5, CreatedRow
  <2> QED  BY <1>1, <1>5, <2>1, Moved
<1> QED  BY <1>1, <1>2, <1>3, <1>4, <1>5 DEF Check, Copy

\* The last step of a request, whichever it is.
LEMMA Ended ==
    ASSUME TypeOK, NEW r \in Requests, Store(r) \/ Insert(r) \/ Delete(r) \/ StoreFails(r)
    PROVE  req[r] # NoRequest /\ req[r].stage = "store" /\ Turned(r, "done", NoRow)
<1>1. req[r] # NoRequest /\ req[r].stage = "store" /\ Move(r, "done", NoRow)
  BY DEF Store, Insert, Delete, StoreFails
<1> QED  BY <1>1, Moved

-----------------------------------------------------------------------------
(* Type correctness.                                                       *)

\* A step of r that leaves a copy when, and only when, there has to be one.
LEMMA StagesKept ==
    ASSUME Stages, NEW r \in Requests, req[r] # NoRequest,
           NEW stage, NEW row, Turned(r, stage, row),
           stage \in {"check", "store"} => row # NoRow,
           stage # "fetch", stage = "check" => req[r].op = "update"
    PROVE  Stages'
BY DEF Stages, Turned, Copy

LEMMA TypeInit == Init => TypeInv
<1> SUFFICES ASSUME Init PROVE TypeInv
  OBVIOUS
<1>1. users \in [Users -> Row \cup {NoRow, Gone}]
  BY UserAccountsAssumption DEF Init
<1>2. \A u \in Users : Exists(u) => users[u].ver \in Nat
  BY <1>1 DEF Exists, Row
<1>3. tokens \subseteq Token
  BY <1>2 DEF Init, Token
<1> QED  BY <1>1, <1>3 DEF Init, TypeInv, TypeOK, Stages

LEMMA TypeNext == TypeInv /\ [Next]_vars => TypeInv'
<1> SUFFICES ASSUME TypeInv, [Next]_vars PROVE TypeInv'
  OBVIOUS
<1> USE DEF TypeInv
<1>1. ASSUME NEW n \in Names, NEW p \in Passwords, NEW s \in Secrets \cup {NoSecret},
             Login(n, p, s)
      PROVE  TypeInv'
  <2>1. PICK u \in Users : /\ Exists(u)
                           /\ tokens' = tokens \cup {[uid |-> u, ver |-> users[u].ver]}
    BY <1>1 DEF Login
  <2>2. users[u].ver \in Nat
    BY <2>1 DEF TypeOK, Exists, Row
  <2>3. tokens' \subseteq Token
    BY <2>1, <2>2 DEF TypeOK, Token
  <2> QED  BY <1>1, <2>1, <2>3 DEF Login, TypeOK, Stages, Copy
<1>2. ASSUME NEW r \in Requests, NEW t \in tokens, NEW op \in AuthOps \cup UserOps,
             NEW u \in Users, NEW f \in Forms, Enter(r, t, op, u, f)
      PROVE  TypeInv'
  <2>1. Stages'
    BY <1>2, Entered DEF Stages, Copy
  <2> QED  BY <1>2, <2>1, Entered DEF Enter, TypeOK
<1>3. ASSUME NEW r \in Requests, Fetch(r)
      PROVE  TypeInv'
  <2>1. req' \in [Requests -> Request \cup {NoRequest}]
    BY <1>3, Fetched DEF Turned
  <2>2. Stages'
    <3>1. req[r] # NoRequest
      BY <1>3 DEF Fetch
    <3>2. NoRow \notin Row
      BY UserAccountsAssumption
    <3> QED  BY <1>3, <3>1, <3>2, Fetched, StagesKept
  <2> QED  BY <1>3, <2>1, <2>2 DEF Fetch, TypeOK
<1>4. ASSUME NEW r \in Requests, Check(r)
      PROVE  TypeInv'
  <2>1. req' \in [Requests -> Request \cup {NoRequest}]
    BY <1>4, Checked DEF Turned
  <2>2. Stages'
    <3>1. req[r] # NoRequest
      BY <1>4 DEF Check
    <3>2. NoRow \notin Row
      BY UserAccountsAssumption
    <3> QED  BY <1>4, <3>1, <3>2, Checked, StagesKept
  <2> QED  BY <1>4, <2>1, <2>2 DEF Check, TypeOK
<1>5. ASSUME NEW r \in Requests, Store(r) \/ Insert(r) \/ Delete(r) \/ StoreFails(r)
      PROVE  TypeInv'
  <2>1. Turned(r, "done", NoRow) /\ req[r] # NoRequest /\ req[r].stage = "store"
    BY <1>5, Ended
  <2>2. Stages'
    BY <2>1, StagesKept
  <2>3. req' \in [Requests -> Request \cup {NoRequest}]
    BY <2>1 DEF Turned
  <2>4. req[r].uid \in Users /\ Copy(r) \in Row
    BY <2>1, RequestFacts DEF Stages
  <2>5. CASE Store(r)
    <3>1. users' \in [Users -> Row \cup {NoRow, Gone}]
      BY <2>4, <2>5 DEF Store, Written, TypeOK, Copy
    <3>2. [uid |-> req[r].uid, ver |-> Copy(r).ver] \in Token
      BY <2>4 DEF Token, Row
    <3>3. tokens' \subseteq Token /\ revoked' \subseteq tokens'
      BY <2>5, <3>2 DEF Store, TypeOK, Copy
    <3>4. stale' \subseteq Requests /\ lost' \subseteq Users /\ reset' \subseteq Users
      BY <2>4, <2>5 DEF Store, Overwritten, TypeOK
    <3> QED  BY <2>2, <2>3, <3>1, <3>3, <3>4 DEF TypeOK
  <2>6. CASE Insert(r)
    <3>1. users' \in [Users -> Row \cup {NoRow, Gone}]
      BY <2>4, <2>6 DEF Insert, Written, TypeOK, Copy
    <3> QED  BY <2>2, <2>3, <2>6, <3>1 DEF Insert, TypeOK
  <2>7. CASE Delete(r)
    BY <2>2, <2>3, <2>4, <2>7 DEF Delete, Written, TypeOK
  <2>8. CASE StoreFails(r)
    BY <2>2, <2>3, <2>8 DEF StoreFails, TypeOK
  <2> QED  BY <1>5, <2>5, <2>6, <2>7, <2>8
<1>6. CASE UNCHANGED vars
  BY <1>6 DEF vars, TypeOK, Stages, Copy
<1> QED  BY <1>1, <1>2, <1>3, <1>4, <1>5, <1>6 DEF Next, Serve

\* The variables keep their types, and a request that is to write has a copy.
THEOREM TypeCorrect == Spec => []TypeOK
<1>1. TypeInv => TypeOK
  BY DEF TypeInv
<1> QED  BY <1>1, TypeInit, TypeNext, PTL DEF Spec

LEMMA TypeInvariant == Spec => []TypeInv
BY TypeInit, TypeNext, PTL DEF Spec

-----------------------------------------------------------------------------
(* The secret of the second factor.                                        *)

LEMMA SecretNext == TypeInv /\ SecretInv /\ [Next]_vars => SecretInv'
<1> SUFFICES ASSUME TypeInv, SecretInv, [Next]_vars PROVE SecretInv'
  OBVIOUS
<1>1. ASSUME NEW n \in Names, NEW p \in Passwords, NEW s \in Secrets \cup {NoSecret},
             Login(n, p, s)
      PROVE  SecretInv'
  BY <1>1 DEF Login, SecretInv, Exists, Copy
<1>2. ASSUME NEW r \in Requests, NEW t \in tokens, NEW op \in AuthOps \cup UserOps,
             NEW u \in Users, NEW f \in Forms, Enter(r, t, op, u, f)
      PROVE  SecretInv'
  <2>1. UNCHANGED users
    BY <1>2 DEF Enter
  <2> QED  BY <1>2, <2>1, Entered DEF TypeInv, SecretInv, Exists, Copy
<1>3. ASSUME NEW r \in Requests, Fetch(r)
      PROVE  SecretInv'
  <2>1. UNCHANGED users /\ req[r] # NoRequest
    BY <1>3 DEF Fetch
  <2>2. req[r].uid \in Users
    BY <2>1, RequestFacts DEF TypeInv
  <2>3. req'[r].row = NoRow \/ Sound(req'[r].row)
    BY <1>3, <2>2, Fetched DEF Turned, SecretInv
  <2>4. \A s \in Requests \ {r} : req'[s] = req[s]
    BY <1>3, Fetched DEF Turned
  <2> QED  BY <2>1, <2>3, <2>4 DEF SecretInv, Exists, Copy
<1>4. ASSUME NEW r \in Requests, Check(r)
      PROVE  SecretInv'
  <2>1. UNCHANGED users /\ req[r] # NoRequest
    BY <1>4 DEF Check
  <2>2. req'[r].row = NoRow \/ Sound(req'[r].row)
    BY <1>4, <2>1, Checked DEF Turned, SecretInv
  <2>3. \A s \in Requests \ {r} : req'[s] = req[s]
    BY <1>4, Checked DEF Turned
  <2> QED  BY <2>1, <2>2, <2>3 DEF SecretInv, Exists, Copy
<1>5. ASSUME NEW r \in Requests, Store(r) \/ Insert(r) \/ Delete(r) \/ StoreFails(r)
      PROVE  SecretInv'
  <2>1. Turned(r, "done", NoRow) /\ req[r] # NoRequest /\ req[r].stage = "store"
    BY <1>5, Ended DEF TypeInv
  <2>2. Copy(r) # NoRow
    BY <2>1 DEF TypeInv, Stages
  <2>3. Sound(Copy(r))
    BY <2>1, <2>2 DEF SecretInv
  <2>4. \/ UNCHANGED users
        \/ \E u \in Users : users' = [users EXCEPT ![u] = Gone]
        \/ \E u \in Users : users' = [users EXCEPT ![u] = Copy(r)]
    <3>1. req[r].uid \in Users
      BY <2>1, RequestFacts DEF TypeInv
    <3> QED  BY <1>5, <3>1 DEF Store, Insert, Delete, StoreFails, Written, Copy
  <2>5. \A u \in Users : Exists(u)' => Sound(users[u])'
    BY <2>3, <2>4 DEF SecretInv, Exists, Sound, TypeInv, TypeOK
  <2>6. \A s \in Requests : (req[s] # NoRequest /\ Copy(s) # NoRow)' => Sound(Copy(s))'
    BY <2>1 DEF Turned, SecretInv, Sound, Copy
  <2> QED  BY <2>5, <2>6 DEF SecretInv
<1>6. CASE UNCHANGED vars
  BY <1>6 DEF vars, SecretInv, Exists, Copy
<1> QED  BY <1>1, <1>2, <1>3, <1>4, <1>5, <1>6 DEF Next, Serve

\* However set-ups, enablings and disablings of two requests interleave, an
\* account that asks for a code has a secret to check it with.
THEOREM NobodyLockedOut == Spec => []EnabledHasSecret
<1>1. Init => SecretInv
  BY UserAccountsAssumption DEF Init, SecretInv, Exists, Sound
<1>2. SecretInv => EnabledHasSecret
  BY DEF SecretInv, EnabledHasSecret, Sound
<1> QED  BY <1>1, <1>2, TypeInvariant, SecretNext, PTL DEF Spec

-----------------------------------------------------------------------------
(* The pending change of password.                                         *)

LEMMA ResetInit == Init => ResetInv
<1> SUFFICES ASSUME Init PROVE ResetInv
  OBVIOUS
<1>1. users \in [Users -> Row \cup {NoRow}]
  BY UserAccountsAssumption DEF Init
<1>2. \A u \in Users : Exists(u) <=> users[u] # NoRow
  BY <1>1, UserAccountsAssumption DEF Exists
<1> QED  BY <1>1, <1>2 DEF Init, ResetInv

LEMMA ResetNext == TypeInv /\ ResetInv /\ [Next]_vars => ResetInv'
<1> SUFFICES ASSUME TypeInv, ResetInv, [Next]_vars PROVE ResetInv'
  OBVIOUS
<1>1. ASSUME NEW n \in Names, NEW p \in Passwords, NEW s \in Secrets \cup {NoSecret},
             Login(n, p, s)
      PROVE  ResetInv'
  BY <1>1 DEF Login, ResetInv, Exists, Copy
<1>2. ASSUME NEW r \in Requests, NEW t \in tokens, NEW op \in AuthOps \cup UserOps,
             NEW u \in Users, NEW f \in Forms, Enter(r, t, op, u, f)
      PROVE  ResetInv'
  <2>1. UNCHANGED <<users, reset>>
    BY <1>2 DEF Enter
  <2>2. t.uid \in Users /\ Exists(t.uid)
    BY <1>2 DEF Enter, Accepted, TypeInv, TypeOK, Token
  <2>3. op \in UserOps => t.uid \in reset
    BY <1>2, <2>2 DEF Enter, Admitted, ResetInv
  <2>4. /\ \A s \in Requests \ {r} : req'[s] = req[s]
        /\ req'[r].op = op /\ req'[r].by = t.uid /\ req'[r].row = NoRow
    BY <1>2, Entered DEF TypeInv
  <2> QED  BY <2>1, <2>3, <2>4 DEF ResetInv, Exists, Copy
<1>3. ASSUME NEW r \in Requests, Fetch(r)
      PROVE  ResetInv'
  <2>1. UNCHANGED <<users, reset>> /\ req[r] # NoRequest
    BY <1>3 DEF Fetch
  <2>2. req[r].uid \in Users
    BY <2>1, RequestFacts DEF TypeInv
  <2>3. /\ \A s \in Requests \ {r} : req'[s] = req[s]
        /\ req'[r].op = req[r].op /\ req'[r].by = req[r].by /\ req'[r].uid = req[r].uid
    BY <1>3, Fetched DEF Turned
  <2>4. \/ req'[r].row = NoRow \/ req[r].op = "change"
        \/ Exists(req[r].uid) /\ req'[r].row.must = users[req[r].uid].must
    BY <1>3, Fetched DEF Turned
  <2> QED  BY <2>1, <2>2, <2>3, <2>4 DEF ResetInv, Exists, Copy
<1>4. ASSUME NEW r \in Requests, Check(r)
      PROVE  ResetInv'
  <2>1. UNCHANGED <<users, reset>> /\ req[r] # NoRequest
    BY <1>4 DEF Check
  <2>2. /\ \A s \in Requests \ {r} : req'[s] = req[s]
        /\ req'[r].op = req[r].op /\ req'[r].by = req[r].by /\ req'[r].uid = req[r].uid
    BY <1>4, Checked DEF Turned
  <2>3. req'[r].row \in {NoRow, Copy(r)} \/ req[r].op = "create"
    BY <1>4, Checked DEF Turned
  <2> QED  BY <2>1, <2>2, <2>3 DEF ResetInv, Exists, Copy
<1>5. ASSUME NEW r \in Requests, Store(r) \/ Insert(r) \/ Delete(r) \/ StoreFails(r)
      PROVE  ResetInv'
  <2>1. Turned(r, "done", NoRow) /\ req[r] # NoRequest /\ req[r].stage = "store"
    BY <1>5, Ended DEF TypeInv
  <2>2. Copy(r) # NoRow /\ Copy(r) \in Row
    BY <2>1, RequestFacts DEF TypeInv, Stages
  <2>3. req[r].uid \in Users
    BY <2>1, RequestFacts DEF TypeInv
  <2>4. reset \subseteq reset'
    BY <1>5 DEF Store, Insert, Delete, StoreFails
  <2>5. \A s \in Requests : req'[s] # NoRequest =>
            /\ Copy(s)' # NoRow /\ req'[s].op \notin {"create", "change"} /\ ~Copy(s)'.must
                  => req'[s].uid \in reset'
            /\ req'[s].op \in UserOps => req'[s].by \in reset'
    BY <2>1, <2>4 DEF Turned, ResetInv, Copy
  <2>6. /\ \A u \in Users : users'[u] = NoRow => u \in reset'
        /\ \A u \in Users : Exists(u)' /\ ~users'[u].must => u \in reset'
    <3>1. CASE Store(r)
      <4>1. /\ users' = [users EXCEPT ![req[r].uid] = Copy(r)]
            /\ req[r].op # "create"
            /\ req[r].op = "change" => req[r].uid \in reset'
        BY <3>1 DEF Store, Written, Copy
      <4>2. ~Copy(r).must => req[r].uid \in reset'
        BY <2>1, <2>2, <2>4, <4>1 DEF ResetInv
      <4> QED  BY <2>2, <2>3, <2>4, <4>1, <4>2 DEF ResetInv, Exists, TypeInv, TypeOK
    <3>2. CASE Insert(r)
      <4>1. PICK u \in Users : users[u] = NoRow /\ users' = [users EXCEPT ![u] = Copy(r)]
        BY <3>2 DEF Insert, Written, Copy
      <4> QED  BY <2>2, <2>4, <4>1 DEF ResetInv, Exists, TypeInv, TypeOK
    <3>3. CASE Delete(r)
      <4>1. users' = [users EXCEPT ![req[r].uid] = Gone]
        BY <3>3 DEF Delete, Written
      <4>2. Gone # NoRow
        BY UserAccountsAssumption
      <4> QED  BY <2>4, <4>1, <4>2 DEF ResetInv, Exists, TypeInv, TypeOK
    <3>4. CASE StoreFails(r)
      BY <2>4, <3>4 DEF StoreFails, ResetInv, Exists
    <3> QED  BY <1>5, <3>1, <3>2, <3>3, <3>4
  <2> QED  BY <2>5, <2>6 DEF ResetInv
<1>6. CASE UNCHANGED vars
  BY <1>6 DEF vars, ResetInv, Exists, Copy
<1> QED  BY <1>1, <1>2, <1>3, <1>4, <1>5, <1>6 DEF Next, Serve

\* Nobody creates, changes or deletes an account before the change of password
\* that was required of the own one, whatever copies are written meanwhile.
THEOREM ResetComesFirst == Spec => []AdminActsAfterReset
<1>1. ResetInv => AdminActsAfterReset
  BY DEF ResetInv, AdminActsAfterReset
<1> QED  BY <1>1, ResetInit, TypeInvariant, ResetNext, PTL DEF Spec

-----------------------------------------------------------------------------
(* The versions of tokens, rows and copies.                                *)

LEMMA VersionNumbers ==
    ASSUME TypeInv
    PROVE  /\ \A t \in tokens : t.uid \in Users /\ t.ver \in Nat
           /\ \A u \in Users : Exists(u) => users[u] \in Row /\ users[u].ver \in Nat
           /\ \A r \in Requests : req[r] # NoRequest /\ Copy(r) # NoRow => Copy(r).ver \in Nat
<1>1. \A row \in Row : row.ver \in Nat
  BY DEF Row
<1>2. \A r \in Requests : req[r] # NoRequest /\ Copy(r) # NoRow => Copy(r) \in Row
  BY RequestFacts DEF TypeInv
<1> QED  BY <1>1, <1>2 DEF TypeInv, TypeOK, Token, Exists

LEMMA VersionInit == Init => VersionInv
<1> SUFFICES ASSUME Init PROVE VersionInv
  OBVIOUS
<1>1. users \in [Users -> Row \cup {NoRow}]
  BY UserAccountsAssumption DEF Init
<1>2. \A u \in Users : Exists(u) => users[u].ver \in Nat /\ users[u] # NoRow
  BY <1>1 DEF Exists, Row
<1>3. \A t \in tokens : Exists(t.uid) /\ t.uid \in Users /\ t.ver = users[t.uid].ver
  BY DEF Init
<1> QED  BY <1>2, <1>3 DEF Init, VersionInv

LEMMA VersionNext == TypeInv /\ VersionInv /\ [Next]_vars => VersionInv'
<1> SUFFICES ASSUME TypeInv, VersionInv, [Next]_vars PROVE VersionInv'
  OBVIOUS
<1>0. revoked \subseteq tokens
  BY DEF TypeInv, TypeOK
<1>1. ASSUME NEW n \in Names, NEW p \in Passwords, NEW s \in Secrets \cup {NoSecret},
             Login(n, p, s)
      PROVE  VersionInv'
  <2>1. PICK u \in Users : /\ Exists(u)
                           /\ tokens' = tokens \cup {[uid |-> u, ver |-> users[u].ver]}
    BY <1>1 DEF Login
  <2>2. UNCHANGED <<users, req, revoked, stale, lost>>
    BY <1>1 DEF Login
  <2>3. users[u] # NoRow /\ users[u].ver <= users[u].ver
    BY <2>1, VersionNumbers DEF Exists
  <2> QED  BY <2>1, <2>2, <2>3 DEF VersionInv, Exists, Copy, Revokes
<1>2. ASSUME NEW r \in Requests, NEW t \in tokens, NEW op \in AuthOps \cup UserOps,
             NEW u \in Users, NEW f \in Forms, Enter(r, t, op, u, f)
      PROVE  VersionInv'
  <2>1. UNCHANGED <<users, tokens, revoked, stale, lost>>
    BY <1>2 DEF Enter
  <2>2. /\ \A s \in Requests \ {r} : req'[s] = req[s]
        /\ req'[r].row = NoRow
    BY <1>2, Entered DEF TypeInv
  <2> QED  BY <2>1, <2>2 DEF VersionInv, Exists, Copy, Revokes
<1>3. ASSUME NEW r \in Requests, Fetch(r)
      PROVE  VersionInv'
  <2>1. UNCHANGED <<users, tokens, revoked, lost>> /\ req[r] # NoRequest
    BY <1>3 DEF Fetch
  <2>2. stale' = stale \ {r}
    BY <1>3 DEF Fetch
  <2>3. /\ \A s \in Requests \ {r} : req'[s] = req[s]
        /\ req'[r].op = req[r].op /\ req'[r].uid = req[r].uid /\ req'[r].form = req[r].form
    BY <1>3, Fetched DEF Turned
  <2>4. \/ req'[r].row = NoRow
        \/ /\ users[req[r].uid] # NoRow
           /\ users[req[r].uid].ver <= req'[r].row.ver
           /\ Revokes(req[r]) => users[req[r].uid].ver < req'[r].row.ver
    BY <1>3, Fetched DEF Turned, Exists
  <2>5. Revokes(req[r])' <=> Revokes(req[r])
    BY <2>3 DEF Revokes
  <2> QED  BY <2>1, <2>2, <2>3, <2>4, <2>5 DEF VersionInv, Exists, Copy, Revokes
<1>4. ASSUME NEW r \in Requests, Check(r)
      PROVE  VersionInv'
  <2>1. UNCHANGED <<users, tokens, revoked, stale, lost>> /\ req[r] # NoRequest
    BY <1>4 DEF Check
  <2>2. /\ \A s \in Requests \ {r} : req'[s] = req[s]
        /\ req'[r].op = req[r].op /\ req'[r].uid = req[r].uid /\ req'[r].form = req[r].form
    BY <1>4, Checked DEF Turned
  <2>3. req'[r].row \in {NoRow, Copy(r)} \/ req[r].op = "create"
    BY <1>4, Checked DEF Turned
  <2> QED  BY <2>1, <2>2, <2>3 DEF VersionInv, Exists, Copy, Revokes
<1>5. ASSUME NEW r \in Requests, Store(r)
      PROVE  VersionInv'
  <2> DEFINE u == req[r].uid
  <2>1. Turned(r, "done", NoRow) /\ req[r] # NoRequest /\ req[r].stage = "store"
    BY <1>5, Ended DEF TypeInv
  <2>2. Copy(r) # NoRow /\ Copy(r) \in Row /\ u \in Users
    BY <2>1, RequestFacts DEF TypeInv, Stages
  <2>3. /\ req[r].op # "create" /\ Exists(u)
        /\ users' = [users EXCEPT ![u] = Copy(r)]
        /\ stale' = (stale \ {r}) \cup {s \in Requests \ {r} :
                        req[s] # NoRequest /\ req[s].uid = u /\ req[s].row # NoRow}
        /\ lost' = IF r \in stale THEN lost \cup {u} ELSE lost
        /\ revoked' = IF Revokes(req[r]) THEN revoked \cup {t \in tokens : t.uid = u} ELSE revoked
        /\ \/ UNCHANGED tokens
           \/ tokens' = tokens \cup {[uid |-> u, ver |-> Copy(r).ver]}
    BY <1>5 DEF Store, Written, Overwritten, Copy
  <2>4. /\ users' \in [Users -> Row \cup {NoRow, Gone}]
        /\ users'[u] = Copy(r) /\ \A v \in Users \ {u} : users'[v] = users[v]
    BY <2>2, <2>3 DEF TypeInv, TypeOK
  <2>5. \/ u \in lost'
        \/ /\ r \notin stale /\ u \notin lost
           /\ users[u].ver <= Copy(r).ver
           /\ Revokes(req[r]) => users[u].ver < Copy(r).ver
    BY <2>1, <2>2, <2>3 DEF VersionInv
  <2>6. Copy(r).ver \in Nat /\ users[u].ver \in Nat /\ lost \subseteq lost'
    BY <2>1, <2>2, <2>3, VersionNumbers
  <2>7. \A t \in tokens' : users'[t.uid] # NoRow
    BY <2>2, <2>3, <2>4, VersionNumbers DEF VersionInv
  <2>8. \A t \in tokens' : Exists(t.uid)' /\ t.uid \notin lost' => t.ver <= users'[t.uid].ver
    <3> SUFFICES ASSUME NEW t \in tokens', Exists(t.uid)', t.uid \notin lost'
                 PROVE  t.ver <= users'[t.uid].ver
      OBVIOUS
    <3>1. CASE t \in tokens /\ t.uid # u
      BY <2>4, <2>6, <3>1, VersionNumbers DEF VersionInv, Exists
    <3>2. CASE t \in tokens /\ t.uid = u
      <4>1. t.ver <= users[u].ver
        BY <2>3, <2>5, <3>2 DEF VersionInv
      <4> QED  BY <2>4, <2>5, <2>6, <3>2, <4>1, VersionNumbers
    <3>3. CASE t = [uid |-> u, ver |-> Copy(r).ver]
      BY <2>4, <2>6, <3>3
    <3> QED  BY <2>3, <3>1, <3>2, <3>3
  <2>9. \A t \in revoked' : Exists(t.uid)' /\ t.uid \notin lost' => t.ver < users'[t.uid].ver
    <3> SUFFICES ASSUME NEW t \in revoked', Exists(t.uid)', t.uid \notin lost'
                 PROVE  t.ver < users'[t.uid].ver
      OBVIOUS
    <3>1. t \in tokens /\ (t \in revoked \/ (Revokes(req[r]) /\ t.uid = u))
      BY <1>0, <2>3
    <3>2. CASE t.uid # u
      BY <2>4, <2>6, <3>1, <3>2, VersionNumbers DEF VersionInv, Exists
    <3>3. CASE t.uid = u
      <4>1. /\ t.ver <= users[u].ver
            /\ t.ver < users[u].ver \/ Revokes(req[r])
        BY <2>3, <2>5, <3>1, <3>3 DEF VersionInv
      <4> QED  BY <2>4, <2>5, <2>6, <3>1, <3>3, <4>1, VersionNumbers
    <3> QED  BY <3>2, <3>3
  <2>10. ASSUME NEW s \in Requests, req'[s] # NoRequest, Copy(s)' # NoRow,
                req'[s].op # "create"
         PROVE  /\ users'[req'[s].uid] # NoRow
                /\ s \notin stale' /\ Exists(req[s].uid)' =>
                      /\ users'[req'[s].uid].ver <= Copy(s)'.ver
                      /\ Revokes(req[s])' => users'[req'[s].uid].ver < Copy(s)'.ver
    <3>1. s # r /\ req'[s] = req[s]
      BY <2>1, <2>10 DEF Turned, Copy
    <3>2. req[s] # NoRequest /\ Copy(s) # NoRow /\ req[s].op # "create" /\ req[s].uid \in Users
      BY <2>10, <3>1, RequestFacts DEF TypeInv, Copy
    <3>3. CASE req[s].uid = u
      BY <2>2, <2>3, <2>4, <3>1, <3>2, <3>3 DEF Copy
    <3>4. CASE req[s].uid # u
      BY <2>3, <2>4, <3>1, <3>2, <3>4 DEF VersionInv, Exists, Copy, Revokes
    <3> QED  BY <3>3, <3>4
  <2> QED  BY <2>7, <2>8, <2>9, <2>10 DEF VersionInv
<1>6. ASSUME NEW r \in Requests, Insert(r)
      PROVE  VersionInv'
  <2>1. Turned(r, "done", NoRow) /\ req[r] # NoRequest /\ req[r].stage = "store"
    BY <1>6, Ended DEF TypeInv
  <2>2. Copy(r) \in Row /\ Copy(r) # NoRow
    BY <2>1, RequestFacts DEF TypeInv, Stages
  <2>3. PICK u \in Users : users[u] = NoRow /\ users' = [users EXCEPT ![u] = Copy(r)]
    BY <1>6 DEF Insert, Written, Copy
  <2>4. UNCHANGED <<tokens, revoked, stale, lost>>
    BY <1>6 DEF Insert
  <2>5. users'[u] # NoRow /\ \A v \in Users \ {u} : users'[v] = users[v]
    BY <2>2, <2>3 DEF TypeInv, TypeOK
  <2>6. /\ \A t \in tokens : t.uid \in Users \ {u}
        /\ \A s \in Requests : req[s] # NoRequest /\ Copy(s) # NoRow /\ req[s].op # "create" =>
              req[s].uid \in Users \ {u}
    BY <2>3, VersionNumbers, RequestFacts DEF VersionInv, TypeInv
  <2> QED  BY <1>0, <2>1, <2>4, <2>5, <2>6 DEF VersionInv, Exists, Copy, Revokes, Turned
<1>7. ASSUME NEW r \in Requests, Delete(r) \/ StoreFails(r)
      PROVE  VersionInv'
  <2>1. Turned(r, "done", NoRow) /\ req[r] # NoRequest
    BY <1>7, Ended DEF TypeInv
  <2>2. \/ UNCHANGED users
        \/ users' = [users EXCEPT ![req[r].uid] = Gone]
    BY <1>7 DEF Delete, StoreFails, Written
  <2>3. UNCHANGED <<tokens, revoked, stale, lost>>
    BY <1>7 DEF Delete, StoreFails
  <2>4. Gone # NoRow
    BY UserAccountsAssumption
  <2>5. \A v \in Users : users'[v] = users[v] \/ users'[v] = Gone
    BY <2>2 DEF TypeInv, TypeOK
  <2>6. /\ \A t \in tokens : t.uid \in Users
        /\ \A s \in Requests : req[s] # NoRequest => req[s].uid \in Users
    BY VersionNumbers, RequestFacts DEF TypeInv
  <2> QED  BY <1>0, <2>1, <2>3, <2>4, <2>5, <2>6 DEF VersionInv, Exists, Copy, Revokes, Turned
<1>8. CASE UNCHANGED vars
  BY <1>8 DEF vars, VersionInv, Exists, Copy, Revokes
<1> QED  BY <1>1, <1>2, <1>3, <1>4, <1>5, <1>6, <1>7, <1>8 DEF Next, Serve

\* A revoked token is accepted again only after a request wrote back a copy of
\* the row that was older than it: the version of a row never falls otherwise.
THEOREM RevocationHolds == Spec => []RevokedUnlessOverwritten
<1>1. TypeInv /\ VersionInv => RevokedUnlessOverwritten
  <2> SUFFICES ASSUME TypeInv, VersionInv, NEW t \in revoked, Accepted(t), t.uid \notin lost
               PROVE  FALSE
    BY DEF RevokedUnlessOverwritten
  <2>1. t \in tokens /\ Exists(t.uid) /\ t.ver = users[t.uid].ver
    BY DEF Accepted, TypeInv, TypeOK
  <2>2. t.ver < users[t.uid].ver
    BY <2>1 DEF VersionInv
  <2> QED  BY <2>1, <2>2, VersionNumbers
<1> QED  BY <1>1, TypeInvariant, VersionInit, VersionNext, PTL DEF Spec
=============================================================================
