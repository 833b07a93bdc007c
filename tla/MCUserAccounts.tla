--------------------------- MODULE MCUserAccounts ---------------------------
(* Instances of UserAccounts for TLC.                                      *)
EXTENDS UserAccounts, TLC

Symmetry == Permutations(Requests) \cup Permutations(Secrets)

Account(n, must, secret) ==
    [name |-> n, pwd |-> "initial", role |-> "admin", active |-> TRUE, ver |-> 0,
     must |-> must, secret |-> secret, tfa |-> secret # NoSecret]

\* The seeded administrator, with its password to change or not, another one
\* with or without a second factor, and an id to give out.
TwoAdmins ==
    {[u \in 1..3 |-> CASE u = 1 -> Account("a", must, NoSecret)
                       [] u = 2 -> Account("b", FALSE, secret)
                       [] OTHER -> NoRow] :
        must \in BOOLEAN, secret \in Secrets \cup {NoSecret}}

\* Rename, reset the password, demote, or disable.
SomeForms ==
    {[name |-> "c", pwd |-> NoPassword, role |-> "admin", active |-> TRUE],
     [name |-> "a", pwd |-> "changed", role |-> "viewer", active |-> TRUE],
     [name |-> "a", pwd |-> NoPassword, role |-> "admin", active |-> FALSE]}
=============================================================================
