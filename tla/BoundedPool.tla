---------------------------- MODULE BoundedPool ----------------------------
(***************************************************************************)
(* What infrastructure/database/manager.py promises of its connection      *)
(* pool, without the lock, the condition variable or the counter: a thread *)
(* that asks for a connection is answered with one nobody else holds, or   *)
(* with a refusal, and at most MaxSize connections are ever open.          *)
(***************************************************************************)
EXTENDS Naturals, FiniteSets

CONSTANTS Threads,   \* the threads of the process that use the database
          Conns,     \* raw driver connections
          NoConn,    \* "holds no connection"
          MaxSize    \* settings.db_pool_size

ASSUME PoolAssumption ==
    /\ IsFiniteSet(Threads)
    /\ IsFiniteSet(Conns)
    /\ NoConn \notin Conns
    /\ MaxSize \in Nat \ {0}

VARIABLES idle,      \* open connections nobody holds
          held,      \* held[t]: the connection thread t holds
          asking     \* threads whose acquire() has not answered yet

absVars == <<idle, held, asking>>

HeldConns == {held[t] : t \in Threads} \ {NoConn}
OpenConns == idle \cup HeldConns

AbsTypeOK ==
    /\ idle \subseteq Conns
    /\ held \in [Threads -> Conns \cup {NoConn}]
    /\ asking \subseteq Threads

AbsInit ==
    /\ idle = {}
    /\ held = [t \in Threads |-> NoConn]
    /\ asking = {}

Ask(t) ==
    /\ t \notin asking
    /\ held[t] = NoConn
    /\ asking' = asking \cup {t}
    /\ UNCHANGED <<idle, held>>

Reuse(t, c) ==
    /\ t \in asking
    /\ c \in idle
    /\ idle' = idle \ {c}
    /\ held' = [held EXCEPT ![t] = c]
    /\ asking' = asking \ {t}

Open(t, c) ==
    /\ t \in asking
    /\ c \in Conns \ OpenConns
    /\ Cardinality(OpenConns) < MaxSize
    /\ held' = [held EXCEPT ![t] = c]
    /\ asking' = asking \ {t}
    /\ UNCHANGED idle

Refuse(t) ==
    /\ t \in asking
    /\ asking' = asking \ {t}
    /\ UNCHANGED <<idle, held>>

Release(t) ==
    /\ held[t] # NoConn
    /\ idle' = idle \cup {held[t]}
    /\ held' = [held EXCEPT ![t] = NoConn]
    /\ UNCHANGED asking

Evict(S) ==
    /\ idle' = idle \ S
    /\ UNCHANGED <<held, asking>>

Answer(t) ==
    \/ \E c \in Conns : Reuse(t, c) \/ Open(t, c)
    \/ Refuse(t)

AbsNext ==
    \/ \E t \in Threads : Ask(t) \/ Answer(t) \/ Release(t)
    \/ \E S \in SUBSET Conns : Evict(S)

AbsSpec == AbsInit /\ [][AbsNext]_absVars
=============================================================================
