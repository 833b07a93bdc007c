----------------------------- MODULE Container -----------------------------
(***************************************************************************)
(* ServiceContainer.resolve() over the wiring of ApplicationBuilder: the   *)
(* lazy singletons, built under one re-entrant lock by whoever asks first. *)
(* build_app() asks in the order it is written, in the edition and for the *)
(* modules of the process; a process that serves is asked by its requests  *)
(* and event handlers, in many threads.                                    *)
(***************************************************************************)
EXTENDS Naturals, SequencesExt

CONSTANTS Threads, NoThread,
          Builder,    \* the thread that runs build_app
          Processes,  \* what may be started: an edition, and modules of it
          MayRaise    \* keys whose factory may raise

ASSUME ContainerAssumption == NoThread \notin Threads

-----------------------------------------------------------------------------
(* The wiring of the main edition: key -> what its factory resolves. *)

InfrastructureNeeds ==
    [Database |-> {}, Cache |-> {}, Mailer |-> {}, AuthHandler |-> {"TokenManager", "UserRepository"}]
GivenInstances == {"AppSettings", "PasswordHasher", "TokenManager", "EventBus", "ServerHealthChecker"}

Repositories == {"UserRepository", "MenuRepository", "LogRepository", "ContentRepository",
                 "DbConnectionRepository", "SettingRepository", "ContactRepository",
                 "RedirectRepository"}

ServiceNeeds ==
    [AuthService         |-> {"UserRepository", "LogRepository", "PasswordHasher", "TokenManager"},
     UserService         |-> {"Database", "UserRepository", "LogRepository", "PasswordHasher"},
     MenuService         |-> {"MenuRepository", "LogRepository", "Cache"},
     ContentService      |-> {"ContentRepository", "Cache", "LogRepository", "EventBus"},
     SearchService       |-> {"ContentRepository"},
     ContactService      |-> {"ContactRepository", "LogRepository", "EventBus"},
     SiteSettingsService |-> {"SettingRepository", "Cache", "LogRepository"},
     RedirectService     |-> {"RedirectRepository", "Cache", "LogRepository"},
     DashboardService    |-> {"Database", "UserRepository", "LogRepository",
                              "ContentRepository", "Cache"},
     SystemService       |-> {"DbConnectionRepository", "LogRepository",
                              "ServerHealthChecker", "Database"}]

Singletons == DOMAIN InfrastructureNeeds \cup Repositories \cup DOMAIN ServiceNeeds

(* What the community edition registers of it. *)
CommunityRepositories == Repositories \ {"RedirectRepository"}
CommunityServices == DOMAIN ServiceNeeds \ {"RedirectService"}

-----------------------------------------------------------------------------
(* What is resolved, of a process p. *)

\* _register_event_handlers, _initialize_schema, _build_scheduler and then
\* _register_middleware, for the maintenance check.
SchedulerAsks ==
    <<"Database", "Cache", "ServerHealthChecker", "LogRepository", "MenuService", "EventBus">>

StartAsks(p) ==
    <<"EventBus", "Database", "PasswordHasher">>
    \o (IF "scheduler" \in p.modules THEN SchedulerAsks ELSE <<>>)
    \o <<"SiteSettingsService">>

\* _register_controllers, of the modules it was started with.
CommunityControllerAsks(p) ==
    (IF "public" \in p.modules
     THEN <<"MenuService", "ContentService", "SearchService", "ContactService">> ELSE <<>>)
    \o IF "admin" \in p.modules
       THEN <<"AuthHandler", "AuthService", "MenuService", "UserService", "DashboardService",
              "SystemService", "LogRepository", "ContentService", "SiteSettingsService",
              "ContactService">>
       ELSE <<>>

MainControllerAsks(p) ==
    CommunityControllerAsks(p)
    \o IF p.modules \cap {"public", "admin"} # {} THEN <<"RedirectService">> ELSE <<>>

BootAsks(p) ==
    StartAsks(p) \o IF p.edition = "main" THEN MainControllerAsks(p) ELSE CommunityControllerAsks(p)

\* /healthz asks in requests, subscribers in events.
RequestAsks == {"Database"}
CommunityEventAsks == {"Mailer"}
MainEventAsks == {"Mailer", "RedirectService"}

LateAsks(p) == RequestAsks \cup IF p.edition = "main" THEN MainEventAsks ELSE CommunityEventAsks

-----------------------------------------------------------------------------
VARIABLES process,    \* the edition and the modules that were started
          asking,     \* which of BootAsks build_app is at, 0 when it has raised
          made,       \* self._singletons
          factories,  \* self._singleton_factories
          owner,      \* who has the lock
          stack,      \* the keys whose factories it is in, innermost last
          result,     \* result[t]: how its last resolve() ended
          built,      \* built[k]: how many instances were made
          lostKeys,   \* keys whose factory was popped and then raised
          raised      \* keys whose factory raised an error of its own

containerVars == <<process, asking, made, factories, owner, stack, result, built, lostKeys, raised>>

\* What the edition of p registers as singletons.
SingletonsOf(p) ==
    IF p.edition = "main" THEN Singletons
    ELSE DOMAIN InfrastructureNeeds \cup CommunityRepositories \cup CommunityServices

ContainerTypeOK ==
    /\ process \in Processes
    /\ asking \in 0..Len(BootAsks(process)) + 1
    /\ factories \subseteq SingletonsOf(process) /\ lostKeys \subseteq SingletonsOf(process)
    /\ made \subseteq SingletonsOf(process) \cup GivenInstances
    /\ raised \subseteq lostKeys
    /\ owner \in Threads \cup {NoThread}
    /\ stack \in Seq(Singletons)
    /\ result \in [Threads -> {"none", "ok", "unregistered", "raised"}]
    /\ built \in [Singletons -> Nat]

ContainerInit ==
    /\ process \in Processes
    /\ asking = 1
    /\ made = GivenInstances
    /\ factories = SingletonsOf(process)
    /\ owner = NoThread
    /\ stack = <<>>
    /\ result = [t \in Threads |-> "none"]
    /\ built = [k \in Singletons |-> 0]
    /\ lostKeys = {} /\ raised = {}

-----------------------------------------------------------------------------
\* Fault variants, each substituted for the definition named beside it.
KeptUntilBuilt(k) == factories                                        \* Popped

-----------------------------------------------------------------------------
Needs(k) ==
    IF k \in Repositories THEN {"Database"}
    ELSE IF k \in DOMAIN ServiceNeeds THEN ServiceNeeds[k]
    ELSE InfrastructureNeeds[k]

Missing(k) == Needs(k) \ made
Popped(k) == factories \ {k}

Booting == asking <= Len(BootAsks(process))

\* An error of build_app leaves no process; otherwise it goes on.
AskingAfter(outcome) ==
    CASE ~Booting -> asking
      [] Booting /\ outcome = "ok" -> asking + 1
      [] OTHER -> 0

Leave(t, outcome) ==
    /\ owner' = NoThread
    /\ stack' = <<>>
    /\ result' = [result EXCEPT ![t] = outcome]
    /\ asking' = AskingAfter(outcome)
    /\ UNCHANGED process

\* What a thread resolves next.
Asks(t) ==
    CASE asking = 0 -> {}
      [] asking # 0 /\ Booting -> IF t = Builder THEN {BootAsks(process)[asking]} ELSE {}
      [] OTHER -> LateAsks(process)

\* resolve() from outside: the singleton, the start of its factory, or nothing.
Ask(t, k) ==
    /\ owner = NoThread
    /\ IF k \in made \/ k \notin factories
       THEN /\ Leave(t, IF k \in made THEN "ok" ELSE "unregistered")
            /\ UNCHANGED <<made, factories, built, lostKeys, raised>>
       ELSE /\ owner' = t
            /\ stack' = <<k>>
            /\ factories' = Popped(k)
            /\ UNCHANGED <<process, asking, made, result, built, lostKeys, raised>>

\* The innermost factory resolves what it still needs, by re-entering the lock.
ResolveNeed(t) ==
    LET k == Last(stack) IN
    /\ owner = t
    /\ \E n \in Missing(k) :
          IF n \in factories
          THEN /\ stack' = Append(stack, n)
               /\ factories' = Popped(n)
               /\ UNCHANGED <<process, asking, made, owner, result, built, lostKeys, raised>>
          ELSE /\ lostKeys' = lostKeys \cup ToSet(stack)
               /\ Leave(t, "unregistered")
               /\ UNCHANGED <<made, factories, built, raised>>

Construct(t) ==
    LET k == Last(stack) IN
    /\ owner = t
    /\ Missing(k) = {}
    /\ made' = made \cup {k}
    /\ built' = [built EXCEPT ![k] = @ + 1]
    /\ IF Len(stack) = 1 THEN Leave(t, "ok")
       ELSE stack' = Front(stack) /\ UNCHANGED <<process, asking, owner, result>>
    /\ UNCHANGED <<factories, lostKeys, raised>>

\* The exception leaves every factory on the stack, and none is put back.
FactoryRaises(t) ==
    /\ owner = t
    /\ Last(stack) \in MayRaise
    /\ lostKeys' = lostKeys \cup ToSet(stack)
    /\ raised' = raised \cup {Last(stack)}
    /\ Leave(t, "raised")
    /\ UNCHANGED <<made, factories, built>>

ContainerNext ==
    \E t \in Threads :
        \/ \E k \in Asks(t) : Ask(t, k)
        \/ ResolveNeed(t) \/ Construct(t) \/ FactoryRaises(t)

ContainerSpec == ContainerInit /\ [][ContainerNext]_containerVars

-----------------------------------------------------------------------------
\* What either edition resolves, while it is built and when it serves, is
\* registered in that edition: "No registration" is an answer only after some
\* factory raised, for a cycle would run into a popped factory and a service
\* that the edition was cut of into no factory at all.
UnregisteredOnlyAfterFailure ==
    (\E t \in Threads : result[t] = "unregistered") => raised # {}

\* "Lazily constructed, cached after first resolve" (container.py:28): however
\* many threads ask while it is being built, and although factories re-enter
\* the lock, a key is a factory, on the stack of the thread that builds it,
\* built once, or lost for good with a factory that raised.
BuiltOnce ==
    \A k \in SingletonsOf(process) :
        built[k] + (IF k \in factories THEN 1 ELSE 0)
        + (IF k \in ToSet(stack) THEN 1 ELSE 0) + (IF k \in lostKeys THEN 1 ELSE 0) = 1

\* Both: who resolves a key gets the one instance there is, or the failure of
\* some factory.
SingletonsSound == BuiltOnce /\ UnregisteredOnlyAfterFailure
=============================================================================
