---------------------------- MODULE HttpRouting ----------------------------
(***************************************************************************)
(* How a request is answered: the middleware stack of core/middleware.py,  *)
(* the routes each controller registers and the order in which             *)
(* ApplicationBuilder mounts them, the guards in front of the handlers and *)
(* the error handlers behind them.                                         *)
(*                                                                         *)
(* A path is the sequence of its segments; "{n}" and "{s}" stand for a     *)
(* parameter that must be a number, or any segment.  What a handler does   *)
(* is the subject of the other modules: here it succeeds, raises one of    *)
(* the framework's errors, or crashes.                                     *)
(***************************************************************************)
EXTENDS Naturals, SequencesExt

CONSTANTS Deployments,   \* sets of modules a process may be started with
          PluginRows,    \* what the plugins mount
          PrefixedSlugs, \* slugs of pages that begin with "admin" or "healthz"
          OtherPaths     \* paths nobody registered

Methods == {"GET", "POST", "PUT", "DELETE"}

ASSUME RoutingAssumption ==
    /\ {"public", "admin", "scheduler"} \in Deployments
    /\ PluginRows \in Seq(Methods \X Seq(STRING))
    /\ OtherPaths \subseteq Seq(STRING)

VARIABLES edition,       \* main, or the community edition cut from it
          modules,       \* settings.modules of this process
          maintenance,   \* the maintenance_mode setting
          account,       \* the row behind the caller's token
          request        \* the request and its answer

routingVars == <<edition, modules, maintenance, account, request>>

-----------------------------------------------------------------------------
(* The routes.  A row is <<method, path below the prefix>>. *)

Mount(prefix, access, routes) ==
    [k \in DOMAIN routes |->
        [method |-> routes[k][1], path |-> prefix \o routes[k][2], access |-> access]]

Pages(names) == [k \in DOMAIN names |-> <<"GET", <<names[k]>>>>]

\* FastAPI's own routes and the probe come before every controller.
FrameworkRoutes ==
    Mount(<<>>, "open", Pages(<<"openapi.json", "redoc">>))
HealthRoutes == Mount(<<>>, "open", Pages(<<"healthz">>))

PublicWebRoutes == Mount(<<>>, "open",
    <<<<"GET", <<>>>>>>
    \o Pages(<<"about", "introduction", "contact", "privacy-policy", "terms",
               "editorial-policy", "sitemap", "search", "rss", "sitemap.xml", "robots.txt">>))

PublicApiRoutes == Mount(<<"api", "public">>, "open",
    <<<<"GET", <<"menus">>>>, <<"GET", <<"content", "{s}">>>>, <<"GET", <<"search">>>>,
      <<"GET", <<"sitemap">>>>, <<"POST", <<"contact">>>>>>)

\* What the export of the community edition cuts out of a controller.
MainOnly(e, routes) == IF e = "main" THEN routes ELSE <<>>

AdminWebRoutes(e) ==
    Mount(<<"admin">>, "open", Pages(<<"login">>))
    \o Mount(<<"admin">>, "pending page", Pages(<<"change-password">>))
    \o Mount(<<"admin">>, "page", <<<<"GET", <<>>>>>>
         \o Pages(<<"dashboard", "users", "menus", "contents", "messages", "jobs",
                    "settings", "logs", "db-connections">>)
         \o MainOnly(e, Pages(<<"redirects">>)))

\* logout calls the guard itself and answers the same whatever it says.
AdminAuthRoutes(e) ==
    Mount(<<"api", "admin", "auth">>, "open", <<<<"POST", <<"login">>>>, <<"POST", <<"logout">>>>>>)
    \o Mount(<<"api", "admin", "auth">>, "auth",
         MainOnly(e, <<<<"POST", <<"2fa", "setup">>>>, <<"POST", <<"2fa", "enable">>>>,
                       <<"POST", <<"2fa", "disable">>>>>>)
         \o <<<<"POST", <<"change-password">>>>, <<"GET", <<"me">>>>>>)

AdminUserRoutes(e) == Mount(<<"api", "admin", "users">>, "admin",
    <<<<"GET", <<>>>>>> \o MainOnly(e, <<<<"GET", <<"export">>>>>>)
    \o <<<<"GET", <<"{n}">>>>, <<"POST", <<>>>>, <<"PUT", <<"{n}">>>>, <<"DELETE", <<"{n}">>>>>>)

AdminMenuRoutes == Mount(<<"api", "admin", "menus">>, "admin",
    <<<<"GET", <<>>>>, <<"POST", <<>>>>, <<"PUT", <<"{n}">>>>, <<"DELETE", <<"{n}">>>>>>)

AdminContentRoutes == Mount(<<"api", "admin", "contents">>, "admin",
    <<<<"GET", <<>>>>, <<"GET", <<"{n}">>>>, <<"POST", <<>>>>, <<"PUT", <<"{n}">>>>,
      <<"DELETE", <<"{n}">>>>>>)

AdminContactRoutes(e) == Mount(<<"api", "admin", "messages">>, "admin",
    <<<<"GET", <<>>>>, <<"POST", <<"{n}", "read">>>>, <<"DELETE", <<"{n}">>>>>>
    \o MainOnly(e, <<<<"GET", <<"export">>>>>>))

AdminLogRoutes(e) == Mount(<<"api", "admin", "logs">>, "admin",
    <<<<"GET", <<>>>>>> \o MainOnly(e, <<<<"GET", <<"export">>>>>>))

AdminDashboardRoutes == Mount(<<"api", "admin", "dashboard">>, "admin", Pages(<<"metrics">>))

AdminSettingsRoutes == Mount(<<"api", "admin", "settings">>, "admin",
    <<<<"GET", <<>>>>, <<"PUT", <<>>>>>>)

AdminSystemRoutes == Mount(<<"api", "admin", "system">>, "admin",
    <<<<"GET", <<"health">>>>, <<"GET", <<"jobs">>>>, <<"POST", <<"jobs", "{s}", "run">>>>,
      <<"GET", <<"db-connections">>>>, <<"POST", <<"db-connections">>>>,
      <<"DELETE", <<"db-connections", "{n}">>>>>>)

AdminRedirectRoutes(e) == Mount(<<"api", "admin", "redirects">>, "admin",
    MainOnly(e, <<<<"GET", <<>>>>, <<"POST", <<>>>>, <<"DELETE", <<"{n}">>>>>>))

AdminApiRoutes(e) ==
    AdminAuthRoutes(e) \o AdminUserRoutes(e) \o AdminMenuRoutes \o AdminContentRoutes
    \o AdminContactRoutes(e) \o AdminLogRoutes(e) \o AdminDashboardRoutes
    \o AdminSettingsRoutes \o AdminSystemRoutes \o AdminRedirectRoutes(e)

DynamicRoutes == Mount(<<>>, "open", Pages(<<"{s}">>))

PluginRoutes == Mount(<<>>, "open", PluginRows)

When(module, mods, routes) == IF module \in mods THEN routes ELSE <<>>

-----------------------------------------------------------------------------
\* Fault variants, each substituted for the definition named beside it.
CatchAllEarly(e, mods) ==                                             \* Routes
    FrameworkRoutes \o When("public", mods, PublicWebRoutes \o PublicApiRoutes \o DynamicRoutes)
    \o HealthRoutes \o When("admin", mods, AdminWebRoutes(e) \o AdminApiRoutes(e)) \o PluginRoutes
PageForAnyAdmin(acc) == "ok"                                         \* PageGate

-----------------------------------------------------------------------------
(* Routing. *)

\* build_app and _register_controllers: the first route that fits wins.
BuiltInRoutes(e, mods) ==
    FrameworkRoutes \o HealthRoutes
    \o When("public", mods, PublicWebRoutes \o PublicApiRoutes)
    \o When("admin", mods, AdminWebRoutes(e) \o AdminApiRoutes(e))

Routes(e, mods) ==
    BuiltInRoutes(e, mods) \o PluginRoutes \o When("public", mods, DynamicRoutes)

AllRoutes == Routes("main", {"public", "admin", "scheduler"})

Fits(path, pattern) ==
    /\ Len(path) = Len(pattern)
    /\ \A k \in DOMAIN path : pattern[k] \in {path[k], "{n}", "{s}"}

\* "x" stands for a segment that is no number and that nothing is named by.
Malformed(path, pattern) == \E k \in DOMAIN path : pattern[k] = "{n}" /\ path[k] # "7"

\* A path for a pattern, with a value for its parameter if it has one.
Filled(pattern, with) ==
    [k \in DOMAIN pattern |-> IF pattern[k] \in {"{n}", "{s}"} THEN with ELSE pattern[k]]

RequestPaths ==
    {Filled(r.path, with) : r \in ToSet(AllRoutes), with \in {"7", "x"}} \cup OtherPaths

NoRoute == [method |-> "", path |-> <<>>, access |-> "missing"]
WrongMethod == [method |-> "", path |-> <<>>, access |-> "method"]

Dispatch(e, mods, method, path) ==
    LET table == Routes(e, mods)
        fitting == {k \in DOMAIN table : Fits(path, table[k].path)}
        full == {k \in fitting : table[k].method = method}
    IN  CASE full # {} -> table[CHOOSE k \in full : \A j \in full : k <= j]
          [] full = {} /\ fitting # {} -> WrongMethod
          [] OTHER -> NoRoute

IsApi(path) == Len(path) > 1 /\ path[1] = "api"
Exempt(path) ==
    /\ path # <<>>
    /\ \/ path[1] \in {"admin", "healthz"} \cup PrefixedSlugs
       \/ Len(path) > 1 /\ path[1] = "api" /\ path[2] = "admin"

-----------------------------------------------------------------------------
(* Guards. *)

Account == [accepted : BOOLEAN, role : {"admin", "viewer"}, must : BOOLEAN]

\* RoleGuard: authenticate_request, has_role, the pending password change.
ApiGate(acc, enforce) ==
    CASE ~acc.accepted -> "unauthenticated"
      [] acc.accepted /\ acc.role # "admin" -> "forbidden"
      [] acc.accepted /\ acc.role = "admin" /\ enforce /\ acc.must -> "forbidden"
      [] OTHER -> "ok"

PageGate(acc) == IF acc.must THEN "to change-password" ELSE "ok"

\* _add_protected_route: whoever is no administrator is sent to the login page.
Gate(access, acc) ==
    CASE access = "open" -> "ok"
      [] access = "auth" -> ApiGate(acc, FALSE)
      [] access = "admin" -> ApiGate(acc, TRUE)
      [] access \in {"page", "pending page"} ->
            IF ApiGate(acc, FALSE) # "ok" THEN "to login"
            ELSE IF access = "page" THEN PageGate(acc) ELSE "ok"
      [] OTHER -> access

\* framework_error_handler, http_exception_handler, validation_error_handler.
ErrorForm(path, error) ==
    IF IsApi(path) \/ error = "invalid" THEN "envelope" ELSE "html"

-----------------------------------------------------------------------------
(* A request on its way down the stack and back. *)

Request == [method : Methods, path : RequestPaths,
            stage : {"limits", "maintenance", "routing", "handler", "answered"},
            route : ToSet(AllRoutes) \cup {NoRoute, WrongMethod},
            answer : {"none", "limited", "maintenance", "ok", "to login", "to change-password",
                      "unauthenticated", "forbidden", "missing", "method", "invalid",
                      "error", "crash"},
            form : {"none", "envelope", "csv", "html", "plain"},
            closed : BOOLEAN]   \* it came during maintenance

RoutingTypeOK ==
    /\ edition \in {"main", "community"}
    /\ modules \in Deployments
    /\ maintenance \in BOOLEAN
    /\ account \in Account
    /\ request \in Request

\* The modules are told apart in the main edition.
RoutingInit ==
    /\ \/ edition = "main" /\ modules \in Deployments
       \/ edition = "community" /\ modules = {"public", "admin", "scheduler"}
    /\ maintenance \in BOOLEAN
    /\ account \in Account
    /\ \E m \in Methods, p \in RequestPaths :
          request = [method |-> m, path |-> p, stage |-> "limits", route |-> NoRoute,
                     answer |-> "none", form |-> "none", closed |-> FALSE]

At(stage) == request.stage = stage /\ UNCHANGED <<edition, modules, maintenance, account>>

Pass(stage) == request' = [request EXCEPT !.stage = stage]

Answered(answer, form) ==
    [request EXCEPT !.stage = "answered", !.answer = answer, !.form = form]

\* An exception that is no FrameworkError leaves through every middleware.
Crash == request' = Answered("crash", "plain")

\* RateLimitMiddleware: /api/, and once more for POST login.
Limit ==
    /\ At("limits")
    /\ \/ Pass("maintenance")
       \/ IsApi(request.path) /\ request' = Answered("limited", "envelope")

\* MaintenanceMiddleware.  Its own read of the setting may fail, outside the
\* handlers of framework errors.
Maintain ==
    /\ At("maintenance")
    /\ \/ /\ Exempt(request.path) \/ ~maintenance
          /\ request' = [request EXCEPT !.stage = "routing", !.closed = maintenance]
       \/ ~Exempt(request.path) /\ maintenance /\ request' = Answered("maintenance", "html")
       \/ ~Exempt(request.path) /\ Crash

\* The router, then the guard, then the parameters.
Route ==
    LET route == Dispatch(edition, modules, request.method, request.path)
        gate == Gate(route.access, account)
        verdict == IF gate = "ok" /\ Malformed(request.path, route.path) THEN "invalid" ELSE gate
    IN
    /\ At("routing")
    /\ request' = [(IF verdict = "ok" THEN [request EXCEPT !.stage = "handler"]
                    ELSE IF verdict \in {"to login", "to change-password"}
                    THEN Answered(verdict, "none")
                    ELSE Answered(verdict, ErrorForm(request.path, verdict)))
                   EXCEPT !.route = route]

Handle ==
    /\ At("handler")
    /\ \/ request' = Answered("ok", IF ~IsApi(request.path) THEN "html"
                                   ELSE IF Last(request.path) = "export" THEN "csv" ELSE "envelope")
       \/ request' = Answered("error", ErrorForm(request.path, "error"))
       \/ Crash

\* An administrator turns maintenance on or off, or changes the account.
Switch == maintenance' = ~maintenance /\ UNCHANGED <<edition, modules, account, request>>
Reassign == \E acc \in Account : account' = acc /\ UNCHANGED <<edition, modules, maintenance, request>>

RoutingNext ==
    \/ request.stage # "answered" /\ (Switch \/ Reassign)
    \/ Limit \/ Maintain \/ Route \/ Handle

RoutingSpec == RoutingInit /\ [][RoutingNext]_routingVars

-----------------------------------------------------------------------------
\* "mounted LAST so every fixed route wins first" (controllers.py:159) and
\* "/healthz must be routed before the public catch-all" (bootstrap.py:135): a
\* path that a controller spells out is never taken for a parameter, and one
\* that a plugin spells out not for that of a page.
FixedRoutesWin ==
    request.route.access \notin {"missing", "method"} =>
        LET builtIn == BuiltInRoutes(edition, modules)
            SpelledOut(table) == {k \in DOMAIN table :
                table[k].method = request.method /\ table[k].path = request.path}
        IN  /\ \A k \in SpelledOut(builtIn) : request.route = builtIn[k]
            /\ SpelledOut(PluginRoutes) # {} => request.route \in ToSet(builtIn \o PluginRoutes)

SparedRoutes == HealthRoutes \o AdminWebRoutes("main") \o AdminApiRoutes("main")
Spared(path) == \E k \in DOMAIN SparedRoutes : Fits(path, SparedRoutes[k].path)

\* "the public site answers 503; the admin area and health probes stay
\* reachable so it can be turned off" (middleware.py:84-85), which the prefixes
\* decide before anything is routed.  A public page whose slug happens to begin
\* with such a prefix stays up with them, and so does what a plugin mounts there.
MaintenanceSparesAdmin ==
    /\ request.answer = "maintenance" => ~Spared(request.path)
    /\ request.closed /\ request.answer = "ok" =>
          \/ Spared(request.path)
          \/ request.path[1] \in PrefixedSlugs
          \/ request.route \in ToSet(PluginRoutes)

\* The pages and the API check the caller with code of their own: an account
\* that is shown a page of the admin area may use every resource behind it,
\* and the other way round, also while its password is to be changed.
PagesAgreeWithApi ==
    Gate("page", account) = "ok" <=> Gate("admin", account) = "ok"

\* "JSON envelope for API paths" (bootstrap.py:359): a client of the API that
\* gets an answer without one has met maintenance mode, or a crash.
ApiAnswersInEnvelope ==
    request.stage = "answered" /\ IsApi(request.path) /\ request.form \notin {"envelope", "csv"} =>
        request.answer \in {"maintenance", "crash"}

\* All three of the answer to a request: the route that gives it, whether
\* maintenance mode does, and its form.
AnsweredAsPromised == FixedRoutesWin /\ MaintenanceSparesAdmin /\ ApiAnswersInEnvelope
=============================================================================
