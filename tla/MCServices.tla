----------------------------- MODULE MCServices -----------------------------
(***************************************************************************)
(* One instance of each of the smaller components, for TLC.  They share no *)
(* variable, so a behaviour is one of the component in focus, and the      *)
(* others stay where they start.                                           *)
(***************************************************************************)
EXTENDS Site, HttpRouting, RateLimiter, Traffic, Boot, Container, DailySchedule, Backups,
        Listing, Contact, SiteSettings, ContentSearch, TimedReads, EditForms, Media,
        TLC

VARIABLE focus

Components == {"site", "routing", "limiter", "traffic", "boot", "container",
               "schedule", "backups", "listing", "contact", "settings", "search",
               "timed", "forms", "media"}

vars == <<focus, siteVars, routingVars, limiterVars, trafficVars, bootVars,
          containerVars, scheduleVars, backupVars, listingVars, contactVars,
          settingsVars, searchVars, timedVars, formVars, mediaVars>>

\* Left by an earlier rename from a to b, or no rule at all.
NoRules == [s \in Slugs |-> "none"]
SomeRules == {NoRules, [NoRules EXCEPT !["a"] = "b"]}

\* A container may be started for one of the modules, or for all of them.
SomeDeployments == {{"public"}, {"admin"}, {"scheduler"}, {"public", "admin", "scheduler"}}
SomeProcesses ==
    {[edition |-> e, modules |-> mods] : e \in {"main", "community"}, mods \in SomeDeployments}
SomeTtls == [menu |-> 2, metrics |-> 1]
\* One of each kind: typed into by pages, with a default or without, by clients
\* only, written behind the forms by the password, by logins, by nobody.
SomeFields ==
    {"title", "body", "parent_id", "is_active", "token_version", "factor", "created_at"}
OnePage == <<<<"GET", <<"shop">>>>>>
SomePaths == {<<"admin-guide">>, <<"api", "none">>, <<"admin", "none">>}

NoPages ==
    pages = [i \in PageIds |-> NoPage] /\ redirects = NoRules

NoRequest ==
    /\ edition = "main" /\ modules = {"public"} /\ maintenance = FALSE
    /\ account = [accepted |-> FALSE, role |-> "viewer", must |-> FALSE]
    /\ request = [method |-> "GET", path |-> <<>>, stage |-> "limits", route |-> NoRoute,
                  answer |-> "none", form |-> "none", closed |-> FALSE]

\* Where a component is not in focus, one of its initial states is enough.
Init ==
    /\ focus \in Components
    /\ SiteInit /\ (focus # "site" => NoPages)
    /\ LimiterInit /\ (focus # "limiter" => key = [c \in Calls |-> CHOOSE k \in Keys : TRUE])
    /\ BootInit /\ (focus # "boot" => tables = {})
    /\ ScheduleInit /\ (focus # "schedule" => shift = 0)
    /\ ContainerInit /\ (focus # "container" =>
            process = [edition |-> "main", modules |-> {"public"}])
    /\ ContactInit /\ (focus # "contact" => \A s \in Submissions : sub[s].trap)
    /\ SearchInit /\ (focus # "search" => published = {})
    /\ FormsInit /\ field \in SomeFields /\ (focus # "forms" => field = "title" /\ resource = "menus")
    /\ TimedInit /\ SettingsInit /\ TrafficInit /\ BackupsInit /\ ListingInit /\ MediaInit
    /\ IF focus = "routing" THEN RoutingInit ELSE NoRequest

-----------------------------------------------------------------------------
Parked(component, stays) == IF focus = component THEN TRUE ELSE stays

\* Only the component in focus moves.
Only(component) ==
    /\ focus = component /\ UNCHANGED focus
    /\ Parked("site", UNCHANGED siteVars) /\ Parked("routing", UNCHANGED routingVars)
    /\ Parked("limiter", UNCHANGED limiterVars) /\ Parked("traffic", UNCHANGED trafficVars)
    /\ Parked("boot", UNCHANGED bootVars) /\ Parked("container", UNCHANGED containerVars)
    /\ Parked("schedule", UNCHANGED scheduleVars) /\ Parked("backups", UNCHANGED backupVars)
    /\ Parked("listing", UNCHANGED listingVars) /\ Parked("contact", UNCHANGED contactVars)
    /\ Parked("settings", UNCHANGED settingsVars) /\ Parked("search", UNCHANGED searchVars)
    /\ Parked("timed", UNCHANGED timedVars) /\ Parked("forms", UNCHANGED formVars)
    /\ Parked("media", UNCHANGED mediaVars)

Next ==
    \/ Only("site") /\ SiteNext
    \/ Only("routing") /\ RoutingNext
    \/ Only("limiter") /\ LimiterNext
    \/ Only("traffic") /\ TrafficNext
    \/ Only("boot") /\ BootNext
    \/ Only("container") /\ ContainerNext
    \/ Only("schedule") /\ ScheduleNext
    \/ Only("backups") /\ BackupsNext
    \/ Only("listing") /\ ListingNext
    \/ Only("contact") /\ ContactNext
    \/ Only("settings") /\ SettingsNext
    \/ Only("search") /\ SearchNext
    \/ Only("timed") /\ TimedNext
    \/ Only("forms") /\ FormsNext
    \/ Only("media") /\ MediaNext

\* A container that is down is started again, and a boot goes on.
Fairness == \A c \in Containers : WF_vars(Only("boot") /\ BootStep(c))

Spec == Init /\ [][Next]_vars /\ Fairness

=============================================================================
