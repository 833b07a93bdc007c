---------------------------- MODULE SiteSettings ----------------------------
(***************************************************************************)
(* SiteSettingsService: administrators who save the settings page while    *)
(* requests read the settings through the cache.  The page is filled from  *)
(* the cache too, and submits every setting, changed or not.  An update    *)
(* writes key after key, each in a transaction of its own, and drops the   *)
(* cache entry at the end; a value that is too long ends it where it       *)
(* stands.                                                                 *)
(***************************************************************************)
EXTENDS Naturals, Sequences

CONSTANTS Saves,      \* settings pages, each opened and saved once
          Readers,    \* calls of all(), each again and again
          NoEntry

\* Two of KNOWN_SETTINGS, in the order in which the page submits them, and
\* their values: the default "" or "0", or another one.
Known == <<"site_tagline", "maintenance_mode">>
KnownKeys == {"site_tagline", "maintenance_mode"}
SettingValues == {"default", "other"}
Settings == [KnownKeys -> SettingValues]
Loaders == Readers \cup Saves

VARIABLES settings,   \* what the table and the defaults say
          entry,      \* the cache entry "settings:all", or NoEntry
          save,       \* save[a]: the page's values, what was typed, the next key to write
          reader,     \* reader[r]: what r has loaded and not yet put into the cache
          keyLock,    \* the reader that has the lock of the cache key
          outdated,   \* readers whose loaded values were overwritten since
          behind,     \* how the entry came to be out of date, if it is
          crossed,    \* updates that overlapped with another one
          mixed,      \* such an update ended last, or one failed half-way since
          lastSaved,  \* the values of the update that ended last
          wronged     \* a setting was set back from a page that had no excuse

settingsVars == <<settings, entry, save, reader, keyLock, outdated, behind, crossed,
                  mixed, lastSaved, wronged>>

SettingsTypeOK ==
    /\ settings \in Settings
    /\ entry \in Settings \cup {NoEntry}
    /\ save \in [Saves -> [values : Settings, typed : SUBSET KnownKeys, excused : BOOLEAN,
                           next : 1..(Len(Known) + 1),
                           at : {"closed", "open", "write", "over"}]]
    /\ reader \in [Loaders -> Settings \cup {NoEntry}]
    /\ keyLock \in Loaders \cup {NoEntry}
    /\ outdated \subseteq Loaders
    /\ behind \in {"no", "late fill", "failed update"}
    /\ crossed \subseteq Saves /\ mixed \in BOOLEAN
    /\ lastSaved \in Settings /\ wronged \in BOOLEAN

Defaults == [k \in KnownKeys |-> "default"]

SettingsInit ==
    /\ settings = Defaults /\ lastSaved = Defaults
    /\ entry = NoEntry
    /\ save = [a \in Saves |-> [values |-> Defaults, typed |-> {}, excused |-> FALSE,
                                next |-> 1, at |-> "closed"]]
    /\ reader = [r \in Loaders |-> NoEntry]
    /\ keyLock = NoEntry
    /\ outdated = {}
    /\ behind = "no"
    /\ crossed = {} /\ mixed = FALSE /\ wronged = FALSE

-----------------------------------------------------------------------------
\* Fault variants, each substituted for the definition named beside it.
LastKeySkipped(a) == save[a].next >= Len(Known)                      \* AllWritten
EntryKept(a) == UNCHANGED <<entry, behind>>                          \* DropEntry

-----------------------------------------------------------------------------
Writing(a) == save[a].at = "write"
Others(a) == {b \in Saves \ {a} : Writing(b)}

\* A page that shows settings which were, or are being, changed has an excuse for
\* setting them back.
Shown(a, values, old) ==
    [save EXCEPT ![a] = [save[a] EXCEPT !.at = "open", !.values = values,
                                        !.excused = old \/ Others(a) # {}]]

\* SettingsPage, from the cache.
OpenPage(a) ==
    /\ save[a].at = "closed" /\ reader[a] = NoEntry /\ entry # NoEntry
    /\ save' = Shown(a, entry, behind # "no")
    /\ UNCHANGED <<settings, entry, reader, keyLock, outdated, behind, mixed, crossed,
                   lastSaved, wronged>>

\* The administrator types into some inputs; all of them are submitted.
BeginSave(a, typed) ==
    /\ save[a].at = "open"
    /\ save' = [save EXCEPT ![a].at = "write", ![a].typed = typed,
                   ![a].values = [k \in KnownKeys |->
                       IF k \in typed THEN CHOOSE v \in SettingValues : v # save[a].values[k]
                       ELSE save[a].values[k]]]
    /\ crossed' = IF Others(a) = {} THEN crossed ELSE crossed \cup Others(a) \cup {a}
    /\ UNCHANGED <<settings, entry, reader, keyLock, outdated, behind, mixed, lastSaved,
                   wronged>>

AllWritten(a) == save[a].next > Len(Known)

\* upsert() commits by itself.
UpsertSetting(a) ==
    LET k == Known[save[a].next] IN
    /\ Writing(a) /\ ~AllWritten(a)
    /\ settings' = [settings EXCEPT ![k] = save[a].values[k]]
    /\ save' = [b \in Saves |->
           CASE b = a -> [save[a] EXCEPT !.next = @ + 1]
             [] b # a /\ save[b].at \in {"open", "write"} /\ settings' # settings ->
                    [save[b] EXCEPT !.excused = TRUE]
             [] OTHER -> save[b]]
    /\ wronged' = (wronged \/ (/\ settings' # settings
                               /\ k \notin save[a].typed /\ ~save[a].excused))
    /\ outdated' = {r \in Loaders : reader[r] # NoEntry /\ reader[r] # settings'}
    /\ UNCHANGED <<entry, reader, keyLock, behind, mixed, crossed, lastSaved>>

\* The value is too long, or the database fails: the keys before this one stay
\* written, and the cache is not told.
SaveFails(a) ==
    /\ Writing(a) /\ ~AllWritten(a)
    /\ save' = [save EXCEPT ![a].at = "over"]
    /\ behind' = IF entry # NoEntry /\ save[a].next > 1 THEN "failed update" ELSE behind
    /\ mixed' = (mixed \/ save[a].next > 1)
    /\ UNCHANGED <<settings, entry, reader, keyLock, outdated, crossed, lastSaved, wronged>>

DropEntry(a) == entry' = NoEntry /\ behind' = "no"

\* The audit insert that follows may fail: nothing is left to do then.
EndSave(a) ==
    /\ Writing(a) /\ AllWritten(a)
    /\ DropEntry(a)
    /\ save' = [save EXCEPT ![a].at = "over"]
    /\ lastSaved' = save[a].values
    /\ mixed' = (a \in crossed)
    /\ UNCHANGED <<settings, reader, keyLock, outdated, crossed, wronged>>

-----------------------------------------------------------------------------
(* all(), through get_or_set: by any request, or to fill a page. *)

LoadSettings(r) ==
    /\ entry = NoEntry /\ keyLock = NoEntry
    /\ r \in Saves => save[r].at = "closed"
    /\ keyLock' = r
    /\ reader' = [reader EXCEPT ![r] = settings]
    /\ outdated' = outdated \ {r}
    /\ UNCHANGED <<settings, entry, save, behind, mixed, crossed, lastSaved, wronged>>

FillEntry(r) ==
    /\ reader[r] # NoEntry
    /\ entry' = reader[r]
    /\ behind' = IF r \in outdated THEN "late fill" ELSE behind
    /\ reader' = [reader EXCEPT ![r] = NoEntry]
    /\ keyLock' = NoEntry
    /\ save' = IF r \in Saves THEN Shown(r, reader[r], r \in outdated) ELSE save
    /\ UNCHANGED <<settings, outdated, mixed, crossed, lastSaved, wronged>>

EntryExpires ==
    /\ entry # NoEntry
    /\ entry' = NoEntry /\ behind' = "no"
    /\ UNCHANGED <<settings, save, reader, keyLock, outdated, mixed, crossed, lastSaved,
                   wronged>>

SettingsNext ==
    \/ \E a \in Saves :
          \/ OpenPage(a)
          \/ \E typed \in SUBSET KnownKeys : BeginSave(a, typed)
          \/ UpsertSetting(a) \/ SaveFails(a) \/ EndSave(a)
    \/ \E r \in Loaders : LoadSettings(r) \/ FillEntry(r)
    \/ EntryExpires

SettingsSpec == SettingsInit /\ [][SettingsNext]_settingsVars

-----------------------------------------------------------------------------
Quiet == \A a \in Saves : ~Writing(a)

\* "writes are ... audited, and invalidate the cache immediately"
\* (site_settings_service.py:2-3): once no update is running, visitors and the
\* maintenance middleware are shown, in the process that ran the updates, settings
\* that differ from the stored ones only if a read had begun before a write, or an
\* update failed half-way.  Other processes have caches of their own, and only
\* the time to live.
ShownAreStored == Quiet /\ entry # NoEntry /\ entry # settings => behind # "no"

\* An administrator who is told that the page was saved has saved all of it:
\* the settings are those of the update that ended last, key by key, and not a
\* mixture, unless updates overlapped or one was cut short by a value that is
\* too long.
SavedAsAWhole == Quiet /\ ~mixed => settings = lastSaved

\* A page submits the settings nobody typed into as it found them in the cache.
\* That sets none of them back to what it was before another administrator's
\* save, unless the page was opened while an update was running, or from an entry
\* that a late fill or a failed update had left behind, or an update changed the
\* settings while it was open.
FreshPagesUndoNothing == ~wronged

\* Both: a save stores what its page shows, and nothing older.
SavesAreKept == SavedAsAWhole /\ FreshPagesUndoNothing
=============================================================================
