------------------------------- MODULE FlutterApi -------------------------------
(***************************************************************************)
(* What each method of the Flutter bindings does on the locks, the store,  *)
(* the script and the callbacks of the application, as sequences of steps; *)
(* a method that may go more than one way is the set of its ways.          *)
(***************************************************************************)
EXTENDS Sequences, SequencesExt

Parts == {"settings", "permissions", "auth"}
Keys  == {"extension_settings", "search_settings", "permissions", "auth"}

PartOf(key) == IF key \in {"extension_settings", "search_settings"} THEN "settings" ELSE key

Lock(l, mode) == [do |-> "lock", on |-> l, mode |-> mode]
Unlock(l)     == [do |-> "unlock", on |-> l]
Put(part)     == [do |-> "put", part |-> part]
Copy(part)    == [do |-> "copy", part |-> part]
StoreData(k)  == [do |-> "store", key |-> k]  \* the callback store_data
Ask           == [do |-> "ask"]               \* any other callback
Run           == [do |-> "run"]               \* a task for the script
Start         == [do |-> "start"]             \* a new thread, which loads the script
Await(what)   == [do |-> "await", it |-> what] \* until the script returned

WithStore(mode, steps) == << Lock("store", mode) >> \o steps \o << Unlock("store") >>

Reads           == {WithStore("shared", << >>)}
\* Mutant: a change of the store shares it.
MutantEdits(part) == {WithStore("shared", << Put(part) >>)}

Edits(part)     == {WithStore("exclusive", << Put(part) >>)}
SaveState(key)  == << Copy(PartOf(key)), StoreData(key) >>
\* A copy is taken under the lock and stored after it.
Persists(key)   == WithStore("shared", << Copy(PartOf(key)) >>) \o << StoreData(key) >>
\* A call of the script, refused by an extension that is not enabled.
RunsScript      == {<< Run >>, << >>}

-----------------------------------------------------------------------------
(* The methods of ProxyExtension, and uninstall of ProxyAdapter. *)

is_enabled               == {<< >>}
get_setting              == Reads
get_setting_ids          == Reads
get_settings             == Reads
get_extension_data       == Reads
has_permission           == Reads
get_permissions          == Reads
get_accounts             == Reads
is_logged_in             == Reads
set_setting              == Edits("settings")
remove_setting           == Edits("settings")
merge_setting_definition == Edits("settings")
remove_permission        == Edits("permissions")
invalidate               == Edits("auth")
merge_auth               == Edits("auth")
grant_permissions        == {edit \o Persists("permissions") : edit \in Edits("permissions")}
storage_usage            == {<< >>}
clear_cache              == {<< >>}
event                    == RunsScript
browse                   == RunsScript
search                   == RunsScript
handle_url               == RunsScript
detail                   == RunsScript
refresh                  == RunsScript
source                   == RunsScript
map_entry                == RunsScript
map_source               == RunsScript
on_entry_activity        == RunsScript
\* The candidate goes into the store, the verdict replaces it.
validate                 == {edit \o run \o edit : edit \in Edits("auth"), run \in RunsScript}
set_enabled              == {<< Start >>, << >>}
\* The file is read before the store changes, and may be unreadable.
reload                   == {<< >>} \cup {WithStore("exclusive", << >>) \o enable : enable \in set_enabled}
\* The store is read while the adapter asks for its path.
uninstall                == {WithStore("shared", << Ask >>)}

\* Mutant: the settings are given up before the application has stored them.
MutantSaveSettings ==
  {WithStore("shared", << Copy("settings") >>)
     \o << StoreData("extension_settings"), StoreData("search_settings") >>}

\* The saves keep the store from changing until the application has stored it.
save_settings    ==
  {WithStore("shared", SaveState("extension_settings") \o SaveState("search_settings"))}
save_permissions == {WithStore("shared", SaveState("permissions"))}
save_auth_state  == {WithStore("shared", SaveState("auth"))}

-----------------------------------------------------------------------------
(* The generated glue: the guard a method runs under. *)

Guarded(mode, ways) == {<< Lock("object", mode) >> \o way \o << Unlock("object") >> : way \in ways}
Shared(ways)    == Guarded("shared", ways)
Exclusive(ways) == Guarded("exclusive", ways)

wire_is_enabled               == Shared(is_enabled)
wire_get_setting              == Shared(get_setting)
wire_get_setting_ids          == Shared(get_setting_ids)
wire_get_settings             == Shared(get_settings)
wire_get_extension_data       == Shared(get_extension_data)
wire_has_permission           == Shared(has_permission)
wire_get_permissions          == Shared(get_permissions)
wire_get_accounts             == Shared(get_accounts)
wire_is_logged_in             == Shared(is_logged_in)
wire_set_setting              == Shared(set_setting)
wire_remove_setting           == Shared(remove_setting)
wire_merge_setting_definition == Shared(merge_setting_definition)
wire_save_settings            == Shared(save_settings)
wire_remove_permission        == Shared(remove_permission)
wire_grant_permissions        == Shared(grant_permissions)
wire_save_permissions         == Shared(save_permissions)
wire_save_auth_state          == Shared(save_auth_state)
wire_invalidate               == Exclusive(invalidate)
wire_merge_auth               == Exclusive(merge_auth)
wire_storage_usage            == Shared(storage_usage)
wire_clear_cache              == Shared(clear_cache)
wire_event                    == Shared(event)
wire_browse                   == Shared(browse)
wire_search                   == Shared(search)
wire_handle_url               == Shared(handle_url)
wire_detail                   == Shared(detail)
wire_refresh                  == Shared(refresh)
wire_source                   == Shared(source)
wire_map_entry                == Shared(map_entry)
wire_map_source               == Shared(map_source)
wire_on_entry_activity        == Shared(on_entry_activity)
wire_validate                 == Shared(validate)
wire_reload                   == Exclusive(reload)
wire_uninstall                == Shared(uninstall)

\* Mutant: switching an extension on or off shares the extension.
MutantWireSetEnabled == Shared(set_enabled)

wire_set_enabled              == Exclusive(set_enabled)

\* The methods by what an application uses them for.
Readers  == wire_get_setting \cup wire_get_setting_ids \cup wire_get_settings
            \cup wire_get_extension_data \cup wire_has_permission \cup wire_get_permissions
            \cup wire_get_accounts \cup wire_is_logged_in \cup wire_is_enabled
            \cup wire_storage_usage \cup wire_clear_cache
Editors  == wire_set_setting \cup wire_remove_setting \cup wire_merge_setting_definition
            \cup wire_remove_permission \cup wire_grant_permissions
Savers   == wire_save_settings \cup wire_save_permissions \cup wire_save_auth_state
LogIns   == wire_validate \cup wire_invalidate \cup wire_merge_auth
Calls    == wire_event \cup wire_browse \cup wire_search \cup wire_handle_url
            \cup wire_detail \cup wire_refresh \cup wire_source \cup wire_map_entry
            \cup wire_map_source \cup wire_on_entry_activity
Switches == wire_set_enabled \cup wire_reload \cup wire_uninstall
Methods  == Readers \cup Editors \cup Savers \cup LogIns \cup Calls \cup Switches

-----------------------------------------------------------------------------
(* What a script does while it handles a task: the modules setting,
   permission, auth and action. *)

Granted(key) ==
  {edit \o Persists(key) : edit \in Edits(PartOf(key))}

\* mergeAuth and invalidate take the copy before they give the store up.
EditsAndPersists == {WithStore("exclusive", << Put("auth"), Copy("auth") >>)
                       \o << StoreData("auth") >>}

getSetting        == Reads
registerSetting   == Edits("settings")
setEntrySetting   == {<< Ask >>}
doAction          == {<< Ask >>}
mergeAuth         == EditsAndPersists
\* The prompt is made without the store; it may be granted or denied.
requestPermission ==
  {read \o then : read \in Reads,
     then \in {<< >>, << Ask >>} \cup {<< Ask >> \o granted : granted \in Granted("permissions")}}

ScriptSteps == getSetting \cup registerSetting \cup setEntrySetting \cup doAction
               \cup mergeAuth \cup requestPermission
=============================================================================
