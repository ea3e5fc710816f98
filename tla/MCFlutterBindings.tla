-------------------------- MODULE MCFlutterBindings --------------------------
(***************************************************************************)
(* Small instances of FlutterBindings.                                     *)
(***************************************************************************)
EXTENDS FlutterBindings

Host(calls, whenAsked) == [calls |-> calls, store |-> {}, ask |-> whenAsked]

\* Only the versions of the settings are followed by a property.
SettingsOnly(n) == [p \in Parts |-> IF p = "settings" THEN n ELSE 0]
TwoSettings == SettingsOnly(2)
Unchanged   == SettingsOnly(0)

\* One that calls every method, and whose callbacks call none.
Plain == Host(Methods, {})

\* One that reads and grants permissions while it shows a prompt, and does not
\* switch the extension or change accounts.
Prompting ==
  Host(Readers \cup Calls, wire_has_permission \cup wire_grant_permissions)

MCHosts == {Plain, Prompting}

\* One that looks at the extension while it shows a prompt, and switches it off.
Switching == {Host(wire_browse \cup wire_set_enabled, wire_get_extension_data)}
=============================================================================
