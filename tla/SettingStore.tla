----------------------------- MODULE SettingStore -----------------------------
(***************************************************************************)
(* The settings of an extension: a function from those it knows, each a    *)
(* kind and an id, to a value and a default.                               *)
(***************************************************************************)
CONSTANTS
  Settings,  \* << kind, id >>
  Values     \* [type, data]

Kinds == {"extension", "search"}

ASSUME SettingsAssumption ==
  /\ \A s \in Settings : s[1] \in Kinds
  /\ \A v \in Values : {"type", "data"} \subseteq DOMAIN v

Setting == [value : Values, default : Values]
Store   == UNION {[known -> Setting] : known \in SUBSET Settings}

NoSettings == [s \in {} |-> s]

\* What is stored once the settings of one kind have been saved.
StoreKind(store, new, kind) ==
  [s \in {x \in DOMAIN new : x[1] = kind} \cup {x \in DOMAIN store : x[1] # kind} |->
     IF s[1] = kind THEN new[s] ELSE store[s]]

\* Mutant: the value is not carried over.
MutantOverwrite(value, current) == value

\* A value replaces one of its own type.
Overwrite(value, current) == IF current.type = value.type THEN current ELSE value

MergeDefinition(store, s, definition) ==
  [x \in DOMAIN store \cup {s} |->
     IF x # s THEN store[x]
     ELSE IF s \in DOMAIN store
     THEN [definition EXCEPT !.value = Overwrite(@, store[s].value)]
     ELSE definition]

\* set_setting does not compare types.
SetSetting(store, s, value) == [store EXCEPT ![s].value = value]

\* What the definitions of a manifest make of what was persisted.
MergeAll(store, definitions) ==
  [s \in DOMAIN store \cup DOMAIN definitions |->
     IF s \in DOMAIN definitions THEN MergeDefinition(store, s, definitions[s])[s]
     ELSE store[s]]
=============================================================================
