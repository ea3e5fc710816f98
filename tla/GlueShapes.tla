---------------------------- MODULE GlueShapes ----------------------------
(***************************************************************************)
(* How a type is laid out on the way between the halves of the Flutter     *)
(* glue (flutter_rust_bridge, frb_generated.rs and frb_generated.dart): a  *)
(* kind, and the variants it may take, each a name and the sequence of its *)
(* parts.  A part has a field name and the type it has on that side.       *)
(***************************************************************************)
EXTENDS Sequences, TLC

Layout(kind, variants) == [kind |-> kind, variants |-> variants]

(* A value of p alone: bytes of that width, or a value of Dart. *)
Plain(p) == Layout(p, << >>)

(* A record: its parts one after the other. *)
Fields(parts) == Layout("record", << <<"", parts>> >>)

(* A type that stands for another one: a Box, a String for its bytes, a map for its pairs. *)
Wraps(t) == Layout("wrapper", << <<"", << <<"", t>> >> >> >>)

(* An enumeration whose variants carry parts, told apart by their number. *)
OneOf(variants) == Layout("union", variants)

(* An enumeration of bare names, told apart by their number. *)
Units(names) == Layout("enum", [i \in DOMAIN names |-> <<names[i], << >> >>])

(* An optional value: a flag, and the value if there is one. *)
Maybe(t) == Layout("option", << <<"None", << >> >>, <<"Some", << <<"", t>> >> >> >>)

(* A list: its length, then its items. *)
ListOf(t) == Layout("list", << <<"end", << >> >>, <<"item", << <<"", t>> >> >> >>)

(* A closure of Dart, for the callback of that signature. *)
Callback(signature) == Layout(signature, << <<"", << <<"", "DartOpaque">> >> >> >>)
===========================================================================
