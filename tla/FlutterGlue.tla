---------------------------- MODULE FlutterGlue ----------------------------
(***************************************************************************)
(* The messages between the two halves of the generated Flutter glue.      *)
(* Neither half sends the type of what it writes: a message is only read   *)
(* back as what it was if both halves agree on every part of every type,   *)
(* in order, and on the numbers of the variants.                           *)
(*                                                                         *)
(* The machine follows one message.  writes and reads are the parts that   *)
(* the two halves have still to process; both take the same step, into a   *)
(* part or past it.  What was left out when a part is entered was a        *)
(* message of its own on another path, so the rest is dropped: the state   *)
(* stays bounded although types nest without bound (CustomUI).             *)
(***************************************************************************)
EXTENDS RustSse, DartSse, GlueDco, GlueCalls

VARIABLES
    writer,     (* the table the writing half writes by *)
    reader,     (* the table the reading half reads by *)
    writes,     (* the parts still to be written, each a name and a type *)
    reads       (* the parts still to be read *)

vars == <<writer, reader, writes, reads>>

(* The closures among the arguments of a call, as Rust takes them (decode_DartFn_). *)
Closures == [f \in DOMAIN RustCallbacks |-> Callback(f)]

Table ==
    [RustReads |-> RustReads @@ Closures, RustWrites |-> RustWrites,
     DartReads |-> DartReads, DartWrites |-> DartWrites,
     RustGives |-> RustGives, DartTakes |-> DartTakes]

LayoutOf(table, part) == Table[table][part[2]]

(***************************************************************************)
(* The messages: the arguments of a call, its result or its failure; the   *)
(* arguments of a callback, its answer or its failure.                     *)
(***************************************************************************)
One(type) == << <<"", type>> >>
Unnamed(types) == [i \in DOMAIN types |-> <<"", types[i]>>]

Message(from, w, to, r) == [writer |-> from, reader |-> to, writes |-> w, reads |-> r]

Giver == [sse |-> "RustWrites", dco |-> "RustGives"]
Taker == [sse |-> "DartReads", dco |-> "DartTakes"]

FromRust(c, w, r) ==
    Message(Giver[RustCalls[c].codec], One(w), Taker[DartCalls[c].codec], One(r))

Arguments == {Message("DartWrites", DartCalls[c].args, "RustReads", RustCalls[c].args) :
                 c \in DOMAIN DartCalls}

Results == {FromRust(c, RustCalls[c].result, DartCalls[c].result) :
                c \in DOMAIN RustCalls}

Failures == {FromRust(c, RustCalls[c].error, DartCalls[c].error) :
                c \in {d \in DOMAIN RustCalls : RustCalls[d].error # "none"}}

Prompts == {Message("RustGives", Unnamed(RustCallbacks[c].args),
                    "DartTakes", Unnamed(DartCallbacks[c].args)) : c \in DOMAIN RustCallbacks}

Answers == {Message("DartWrites", One(DartCallbacks[c].answer),
                    "RustReads", One(RustCallbacks[c].answer)) : c \in DOMAIN DartCallbacks}

Refusals == {Message("DartWrites", One(DartCallbacks[c].error),
                     "RustReads", One(RustCallbacks[c].error)) : c \in DOMAIN DartCallbacks}

Messages == Arguments \cup Results \cup Failures \cup Prompts \cup Answers \cup Refusals

Init == \E m \in Messages :
            /\ writer = m.writer /\ reader = m.reader
            /\ writes = m.writes /\ reads = m.reads

(***************************************************************************)
(* The steps.                                                              *)
(***************************************************************************)
Wrapped(layout) == layout.kind = "wrapper"
Inside(layout) == layout.variants[1][2][1][2]
Within(parts, layout) == << <<Head(parts)[1], Inside(layout)>> >> \o Tail(parts)

(* A type that stands for another one leaves no trace in the message. *)
UnwrapWritten ==
    /\ writes # << >> /\ Wrapped(LayoutOf(writer, Head(writes)))
    /\ writes' = Within(writes, LayoutOf(writer, Head(writes)))
    /\ UNCHANGED <<writer, reader, reads>>

UnwrapRead ==
    /\ reads # << >> /\ Wrapped(LayoutOf(reader, Head(reads)))
    /\ reads' = Within(reads, LayoutOf(reader, Head(reads)))
    /\ UNCHANGED <<writer, reader, writes>>

(* Both halves stand before a part that is not a wrapper. *)
AtPart ==
    /\ writes # << >> /\ reads # << >>
    /\ ~ Wrapped(LayoutOf(writer, Head(writes))) /\ ~ Wrapped(LayoutOf(reader, Head(reads)))

(* Into a part: the variant is one both know by its number. *)
EnterPart ==
    /\ AtPart
    /\ \E i \in DOMAIN LayoutOf(writer, Head(writes)).variants
                  \cap DOMAIN LayoutOf(reader, Head(reads)).variants :
            /\ writes' = LayoutOf(writer, Head(writes)).variants[i][2]
            /\ reads' = LayoutOf(reader, Head(reads)).variants[i][2]
    /\ UNCHANGED <<writer, reader>>

PassPart ==
    /\ AtPart
    /\ writes' = Tail(writes) /\ reads' = Tail(reads)
    /\ UNCHANGED <<writer, reader>>

Next == UnwrapWritten \/ UnwrapRead \/ EnterPart \/ PassPart

Spec == Init /\ [][Next]_vars

(***************************************************************************)
(* Every type that can occur in a message is one its half knows how to     *)
(* write or to read in that codec.                                         *)
(***************************************************************************)
KnownTypes ==
    /\ \A i \in DOMAIN writes : writes[i][2] \in DOMAIN Table[writer]
    /\ \A i \in DOMAIN reads : reads[i][2] \in DOMAIN Table[reader]

(***************************************************************************)
(* What one half writes is what the other one reads: each has a function   *)
(* for every type that is there in that codec; they end together,          *)
(* and the part they stand before has the same name on both sides, the     *)
(* same kind, and the same variants under the same numbers.  (Where the    *)
(* bytes happen to have the same width, nothing else would notice.)        *)
(***************************************************************************)
VariantNames(layout) == [i \in DOMAIN layout.variants |-> layout.variants[i][1]]

InStep ==
    /\ KnownTypes
    /\ writes = << >> <=> reads = << >>
    /\ writes # << >> => Head(writes)[1] = Head(reads)[1]
    /\ AtPart => LET w == LayoutOf(writer, Head(writes))
                     r == LayoutOf(reader, Head(reads))
                 IN  w.kind = r.kind /\ VariantNames(w) = VariantNames(r)
=============================================================================
