-------------------------- MODULE MCExtensionAdapter --------------------------
(***************************************************************************)
(* Small instances of ExtensionAdapter.                                    *)
(***************************************************************************)
EXTENDS ExtensionAdapter, TLC

Number(n) == [type |-> "Number", data |-> n]
Text(n)   == [type |-> "String", data |-> n]
Def(v)    == [value |-> v, default |-> v]

MCValues   == {Number(0), Number(1), Text(0)}
MCSettings == {<<"extension", "quality">>, <<"search", "sort">>}

quality == <<"extension", "quality">>
sort    == <<"search", "sort">>

\* v1 and v2 disagree on the type of a setting; v4 has a setting of each kind.
MCDeclares == [v \in {"v1", "v2", "v3", "v4"} |->
  CASE v = "v1" -> quality :> Def(Number(0))
    [] v = "v2" -> quality :> Def(Text(0))
    [] v = "v3" -> NoSettings
    [] v = "v4" -> quality :> Def(Number(0)) @@ sort :> Def(Number(0))]

MCNameOf == [i \in {"a", "b"} |-> i]

File(id, v) == [id |-> id, version |-> v, whole |-> TRUE]
Dir(a, b, other) == [n \in {"a", "b", "other"} |->
                       CASE n = "a" -> a [] n = "b" -> b [] n = "other" -> other]

\* Two operations at a time on a directory.
Overlapping ==
  [does |-> {"install", "copy", "uninstall", "scan", "drop", "fail", "end"},
   dirs |-> {Dir(File("a", "v1"), Absent, Absent), Dir(Absent, Absent, File("a", "v1"))},
   installs |-> {File("a", "v1"), File("a", "v3")},
   sets |-> {}, tasks |-> 2, objects |-> 1]
\* One after the other where names and ids disagree.
Renamed == [does |-> {"install", "uninstall", "scan", "drop"},
            dirs |-> {Dir(File("b", "v1"), Absent, File("a", "v2"))},
            installs |-> {File("a", "v1"), File("b", "v2")},
            sets |-> {}, tasks |-> 1, objects |-> 2]
\* Settings are set, registered and saved, and the extension is updated.
Retyped == [does |-> {"install", "save", "register", "reload", "drop", "fail",
                      "end"},
            dirs |-> {Dir(File("a", "v1"), Absent, Absent)},
            installs |-> {File("a", "v1"), File("a", "v2")},
            sets |-> {quality} \X {Number(1), Text(0)},
            tasks |-> 1, objects |-> 1]
\* The same with settings of both kinds.
BothKinds == [does |-> {"install", "save", "scan", "drop", "fail", "end"},
              dirs |-> {Dir(File("a", "v4"), Absent, Absent)},
              installs |-> {},
              sets |-> {quality, sort} \X {Number(0), Number(1)},
              tasks |-> 1, objects |-> 2]
\* Requests go on while the extension is updated.
Requests == [does |-> {"install", "fetch", "scan", "drop", "end"},
             dirs |-> {Dir(File("a", "v3"), Absent, Absent)},
             installs |-> {File("a", "v1")},
             sets |-> {}, tasks |-> 1, objects |-> 2]

MCUses == {Overlapping, Renamed, Retyped, BothKinds, Requests}
=============================================================================
