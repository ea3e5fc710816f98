---------------------------- MODULE MCMihonAdapter ----------------------------
(***************************************************************************)
(* Small instances of MihonAdapter.                                        *)
(***************************************************************************)
EXTENDS MihonAdapter

\* The second version of one package drops a source.
MCCreates == [p |-> << {"p1", "p2"}, {"p1"} >>, q |-> << {"q1"}, {"q1"} >>]
System(p, q) == [x \in {"p", "q"} |-> IF x = "p" THEN p ELSE q]
NoSystem == System(Absent, Absent)

\* Both packages are in the system of the device, and one is installed and updated
\* below jars/ as well.
Device == [platform |-> "android", system |-> System(1, 1),
           installs |-> {<< "p", 1 >>, << "p", 2 >>}, does |-> {"uninstall", "scan", "end"},
           incompatible |-> {}, tags |-> {1}, downgrades |-> FALSE, tasks |-> 1]
\* Packages are installed by the runtime only.
Desktop == [Device EXCEPT !.platform = "desktop", !.system = NoSystem,
                          !.installs = {<< "p", 1 >>, << "p", 2 >>, << "q", 1 >>}]
\* The update is incompatible.
Refused == [Desktop EXCEPT !.incompatible = {2}]
\* Two operations at a time.
Overlap == [Desktop EXCEPT !.tasks = 2, !.installs = {<< "p", 1 >>, << "q", 1 >>},
                           !.does = {"uninstall", "scan"}]
\* Builds of the runtime follow one another.
Builds == [Desktop EXCEPT !.installs = {}, !.does = {"end"}, !.tags = {1, 2, 3}]
MCUses == {Device, Desktop, Refused, Overlap, Builds}
=============================================================================
