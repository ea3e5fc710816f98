------------------------------- MODULE CompatJar -------------------------------
(***************************************************************************)
(* The JAR of the compatibility layer, which a desktop process extracts    *)
(* before it starts its JVM, unless the tag in a sidecar file says that    *)
(* the extracted one is its own.  A tag stands for the JAR embedded in one *)
(* build of the runtime or for one MIHON_COMPAT_JAR.                       *)
(***************************************************************************)
EXTENDS Naturals

CONSTANTS
  Tags,    \* natural numbers, a later build has a greater one
  Absent, Torn

ASSUME CompatJarAssumption ==
  Tags \subseteq Nat \ {0} /\ Absent \notin Tags /\ Torn \notin Tags

VARIABLES
  tag,      \* of the running process; 0 before the first
  jar,      \* the tag of the JAR's content
  sidecar,  \* what the sidecar file says
  start     \* where the process is

compat == << tag, jar, sidecar, start >>

CompatInit == tag = 0 /\ jar = Absent /\ sidecar = Absent /\ start = "down"

\* Mutant: the tag is written before the JAR.
MutantEnsureCompatJar ==
  \/ /\ start = "check"
     /\ start' = IF sidecar = tag /\ jar # Absent THEN "up" ELSE "write sidecar"
     /\ UNCHANGED << tag, jar, sidecar >>
  \/ /\ start = "write sidecar"
     /\ sidecar' = Torn /\ start' = "sidecar rest"
     /\ UNCHANGED << tag, jar >>
  \/ /\ start = "sidecar rest"
     /\ sidecar' = tag /\ start' = "write jar"
     /\ UNCHANGED << tag, jar >>
  \/ /\ start = "write jar"
     /\ jar' = Torn /\ start' = "jar rest"
     /\ UNCHANGED << tag, sidecar >>
  \/ /\ start = "jar rest"
     /\ jar' = tag /\ start' = "up"
     /\ UNCHANGED << tag, sidecar >>

\* ensure_compat_jar, each write as the truncation and the rest.
EnsureCompatJar ==
  \/ /\ start = "check"
     /\ start' = IF sidecar = tag /\ jar # Absent THEN "up" ELSE "write jar"
     /\ UNCHANGED << tag, jar, sidecar >>
  \/ /\ start = "write jar"
     /\ jar' = Torn /\ start' = "jar rest"
     /\ UNCHANGED << tag, sidecar >>
  \/ /\ start = "jar rest"
     /\ jar' = tag /\ start' = "write sidecar"
     /\ UNCHANGED << tag, sidecar >>
  \/ /\ start = "write sidecar"
     /\ sidecar' = Torn /\ start' = "sidecar rest"
     /\ UNCHANGED << tag, jar >>
  \/ /\ start = "sidecar rest"
     /\ sidecar' = tag /\ start' = "up"
     /\ UNCHANGED << tag, jar >>

\* A process starts; on Android there is no JAR to extract.
StartProcess(new, extracts) ==
  /\ start = "down"
  /\ tag' = new
  /\ start' = IF extracts THEN "check" ELSE "up"
  /\ UNCHANGED << jar, sidecar >>

EndProcess == start # "down" /\ start' = "down" /\ UNCHANGED << tag, jar, sidecar >>
=============================================================================
