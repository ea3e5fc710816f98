------------------------- MODULE FlutterBindingsProofs -------------------------
(***************************************************************************)
(* Theorems about FlutterBindings, for every number of callers, every kind *)
(* of application and scripts of any length.                               *)
(*                                                                         *)
(* What an actor holds follows from the steps it has left: each step is    *)
(* legal in what is held before it, and after the last one nothing is.     *)
(***************************************************************************)
EXTENDS FlutterBindings, SequenceTheorems, TLAPS

Locks == {"object", "store"}
Modes == {"shared", "exclusive"}

\* What an actor holds: the mode of each lock, and the part it has copied to store.
Held == [mode : [Locks -> Modes \cup {"none"}], copied : Parts \cup {"none"}]

Nothing == [mode |-> [l \in Locks |-> "none"], copied |-> "none"]

Keeping(x, l, m) == [mode |-> [x.mode EXCEPT ![l] = m], copied |-> x.copied]
Copying(x, part) == [mode |-> x.mode, copied |-> part]

\* The script is used under the lock of the object, and replaced only by who has
\* the object alone.
Ready(x, what) == x.mode["object"] # "none" /\ (what = "start" => x.mode["object"] = "exclusive")

\* A step is legal for who holds x, and leaves it with y.  A copy of the settings
\* is used up before the store is given up or changed.
Takes(x, step, y) ==
  \/ \E l \in Locks, m \in Modes :
       step = Lock(l, m) /\ x.mode[l] = "none" /\ y = Keeping(x, l, m)
  \/ \E l \in Locks :
       /\ step = Unlock(l) /\ x.mode[l] # "none" /\ y = Keeping(x, l, "none")
       /\ l = "store" => x.copied # "settings"
  \/ \E p \in Parts :
       step = Put(p) /\ x.mode["store"] = "exclusive" /\ x.copied # "settings" /\ y = x
  \/ \E p \in Parts : step = Copy(p) /\ x.mode["store"] # "none" /\ y = Copying(x, p)
  \/ \E k \in Keys : step = StoreData(k) /\ x.copied = PartOf(k) /\ y = Copying(x, "none")
  \/ step = Ask /\ x.copied = "none" /\ y = x
  \/ \E what \in {"run", "start"} : step = [do |-> what] /\ Ready(x, what) /\ y = x

\* The steps lead from x to y, each one legal: trace is what is held in between.
Path(steps, x, y) ==
  \E trace \in [0 .. Len(steps) -> Held] :
    /\ trace[0] = x /\ trace[Len(steps)] = y
    /\ \A i \in 1 .. Len(steps) :
         steps[i] \in Steps /\ Takes(trace[i-1], steps[i], trace[i])

-----------------------------------------------------------------------------
(* Paths. *)

\* No step changes nothing.
LEMMA NoStep == ASSUME NEW x \in Held PROVE << >> \in Seq(Steps) /\ Path(<< >>, x, x)
<1> DEFINE trace == [i \in 0 .. 0 |-> x]
<1>1. /\ << >> \in Seq(Steps) /\ Len(<< >>) = 0 /\ 1 .. 0 = {}
      /\ trace \in [0 .. 0 -> Held] /\ trace[0] = x
  OBVIOUS
<1> HIDE DEF trace
<1>2. QED
  BY <1>1 DEF Path

\* One legal step is a path.
LEMMA OneStep ==
  ASSUME NEW x \in Held, NEW y \in Held, NEW a \in Steps, Takes(x, a, y)
  PROVE  << a >> \in Seq(Steps) /\ Path(<< a >>, x, y)
<1> DEFINE trace == [i \in 0 .. 1 |-> IF i = 0 THEN x ELSE y]
<1>1. /\ << a >> \in Seq(Steps) /\ Len(<< a >>) = 1 /\ << a >>[1] = a
      /\ trace \in [0 .. 1 -> Held] /\ trace[0] = x /\ trace[1] = y
  OBVIOUS
<1> HIDE DEF trace
<1>2. ASSUME NEW i \in 1 .. 1 PROVE << a >>[i] \in Steps /\ Takes(trace[i-1], << a >>[i], trace[i])
  <2>1. i = 1 /\ i - 1 = 0
    OBVIOUS
  <2>2. QED
    BY <2>1, <1>1
<1>3. QED
  BY <1>1, <1>2 DEF Path

\* One path after another is a path.
LEMMA Joined ==
  ASSUME NEW s \in Seq(Steps), NEW t \in Seq(Steps),
         NEW x \in Held, NEW y \in Held, NEW z \in Held, Path(s, x, y), Path(t, y, z)
  PROVE  s \o t \in Seq(Steps) /\ Path(s \o t, x, z)
<1>1. PICK f \in [0 .. Len(s) -> Held] :
        /\ f[0] = x /\ f[Len(s)] = y
        /\ \A i \in 1 .. Len(s) : s[i] \in Steps /\ Takes(f[i-1], s[i], f[i])
  BY DEF Path
<1>2. PICK g \in [0 .. Len(t) -> Held] :
        /\ g[0] = y /\ g[Len(t)] = z
        /\ \A i \in 1 .. Len(t) : t[i] \in Steps /\ Takes(g[i-1], t[i], g[i])
  BY DEF Path
<1> DEFINE h == [i \in 0 .. Len(s) + Len(t) |-> IF i <= Len(s) THEN f[i] ELSE g[i - Len(s)]]
<1>3. /\ s \o t \in Seq(Steps) /\ Len(s \o t) = Len(s) + Len(t)
      /\ \A i \in 1 .. Len(s) + Len(t) :
           (s \o t)[i] = IF i <= Len(s) THEN s[i] ELSE t[i - Len(s)]
  BY ConcatProperties
<1>4. Len(s) \in Nat /\ Len(t) \in Nat
  OBVIOUS
<1>5. h \in [0 .. Len(s) + Len(t) -> Held]
  BY <1>4
<1>6. h[0] = x /\ h[Len(s) + Len(t)] = z
  <2>1. h[0] = x
    BY <1>1, <1>4
  <2>2. CASE Len(t) = 0
    BY <1>1, <1>2, <1>4, <2>1, <2>2
  <2>3. CASE Len(t) # 0
    <3>1. /\ Len(s) + Len(t) \in 0 .. Len(s) + Len(t) /\ ~(Len(s) + Len(t) <= Len(s))
          /\ (Len(s) + Len(t)) - Len(s) = Len(t)
      BY <1>4, <2>3
    <3>2. QED
      BY <1>2, <2>1, <3>1
  <2>4. QED
    BY <2>2, <2>3
<1>7. ASSUME NEW i \in 1 .. Len(s) + Len(t)
      PROVE  (s \o t)[i] \in Steps /\ Takes(h[i-1], (s \o t)[i], h[i])
  <2>1. CASE i <= Len(s)
    <3>1. (s \o t)[i] = s[i] /\ h[i] = f[i] /\ h[i-1] = f[i-1] /\ i \in 1 .. Len(s)
      BY <1>3, <1>4, <2>1
    <3>2. QED
      BY <3>1, <1>1
  <2>2. CASE ~(i <= Len(s))
    <3>1. /\ (s \o t)[i] = t[i - Len(s)] /\ h[i] = g[i - Len(s)]
          /\ i - Len(s) \in 1 .. Len(t)
      BY <1>3, <1>4, <2>2
    <3>2. h[i-1] = g[(i - Len(s)) - 1]
      BY <1>1, <1>2, <1>4, <2>2
    <3>3. QED
      BY <3>1, <3>2, <1>2
  <2>3. QED
    BY <2>1, <2>2
<1> HIDE DEF h
<1>8. QED
  BY <1>3, <1>5, <1>6, <1>7 DEF Path

\* A path with steps left begins with a legal one.
LEMMA Begun ==
  ASSUME NEW s \in Seq(Steps), s # << >>, NEW x \in Held, NEW z \in Held, Path(s, x, z)
  PROVE  /\ Head(s) \in Steps /\ Tail(s) \in Seq(Steps)
         /\ \E y \in Held : Takes(x, Head(s), y) /\ Path(Tail(s), y, z)
<1>1. PICK f \in [0 .. Len(s) -> Held] :
        /\ f[0] = x /\ f[Len(s)] = z
        /\ \A i \in 1 .. Len(s) : s[i] \in Steps /\ Takes(f[i-1], s[i], f[i])
  BY DEF Path
<1>2. /\ Len(s) \in Nat /\ Len(s) >= 1 /\ Head(s) = s[1]
      /\ Tail(s) \in Seq(Steps) /\ Len(Tail(s)) = Len(s) - 1
      /\ \A i \in 1 .. Len(s) - 1 : Tail(s)[i] = s[i+1]
  BY HeadTailProperties, EmptySeq
<1> DEFINE g == [i \in 0 .. Len(s) - 1 |-> f[i+1]]
<1>3. g \in [0 .. Len(Tail(s)) -> Held] /\ g[0] = f[1] /\ g[Len(Tail(s))] = z
  BY <1>1, <1>2
<1>4. ASSUME NEW i \in 1 .. Len(Tail(s))
      PROVE  Tail(s)[i] \in Steps /\ Takes(g[i-1], Tail(s)[i], g[i])
  <2>1. i + 1 \in 1 .. Len(s) /\ Tail(s)[i] = s[i+1] /\ g[i-1] = f[(i+1)-1] /\ g[i] = f[i+1]
    BY <1>2
  <2>2. QED
    BY <2>1, <1>1
<1>5. Takes(x, Head(s), f[1]) /\ f[1] \in Held /\ s[1] \in Steps
  <2>1. 1 \in 1 .. Len(s) /\ 1 - 1 = 0
    BY <1>2
  <2>2. QED
    BY <2>1, <1>1, <1>2
<1> HIDE DEF g
<1>6. Path(Tail(s), f[1], z)
  BY <1>3, <1>4 DEF Path
<1>7. QED
  BY <1>2, <1>5, <1>6

\* Without steps left nothing changes any more.
LEMMA Ended ==
  ASSUME NEW x \in Held, NEW y \in Held, Path(<< >>, x, y) PROVE x = y
BY DEF Path

-----------------------------------------------------------------------------
(* The methods and what a script does. *)

\* Nothing of the store is held; the extension is; it is held alone.
Free  == {x \in Held : x.mode["store"] = "none" /\ x.copied = "none"}
Owned == {x \in Free : x.mode["object"] # "none"}
Alone == {x \in Owned : x.mode["object"] = "exclusive"}

\* A way that is legal for those who hold one of X, and leaves them what they held.
Suits(way, X) == way \in Seq(Steps) /\ \A x \in X : Path(way, x, x)

\* What is held after a step.
LEMMA HeldAfter ==
  /\ Nothing \in Held
  /\ \A x \in Held, l \in Locks, m \in Modes \cup {"none"} : Keeping(x, l, m) \in Held
  /\ \A x \in Held, p \in Parts \cup {"none"} : Copying(x, p) \in Held
BY DEF Nothing, Held, Keeping, Copying

\* The steps of the methods are steps.
LEMMA StepTypes ==
  /\ \A l \in Locks, m \in Modes : Lock(l, m) \in Steps /\ Unlock(l) \in Steps
  /\ \A p \in Parts : Put(p) \in Steps /\ Copy(p) \in Steps
  /\ \A k \in Keys : StoreData(k) \in Steps /\ PartOf(k) \in Parts
  /\ Ask \in Steps /\ Run \in Steps /\ Start \in Steps
<1>1. \A l \in Locks, m \in Modes : Lock(l, m) \in Steps /\ Unlock(l) \in Steps
  BY DEF Locks, Modes, Lock, Unlock, Steps
<1>2. \A p \in Parts : Put(p) \in Steps /\ Copy(p) \in Steps
  BY DEF Put, Copy, Steps
<1>3. \A k \in Keys : StoreData(k) \in Steps /\ PartOf(k) \in Parts
  BY DEF StoreData, Steps, PartOf, Keys, Parts
<1>4. Ask \in Steps /\ Run \in Steps /\ Start \in Steps
  BY DEF Steps
<1>5. QED
  BY <1>1, <1>2, <1>3, <1>4

\* A section under a lock is legal for those who do not hold it, if what is done in
\* it is legal for those who do.
LEMMA Section ==
  ASSUME NEW x \in Held, NEW l \in Locks, NEW m \in Modes, x.mode[l] = "none",
         NEW p \in Parts \cup {"none"}, p # "settings",
         NEW steps \in Seq(Steps), Path(steps, Keeping(x, l, m), Copying(Keeping(x, l, m), p))
  PROVE  /\ << Lock(l, m) >> \o steps \o << Unlock(l) >> \in Seq(Steps)
         /\ Path(<< Lock(l, m) >> \o steps \o << Unlock(l) >>, x, Copying(x, p))
<1> DEFINE in == Keeping(x, l, m)
           out == Copying(in, p)
<1>1. in \in Held /\ out \in Held /\ Copying(x, p) \in Held
  BY HeldAfter
<1>2. Lock(l, m) \in Steps /\ Unlock(l) \in Steps
  BY StepTypes
<1>3. Takes(x, Lock(l, m), in)
  BY DEF Takes
<1>4. << Lock(l, m) >> \in Seq(Steps) /\ Path(<< Lock(l, m) >>, x, in)
  BY <1>1, <1>2, <1>3, OneStep
<1>5. /\ << Lock(l, m) >> \o steps \in Seq(Steps)
      /\ Path(<< Lock(l, m) >> \o steps, x, out)
  BY <1>1, <1>4, Joined
<1>6. Takes(out, Unlock(l), Copying(x, p))
  <2>1. out.mode[l] = m /\ out.copied = p /\ m # "none"
    BY DEF Held, Keeping, Copying, Modes
  <2>2. [out.mode EXCEPT ![l] = "none"] = x.mode
    BY DEF Held, Keeping, Copying
  <2>3. Copying(x, p) = Keeping(out, l, "none")
    BY <2>2 DEF Keeping, Copying
  <2>4. QED
    BY <2>1, <2>3 DEF Takes
<1>7. << Unlock(l) >> \in Seq(Steps) /\ Path(<< Unlock(l) >>, out, Copying(x, p))
  BY <1>1, <1>2, <1>6, OneStep
<1>8. QED
  BY <1>1, <1>5, <1>7, Joined

\* Ways that suit the same are taken one after the other.
LEMMA SuitsJoined ==
  ASSUME NEW X, X \subseteq Held, NEW s, NEW t, Suits(s, X), Suits(t, X)
  PROVE  Suits(s \o t, X)
<1>1. s \in Seq(Steps) /\ t \in Seq(Steps)
  BY DEF Suits
<1>2. s \o t \in Seq(Steps)
  BY <1>1, ConcatProperties
<1>3. ASSUME NEW x \in X PROVE Path(s \o t, x, x)
  BY <1>1, Joined DEF Suits
<1>4. QED
  BY <1>2, <1>3 DEF Suits

\* Whoever may take a way may take it with more in hand.
LEMMA SuitsFewer ==
  ASSUME NEW X, NEW Y, Y \subseteq X, NEW s, Suits(s, X) PROVE Suits(s, Y)
BY DEF Suits

\* Doing nothing suits everybody.
LEMMA SkipSuits == ASSUME NEW X, X \subseteq Held PROVE Suits(<< >>, X)
BY NoStep DEF Suits

\* One step that changes nothing suits those it is legal for.
LEMMA StepSuits ==
  ASSUME NEW X, X \subseteq Held, NEW a \in Steps, \A x \in X : Takes(x, a, x)
  PROVE  Suits(<< a >>, X)
<1>1. << a >> \in Seq(Steps)
  OBVIOUS
<1>2. QED
  BY <1>1, OneStep DEF Suits

\* A section of the store suits those who hold nothing of it.
LEMMA StoreSection ==
  ASSUME NEW m \in Modes, NEW steps \in Seq(Steps),
         \A x \in Free : Path(steps, Keeping(x, "store", m), Keeping(x, "store", m))
  PROVE  Suits(WithStore(m, steps), Free)
<1>1. ASSUME NEW x \in Free
      PROVE  WithStore(m, steps) \in Seq(Steps) /\ Path(WithStore(m, steps), x, x)
  <2>1. x \in Held /\ x.mode["store"] = "none" /\ x.copied = "none"
    BY DEF Free
  <2>2. Copying(x, "none") = x /\ Copying(Keeping(x, "store", m), "none") = Keeping(x, "store", m)
    BY <2>1 DEF Copying, Keeping, Held
  <2>3. QED
    BY <2>1, <2>2, Section, "store" \in Locks, "none" # "settings" DEF WithStore, Locks
<1>2. Nothing \in Free
  BY HeldAfter DEF Nothing, Free, Locks
<1>3. QED
  BY <1>1, <1>2 DEF Suits

\* Reading, and changing a part of, the store.
LEMMA ReadsAndEdits ==
  /\ \A way \in Reads : Suits(way, Free)
  /\ \A p \in Parts : \A way \in Edits(p) : Suits(way, Free)
<1>1. \A x \in Free, m \in Modes : Keeping(x, "store", m) \in Held
  BY HeldAfter DEF Free, Locks
<1>2. Suits(WithStore("shared", << >>), Free)
  <2>1. << >> \in Seq(Steps) /\ "shared" \in Modes
    BY DEF Modes
  <2>2. ASSUME NEW x \in Free
        PROVE  Path(<< >>, Keeping(x, "store", "shared"), Keeping(x, "store", "shared"))
    BY <1>1, <2>1, NoStep
  <2>3. QED
    BY <2>1, <2>2, StoreSection
<1>3. ASSUME NEW p \in Parts PROVE Suits(WithStore("exclusive", << Put(p) >>), Free)
  <2>1. ASSUME NEW x \in Free
        PROVE  LET y == Keeping(x, "store", "exclusive") IN
               Takes(y, Put(p), y)
    BY DEF Takes, Keeping, Free, Held, Locks
  <2>2. Put(p) \in Steps
    BY StepTypes
  <2>3. << Put(p) >> \in Seq(Steps)
    BY <2>2
  <2>4. QED
    BY <1>1, <2>1, <2>2, <2>3, OneStep, StoreSection, "exclusive" \in Modes DEF Modes
<1>4. QED
  BY <1>2, <1>3 DEF Reads, Edits

\* What is copied under the store and stored after it: not the settings.
LEMMA StoredAfterwards ==
  ASSUME NEW k \in {"permissions", "auth"}, NEW m \in Modes, NEW steps \in Seq(Steps),
         \A x \in Free : LET y == Keeping(x, "store", m) IN
           Path(steps, y, Copying(y, PartOf(k)))
  PROVE  Suits(WithStore(m, steps) \o << StoreData(k) >>, Free)
<1>1. PartOf(k) \in Parts /\ PartOf(k) # "settings" /\ k \in Keys /\ StoreData(k) \in Steps
  BY StepTypes DEF PartOf, Keys
<1>2. ASSUME NEW x \in Free
      PROVE  /\ WithStore(m, steps) \o << StoreData(k) >> \in Seq(Steps)
             /\ Path(WithStore(m, steps) \o << StoreData(k) >>, x, x)
  <2>1. x \in Held /\ x.mode["store"] = "none" /\ x.copied = "none"
    BY DEF Free
  <2> DEFINE y == Copying(x, PartOf(k))
  <2>2. y \in Held
    BY <1>1, <2>1, HeldAfter
  <2>3. WithStore(m, steps) \in Seq(Steps) /\ Path(WithStore(m, steps), x, y)
    BY <1>1, <2>1, Section, "store" \in Locks DEF WithStore, Locks
  <2>4. Takes(y, StoreData(k), x)
    <3>1. x = Copying(y, "none") /\ y.copied = PartOf(k)
      BY <2>1 DEF Copying, Held
    <3>2. QED
      BY <1>1, <3>1 DEF Takes
  <2>5. << StoreData(k) >> \in Seq(Steps) /\ Path(<< StoreData(k) >>, y, x)
    BY <1>1, <2>1, <2>2, <2>4, OneStep
  <2>6. QED
    BY <2>1, <2>2, <2>3, <2>5, Joined
<1>3. Nothing \in Free
  BY HeldAfter DEF Nothing, Free, Locks
<1>4. QED
  BY <1>2, <1>3 DEF Suits

\* Persisting the permissions, and accounts that were changed.
LEMMA PersistsSuit ==
  /\ Suits(Persists("permissions"), Free)
  /\ \A way \in EditsAndPersists : Suits(way, Free)
<1>1. ASSUME NEW x \in Free, NEW m \in Modes, NEW p \in Parts
      PROVE  LET y == Keeping(x, "store", m) IN
             /\ y \in Held /\ Copying(y, p) \in Held
             /\ << Copy(p) >> \in Seq(Steps) /\ Path(<< Copy(p) >>, y, Copying(y, p))
  <2> DEFINE y == Keeping(x, "store", m)
  <2>1. x \in Held /\ y \in Held /\ Copying(y, p) \in Held /\ y.mode["store"] = m
    BY HeldAfter DEF Free, Locks, Keeping, Held
  <2>2. Takes(y, Copy(p), Copying(y, p)) /\ Copy(p) \in Steps
    BY <2>1, StepTypes DEF Takes, Modes
  <2> HIDE DEF y
  <2>3. << Copy(p) >> \in Seq(Steps) /\ Path(<< Copy(p) >>, y, Copying(y, p))
    BY <2>1, <2>2, OneStep
  <2>4. QED
    BY <2>1, <2>3 DEF y
<1>2. PartOf("permissions") = "permissions" /\ PartOf("auth") = "auth"
  BY DEF PartOf
<1>3. Suits(Persists("permissions"), Free)
  <2>1. << Copy("permissions") >> \in Seq(Steps)
    BY StepTypes DEF Parts
  <2>2. QED
    BY <1>1, <1>2, <2>1, StoredAfterwards DEF Persists, Parts, Modes
<1>4. Suits(WithStore("exclusive", << Put("auth"), Copy("auth") >>) \o << StoreData("auth") >>, Free)
  <2>1. ASSUME NEW x \in Free
        PROVE  LET y == Keeping(x, "store", "exclusive") IN
               Path(<< Put("auth"), Copy("auth") >>, y, Copying(y, "auth"))
    <3> DEFINE y == Keeping(x, "store", "exclusive")
               trace == [i \in 0 .. 2 |-> IF i = 2 THEN Copying(y, "auth") ELSE y]
               s == << Put("auth"), Copy("auth") >>
    <3>1. y \in Held /\ Copying(y, "auth") \in Held /\ y.mode["store"] = "exclusive" /\ y.copied = "none"
      BY HeldAfter DEF Free, Locks, Keeping, Held, Modes, Parts
    <3>2. Takes(y, Put("auth"), y) /\ Takes(y, Copy("auth"), Copying(y, "auth"))
      BY <3>1 DEF Takes, Parts
    <3>3. Put("auth") \in Steps /\ Copy("auth") \in Steps
      BY StepTypes DEF Parts
    <3> HIDE DEF y
    <3>4. /\ Len(s) = 2 /\ s[1] = Put("auth") /\ s[2] = Copy("auth")
          /\ trace \in [0 .. 2 -> Held] /\ trace[0] = y /\ trace[1] = y
          /\ trace[2] = Copying(y, "auth")
      BY <3>1
    <3> HIDE DEF trace, s
    <3>5. ASSUME NEW i \in 1 .. 2 PROVE s[i] \in Steps /\ Takes(trace[i-1], s[i], trace[i])
      <4>1. (i = 1 /\ i - 1 = 0) \/ (i = 2 /\ i - 1 = 1)
        OBVIOUS
      <4>2. QED
        BY <4>1, <3>2, <3>3, <3>4
    <3>6. Path(s, y, Copying(y, "auth"))
      BY <3>4, <3>5 DEF Path
    <3>7. QED
      BY <3>6 DEF s, y
  <2>2. << Put("auth"), Copy("auth") >> \in Seq(Steps)
    BY StepTypes DEF Parts
  <2>3. QED
    BY <1>2, <2>1, <2>2, StoredAfterwards DEF Modes
<1>5. QED
  BY <1>3, <1>4 DEF EditsAndPersists

\* Saving a part suits those who hold the store.
LEMMA SavesStore ==
  ASSUME NEW k \in Keys, NEW x \in Held, x.mode["store"] # "none", x.copied = "none"
  PROVE  SaveState(k) \in Seq(Steps) /\ Path(SaveState(k), x, x)
<1> DEFINE y == Copying(x, PartOf(k))
           trace == [i \in 0 .. 2 |-> IF i = 1 THEN y ELSE x]
           s == << Copy(PartOf(k)), StoreData(k) >>
<1>1. /\ y \in Held /\ PartOf(k) \in Parts
      /\ Copy(PartOf(k)) \in Steps /\ StoreData(k) \in Steps
  BY HeldAfter, StepTypes
<1>2. Takes(x, Copy(PartOf(k)), y) /\ Takes(y, StoreData(k), x)
  <2>1. y.copied = PartOf(k) /\ x = Copying(y, "none")
    BY DEF Copying, Held
  <2>2. QED
    BY <1>1, <2>1 DEF Takes
<1> HIDE DEF y
<1>3. /\ Len(s) = 2 /\ s[1] = Copy(PartOf(k)) /\ s[2] = StoreData(k) /\ s \in Seq(Steps)
      /\ trace \in [0 .. 2 -> Held] /\ trace[0] = x /\ trace[1] = y /\ trace[2] = x
  BY <1>1
<1> HIDE DEF trace, s
<1>4. ASSUME NEW i \in 1 .. 2 PROVE s[i] \in Steps /\ Takes(trace[i-1], s[i], trace[i])
  <2>1. (i = 1 /\ i - 1 = 0) \/ (i = 2 /\ i - 1 = 1)
    OBVIOUS
  <2>2. QED
    BY <2>1, <1>1, <1>2, <1>3
<1>5. Path(s, x, x)
  BY <1>3, <1>4 DEF Path
<1>6. QED
  BY <1>3, <1>5 DEF s, SaveState

\* Saving the settings, the permissions and the accounts.
LEMMA SavesSuit ==
  \A way \in save_settings \cup save_permissions \cup save_auth_state : Suits(way, Free)
<1> DEFINE In(x) == Keeping(x, "store", "shared")
<1>1. ASSUME NEW x \in Free
      PROVE  In(x) \in Held /\ In(x).mode["store"] # "none" /\ In(x).copied = "none"
  BY HeldAfter DEF Free, Locks, Keeping, Held, Modes
<1>2. ASSUME NEW k \in Keys
      PROVE  SaveState(k) \in Seq(Steps) /\ \A x \in Free : Path(SaveState(k), In(x), In(x))
  <2>1. Nothing \in Free
    BY HeldAfter DEF Nothing, Free, Locks
  <2>2. QED
    BY <1>1, <2>1, SavesStore
<1> DEFINE both == SaveState("extension_settings") \o SaveState("search_settings")
<1>3. both \in Seq(Steps) /\ \A x \in Free : Path(both, In(x), In(x))
  <2>1. "extension_settings" \in Keys /\ "search_settings" \in Keys
    BY DEF Keys
  <2>2. both \in Seq(Steps)
    BY <1>2, <2>1, ConcatProperties
  <2>3. ASSUME NEW x \in Free PROVE Path(both, In(x), In(x))
    <3>1. In(x) \in Held
      BY <1>1
    <3> HIDE DEF In
    <3>2. QED
      BY <3>1, <1>2, <2>1, Joined
  <2>4. QED
    BY <2>2, <2>3
<1> HIDE DEF both
<1>4. Suits(WithStore("shared", both), Free)
  BY <1>3, StoreSection DEF Modes
<1>5. ASSUME NEW k \in Keys PROVE Suits(WithStore("shared", SaveState(k)), Free)
  BY <1>2, StoreSection DEF Modes
<1>6. QED
  BY <1>4, <1>5 DEF save_settings, save_permissions, save_auth_state, both, Keys

\* Asking the application something suits whoever copies nothing; using the script
\* suits those who hold the extension, replacing it those who hold it alone.
LEMMA AskAndRun ==
  /\ Suits(<< Ask >>, Free)
  /\ \A way \in RunsScript : Suits(way, Owned)
  /\ \A way \in set_enabled : Suits(way, Alone)
<1>1. Free \subseteq Held /\ Owned \subseteq Held /\ Alone \subseteq Held
  BY DEF Free, Owned, Alone
<1>2. \A x \in Free : Takes(x, Ask, x)
  BY DEF Free, Takes
<1>3. \A x \in Owned : Takes(x, Run, x)
  BY DEF Owned, Takes, Ready, Run
<1>4. \A x \in Alone : Takes(x, Start, x)
  BY DEF Alone, Owned, Takes, Ready, Start
<1>5. Suits(<< Ask >>, Free) /\ Suits(<< Run >>, Owned) /\ Suits(<< Start >>, Alone)
  BY <1>1, <1>2, <1>3, <1>4, StepTypes, StepSuits
<1>6. Suits(<< >>, Owned) /\ Suits(<< >>, Alone)
  BY <1>1, SkipSuits
<1>7. QED
  BY <1>5, <1>6 DEF RunsScript, set_enabled

\* What a script does while it handles a task is legal for one who holds nothing.
LEMMA ScriptStepsLegal ==
  ASSUME NEW way \in ScriptSteps
  PROVE  way \in Seq(Steps) /\ Path(way, Nothing, Nothing)
<1>1. Nothing \in Free /\ Free \subseteq Held
  BY HeldAfter DEF Nothing, Free, Locks
<1>2. ASSUME NEW read \in Reads,
             NEW then \in {<< >>, << Ask >>} \cup {<< Ask >> \o granted : granted \in Granted("permissions")}
      PROVE  Suits(read \o then, Free)
  <2>1. Suits(read, Free) /\ Suits(<< >>, Free) /\ Suits(<< Ask >>, Free)
    BY <1>1, ReadsAndEdits, SkipSuits, AskAndRun
  <2>2. ASSUME NEW granted \in Granted("permissions") PROVE Suits(<< Ask >> \o granted, Free)
    <3>1. PICK edit \in Edits("permissions") : granted = edit \o Persists("permissions")
      BY DEF Granted, PartOf
    <3>2. Suits(edit, Free)
      BY ReadsAndEdits DEF Parts
    <3>3. Suits(granted, Free)
      BY <1>1, <3>1, <3>2, PersistsSuit, SuitsJoined
    <3>4. QED
      BY <1>1, <2>1, <3>3, SuitsJoined
  <2>3. Suits(then, Free)
    BY <2>1, <2>2
  <2>4. QED
    BY <1>1, <2>1, <2>3, SuitsJoined
<1>3. Suits(way, Free)
  <2>1. CASE way \in getSetting \cup registerSetting
    BY <2>1, ReadsAndEdits DEF getSetting, registerSetting, Parts
  <2>2. CASE way \in setEntrySetting \cup doAction
    BY <2>2, AskAndRun DEF setEntrySetting, doAction
  <2>3. CASE way \in mergeAuth
    BY <2>3, PersistsSuit DEF mergeAuth
  <2>4. CASE way \in requestPermission
    <3> DEFINE Thens == {<< >>, << Ask >>}
                          \cup {<< Ask >> \o granted : granted \in Granted("permissions")}
    <3>1. \A read \in Reads, then \in Thens : Suits(read \o then, Free)
      BY <1>2
    <3>2. requestPermission = {read \o then : read \in Reads, then \in Thens}
      BY DEF requestPermission
    <3> HIDE DEF Thens
    <3>3. \E read \in Reads, then \in Thens : way = read \o then
      BY <2>4, <3>2
    <3>4. QED
      BY <3>1, <3>3
  <2>5. QED
    BY <2>1, <2>2, <2>3, <2>4 DEF ScriptSteps
<1>4. QED
  BY <1>1, <1>3 DEF Suits

\* A method that suits those who share the extension, or have it alone, is legal for
\* one who holds nothing once the generated glue guards it.
LEMMA GuardedLegal ==
  ASSUME NEW m \in Modes, NEW ways, \A way \in ways : Suits(way, IF m = "shared" THEN Owned ELSE Alone),
         NEW way \in Guarded(m, ways)
  PROVE  way \in Seq(Steps) /\ Path(way, Nothing, Nothing)
<1> DEFINE in == Keeping(Nothing, "object", m)
<1>1. PICK inner \in ways : way = << Lock("object", m) >> \o inner \o << Unlock("object") >>
  BY DEF Guarded
<1>2. /\ Nothing \in Held /\ Nothing.mode["object"] = "none" /\ "object" \in Locks
      /\ in \in Held /\ in \in (IF m = "shared" THEN Owned ELSE Alone)
  BY HeldAfter DEF Nothing, Keeping, Held, Owned, Alone, Free, Modes, Locks
<1>3. Copying(in, "none") = in /\ Copying(Nothing, "none") = Nothing
  BY DEF Copying, Keeping, Nothing
<1>4. inner \in Seq(Steps) /\ Path(inner, in, in)
  BY <1>2 DEF Suits
<1> HIDE DEF in
<1>5. QED
  BY <1>1, <1>2, <1>3, <1>4, Section, "none" # "settings" DEF in

\* Every method is legal for one who holds nothing, and leaves it nothing.
LEMMA MethodsLegal ==
  ASSUME NEW way \in Methods
  PROVE  way \in Seq(Steps) /\ Path(way, Nothing, Nothing)
<1> DEFINE Fine(ways) == \A w \in ways : w \in Seq(Steps) /\ Path(w, Nothing, Nothing)
<1>1. /\ Free \subseteq Held /\ Owned \subseteq Free /\ Alone \subseteq Owned
      /\ Owned \subseteq Held /\ Alone \subseteq Held
  BY DEF Free, Owned, Alone
<1>2. ASSUME NEW ways, \A w \in ways : Suits(w, Free) PROVE Fine(Shared(ways)) /\ Fine(Exclusive(ways))
  <2>1. ASSUME NEW w \in ways PROVE Suits(w, Owned) /\ Suits(w, Alone)
    BY <1>1, <1>2, SuitsFewer
  <2>2. QED
    BY <2>1, GuardedLegal DEF Shared, Exclusive, Modes
<1>3. ASSUME NEW ways, \A w \in ways : Suits(w, Owned) PROVE Fine(Shared(ways))
  BY <1>3, GuardedLegal DEF Shared, Modes
<1>4. ASSUME NEW ways, \A w \in ways : Suits(w, Alone) PROVE Fine(Exclusive(ways))
  BY <1>4, GuardedLegal DEF Exclusive, Modes
<1>5. Suits(<< >>, Free) /\ Suits(<< Ask >>, Free) /\ Suits(Persists("permissions"), Free)
  BY <1>1, SkipSuits, AskAndRun, PersistsSuit
<1>6. Fine(Readers)
  <2>1. Fine(Shared(Reads))
    BY <1>2, ReadsAndEdits
  <2>2. Fine(Shared({<< >>}))
    BY <1>2, <1>5
  <2> HIDE DEF Fine
  <2>3. QED
    BY <2>1, <2>2
       DEF Fine, Readers, wire_get_setting, wire_get_setting_ids, wire_get_settings,
           wire_get_extension_data, wire_has_permission, wire_get_permissions,
           wire_get_accounts, wire_is_logged_in, wire_is_enabled, wire_storage_usage,
           wire_clear_cache, get_setting, get_setting_ids, get_settings, get_extension_data,
           has_permission, get_permissions, get_accounts, is_logged_in, is_enabled,
           storage_usage, clear_cache
<1>7. Fine(Editors)
  <2>1. Fine(Shared(Edits("settings"))) /\ Fine(Shared(Edits("permissions")))
    BY <1>2, ReadsAndEdits DEF Parts
  <2>2. Fine(Shared(grant_permissions))
    <3>1. ASSUME NEW edit \in Edits("permissions")
          PROVE  Suits(edit \o Persists("permissions"), Free)
      BY <1>1, <1>5, ReadsAndEdits, SuitsJoined DEF Parts
    <3>2. \A w \in grant_permissions : Suits(w, Free)
      BY <3>1 DEF grant_permissions
    <3>3. QED
      BY <1>2, <3>2
  <2> HIDE DEF Fine
  <2>3. QED
    BY <2>1, <2>2
       DEF Fine, Editors, wire_set_setting, wire_remove_setting, wire_merge_setting_definition,
           wire_remove_permission, wire_grant_permissions, set_setting, remove_setting,
           merge_setting_definition, remove_permission
<1>8. Fine(Savers)
  <2>1. Fine(Shared(save_settings)) /\ Fine(Shared(save_permissions)) /\ Fine(Shared(save_auth_state))
    BY <1>2, SavesSuit
  <2> HIDE DEF Fine
  <2>2. QED
    BY <2>1 DEF Fine, Savers, wire_save_settings, wire_save_permissions, wire_save_auth_state
<1>9. Fine(LogIns)
  <2>1. Fine(Exclusive(Edits("auth")))
    BY <1>2, ReadsAndEdits DEF Parts
  <2>2. Fine(Shared(validate))
    <3>1. ASSUME NEW edit \in Edits("auth"), NEW run \in RunsScript
          PROVE  Suits(edit \o run \o edit, Owned)
      <4>1. Suits(edit, Owned) /\ Suits(run, Owned)
        BY <1>1, ReadsAndEdits, AskAndRun, SuitsFewer DEF Parts
      <4>2. QED
        BY <1>1, <4>1, SuitsJoined
    <3>2. \A w \in validate : Suits(w, Owned)
      <4>1. ASSUME NEW w \in validate
            PROVE  \E edit \in Edits("auth"), run \in RunsScript : w = edit \o run \o edit
        BY DEF validate
      <4>2. QED
        BY <3>1, <4>1
    <3>3. QED
      BY <1>3, <3>2
  <2> HIDE DEF Fine
  <2>3. QED
    BY <2>1, <2>2
       DEF Fine, LogIns, wire_validate, wire_invalidate, wire_merge_auth, invalidate, merge_auth
<1>10. Fine(Calls)
  <2>1. Fine(Shared(RunsScript))
    BY <1>3, AskAndRun
  <2> HIDE DEF Fine
  <2>2. QED
    BY <2>1
       DEF Fine, Calls, wire_event, wire_browse, wire_search, wire_handle_url, wire_detail,
           wire_refresh, wire_source, wire_map_entry, wire_map_source, wire_on_entry_activity,
           event, browse, search, handle_url, detail, refresh, source, map_entry,
           map_source, on_entry_activity
<1>11. Fine(Switches)
  <2>1. Fine(Exclusive(set_enabled))
    BY <1>4, AskAndRun
  <2>2. Fine(Exclusive(reload))
    <3>1. Suits(<< >>, Alone)
      BY <1>1, SkipSuits
    <3>2. Suits(WithStore("exclusive", << >>), Alone)
      <4>1. ASSUME NEW x \in Free
            PROVE  Path(<< >>, Keeping(x, "store", "exclusive"), Keeping(x, "store", "exclusive"))
        BY HeldAfter, NoStep DEF Free, Locks, Modes
      <4>2. << >> \in Seq(Steps) /\ "exclusive" \in Modes
        BY DEF Modes
      <4>3. Suits(WithStore("exclusive", << >>), Free)
        BY <4>1, <4>2, StoreSection
      <4>4. QED
        BY <1>1, <4>3, SuitsFewer
    <3>3. \A w \in reload : Suits(w, Alone)
      <4>1. ASSUME NEW enable \in set_enabled
            PROVE  Suits(WithStore("exclusive", << >>) \o enable, Alone)
        BY <1>1, <3>2, AskAndRun, SuitsJoined
      <4>2. QED
        BY <3>1, <4>1 DEF reload
    <3>4. QED
      BY <1>4, <3>3
  <2>3. Fine(Shared(uninstall))
    <3>1. << Ask >> \in Seq(Steps) /\ "shared" \in Modes
      BY StepTypes DEF Modes
    <3>2. ASSUME NEW x \in Free
          PROVE  Path(<< Ask >>, Keeping(x, "store", "shared"), Keeping(x, "store", "shared"))
      <4>1. /\ Keeping(x, "store", "shared") \in Held
            /\ Takes(Keeping(x, "store", "shared"), Ask, Keeping(x, "store", "shared"))
        BY HeldAfter DEF Free, Locks, Modes, Takes, Keeping
      <4>2. QED
        BY <4>1, StepTypes, OneStep
    <3>3. Suits(WithStore("shared", << Ask >>), Free)
      BY <3>1, <3>2, StoreSection
    <3>4. QED
      BY <1>2, <3>3 DEF uninstall
  <2> HIDE DEF Fine
  <2>4. QED
    BY <2>1, <2>2, <2>3
       DEF Fine, Switches, wire_set_enabled, wire_reload, wire_uninstall
<1>12. QED
  BY <1>6, <1>7, <1>8, <1>9, <1>10, <1>11 DEF Methods

-----------------------------------------------------------------------------
(* The invariant. *)

Entry == [who : Actors, mode : Modes]

\* The entry at i of a line holds the lock.
Admitted(l, i) == i = 1 \/ \A j \in 1 .. i : line[l][j].mode = "shared"

Queues(a, l, m) == \E i \in DOMAIN line[l] : line[l][i] = [who |-> a, mode |-> m]

Enjoys(a, l, m) ==
  \E i \in DOMAIN line[l] : line[l][i] = [who |-> a, mode |-> m] /\ Admitted(l, i)

\* The steps an actor has left lead from what it holds to nothing; a task it waits
\* for is one it could have the script do.
Leads(a, x) ==
  \/ Path(todo[a], x, Nothing)
  \/ /\ todo[a] # << >> /\ Path(Tail(todo[a]), x, Nothing)
     /\ \E what \in {"run", "start"} : Head(todo[a]) = Await(what) /\ Ready(x, what)

\* An actor holds the locks x says, is in no other line but that of the lock it is
\* about to take, and has copied what x says; the settings are still those.
Backed(a, x) ==
  /\ \A l \in Locks : x.mode[l] # "none" => Enjoys(a, l, x.mode[l])
  /\ \A l \in Locks, m \in Modes :
       Queues(a, l, m) => \/ x.mode[l] # "none"
                          \/ todo[a] # << >> /\ Head(todo[a]) = Lock(l, m)
  /\ x.copied \in Parts => copy[a] <= store[x.copied]
  /\ x.copied = "settings" => x.mode["store"] # "none" /\ copy[a] = store["settings"]

Orderly(a) == \E x \in Held : Leads(a, x) /\ Backed(a, x)

Types ==
  /\ host \in Hosts
  /\ todo \in [Actors -> Seq(Steps)]
  /\ parent \in [Callers -> Actors \cup {None}] /\ called \in [Actors -> BOOLEAN]
  /\ made \in 0 .. MaxScript
  /\ store \in [Parts -> Nat] /\ \A p \in Parts : store[p] <= MaxVersion[p]
  /\ copy \in [Actors -> Nat]
  /\ disk \in [Keys -> Nat] /\ \A k \in Keys : disk[k] <= store[PartOf(k)]

LineTypes ==
  /\ line \in [Locks -> Seq(Entry)]
  /\ \A l \in Locks : \A i, j \in DOMAIN line[l] : line[l][i].who = line[l][j].who => i = j

\* The tasks are those of the callers that wait for one, each once.
TasksAwaited ==
  /\ tasks \in Seq(Callers)
  /\ \A i, j \in DOMAIN tasks : tasks[i] = tasks[j] => i = j
  /\ \A c \in Callers : At(c, "await") <=> \E i \in DOMAIN tasks : tasks[i] = c

Inv == Types /\ LineTypes /\ TasksAwaited /\ \A a \in Actors : Orderly(a)

-----------------------------------------------------------------------------
(* What the steps say about what is held. *)

\* Which step is taken says what it changes in what is held.
LEMMA TakesWhat ==
  ASSUME NEW x \in Held, NEW y \in Held, NEW s \in Steps, Takes(x, s, y)
  PROVE  /\ s.do = "lock" => /\ s.on \in Locks /\ s.mode \in Modes /\ s = Lock(s.on, s.mode)
                             /\ x.mode[s.on] = "none" /\ y = Keeping(x, s.on, s.mode)
         /\ s.do = "unlock" => /\ s.on \in Locks /\ s = Unlock(s.on) /\ x.mode[s.on] # "none"
                               /\ y = Keeping(x, s.on, "none")
                               /\ s.on = "store" => x.copied # "settings"
         /\ s.do = "put" => /\ s.part \in Parts /\ x.mode["store"] = "exclusive"
                            /\ x.copied # "settings" /\ y = x
         /\ s.do = "copy" => /\ s.part \in Parts /\ x.mode["store"] # "none"
                             /\ y = Copying(x, s.part)
         /\ s.do = "store" => /\ s.key \in Keys /\ x.copied = PartOf(s.key)
                              /\ y = Copying(x, "none")
         /\ s.do = "ask" => x.copied = "none" /\ y = x
         /\ \A what \in {"run", "start"} : s.do = what => Ready(x, what) /\ y = x /\ s = [do |-> what]
         /\ s.do # "await"
<1>1. CASE \E l \in Locks, m \in Modes :
             s = Lock(l, m) /\ x.mode[l] = "none" /\ y = Keeping(x, l, m)
  BY <1>1 DEF Lock
<1>2. CASE \E l \in Locks :
             /\ s = Unlock(l) /\ x.mode[l] # "none" /\ y = Keeping(x, l, "none")
             /\ l = "store" => x.copied # "settings"
  BY <1>2 DEF Unlock
<1>3. CASE \E p \in Parts :
             s = Put(p) /\ x.mode["store"] = "exclusive" /\ x.copied # "settings" /\ y = x
  BY <1>3 DEF Put
<1>4. CASE \E p \in Parts : s = Copy(p) /\ x.mode["store"] # "none" /\ y = Copying(x, p)
  BY <1>4 DEF Copy
<1>5. CASE \E k \in Keys : s = StoreData(k) /\ x.copied = PartOf(k) /\ y = Copying(x, "none")
  BY <1>5 DEF StoreData
<1>6. CASE s = Ask /\ x.copied = "none" /\ y = x
  BY <1>6 DEF Ask
<1>7. CASE \E what \in {"run", "start"} : s = [do |-> what] /\ Ready(x, what) /\ y = x
  BY <1>7
<1>8. QED
  BY <1>1, <1>2, <1>3, <1>4, <1>5, <1>6, <1>7 DEF Takes

\* An actor takes its next step from what it holds.
LEMMA NextStep ==
  ASSUME Types, NEW a \in Actors, NEW x \in Held, Leads(a, x), todo[a] # << >>
  PROVE  /\ Head(todo[a]) \in Steps /\ Tail(todo[a]) \in Seq(Steps)
         /\ Head(todo[a]).do # "await" =>
              \E y \in Held : Takes(x, Head(todo[a]), y) /\ Path(Tail(todo[a]), y, Nothing)
         /\ Head(todo[a]).do = "await" =>
              /\ Path(Tail(todo[a]), x, Nothing)
              /\ \E what \in {"run", "start"} : Head(todo[a]) = Await(what) /\ Ready(x, what)
<1>1. todo[a] \in Seq(Steps) /\ Nothing \in Held
  BY HeldAfter DEF Types
<1>2. Head(todo[a]) \in Steps /\ Tail(todo[a]) \in Seq(Steps)
  BY <1>1
<1>3. CASE Path(todo[a], x, Nothing)
  <2>1. PICK y \in Held : Takes(x, Head(todo[a]), y) /\ Path(Tail(todo[a]), y, Nothing)
    BY <1>1, <1>3, Begun
  <2>2. Head(todo[a]).do # "await"
    BY <1>2, <2>1, TakesWhat
  <2>3. QED
    BY <1>2, <2>1, <2>2
<1>4. CASE /\ Path(Tail(todo[a]), x, Nothing)
           /\ \E what \in {"run", "start"} : Head(todo[a]) = Await(what) /\ Ready(x, what)
  <2>1. Head(todo[a]).do = "await"
    BY <1>4 DEF Await
  <2>2. QED
    BY <1>2, <1>4, <2>1
<1>5. QED
  BY <1>3, <1>4 DEF Leads

\* An actor without steps left holds nothing.
LEMMA NothingLeft ==
  ASSUME NEW a \in Actors, NEW x \in Held, Leads(a, x), todo[a] = << >>
  PROVE  x = Nothing
BY HeldAfter, Ended DEF Leads

\* Who has a lock alone is the only one who has it.
LEMMA Exclusion ==
  ASSUME LineTypes, NEW l \in Locks, NEW a \in Actors, NEW b \in Actors, NEW m \in Modes,
         Enjoys(a, l, "exclusive"), Enjoys(b, l, m)
  PROVE  a = b
<1>1. PICK i \in DOMAIN line[l] :
        line[l][i] = [who |-> a, mode |-> "exclusive"] /\ Admitted(l, i)
  BY DEF Enjoys
<1>2. PICK j \in DOMAIN line[l] : line[l][j] = [who |-> b, mode |-> m] /\ Admitted(l, j)
  BY DEF Enjoys
<1>3. DOMAIN line[l] = 1 .. Len(line[l]) /\ Len(line[l]) \in Nat
  BY DEF LineTypes
<1>4. i \in 1 .. i /\ line[l][i].mode # "shared"
  BY <1>1, <1>3
<1>5. i = 1
  BY <1>1, <1>4 DEF Admitted
<1>6. j = 1
  BY <1>1, <1>2, <1>3, <1>4, <1>5 DEF Admitted
<1>7. QED
  BY <1>1, <1>2, <1>5, <1>6

\* The lines as they concern one actor: it keeps what it has, and gets nowhere new.
Unmoved(b) ==
  \A l \in Locks, m \in Modes :
    (Enjoys(b, l, m) => Enjoys(b, l, m)') /\ (Queues(b, l, m)' => Queues(b, l, m))

\* The store grows, and changes only while nobody else holds it.
StoreKept(b) ==
  /\ \A p \in Parts : store[p] <= store'[p]
  /\ store'["settings"] # store["settings"] => \A m \in Modes : ~Enjoys(b, "store", m)

\* Whoever is not at work keeps what it holds.
LEMMA OthersStay ==
  ASSUME Types, Types', NEW b \in Actors, Orderly(b), Unmoved(b), StoreKept(b),
         todo'[b] = todo[b], copy'[b] = copy[b]
  PROVE  Orderly(b)'
<1>1. PICK x \in Held : Leads(b, x) /\ Backed(b, x)
  BY DEF Orderly
<1>2. Leads(b, x)'
  BY <1>1 DEF Leads
<1>3. \A l \in Locks : x.mode[l] # "none" => x.mode[l] \in Modes
  BY DEF Held
<1>4. \A l \in Locks : x.mode[l] # "none" => Enjoys(b, l, x.mode[l])'
  BY <1>1, <1>3 DEF Backed, Unmoved
<1>5. \A l \in Locks, m \in Modes :
        Queues(b, l, m)' => \/ x.mode[l] # "none"
                            \/ todo'[b] # << >> /\ Head(todo'[b]) = Lock(l, m)
  <2>1. \A l \in Locks, m \in Modes :
          Queues(b, l, m) => \/ x.mode[l] # "none"
                             \/ todo[b] # << >> /\ Head(todo[b]) = Lock(l, m)
    BY <1>1 DEF Backed
  <2>2. \A l \in Locks, m \in Modes : Queues(b, l, m)' => Queues(b, l, m)
    BY DEF Unmoved
  <2>3. QED
    BY <2>1, <2>2
<1>6. x.copied \in Parts => copy'[b] <= store'[x.copied]
  <2>1. ASSUME x.copied \in Parts PROVE copy[b] <= store[x.copied] /\ store[x.copied] <= store'[x.copied]
    BY <1>1, <2>1 DEF Backed, StoreKept
  <2>2. QED
    BY <2>1 DEF Types
<1>7. x.copied = "settings" => x.mode["store"] # "none" /\ copy'[b] = store'["settings"]
  <2>1. ASSUME x.copied = "settings" PROVE x.mode["store"] # "none" /\ copy[b] = store["settings"]
    BY <1>1, <2>1 DEF Backed
  <2>2. ASSUME x.copied = "settings" PROVE store'["settings"] = store["settings"]
    BY <2>1, <2>2, <1>1, <1>3 DEF Backed, StoreKept, Locks
  <2>3. QED
    BY <2>1, <2>2
<1>8. Backed(b, x)'
  BY <1>4, <1>5, <1>6, <1>7 DEF Backed
<1>9. QED
  BY <1>2, <1>8 DEF Orderly

\* Lines that stay as they are move nobody.
LEMMA SameLines == ASSUME line' = line, NEW b PROVE Unmoved(b)
BY DEF Unmoved, Enjoys, Queues, Admitted

\* The same of the store.
LEMMA SameStore == ASSUME Types, store' = store, NEW b PROVE StoreKept(b)
BY DEF StoreKept, Types

\* One more at the end of a line moves nobody else.
LEMMA Arrived ==
  ASSUME LineTypes, NEW a \in Actors, NEW l \in Locks, NEW m \in Modes, ~InLine(a, l),
         line' = [line EXCEPT ![l] = Append(@, [who |-> a, mode |-> m])]
  PROVE  /\ LineTypes'
         /\ \A b \in Actors \ {a} : Unmoved(b)
         /\ \A k \in Locks, n \in Modes : Enjoys(a, k, n) => Enjoys(a, k, n)'
         /\ \A k \in Locks, n \in Modes :
              Queues(a, k, n)' => Queues(a, k, n) \/ (k = l /\ n = m)
<1> DEFINE e == [who |-> a, mode |-> m]
           last == Len(line[l]) + 1
<1>1. /\ line \in [Locks -> Seq(Entry)] /\ e \in Entry /\ Len(line[l]) \in Nat
      /\ DOMAIN line[l] = 1 .. Len(line[l])
  <2>1. e \in Entry
    BY DEF Entry
  <2>2. QED
    BY <2>1 DEF LineTypes
<1>2. /\ line' \in [Locks -> Seq(Entry)] /\ \A k \in Locks \ {l} : line'[k] = line[k]
      /\ line'[l] = Append(line[l], e)
  BY <1>1
<1>3. /\ DOMAIN line'[l] = 1 .. last
      /\ \A i \in 1 .. Len(line[l]) : line'[l][i] = line[l][i]
      /\ line'[l][last] = e
  BY <1>1, <1>2
<1>4. \A i \in 1 .. Len(line[l]) : line[l][i].who # a
  BY <1>1 DEF InLine
<1>5. ASSUME NEW k \in Locks, NEW i \in DOMAIN line'[k], NEW j \in DOMAIN line'[k],
             line'[k][i].who = line'[k][j].who
      PROVE  i = j
  <2>1. CASE k # l
    BY <1>2, <1>5, <2>1 DEF LineTypes
  <2>2. CASE k = l
    <3>1. i \in DOMAIN line[l] \/ i = last
      BY <1>1, <1>3, <2>2
    <3>2. j \in DOMAIN line[l] \/ j = last
      BY <1>1, <1>3, <2>2
    <3>3. ASSUME i \in DOMAIN line[l], j \in DOMAIN line[l] PROVE i = j
      <4>1. line[l][i].who = line[l][j].who
        BY <1>1, <1>3, <1>5, <2>2, <3>3
      <4>2. QED
        BY <3>3, <4>1 DEF LineTypes
    <3>4. ~(i = last /\ j \in DOMAIN line[l]) /\ ~(j = last /\ i \in DOMAIN line[l])
      BY <1>1, <1>3, <1>4, <1>5, <2>2
    <3>5. QED
      BY <3>1, <3>2, <3>3, <3>4
  <2>3. QED
    BY <2>1, <2>2
<1>6. LineTypes'
  BY <1>2, <1>5 DEF LineTypes
<1>7. ASSUME NEW b \in Actors, NEW k \in Locks, NEW n \in Modes, Enjoys(b, k, n)
      PROVE  Enjoys(b, k, n)'
  <2>1. CASE k # l
    BY <1>2, <1>7, <2>1 DEF Enjoys, Admitted
  <2>2. CASE k = l
    <3>1. PICK i \in DOMAIN line[l] : line[l][i] = [who |-> b, mode |-> n] /\ Admitted(l, i)
      BY <1>7, <2>2 DEF Enjoys
    <3>2. i \in DOMAIN line'[l] /\ line'[l][i] = line[l][i]
      BY <1>1, <1>3
    <3>3. Admitted(l, i)'
      BY <1>1, <1>3, <3>1 DEF Admitted
    <3>4. QED
      BY <2>2, <3>1, <3>2, <3>3 DEF Enjoys
  <2>3. QED
    BY <2>1, <2>2
<1>8. ASSUME NEW b \in Actors, NEW k \in Locks, NEW n \in Modes, Queues(b, k, n)'
      PROVE  Queues(b, k, n) \/ (b = a /\ k = l /\ n = m)
  <2>1. CASE k # l
    BY <1>2, <1>8, <2>1 DEF Queues
  <2>2. CASE k = l
    <3>1. PICK i \in DOMAIN line'[l] : line'[l][i] = [who |-> b, mode |-> n]
      BY <1>8, <2>2 DEF Queues
    <3>2. CASE i = last
      BY <1>3, <2>2, <3>1, <3>2
    <3>3. CASE i # last
      <4>1. i \in DOMAIN line[l] /\ line[l][i] = [who |-> b, mode |-> n]
        BY <1>1, <1>3, <3>1, <3>3
      <4>2. QED
        BY <2>2, <4>1 DEF Queues
    <3>4. QED
      BY <3>2, <3>3
  <2>3. QED
    BY <2>1, <2>2
<1>9. QED
  BY <1>6, <1>7, <1>8 DEF Unmoved

\* One that leaves a line moves nobody else, and is in that line no more.
LEMMA LeftLine ==
  ASSUME LineTypes, NEW a \in Actors, NEW l \in Locks, NEW i \in DOMAIN line[l],
         line[l][i].who = a, line' = [line EXCEPT ![l] = RemoveAt(@, i)]
  PROVE  /\ LineTypes'
         /\ \A b \in Actors \ {a} : Unmoved(b)
         /\ \A k \in Locks \ {l}, n \in Modes :
              (Enjoys(a, k, n) => Enjoys(a, k, n)') /\ (Queues(a, k, n)' => Queues(a, k, n))
         /\ \A n \in Modes : ~Queues(a, l, n)'
<1> DEFINE n == Len(line[l])
           old(j) == IF j < i THEN j ELSE j + 1
<1>1. /\ line \in [Locks -> Seq(Entry)] /\ line[l] \in Seq(Entry) /\ n \in Nat
      /\ DOMAIN line[l] = 1 .. n /\ i \in 1 .. n
  BY DEF LineTypes
<1>2. /\ RemoveAt(line[l], i) \in Seq(Entry) /\ Len(RemoveAt(line[l], i)) = n - 1
      /\ \A j \in 1 .. n - 1 : RemoveAt(line[l], i)[j] = line[l][old(j)]
  <2> DEFINE p == SubSeq(line[l], 1, i - 1)
             q == SubSeq(line[l], i + 1, n)
  <2>1. /\ p \in Seq(Entry) /\ Len(p) = i - 1
        /\ \A j \in 1 .. i - 1 : p[j] = line[l][j]
    BY <1>1
  <2>2. /\ q \in Seq(Entry) /\ Len(q) = n - i
        /\ \A j \in 1 .. n - i : q[j] = line[l][i + j]
    BY <1>1
  <2> HIDE DEF p, q
  <2>3. /\ p \o q \in Seq(Entry) /\ Len(p \o q) = (i - 1) + (n - i)
        /\ \A j \in 1 .. (i - 1) + (n - i) :
             (p \o q)[j] = IF j <= i - 1 THEN p[j] ELSE q[j - (i - 1)]
    <3>1. /\ p \o q \in Seq(Entry) /\ Len(p \o q) = Len(p) + Len(q)
          /\ \A j \in 1 .. Len(p) + Len(q) :
               (p \o q)[j] = IF j <= Len(p) THEN p[j] ELSE q[j - Len(p)]
      BY <2>1, <2>2, ConcatProperties
    <3>2. QED
      BY <2>1, <2>2, <3>1
  <2>4. (i - 1) + (n - i) = n - 1
    BY <1>1
  <2>5. ASSUME NEW j \in 1 .. n - 1 PROVE (p \o q)[j] = line[l][old(j)]
    <3>1. (p \o q)[j] = IF j <= i - 1 THEN p[j] ELSE q[j - (i - 1)]
      BY <2>3, <2>4
    <3>2. CASE j < i
      BY <1>1, <2>1, <3>1, <3>2
    <3>3. CASE ~(j < i)
      <4>1. j - (i - 1) \in 1 .. n - i /\ i + (j - (i - 1)) = j + 1 /\ ~(j <= i - 1)
        BY <1>1, <3>3
      <4>2. QED
        BY <2>2, <3>1, <3>3, <4>1
    <3>4. QED
      BY <3>2, <3>3
  <2>6. RemoveAt(line[l], i) = p \o q
    BY DEF RemoveAt, p, q
  <2>7. QED
    BY <2>3, <2>4, <2>5, <2>6
<1>3. /\ line' \in [Locks -> Seq(Entry)] /\ \A k \in Locks \ {l} : line'[k] = line[k]
      /\ DOMAIN line'[l] = 1 .. n - 1
      /\ \A j \in 1 .. n - 1 : line'[l][j] = line[l][old(j)]
  BY <1>1, <1>2
<1>4. \A j \in 1 .. n - 1 : old(j) \in 1 .. n /\ old(j) # i
  BY <1>1
<1>5. LineTypes'
  <2>1. ASSUME NEW k \in Locks, NEW j \in DOMAIN line'[k], NEW h \in DOMAIN line'[k],
               line'[k][j].who = line'[k][h].who
        PROVE  j = h
    <3>1. CASE k # l
      BY <1>3, <2>1, <3>1 DEF LineTypes
    <3>2. CASE k = l
      <4>1. old(j) = old(h)
        <5>1. j \in 1 .. n - 1 /\ h \in 1 .. n - 1
          BY <1>3, <3>2
        <5>2. /\ line[l][old(j)].who = line[l][old(h)].who
              /\ old(j) \in DOMAIN line[l] /\ old(h) \in DOMAIN line[l]
          BY <1>1, <1>3, <1>4, <2>1, <3>2, <5>1
        <5> HIDE DEF old
        <5>3. QED
          BY <5>2 DEF LineTypes
      <4>2. QED
        BY <1>1, <1>3, <2>1, <3>2, <4>1
    <3>3. QED
      BY <3>1, <3>2
  <2>2. QED
    BY <1>3, <2>1 DEF LineTypes
<1>6. ASSUME NEW b \in Actors, NEW k \in Locks, NEW m \in Modes, Enjoys(b, k, m), b # a \/ k # l
      PROVE  Enjoys(b, k, m)'
  <2>1. CASE k # l
    BY <1>3, <1>6, <2>1 DEF Enjoys, Admitted
  <2>2. CASE k = l
    <3>1. PICK j \in 1 .. n : line[l][j] = [who |-> b, mode |-> m] /\ Admitted(l, j)
      BY <1>1, <1>6, <2>2 DEF Enjoys
    <3>2. j # i
      BY <1>6, <2>2, <3>1
    <3>3. CASE j < i
      <4>1. j \in 1 .. n - 1 /\ line'[l][j] = line[l][j]
        BY <1>1, <1>3, <3>3
      <4>2. Admitted(l, j)'
        BY <1>1, <1>3, <3>1, <3>3 DEF Admitted
      <4>3. QED
        BY <1>3, <2>2, <3>1, <4>1, <4>2 DEF Enjoys
    <3>4. CASE j > i
      <4>1. j - 1 \in 1 .. n - 1 /\ old(j - 1) = j
        BY <1>1, <3>4
      <4>2. line'[l][j - 1] = line[l][j]
        BY <1>3, <4>1
      <4>3. \A h \in 1 .. j : line[l][h].mode = "shared"
        BY <1>1, <3>1, <3>4 DEF Admitted
      <4>4. \A h \in 1 .. j - 1 : old(h) \in 1 .. j /\ h \in 1 .. n - 1
        BY <1>1, <3>4
      <4>5. Admitted(l, j - 1)'
        BY <1>3, <4>3, <4>4 DEF Admitted
      <4>6. QED
        BY <1>3, <2>2, <3>1, <4>1, <4>2, <4>5 DEF Enjoys
    <3>5. QED
      BY <1>1, <3>2, <3>3, <3>4
  <2>3. QED
    BY <2>1, <2>2
<1>7. ASSUME NEW b \in Actors, NEW k \in Locks, NEW m \in Modes, Queues(b, k, m)'
      PROVE  Queues(b, k, m) /\ (b # a \/ k # l)
  <2>1. CASE k # l
    BY <1>3, <1>7, <2>1 DEF Queues
  <2>2. CASE k = l
    <3>1. PICK j \in 1 .. n - 1 : line'[l][j] = [who |-> b, mode |-> m]
      BY <1>3, <1>7, <2>2 DEF Queues
    <3>2. line[l][old(j)] = [who |-> b, mode |-> m] /\ old(j) \in DOMAIN line[l] /\ old(j) # i
      BY <1>1, <1>3, <1>4, <3>1
    <3>3. b # a
      BY <1>1, <3>2 DEF LineTypes
    <3>4. QED
      BY <2>2, <3>2, <3>3 DEF Queues
  <2>3. QED
    BY <2>1, <2>2
<1>8. QED
  BY <1>5, <1>6, <1>7 DEF Unmoved

-----------------------------------------------------------------------------
(* Each step keeps the invariant. *)

\* Nobody has begun anything.
LEMMA Initially == Init => Inv
<1> SUFFICES ASSUME Init PROVE Inv
  OBVIOUS
<1>1. Types
  BY BindingsAssumption DEF Init, Types, PartOf, Parts, Keys
<1>2. LineTypes
  <2>1. line = [l \in Locks |-> << >>] /\ << >> \in Seq(Entry)
    BY DEF Init, Locks
  <2>2. QED
    BY <2>1 DEF LineTypes
<1>3. TasksAwaited
  BY DEF Init, TasksAwaited, At, Actors
<1>4. ASSUME NEW a \in Actors PROVE Orderly(a)
  <2>1. Leads(a, Nothing)
    BY HeldAfter, NoStep DEF Init, Leads
  <2>2. Backed(a, Nothing)
    BY DEF Init, Backed, Nothing, Queues, Locks, Parts
  <2>3. QED
    BY <2>1, <2>2, HeldAfter DEF Orderly
<1>5. QED
  BY <1>1, <1>2, <1>3, <1>4 DEF Inv

\* Steps that no caller waits for leave the tasks as they are.
LEMMA SameTasks ==
  ASSUME TasksAwaited, tasks' = tasks, \A c \in Callers : At(c, "await")' <=> At(c, "await")
  PROVE  TasksAwaited'
BY DEF TasksAwaited

\* One that takes a step other than an await comes to no other await.
LEMMA NoNewAwait ==
  ASSUME Types, NEW a \in Actors, NEW y \in Held, Path(Tail(todo[a]), y, Nothing),
         todo[a] # << >>, Head(todo[a]) \in Steps, Head(todo[a]).do # "await",
         todo' = [todo EXCEPT ![a] = Tail(@)]
  PROVE  /\ todo' \in [Actors -> Seq(Steps)] /\ todo'[a] = Tail(todo[a])
         /\ \A b \in Actors \ {a} : todo'[b] = todo[b]
         /\ \A b \in Actors : At(b, "await")' <=> At(b, "await")
<1>1. /\ todo' \in [Actors -> Seq(Steps)] /\ todo'[a] = Tail(todo[a])
      /\ \A b \in Actors \ {a} : todo'[b] = todo[b]
  BY DEF Types
<1>2. ~At(a, "await")'
  <2>1. ASSUME Tail(todo[a]) # << >> PROVE Head(Tail(todo[a])).do # "await"
    <3>1. Tail(todo[a]) \in Seq(Steps)
      BY <1>1
    <3>2. /\ Head(Tail(todo[a])) \in Steps
          /\ \E z \in Held : Takes(y, Head(Tail(todo[a])), z)
      BY <2>1, <3>1, HeldAfter, Begun
    <3> DEFINE next == Head(Tail(todo[a]))
    <3>3. PICK z \in Held : Takes(y, next, z)
      BY <3>2
    <3>4. next \in Steps
      BY <3>2
    <3> HIDE DEF next
    <3>5. next.do # "await"
      BY <3>3, <3>4, TakesWhat
    <3>6. QED
      BY <3>5 DEF next
  <2>2. QED
    BY <1>1, <2>1 DEF At
<1>3. ~At(a, "await")
  BY DEF At
<1>4. QED
  BY <1>1, <1>2, <1>3 DEF At

\* Whoever comes into a line holds what it held.
LEMMA ArriveKeeps == ASSUME Inv, NEW a \in Actors, Arrive(a) PROVE Inv'
<1> DEFINE step == Head(todo[a])
<1>1. /\ todo[a] # << >> /\ step.do = "lock" /\ ~InLine(a, step.on)
      /\ line' = [line EXCEPT ![step.on] = Append(@, [who |-> a, mode |-> step.mode])]
      /\ UNCHANGED << host, todo, parent, called, tasks, made, store, copy, disk >>
  BY DEF Arrive, At
<1>2. PICK x \in Held : Leads(a, x) /\ Backed(a, x)
  BY DEF Inv, Orderly
<1>3. step \in Steps /\ \E y \in Held : Takes(x, step, y)
  BY <1>1, <1>2, NextStep DEF Inv
<1>4. step.on \in Locks /\ step.mode \in Modes /\ step = Lock(step.on, step.mode)
  BY <1>1, <1>3, TakesWhat
<1> HIDE DEF step
<1>5. /\ LineTypes'
      /\ \A b \in Actors \ {a} : Unmoved(b)
      /\ \A k \in Locks, n \in Modes : Enjoys(a, k, n) => Enjoys(a, k, n)'
      /\ \A k \in Locks, n \in Modes :
           Queues(a, k, n)' => Queues(a, k, n) \/ (k = step.on /\ n = step.mode)
  BY <1>1, <1>4, Arrived DEF Inv
<1>6. Types' /\ TasksAwaited'
  BY <1>1, SameTasks DEF Inv, Types, At
<1>7. ASSUME NEW b \in Actors \ {a} PROVE Orderly(b)'
  BY <1>1, <1>5, <1>6, OthersStay, SameStore DEF Inv
<1>8. Orderly(a)'
  <2>1. Leads(a, x)'
    BY <1>1, <1>2 DEF Leads
  <2>2. \A l \in Locks : x.mode[l] # "none" => x.mode[l] \in Modes
    BY DEF Held
  <2>3. \A l \in Locks : x.mode[l] # "none" => Enjoys(a, l, x.mode[l])'
    BY <1>2, <1>5, <2>2 DEF Backed
  <2>4. ASSUME NEW l \in Locks, NEW m \in Modes, Queues(a, l, m)'
        PROVE  x.mode[l] # "none" \/ (todo'[a] # << >> /\ Head(todo'[a]) = Lock(l, m))
    <3>1. CASE Queues(a, l, m)
      BY <1>1, <1>2, <3>1 DEF Backed
    <3>2. CASE l = step.on /\ m = step.mode
      BY <1>1, <1>4, <3>2 DEF step
    <3>3. QED
      BY <1>5, <2>4, <3>1, <3>2
  <2>5. Backed(a, x)'
    BY <1>1, <1>2, <2>3, <2>4 DEF Backed
  <2>6. QED
    BY <2>1, <2>5 DEF Orderly
<1>9. QED
  BY <1>5, <1>6, <1>7, <1>8 DEF Inv

\* Whoever takes a step passes from what it holds to what it is to hold.
LEMMA Taken ==
  ASSUME Inv, NEW a \in Actors, todo[a] # << >>, Head(todo[a]).do # "await",
         todo' = [todo EXCEPT ![a] = Tail(@)]
  PROVE  /\ \E x \in Held, y \in Held : Backed(a, x) /\ Takes(x, Head(todo[a]), y) /\ Leads(a, y)'
         /\ Head(todo[a]) \in Steps /\ todo' \in [Actors -> Seq(Steps)]
         /\ \A b \in Actors \ {a} : todo'[b] = todo[b]
         /\ tasks' = tasks => TasksAwaited'
<1>1. PICK x \in Held : Leads(a, x) /\ Backed(a, x)
  BY DEF Inv, Orderly
<1>2. Head(todo[a]) \in Steps
  BY <1>1, NextStep DEF Inv
<1>3. PICK y \in Held : Takes(x, Head(todo[a]), y) /\ Path(Tail(todo[a]), y, Nothing)
  BY <1>1, NextStep DEF Inv
<1>4. /\ todo' \in [Actors -> Seq(Steps)] /\ todo'[a] = Tail(todo[a])
      /\ \A b \in Actors \ {a} : todo'[b] = todo[b]
      /\ \A b \in Actors : At(b, "await")' <=> At(b, "await")
  BY <1>2, <1>3, NoNewAwait DEF Inv
<1>5. Leads(a, y)'
  BY <1>3, <1>4 DEF Leads
<1>6. tasks' = tasks => TasksAwaited'
  BY <1>4, SameTasks DEF Inv, Actors
<1>7. QED
  BY <1>1, <1>2, <1>3, <1>4, <1>5, <1>6

\* Whoever takes a lock is in its line with the mode it asks for.
LEMMA AcquireKeeps == ASSUME Inv, NEW a \in Actors, Acquire(a) PROVE Inv'
<1> DEFINE step == Head(todo[a])
           l == step.on
           m == step.mode
<1>1. /\ todo[a] # << >> /\ step.do = "lock" /\ Holds(a, l)
      /\ todo' = [todo EXCEPT ![a] = Tail(@)]
      /\ UNCHANGED << host, line, parent, called, tasks, made, store, copy, disk >>
  BY DEF Acquire, At, Done
<1>2. PICK x \in Held, y \in Held : Backed(a, x) /\ Takes(x, step, y) /\ Leads(a, y)'
  BY <1>1, Taken
<1>3. /\ step \in Steps /\ todo' \in [Actors -> Seq(Steps)] /\ TasksAwaited'
      /\ \A b \in Actors \ {a} : todo'[b] = todo[b]
  BY <1>1, Taken
<1>4. /\ l \in Locks /\ m \in Modes /\ step = Lock(l, m)
      /\ x.mode[l] = "none" /\ y = Keeping(x, l, m)
  BY <1>1, <1>2, <1>3, TakesWhat
<1>5. Types' /\ LineTypes'
  BY <1>1, <1>3 DEF Inv, Types, LineTypes
<1>6. ASSUME NEW b \in Actors \ {a} PROVE Orderly(b)'
  BY <1>1, <1>3, <1>5, OthersStay, SameStore, SameLines DEF Inv
<1>7. Enjoys(a, l, m)
  <2>1. PICK i \in DOMAIN line[l] : line[l][i].who = a /\ Admitted(l, i)
    BY <1>1 DEF Holds, Admitted
  <2>2. line[l][i] \in Entry
    BY <1>4 DEF Inv, LineTypes
  <2> DEFINE n == line[l][i].mode
  <2>3. n \in Modes /\ line[l][i] = [who |-> a, mode |-> n]
    BY <2>1, <2>2 DEF Entry
  <2>4. Queues(a, l, n)
    BY <2>3 DEF Queues
  <2>5. step = Lock(l, n)
    BY <1>2, <1>4, <2>3, <2>4 DEF Backed
  <2>6. n = m
    BY <1>4, <2>5 DEF Lock
  <2>7. QED
    BY <2>1, <2>3, <2>6 DEF Enjoys
<1> HIDE DEF step, l, m
<1>8. Backed(a, y)'
  <2>1. y.mode[l] = m /\ y.copied = x.copied /\ \A k \in Locks \ {l} : y.mode[k] = x.mode[k]
    BY <1>4 DEF Keeping, Held
  <2>2. \A k \in Locks : y.mode[k] # "none" => Enjoys(a, k, y.mode[k])
    BY <1>2, <1>7, <2>1 DEF Backed
  <2>3. ASSUME NEW k \in Locks, NEW n \in Modes, Queues(a, k, n)
        PROVE  y.mode[k] # "none"
    <3>1. CASE k = l
      BY <1>4, <2>1, <3>1 DEF Modes
    <3>2. CASE k # l
      <4>1. Lock(k, n) # step
        BY <1>4, <3>2 DEF Lock
      <4>2. x.mode[k] # "none"
        BY <1>2, <2>3, <4>1 DEF Backed, step
      <4>3. QED
        BY <2>1, <3>2, <4>2
    <3>3. QED
      BY <3>1, <3>2
  <2>4. /\ x.copied \in Parts => copy[a] <= store[x.copied]
        /\ x.copied = "settings" => x.mode["store"] # "none" /\ copy[a] = store["settings"]
    BY <1>2 DEF Backed
  <2>5. x.copied = "settings" => y.mode["store"] # "none"
    BY <1>4, <2>1, <2>4 DEF Locks, Modes
  <2>6. /\ \A k \in Locks, n \in Modes : (Enjoys(a, k, n)' <=> Enjoys(a, k, n))
                                        /\ (Queues(a, k, n)' <=> Queues(a, k, n))
        /\ \A k \in Locks : y.mode[k] # "none" => y.mode[k] \in Modes
    BY <1>1 DEF Enjoys, Queues, Admitted, Held
  <2>7. /\ \A k \in Locks : y.mode[k] # "none" => Enjoys(a, k, y.mode[k])'
        /\ \A k \in Locks, n \in Modes : Queues(a, k, n)' => y.mode[k] # "none"
    BY <2>2, <2>3, <2>6
  <2>8. QED
    BY <1>1, <2>1, <2>4, <2>5, <2>7 DEF Backed
<1>9. QED
  BY <1>2, <1>3, <1>5, <1>6, <1>8 DEF Inv, Orderly

\* Whoever gives up a lock leaves its line, and copies the settings no more.
LEMMA ReleaseKeeps == ASSUME Inv, NEW a \in Actors, Release(a) PROVE Inv'
<1> DEFINE step == Head(todo[a])
<1>1. /\ todo[a] # << >> /\ step.do = "unlock"
      /\ \E i \in DOMAIN line[step.on] :
           /\ line[step.on][i].who = a
           /\ line' = [line EXCEPT ![step.on] = RemoveAt(@, i)]
      /\ todo' = [todo EXCEPT ![a] = Tail(@)]
      /\ parent' = IF a \in Callers /\ Tail(todo[a]) = << >>
                   THEN [parent EXCEPT ![a] = None] ELSE parent
      /\ UNCHANGED << host, called, tasks, made, store, copy, disk >>
  BY DEF Release, At, Done
<1>2. PICK x \in Held, y \in Held : Backed(a, x) /\ Takes(x, step, y) /\ Leads(a, y)'
  BY <1>1, Taken
<1>3. /\ step \in Steps /\ todo' \in [Actors -> Seq(Steps)] /\ TasksAwaited'
      /\ \A b \in Actors \ {a} : todo'[b] = todo[b]
  BY <1>1, Taken
<1> HIDE DEF step
<1>4. PICK l \in Locks :
        /\ x.mode[l] # "none" /\ y = Keeping(x, l, "none") /\ step = Unlock(l)
        /\ l = "store" => x.copied # "settings"
  BY <1>1, <1>2, <1>3, TakesWhat
<1>5. /\ LineTypes'
      /\ \A b \in Actors \ {a} : Unmoved(b)
      /\ \A k \in Locks \ {l}, n \in Modes :
           (Enjoys(a, k, n) => Enjoys(a, k, n)') /\ (Queues(a, k, n)' => Queues(a, k, n))
      /\ \A n \in Modes : ~Queues(a, l, n)'
  <2>1. PICK i \in DOMAIN line[l] :
          line[l][i].who = a /\ line' = [line EXCEPT ![l] = RemoveAt(@, i)]
    BY <1>1, <1>4 DEF Unlock
  <2>2. LineTypes
    BY DEF Inv
  <2>3. QED
    BY <1>4, <2>1, <2>2, LeftLine
<1>6. Types'
  BY <1>1, <1>3 DEF Inv, Types
<1>7. ASSUME NEW b \in Actors \ {a} PROVE Orderly(b)'
  BY <1>1, <1>3, <1>5, <1>6, OthersStay, SameStore DEF Inv
<1>8. Backed(a, y)'
  <2>1. /\ y.mode[l] = "none" /\ y.copied = x.copied
        /\ \A k \in Locks \ {l} : y.mode[k] = x.mode[k]
        /\ \A k \in Locks : y.mode[k] # "none" => y.mode[k] \in Modes
    BY <1>4 DEF Keeping, Held
  <2>2. \A k \in Locks : y.mode[k] # "none" => Enjoys(a, k, y.mode[k])'
    BY <1>2, <1>5, <2>1 DEF Backed
  <2>3. ASSUME NEW k \in Locks, NEW n \in Modes, Queues(a, k, n)' PROVE y.mode[k] # "none"
    <3>1. k # l
      BY <1>5, <2>3
    <3>2. Queues(a, k, n)
      BY <1>5, <2>3, <3>1
    <3>3. Lock(k, n) # step
      BY <1>4 DEF Lock, Unlock
    <3>4. QED
      BY <1>2, <2>1, <3>1, <3>2, <3>3 DEF Backed, step
  <2>4. /\ x.copied \in Parts => copy[a] <= store[x.copied]
        /\ x.copied = "settings" => x.mode["store"] # "none" /\ copy[a] = store["settings"]
    BY <1>2 DEF Backed
  <2>5. x.copied = "settings" => y.mode["store"] # "none"
    BY <1>4, <2>1, <2>4 DEF Locks
  <2>6. QED
    BY <1>1, <2>1, <2>2, <2>3, <2>4, <2>5 DEF Backed
<1>9. QED
  BY <1>2, <1>3, <1>5, <1>6, <1>7, <1>8 DEF Inv, Orderly

\* Whoever changes a part of the store has it alone.
LEMMA PutKeeps == ASSUME Inv, NEW a \in Actors, PutPart(a) PROVE Inv'
<1> DEFINE step == Head(todo[a])
<1>1. /\ todo[a] # << >> /\ step.do = "put"
      /\ store' = IF store[step.part] < MaxVersion[step.part]
                  THEN [store EXCEPT ![step.part] = @ + 1] ELSE store
      /\ todo' = [todo EXCEPT ![a] = Tail(@)]
      /\ UNCHANGED << host, line, parent, called, tasks, made, copy, disk >>
  BY DEF PutPart, At, Done
<1>2. PICK x \in Held, y \in Held : Backed(a, x) /\ Takes(x, step, y) /\ Leads(a, y)'
  BY <1>1, Taken
<1>3. /\ step \in Steps /\ todo' \in [Actors -> Seq(Steps)] /\ TasksAwaited'
      /\ \A b \in Actors \ {a} : todo'[b] = todo[b]
  BY <1>1, Taken
<1> HIDE DEF step
<1>4. /\ step.part \in Parts /\ x.mode["store"] = "exclusive" /\ x.copied # "settings" /\ y = x
  BY <1>1, <1>2, <1>3, TakesWhat
<1>5. /\ store' \in [Parts -> Nat] /\ \A p \in Parts : store'[p] <= MaxVersion[p]
      /\ \A p \in Parts : store[p] <= store'[p]
  <2>1. store \in [Parts -> Nat] /\ MaxVersion \in [Parts -> Nat] /\ \A p \in Parts : store[p] <= MaxVersion[p]
    BY BindingsAssumption DEF Inv, Types
  <2>2. CASE store[step.part] < MaxVersion[step.part]
    <3>1. store' = [store EXCEPT ![step.part] = @ + 1]
      BY <1>1, <2>2
    <3>2. QED
      BY <1>4, <2>1, <2>2, <3>1
  <2>3. CASE ~(store[step.part] < MaxVersion[step.part])
    BY <1>1, <2>1, <2>3
  <2>4. QED
    BY <2>2, <2>3
<1>6. Types' /\ LineTypes'
  <2>1. ASSUME NEW k \in Keys PROVE disk[k] <= store'[PartOf(k)]
    <3>1. /\ disk[k] \in Nat /\ PartOf(k) \in Parts /\ disk[k] <= store[PartOf(k)]
          /\ store[PartOf(k)] \in Nat
      BY StepTypes DEF Inv, Types
    <3>2. QED
      BY <1>5, <3>1
  <2>2. LineTypes'
    BY <1>1 DEF Inv, LineTypes
  <2>3. QED
    BY <1>1, <1>3, <1>5, <2>1, <2>2 DEF Inv, Types
<1>7. ASSUME NEW b \in Actors \ {a} PROVE Orderly(b)'
  <2>1. ASSUME NEW m \in Modes PROVE ~Enjoys(b, "store", m)
    BY <1>2, <1>4, Exclusion DEF Inv, Backed, Locks
  <2>2. StoreKept(b)
    BY <1>5, <2>1 DEF StoreKept
  <2>3. QED
    BY <1>1, <1>3, <1>6, <2>2, OthersStay, SameLines DEF Inv
<1>8. Backed(a, x)'
  <2>1. /\ \A l \in Locks : x.mode[l] # "none" => Enjoys(a, l, x.mode[l])'
        /\ \A l \in Locks, m \in Modes : Queues(a, l, m)' => x.mode[l] # "none"
    <3>1. \A l \in Locks, m \in Modes : step # Lock(l, m)
      BY <1>1 DEF Lock
    <3>2. /\ \A l \in Locks : x.mode[l] # "none" => Enjoys(a, l, x.mode[l])
          /\ \A l \in Locks, m \in Modes : Queues(a, l, m) => x.mode[l] # "none"
      BY <1>2, <3>1 DEF Backed, step
    <3>3. QED
      BY <1>1, <3>2 DEF Enjoys, Queues, Admitted
  <2>2. x.copied \in Parts => copy[a] <= store'[x.copied]
    <3>1. x.copied \in Parts => copy[a] <= store[x.copied]
      BY <1>2 DEF Backed
    <3>2. copy[a] \in Nat /\ store \in [Parts -> Nat]
      BY DEF Inv, Types
    <3>3. QED
      BY <1>5, <3>1, <3>2
  <2>3. QED
    BY <1>1, <1>4, <2>1, <2>2 DEF Backed
<1>9. QED
  BY <1>2, <1>3, <1>4, <1>6, <1>7, <1>8 DEF Inv, Orderly

\* Whoever copies or stores moves nobody; the copy is used up by what it is for.
LEMMA StepsAside ==
  ASSUME Inv, NEW a \in Actors, NEW x \in Held, NEW y \in Held, Types', TasksAwaited', UNCHANGED << line, store >>,
         Backed(a, x), Leads(a, y)', todo[a] # << >>, \A l \in Locks, m \in Modes : Head(todo[a]) # Lock(l, m),
         y.mode = x.mode, \A b \in Actors \ {a} : todo'[b] = todo[b] /\ copy'[b] = copy[b],
         y.copied \in Parts => x.mode["store"] # "none" /\ copy'[a] = store[y.copied]
  PROVE  Inv'
<1>1. LineTypes'
  BY DEF Inv, LineTypes
<1>2. ASSUME NEW b \in Actors \ {a} PROVE Orderly(b)'
  BY OthersStay, SameStore, SameLines DEF Inv
<1>3. /\ \A l \in Locks : y.mode[l] # "none" => Enjoys(a, l, y.mode[l])'
      /\ \A l \in Locks, m \in Modes : Queues(a, l, m)' => y.mode[l] # "none"
  <2>1. /\ \A l \in Locks : x.mode[l] # "none" => Enjoys(a, l, x.mode[l])
        /\ \A l \in Locks, m \in Modes : Queues(a, l, m) => x.mode[l] # "none"
    BY DEF Backed
  <2>2. QED
    BY <2>1 DEF Enjoys, Queues, Admitted
<1>4. /\ y.copied \in Parts => copy'[a] <= store'[y.copied]
      /\ y.copied = "settings" => y.mode["store"] # "none" /\ copy'[a] = store'["settings"]
  BY DEF Inv, Types, Parts
<1>5. Backed(a, y)'
  BY <1>3, <1>4 DEF Backed
<1>6. QED
  BY <1>1, <1>2, <1>5 DEF Inv, Orderly

\* Whoever copies a part of the store holds it.
LEMMA CopyKeeps == ASSUME Inv, NEW a \in Actors, CopyPart(a) PROVE Inv'
<1> DEFINE step == Head(todo[a])
<1>1. /\ todo[a] # << >> /\ step.do = "copy"
      /\ copy' = [copy EXCEPT ![a] = store[step.part]]
      /\ todo' = [todo EXCEPT ![a] = Tail(@)]
      /\ UNCHANGED << host, line, parent, called, tasks, made, store, disk >>
  BY DEF CopyPart, At, Done
<1>2. PICK x \in Held, y \in Held : Backed(a, x) /\ Takes(x, step, y) /\ Leads(a, y)'
  BY <1>1, Taken
<1>3. /\ step \in Steps /\ todo' \in [Actors -> Seq(Steps)] /\ TasksAwaited'
      /\ \A b \in Actors \ {a} : todo'[b] = todo[b]
  BY <1>1, Taken
<1> HIDE DEF step
<1>4. step.part \in Parts /\ x.mode["store"] # "none" /\ y = Copying(x, step.part)
  BY <1>1, <1>2, <1>3, TakesWhat
<1>5. /\ copy' \in [Actors -> Nat] /\ copy'[a] = store[step.part]
      /\ \A b \in Actors \ {a} : copy'[b] = copy[b]
  BY <1>1, <1>4 DEF Inv, Types
<1>6. Types'
  BY <1>1, <1>3, <1>5 DEF Inv, Types
<1>7. \A l \in Locks, m \in Modes : Head(todo[a]) # Lock(l, m)
  BY <1>1 DEF Lock, step
<1>8. y.mode = x.mode /\ y.copied = step.part
  BY <1>4 DEF Copying
<1>9. QED
  BY <1>1, <1>2, <1>3, <1>4, <1>5, <1>6, <1>7, <1>8, StepsAside

\* What the application stores was copied from the part it is stored for.
LEMMA AnswerKeeps == ASSUME Inv, NEW a \in Actors, Answer(a) PROVE Inv'
<1> DEFINE step == Head(todo[a])
<1>1. /\ todo[a] # << >> /\ step.do \in {"store", "ask"}
      /\ disk' = IF step.do = "store" THEN [disk EXCEPT ![step.key] = copy[a]] ELSE disk
      /\ called' = [called EXCEPT ![a] = FALSE]
      /\ \E n \in {copy[a], 0} : copy' = [copy EXCEPT ![a] = n]
      /\ todo' = [todo EXCEPT ![a] = Tail(@)]
      /\ UNCHANGED << host, line, parent, tasks, made, store >>
  BY DEF Answer, InCallback, At, Done
<1>2. PICK x \in Held, y \in Held : Backed(a, x) /\ Takes(x, step, y) /\ Leads(a, y)'
  BY <1>1, Taken
<1>3. /\ step \in Steps /\ todo' \in [Actors -> Seq(Steps)] /\ TasksAwaited'
      /\ \A b \in Actors \ {a} : todo'[b] = todo[b]
  BY <1>1, Taken
<1> HIDE DEF step
<1>4. /\ y.mode = x.mode /\ y.copied = "none"
      /\ step.do = "store" => step.key \in Keys /\ x.copied = PartOf(step.key)
  BY <1>1, <1>2, <1>3, TakesWhat DEF Copying
<1>5. copy' \in [Actors -> Nat] /\ \A b \in Actors \ {a} : copy'[b] = copy[b]
  BY <1>1 DEF Inv, Types
<1>6. disk' \in [Keys -> Nat] /\ \A k \in Keys : disk'[k] <= store[PartOf(k)]
  <2>1. /\ disk \in [Keys -> Nat] /\ \A k \in Keys : disk[k] <= store[PartOf(k)]
        /\ copy[a] \in Nat
    BY DEF Inv, Types
  <2>2. CASE step.do = "store"
    <3>1. step.key \in Keys /\ copy[a] <= store[PartOf(step.key)]
      BY <1>2, <1>4, <2>2, StepTypes DEF Backed
    <3>2. disk' = [disk EXCEPT ![step.key] = copy[a]]
      BY <1>1, <2>2
    <3>3. QED
      BY <2>1, <3>1, <3>2
  <2>3. CASE step.do # "store"
    BY <1>1, <2>1, <2>3
  <2>4. QED
    BY <2>2, <2>3
<1>7. Types'
  BY <1>1, <1>3, <1>5, <1>6 DEF Inv, Types
<1>8. \A l \in Locks, m \in Modes : Head(todo[a]) # Lock(l, m)
  BY <1>1 DEF Lock, step
<1>9. y.copied \notin Parts
  BY <1>4 DEF Parts
<1>10. QED
  BY <1>1, <1>2, <1>3, <1>4, <1>5, <1>7, <1>8, <1>9, StepsAside

\* One who has nothing to do may begin what is legal for one who holds nothing.
LEMMA Begins ==
  ASSUME Inv, NEW c \in Actors, todo[c] = << >>, NEW way \in Seq(Steps),
         Path(way, Nothing, Nothing), todo' = [todo EXCEPT ![c] = way], Types',
         UNCHANGED << line, tasks, store, copy >>
  PROVE  Inv'
<1>1. todo'[c] = way /\ \A b \in Actors \ {c} : todo'[b] = todo[b]
  BY DEF Inv, Types
<1>2. LineTypes'
  BY DEF Inv, LineTypes
<1>3. TasksAwaited'
  <2>1. way # << >> => Head(way).do # "await"
    <3> DEFINE next == Head(way)
    <3>1. ASSUME way # << >> PROVE next \in Steps /\ \E z \in Held : Takes(Nothing, next, z)
      BY <3>1, HeldAfter, Begun
    <3> HIDE DEF next
    <3>2. way # << >> => next.do # "await"
      BY <3>1, HeldAfter, TakesWhat
    <3>3. QED
      BY <3>2 DEF next
  <2>2. ~At(c, "await") /\ ~At(c, "await")'
    BY <1>1, <2>1 DEF At
  <2>3. \A b \in Callers : At(b, "await")' <=> At(b, "await")
    BY <1>1, <2>2 DEF At, Actors
  <2>4. QED
    BY <2>3, SameTasks DEF Inv
<1>4. ASSUME NEW b \in Actors \ {c} PROVE Orderly(b)'
  BY <1>1, OthersStay, SameStore, SameLines DEF Inv
<1>5. Orderly(c)'
  <2>1. PICK x \in Held : Leads(c, x) /\ Backed(c, x)
    BY DEF Inv, Orderly
  <2>2. x = Nothing
    BY <2>1, NothingLeft
  <2>3. \A l \in Locks, m \in Modes : ~Queues(c, l, m)
    BY <2>1, <2>2 DEF Backed, Nothing
  <2>4. \A l \in Locks, m \in Modes : ~Queues(c, l, m)'
    BY <2>3 DEF Queues
  <2>5. Backed(c, Nothing)'
    BY <2>4 DEF Backed, Nothing, Parts
  <2>6. Leads(c, Nothing)'
    BY <1>1 DEF Leads
  <2>7. QED
    BY <2>5, <2>6, HeldAfter DEF Orderly
<1>6. QED
  BY <1>2, <1>3, <1>4, <1>5 DEF Inv

\* Calls of the application, those from its callbacks, and what the script does.
LEMMA BeginKeeps ==
  ASSUME Inv,
         \/ \E a \in Actors, c \in Callers, way \in Methods : CallBack(a, c, way)
         \/ \E c \in Callers, way \in Methods : Call(c, way)
         \/ \E way \in ScriptSteps : ScriptDoes(way)
  PROVE  Inv'
<1>1. ASSUME NEW a \in Actors, NEW c \in Callers, NEW way \in Methods, CallBack(a, c, way)
      PROVE  Inv'
  <2>1. /\ todo[c] = << >> /\ todo' = [todo EXCEPT ![c] = way]
        /\ parent' = [parent EXCEPT ![c] = a] /\ called' = [called EXCEPT ![a] = TRUE]
        /\ UNCHANGED << host, line, tasks, made, store, copy, disk >>
    BY <1>1 DEF CallBack
  <2>2. way \in Seq(Steps) /\ Path(way, Nothing, Nothing)
    BY MethodsLegal
  <2>3. c \in Actors
    BY DEF Actors
  <2>4. Types'
    BY <2>1, <2>2, <2>3 DEF Inv, Types
  <2>5. QED
    BY <2>1, <2>2, <2>3, <2>4, Begins
<1>2. ASSUME NEW c \in Callers, NEW way \in Methods, Call(c, way) PROVE Inv'
  <2>1. /\ todo[c] = << >> /\ todo' = [todo EXCEPT ![c] = way]
        /\ UNCHANGED << host, line, parent, called, tasks, made, store, copy, disk >>
    BY <1>2 DEF Call
  <2>2. way \in Seq(Steps) /\ Path(way, Nothing, Nothing)
    BY MethodsLegal
  <2>3. c \in Actors
    BY DEF Actors
  <2>4. Types'
    BY <2>1, <2>2, <2>3 DEF Inv, Types
  <2>5. QED
    BY <2>1, <2>2, <2>3, <2>4, Begins
<1>3. ASSUME NEW way \in ScriptSteps, ScriptDoes(way) PROVE Inv'
  <2>1. /\ todo[Script] = << >> /\ todo' = [todo EXCEPT ![Script] = way]
        /\ made < MaxScript /\ made' = made + 1
        /\ UNCHANGED << host, line, parent, called, tasks, store, copy, disk >>
    BY <1>3 DEF ScriptDoes, Idle
  <2>2. way \in Seq(Steps) /\ Path(way, Nothing, Nothing)
    BY ScriptStepsLegal
  <2>3. Script \in Actors
    BY DEF Actors
  <2>4. made' \in 0 .. MaxScript
    BY <2>1, BindingsAssumption DEF Inv, Types
  <2>5. Types'
    BY <2>1, <2>2, <2>3, <2>4 DEF Inv, Types
  <2>6. QED
    BY <2>1, <2>2, <2>3, <2>5, Begins
<1>4. QED
  BY <1>1, <1>2, <1>3

\* What an actor holds is untouched by a step that changes only how it waits.
LEMMA WaitsOtherwise ==
  ASSUME Inv, NEW c \in Actors, Types', TasksAwaited', UNCHANGED << line, store, copy >>,
         \A b \in Actors \ {c} : todo'[b] = todo[b],
         NEW x \in Held, Backed(c, x), Leads(c, x)',
         \A l \in Locks, m \in Modes : Head(todo[c]) # Lock(l, m)
  PROVE  Inv'
<1>1. LineTypes'
  BY DEF Inv, LineTypes
<1>2. ASSUME NEW b \in Actors \ {c} PROVE Orderly(b)'
  BY OthersStay, SameStore, SameLines DEF Inv
<1>3. /\ \A l \in Locks : x.mode[l] # "none" => Enjoys(c, l, x.mode[l])'
      /\ \A l \in Locks, m \in Modes : Queues(c, l, m)' => x.mode[l] # "none"
  <2>1. /\ \A l \in Locks : x.mode[l] # "none" => Enjoys(c, l, x.mode[l])
        /\ \A l \in Locks, m \in Modes : Queues(c, l, m) => x.mode[l] # "none"
    BY DEF Backed
  <2>2. QED
    BY <2>1 DEF Enjoys, Queues, Admitted
<1>4. Backed(c, x)'
  BY <1>3 DEF Backed
<1>5. QED
  BY <1>1, <1>2, <1>4 DEF Inv, Orderly

\* A step put before others is their head.
LEMMA OneBefore ==
  ASSUME NEW a \in Steps, NEW s \in Seq(Steps)
  PROVE  /\ << a >> \o s \in Seq(Steps) /\ << a >> \o s # << >>
         /\ Head(<< a >> \o s) = a /\ Tail(<< a >> \o s) = s
<1> DEFINE t == << a >> \o s
<1>1. << a >> \in Seq(Steps) /\ Len(<< a >>) = 1 /\ << a >>[1] = a /\ Len(s) \in Nat
  OBVIOUS
<1>2. /\ t \in Seq(Steps) /\ Len(t) = 1 + Len(s)
      /\ \A i \in 1 .. 1 + Len(s) : t[i] = IF i <= 1 THEN << a >>[i] ELSE s[i - 1]
  BY <1>1, ConcatProperties
<1> HIDE DEF t
<1>3. t[1] = a /\ \A i \in 1 .. Len(s) : t[i + 1] = s[i]
  BY <1>1, <1>2
<1>4. t # << >> /\ Head(t) = a
  BY <1>1, <1>2, <1>3
<1>5. /\ Tail(t) \in Seq(Steps) /\ Len(Tail(t)) = Len(s)
      /\ \A i \in 1 .. Len(s) : Tail(t)[i] = s[i]
  BY <1>1, <1>2, <1>3, <1>4, HeadTailProperties
<1>6. Tail(t) = s
  BY <1>5, SeqEqual
<1>7. QED
  BY <1>2, <1>4, <1>6 DEF t

\* A caller that sends a task waits for it, and does so once.
LEMMA SendKeeps == ASSUME Inv, NEW c \in Callers, Send(c) PROVE Inv'
<1> DEFINE step == Head(todo[c])
           rest == Tail(todo[c])
<1>1. /\ todo[c] # << >> /\ step.do \in {"run", "start"}
      /\ tasks' = Append(tasks, c)
      /\ todo' = [todo EXCEPT ![c] = << Await(step.do) >> \o rest]
      /\ UNCHANGED << host, line, parent, called, made, store, copy, disk >>
      /\ c \in Actors
  BY DEF Send, At, Actors
<1>2. PICK x \in Held : Leads(c, x) /\ Backed(c, x)
  BY <1>1 DEF Inv, Orderly
<1>3. /\ step \in Steps /\ rest \in Seq(Steps)
      /\ \E y \in Held : Takes(x, step, y) /\ Path(rest, y, Nothing)
  BY <1>1, <1>2, NextStep DEF Inv
<1> DEFINE await == Await(step.do)
<1>4. await \in Steps /\ await.do = "await"
  BY <1>1 DEF Steps, Await
<1>5. /\ << await >> \o rest \in Seq(Steps) /\ << await >> \o rest # << >>
      /\ Head(<< await >> \o rest) = await /\ Tail(<< await >> \o rest) = rest
  BY <1>3, <1>4, OneBefore
<1>6. /\ todo' \in [Actors -> Seq(Steps)] /\ todo'[c] = << await >> \o rest
      /\ \A b \in Actors \ {c} : todo'[b] = todo[b]
  BY <1>1, <1>5 DEF Inv, Types
<1> HIDE DEF step, rest
<1>7. Ready(x, step.do) /\ Path(rest, x, Nothing)
  BY <1>1, <1>3, TakesWhat
<1>8. Leads(c, x)'
  BY <1>1, <1>5, <1>6, <1>7 DEF Leads
<1>9. Types'
  BY <1>1, <1>6 DEF Inv, Types
<1>10. TasksAwaited'
  <2>1. ~At(c, "await") /\ At(c, "await")'
    BY <1>1, <1>4, <1>5, <1>6 DEF At, step
  <2>2. \A b \in Callers \ {c} : At(b, "await")' <=> At(b, "await")
    BY <1>6 DEF At, Actors
  <2>3. /\ tasks \in Seq(Callers) /\ Len(tasks) \in Nat /\ DOMAIN tasks = 1 .. Len(tasks)
        /\ \A i, j \in DOMAIN tasks : tasks[i] = tasks[j] => i = j
        /\ \A b \in Callers : At(b, "await") <=> \E i \in DOMAIN tasks : tasks[i] = b
    BY DEF Inv, TasksAwaited
  <2>4. /\ tasks' \in Seq(Callers) /\ DOMAIN tasks' = 1 .. Len(tasks) + 1
        /\ \A i \in 1 .. Len(tasks) : tasks'[i] = tasks[i]
        /\ tasks'[Len(tasks) + 1] = c
    BY <1>1, <2>3
  <2>5. \A i \in DOMAIN tasks : tasks[i] # c
    BY <2>1, <2>3
  <2>6. \A i, j \in DOMAIN tasks' : tasks'[i] = tasks'[j] => i = j
    BY <2>3, <2>4, <2>5
  <2>7. ASSUME NEW b \in Callers
        PROVE  At(b, "await")' <=> \E i \in DOMAIN tasks' : tasks'[i] = b
    <3>1. CASE b = c
      <4>1. Len(tasks) + 1 \in DOMAIN tasks'
        BY <2>3, <2>4
      <4>2. QED
        BY <2>1, <2>4, <3>1, <4>1
    <3>2. CASE b # c
      <4>1. (\E i \in DOMAIN tasks' : tasks'[i] = b) <=> \E i \in DOMAIN tasks : tasks[i] = b
        BY <2>3, <2>4, <3>2
      <4>2. QED
        BY <2>2, <2>3, <3>2, <4>1
    <3>3. QED
      BY <3>1, <3>2
  <2>8. QED
    BY <2>4, <2>6, <2>7 DEF TasksAwaited
<1>11. \A l \in Locks, m \in Modes : Head(todo[c]) # Lock(l, m)
  BY <1>1 DEF Lock, step
<1>12. QED
  BY <1>1, <1>2, <1>6, <1>8, <1>9, <1>10, <1>11, WaitsOtherwise

\* A caller whose task is done goes on with what it holds.
LEMMA ReturnKeeps == ASSUME Inv, ScriptReturns PROVE Inv'
<1>1. PICK c : c = Head(tasks)
  OBVIOUS
<1>2. /\ tasks \in Seq(Callers) /\ tasks # << >> /\ Len(tasks) \in Nat /\ Len(tasks) >= 1
      /\ DOMAIN tasks = 1 .. Len(tasks)
      /\ \A i, j \in DOMAIN tasks : tasks[i] = tasks[j] => i = j
      /\ \A b \in Callers : At(b, "await") <=> \E i \in DOMAIN tasks : tasks[i] = b
  <2>1. tasks \in Seq(Callers) /\ tasks # << >>
    BY DEF ScriptReturns, Idle, Inv, TasksAwaited
  <2>2. Len(tasks) \in Nat /\ Len(tasks) >= 1 /\ DOMAIN tasks = 1 .. Len(tasks)
    BY <2>1, EmptySeq
  <2>3. QED
    BY <2>1, <2>2 DEF Inv, TasksAwaited
<1>3. /\ c \in Callers /\ c \in Actors /\ tasks[1] = c /\ 1 \in DOMAIN tasks
      /\ tasks' = Tail(tasks) /\ todo' = [todo EXCEPT ![c] = Tail(@)] /\ made' = 0
      /\ UNCHANGED << host, line, parent, called, store, copy, disk >>
  BY <1>1, <1>2 DEF ScriptReturns, Done, Actors
<1>4. todo[c] # << >> /\ Head(todo[c]).do = "await"
  BY <1>2, <1>3 DEF At
<1>5. PICK x \in Held : Leads(c, x) /\ Backed(c, x)
  BY <1>3 DEF Inv, Orderly
<1>6. Tail(todo[c]) \in Seq(Steps) /\ Path(Tail(todo[c]), x, Nothing)
  BY <1>3, <1>4, <1>5, NextStep DEF Inv
<1>7. /\ todo' \in [Actors -> Seq(Steps)] /\ todo'[c] = Tail(todo[c])
      /\ \A b \in Actors \ {c} : todo'[b] = todo[b]
  BY <1>3, <1>6 DEF Inv, Types
<1>8. Leads(c, x)'
  BY <1>6, <1>7 DEF Leads
<1>9. Types'
  BY <1>3, <1>7, BindingsAssumption DEF Inv, Types
<1>10. TasksAwaited'
  <2>1. ~At(c, "await")'
    <3> DEFINE rest == Tail(todo[c])
               next == Head(rest)
    <3>1. ASSUME rest # << >> PROVE next \in Steps /\ \E z \in Held : Takes(x, next, z)
      BY <1>6, <3>1, HeldAfter, Begun
    <3> HIDE DEF next
    <3>2. rest # << >> => next.do # "await"
      BY <3>1, TakesWhat
    <3>3. QED
      BY <1>7, <3>2 DEF At, next
  <2>2. \A b \in Callers \ {c} : At(b, "await")' <=> At(b, "await")
    BY <1>7 DEF At, Actors
  <2>3. /\ tasks' \in Seq(Callers) /\ DOMAIN tasks' = 1 .. Len(tasks) - 1
        /\ \A i \in 1 .. Len(tasks) - 1 : tasks'[i] = tasks[i+1] /\ i + 1 \in DOMAIN tasks
    BY <1>2, <1>3
  <2>4. \A i, j \in DOMAIN tasks' : tasks'[i] = tasks'[j] => i = j
    <3>1. ASSUME NEW i \in DOMAIN tasks', NEW j \in DOMAIN tasks', tasks'[i] = tasks'[j]
          PROVE  i = j
      <4>1. /\ tasks'[i] = tasks[i+1] /\ i + 1 \in DOMAIN tasks
            /\ tasks'[j] = tasks[j+1] /\ j + 1 \in DOMAIN tasks
        BY <2>3
      <4>2. i + 1 = j + 1
        BY <1>2, <3>1, <4>1
      <4>3. QED
        BY <1>2, <2>3, <4>2
    <3>2. QED
      BY <3>1
  <2>5. ASSUME NEW b \in Callers
        PROVE  At(b, "await")' <=> \E i \in DOMAIN tasks' : tasks'[i] = b
    <3>1. CASE b = c
      <4>1. \A i \in DOMAIN tasks' : tasks'[i] # c
        BY <1>2, <1>3, <2>3
      <4>2. QED
        BY <2>1, <3>1, <4>1
    <3>2. CASE b # c
      <4>1. ASSUME NEW i \in DOMAIN tasks, tasks[i] = b PROVE \E j \in DOMAIN tasks' : tasks'[j] = b
        <5>1. i # 1
          BY <1>3, <3>2, <4>1
        <5>2. i - 1 \in DOMAIN tasks' /\ (i - 1) + 1 = i
          BY <1>2, <2>3, <5>1
        <5>3. QED
          BY <2>3, <4>1, <5>2
      <4>2. (\E j \in DOMAIN tasks' : tasks'[j] = b) => \E i \in DOMAIN tasks : tasks[i] = b
        BY <2>3
      <4>3. QED
        BY <1>2, <2>2, <3>2, <4>1, <4>2
    <3>3. QED
      BY <3>1, <3>2
  <2>6. QED
    BY <2>3, <2>4, <2>5 DEF TasksAwaited
<1>11. \A l \in Locks, m \in Modes : Head(todo[c]) # Lock(l, m)
  BY <1>4 DEF Lock
<1>12. QED
  BY <1>3, <1>5, <1>7, <1>8, <1>9, <1>10, <1>11, WaitsOtherwise

\* Every step keeps the invariant.
LEMMA NextKeeps == Inv /\ [Next]_vars => Inv'
<1> SUFFICES ASSUME Inv, [Next]_vars PROVE Inv'
  OBVIOUS
<1>1. ASSUME NEW a \in Actors, Step(a) PROVE Inv'
  BY <1>1, ArriveKeeps, AcquireKeeps, ReleaseKeeps, PutKeeps, CopyKeeps, AnswerKeeps DEF Step
<1>2. CASE \/ \E a \in Actors, c \in Callers, way \in Methods : CallBack(a, c, way)
           \/ \E c \in Callers, way \in Methods : Call(c, way)
           \/ \E way \in ScriptSteps : ScriptDoes(way)
  BY <1>2, BeginKeeps
<1>3. ASSUME NEW c \in Callers, Send(c) PROVE Inv'
  BY <1>3, SendKeeps
<1>4. CASE ScriptReturns
  BY <1>4, ReturnKeeps
<1>5. CASE UNCHANGED vars
  <2>1. UNCHANGED << host, todo, line, parent, called, tasks, made, store, copy, disk >>
    BY <1>5 DEF vars
  <2>2. Types'
    BY <2>1 DEF Inv, Types
  <2>3. LineTypes'
    BY <2>1 DEF Inv, LineTypes
  <2>4. TasksAwaited'
    BY <2>1, SameTasks DEF Inv, At
  <2>5. ASSUME NEW a \in Actors PROVE Orderly(a)'
    BY <2>1, <2>2, OthersStay, SameStore, SameLines DEF Inv
  <2>6. QED
    BY <2>2, <2>3, <2>4, <2>5 DEF Inv
<1>6. QED
  BY <1>1, <1>2, <1>3, <1>4, <1>5, Zenon DEF Next

-----------------------------------------------------------------------------
(* The theorems. *)

\* Whoever is about to leave a line, or to change the store, holds the lock.
LEMMA AboutToHolds ==
  ASSUME Inv, NEW a \in Actors, todo[a] # << >>
  PROVE  /\ Head(todo[a]).do = "unlock" => Holds(a, Head(todo[a]).on)
         /\ Head(todo[a]).do = "put" => Enjoys(a, "store", "exclusive")
<1> DEFINE step == Head(todo[a])
<1>1. PICK x \in Held : Leads(a, x) /\ Backed(a, x)
  BY DEF Inv, Orderly
<1>2. step \in Steps /\ (step.do # "await" => \E y \in Held : Takes(x, step, y))
  BY <1>1, NextStep DEF Inv
<1> HIDE DEF step
<1>3. CASE step.do = "unlock"
  <2>1. step.on \in Locks /\ x.mode[step.on] # "none"
    BY <1>2, <1>3, TakesWhat
  <2>2. Enjoys(a, step.on, x.mode[step.on])
    BY <1>1, <2>1 DEF Backed
  <2>3. Holds(a, step.on)
    BY <2>2 DEF Enjoys, Holds, Admitted
  <2>4. QED
    BY <1>3, <2>3 DEF step
<1>4. CASE step.do = "put"
  <2>1. x.mode["store"] = "exclusive"
    BY <1>2, <1>4, TakesWhat
  <2>2. QED
    BY <1>1, <1>4, <2>1 DEF Backed, Locks, step
<1>5. QED
  BY <1>3, <1>4 DEF step

\* The invariant says what TypeOK asks for.
LEMMA InvTypes == Inv => TypeOK
<1> SUFFICES ASSUME Inv PROVE TypeOK
  OBVIOUS
<1>1. \A a \in Actors : Range(todo[a]) \subseteq Steps
  BY DEF Inv, Types, Range
<1>2. DOMAIN line = Locks
  BY DEF Inv, LineTypes
<1>3. \A a \in Actors : At(a, "unlock") => Holds(a, Head(todo[a]).on)
  BY AboutToHolds DEF At
<1>4. ASSUME NEW a \in Actors, At(a, "put")
      PROVE  \E i \in DOMAIN line["store"] :
               line["store"][i] = [who |-> a, mode |-> "exclusive"] /\ Holds(a, "store")
  <2>1. PICK i \in DOMAIN line["store"] :
          line["store"][i] = [who |-> a, mode |-> "exclusive"] /\ Admitted("store", i)
    BY <1>4, AboutToHolds DEF At, Enjoys
  <2>2. Holds(a, "store")
    BY <2>1 DEF Holds, Admitted
  <2>3. QED
    BY <2>1, <2>2
<1>5. ASSUME NEW c \in Range(tasks) PROVE At(c, "await")
  BY DEF Inv, TasksAwaited, Range
<1>6. \A p \in Parts : store[p] \in 0 .. MaxVersion[p]
  BY BindingsAssumption DEF Inv, Types
<1>7. \A k \in Keys : disk[k] \in 0 .. store[PartOf(k)]
  BY StepTypes DEF Inv, Types
<1>8. QED
  BY <1>1, <1>2, <1>3, <1>4, <1>5, <1>6, <1>7 DEF TypeOK, Inv, Types, LineTypes

\* A thread is started by who has the object alone, so that nobody else has sent a task.
LEMMA InvSwitches == Inv => SwitchedWhileIdle
<1> SUFFICES ASSUME Inv, NEW c \in Callers, todo[c] # << >>, Head(todo[c]) = Await("start")
             PROVE  tasks = << c >>
  BY DEF SwitchedWhileIdle
<1>1. ASSUME NEW d \in Callers, At(d, "await")
      PROVE  \E x \in Held, what \in {"run", "start"} :
               /\ Head(todo[d]) = Await(what) /\ Ready(x, what)
               /\ Enjoys(d, "object", x.mode["object"]) /\ x.mode["object"] \in Modes
  <2>1. d \in Actors /\ todo[d] # << >> /\ Head(todo[d]).do = "await"
    BY <1>1 DEF At, Actors
  <2>2. PICK x \in Held : Leads(d, x) /\ Backed(d, x)
    BY <2>1 DEF Inv, Orderly
  <2>3. PICK what \in {"run", "start"} : Head(todo[d]) = Await(what) /\ Ready(x, what)
    BY <2>1, <2>2, NextStep DEF Inv
  <2>4. Enjoys(d, "object", x.mode["object"]) /\ x.mode["object"] \in Modes
    BY <2>2, <2>3 DEF Backed, Ready, Locks, Held
  <2>5. QED
    BY <2>3, <2>4
<1>2. At(c, "await")
  BY DEF At, Await
<1>3. Enjoys(c, "object", "exclusive")
  <2>1. PICK x \in Held, what \in {"run", "start"} :
          /\ Head(todo[c]) = Await(what) /\ Ready(x, what)
          /\ Enjoys(c, "object", x.mode["object"])
    BY <1>1, <1>2
  <2>2. what = "start"
    BY <2>1 DEF Await
  <2>3. QED
    BY <2>1, <2>2 DEF Ready
<1>4. ASSUME NEW d \in Callers, At(d, "await") PROVE d = c
  <2>1. PICK m \in Modes : Enjoys(d, "object", m)
    BY <1>1, <1>4
  <2>2. QED
    BY <1>3, <2>1, Exclusion DEF Inv, Locks, Actors
<1>5. /\ tasks \in Seq(Callers) /\ Len(tasks) \in Nat /\ DOMAIN tasks = 1 .. Len(tasks)
      /\ \A i, j \in DOMAIN tasks : tasks[i] = tasks[j] => i = j
      /\ \A b \in Callers : At(b, "await") <=> \E i \in DOMAIN tasks : tasks[i] = b
  BY DEF Inv, TasksAwaited
<1>6. \A i \in DOMAIN tasks : tasks[i] = c
  BY <1>4, <1>5
<1>7. Len(tasks) = 1
  <2>1. Len(tasks) >= 1
    BY <1>2, <1>5
  <2>2. ~(Len(tasks) >= 2)
    <3>1. ASSUME Len(tasks) >= 2 PROVE FALSE
      <4>1. 1 \in DOMAIN tasks /\ 2 \in DOMAIN tasks
        BY <1>5, <3>1
      <4>2. QED
        BY <1>5, <1>6, <4>1
    <3>2. QED
      BY <3>1
  <2>3. QED
    BY <1>5, <2>1, <2>2
<1>8. << c >> \in Seq(Callers) /\ Len(<< c >>) = 1 /\ << c >>[1] = c
  OBVIOUS
<1>9. \A i \in 1 .. Len(tasks) : tasks[i] = << c >>[i]
  BY <1>5, <1>6, <1>7, <1>8
<1>10. QED
  BY <1>5, <1>7, <1>8, <1>9, SeqEqual

\* What is stored of the settings is what the store holds: the copy was made under
\* the lock that the save still has.
LEMMA StepsAreCurrent ==
  ASSUME Inv, [Next]_vars, NEW k \in {"extension_settings", "search_settings"}, disk'[k] # disk[k]
  PROVE  disk'[k] = store[PartOf(k)]
<1>1. PICK a \in Actors : Answer(a)
  <2>1. UNCHANGED disk \/ \E a \in Actors : Answer(a)
    BY DEF Next, vars, Step, Arrive, Acquire, Release, PutPart, CopyPart, CallBack, Call, Send,
           ScriptDoes, ScriptReturns
  <2>2. QED
    BY <2>1
<1> DEFINE step == Head(todo[a])
<1>2. /\ todo[a] # << >> /\ step.do \in {"store", "ask"}
      /\ disk' = IF step.do = "store" THEN [disk EXCEPT ![step.key] = copy[a]] ELSE disk
  BY <1>1 DEF Answer, InCallback, At
<1>3. PICK x \in Held : Leads(a, x) /\ Backed(a, x)
  BY DEF Inv, Orderly
<1>4. step \in Steps /\ \E y \in Held : Takes(x, step, y)
  BY <1>2, <1>3, NextStep DEF Inv
<1> HIDE DEF step
<1>5. step.do = "store" /\ step.key = k /\ disk'[k] = copy[a]
  BY <1>2 DEF Inv, Types, Keys
<1>6. x.copied = PartOf(k) /\ PartOf(k) = "settings"
  BY <1>4, <1>5, TakesWhat DEF PartOf
<1>7. QED
  BY <1>3, <1>5, <1>6 DEF Backed

\* The invariant holds throughout.
LEMMA Throughout == Spec => []Inv
<1>1. QED
  BY Initially, NextKeeps, PTL DEF Spec

\* The type invariant of the bindings, which says that both locks exclude: whoever
\* gives up a lock holds it, and whoever changes the store has it alone.
THEOREM LocksExclude == Spec => []TypeOK
<1>1. QED
  BY Throughout, InvTypes, PTL

\* set_enabled and reload replace the JS thread while no call is in it, however many
\* calls the application makes and whatever its callbacks do.
THEOREM SwitchesAreAlone == Spec => []SwitchedWhileIdle
<1>1. QED
  BY Throughout, InvSwitches, PTL

\* save_settings stores the settings the store holds at that moment, in both keys.
THEOREM SavesStoreTheStore == Spec => SavesAreCurrent
<1>1. Inv /\ [Next]_vars =>
        [\A k \in {"extension_settings", "search_settings"} :
           disk'[k] # disk[k] => disk'[k] = store[PartOf(k)]]_vars
  BY StepsAreCurrent
<1>2. QED
  BY <1>1, Throughout, PTL DEF Spec, SavesAreCurrent
=============================================================================
