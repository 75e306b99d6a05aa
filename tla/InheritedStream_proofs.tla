----------------------- MODULE InheritedStream_proofs -----------------------
(***************************************************************************)
(* What is proved of InheritedStream for any number of responses: the four *)
(* modules keep the contract of the stream, and delete a streamer that     *)
(* nobody uses.                                                            *)
(*                                                                         *)
(* The steps of a thread, but for the read thread's, come in one order,    *)
(* which is Rank: so what a thread has still to do is known from the set   *)
(* of its steps (Left), and its next step is the one of the lowest rank.   *)
(***************************************************************************)
EXTENDS InheritedStream, SequenceTheorems, TLAPS

-----------------------------------------------------------------------------
(* The steps and their order.                                              *)

ConnectSteps == {"initMessage", "openStream", "config", "promise", "writeConfig", "drain"}
StartSteps ==
  ConnectSteps \cup {"pre_answer", "requiredVariable", "resampler", "vad", "newGStreamer",
                     "connectUnlessVad", "thread_create", "bug_add", "set_private"}
MediaSteps == ConnectSteps \cup {"trylock", "vad", "write", "media_bug_read", "unlock"}
CloserSteps == {"lock", "private", "writesDone", "join", "delete", "bug_remove", "unlock"}
TimerSteps == {"lock", "startTimers", "unlock"}
ReadSteps == {"waitForConnect", "read", "locate", "tell", "finish"}
Steps == StartSteps \cup MediaSteps \cup CloserSteps \cup TimerSteps \cup ReadSteps

StepsOf(t) ==
  CASE t = "start" -> StartSteps [] t = "media" -> MediaSteps [] t \in Closers -> CloserSteps
    [] t = "timers" -> TimerSteps [] OTHER -> ReadSteps

Rank(x) ==
  CASE x \in {"pre_answer", "lock", "trylock"} -> 1
    [] x \in {"requiredVariable", "private", "startTimers"} -> 2
    [] x \in {"resampler", "writesDone"} -> 3
    [] x \in {"vad", "join"} -> 4
    [] x \in {"newGStreamer", "delete"} -> 5
    [] x \in {"connectUnlessVad", "bug_remove"} -> 6
    [] x = "initMessage" -> 7
    [] x = "openStream" -> 8
    [] x = "config" -> 9
    [] x = "promise" -> 10
    [] x = "writeConfig" -> 11
    [] x = "drain" -> 12
    [] x \in {"thread_create", "write"} -> 13
    [] x \in {"bug_add", "media_bug_read"} -> 14
    [] OTHER -> 15

Elems(s)  == {s[i] : i \in DOMAIN s}
Sorted(s) == \A i, j \in DOMAIN s : i < j => Rank(s[i]) < Rank(s[j])

IsRun(s, S) == s \in Seq(Steps) /\ Sorted(s) /\ Elems(s) = S

\* The threads whose steps come in one order, and what each of them has still to do.
Ordered == Threads \ {"read"}
Left(t) == Elems(todo[t])

-----------------------------------------------------------------------------
(* The inductive invariant.                                                *)

VarTypes ==
  /\ vendor \in Vendors /\ vad \in BOOLEAN /\ alive \in BOOLEAN /\ attached \in BOOLEAN
  /\ private \in BOOLEAN /\ streamer \in BOOLEAN /\ connected \in BOOLEAN
  /\ promised \in BOOLEAN /\ writesDone \in BOOLEAN
  /\ lock \in {"free", "api", "hangup", "timers", "media"} /\ bugs \in {"free", "hangup", "media"}
  /\ object \in {"none", "alive", "deleted"} /\ net \in {"none", "open", "half", "over", "finished"}
  /\ responses \in Nat

TodoTypes ==
  /\ todo \in [Threads -> Seq(Steps)] /\ todo["read"] \in Seq(ReadSteps)
  /\ \A t \in Ordered : Left(t) \subseteq StepsOf(t) /\ Sorted(todo[t])

TypeOK == VarTypes /\ TodoTypes

\* A cleanup does all that comes after its next step, or has only to unlock.
Upward(t) ==
  /\ "lock" \in Left(t) => "private" \in Left(t)
  /\ "private" \in Left(t) => "writesDone" \in Left(t)
  /\ "writesDone" \in Left(t) => "join" \in Left(t)
  /\ "join" \in Left(t) => "delete" \in Left(t)
  /\ "delete" \in Left(t) => "bug_remove" \in Left(t)

\* The media thread calls connect() from the vad, and reads a frame again after each write; the
\* start calls connect() once; and who locked unlocks in the end.
Calling ==
  /\ "trylock" \in Left("media") => Left("media") \subseteq {"trylock", "media_bug_read", "unlock"}
  /\ "vad" \in Left("media") => Left("media") \subseteq {"vad", "write", "unlock"}
  /\ "write" \in Left("media") => "media_bug_read" \notin Left("media")
  /\ "connectUnlessVad" \in Left("start") => Left("start") \cap ConnectSteps = {}
  /\ \A t \in {"media", "timers", "api", "hangup"} : Left(t) # {} => "unlock" \in Left(t)

\* Who has the locks: a thread has cb->mutex from its lock to its unlock, the media thread and
\* the hangup have the bugs for as long as they run.
Locks ==
  /\ \A t \in Closers \cup {"timers"} : lock = t <=> Left(t) # {} /\ "lock" \notin Left(t)
  /\ lock = "media" <=> Left("media") # {} /\ "trylock" \notin Left("media")
  /\ \A t \in {"media", "hangup"} : bugs = t <=> Left(t) # {}

\* A cleanup that found the private, and is going to delete the streamer.
Past(t) == "delete" \in Left(t) /\ "private" \notin Left(t) /\ "lock" \notin Left(t)

\* From writesDone() on nothing is written.
Ending == object = "deleted" \/ \E t \in Closers : Past(t) /\ "writesDone" \notin Left(t)

\* The start has the session to itself until it sets the private.
Start ==
  /\ Left("start") # {} => ~private /\ ("newGStreamer" \in Left("start") <=> object = "none")
  /\ private => object = "alive"
  /\ attached => Left("start") \subseteq {"set_private"}
  /\ Left("media") # {} => attached
  /\ object = "none" => ~attached /\ todo["read"] = <<>>

\* Who deletes has joined the read thread, and keeps the media thread out.
Deletes ==
  /\ streamer <=> object = "alive"
  /\ \A t \in Closers : Past(t) =>
       /\ Left("start") = {} /\ ~private /\ object = "alive"
       /\ "join" \notin Left(t) => todo["read"] = <<>>
  /\ object = "deleted" =>
       /\ Left("start") = {} /\ ~private /\ todo["read"] = <<>>
       /\ Left("media") # {} =>
            /\ "trylock" \in Left("media") /\ lock = "api"
            /\ "private" \notin Left("api") /\ "bug_remove" \in Left("api")

\* connect() is called once, and by one thread.
Connects ==
  /\ \A t \in {"start", "media"} :
       /\ "openStream" \in Left(t) \/ "connectUnlessVad" \in Left(t) => ~connected
       /\ "promise" \in Left(t) => ~promised /\ (connected \/ "openStream" \in Left(t))
  /\ writesDone => Ending
  /\ promised => connected \/ Ending

IInv ==
  /\ TypeOK /\ (\A t \in Closers : Upward(t)) /\ Calling /\ Locks /\ Start /\ Deletes /\ Connects
  /\ StreamContract


-----------------------------------------------------------------------------
(* Runs of steps.                                                          *)

LEMMA RankNat == \A x : Rank(x) \in 1 .. 15
  BY DEF Rank

\* Numbers for the steps of the cleanup and of the timers.
LEMMA CloserRanks ==
  /\ Rank("lock") = 1 /\ Rank("private") = 2 /\ Rank("startTimers") = 2 /\ Rank("writesDone") = 3
  /\ Rank("join") = 4 /\ Rank("delete") = 5 /\ Rank("bug_remove") = 6 /\ Rank("unlock") = 15
  BY DEF Rank

\* Numbers for the steps of the start.
LEMMA StartRanks ==
  /\ Rank("pre_answer") = 1 /\ Rank("requiredVariable") = 2 /\ Rank("resampler") = 3
  /\ Rank("vad") = 4 /\ Rank("newGStreamer") = 5 /\ Rank("connectUnlessVad") = 6
  /\ Rank("thread_create") = 13 /\ Rank("bug_add") = 14 /\ Rank("set_private") = 15
  BY DEF Rank

\* Numbers for the steps of connect().
LEMMA ConnectRanks ==
  /\ Rank("initMessage") = 7 /\ Rank("openStream") = 8 /\ Rank("config") = 9
  /\ Rank("promise") = 10 /\ Rank("writeConfig") = 11 /\ Rank("drain") = 12
  BY DEF Rank

\* Numbers for the steps of the media callback.
LEMMA MediaRanks ==
  /\ Rank("trylock") = 1 /\ Rank("vad") = 4 /\ Rank("write") = 13 /\ Rank("media_bug_read") = 14
  /\ Rank("unlock") = 15
  BY DEF Rank

\* The next step is the one of the lowest rank, and it is done once.
LEMMA RestOf ==
  ASSUME NEW s \in Seq(Steps), s # <<>>, Sorted(s)
  PROVE  /\ Head(s) \in Elems(s) /\ IsRun(Tail(s), Elems(s) \ {Head(s)})
         /\ \A y \in Elems(s) : y = Head(s) \/ Rank(Head(s)) < Rank(y)
<1>1. /\ Len(s) \in Nat /\ Len(s) > 0 /\ Head(s) = s[1] /\ DOMAIN s = 1 .. Len(s)
      /\ Tail(s) \in Seq(Steps) /\ DOMAIN Tail(s) = 1 .. (Len(s) - 1)
      /\ \A i \in 1 .. (Len(s) - 1) : Tail(s)[i] = s[i + 1]
  OBVIOUS
<1>2. Sorted(Tail(s))
  BY <1>1 DEF Sorted
<1>3. \A i \in 2 .. Len(s) : Rank(s[1]) < Rank(s[i])
  BY <1>1 DEF Sorted
<1>4. \A i \in 2 .. Len(s) : s[i] # s[1]
  BY <1>3, RankNat
<1>5. Elems(Tail(s)) = Elems(s) \ {Head(s)}
  <2>1. ASSUME NEW y \in Elems(Tail(s)) PROVE y \in Elems(s) \ {Head(s)}
    <3>1. PICK i \in 1 .. (Len(s) - 1) : y = s[i + 1]
      BY <1>1, <2>1 DEF Elems
    <3> QED
      BY <1>1, <1>4, <3>1 DEF Elems
  <2>2. ASSUME NEW y \in Elems(s) \ {Head(s)} PROVE y \in Elems(Tail(s))
    <3>1. PICK i \in 2 .. Len(s) : y = s[i]
      BY <1>1, <2>2 DEF Elems
    <3>2. i - 1 \in 1 .. (Len(s) - 1) /\ Tail(s)[i - 1] = y
      BY <1>1, <3>1
    <3> QED
      BY <1>1, <3>2 DEF Elems
  <2> QED
    BY <2>1, <2>2
<1>6. Head(s) \in Elems(s)
  BY <1>1 DEF Elems
<1>7. \A y \in Elems(s) : y = Head(s) \/ Rank(Head(s)) < Rank(y)
  BY <1>1, <1>3 DEF Elems
<1> QED
  BY <1>1, <1>2, <1>5, <1>6, <1>7 DEF IsRun

\* One run after another.
LEMMA Joined ==
  ASSUME NEW s, NEW r, NEW S, NEW R, IsRun(s, S), IsRun(r, R),
         \A x \in S, y \in R : Rank(x) < Rank(y)
  PROVE  IsRun(s \o r, S \cup R)
<1> DEFINE m == Len(s)
           n == Len(r)
           q == s \o r
<1>1. /\ m \in Nat /\ n \in Nat /\ DOMAIN s = 1 .. m /\ DOMAIN r = 1 .. n
      /\ q \in Seq(Steps) /\ DOMAIN q = 1 .. (m + n)
      /\ \A i \in 1 .. m : q[i] = s[i]
      /\ \A i \in (m + 1) .. (m + n) : q[i] = r[i - m]
  BY DEF IsRun
<1>2. /\ Sorted(s) /\ Sorted(r) /\ Elems(s) = S /\ Elems(r) = R
      /\ (\A i \in 1 .. m : s[i] \in S) /\ (\A i \in 1 .. n : r[i] \in R)
  BY <1>1 DEF IsRun, Elems
<1> HIDE DEF m, n, q
<1>3. \A i \in 1 .. n : i + m \in (m + 1) .. (m + n) /\ q[i + m] = r[i]
  BY <1>1
<1>4. ASSUME NEW i \in 1 .. (m + n), NEW j \in 1 .. (m + n), i < j PROVE Rank(q[i]) < Rank(q[j])
  <2>1. CASE j <= m
    BY <1>1, <1>2, <1>4, <2>1 DEF Sorted
  <2>2. CASE i <= m /\ j > m
    <3>1. i \in 1 .. m /\ j \in (m + 1) .. (m + n) /\ j - m \in 1 .. n
      BY <1>1, <2>2
    <3>2. q[i] \in S /\ q[j] \in R
      BY <1>1, <1>2, <3>1
    <3> QED
      BY <3>2
  <2>3. CASE i > m
    <3>1. /\ i - m \in 1 .. n /\ j - m \in 1 .. n /\ i - m < j - m
          /\ q[i] = r[i - m] /\ q[j] = r[j - m]
      BY <1>1, <1>4, <2>3
    <3> QED
      BY <1>1, <1>2, <3>1 DEF Sorted
  <2> QED
    BY <1>1, <2>1, <2>2, <2>3
<1>5. Sorted(q)
  BY <1>1, <1>4 DEF Sorted
<1>6. Elems(q) = S \cup R
  <2>1. ASSUME NEW i \in 1 .. (m + n) PROVE q[i] \in S \cup R
    <3>1. CASE i <= m
      BY <1>1, <1>2, <3>1
    <3>2. CASE i > m
      <4>1. i - m \in 1 .. n /\ q[i] = r[i - m]
        BY <1>1, <3>2
      <4> QED
        BY <1>2, <4>1
    <3> QED
      BY <1>1, <3>1, <3>2
  <2>2. \A i \in 1 .. m : i \in 1 .. (m + n) /\ s[i] = q[i]
    BY <1>1
  <2>3. \A i \in 1 .. n : i + m \in 1 .. (m + n) /\ r[i] = q[i + m]
    BY <1>1, <1>3
  <2>4. S \subseteq Elems(q)
    BY <1>1, <1>2, <2>2 DEF Elems
  <2>5. R \subseteq Elems(q)
    <3>1. ASSUME NEW x \in R PROVE x \in Elems(q)
      <4>1. PICK i \in 1 .. n : x = r[i]
        BY <1>1, <1>2 DEF Elems
      <4> QED
        BY <1>1, <2>3, <4>1 DEF Elems
    <3> QED
      BY <3>1
  <2>6. Elems(q) \subseteq S \cup R
    BY <1>1, <2>1 DEF Elems
  <2> QED
    BY <2>4, <2>5, <2>6
<1> QED
  BY <1>1, <1>5, <1>6 DEF q, IsRun

\* Nothing is left to do when the run is empty.
LEMMA NoSteps == ASSUME NEW s \in Seq(Steps) PROVE Elems(s) = {} <=> s = <<>>
<1>1. DOMAIN s = 1 .. Len(s) /\ Len(s) \in Nat
  OBVIOUS
<1>2. CASE s = <<>>
  BY <1>2 DEF Elems
<1>3. CASE s # <<>>
  <2>1. s[1] \in Elems(s)
    BY <1>1, <1>3 DEF Elems
  <2> QED
    BY <1>3, <2>1
<1> QED
  BY <1>2, <1>3

\* 1 steps in their order are a run.
LEMMA Run1 ==
  ASSUME NEW a \in Steps
  PROVE  IsRun(<<a>>, {a})
<1> DEFINE s == <<a>>
<1>1. s \in Seq(Steps) /\ DOMAIN s = 1 .. 1
  OBVIOUS
<1>2. s[1] = a
  OBVIOUS
<1>3. \A i \in 1 .. 1 : i = 1
  OBVIOUS
<1> HIDE DEF s
<1>4. Elems(s) = {a}
  BY <1>1, <1>2, <1>3 DEF Elems
<1>5. Sorted(s)
  BY <1>1, <1>2, <1>3, RankNat DEF Sorted
<1> QED
  BY <1>1, <1>4, <1>5 DEF IsRun, s

\* 2 steps in their order are a run.
LEMMA Run2 ==
  ASSUME NEW a \in Steps, NEW b \in Steps,
         Rank(a) < Rank(b)
  PROVE  IsRun(<<a, b>>, {a, b})
<1> DEFINE s == <<a, b>>
<1>1. s \in Seq(Steps) /\ DOMAIN s = 1 .. 2
  OBVIOUS
<1>2. s[1] = a /\ s[2] = b
  OBVIOUS
<1>3. \A i \in 1 .. 2 : i = 1 \/ i = 2
  OBVIOUS
<1> HIDE DEF s
<1>4. Elems(s) = {a, b}
  BY <1>1, <1>2, <1>3 DEF Elems
<1>5. Sorted(s)
  BY <1>1, <1>2, <1>3, RankNat DEF Sorted
<1> QED
  BY <1>1, <1>4, <1>5 DEF IsRun, s

\* 3 steps in their order are a run.
LEMMA Run3 ==
  ASSUME NEW a \in Steps, NEW b \in Steps, NEW c \in Steps,
         Rank(a) < Rank(b), Rank(b) < Rank(c)
  PROVE  IsRun(<<a, b, c>>, {a, b, c})
<1> DEFINE s == <<a, b, c>>
<1>1. s \in Seq(Steps) /\ DOMAIN s = 1 .. 3
  OBVIOUS
<1>2. s[1] = a /\ s[2] = b /\ s[3] = c
  OBVIOUS
<1>3. \A i \in 1 .. 3 : i = 1 \/ i = 2 \/ i = 3
  OBVIOUS
<1> HIDE DEF s
<1>4. Elems(s) = {a, b, c}
  BY <1>1, <1>2, <1>3 DEF Elems
<1>5. Sorted(s)
  BY <1>1, <1>2, <1>3, RankNat DEF Sorted
<1> QED
  BY <1>1, <1>4, <1>5 DEF IsRun, s

\* 4 steps in their order are a run.
LEMMA Run4 ==
  ASSUME NEW a \in Steps, NEW b \in Steps, NEW c \in Steps, NEW d \in Steps,
         Rank(a) < Rank(b), Rank(b) < Rank(c), Rank(c) < Rank(d)
  PROVE  IsRun(<<a, b, c, d>>, {a, b, c, d})
<1> DEFINE s == <<a, b, c, d>>
<1>1. s \in Seq(Steps) /\ DOMAIN s = 1 .. 4
  OBVIOUS
<1>2. s[1] = a /\ s[2] = b /\ s[3] = c /\ s[4] = d
  OBVIOUS
<1>3. \A i \in 1 .. 4 : i = 1 \/ i = 2 \/ i = 3 \/ i = 4
  OBVIOUS
<1> HIDE DEF s
<1>4. Elems(s) = {a, b, c, d}
  BY <1>1, <1>2, <1>3 DEF Elems
<1>5. /\ Rank(a) < Rank(b) /\ Rank(a) < Rank(c) /\ Rank(a) < Rank(d)
      /\ Rank(b) < Rank(c) /\ Rank(b) < Rank(d)
      /\ Rank(c) < Rank(d)
  BY RankNat
<1>6. ASSUME NEW i \in 1 .. 4, NEW j \in 1 .. 4, i < j PROVE Rank(s[i]) < Rank(s[j])
  <2>1. CASE i = 1
    BY <1>2, <1>3, <1>5, <1>6, <2>1
  <2>2. CASE i = 2
    BY <1>2, <1>3, <1>5, <1>6, <2>2
  <2>3. CASE i = 3
    BY <1>2, <1>3, <1>5, <1>6, <2>3
  <2> QED
    BY <1>3, <1>6, <2>1, <2>2, <2>3
<1>7. Sorted(s)
  BY <1>1, <1>6 DEF Sorted
<1> QED
  BY <1>1, <1>4, <1>7 DEF IsRun, s

\* 5 steps in their order are a run.
LEMMA Run5 ==
  ASSUME NEW a \in Steps, NEW b \in Steps, NEW c \in Steps, NEW d \in Steps, NEW e \in Steps,
         Rank(a) < Rank(b), Rank(b) < Rank(c), Rank(c) < Rank(d), Rank(d) < Rank(e)
  PROVE  IsRun(<<a, b, c, d, e>>, {a, b, c, d, e})
<1> DEFINE s == <<a, b, c, d, e>>
<1>1. s \in Seq(Steps) /\ DOMAIN s = 1 .. 5
  OBVIOUS
<1>2. s[1] = a /\ s[2] = b /\ s[3] = c /\ s[4] = d /\ s[5] = e
  OBVIOUS
<1>3. \A i \in 1 .. 5 : i = 1 \/ i = 2 \/ i = 3 \/ i = 4 \/ i = 5
  OBVIOUS
<1> HIDE DEF s
<1>4. Elems(s) = {a, b, c, d, e}
  BY <1>1, <1>2, <1>3 DEF Elems
<1>5. /\ Rank(a) < Rank(b) /\ Rank(a) < Rank(c) /\ Rank(a) < Rank(d) /\ Rank(a) < Rank(e)
      /\ Rank(b) < Rank(c) /\ Rank(b) < Rank(d) /\ Rank(b) < Rank(e)
      /\ Rank(c) < Rank(d) /\ Rank(c) < Rank(e)
      /\ Rank(d) < Rank(e)
  BY RankNat
<1>6. ASSUME NEW i \in 1 .. 5, NEW j \in 1 .. 5, i < j PROVE Rank(s[i]) < Rank(s[j])
  <2>1. CASE i = 1
    BY <1>2, <1>3, <1>5, <1>6, <2>1
  <2>2. CASE i = 2
    BY <1>2, <1>3, <1>5, <1>6, <2>2
  <2>3. CASE i = 3
    BY <1>2, <1>3, <1>5, <1>6, <2>3
  <2>4. CASE i = 4
    BY <1>2, <1>3, <1>5, <1>6, <2>4
  <2> QED
    BY <1>3, <1>6, <2>1, <2>2, <2>3, <2>4
<1>7. Sorted(s)
  BY <1>1, <1>6 DEF Sorted
<1> QED
  BY <1>1, <1>4, <1>7 DEF IsRun, s

\* 7 steps in their order are a run.
LEMMA Run7 ==
  ASSUME NEW a \in Steps, NEW b \in Steps, NEW c \in Steps, NEW d \in Steps, NEW e \in Steps, NEW f \in Steps, NEW g \in Steps,
         Rank(a) < Rank(b), Rank(b) < Rank(c), Rank(c) < Rank(d), Rank(d) < Rank(e), Rank(e) < Rank(f), Rank(f) < Rank(g)
  PROVE  IsRun(<<a, b, c, d, e, f, g>>, {a, b, c, d, e, f, g})
<1> DEFINE s == <<a, b, c, d, e, f, g>>
<1>1. s \in Seq(Steps) /\ DOMAIN s = 1 .. 7
  OBVIOUS
<1>2. s[1] = a /\ s[2] = b /\ s[3] = c /\ s[4] = d /\ s[5] = e /\ s[6] = f /\ s[7] = g
  OBVIOUS
<1>3. \A i \in 1 .. 7 : i = 1 \/ i = 2 \/ i = 3 \/ i = 4 \/ i = 5 \/ i = 6 \/ i = 7
  OBVIOUS
<1> HIDE DEF s
<1>4. Elems(s) = {a, b, c, d, e, f, g}
  BY <1>1, <1>2, <1>3 DEF Elems
<1>5. /\ Rank(a) < Rank(b) /\ Rank(a) < Rank(c) /\ Rank(a) < Rank(d) /\ Rank(a) < Rank(e) /\ Rank(a) < Rank(f) /\ Rank(a) < Rank(g)
      /\ Rank(b) < Rank(c) /\ Rank(b) < Rank(d) /\ Rank(b) < Rank(e) /\ Rank(b) < Rank(f) /\ Rank(b) < Rank(g)
      /\ Rank(c) < Rank(d) /\ Rank(c) < Rank(e) /\ Rank(c) < Rank(f) /\ Rank(c) < Rank(g)
      /\ Rank(d) < Rank(e) /\ Rank(d) < Rank(f) /\ Rank(d) < Rank(g)
      /\ Rank(e) < Rank(f) /\ Rank(e) < Rank(g)
      /\ Rank(f) < Rank(g)
  BY RankNat
<1>6. ASSUME NEW i \in 1 .. 7, NEW j \in 1 .. 7, i < j PROVE Rank(s[i]) < Rank(s[j])
  <2>1. CASE i = 1
    BY <1>2, <1>3, <1>5, <1>6, <2>1
  <2>2. CASE i = 2
    BY <1>2, <1>3, <1>5, <1>6, <2>2
  <2>3. CASE i = 3
    BY <1>2, <1>3, <1>5, <1>6, <2>3
  <2>4. CASE i = 4
    BY <1>2, <1>3, <1>5, <1>6, <2>4
  <2>5. CASE i = 5
    BY <1>2, <1>3, <1>5, <1>6, <2>5
  <2>6. CASE i = 6
    BY <1>2, <1>3, <1>5, <1>6, <2>6
  <2> QED
    BY <1>3, <1>6, <2>1, <2>2, <2>3, <2>4, <2>5, <2>6
<1>7. Sorted(s)
  BY <1>1, <1>6 DEF Sorted
<1> QED
  BY <1>1, <1>4, <1>7 DEF IsRun, s


-----------------------------------------------------------------------------
(* The functions of the four modules are runs.                             *)

SessionInit == <<"resampler", "vad", "newGStreamer", "connectUnlessVad", "thread_create">>
Tails == <<"bug_add", "set_private">>

\* What every start does, what some do, and what connect() does.
InitRun == {"resampler", "vad", "newGStreamer", "connectUnlessVad", "thread_create"}
StartRun == InitRun \cup {"bug_add", "set_private"}

\* start_capture is what may refuse it, the session's init, and the bug with its private.
LEMMA StartIsRun ==
  /\ IsRun(<<"pre_answer">> \o SessionInit \o Tails, {"pre_answer"} \cup StartRun)
  /\ IsRun(<<"pre_answer", "requiredVariable">> \o SessionInit \o Tails,
           {"pre_answer", "requiredVariable"} \cup StartRun)
<1>1. /\ "resampler" \in Steps /\ "vad" \in Steps /\ "newGStreamer" \in Steps
      /\ "connectUnlessVad" \in Steps /\ "thread_create" \in Steps
      /\ "bug_add" \in Steps /\ "set_private" \in Steps
      /\ "pre_answer" \in Steps /\ "requiredVariable" \in Steps
  BY DEF Steps, StartSteps
<1>2. IsRun(SessionInit, InitRun)
  BY <1>1, StartRanks, Run5 DEF SessionInit, InitRun
<1>3. IsRun(Tails, {"bug_add", "set_private"})
  BY <1>1, StartRanks, Run2 DEF Tails
<1>4. IsRun(<<"pre_answer">>, {"pre_answer"})
  BY <1>1, Run1
<1>5. IsRun(<<"pre_answer", "requiredVariable">>, {"pre_answer", "requiredVariable"})
  BY <1>1, StartRanks, Run2
<1>6. \A x \in {"pre_answer", "requiredVariable"}, y \in InitRun : Rank(x) < Rank(y)
  BY StartRanks DEF InitRun
<1>7. \A x \in {"pre_answer", "requiredVariable"} \cup InitRun, y \in {"bug_add", "set_private"} :
        Rank(x) < Rank(y)
  BY StartRanks DEF InitRun
<1>8. /\ IsRun(<<"pre_answer">> \o SessionInit, {"pre_answer"} \cup InitRun)
      /\ IsRun(<<"pre_answer", "requiredVariable">> \o SessionInit, {"pre_answer", "requiredVariable"} \cup InitRun)
  BY <1>2, <1>4, <1>5, <1>6, Joined
<1>9. /\ IsRun(<<"pre_answer">> \o SessionInit \o Tails,
               ({"pre_answer"} \cup InitRun) \cup {"bug_add", "set_private"})
      /\ IsRun(<<"pre_answer", "requiredVariable">> \o SessionInit \o Tails,
               ({"pre_answer", "requiredVariable"} \cup InitRun) \cup {"bug_add", "set_private"})
  BY <1>3, <1>7, <1>8, Joined
<1> QED
  BY <1>9 DEF StartRun

\* connect() of nuance, nvidia and soniox, and of cobalt.
LEMMA ConnectIsRun ==
  /\ IsRun(<<"initMessage">> \o <<"openStream", "promise", "writeConfig", "drain">>,
           ConnectSteps \ {"config"})
  /\ IsRun(<<"initMessage">> \o <<"openStream", "config", "promise", "writeConfig", "drain">>,
           ConnectSteps)
<1>1. /\ "initMessage" \in Steps /\ "openStream" \in Steps /\ "config" \in Steps
      /\ "promise" \in Steps /\ "writeConfig" \in Steps /\ "drain" \in Steps
  BY DEF Steps, StartSteps, ConnectSteps
<1> DEFINE S == {"openStream", "promise", "writeConfig", "drain"}
           T == {"openStream", "config", "promise", "writeConfig", "drain"}
<1>2. IsRun(<<"initMessage">>, {"initMessage"})
  BY <1>1, Run1
<1>3. IsRun(<<"openStream", "promise", "writeConfig", "drain">>, S)
  BY <1>1, ConnectRanks, Run4
<1>4. IsRun(<<"openStream", "config", "promise", "writeConfig", "drain">>, T)
  BY <1>1, ConnectRanks, Run5
<1>5. \A x \in {"initMessage"}, y \in T : Rank(x) < Rank(y)
  BY ConnectRanks
<1>6. S \subseteq T /\ {"initMessage"} \cup S = ConnectSteps \ {"config"} /\ {"initMessage"} \cup T = ConnectSteps
  BY DEF ConnectSteps
<1> HIDE DEF S, T
<1>7. \A x \in {"initMessage"}, y \in S : Rank(x) < Rank(y)
  BY <1>5, <1>6
<1>8. IsRun(<<"initMessage">> \o <<"openStream", "promise", "writeConfig", "drain">>, {"initMessage"} \cup S)
  BY <1>2, <1>3, <1>7, Joined
<1>9. IsRun(<<"initMessage">> \o <<"openStream", "config", "promise", "writeConfig", "drain">>, {"initMessage"} \cup T)
  BY <1>2, <1>4, <1>5, Joined
<1> QED
  BY <1>6, <1>8, <1>9

\* The cleanup of all four, nuance's start_timers, and the callback of the media bug.
LEMMA RestAreRuns ==
  /\ IsRun(<<"lock", "private", "writesDone", "join", "delete", "bug_remove", "unlock">>, CloserSteps)
  /\ IsRun(<<"lock", "startTimers", "unlock">>, TimerSteps)
  /\ IsRun(<<"trylock", "media_bug_read", "unlock">>, {"trylock", "media_bug_read", "unlock"})
  /\ IsRun(<<"vad", "write">>, {"vad", "write"})
  /\ IsRun(<<"media_bug_read">>, {"media_bug_read"})
  /\ IsRun(<<"unlock">>, {"unlock"})
<1>1. /\ "lock" \in Steps /\ "private" \in Steps /\ "writesDone" \in Steps /\ "join" \in Steps
      /\ "delete" \in Steps /\ "bug_remove" \in Steps /\ "unlock" \in Steps
      /\ "startTimers" \in Steps /\ "trylock" \in Steps /\ "media_bug_read" \in Steps
      /\ "vad" \in Steps /\ "write" \in Steps
  BY DEF Steps, CloserSteps, TimerSteps, MediaSteps
<1>2. IsRun(<<"lock", "private", "writesDone", "join", "delete", "bug_remove", "unlock">>, CloserSteps)
  <2>1. /\ Rank("lock") < Rank("private") /\ Rank("private") < Rank("writesDone")
        /\ Rank("writesDone") < Rank("join") /\ Rank("join") < Rank("delete")
        /\ Rank("delete") < Rank("bug_remove") /\ Rank("bug_remove") < Rank("unlock")
    BY CloserRanks
  <2> QED
    BY <1>1, <2>1, Run7 DEF CloserSteps
<1>3. IsRun(<<"lock", "startTimers", "unlock">>, TimerSteps)
  BY <1>1, CloserRanks, Run3 DEF TimerSteps
<1>4. IsRun(<<"trylock", "media_bug_read", "unlock">>, {"trylock", "media_bug_read", "unlock"})
  BY <1>1, MediaRanks, Run3
<1>5. IsRun(<<"vad", "write">>, {"vad", "write"})
  BY <1>1, MediaRanks, Run2
<1> QED
  BY <1>1, <1>2, <1>3, <1>4, <1>5, Run1

\* So each function of each module is the run that it is written as.
LEMMA CodeFacts ==
  ASSUME NEW v \in Vendors
  PROVE  /\ \E S \in SUBSET {"pre_answer", "requiredVariable"} : IsRun(Code[v].start, S \cup StartRun)
         /\ \E C : /\ C \subseteq ConnectSteps /\ {"openStream", "promise"} \subseteq C
                  /\ IsRun(Code[v].connect, C)
         /\ IsRun(Code[v].cleanup, CloserSteps)
         /\ IsRun(Tail(Code[v].frame), {"trylock", "media_bug_read", "unlock"})
         /\ IsRun(Code[v].passed, {"vad", "write"})
         /\ Code[v].read \in Seq(ReadSteps)
         /\ \A r \in {"result", "empty", "none"} : Code[v].response[r] \in Seq(ReadSteps)
<1>1. CASE v = "nuance"
  <2>1. /\ Code[v].start = NuanceStartCapture /\ Code[v].connect = NuanceConnect
        /\ Code[v].cleanup = NuanceCleanup /\ Code[v].frame = NuanceFrame /\ Code[v].passed = NuanceFramePassed
        /\ Code[v].read = NuanceReadThread /\ Code[v].response = NuanceResponse
    BY <1>1 DEF Code
  <2>2. Code[v].start = <<"pre_answer", "requiredVariable">> \o SessionInit \o Tails
    BY <2>1 DEF NuanceStartCapture, NuanceSessionInit, SessionInit, Tails
  <2>3. Code[v].connect = <<"initMessage">> \o <<"openStream", "promise", "writeConfig", "drain">>
    BY <2>1 DEF NuanceConnect, NuanceInitMessage
  <2>4. Code[v].cleanup = <<"lock", "private", "writesDone", "join", "delete", "bug_remove", "unlock">>
    BY <2>1 DEF NuanceCleanup
  <2>5. Tail(Code[v].frame) = <<"trylock", "media_bug_read", "unlock">>
    BY <2>1 DEF NuanceFrame
  <2>6. Code[v].passed = <<"vad", "write">>
    BY <2>1 DEF NuanceFramePassed
  <2>7. Code[v].read \in Seq(ReadSteps)
    BY <2>1 DEF NuanceReadThread, ReadSteps
  <2>8. \A r \in {"result", "empty", "none"} : Code[v].response[r] \in Seq(ReadSteps)
    <3>1. /\ NuanceResponse.result \in Seq(ReadSteps) /\ NuanceResponse.empty \in Seq(ReadSteps)
          /\ NuanceResponse.none \in Seq(ReadSteps)
      BY DEF NuanceResponse, ReadSteps
    <3> QED
      BY <2>1, <3>1
  <2>9. {"pre_answer", "requiredVariable"} \in SUBSET {"pre_answer", "requiredVariable"}
    OBVIOUS
  <2>10. (ConnectSteps \ {"config"}) \subseteq ConnectSteps /\ {"openStream", "promise"} \subseteq (ConnectSteps \ {"config"})
    BY DEF ConnectSteps
  <2> QED
    BY <2>2, <2>3, <2>4, <2>5, <2>6, <2>7, <2>8, <2>9, <2>10, StartIsRun, ConnectIsRun, RestAreRuns
<1>2. CASE v = "nvidia"
  <2>1. /\ Code[v].start = NvidiaStartCapture /\ Code[v].connect = NvidiaConnect
        /\ Code[v].cleanup = NvidiaCleanup /\ Code[v].frame = NvidiaFrame /\ Code[v].passed = NvidiaFramePassed
        /\ Code[v].read = NvidiaReadThread /\ Code[v].response = NvidiaResponse
    BY <1>2 DEF Code
  <2>2. Code[v].start = <<"pre_answer", "requiredVariable">> \o SessionInit \o Tails
    BY <2>1 DEF NvidiaStartCapture, NvidiaSessionInit, SessionInit, Tails
  <2>3. Code[v].connect = <<"initMessage">> \o <<"openStream", "promise", "writeConfig", "drain">>
    BY <2>1 DEF NvidiaConnect, NvidiaInitMessage
  <2>4. Code[v].cleanup = <<"lock", "private", "writesDone", "join", "delete", "bug_remove", "unlock">>
    BY <2>1 DEF NvidiaCleanup
  <2>5. Tail(Code[v].frame) = <<"trylock", "media_bug_read", "unlock">>
    BY <2>1 DEF NvidiaFrame
  <2>6. Code[v].passed = <<"vad", "write">>
    BY <2>1 DEF NvidiaFramePassed
  <2>7. Code[v].read \in Seq(ReadSteps)
    BY <2>1 DEF NvidiaReadThread, ReadSteps
  <2>8. \A r \in {"result", "empty", "none"} : Code[v].response[r] \in Seq(ReadSteps)
    <3>1. /\ NvidiaResponse.result \in Seq(ReadSteps) /\ NvidiaResponse.empty \in Seq(ReadSteps)
          /\ NvidiaResponse.none \in Seq(ReadSteps)
      BY DEF NvidiaResponse, ReadSteps
    <3> QED
      BY <2>1, <3>1
  <2>9. {"pre_answer", "requiredVariable"} \in SUBSET {"pre_answer", "requiredVariable"}
    OBVIOUS
  <2>10. (ConnectSteps \ {"config"}) \subseteq ConnectSteps /\ {"openStream", "promise"} \subseteq (ConnectSteps \ {"config"})
    BY DEF ConnectSteps
  <2> QED
    BY <2>2, <2>3, <2>4, <2>5, <2>6, <2>7, <2>8, <2>9, <2>10, StartIsRun, ConnectIsRun, RestAreRuns
<1>3. CASE v = "soniox"
  <2>1. /\ Code[v].start = SonioxStartCapture /\ Code[v].connect = SonioxConnect
        /\ Code[v].cleanup = SonioxCleanup /\ Code[v].frame = SonioxFrame /\ Code[v].passed = SonioxFramePassed
        /\ Code[v].read = SonioxReadThread /\ Code[v].response = SonioxResponse
    BY <1>3 DEF Code
  <2>2. Code[v].start = <<"pre_answer">> \o SessionInit \o Tails
    BY <2>1 DEF SonioxStartCapture, SonioxSessionInit, SessionInit, Tails
  <2>3. Code[v].connect = <<"initMessage">> \o <<"openStream", "promise", "writeConfig", "drain">>
    BY <2>1 DEF SonioxConnect, SonioxInitMessage
  <2>4. Code[v].cleanup = <<"lock", "private", "writesDone", "join", "delete", "bug_remove", "unlock">>
    BY <2>1 DEF SonioxCleanup
  <2>5. Tail(Code[v].frame) = <<"trylock", "media_bug_read", "unlock">>
    BY <2>1 DEF SonioxFrame
  <2>6. Code[v].passed = <<"vad", "write">>
    BY <2>1 DEF SonioxFramePassed
  <2>7. Code[v].read \in Seq(ReadSteps)
    BY <2>1 DEF SonioxReadThread, ReadSteps
  <2>8. \A r \in {"result", "empty", "none"} : Code[v].response[r] \in Seq(ReadSteps)
    <3>1. /\ SonioxResponse.result \in Seq(ReadSteps) /\ SonioxResponse.empty \in Seq(ReadSteps)
          /\ SonioxResponse.none \in Seq(ReadSteps)
      BY DEF SonioxResponse, ReadSteps
    <3> QED
      BY <2>1, <3>1
  <2>9. {"pre_answer"} \in SUBSET {"pre_answer", "requiredVariable"}
    OBVIOUS
  <2>10. (ConnectSteps \ {"config"}) \subseteq ConnectSteps /\ {"openStream", "promise"} \subseteq (ConnectSteps \ {"config"})
    BY DEF ConnectSteps
  <2> QED
    BY <2>2, <2>3, <2>4, <2>5, <2>6, <2>7, <2>8, <2>9, <2>10, StartIsRun, ConnectIsRun, RestAreRuns
<1>4. CASE v = "cobalt"
  <2>1. /\ Code[v].start = CobaltStartCapture /\ Code[v].connect = CobaltConnect
        /\ Code[v].cleanup = CobaltCleanup /\ Code[v].frame = CobaltFrame /\ Code[v].passed = CobaltFramePassed
        /\ Code[v].read = CobaltReadThread /\ Code[v].response = CobaltResponse
    BY <1>4 DEF Code
  <2>2. Code[v].start = <<"pre_answer">> \o SessionInit \o Tails
    BY <2>1 DEF CobaltStartCapture, CobaltSessionInit, SessionInit, Tails
  <2>3. Code[v].connect = <<"initMessage">> \o <<"openStream", "config", "promise", "writeConfig", "drain">>
    BY <2>1 DEF CobaltConnect, CobaltGrpcConnection
  <2>4. Code[v].cleanup = <<"lock", "private", "writesDone", "join", "delete", "bug_remove", "unlock">>
    BY <2>1 DEF CobaltCleanup
  <2>5. Tail(Code[v].frame) = <<"trylock", "media_bug_read", "unlock">>
    BY <2>1 DEF CobaltFrame
  <2>6. Code[v].passed = <<"vad", "write">>
    BY <2>1 DEF CobaltFramePassed
  <2>7. Code[v].read \in Seq(ReadSteps)
    BY <2>1 DEF CobaltReadThread, ReadSteps
  <2>8. \A r \in {"result", "empty", "none"} : Code[v].response[r] \in Seq(ReadSteps)
    <3>1. /\ CobaltResponse.result \in Seq(ReadSteps) /\ CobaltResponse.empty \in Seq(ReadSteps)
          /\ CobaltResponse.none \in Seq(ReadSteps)
      BY DEF CobaltResponse, ReadSteps
    <3> QED
      BY <2>1, <3>1
  <2>9. {"pre_answer"} \in SUBSET {"pre_answer", "requiredVariable"}
    OBVIOUS
  <2>10. ConnectSteps \subseteq ConnectSteps /\ {"openStream", "promise"} \subseteq ConnectSteps
    BY DEF ConnectSteps
  <2> QED
    BY <2>2, <2>3, <2>4, <2>5, <2>6, <2>7, <2>8, <2>9, <2>10, StartIsRun, ConnectIsRun, RestAreRuns
<1> QED
  BY <1>1, <1>2, <1>3, <1>4 DEF Vendors

-----------------------------------------------------------------------------
(* What a thread's step does to what is left.                              *)

\* t has F left after the step, and the other threads what they had.
Turns(t, F) ==
  /\ Left(t)' = F /\ todo'["read"] = todo["read"] /\ TodoTypes'
  /\ \A u \in Ordered \ {t} : Left(u)' = Left(u)

\* A thread is given the run f.
LEMMA GivenRun ==
  ASSUME TodoTypes, NEW t \in Ordered, NEW f, NEW F, IsRun(f, F), F \subseteq StepsOf(t),
         todo' = [todo EXCEPT ![t] = f]
  PROVE  Turns(t, F)
<1>1. todo'[t] = f /\ \A u \in Threads \ {t} : todo'[u] = todo[u]
  BY DEF TodoTypes, Ordered
<1>2. f \in Seq(Steps) /\ Sorted(f) /\ Elems(f) = F
  BY DEF IsRun
<1>3. t \in Threads /\ t # "read" /\ "read" \in Threads
  BY DEF Ordered, Threads
<1>4. todo' \in [Threads -> Seq(Steps)]
  BY <1>2, <1>3 DEF TodoTypes
<1>5. todo'["read"] = todo["read"]
  BY <1>1, <1>3
<1>6. Left(t)' = F /\ \A u \in Ordered \ {t} : Left(u)' = Left(u)
  BY <1>1, <1>2 DEF Left, Ordered
<1>7. \A u \in Ordered : Left(u)' \subseteq StepsOf(u) /\ Sorted(todo'[u])
  BY <1>1, <1>2, <1>6 DEF TodoTypes, Ordered
<1> QED
  BY <1>4, <1>5, <1>6, <1>7 DEF Turns, TodoTypes

\* What a thread is at comes before all that it has left.
LEMMA AtHead ==
  ASSUME TodoTypes, NEW t \in Ordered, NEW h, At(t, h)
  PROVE  /\ h \in Left(t) /\ IsRun(Tail(todo[t]), Left(t) \ {h})
         /\ \A y \in Left(t) : y = h \/ Rank(h) < Rank(y)
<1>1. todo[t] \in Seq(Steps) /\ todo[t] # <<>> /\ Head(todo[t]) = h /\ Sorted(todo[t])
  BY DEF TodoTypes, At, Ordered
<1> QED
  BY <1>1, RestOf DEF Left

\* It goes on.
LEMMA GoesOn ==
  ASSUME TodoTypes, NEW t \in Ordered, NEW h, At(t, h), Goes(t)
  PROVE  Turns(t, Left(t) \ {h})
<1>1. IsRun(Tail(todo[t]), Left(t) \ {h}) /\ Left(t) \subseteq StepsOf(t)
  BY AtHead DEF TodoTypes
<1>2. todo' = [todo EXCEPT ![t] = Tail(todo[t])]
  BY DEF Goes
<1> QED
  BY <1>1, <1>2, GivenRun

\* It goes on with a function that it calls.
LEMMA CallsOn ==
  ASSUME TodoTypes, NEW t \in Ordered, NEW h, At(t, h), NEW f, NEW F, IsRun(f, F),
         F \subseteq StepsOf(t), \A x \in F, y \in Left(t) \ {h} : Rank(x) < Rank(y), Calls(t, f)
  PROVE  Turns(t, F \cup (Left(t) \ {h}))
<1>1. IsRun(Tail(todo[t]), Left(t) \ {h}) /\ Left(t) \subseteq StepsOf(t)
  BY AtHead DEF TodoTypes
<1>2. IsRun(f \o Tail(todo[t]), F \cup (Left(t) \ {h}))
  BY <1>1, Joined
<1>3. todo' = [todo EXCEPT ![t] = f \o Tail(todo[t])]
  BY DEF Calls
<1> QED
  BY <1>1, <1>2, <1>3, GivenRun

\* It returns.
LEMMA LeavesOn ==
  ASSUME TodoTypes, NEW t \in Ordered, Leaves(t)
  PROVE  Turns(t, {})
<1>1. IsRun(<<>>, {})
  BY DEF IsRun, Sorted, Elems
<1> QED
  BY <1>1, GivenRun DEF Leaves

\* It begins.
LEMMA BeginsOn ==
  ASSUME TodoTypes, NEW t \in Ordered, NEW f, NEW F, IsRun(f, F), F \subseteq StepsOf(t), Begins(t, f)
  PROVE  Turns(t, F) /\ Left(t) = {}
<1>1. todo[t] = <<>> /\ todo[t] \in Seq(Steps)
  BY DEF Begins, TodoTypes, Ordered
<1>2. Left(t) = {}
  BY <1>1, NoSteps DEF Left
<1> QED
  BY <1>2, GivenRun DEF Begins

\* The read thread takes a step.
LEMMA ReadOn ==
  ASSUME TodoTypes, NEW q \in Seq(ReadSteps), todo' = [todo EXCEPT !["read"] = q]
  PROVE  todo'["read"] = q /\ TodoTypes' /\ \A u \in Ordered : Left(u)' = Left(u)
<1>1. "read" \in Threads /\ q \in Seq(Steps)
  BY DEF Threads, Steps
<1>2. todo'["read"] = q /\ \A u \in Ordered : todo'[u] = todo[u]
  BY <1>1 DEF TodoTypes, Ordered
<1>3. \A u \in Ordered : Left(u)' = Left(u)
  BY <1>2 DEF Left
<1>4. todo' \in [Threads -> Seq(Steps)]
  BY <1>1 DEF TodoTypes
<1> QED
  BY <1>2, <1>3, <1>4 DEF TodoTypes

\* Nobody does.
LEMMA TodoKept ==
  ASSUME TodoTypes, UNCHANGED todo
  PROVE  TodoTypes' /\ todo'["read"] = todo["read"] /\ \A u \in Ordered : Left(u)' = Left(u)
BY DEF TodoTypes, Left

-----------------------------------------------------------------------------
(* Each action keeps the invariant.                                        *)

\* What a cleanup has behind it is not left.
LEMMA CloserAt ==
  ASSUME IInv, NEW t \in Closers, NEW h \in CloserSteps, At(t, h)
  PROVE  /\ h \in Left(t) /\ Left(t) \subseteq CloserSteps /\ "unlock" \in Left(t)
         /\ h # "lock" => "lock" \notin Left(t)
         /\ h \notin {"lock", "private"} => "private" \notin Left(t)
         /\ h \notin {"lock", "private", "writesDone"} => "writesDone" \notin Left(t)
         /\ h \in {"delete", "bug_remove", "unlock"} => "join" \notin Left(t)
         /\ h \in {"bug_remove", "unlock"} => "delete" \notin Left(t)
         /\ h = "unlock" => "bug_remove" \notin Left(t)
         /\ h = "lock" => "private" \in Left(t)
         /\ h \in {"lock", "private"} => "writesDone" \in Left(t)
         /\ h \in {"lock", "private", "writesDone"} => "join" \in Left(t)
         /\ h \in {"lock", "private", "writesDone", "join"} => "delete" \in Left(t)
         /\ h \in {"lock", "private", "writesDone", "join", "delete"} => "bug_remove" \in Left(t)
<1>1. TodoTypes /\ t \in Ordered /\ t \in {"media", "timers", "api", "hangup"}
  BY DEF IInv, TypeOK, Ordered, Threads, Closers
<1>2. h \in Left(t) /\ \A y \in Left(t) : y = h \/ Rank(h) < Rank(y)
  BY <1>1, AtHead
<1>3. Left(t) \subseteq CloserSteps /\ "unlock" \in Left(t) /\ Upward(t)
  BY <1>1, <1>2 DEF IInv, TodoTypes, StepsOf, Closers, Calling
<1>4. CASE h = "lock"
  BY <1>2, <1>3, <1>4 DEF Upward
<1>5. CASE h = "private"
  <2>1. "lock" \notin Left(t)
    BY <1>2, <1>5, CloserRanks
  <2> QED
    BY <1>2, <1>3, <1>5, <2>1 DEF Upward
<1>6. CASE h = "writesDone"
  <2>1. "lock" \notin Left(t) /\ "private" \notin Left(t)
    BY <1>2, <1>6, CloserRanks
  <2> QED
    BY <1>2, <1>3, <1>6, <2>1 DEF Upward
<1>7. CASE h = "join"
  <2>1. "lock" \notin Left(t) /\ "private" \notin Left(t) /\ "writesDone" \notin Left(t)
    BY <1>2, <1>7, CloserRanks
  <2> QED
    BY <1>2, <1>3, <1>7, <2>1 DEF Upward
<1>8. CASE h = "delete"
  <2>1. "lock" \notin Left(t) /\ "private" \notin Left(t) /\ "writesDone" \notin Left(t) /\ "join" \notin Left(t)
    BY <1>2, <1>8, CloserRanks
  <2> QED
    BY <1>2, <1>3, <1>8, <2>1 DEF Upward
<1>9. CASE h = "bug_remove"
  <2>1. "lock" \notin Left(t) /\ "private" \notin Left(t) /\ "writesDone" \notin Left(t) /\ "join" \notin Left(t) /\ "delete" \notin Left(t)
    BY <1>2, <1>9, CloserRanks
  <2> QED
    BY <1>2, <1>3, <1>9, <2>1 DEF Upward
<1>10. CASE h = "unlock"
  <2>1. "lock" \notin Left(t) /\ "private" \notin Left(t) /\ "writesDone" \notin Left(t) /\ "join" \notin Left(t) /\ "delete" \notin Left(t) /\ "bug_remove" \notin Left(t)
    BY <1>2, <1>10, CloserRanks
  <2> QED
    BY <1>3, <1>10, <2>1 DEF Upward
<1> QED
  BY <1>4, <1>5, <1>6, <1>7, <1>8, <1>9, <1>10 DEF CloserSteps

\* Who is going to delete has the session to itself.
LEMMA PastAlone ==
  ASSUME IInv, NEW t \in Closers, Past(t)
  PROVE  /\ lock = t /\ Left("start") = {} /\ ~private /\ object = "alive" /\ streamer
         /\ Left("media") \subseteq {"trylock", "media_bug_read", "unlock"}
         /\ \A u \in Closers \ {t} : ~Past(u)
<1>1. Locks /\ Deletes /\ Calling
  BY DEF IInv
<1>2. lock = t
  BY <1>1 DEF Locks, Past
<1>3. "trylock" \in Left("media") \/ Left("media") = {}
  BY <1>1, <1>2 DEF Locks, Closers
<1>4. Left("media") \subseteq {"trylock", "media_bug_read", "unlock"}
  BY <1>1, <1>3 DEF Calling
<1>5. \A u \in Closers \ {t} : ~Past(u)
  BY <1>1, <1>2 DEF Locks, Past
<1> QED
  BY <1>1, <1>2, <1>4, <1>5 DEF Deletes

\* What the start is at: nobody deletes, and the media thread runs only at its end.
LEMMA StartAt ==
  ASSUME IInv, NEW h, At("start", h)
  PROVE  /\ h \in Left("start") /\ Left("start") \subseteq StartSteps
         /\ \A y \in Left("start") : y = h \/ Rank(h) < Rank(y)
         /\ object # "deleted" /\ (\A u \in Closers : ~Past(u)) /\ ~writesDone /\ ~private
         /\ h # "set_private" => ~attached /\ Left("media") = {}
<1>1. TodoTypes /\ "start" \in Ordered
  BY DEF IInv, TypeOK, Ordered, Threads
<1>2. h \in Left("start") /\ \A y \in Left("start") : y = h \/ Rank(h) < Rank(y)
  BY <1>1, AtHead
<1>3. Left("start") \subseteq StartSteps
  BY <1>1 DEF TodoTypes, StepsOf, Closers
<1>4. object # "deleted" /\ \A u \in Closers : ~Past(u)
  BY <1>2 DEF IInv, Deletes
<1>5. ~writesDone
  BY <1>4 DEF IInv, Connects, Ending
<1>6. ~private /\ (h # "set_private" => ~attached /\ Left("media") = {})
  BY <1>2 DEF IInv, Start
<1> QED
  BY <1>2, <1>3, <1>4, <1>5, <1>6

\* What the media thread is at: past the trylock the mutex is its own, and nobody deletes.
LEMMA MediaAt ==
  ASSUME IInv, NEW h \in MediaSteps, At("media", h)
  PROVE  /\ h \in Left("media") /\ Left("media") \subseteq MediaSteps /\ "unlock" \in Left("media")
         /\ \A y \in Left("media") : y = h \/ Rank(h) < Rank(y)
         /\ bugs = "media" /\ attached /\ Left("start") \subseteq {"set_private"} /\ object # "none"
         /\ h # "trylock" =>
              /\ "trylock" \notin Left("media") /\ lock = "media" /\ object = "alive"
              /\ (\A u \in Closers : ~Past(u)) /\ ~writesDone
<1>1. TodoTypes /\ "media" \in Ordered /\ VarTypes
  BY DEF IInv, TypeOK, Ordered, Threads
<1>2. h \in Left("media") /\ \A y \in Left("media") : y = h \/ Rank(h) < Rank(y)
  BY <1>1, AtHead
<1>3. Left("media") \subseteq MediaSteps /\ "unlock" \in Left("media")
  BY <1>1, <1>2 DEF IInv, TodoTypes, StepsOf, Closers, Calling
<1>4. bugs = "media"
  BY <1>2 DEF IInv, Locks
<1>5. attached /\ Left("start") \subseteq {"set_private"} /\ object # "none"
  BY <1>2 DEF IInv, Start
<1>6. ASSUME h # "trylock"
      PROVE  /\ "trylock" \notin Left("media") /\ lock = "media" /\ object = "alive"
             /\ (\A u \in Closers : ~Past(u)) /\ ~writesDone
  <2>1. "trylock" \notin Left("media")
    BY <1>2, <1>6, MediaRanks, RankNat
  <2>2. lock = "media"
    BY <1>2, <2>1 DEF IInv, Locks
  <2>3. object # "deleted"
    BY <1>2, <2>1 DEF IInv, Deletes
  <2>4. \A u \in Closers : ~Past(u)
    BY <2>2 DEF IInv, Locks, Past, Closers
  <2>5. object = "alive"
    BY <1>1, <1>5, <2>3 DEF VarTypes
  <2>6. ~writesDone
    BY <2>3, <2>4 DEF IInv, Connects, Ending
  <2> QED
    BY <2>1, <2>2, <2>4, <2>5, <2>6
<1> QED
  BY <1>2, <1>3, <1>4, <1>5, <1>6

\* connect() runs on one thread at a time, and while nobody deletes.
LEMMA ConnectAt ==
  ASSUME IInv, NEW t \in {"start", "media"}, NEW h \in ConnectSteps, At(t, h)
  PROVE  /\ t \in Ordered /\ h \in Left(t) /\ \A y \in Left(t) : y = h \/ Rank(h) < Rank(y)
         /\ object # "deleted" /\ (\A u \in Closers : ~Past(u)) /\ ~writesDone
         /\ \A u \in {"start", "media"} \ {t} : Left(u) \subseteq {"set_private"}
         /\ "connectUnlessVad" \notin Left(t) /\ "trylock" \notin Left(t)
<1>1. h \in StartSteps /\ h \in MediaSteps /\ h # "set_private" /\ h # "trylock"
  BY DEF StartSteps, MediaSteps, ConnectSteps
<1>2. Rank(h) \in 7 .. 12
  BY ConnectRanks DEF ConnectSteps
<1>3. CASE t = "start"
  <2>1. /\ h \in Left(t) /\ (\A y \in Left(t) : y = h \/ Rank(h) < Rank(y))
        /\ object # "deleted" /\ (\A u \in Closers : ~Past(u)) /\ ~writesDone /\ Left("media") = {}
    BY <1>1, <1>3, StartAt
  <2>2. "connectUnlessVad" \notin Left(t) /\ "trylock" \notin Left(t)
    BY <1>2, <2>1, StartRanks, MediaRanks DEF ConnectSteps
  <2> QED
    BY <1>3, <2>1, <2>2 DEF Ordered, Threads
<1>4. CASE t = "media"
  <2>1. /\ h \in Left(t) /\ (\A y \in Left(t) : y = h \/ Rank(h) < Rank(y))
        /\ object # "deleted" /\ (\A u \in Closers : ~Past(u)) /\ ~writesDone
        /\ Left("start") \subseteq {"set_private"}
    BY <1>1, <1>4, MediaAt
  <2>2. "connectUnlessVad" \notin Left(t) /\ "trylock" \notin Left(t)
    BY <1>2, <2>1, StartRanks, MediaRanks DEF ConnectSteps
  <2> QED
    BY <1>4, <2>1, <2>2 DEF Ordered, Threads
<1> QED
  BY <1>3, <1>4

\* writesDone(): half-close, or the wait for the connection is cancelled.
LEMMA WritesDoneKeeps ==
  ASSUME IInv, NEW t \in Closers, WritesDone(t)
  PROVE  IInv'
<1>1. VarTypes /\ TodoTypes /\ (\A u \in Closers : Upward(u)) /\ Calling /\ Locks /\ Start
      /\ Deletes /\ Connects /\ StreamContract
  BY DEF IInv, TypeOK
<1>2. UNCHANGED <<vendor, vad, alive, attached, private, lock, bugs, streamer, object, connected, responses>>
  BY DEF WritesDone, SessionKeeps, LocksKeep, ObjectKeeps
<1>3. At(t, "writesDone") /\ Goes(t) /\ t \in Ordered
  BY DEF Ordered, Threads, Closers, WritesDone
<1>4. TodoTypes' /\ todo'["read"] = todo["read"] /\ Left(t)' = Left(t) \ {"writesDone"}
      /\ \A u \in Ordered \ {t} : Left(u)' = Left(u)
  BY <1>1, <1>3, GoesOn DEF Turns
<1>5. /\ "writesDone" \in Left(t) /\ "unlock" \in Left(t)
      /\ "lock" \notin Left(t)
      /\ "private" \notin Left(t)
      /\ "join" \in Left(t)
      /\ "delete" \in Left(t)
      /\ "bug_remove" \in Left(t)
  BY <1>3, CloserAt DEF CloserSteps
<1>6. /\ lock = t /\ Left("start") = {} /\ ~private /\ object = "alive" /\ streamer
      /\ Left("media") \subseteq {"trylock", "media_bug_read", "unlock"}
      /\ \A u \in Closers \ {t} : ~Past(u)
  BY <1>5, PastAlone DEF Past
<1>7. \/ /\ streamer /\ connected /\ writesDone' = TRUE
            /\ net' = (IF net = "open" THEN "half" ELSE net) /\ UNCHANGED <<promised, broken>>
         \/ /\ ~(streamer /\ connected) /\ promised' = (promised \/ streamer)
            /\ broken' = (IF streamer /\ promised THEN broken \cup {"twoValues"} ELSE broken)
            /\ UNCHANGED <<writesDone, net>>
  BY DEF WritesDone, Breaks
<1>8. VarTypes'
  <2>1. promised' \in BOOLEAN /\ writesDone' \in BOOLEAN /\ net' \in {"none", "open", "half", "over", "finished"}
    BY <1>1, <1>7 DEF VarTypes, Closers
  <2> QED
    BY <1>1, <1>2, <2>1 DEF VarTypes
<1>9. \A u \in Closers : Upward(u)'
  BY <1>1, <1>4, <1>5 DEF Ordered, Threads, Closers, Upward
<1>10. Calling'
  BY <1>1, <1>4 DEF Ordered, Threads, Calling
<1>11. Locks'
  BY <1>1, <1>2, <1>4 DEF Ordered, Threads, Closers, Locks, Upward
<1>12. Start'
  BY <1>1, <1>2, <1>4 DEF Ordered, Threads, Start
<1>13. Deletes'
  BY <1>2, <1>4, <1>5, <1>6 DEF Ordered, Threads, Closers, Deletes, Past
<1>14. Connects'
  BY <1>4, <1>5, <1>6 DEF Ordered, Threads, Connects, Ending, Past
<1>15. StreamContract'
  BY <1>1, <1>5, <1>6, <1>7 DEF StreamContract, Connects, Ending
<1> QED
  BY <1>4, <1>8, <1>9, <1>10, <1>11, <1>12, <1>13, <1>14, <1>15 DEF IInv, TypeOK

\* The cleanup joins the read thread.
LEMMA JoinKeeps ==
  ASSUME IInv, NEW t \in Closers, Join(t)
  PROVE  IInv'
<1>1. VarTypes /\ TodoTypes /\ (\A u \in Closers : Upward(u)) /\ Calling /\ Locks /\ Start
      /\ Deletes /\ Connects /\ StreamContract
  BY DEF IInv, TypeOK
<1>2. UNCHANGED <<vendor, vad, alive, attached, private, lock, bugs, streamer, object, connected, promised,
     writesDone, net, responses, broken>>
  BY DEF Join, SessionKeeps, LocksKeep, StreamKeeps, ObjectKeeps
<1>3. At(t, "join") /\ Goes(t) /\ t \in Ordered
  BY DEF Ordered, Threads, Closers, Join
<1>4. TodoTypes' /\ todo'["read"] = todo["read"] /\ Left(t)' = Left(t) \ {"join"}
      /\ \A u \in Ordered \ {t} : Left(u)' = Left(u)
  BY <1>1, <1>3, GoesOn DEF Turns
<1>5. /\ "join" \in Left(t) /\ "unlock" \in Left(t)
      /\ "lock" \notin Left(t)
      /\ "private" \notin Left(t)
      /\ "writesDone" \notin Left(t)
      /\ "delete" \in Left(t)
      /\ "bug_remove" \in Left(t)
  BY <1>3, CloserAt DEF CloserSteps
<1>6. /\ lock = t /\ Left("start") = {} /\ ~private /\ object = "alive" /\ streamer
      /\ Left("media") \subseteq {"trylock", "media_bug_read", "unlock"}
      /\ \A u \in Closers \ {t} : ~Past(u)
  BY <1>5, PastAlone DEF Past
<1>7. streamer => todo["read"] = <<>>
  BY DEF Join
<1>8. VarTypes'
  BY <1>1, <1>2 DEF VarTypes
<1>9. \A u \in Closers : Upward(u)'
  BY <1>1, <1>4, <1>5 DEF Ordered, Threads, Closers, Upward
<1>10. Calling'
  BY <1>1, <1>4 DEF Ordered, Threads, Calling
<1>11. Locks'
  BY <1>1, <1>2, <1>4 DEF Ordered, Threads, Closers, Locks, Upward
<1>12. Start'
  BY <1>1, <1>2, <1>4 DEF Ordered, Threads, Start
<1>13. Deletes'
  BY <1>2, <1>4, <1>6, <1>7 DEF Ordered, Threads, Deletes
<1>14. Connects'
  BY <1>4, <1>5, <1>6 DEF Ordered, Threads, Connects, Ending, Past
<1>15. StreamContract'
  BY <1>1, <1>2 DEF StreamContract
<1> QED
  BY <1>4, <1>8, <1>9, <1>10, <1>11, <1>12, <1>13, <1>14, <1>15 DEF IInv, TypeOK

\* The cleanup deletes the streamer.
LEMMA DeleteKeeps ==
  ASSUME IInv, NEW t \in Closers, Delete(t)
  PROVE  IInv'
<1>1. VarTypes /\ TodoTypes /\ (\A u \in Closers : Upward(u)) /\ Calling /\ Locks /\ Start
      /\ Deletes /\ Connects /\ StreamContract
  BY DEF IInv, TypeOK
<1>2. UNCHANGED <<vendor, vad, alive, attached, private, lock, bugs, connected, promised, writesDone, net,
     responses, broken>>
  BY DEF Delete, SessionKeeps, LocksKeep, StreamKeeps
<1>3. At(t, "delete") /\ Goes(t) /\ t \in Ordered
  BY DEF Ordered, Threads, Closers, Delete
<1>4. TodoTypes' /\ todo'["read"] = todo["read"] /\ Left(t)' = Left(t) \ {"delete"}
      /\ \A u \in Ordered \ {t} : Left(u)' = Left(u)
  BY <1>1, <1>3, GoesOn DEF Turns
<1>5. /\ "delete" \in Left(t) /\ "unlock" \in Left(t)
      /\ "lock" \notin Left(t)
      /\ "private" \notin Left(t)
      /\ "writesDone" \notin Left(t)
      /\ "join" \notin Left(t)
      /\ "bug_remove" \in Left(t)
  BY <1>3, CloserAt DEF CloserSteps
<1>6. /\ lock = t /\ Left("start") = {} /\ ~private /\ object = "alive" /\ streamer
      /\ Left("media") \subseteq {"trylock", "media_bug_read", "unlock"}
      /\ \A u \in Closers \ {t} : ~Past(u)
  BY <1>5, PastAlone DEF Past
<1>7. object' = (IF streamer THEN "deleted" ELSE object) /\ streamer' = FALSE
  BY DEF Delete
<1>8. VarTypes'
  <2>1. streamer' \in BOOLEAN /\ object' \in {"none", "alive", "deleted"}
    BY <1>6, <1>7 DEF VarTypes, Closers
  <2> QED
    BY <1>1, <1>2, <2>1 DEF VarTypes
<1>9. \A u \in Closers : Upward(u)'
  BY <1>1, <1>4, <1>5 DEF Ordered, Threads, Closers, Upward
<1>10. Calling'
  BY <1>1, <1>4 DEF Ordered, Threads, Calling
<1>11. Locks'
  BY <1>1, <1>2, <1>4 DEF Ordered, Threads, Closers, Locks, Upward
<1>12. Start'
  BY <1>1, <1>2, <1>4, <1>6, <1>7 DEF Ordered, Threads, Start
<1>13. Deletes'
  BY <1>1, <1>2, <1>4, <1>5, <1>7 DEF Ordered, Threads, Closers, Deletes, Past, Locks
<1>14. Connects'
  BY <1>4, <1>6, <1>7 DEF Ordered, Threads, Connects, Ending
<1>15. StreamContract'
  BY <1>1, <1>2 DEF StreamContract
<1> QED
  BY <1>4, <1>8, <1>9, <1>10, <1>11, <1>12, <1>13, <1>14, <1>15 DEF IInv, TypeOK

\* The cleanup removes the bug.
LEMMA BugRemoveKeeps ==
  ASSUME IInv, NEW t \in Closers, BugRemove(t)
  PROVE  IInv'
<1>1. VarTypes /\ TodoTypes /\ (\A u \in Closers : Upward(u)) /\ Calling /\ Locks /\ Start
      /\ Deletes /\ Connects /\ StreamContract
  BY DEF IInv, TypeOK
<1>2. UNCHANGED <<vendor, vad, alive, private, lock, bugs, streamer, object, connected, promised, writesDone,
     net, responses, broken>>
  BY DEF BugRemove, LocksKeep, StreamKeeps, ObjectKeeps
<1>3. At(t, "bug_remove") /\ Goes(t) /\ t \in Ordered
  BY DEF Ordered, Threads, Closers, BugRemove
<1>4. TodoTypes' /\ todo'["read"] = todo["read"] /\ Left(t)' = Left(t) \ {"bug_remove"}
      /\ \A u \in Ordered \ {t} : Left(u)' = Left(u)
  BY <1>1, <1>3, GoesOn DEF Turns
<1>5. /\ "bug_remove" \in Left(t) /\ "unlock" \in Left(t)
      /\ "lock" \notin Left(t)
      /\ "private" \notin Left(t)
      /\ "writesDone" \notin Left(t)
      /\ "join" \notin Left(t)
      /\ "delete" \notin Left(t)
  BY <1>3, CloserAt DEF CloserSteps
<1>6. \/ t = "hangup" /\ attached' = attached
      \/ t # "hangup" /\ bugs = "free" /\ attached' = FALSE
  BY DEF BugRemove
<1>7. VarTypes'
  <2>1. attached' \in BOOLEAN
    BY <1>1, <1>6 DEF VarTypes, Closers
  <2> QED
    BY <1>1, <1>2, <2>1 DEF VarTypes
<1>8. \A u \in Closers : Upward(u)'
  BY <1>1, <1>4, <1>5 DEF Ordered, Threads, Closers, Upward
<1>9. Calling'
  BY <1>1, <1>4 DEF Ordered, Threads, Calling
<1>10. Locks'
  BY <1>1, <1>2, <1>4 DEF Ordered, Threads, Closers, Locks, Calling
<1>11. Start'
  BY <1>1, <1>2, <1>4, <1>6 DEF Ordered, Threads, Start, Locks
<1>12. Deletes'
  BY <1>1, <1>2, <1>4, <1>6 DEF Ordered, Threads, Closers, Deletes, Past, Locks
<1>13. Connects'
  BY <1>1, <1>2, <1>4 DEF Ordered, Threads, Closers, Connects, Ending, Past
<1>14. StreamContract'
  BY <1>1, <1>2 DEF StreamContract
<1> QED
  BY <1>4, <1>7, <1>8, <1>9, <1>10, <1>11, <1>12, <1>13, <1>14 DEF IInv, TypeOK

\* The cleanup clears the private, or finds none and has only to unlock.
LEMMA PrivateKeeps ==
  ASSUME IInv, NEW t \in Closers, Private(t)
  PROVE  IInv'
<1>1. VarTypes /\ TodoTypes /\ (\A u \in Closers : Upward(u)) /\ Calling /\ Locks /\ Start
      /\ Deletes /\ Connects /\ StreamContract
  BY DEF IInv, TypeOK
<1>2. UNCHANGED <<vendor, vad, alive, attached, lock, bugs, streamer, object, connected, promised, writesDone,
     net, responses, broken>>
  BY DEF Private, LocksKeep, StreamKeeps, ObjectKeeps
<1>3. At(t, "private") /\ t \in Ordered /\ private' = FALSE
  BY DEF Ordered, Threads, Closers, Private
<1>4. /\ "private" \in Left(t) /\ "unlock" \in Left(t) /\ "lock" \notin Left(t)
      /\ "writesDone" \in Left(t) /\ "join" \in Left(t) /\ "delete" \in Left(t) /\ "bug_remove" \in Left(t)
  BY <1>3, CloserAt DEF CloserSteps
<1>5. lock = t
  BY <1>1, <1>4 DEF Locks, Closers
<1>6. \/ private /\ Turns(t, Left(t) \ {"private"})
      \/ ~private /\ Turns(t, {"unlock"})
  <2>1. CASE private
    <3>1. Goes(t)
      BY <2>1 DEF Private
    <3> QED
      BY <1>1, <1>3, <2>1, <3>1, GoesOn
  <2>2. CASE ~private
    <3>1. todo' = [todo EXCEPT ![t] = <<"unlock">>]
      BY <2>2 DEF Private
    <3>2. {"unlock"} \subseteq StepsOf(t)
      BY DEF StepsOf, CloserSteps, Closers
    <3> QED
      BY <1>1, <1>3, <2>2, <3>1, <3>2, GivenRun, RestAreRuns
  <2> QED
    BY <2>1, <2>2
<1>7. /\ TodoTypes' /\ todo'["read"] = todo["read"] /\ (\A u \in Ordered \ {t} : Left(u)' = Left(u))
      /\ \/ private /\ Left(t)' = Left(t) \ {"private"}
         \/ ~private /\ Left(t)' = {"unlock"}
  BY <1>6 DEF Turns
<1>8. \A u \in Closers : ~Past(u)
  BY <1>1, <1>4, <1>5 DEF Locks, Past
<1>9. VarTypes'
  <2>1. private' \in BOOLEAN
    BY <1>3 DEF VarTypes, Closers
  <2> QED
    BY <1>1, <1>2, <2>1 DEF VarTypes
<1>10. \A u \in Closers : Upward(u)'
  BY <1>1, <1>4, <1>7 DEF Ordered, Threads, Closers, Upward
<1>11. Calling'
  BY <1>1, <1>7 DEF Ordered, Threads, Calling
<1>12. Locks'
  BY <1>1, <1>2, <1>5, <1>7 DEF Ordered, Threads, Closers, Locks, Upward
<1>13. Start'
  BY <1>1, <1>2, <1>3, <1>7 DEF Ordered, Threads, Closers, Start
<1>14. Deletes'
  BY <1>1, <1>2, <1>3, <1>4, <1>7 DEF Ordered, Threads, Closers, Deletes, Past, Start
<1>15. Connects'
  BY <1>1, <1>2, <1>7, <1>8 DEF Ordered, Threads, Connects, Ending
<1>16. StreamContract'
  BY <1>1, <1>2 DEF StreamContract
<1> QED
  BY <1>7, <1>9, <1>10, <1>11, <1>12, <1>13, <1>14, <1>15, <1>16 DEF IInv, TypeOK

\* A start goes on, or is refused.
LEMMA RefusableKeeps ==
  ASSUME IInv, Refusable
  PROVE  IInv'
<1>1. VarTypes /\ TodoTypes /\ (\A u \in Closers : Upward(u)) /\ Calling /\ Locks /\ Start
      /\ Deletes /\ Connects /\ StreamContract
  BY DEF IInv, TypeOK
<1>2. UNCHANGED <<vendor, vad, alive, attached, private, lock, bugs, streamer, object, connected, promised,
     writesDone, net, responses, broken>>
  BY DEF Refusable, SessionKeeps, LocksKeep, StreamKeeps, ObjectKeeps
<1>3. PICK step \in {"pre_answer", "requiredVariable", "resampler"} :
        At("start", step) /\ (Goes("start") \/ Leaves("start"))
  BY DEF Refusable
<1>4. "start" \in Ordered /\ step # "newGStreamer" /\ step # "openStream"
  BY DEF Ordered, Threads
<1>5. Turns("start", Left("start") \ {step}) \/ Turns("start", {})
  BY <1>1, <1>3, <1>4, GoesOn, LeavesOn
<1>6. /\ TodoTypes' /\ todo'["read"] = todo["read"] /\ \A u \in Ordered \ {"start"} : Left(u)' = Left(u)
      /\ Left("start")' = Left("start") \ {step} \/ Left("start")' = {}
  BY <1>5 DEF Turns
<1>7. VarTypes'
  BY <1>1, <1>2 DEF VarTypes
<1>8. \A u \in Closers : Upward(u)'
  BY <1>1, <1>6 DEF Ordered, Threads, Closers, Upward
<1>9. Calling'
  BY <1>1, <1>6 DEF Ordered, Threads, Calling
<1>10. Locks'
  BY <1>1, <1>2, <1>6 DEF Ordered, Threads, Closers, Locks
<1>11. Start'
  BY <1>1, <1>2, <1>6 DEF Ordered, Threads, Start
<1>12. Deletes'
  BY <1>1, <1>2, <1>6 DEF Ordered, Threads, Closers, Deletes, Past
<1>13. Connects'
  BY <1>1, <1>2, <1>6 DEF Ordered, Threads, Closers, Connects, Ending, Past
<1>14. StreamContract'
  BY <1>1, <1>2 DEF StreamContract
<1> QED
  BY <1>6, <1>7, <1>8, <1>9, <1>10, <1>11, <1>12, <1>13, <1>14 DEF IInv, TypeOK

\* The VAD is had, or not.
LEMMA VadInitKeeps ==
  ASSUME IInv, VadInit
  PROVE  IInv'
<1>1. VarTypes /\ TodoTypes /\ (\A u \in Closers : Upward(u)) /\ Calling /\ Locks /\ Start
      /\ Deletes /\ Connects /\ StreamContract
  BY DEF IInv, TypeOK
<1>2. UNCHANGED <<vendor, alive, attached, private, lock, bugs, streamer, object, connected, promised,
     writesDone, net, responses, broken>>
  BY DEF VadInit, LocksKeep, StreamKeeps, ObjectKeeps
<1>3. At("start", "vad") /\ "start" \in Ordered
  BY DEF Ordered, Threads, VadInit
<1>4. Turns("start", Left("start") \ {"vad"})
  BY <1>1, <1>3, GoesOn DEF VadInit
<1>5. /\ TodoTypes' /\ todo'["read"] = todo["read"] /\ (\A u \in Ordered \ {"start"} : Left(u)' = Left(u))
      /\ Left("start")' = Left("start") \ {"vad"}
  BY <1>4 DEF Turns
<1>6. vad' \in {vad, FALSE}
  BY DEF VadInit
<1>7. VarTypes'
  <2>1. vad' \in BOOLEAN
    BY <1>1, <1>6 DEF VarTypes, Closers
  <2> QED
    BY <1>1, <1>2, <2>1 DEF VarTypes
<1>8. \A u \in Closers : Upward(u)'
  BY <1>1, <1>5 DEF Ordered, Threads, Closers, Upward
<1>9. Calling'
  BY <1>1, <1>5 DEF Ordered, Threads, Calling
<1>10. Locks'
  BY <1>1, <1>2, <1>5 DEF Ordered, Threads, Closers, Locks
<1>11. Start'
  BY <1>1, <1>2, <1>5 DEF Ordered, Threads, Start
<1>12. Deletes'
  BY <1>1, <1>2, <1>5 DEF Ordered, Threads, Closers, Deletes, Past
<1>13. Connects'
  BY <1>1, <1>2, <1>5 DEF Ordered, Threads, Closers, Connects, Ending, Past
<1>14. StreamContract'
  BY <1>1, <1>2 DEF StreamContract
<1> QED
  BY <1>5, <1>7, <1>8, <1>9, <1>10, <1>11, <1>12, <1>13, <1>14 DEF IInv, TypeOK

\* The streamer is made, or the start is over.
LEMMA NewStreamerKeeps ==
  ASSUME IInv, NewStreamer
  PROVE  IInv'
<1>1. VarTypes /\ TodoTypes /\ (\A u \in Closers : Upward(u)) /\ Calling /\ Locks /\ Start
      /\ Deletes /\ Connects /\ StreamContract
  BY DEF IInv, TypeOK
<1>2. UNCHANGED <<vendor, vad, alive, attached, private, lock, bugs, connected, promised, writesDone, net,
     responses, broken>>
  BY DEF NewStreamer, SessionKeeps, LocksKeep, StreamKeeps
<1>3. At("start", "newGStreamer") /\ "start" \in Ordered
  BY DEF Ordered, Threads, NewStreamer
<1>4. /\ "newGStreamer" \in Left("start") /\ Left("start") \subseteq StartSteps
      /\ \A y \in Left("start") : y = "newGStreamer" \/ Rank("newGStreamer") < Rank(y)
      /\ object # "deleted" /\ (\A u \in Closers : ~Past(u)) /\ ~writesDone /\ ~private
      /\ ~attached /\ Left("media") = {}
  BY <1>3, StartAt
<1>5. \/ Turns("start", Left("start") \ {"newGStreamer"}) /\ streamer' = TRUE /\ object' = "alive"
      \/ Turns("start", {}) /\ UNCHANGED <<streamer, object>>
  BY <1>1, <1>3, GoesOn, LeavesOn DEF NewStreamer
<1>6. /\ TodoTypes' /\ todo'["read"] = todo["read"] /\ (\A u \in Ordered \ {"start"} : Left(u)' = Left(u))
      /\ \/ Left("start")' = Left("start") \ {"newGStreamer"} /\ streamer' = TRUE /\ object' = "alive"
         \/ Left("start")' = {} /\ UNCHANGED <<streamer, object>>
  BY <1>5 DEF Turns
<1>7. VarTypes'
  <2>1. streamer' \in BOOLEAN /\ object' \in {"none", "alive", "deleted"}
    BY <1>1, <1>6 DEF VarTypes, Closers
  <2> QED
    BY <1>1, <1>2, <2>1 DEF VarTypes
<1>8. \A u \in Closers : Upward(u)'
  BY <1>1, <1>6 DEF Ordered, Threads, Closers, Upward
<1>9. Calling'
  BY <1>1, <1>6 DEF Ordered, Threads, Calling
<1>10. Locks'
  BY <1>1, <1>2, <1>6 DEF Ordered, Threads, Closers, Locks
<1>11. Start'
  BY <1>1, <1>2, <1>6 DEF Ordered, Threads, Start
<1>12. Deletes'
  BY <1>1, <1>4, <1>6 DEF Ordered, Threads, Closers, Deletes, Past
<1>13. Connects'
  BY <1>1, <1>2, <1>4, <1>6 DEF Ordered, Threads, Connects, Ending
<1>14. StreamContract'
  BY <1>1, <1>2 DEF StreamContract
<1> QED
  BY <1>6, <1>7, <1>8, <1>9, <1>10, <1>11, <1>12, <1>13, <1>14 DEF IInv, TypeOK

\* The start connects, or leaves that to the VAD.
LEMMA ConnectUnlessVadKeeps ==
  ASSUME IInv, ConnectUnlessVad
  PROVE  IInv'
<1>1. VarTypes /\ TodoTypes /\ (\A u \in Closers : Upward(u)) /\ Calling /\ Locks /\ Start
      /\ Deletes /\ Connects /\ StreamContract
  BY DEF IInv, TypeOK
<1>2. UNCHANGED <<vendor, vad, alive, attached, private, lock, bugs, streamer, object, connected, promised,
     writesDone, net, responses, broken>>
  BY DEF ConnectUnlessVad, SessionKeeps, LocksKeep, StreamKeeps, ObjectKeeps
<1>3. At("start", "connectUnlessVad") /\ "start" \in Ordered
  BY DEF Ordered, Threads, ConnectUnlessVad
<1>4. /\ "connectUnlessVad" \in Left("start") /\ Left("start") \subseteq StartSteps
      /\ \A y \in Left("start") : y = "connectUnlessVad" \/ Rank("connectUnlessVad") < Rank(y)
      /\ object # "deleted" /\ (\A u \in Closers : ~Past(u)) /\ ~writesDone /\ ~private
      /\ ~attached /\ Left("media") = {}
  BY <1>3, StartAt
<1>5. PICK C : C \subseteq ConnectSteps /\ {"openStream", "promise"} \subseteq C /\ IsRun(Code[vendor].connect, C)
  BY <1>1, CodeFacts DEF VarTypes
<1>6. "newGStreamer" \notin Left("start") /\ ~connected /\ ~promised
  BY <1>1, <1>4, StartRanks DEF Connects, Ending
<1>7. \/ Turns("start", Left("start") \ {"connectUnlessVad"})
      \/ Turns("start", C \cup (Left("start") \ {"connectUnlessVad"}))
  <2>1. C \subseteq StepsOf("start")
    BY <1>5 DEF StepsOf, StartSteps, Closers
  <2>2. \A x \in C : Rank(x) \in 7 .. 12
    BY <1>5, ConnectRanks DEF ConnectSteps
  <2>3. \A y \in Left("start") \ {"connectUnlessVad"} : y \in {"thread_create", "bug_add", "set_private"}
    BY <1>1, <1>4, StartRanks DEF Calling, StartSteps
  <2>4. \A x \in C, y \in Left("start") \ {"connectUnlessVad"} : Rank(x) < Rank(y)
    BY <2>2, <2>3, StartRanks
  <2>5. Goes("start") \/ Calls("start", Code[vendor].connect)
    BY DEF ConnectUnlessVad
  <2> QED
    BY <1>1, <1>3, <1>5, <2>1, <2>4, <2>5, GoesOn, CallsOn
<1>8. /\ TodoTypes' /\ todo'["read"] = todo["read"] /\ (\A u \in Ordered \ {"start"} : Left(u)' = Left(u))
      /\ \/ Left("start")' = Left("start") \ {"connectUnlessVad"}
         \/ Left("start")' = C \cup (Left("start") \ {"connectUnlessVad"})
  BY <1>7 DEF Turns
<1>9. "newGStreamer" \notin C /\ "connectUnlessVad" \notin C
  BY <1>5 DEF ConnectSteps
<1>10. VarTypes'
  BY <1>1, <1>2 DEF VarTypes
<1>11. \A u \in Closers : Upward(u)'
  BY <1>1, <1>8 DEF Ordered, Threads, Closers, Upward
<1>12. Calling'
  BY <1>1, <1>8, <1>9 DEF Ordered, Threads, Calling
<1>13. Locks'
  BY <1>1, <1>2, <1>8 DEF Ordered, Threads, Closers, Locks
<1>14. Start'
  BY <1>1, <1>2, <1>4, <1>8, <1>9 DEF Ordered, Threads, Start
<1>15. Deletes'
  BY <1>1, <1>2, <1>4, <1>8 DEF Ordered, Threads, Closers, Deletes, Past
<1>16. Connects'
  BY <1>1, <1>2, <1>5, <1>6, <1>8 DEF Ordered, Threads, Closers, Connects, Ending, Past
<1>17. StreamContract'
  BY <1>1, <1>2 DEF StreamContract
<1> QED
  BY <1>8, <1>10, <1>11, <1>12, <1>13, <1>14, <1>15, <1>16, <1>17 DEF IInv, TypeOK

\* The read thread is made.
LEMMA ThreadCreateKeeps ==
  ASSUME IInv, ThreadCreate
  PROVE  IInv'
<1>1. VarTypes /\ TodoTypes /\ (\A u \in Closers : Upward(u)) /\ Calling /\ Locks /\ Start
      /\ Deletes /\ Connects /\ StreamContract
  BY DEF IInv, TypeOK
<1>2. UNCHANGED <<vendor, vad, alive, attached, private, lock, bugs, streamer, object, connected, promised,
     writesDone, net, responses, broken>>
  BY DEF ThreadCreate, SessionKeeps, LocksKeep, StreamKeeps, ObjectKeeps
<1>3. At("start", "thread_create") /\ "start" \in Ordered
  BY DEF Ordered, Threads, ThreadCreate
<1>4. /\ "thread_create" \in Left("start") /\ "newGStreamer" \notin Left("start") /\ "openStream" \notin Left("start")
      /\ object # "deleted" /\ \A u \in Closers : ~Past(u)
  BY <1>3, StartAt, StartRanks, ConnectRanks
<1>5. TodoTypes' /\ Left("start")' = Left("start") \ {"thread_create"}
      /\ \A u \in Ordered \ {"start"} : Left(u)' = Left(u)
  <2> DEFINE q == Code[vendor].read
             td == [todo EXCEPT !["start"] = Tail(todo["start"])]
  <2>1. q \in Seq(ReadSteps) /\ q \in Seq(Steps)
    BY <1>1, CodeFacts DEF VarTypes, Steps
  <2>2. /\ todo' = [todo EXCEPT !["start"] = Tail(todo["start"]), !["read"] = q]
        /\ "read" \in Threads /\ "start" \in Threads
    BY DEF ThreadCreate, Threads
  <2>3. IsRun(Tail(todo["start"]), Left("start") \ {"thread_create"})
    BY <1>1, <1>3, AtHead
  <2> HIDE DEF q
  <2>4. /\ todo'["start"] = Tail(todo["start"]) /\ todo'["read"] = q
        /\ \A u \in Ordered \ {"start"} : todo'[u] = todo[u]
    BY <1>1, <2>2 DEF TodoTypes, Ordered
  <2>5. todo' \in [Threads -> Seq(Steps)]
    BY <1>1, <2>1, <2>2, <2>3 DEF TodoTypes, IsRun
  <2>6. Left("start")' = Left("start") \ {"thread_create"} /\ \A u \in Ordered \ {"start"} : Left(u)' = Left(u)
    BY <2>3, <2>4 DEF Left, IsRun
  <2>7. \A u \in Ordered : Left(u)' \subseteq StepsOf(u) /\ Sorted(todo'[u])
    BY <1>1, <2>3, <2>4, <2>6 DEF TodoTypes, IsRun
  <2> QED
    BY <2>1, <2>4, <2>5, <2>6, <2>7 DEF TodoTypes
<1>6. object # "none"
  BY <1>1, <1>4 DEF Start
<1>7. VarTypes'
  BY <1>1, <1>2 DEF VarTypes
<1>8. \A u \in Closers : Upward(u)'
  BY <1>1, <1>5 DEF Ordered, Threads, Closers, Upward
<1>9. Calling'
  BY <1>1, <1>5 DEF Ordered, Threads, Calling
<1>10. Locks'
  BY <1>1, <1>2, <1>5 DEF Ordered, Threads, Closers, Locks
<1>11. Start'
  BY <1>1, <1>2, <1>5, <1>6 DEF Ordered, Threads, Start
<1>12. Deletes'
  BY <1>1, <1>2, <1>4, <1>5 DEF Ordered, Threads, Closers, Deletes, Past
<1>13. Connects'
  BY <1>1, <1>2, <1>5 DEF Ordered, Threads, Closers, Connects, Ending, Past
<1>14. StreamContract'
  BY <1>1, <1>2 DEF StreamContract
<1> QED
  BY <1>5, <1>7, <1>8, <1>9, <1>10, <1>11, <1>12, <1>13, <1>14 DEF IInv, TypeOK

\* The bug is added, or the start just returns.
LEMMA BugAddKeeps ==
  ASSUME IInv, BugAdd
  PROVE  IInv'
<1>1. VarTypes /\ TodoTypes /\ (\A u \in Closers : Upward(u)) /\ Calling /\ Locks /\ Start
      /\ Deletes /\ Connects /\ StreamContract
  BY DEF IInv, TypeOK
<1>2. UNCHANGED <<vendor, vad, alive, private, lock, bugs, streamer, object, connected, promised, writesDone,
     net, responses, broken>>
  BY DEF BugAdd, LocksKeep, StreamKeeps, ObjectKeeps
<1>3. At("start", "bug_add") /\ "start" \in Ordered
  BY DEF Ordered, Threads, BugAdd
<1>4. /\ "bug_add" \in Left("start") /\ Left("start") \subseteq StartSteps
      /\ \A y \in Left("start") : y = "bug_add" \/ Rank("bug_add") < Rank(y)
      /\ object # "deleted" /\ (\A u \in Closers : ~Past(u)) /\ ~writesDone /\ ~private
      /\ ~attached /\ Left("media") = {}
  BY <1>3, StartAt
<1>5. \/ Turns("start", Left("start") \ {"bug_add"}) /\ attached' = TRUE
      \/ Turns("start", {}) /\ UNCHANGED attached
  BY <1>1, <1>3, GoesOn, LeavesOn DEF BugAdd
<1>6. /\ TodoTypes' /\ todo'["read"] = todo["read"] /\ (\A u \in Ordered \ {"start"} : Left(u)' = Left(u))
      /\ \/ Left("start")' = Left("start") \ {"bug_add"} /\ attached' = TRUE
         \/ Left("start")' = {} /\ UNCHANGED attached
  BY <1>5 DEF Turns
<1>7. Left("start") \subseteq {"bug_add", "set_private"}
  BY <1>4, StartRanks, ConnectRanks DEF StartSteps, ConnectSteps
<1>8. object # "none"
  BY <1>1, <1>4, <1>7 DEF Start
<1>9. VarTypes'
  <2>1. attached' \in BOOLEAN
    BY <1>1, <1>6 DEF VarTypes, Closers
  <2> QED
    BY <1>1, <1>2, <2>1 DEF VarTypes
<1>10. \A u \in Closers : Upward(u)'
  BY <1>1, <1>6 DEF Ordered, Threads, Closers, Upward
<1>11. Calling'
  BY <1>1, <1>6 DEF Ordered, Threads, Calling
<1>12. Locks'
  BY <1>1, <1>2, <1>6 DEF Ordered, Threads, Closers, Locks
<1>13. Start'
  BY <1>2, <1>4, <1>6, <1>7, <1>8 DEF Ordered, Threads, Start
<1>14. Deletes'
  BY <1>1, <1>2, <1>6 DEF Ordered, Threads, Closers, Deletes, Past
<1>15. Connects'
  BY <1>1, <1>2, <1>6 DEF Ordered, Threads, Closers, Connects, Ending, Past
<1>16. StreamContract'
  BY <1>1, <1>2 DEF StreamContract
<1> QED
  BY <1>6, <1>9, <1>10, <1>11, <1>12, <1>13, <1>14, <1>15, <1>16 DEF IInv, TypeOK

\* The private is set.
LEMMA SetPrivateKeeps ==
  ASSUME IInv, SetPrivate
  PROVE  IInv'
<1>1. VarTypes /\ TodoTypes /\ (\A u \in Closers : Upward(u)) /\ Calling /\ Locks /\ Start
      /\ Deletes /\ Connects /\ StreamContract
  BY DEF IInv, TypeOK
<1>2. UNCHANGED <<vendor, vad, alive, attached, lock, bugs, streamer, object, connected, promised, writesDone,
     net, responses, broken>>
  BY DEF SetPrivate, LocksKeep, StreamKeeps, ObjectKeeps
<1>3. At("start", "set_private") /\ "start" \in Ordered
  BY DEF Ordered, Threads, SetPrivate
<1>4. /\ "set_private" \in Left("start") /\ Left("start") \subseteq StartSteps
      /\ \A y \in Left("start") : y = "set_private" \/ Rank("set_private") < Rank(y)
      /\ object # "deleted" /\ (\A u \in Closers : ~Past(u)) /\ ~writesDone /\ ~private
  BY <1>3, StartAt
<1>5. Turns("start", Left("start") \ {"set_private"}) /\ private' = TRUE
  BY <1>1, <1>3, GoesOn DEF SetPrivate
<1>6. Left("start") = {"set_private"}
  BY <1>4, StartRanks, ConnectRanks DEF StartSteps, ConnectSteps
<1>7. /\ TodoTypes' /\ todo'["read"] = todo["read"] /\ (\A u \in Ordered \ {"start"} : Left(u)' = Left(u))
      /\ Left("start")' = {} /\ private' = TRUE
  BY <1>5, <1>6 DEF Turns
<1>8. object = "alive"
  BY <1>1, <1>4, <1>6 DEF Start, VarTypes
<1>9. VarTypes'
  <2>1. private' \in BOOLEAN
    BY <1>7 DEF VarTypes, Closers
  <2> QED
    BY <1>1, <1>2, <2>1 DEF VarTypes
<1>10. \A u \in Closers : Upward(u)'
  BY <1>1, <1>7 DEF Ordered, Threads, Closers, Upward
<1>11. Calling'
  BY <1>1, <1>7 DEF Ordered, Threads, Calling
<1>12. Locks'
  BY <1>1, <1>2, <1>7 DEF Ordered, Threads, Closers, Locks
<1>13. Start'
  BY <1>1, <1>2, <1>7, <1>8 DEF Ordered, Threads, Start
<1>14. Deletes'
  BY <1>1, <1>2, <1>6, <1>7 DEF Ordered, Threads, Closers, Deletes, Past
<1>15. Connects'
  BY <1>1, <1>2, <1>7 DEF Ordered, Threads, Closers, Connects, Ending, Past
<1>16. StreamContract'
  BY <1>1, <1>2 DEF StreamContract
<1> QED
  BY <1>7, <1>9, <1>10, <1>11, <1>12, <1>13, <1>14, <1>15, <1>16 DEF IInv, TypeOK

\* A stop finds the bug.
LEMMA ApiStopKeeps ==
  ASSUME IInv, ApiStop
  PROVE  IInv'
<1>1. VarTypes /\ TodoTypes /\ (\A u \in Closers : Upward(u)) /\ Calling /\ Locks /\ Start
      /\ Deletes /\ Connects /\ StreamContract
  BY DEF IInv, TypeOK
<1>2. UNCHANGED <<vendor, vad, alive, attached, private, lock, bugs, streamer, object, connected, promised,
     writesDone, net, responses, broken>>
  BY DEF ApiStop, SessionKeeps, LocksKeep, StreamKeeps, ObjectKeeps
<1>3. Begins("api", Code[vendor].cleanup) /\ "api" \in Ordered /\ CloserSteps \subseteq StepsOf("api") /\ private
  BY DEF Ordered, Threads, Closers, ApiStop, Command, StepsOf
<1>4. Turns("api", CloserSteps) /\ Left("api") = {}
  BY <1>1, <1>3, CodeFacts, BeginsOn DEF VarTypes
<1>5. /\ TodoTypes' /\ todo'["read"] = todo["read"] /\ (\A u \in Ordered \ {"api"} : Left(u)' = Left(u))
      /\ Left("api")' = CloserSteps /\ Left("api") = {}
  BY <1>4 DEF Turns
<1>6. CloserSteps = {"lock", "private", "writesDone", "join", "delete", "bug_remove", "unlock"}
  BY DEF CloserSteps
<1>7. VarTypes'
  BY <1>1, <1>2 DEF VarTypes
<1>8. \A u \in Closers : Upward(u)'
  BY <1>1, <1>5, <1>6 DEF Ordered, Threads, Closers, Upward
<1>9. Calling'
  BY <1>1, <1>5, <1>6 DEF Ordered, Threads, Calling
<1>10. Locks'
  BY <1>1, <1>2, <1>5, <1>6 DEF Ordered, Threads, Closers, Locks
<1>11. Start'
  BY <1>1, <1>2, <1>5 DEF Ordered, Threads, Start
<1>12. Deletes'
  BY <1>1, <1>2, <1>5, <1>6 DEF Ordered, Threads, Closers, Deletes, Past
<1>13. Connects'
  BY <1>1, <1>2, <1>5 DEF Ordered, Threads, Closers, Connects, Ending, Past
<1>14. StreamContract'
  BY <1>1, <1>2 DEF StreamContract
<1> QED
  BY <1>5, <1>7, <1>8, <1>9, <1>10, <1>11, <1>12, <1>13, <1>14 DEF IInv, TypeOK

\* The session ends.
LEMMA SessionGoneKeeps ==
  ASSUME IInv, SessionGone
  PROVE  IInv'
<1>1. VarTypes /\ TodoTypes /\ (\A u \in Closers : Upward(u)) /\ Calling /\ Locks /\ Start
      /\ Deletes /\ Connects /\ StreamContract
  BY DEF IInv, TypeOK
<1>2. UNCHANGED <<vendor, vad, attached, private, lock, bugs, streamer, object, connected, promised,
     writesDone, net, responses, broken, todo>>
  BY DEF SessionGone, LocksKeep, StreamKeeps, ObjectKeeps
<1>3. alive' = FALSE
  BY DEF SessionGone
<1>4. TodoTypes' /\ todo'["read"] = todo["read"] /\ \A u \in Ordered : Left(u)' = Left(u)
  BY <1>1, <1>2, TodoKept
<1>5. VarTypes'
  <2>1. alive' \in BOOLEAN
    BY <1>3 DEF VarTypes, Closers
  <2> QED
    BY <1>1, <1>2, <2>1 DEF VarTypes
<1>6. \A u \in Closers : Upward(u)'
  BY <1>1, <1>4 DEF Ordered, Threads, Closers, Upward
<1>7. Calling'
  BY <1>1, <1>4 DEF Ordered, Threads, Calling
<1>8. Locks'
  BY <1>1, <1>2, <1>4 DEF Ordered, Threads, Closers, Locks
<1>9. Start'
  BY <1>1, <1>2, <1>4 DEF Ordered, Threads, Start
<1>10. Deletes'
  BY <1>1, <1>2, <1>4 DEF Ordered, Threads, Closers, Deletes, Past
<1>11. Connects'
  BY <1>1, <1>2, <1>4 DEF Ordered, Threads, Closers, Connects, Ending, Past
<1>12. StreamContract'
  BY <1>1, <1>2 DEF StreamContract
<1> QED
  BY <1>4, <1>5, <1>6, <1>7, <1>8, <1>9, <1>10, <1>11, <1>12 DEF IInv, TypeOK

\* The hangup closes the bug.
LEMMA CloseBugKeeps ==
  ASSUME IInv, CloseBug
  PROVE  IInv'
<1>1. VarTypes /\ TodoTypes /\ (\A u \in Closers : Upward(u)) /\ Calling /\ Locks /\ Start
      /\ Deletes /\ Connects /\ StreamContract
  BY DEF IInv, TypeOK
<1>2. UNCHANGED <<vendor, vad, alive, private, lock, streamer, object, connected, promised, writesDone, net,
     responses, broken>>
  BY DEF CloseBug, StreamKeeps, ObjectKeeps
<1>3. /\ Begins("hangup", Code[vendor].cleanup) /\ "hangup" \in Ordered /\ CloserSteps \subseteq StepsOf("hangup")
      /\ attached /\ bugs = "free" /\ bugs' = "hangup" /\ attached' = FALSE
  BY DEF Ordered, Threads, Closers, CloseBug, StepsOf
<1>4. Turns("hangup", CloserSteps) /\ Left("hangup") = {}
  BY <1>1, <1>3, CodeFacts, BeginsOn DEF VarTypes
<1>5. /\ TodoTypes' /\ todo'["read"] = todo["read"] /\ (\A u \in Ordered \ {"hangup"} : Left(u)' = Left(u))
      /\ Left("hangup")' = CloserSteps /\ Left("hangup") = {}
  BY <1>4 DEF Turns
<1>6. CloserSteps = {"lock", "private", "writesDone", "join", "delete", "bug_remove", "unlock"}
  BY DEF CloserSteps
<1>7. Left("media") = {}
  BY <1>1, <1>3 DEF Locks
<1>8. VarTypes'
  <2>1. attached' \in BOOLEAN /\ bugs' \in {"free", "hangup", "media"}
    BY <1>3 DEF VarTypes, Closers
  <2> QED
    BY <1>1, <1>2, <2>1 DEF VarTypes
<1>9. \A u \in Closers : Upward(u)'
  BY <1>1, <1>5, <1>6 DEF Ordered, Threads, Closers, Upward
<1>10. Calling'
  BY <1>1, <1>5, <1>6 DEF Ordered, Threads, Calling
<1>11. Locks'
  BY <1>1, <1>2, <1>3, <1>5, <1>6 DEF Ordered, Threads, Closers, Locks
<1>12. Start'
  BY <1>1, <1>2, <1>3, <1>5, <1>7 DEF Ordered, Threads, Start
<1>13. Deletes'
  BY <1>1, <1>2, <1>5, <1>6 DEF Ordered, Threads, Closers, Deletes, Past
<1>14. Connects'
  BY <1>1, <1>2, <1>5 DEF Ordered, Threads, Closers, Connects, Ending, Past
<1>15. StreamContract'
  BY <1>1, <1>2 DEF StreamContract
<1> QED
  BY <1>5, <1>8, <1>9, <1>10, <1>11, <1>12, <1>13, <1>14, <1>15 DEF IInv, TypeOK

\* The command start_timers.
LEMMA ApiTimersKeeps ==
  ASSUME IInv, ApiTimers
  PROVE  IInv'
<1>1. VarTypes /\ TodoTypes /\ (\A u \in Closers : Upward(u)) /\ Calling /\ Locks /\ Start
      /\ Deletes /\ Connects /\ StreamContract
  BY DEF IInv, TypeOK
<1>2. UNCHANGED <<vendor, vad, alive, attached, private, lock, bugs, streamer, object, connected, promised,
     writesDone, net, responses, broken>>
  BY DEF ApiTimers, SessionKeeps, LocksKeep, StreamKeeps, ObjectKeeps
<1>3. Begins("timers", NuanceTimers) /\ "timers" \in Ordered /\ TimerSteps \subseteq StepsOf("timers") /\ private
  BY DEF Ordered, Threads, ApiTimers, Command, StepsOf
<1>4. IsRun(NuanceTimers, TimerSteps)
  BY RestAreRuns DEF NuanceTimers
<1>5. Turns("timers", TimerSteps) /\ Left("timers") = {}
  BY <1>1, <1>3, <1>4, BeginsOn
<1>6. /\ TodoTypes' /\ todo'["read"] = todo["read"] /\ (\A u \in Ordered \ {"timers"} : Left(u)' = Left(u))
      /\ Left("timers")' = TimerSteps /\ Left("timers") = {}
  BY <1>5 DEF Turns
<1>7. "lock" \in TimerSteps /\ "unlock" \in TimerSteps
  BY DEF TimerSteps
<1>8. VarTypes'
  BY <1>1, <1>2 DEF VarTypes
<1>9. \A u \in Closers : Upward(u)'
  BY <1>1, <1>6 DEF Ordered, Threads, Closers, Upward
<1>10. Calling'
  BY <1>1, <1>6, <1>7 DEF Ordered, Threads, Calling
<1>11. Locks'
  BY <1>1, <1>2, <1>6, <1>7 DEF Ordered, Threads, Closers, Locks
<1>12. Start'
  BY <1>1, <1>2, <1>6 DEF Ordered, Threads, Start
<1>13. Deletes'
  BY <1>1, <1>2, <1>6 DEF Ordered, Threads, Closers, Deletes, Past
<1>14. Connects'
  BY <1>1, <1>2, <1>6 DEF Ordered, Threads, Closers, Connects, Ending, Past
<1>15. StreamContract'
  BY <1>1, <1>2 DEF StreamContract
<1> QED
  BY <1>6, <1>8, <1>9, <1>10, <1>11, <1>12, <1>13, <1>14, <1>15 DEF IInv, TypeOK

\* start_timers writes to the stream.
LEMMA StartTimersKeeps ==
  ASSUME IInv, StartTimers
  PROVE  IInv'
<1>1. VarTypes /\ TodoTypes /\ (\A u \in Closers : Upward(u)) /\ Calling /\ Locks /\ Start
      /\ Deletes /\ Connects /\ StreamContract
  BY DEF IInv, TypeOK
<1>2. UNCHANGED <<vendor, vad, alive, attached, private, lock, bugs, streamer, object, connected, promised,
     writesDone, net, responses>>
  BY DEF StartTimers, SessionKeeps, LocksKeep, StreamKeeps, ObjectKeeps, WriteToStream
<1>3. At("timers", "startTimers") /\ Goes("timers") /\ "timers" \in Ordered
  BY DEF Ordered, Threads, StartTimers
<1>4. "startTimers" \in Left("timers") /\ "lock" \notin Left("timers")
  <2>1. "startTimers" \in Left("timers") /\ \A y \in Left("timers") : y = "startTimers" \/ Rank("startTimers") < Rank(y)
    BY <1>1, <1>3, AtHead
  <2> QED
    BY <2>1, CloserRanks
<1>5. Turns("timers", Left("timers") \ {"startTimers"})
  BY <1>1, <1>3, GoesOn
<1>6. /\ TodoTypes' /\ todo'["read"] = todo["read"] /\ (\A u \in Ordered \ {"timers"} : Left(u)' = Left(u))
      /\ Left("timers")' = Left("timers") \ {"startTimers"}
  BY <1>5 DEF Turns
<1>7. lock = "timers"
  BY <1>1, <1>4 DEF Locks
<1>8. streamer => ~writesDone
  BY <1>1, <1>7 DEF Locks, Deletes, Connects, Ending, Past, Closers
<1>9. broken' \subseteq broken \cup {"noStream", "writeAfterFinish"}
  BY <1>8 DEF StartTimers, WriteToStream, StreamKeeps
<1>10. VarTypes'
  BY <1>1, <1>2 DEF VarTypes
<1>11. \A u \in Closers : Upward(u)'
  BY <1>1, <1>6 DEF Ordered, Threads, Closers, Upward
<1>12. Calling'
  BY <1>1, <1>6 DEF Ordered, Threads, Calling
<1>13. Locks'
  BY <1>1, <1>2, <1>6 DEF Ordered, Threads, Closers, Locks, Calling
<1>14. Start'
  BY <1>1, <1>2, <1>6 DEF Ordered, Threads, Start
<1>15. Deletes'
  BY <1>1, <1>2, <1>6 DEF Ordered, Threads, Closers, Deletes, Past
<1>16. Connects'
  BY <1>1, <1>2, <1>6 DEF Ordered, Threads, Closers, Connects, Ending, Past
<1>17. StreamContract'
  BY <1>1, <1>9 DEF StreamContract
<1> QED
  BY <1>6, <1>10, <1>11, <1>12, <1>13, <1>14, <1>15, <1>16, <1>17 DEF IInv, TypeOK

\* A cleanup or start_timers takes the mutex.
LEMMA LockKeeps ==
  ASSUME IInv, NEW t \in {"api", "hangup", "timers"}, Lock(t)
  PROVE  IInv'
<1>1. VarTypes /\ TodoTypes /\ (\A u \in Closers : Upward(u)) /\ Calling /\ Locks /\ Start
      /\ Deletes /\ Connects /\ StreamContract
  BY DEF IInv, TypeOK
<1>2. UNCHANGED <<vendor, vad, alive, attached, private, bugs, streamer, object, connected, promised,
     writesDone, net, responses, broken>>
  BY DEF Lock, SessionKeeps, StreamKeeps, ObjectKeeps
<1>3. At(t, "lock") /\ Goes(t) /\ t \in Ordered /\ lock = "free" /\ lock' = t
  BY DEF Ordered, Threads, Lock
<1>4. "lock" \in Left(t) /\ "unlock" \in Left(t)
  BY <1>1, <1>3, AtHead DEF Calling
<1>5. Turns(t, Left(t) \ {"lock"})
  BY <1>1, <1>3, GoesOn
<1>6. /\ TodoTypes' /\ todo'["read"] = todo["read"] /\ Left(t)' = Left(t) \ {"lock"}
      /\ \A u \in Ordered \ {t} : Left(u)' = Left(u)
  BY <1>5 DEF Turns
<1>7. VarTypes'
  <2>1. lock' \in {"free", "api", "hangup", "timers", "media"}
    BY <1>3 DEF VarTypes, Closers
  <2> QED
    BY <1>1, <1>2, <2>1 DEF VarTypes
<1>8. \A u \in Closers : Upward(u)'
  BY <1>1, <1>6 DEF Ordered, Threads, Closers, Upward
<1>9. Calling'
  BY <1>1, <1>6 DEF Ordered, Threads, Calling
<1>10. Locks'
  BY <1>1, <1>2, <1>3, <1>4, <1>6 DEF Ordered, Threads, Closers, Locks
<1>11. Start'
  BY <1>1, <1>2, <1>6 DEF Ordered, Threads, Start
<1>12. Deletes'
  BY <1>1, <1>2, <1>3, <1>6 DEF Ordered, Threads, Closers, Deletes, Past, Upward
<1>13. Connects'
  BY <1>1, <1>2, <1>6 DEF Ordered, Threads, Closers, Connects, Ending, Past
<1>14. StreamContract'
  BY <1>1, <1>2 DEF StreamContract
<1> QED
  BY <1>6, <1>7, <1>8, <1>9, <1>10, <1>11, <1>12, <1>13, <1>14 DEF IInv, TypeOK

\* A thread lets go of what it holds.
LEMMA UnlockKeeps ==
  ASSUME IInv, NEW t \in Threads, Unlock(t)
  PROVE  IInv'
<1>1. VarTypes /\ TodoTypes /\ (\A u \in Closers : Upward(u)) /\ Calling /\ Locks /\ Start
      /\ Deletes /\ Connects /\ StreamContract
  BY DEF IInv, TypeOK
<1>2. UNCHANGED <<vendor, vad, alive, attached, private, streamer, object, connected, promised, writesDone,
     net, responses, broken>>
  BY DEF Unlock, SessionKeeps, StreamKeeps, ObjectKeeps
<1>3. /\ At(t, "unlock") /\ Goes(t) /\ lock' = (IF lock = t THEN "free" ELSE lock)
      /\ bugs' = (IF bugs = t THEN "free" ELSE bugs)
  BY DEF Unlock
<1>4. t \in {"media", "api", "hangup", "timers"} /\ t \in Ordered
  <2>1. t # "read"
    <3>1. todo["read"] \in Seq(ReadSteps) /\ "unlock" \notin ReadSteps
      BY <1>1 DEF TodoTypes, ReadSteps
    <3> QED
      BY <1>3, <3>1 DEF At
  <2>2. t \in Ordered
    BY <2>1 DEF Ordered
  <2>3. "unlock" \in Left(t)
    BY <1>1, <1>3, <2>2, AtHead
  <2>4. Left("start") \subseteq StartSteps
    BY <1>1 DEF TodoTypes, StepsOf, Ordered, Threads, Closers
  <2>5. "unlock" \notin StartSteps
    BY DEF StartSteps, ConnectSteps
  <2> QED
    BY <2>2, <2>3, <2>4, <2>5 DEF Ordered, Threads
<1>5. Left(t) = {"unlock"}
  <2>1. "unlock" \in Left(t) /\ \A y \in Left(t) : y = "unlock" \/ Rank("unlock") < Rank(y)
    BY <1>1, <1>3, <1>4, AtHead
  <2>2. \A y : ~(Rank("unlock") < Rank(y))
    BY CloserRanks, RankNat
  <2> QED
    BY <2>1, <2>2
<1>6. Turns(t, Left(t) \ {"unlock"})
  BY <1>1, <1>3, <1>4, GoesOn
<1>7. /\ TodoTypes' /\ todo'["read"] = todo["read"] /\ Left(t)' = {}
      /\ \A u \in Ordered \ {t} : Left(u)' = Left(u)
  BY <1>5, <1>6 DEF Turns
<1>8. /\ lock = t /\ lock' = "free"
      /\ t \in {"media", "hangup"} => bugs = t /\ bugs' = "free"
      /\ t \notin {"media", "hangup"} => bugs' = bugs
  BY <1>1, <1>3, <1>4, <1>5 DEF Locks, Closers, VarTypes
<1>9. VarTypes'
  <2>1. lock' \in {"free", "api", "hangup", "timers", "media"} /\ bugs' \in {"free", "hangup", "media"}
    BY <1>1, <1>3 DEF VarTypes, Closers
  <2> QED
    BY <1>1, <1>2, <2>1 DEF VarTypes
<1>10. \A u \in Closers : Upward(u)'
  BY <1>1, <1>7 DEF Ordered, Threads, Closers, Upward
<1>11. Calling'
  BY <1>1, <1>7 DEF Ordered, Threads, Calling
<1>12. Locks'
  BY <1>1, <1>7, <1>8 DEF Ordered, Threads, Closers, Locks
<1>13. Start'
  BY <1>1, <1>2, <1>7 DEF Ordered, Threads, Start
<1>14. Deletes'
  BY <1>1, <1>2, <1>3, <1>5, <1>7 DEF Ordered, Threads, Closers, Deletes, Past
<1>15. Connects'
  BY <1>1, <1>2, <1>5, <1>7 DEF Ordered, Threads, Closers, Connects, Ending, Past
<1>16. StreamContract'
  BY <1>1, <1>2 DEF StreamContract
<1> QED
  BY <1>7, <1>9, <1>10, <1>11, <1>12, <1>13, <1>14, <1>15, <1>16 DEF IInv, TypeOK

\* connect() puts a message together.
LEMMA PrepareKeeps ==
  ASSUME IInv, NEW t \in {"start", "media"}, Prepare(t)
  PROVE  IInv'
<1>1. VarTypes /\ TodoTypes /\ (\A u \in Closers : Upward(u)) /\ Calling /\ Locks /\ Start
      /\ Deletes /\ Connects /\ StreamContract
  BY DEF IInv, TypeOK
<1>2. UNCHANGED <<vendor, vad, alive, attached, private, lock, bugs, streamer, object, connected, promised,
     writesDone, net, responses, broken>>
  BY DEF Prepare, SessionKeeps, LocksKeep, StreamKeeps, ObjectKeeps
<1>3. PICK h \in {"initMessage", "config"} : At(t, h) /\ Goes(t) /\ h \in ConnectSteps
  BY DEF Prepare, ConnectSteps
<1>4. /\ t \in Ordered /\ h \in Left(t) /\ (\A y \in Left(t) : y = h \/ Rank(h) < Rank(y))
      /\ object # "deleted" /\ (\A u \in Closers : ~Past(u)) /\ ~writesDone
      /\ (\A u \in {"start", "media"} \ {t} : Left(u) \subseteq {"set_private"})
      /\ "connectUnlessVad" \notin Left(t) /\ "trylock" \notin Left(t)
  BY <1>3, ConnectAt
<1>5. Turns(t, Left(t) \ {h})
  BY <1>1, <1>3, <1>4, GoesOn
<1>6. /\ TodoTypes' /\ todo'["read"] = todo["read"] /\ Left(t)' = Left(t) \ {h}
      /\ \A u \in Ordered \ {t} : Left(u)' = Left(u)
  BY <1>5 DEF Turns
<1>7. VarTypes'
  BY <1>1, <1>2 DEF VarTypes
<1>8. \A u \in Closers : Upward(u)'
  BY <1>1, <1>6 DEF Ordered, Threads, Closers, Upward
<1>9. Calling'
  BY <1>1, <1>6 DEF Ordered, Threads, Calling
<1>10. Locks'
  BY <1>1, <1>2, <1>6 DEF Ordered, Threads, Closers, Locks, Calling
<1>11. Start'
  BY <1>1, <1>2, <1>6 DEF Ordered, Threads, Start
<1>12. Deletes'
  BY <1>1, <1>2, <1>6 DEF Ordered, Threads, Closers, Deletes, Past
<1>13. Connects'
  BY <1>1, <1>2, <1>6 DEF Ordered, Threads, Closers, Connects, Ending, Past
<1>14. StreamContract'
  BY <1>1, <1>2 DEF StreamContract
<1> QED
  BY <1>6, <1>7, <1>8, <1>9, <1>10, <1>11, <1>12, <1>13, <1>14 DEF IInv, TypeOK

\* connect() opens the stream.
LEMMA OpenStreamKeeps ==
  ASSUME IInv, NEW t \in {"start", "media"}, OpenStream(t)
  PROVE  IInv'
<1>1. VarTypes /\ TodoTypes /\ (\A u \in Closers : Upward(u)) /\ Calling /\ Locks /\ Start
      /\ Deletes /\ Connects /\ StreamContract
  BY DEF IInv, TypeOK
<1>2. UNCHANGED <<vendor, vad, alive, attached, private, lock, bugs, streamer, object, promised, writesDone,
     responses, broken>>
  BY DEF OpenStream, SessionKeeps, LocksKeep, ObjectKeeps
<1>3. At(t, "openStream") /\ Goes(t) /\ "openStream" \in ConnectSteps
  BY DEF OpenStream, ConnectSteps
<1>4. /\ t \in Ordered /\ "openStream" \in Left(t) /\ (\A y \in Left(t) : y = "openStream" \/ Rank("openStream") < Rank(y))
      /\ object # "deleted" /\ (\A u \in Closers : ~Past(u)) /\ ~writesDone
      /\ (\A u \in {"start", "media"} \ {t} : Left(u) \subseteq {"set_private"})
      /\ "connectUnlessVad" \notin Left(t) /\ "trylock" \notin Left(t)
  BY <1>3, ConnectAt
<1>5. Turns(t, Left(t) \ {"openStream"})
  BY <1>1, <1>3, <1>4, GoesOn
<1>6. /\ TodoTypes' /\ todo'["read"] = todo["read"] /\ Left(t)' = Left(t) \ {"openStream"}
      /\ \A u \in Ordered \ {t} : Left(u)' = Left(u)
  BY <1>5 DEF Turns
<1>7. connected' = TRUE /\ net' = "open"
  BY DEF OpenStream
<1>8. VarTypes'
  <2>1. connected' \in BOOLEAN /\ net' \in {"none", "open", "half", "over", "finished"}
    BY <1>7 DEF VarTypes, Closers
  <2> QED
    BY <1>1, <1>2, <2>1 DEF VarTypes
<1>9. \A u \in Closers : Upward(u)'
  BY <1>1, <1>6 DEF Ordered, Threads, Closers, Upward
<1>10. Calling'
  BY <1>1, <1>6 DEF Ordered, Threads, Calling
<1>11. Locks'
  BY <1>1, <1>2, <1>6 DEF Ordered, Threads, Closers, Locks, Calling
<1>12. Start'
  BY <1>1, <1>2, <1>6 DEF Ordered, Threads, Start
<1>13. Deletes'
  BY <1>1, <1>2, <1>6 DEF Ordered, Threads, Closers, Deletes, Past
<1>14. Connects'
  BY <1>1, <1>2, <1>4, <1>6, <1>7 DEF Ordered, Threads, Connects
<1>15. StreamContract'
  BY <1>1, <1>2 DEF StreamContract
<1> QED
  BY <1>6, <1>8, <1>9, <1>10, <1>11, <1>12, <1>13, <1>14, <1>15 DEF IInv, TypeOK

\* connect() gives the promise its value, the only one.
LEMMA PromiseKeeps ==
  ASSUME IInv, NEW t \in {"start", "media"}, Promise(t)
  PROVE  IInv'
<1>1. VarTypes /\ TodoTypes /\ (\A u \in Closers : Upward(u)) /\ Calling /\ Locks /\ Start
      /\ Deletes /\ Connects /\ StreamContract
  BY DEF IInv, TypeOK
<1>2. UNCHANGED <<vendor, vad, alive, attached, private, lock, bugs, streamer, object, connected, writesDone,
     net, responses>>
  BY DEF Promise, SessionKeeps, LocksKeep, ObjectKeeps
<1>3. At(t, "promise") /\ Goes(t) /\ "promise" \in ConnectSteps
  BY DEF Promise, ConnectSteps
<1>4. /\ t \in Ordered /\ "promise" \in Left(t) /\ (\A y \in Left(t) : y = "promise" \/ Rank("promise") < Rank(y))
      /\ object # "deleted" /\ (\A u \in Closers : ~Past(u)) /\ ~writesDone
      /\ (\A u \in {"start", "media"} \ {t} : Left(u) \subseteq {"set_private"})
      /\ "connectUnlessVad" \notin Left(t) /\ "trylock" \notin Left(t)
  BY <1>3, ConnectAt
<1>5. Turns(t, Left(t) \ {"promise"})
  BY <1>1, <1>3, <1>4, GoesOn
<1>6. /\ TodoTypes' /\ todo'["read"] = todo["read"] /\ Left(t)' = Left(t) \ {"promise"}
      /\ \A u \in Ordered \ {t} : Left(u)' = Left(u)
  BY <1>5 DEF Turns
<1>7. connected /\ ~promised
  <2>1. "openStream" \notin Left(t)
    BY <1>4, ConnectRanks
  <2> QED
    BY <1>1, <1>4, <2>1 DEF Connects
<1>8. promised' = TRUE /\ broken' = broken
  BY <1>7 DEF Promise, Breaks
<1>9. VarTypes'
  <2>1. promised' \in BOOLEAN
    BY <1>8 DEF VarTypes, Closers
  <2> QED
    BY <1>1, <1>2, <2>1 DEF VarTypes
<1>10. \A u \in Closers : Upward(u)'
  BY <1>1, <1>6 DEF Ordered, Threads, Closers, Upward
<1>11. Calling'
  BY <1>1, <1>6 DEF Ordered, Threads, Calling
<1>12. Locks'
  BY <1>1, <1>2, <1>6 DEF Ordered, Threads, Closers, Locks, Calling
<1>13. Start'
  BY <1>1, <1>2, <1>6 DEF Ordered, Threads, Start
<1>14. Deletes'
  BY <1>1, <1>2, <1>6 DEF Ordered, Threads, Closers, Deletes, Past
<1>15. Connects'
  BY <1>1, <1>2, <1>4, <1>6, <1>7 DEF Ordered, Threads, Connects
<1>16. StreamContract'
  BY <1>1, <1>8 DEF StreamContract
<1> QED
  BY <1>6, <1>9, <1>10, <1>11, <1>12, <1>13, <1>14, <1>15, <1>16 DEF IInv, TypeOK

\* connect() writes.
LEMMA WriteConfigKeeps ==
  ASSUME IInv, NEW t \in {"start", "media"}, WriteConfig(t)
  PROVE  IInv'
<1>1. VarTypes /\ TodoTypes /\ (\A u \in Closers : Upward(u)) /\ Calling /\ Locks /\ Start
      /\ Deletes /\ Connects /\ StreamContract
  BY DEF IInv, TypeOK
<1>2. UNCHANGED <<vendor, vad, alive, attached, private, lock, bugs, streamer, object, connected, promised,
     writesDone, net, responses>>
  BY DEF WriteConfig, SessionKeeps, LocksKeep, ObjectKeeps, WriteToStream
<1>3. PICK h \in {"writeConfig", "drain"} : At(t, h) /\ Goes(t) /\ h \in ConnectSteps
  BY DEF WriteConfig, ConnectSteps
<1>4. /\ t \in Ordered /\ h \in Left(t) /\ (\A y \in Left(t) : y = h \/ Rank(h) < Rank(y))
      /\ object # "deleted" /\ (\A u \in Closers : ~Past(u)) /\ ~writesDone
      /\ (\A u \in {"start", "media"} \ {t} : Left(u) \subseteq {"set_private"})
      /\ "connectUnlessVad" \notin Left(t) /\ "trylock" \notin Left(t)
  BY <1>3, ConnectAt
<1>5. Turns(t, Left(t) \ {h})
  BY <1>1, <1>3, <1>4, GoesOn
<1>6. /\ TodoTypes' /\ todo'["read"] = todo["read"] /\ Left(t)' = Left(t) \ {h}
      /\ \A u \in Ordered \ {t} : Left(u)' = Left(u)
  BY <1>5 DEF Turns
<1>7. broken' \subseteq broken \cup {"noStream", "writeAfterFinish"}
  BY <1>4 DEF WriteConfig, WriteToStream
<1>8. VarTypes'
  BY <1>1, <1>2 DEF VarTypes
<1>9. \A u \in Closers : Upward(u)'
  BY <1>1, <1>6 DEF Ordered, Threads, Closers, Upward
<1>10. Calling'
  BY <1>1, <1>6 DEF Ordered, Threads, Calling
<1>11. Locks'
  BY <1>1, <1>2, <1>6 DEF Ordered, Threads, Closers, Locks, Calling
<1>12. Start'
  BY <1>1, <1>2, <1>6 DEF Ordered, Threads, Start
<1>13. Deletes'
  BY <1>1, <1>2, <1>6 DEF Ordered, Threads, Closers, Deletes, Past
<1>14. Connects'
  BY <1>1, <1>2, <1>6 DEF Ordered, Threads, Closers, Connects, Ending, Past
<1>15. StreamContract'
  BY <1>1, <1>7 DEF StreamContract
<1> QED
  BY <1>6, <1>8, <1>9, <1>10, <1>11, <1>12, <1>13, <1>14, <1>15 DEF IInv, TypeOK

\* The media callback begins.
LEMMA FrameKeeps ==
  ASSUME IInv, Frame
  PROVE  IInv'
<1>1. VarTypes /\ TodoTypes /\ (\A u \in Closers : Upward(u)) /\ Calling /\ Locks /\ Start
      /\ Deletes /\ Connects /\ StreamContract
  BY DEF IInv, TypeOK
<1>2. UNCHANGED <<vendor, vad, alive, attached, private, lock, streamer, object, connected, promised,
     writesDone, net, responses, broken>>
  BY DEF Frame, SessionKeeps, StreamKeeps, ObjectKeeps
<1>3. /\ Begins("media", Tail(Code[vendor].frame)) /\ "media" \in Ordered /\ attached /\ bugs = "free"
      /\ streamer /\ bugs' = "media" /\ {"trylock", "media_bug_read", "unlock"} \subseteq StepsOf("media")
  BY DEF Ordered, Threads, Closers, Frame, StepsOf, MediaSteps
<1>4. Turns("media", {"trylock", "media_bug_read", "unlock"}) /\ Left("media") = {}
  BY <1>1, <1>3, CodeFacts, BeginsOn DEF VarTypes
<1>5. /\ TodoTypes' /\ todo'["read"] = todo["read"] /\ (\A u \in Ordered \ {"media"} : Left(u)' = Left(u))
      /\ Left("media")' = {"trylock", "media_bug_read", "unlock"} /\ Left("media") = {}
  BY <1>4 DEF Turns
<1>6. object = "alive"
  BY <1>1, <1>3 DEF Deletes
<1>7. VarTypes'
  <2>1. bugs' \in {"free", "hangup", "media"}
    BY <1>3 DEF VarTypes, Closers
  <2> QED
    BY <1>1, <1>2, <2>1 DEF VarTypes
<1>8. \A u \in Closers : Upward(u)'
  BY <1>1, <1>5 DEF Ordered, Threads, Closers, Upward
<1>9. Calling'
  BY <1>1, <1>5 DEF Ordered, Threads, Calling
<1>10. Locks'
  BY <1>1, <1>2, <1>3, <1>5 DEF Ordered, Threads, Closers, Locks
<1>11. Start'
  BY <1>1, <1>2, <1>3, <1>5 DEF Ordered, Threads, Start
<1>12. Deletes'
  BY <1>1, <1>2, <1>5, <1>6 DEF Ordered, Threads, Closers, Deletes, Past
<1>13. Connects'
  BY <1>1, <1>2, <1>5 DEF Ordered, Threads, Closers, Connects, Ending, Past
<1>14. StreamContract'
  BY <1>1, <1>2 DEF StreamContract
<1> QED
  BY <1>5, <1>7, <1>8, <1>9, <1>10, <1>11, <1>12, <1>13, <1>14 DEF IInv, TypeOK

\* The callback takes the mutex, or returns.
LEMMA TryLockKeeps ==
  ASSUME IInv, TryLock
  PROVE  IInv'
<1>1. VarTypes /\ TodoTypes /\ (\A u \in Closers : Upward(u)) /\ Calling /\ Locks /\ Start
      /\ Deletes /\ Connects /\ StreamContract
  BY DEF IInv, TypeOK
<1>2. UNCHANGED <<vendor, vad, alive, attached, private, streamer, object, connected, promised, writesDone,
     net, responses, broken>>
  BY DEF TryLock, SessionKeeps, StreamKeeps, ObjectKeeps
<1>3. At("media", "trylock") /\ "media" \in Ordered
  BY DEF Ordered, Threads, TryLock
<1>4. /\ "trylock" \in Left("media") /\ Left("media") \subseteq MediaSteps /\ "unlock" \in Left("media")
      /\ (\A y \in Left("media") : y = "trylock" \/ Rank("trylock") < Rank(y))
      /\ bugs = "media" /\ attached /\ Left("start") \subseteq {"set_private"} /\ object # "none"
  BY <1>3, MediaAt DEF MediaSteps
<1>5. \/ Turns("media", Left("media") \ {"trylock"}) /\ lock = "free" /\ lock' = "media" /\ UNCHANGED bugs
      \/ Turns("media", {}) /\ lock # "free" /\ bugs' = "free" /\ UNCHANGED lock
  <2>1. CASE lock = "free"
    <3>1. Goes("media") /\ lock' = "media" /\ UNCHANGED bugs
      BY <2>1 DEF TryLock
    <3> QED
      BY <1>1, <1>3, <2>1, <3>1, GoesOn
  <2>2. CASE lock # "free"
    <3>1. Leaves("media") /\ bugs' = "free" /\ UNCHANGED lock
      BY <2>2 DEF TryLock
    <3> QED
      BY <1>1, <1>3, <2>2, <3>1, LeavesOn
  <2> QED
    BY <2>1, <2>2
<1>6. /\ TodoTypes' /\ todo'["read"] = todo["read"] /\ (\A u \in Ordered \ {"media"} : Left(u)' = Left(u))
      /\ \/ Left("media")' = Left("media") \ {"trylock"} /\ lock = "free" /\ lock' = "media" /\ UNCHANGED bugs
         \/ Left("media")' = {} /\ lock # "free" /\ bugs' = "free" /\ UNCHANGED lock
  BY <1>5 DEF Turns
<1>7. VarTypes'
  <2>1. lock' \in {"free", "api", "hangup", "timers", "media"} /\ bugs' \in {"free", "hangup", "media"}
    BY <1>1, <1>6 DEF VarTypes, Closers
  <2> QED
    BY <1>1, <1>2, <2>1 DEF VarTypes
<1>8. \A u \in Closers : Upward(u)'
  BY <1>1, <1>6 DEF Ordered, Threads, Closers, Upward
<1>9. Calling'
  BY <1>1, <1>6 DEF Ordered, Threads, Calling
<1>10. Locks'
  BY <1>1, <1>4, <1>6 DEF Ordered, Threads, Closers, Locks
<1>11. Start'
  BY <1>1, <1>2, <1>6 DEF Ordered, Threads, Start
<1>12. Deletes'
  BY <1>1, <1>2, <1>6 DEF Ordered, Threads, Closers, Deletes, Past
<1>13. Connects'
  BY <1>1, <1>2, <1>6 DEF Ordered, Threads, Closers, Connects, Ending, Past
<1>14. StreamContract'
  BY <1>1, <1>2 DEF StreamContract
<1> QED
  BY <1>6, <1>7, <1>8, <1>9, <1>10, <1>11, <1>12, <1>13, <1>14 DEF IInv, TypeOK

\* There is no more to read, or a frame is handled.
LEMMA MediaBugReadKeeps ==
  ASSUME IInv, MediaBugRead
  PROVE  IInv'
<1>1. VarTypes /\ TodoTypes /\ (\A u \in Closers : Upward(u)) /\ Calling /\ Locks /\ Start
      /\ Deletes /\ Connects /\ StreamContract
  BY DEF IInv, TypeOK
<1>2. UNCHANGED <<vendor, vad, alive, attached, private, lock, bugs, streamer, object, connected, promised,
     writesDone, net, responses, broken>>
  BY DEF MediaBugRead, SessionKeeps, LocksKeep, StreamKeeps, ObjectKeeps
<1>3. At("media", "media_bug_read") /\ "media" \in Ordered
  BY DEF Ordered, Threads, MediaBugRead
<1>4. /\ "media_bug_read" \in Left("media") /\ Left("media") \subseteq MediaSteps /\ "unlock" \in Left("media")
      /\ (\A y \in Left("media") : y = "media_bug_read" \/ Rank("media_bug_read") < Rank(y))
      /\ bugs = "media" /\ attached /\ Left("start") \subseteq {"set_private"} /\ object # "none"
      /\ "trylock" \notin Left("media") /\ lock = "media" /\ object = "alive"
      /\ (\A u \in Closers : ~Past(u)) /\ ~writesDone
  BY <1>3, MediaAt DEF MediaSteps
<1>5. Left("media") = {"media_bug_read", "unlock"}
  BY <1>4, MediaRanks, ConnectRanks DEF MediaSteps, ConnectSteps
<1>6. Turns("media", {"unlock"}) \/ Turns("media", {"vad", "write", "unlock"})
  <2>1. {"vad", "write"} \subseteq StepsOf("media")
    BY DEF StepsOf, MediaSteps, Closers
  <2>2. IsRun(Code[vendor].passed, {"vad", "write"})
    BY <1>1, CodeFacts DEF VarTypes
  <2>3. \A x \in {"vad", "write"}, y \in Left("media") \ {"media_bug_read"} : Rank(x) < Rank(y)
    BY <1>5, MediaRanks
  <2>4. CASE Goes("media")
    <3>1. Turns("media", Left("media") \ {"media_bug_read"})
      BY <1>1, <1>3, <2>4, GoesOn
    <3>2. Left("media") \ {"media_bug_read"} = {"unlock"}
      BY <1>5
    <3> QED
      BY <3>1, <3>2
  <2>5. CASE Calls("media", Code[vendor].passed)
    <3>1. Turns("media", {"vad", "write"} \cup (Left("media") \ {"media_bug_read"}))
      BY <1>1, <1>3, <2>1, <2>2, <2>3, <2>5, CallsOn
    <3>2. {"vad", "write"} \cup (Left("media") \ {"media_bug_read"}) = {"vad", "write", "unlock"}
      BY <1>5
    <3> QED
      BY <3>1, <3>2
  <2> QED
    BY <2>4, <2>5 DEF MediaBugRead
<1>7. /\ TodoTypes' /\ todo'["read"] = todo["read"] /\ (\A u \in Ordered \ {"media"} : Left(u)' = Left(u))
      /\ Left("media")' = {"unlock"} \/ Left("media")' = {"vad", "write", "unlock"}
  BY <1>6 DEF Turns
<1>8. VarTypes'
  BY <1>1, <1>2 DEF VarTypes
<1>9. \A u \in Closers : Upward(u)'
  BY <1>1, <1>7 DEF Ordered, Threads, Closers, Upward
<1>10. Calling'
  BY <1>1, <1>7 DEF Ordered, Threads, Calling
<1>11. Locks'
  BY <1>1, <1>2, <1>5, <1>7 DEF Ordered, Threads, Closers, Locks
<1>12. Start'
  BY <1>1, <1>2, <1>5, <1>7 DEF Ordered, Threads, Start
<1>13. Deletes'
  BY <1>1, <1>2, <1>5, <1>7 DEF Ordered, Threads, Closers, Deletes, Past
<1>14. Connects'
  BY <1>1, <1>2, <1>7 DEF Ordered, Threads, Closers, Connects, Ending, Past
<1>15. StreamContract'
  BY <1>1, <1>2 DEF StreamContract
<1> QED
  BY <1>7, <1>8, <1>9, <1>10, <1>11, <1>12, <1>13, <1>14, <1>15 DEF IInv, TypeOK

\* Speech is detected, and connect() is called, or it is not.
LEMMA VadKeeps ==
  ASSUME IInv, Vad
  PROVE  IInv'
<1>1. VarTypes /\ TodoTypes /\ (\A u \in Closers : Upward(u)) /\ Calling /\ Locks /\ Start
      /\ Deletes /\ Connects /\ StreamContract
  BY DEF IInv, TypeOK
<1>2. UNCHANGED <<vendor, vad, alive, attached, private, lock, bugs, streamer, object, connected, promised,
     writesDone, net, responses, broken>>
  BY DEF Vad, SessionKeeps, LocksKeep, StreamKeeps, ObjectKeeps
<1>3. At("media", "vad") /\ "media" \in Ordered
  BY DEF Ordered, Threads, Vad
<1>4. /\ "vad" \in Left("media") /\ Left("media") \subseteq MediaSteps /\ "unlock" \in Left("media")
      /\ (\A y \in Left("media") : y = "vad" \/ Rank("vad") < Rank(y))
      /\ bugs = "media" /\ attached /\ Left("start") \subseteq {"set_private"} /\ object # "none"
      /\ "trylock" \notin Left("media") /\ lock = "media" /\ object = "alive"
      /\ (\A u \in Closers : ~Past(u)) /\ ~writesDone
  BY <1>3, MediaAt DEF MediaSteps
<1>5. Left("media") \subseteq {"vad", "write", "unlock"}
  BY <1>1, <1>4 DEF Calling
<1>6. PICK C : C \subseteq ConnectSteps /\ {"openStream", "promise"} \subseteq C /\ IsRun(Code[vendor].connect, C)
  BY <1>1, CodeFacts DEF VarTypes
<1>7. \/ Turns("media", Left("media") \ {"vad"})
      \/ ~connected /\ Turns("media", C \cup (Left("media") \ {"vad"}))
  <2>1. C \subseteq StepsOf("media")
    BY <1>6 DEF StepsOf, MediaSteps, Closers
  <2>2. \A x \in C : Rank(x) \in 7 .. 12
    BY <1>6, ConnectRanks DEF ConnectSteps
  <2>3. \A x \in C, y \in Left("media") \ {"vad"} : Rank(x) < Rank(y)
    BY <1>5, <2>2, MediaRanks
  <2>4. Goes("media") \/ (~connected /\ Calls("media", Code[vendor].connect))
    BY DEF Vad
  <2> QED
    BY <1>1, <1>3, <1>6, <2>1, <2>3, <2>4, GoesOn, CallsOn
<1>8. /\ TodoTypes' /\ todo'["read"] = todo["read"] /\ (\A u \in Ordered \ {"media"} : Left(u)' = Left(u))
      /\ \/ Left("media")' = Left("media") \ {"vad"}
         \/ ~connected /\ Left("media")' = C \cup (Left("media") \ {"vad"})
  BY <1>7 DEF Turns
<1>9. /\ "vad" \notin C /\ "trylock" \notin C /\ "write" \notin C /\ "media_bug_read" \notin C
      /\ "connectUnlessVad" \notin C
  BY <1>6 DEF ConnectSteps
<1>10. VarTypes'
  BY <1>1, <1>2 DEF VarTypes
<1>11. \A u \in Closers : Upward(u)'
  BY <1>1, <1>8 DEF Ordered, Threads, Closers, Upward
<1>12. Calling'
  BY <1>1, <1>4, <1>8, <1>9 DEF Ordered, Threads, Calling
<1>13. Locks'
  BY <1>1, <1>2, <1>4, <1>8, <1>9 DEF Ordered, Threads, Closers, Locks
<1>14. Start'
  BY <1>1, <1>2, <1>4, <1>8 DEF Ordered, Threads, Start
<1>15. Deletes'
  BY <1>1, <1>2, <1>4, <1>8 DEF Ordered, Threads, Closers, Deletes, Past
<1>16. Connects'
  BY <1>1, <1>2, <1>4, <1>6, <1>8 DEF Ordered, Threads, Connects, Ending
<1>17. StreamContract'
  BY <1>1, <1>2 DEF StreamContract
<1> QED
  BY <1>8, <1>10, <1>11, <1>12, <1>13, <1>14, <1>15, <1>16, <1>17 DEF IInv, TypeOK

\* The frame is written, and the next one is looked for.
LEMMA WriteKeeps ==
  ASSUME IInv, Write
  PROVE  IInv'
<1>1. VarTypes /\ TodoTypes /\ (\A u \in Closers : Upward(u)) /\ Calling /\ Locks /\ Start
      /\ Deletes /\ Connects /\ StreamContract
  BY DEF IInv, TypeOK
<1>2. UNCHANGED <<vendor, vad, alive, attached, private, lock, bugs, streamer, object, connected, promised,
     writesDone, net, responses>>
  BY DEF Write, SessionKeeps, LocksKeep, StreamKeeps, ObjectKeeps, WriteToStream
<1>3. At("media", "write") /\ "media" \in Ordered
  BY DEF Ordered, Threads, Write
<1>4. /\ "write" \in Left("media") /\ Left("media") \subseteq MediaSteps /\ "unlock" \in Left("media")
      /\ (\A y \in Left("media") : y = "write" \/ Rank("write") < Rank(y))
      /\ bugs = "media" /\ attached /\ Left("start") \subseteq {"set_private"} /\ object # "none"
      /\ "trylock" \notin Left("media") /\ lock = "media" /\ object = "alive"
      /\ (\A u \in Closers : ~Past(u)) /\ ~writesDone
  BY <1>3, MediaAt DEF MediaSteps
<1>5. Left("media") = {"write", "unlock"}
  BY <1>1, <1>4, MediaRanks, ConnectRanks DEF Calling, MediaSteps, ConnectSteps
<1>6. Turns("media", {"media_bug_read"} \cup (Left("media") \ {"write"}))
  <2>1. {"media_bug_read"} \subseteq StepsOf("media")
    BY DEF StepsOf, MediaSteps, Closers
  <2>2. \A x \in {"media_bug_read"}, y \in Left("media") \ {"write"} : Rank(x) < Rank(y)
    BY <1>5, MediaRanks
  <2>3. Calls("media", <<"media_bug_read">>)
    BY DEF Write
  <2>4. IsRun(<<"media_bug_read">>, {"media_bug_read"})
    BY RestAreRuns
  <2> QED
    BY <1>1, <1>3, <2>1, <2>2, <2>3, <2>4, CallsOn
<1>7. /\ TodoTypes' /\ todo'["read"] = todo["read"] /\ (\A u \in Ordered \ {"media"} : Left(u)' = Left(u))
      /\ Left("media")' = {"media_bug_read", "unlock"}
  BY <1>5, <1>6 DEF Turns
<1>8. broken' \subseteq broken \cup {"noStream", "writeAfterFinish"}
  BY <1>4 DEF Write, WriteToStream, StreamKeeps
<1>9. VarTypes'
  BY <1>1, <1>2 DEF VarTypes
<1>10. \A u \in Closers : Upward(u)'
  BY <1>1, <1>7 DEF Ordered, Threads, Closers, Upward
<1>11. Calling'
  BY <1>1, <1>7 DEF Ordered, Threads, Calling
<1>12. Locks'
  BY <1>1, <1>2, <1>5, <1>7 DEF Ordered, Threads, Closers, Locks
<1>13. Start'
  BY <1>1, <1>2, <1>5, <1>7 DEF Ordered, Threads, Start
<1>14. Deletes'
  BY <1>1, <1>2, <1>5, <1>7 DEF Ordered, Threads, Closers, Deletes, Past
<1>15. Connects'
  BY <1>1, <1>2, <1>7 DEF Ordered, Threads, Closers, Connects, Ending, Past
<1>16. StreamContract'
  BY <1>1, <1>8 DEF StreamContract
<1> QED
  BY <1>7, <1>9, <1>10, <1>11, <1>12, <1>13, <1>14, <1>15, <1>16 DEF IInv, TypeOK

\* The read thread has a connection, or is over.
LEMMA WaitForConnectKeeps ==
  ASSUME IInv, WaitForConnect
  PROVE  IInv'
<1>1. VarTypes /\ TodoTypes /\ (\A u \in Closers : Upward(u)) /\ Calling /\ Locks /\ Start
      /\ Deletes /\ Connects /\ StreamContract
  BY DEF IInv, TypeOK
<1>2. UNCHANGED <<vendor, vad, alive, attached, private, lock, bugs, streamer, object, connected, promised,
     writesDone, net, responses, broken>>
  BY DEF WaitForConnect, SessionKeeps, LocksKeep, StreamKeeps, ObjectKeeps
<1>3. At("read", "waitForConnect") /\ todo["read"] \in Seq(ReadSteps)
  BY <1>1 DEF TodoTypes, WaitForConnect
<1>4. todo["read"] # <<>> /\ Tail(todo["read"]) \in Seq(ReadSteps) /\ <<>> \in Seq(ReadSteps)
  BY <1>3 DEF At
<1>5. PICK q \in Seq(ReadSteps) : todo' = [todo EXCEPT !["read"] = q]
  BY <1>4 DEF WaitForConnect, Goes, Leaves
<1>6. TodoTypes' /\ \A u \in Ordered : Left(u)' = Left(u)
  BY <1>1, <1>5, ReadOn
<1>7. VarTypes'
  BY <1>1, <1>2 DEF VarTypes
<1>8. \A u \in Closers : Upward(u)'
  BY <1>1, <1>6 DEF Ordered, Threads, Closers, Upward
<1>9. Calling'
  BY <1>1, <1>6 DEF Ordered, Threads, Calling
<1>10. Locks'
  BY <1>1, <1>2, <1>6 DEF Ordered, Threads, Closers, Locks
<1>11. Start'
  BY <1>1, <1>2, <1>4, <1>6 DEF Ordered, Threads, Start
<1>12. Deletes'
  BY <1>1, <1>2, <1>4, <1>6 DEF Ordered, Threads, Closers, Deletes, Past
<1>13. Connects'
  BY <1>1, <1>2, <1>6 DEF Ordered, Threads, Closers, Connects, Ending, Past
<1>14. StreamContract'
  BY <1>1, <1>2 DEF StreamContract
<1> QED
  BY <1>6, <1>7, <1>8, <1>9, <1>10, <1>11, <1>12, <1>13, <1>14 DEF IInv, TypeOK

\* A response is read, or there is no more.
LEMMA ReadKeeps ==
  ASSUME IInv, Read
  PROVE  IInv'
<1>1. VarTypes /\ TodoTypes /\ (\A u \in Closers : Upward(u)) /\ Calling /\ Locks /\ Start
      /\ Deletes /\ Connects /\ StreamContract
  BY DEF IInv, TypeOK
<1>2. UNCHANGED <<vendor, vad, alive, attached, private, lock, bugs, streamer, object, connected, promised,
     writesDone, net, broken>>
  BY DEF Read, SessionKeeps, LocksKeep, StreamKeeps
<1>3. At("read", "read") /\ todo["read"] \in Seq(ReadSteps)
  BY <1>1 DEF TodoTypes, Read
<1>4. todo["read"] # <<>> /\ Tail(todo["read"]) \in Seq(ReadSteps) /\ <<>> \in Seq(ReadSteps)
  BY <1>3 DEF At
<1>5. PICK q \in Seq(ReadSteps) : todo' = [todo EXCEPT !["read"] = q]
  <2>1. ASSUME NEW r \in {"result", "empty", "none"},
               todo' = [todo EXCEPT !["read"] = Code[vendor].response[r] \o todo["read"]]
        PROVE  \E q \in Seq(ReadSteps) : todo' = [todo EXCEPT !["read"] = q]
    <3>1. Code[vendor].response[r] \in Seq(ReadSteps)
      BY <1>1, CodeFacts DEF VarTypes
    <3>2. Code[vendor].response[r] \o todo["read"] \in Seq(ReadSteps)
      BY <1>3, <3>1
    <3> QED
      BY <2>1, <3>2
  <2>2. CASE Goes("read")
    BY <1>4, <2>2 DEF Goes
  <2> QED
    BY <2>1, <2>2 DEF Read
<1>6. TodoTypes' /\ \A u \in Ordered : Left(u)' = Left(u)
  BY <1>1, <1>5, ReadOn
<1>7. responses' \in Nat
  <2>1. responses' = responses + 1 \/ responses' = responses
    BY DEF Read
  <2> QED
    BY <1>1, <2>1 DEF VarTypes
<1>8. VarTypes'
  <2>1. responses' \in Nat
    BY <1>7 DEF VarTypes, Closers
  <2> QED
    BY <1>1, <1>2, <2>1 DEF VarTypes
<1>9. \A u \in Closers : Upward(u)'
  BY <1>1, <1>6 DEF Ordered, Threads, Closers, Upward
<1>10. Calling'
  BY <1>1, <1>6 DEF Ordered, Threads, Calling
<1>11. Locks'
  BY <1>1, <1>2, <1>6 DEF Ordered, Threads, Closers, Locks
<1>12. Start'
  BY <1>1, <1>2, <1>4, <1>6 DEF Ordered, Threads, Start
<1>13. Deletes'
  BY <1>1, <1>2, <1>4, <1>6 DEF Ordered, Threads, Closers, Deletes, Past
<1>14. Connects'
  BY <1>1, <1>2, <1>6 DEF Ordered, Threads, Closers, Connects, Ending, Past
<1>15. StreamContract'
  BY <1>1, <1>2 DEF StreamContract
<1> QED
  BY <1>6, <1>8, <1>9, <1>10, <1>11, <1>12, <1>13, <1>14, <1>15 DEF IInv, TypeOK

\* The session is found, or the read thread is over.
LEMMA LocateKeeps ==
  ASSUME IInv, Locate
  PROVE  IInv'
<1>1. VarTypes /\ TodoTypes /\ (\A u \in Closers : Upward(u)) /\ Calling /\ Locks /\ Start
      /\ Deletes /\ Connects /\ StreamContract
  BY DEF IInv, TypeOK
<1>2. UNCHANGED <<vendor, vad, alive, attached, private, lock, bugs, streamer, object, connected, promised,
     writesDone, net, responses, broken>>
  BY DEF Locate, SessionKeeps, LocksKeep, StreamKeeps, ObjectKeeps
<1>3. At("read", "locate") /\ todo["read"] \in Seq(ReadSteps)
  BY <1>1 DEF TodoTypes, Locate
<1>4. todo["read"] # <<>> /\ Tail(todo["read"]) \in Seq(ReadSteps) /\ <<>> \in Seq(ReadSteps)
  BY <1>3 DEF At
<1>5. PICK q \in Seq(ReadSteps) : todo' = [todo EXCEPT !["read"] = q]
  BY <1>4 DEF Locate, Goes, Leaves
<1>6. TodoTypes' /\ \A u \in Ordered : Left(u)' = Left(u)
  BY <1>1, <1>5, ReadOn
<1>7. VarTypes'
  BY <1>1, <1>2 DEF VarTypes
<1>8. \A u \in Closers : Upward(u)'
  BY <1>1, <1>6 DEF Ordered, Threads, Closers, Upward
<1>9. Calling'
  BY <1>1, <1>6 DEF Ordered, Threads, Calling
<1>10. Locks'
  BY <1>1, <1>2, <1>6 DEF Ordered, Threads, Closers, Locks
<1>11. Start'
  BY <1>1, <1>2, <1>4, <1>6 DEF Ordered, Threads, Start
<1>12. Deletes'
  BY <1>1, <1>2, <1>4, <1>6 DEF Ordered, Threads, Closers, Deletes, Past
<1>13. Connects'
  BY <1>1, <1>2, <1>6 DEF Ordered, Threads, Closers, Connects, Ending, Past
<1>14. StreamContract'
  BY <1>1, <1>2 DEF StreamContract
<1> QED
  BY <1>6, <1>7, <1>8, <1>9, <1>10, <1>11, <1>12, <1>13, <1>14 DEF IInv, TypeOK

\* A result is told.
LEMMA TellKeeps ==
  ASSUME IInv, Tell
  PROVE  IInv'
<1>1. VarTypes /\ TodoTypes /\ (\A u \in Closers : Upward(u)) /\ Calling /\ Locks /\ Start
      /\ Deletes /\ Connects /\ StreamContract
  BY DEF IInv, TypeOK
<1>2. UNCHANGED <<vendor, vad, alive, attached, private, lock, bugs, streamer, object, connected, promised,
     writesDone, net, responses, broken>>
  BY DEF Tell, SessionKeeps, LocksKeep, StreamKeeps, ObjectKeeps
<1>3. At("read", "tell") /\ todo["read"] \in Seq(ReadSteps)
  BY <1>1 DEF TodoTypes, Tell
<1>4. todo["read"] # <<>> /\ Tail(todo["read"]) \in Seq(ReadSteps) /\ <<>> \in Seq(ReadSteps)
  BY <1>3 DEF At
<1>5. PICK q \in Seq(ReadSteps) : todo' = [todo EXCEPT !["read"] = q]
  BY <1>4 DEF Tell, Goes
<1>6. TodoTypes' /\ \A u \in Ordered : Left(u)' = Left(u)
  BY <1>1, <1>5, ReadOn
<1>7. VarTypes'
  BY <1>1, <1>2 DEF VarTypes
<1>8. \A u \in Closers : Upward(u)'
  BY <1>1, <1>6 DEF Ordered, Threads, Closers, Upward
<1>9. Calling'
  BY <1>1, <1>6 DEF Ordered, Threads, Calling
<1>10. Locks'
  BY <1>1, <1>2, <1>6 DEF Ordered, Threads, Closers, Locks
<1>11. Start'
  BY <1>1, <1>2, <1>4, <1>6 DEF Ordered, Threads, Start
<1>12. Deletes'
  BY <1>1, <1>2, <1>4, <1>6 DEF Ordered, Threads, Closers, Deletes, Past
<1>13. Connects'
  BY <1>1, <1>2, <1>6 DEF Ordered, Threads, Closers, Connects, Ending, Past
<1>14. StreamContract'
  BY <1>1, <1>2 DEF StreamContract
<1> QED
  BY <1>6, <1>7, <1>8, <1>9, <1>10, <1>11, <1>12, <1>13, <1>14 DEF IInv, TypeOK

\* The stream is finished.
LEMMA FinishKeeps ==
  ASSUME IInv, Finish
  PROVE  IInv'
<1>1. VarTypes /\ TodoTypes /\ (\A u \in Closers : Upward(u)) /\ Calling /\ Locks /\ Start
      /\ Deletes /\ Connects /\ StreamContract
  BY DEF IInv, TypeOK
<1>2. UNCHANGED <<vendor, vad, alive, attached, private, lock, bugs, streamer, object, connected, promised,
     writesDone, responses, broken>>
  BY DEF Finish, SessionKeeps, LocksKeep, ObjectKeeps
<1>3. At("read", "finish") /\ todo["read"] \in Seq(ReadSteps)
  BY <1>1 DEF TodoTypes, Finish
<1>4. todo["read"] # <<>> /\ Tail(todo["read"]) \in Seq(ReadSteps) /\ <<>> \in Seq(ReadSteps)
  BY <1>3 DEF At
<1>5. PICK q \in Seq(ReadSteps) : todo' = [todo EXCEPT !["read"] = q]
  BY <1>4 DEF Finish, Goes
<1>6. TodoTypes' /\ \A u \in Ordered : Left(u)' = Left(u)
  BY <1>1, <1>5, ReadOn
<1>7. net' = "finished"
  BY DEF Finish
<1>8. VarTypes'
  <2>1. net' \in {"none", "open", "half", "over", "finished"}
    BY <1>7 DEF VarTypes, Closers
  <2> QED
    BY <1>1, <1>2, <2>1 DEF VarTypes
<1>9. \A u \in Closers : Upward(u)'
  BY <1>1, <1>6 DEF Ordered, Threads, Closers, Upward
<1>10. Calling'
  BY <1>1, <1>6 DEF Ordered, Threads, Calling
<1>11. Locks'
  BY <1>1, <1>2, <1>6 DEF Ordered, Threads, Closers, Locks
<1>12. Start'
  BY <1>1, <1>2, <1>4, <1>6 DEF Ordered, Threads, Start
<1>13. Deletes'
  BY <1>1, <1>2, <1>4, <1>6 DEF Ordered, Threads, Closers, Deletes, Past
<1>14. Connects'
  BY <1>1, <1>2, <1>6 DEF Ordered, Threads, Closers, Connects, Ending, Past
<1>15. StreamContract'
  BY <1>1, <1>2 DEF StreamContract
<1> QED
  BY <1>6, <1>8, <1>9, <1>10, <1>11, <1>12, <1>13, <1>14, <1>15 DEF IInv, TypeOK

\* The stream ends.
LEMMA StreamEndsKeeps ==
  ASSUME IInv, StreamEnds
  PROVE  IInv'
<1>1. VarTypes /\ TodoTypes /\ (\A u \in Closers : Upward(u)) /\ Calling /\ Locks /\ Start
      /\ Deletes /\ Connects /\ StreamContract
  BY DEF IInv, TypeOK
<1>2. UNCHANGED <<vendor, vad, alive, attached, private, lock, bugs, streamer, object, connected, promised,
     writesDone, responses, broken, todo>>
  BY DEF StreamEnds, SessionKeeps, LocksKeep, ObjectKeeps
<1>3. net' = "over"
  BY DEF StreamEnds
<1>4. TodoTypes' /\ todo'["read"] = todo["read"] /\ \A u \in Ordered : Left(u)' = Left(u)
  BY <1>1, <1>2, TodoKept
<1>5. VarTypes'
  <2>1. net' \in {"none", "open", "half", "over", "finished"}
    BY <1>3 DEF VarTypes, Closers
  <2> QED
    BY <1>1, <1>2, <2>1 DEF VarTypes
<1>6. \A u \in Closers : Upward(u)'
  BY <1>1, <1>4 DEF Ordered, Threads, Closers, Upward
<1>7. Calling'
  BY <1>1, <1>4 DEF Ordered, Threads, Calling
<1>8. Locks'
  BY <1>1, <1>2, <1>4 DEF Ordered, Threads, Closers, Locks
<1>9. Start'
  BY <1>1, <1>2, <1>4 DEF Ordered, Threads, Start
<1>10. Deletes'
  BY <1>1, <1>2, <1>4 DEF Ordered, Threads, Closers, Deletes, Past
<1>11. Connects'
  BY <1>1, <1>2, <1>4 DEF Ordered, Threads, Closers, Connects, Ending, Past
<1>12. StreamContract'
  BY <1>1, <1>2 DEF StreamContract
<1> QED
  BY <1>4, <1>5, <1>6, <1>7, <1>8, <1>9, <1>10, <1>11, <1>12 DEF IInv, TypeOK

-----------------------------------------------------------------------------
(* The theorems.                                                           *)

\* A session begins with the start's run, and with nothing else to do.
LEMMA InitIsInv ==
  ASSUME Init
  PROVE  IInv
<1>1. vendor \in Vendors /\ VarTypes
  BY DEF Init, VarTypes
<1>2. PICK S \in SUBSET {"pre_answer", "requiredVariable"} : IsRun(Code[vendor].start, S \cup StartRun)
  BY <1>1, CodeFacts
<1>3. todo = [t \in Threads |-> IF t = "start" THEN Code[vendor].start ELSE <<>>]
  BY DEF Init
<1>4. IsRun(<<>>, {})
  BY DEF IsRun, Sorted, Elems
<1>5. todo["start"] = Code[vendor].start /\ \A t \in Threads \ {"start"} : todo[t] = <<>>
  BY <1>3 DEF Threads
<1>6. /\ Left("start") = S \cup StartRun /\ Sorted(todo["start"])
      /\ \A t \in Threads \ {"start"} : Left(t) = {} /\ Sorted(todo[t])
  BY <1>2, <1>4, <1>5 DEF Left, IsRun
<1>7. S \cup StartRun \subseteq StartSteps
  BY DEF StartRun, InitRun, StartSteps
<1>8. TodoTypes
  <2>1. todo \in [Threads -> Seq(Steps)]
    BY <1>2, <1>3, <1>4 DEF IsRun
  <2>2. todo["read"] \in Seq(ReadSteps)
    <3>1. todo["read"] = <<>>
      BY <1>5 DEF Threads
    <3> QED
      BY <3>1
  <2>3. \A t \in Ordered : Left(t) \subseteq StepsOf(t) /\ Sorted(todo[t])
    BY <1>6, <1>7 DEF Ordered, StepsOf, Closers
  <2> QED
    BY <2>1, <2>2, <2>3 DEF TodoTypes
<1>9. /\ ~private /\ ~attached /\ object = "none" /\ ~streamer /\ ~connected /\ ~promised /\ ~writesDone
      /\ lock = "free" /\ bugs = "free" /\ broken = {} /\ todo["read"] = <<>>
  BY <1>5 DEF Init, Threads
<1>10. /\ Left("media") = {} /\ Left("api") = {} /\ Left("hangup") = {} /\ Left("timers") = {}
       /\ "newGStreamer" \in Left("start") /\ Left("start") \cap ConnectSteps = {}
  BY <1>6 DEF Threads, StartRun, InitRun, ConnectSteps
<1>11. (\A t \in Closers : Upward(t)) /\ Calling /\ Locks
  BY <1>9, <1>10 DEF Upward, Calling, Locks, Closers
<1>12. Start /\ Deletes
  BY <1>9, <1>10 DEF Start, Deletes, Past, Closers
<1>13. Connects /\ StreamContract
  BY <1>9, <1>10 DEF Connects, StreamContract, ConnectSteps
<1> QED
  BY <1>1, <1>8, <1>11, <1>12, <1>13 DEF IInv, TypeOK

\* Every step keeps the invariant.
LEMMA NextKeeps ==
  ASSUME IInv, [Next]_vars
  PROVE  IInv'
<1>1. CASE StartStep
  BY <1>1, RefusableKeeps, VadInitKeeps, NewStreamerKeeps, ConnectUnlessVadKeeps,
     ThreadCreateKeeps, BugAddKeeps, SetPrivateKeeps DEF StartStep
<1>2. CASE ApiStop \/ SessionGone \/ CloseBug \/ ApiTimers \/ StartTimers
  BY <1>2, ApiStopKeeps, SessionGoneKeeps, CloseBugKeeps, ApiTimersKeeps, StartTimersKeeps
<1>3. ASSUME NEW t \in {"start", "media"}, ConnectStep(t)
      PROVE  IInv'
  BY <1>3, PrepareKeeps, OpenStreamKeeps, PromiseKeeps, WriteConfigKeeps DEF ConnectStep
<1>4. ASSUME NEW t \in {"api", "hangup", "timers"}, Lock(t)
      PROVE  IInv'
  BY <1>4, LockKeeps
<1>5. ASSUME NEW t \in Closers, CleanupStep(t) \/ BugRemove(t)
      PROVE  IInv'
  BY <1>5, PrivateKeeps, WritesDoneKeeps, JoinKeeps, DeleteKeeps, BugRemoveKeeps DEF CleanupStep
<1>6. ASSUME NEW t \in Threads, Unlock(t)
      PROVE  IInv'
  BY <1>6, UnlockKeeps
<1>7. CASE Frame \/ FrameStep \/ MediaBugRead
  BY <1>7, FrameKeeps, TryLockKeeps, MediaBugReadKeeps, VadKeeps, WriteKeeps DEF FrameStep
<1>8. CASE ReadStep \/ StreamEnds
  BY <1>8, WaitForConnectKeeps, ReadKeeps, LocateKeeps, TellKeeps, FinishKeeps, StreamEndsKeeps
     DEF ReadStep
<1>9. CASE UNCHANGED vars
  <2>1. UNCHANGED <<vendor, vad, alive, attached, private, lock, bugs, todo, streamer, object, connected,
                    promised, writesDone, net, responses, broken>>
    BY <1>9 DEF vars
  <2>2. TypeOK'
    BY <2>1, TodoKept DEF IInv, TypeOK, VarTypes
  <2>3. \A t \in Ordered : Left(t)' = Left(t)
    BY <2>1 DEF Left
  <2>4. (\A t \in Closers : Upward(t)') /\ Calling' /\ Locks'
    BY <2>1, <2>3 DEF IInv, Upward, Calling, Locks, Ordered, Threads, Closers
  <2>5. Start' /\ Deletes'
    BY <2>3, <2>1 DEF IInv, Start, Deletes, Past, Ordered, Threads, Closers
  <2>6. Connects' /\ StreamContract'
    BY <2>3, <2>1 DEF IInv, Connects, Ending, Past, StreamContract, Ordered, Threads, Closers
  <2> QED
    BY <2>2, <2>4, <2>5, <2>6 DEF IInv
<1> QED
  BY <1>1, <1>2, <1>3, <1>4, <1>5, <1>6, <1>7, <1>8, <1>9 DEF Next

\* The invariant holds in every state of every session of the four modules.
THEOREM Inductive == Spec => []IInv
<1>1. Init => IInv
  BY InitIsInv
<1>2. IInv /\ [Next]_vars => IInv'
  BY NextKeeps
<1> QED
  BY <1>1, <1>2, PTL DEF Spec

\* A thread has only steps of its own to do, in their order.
THEOREM TypeCorrect == Spec => []TypeOK
<1>1. IInv => TypeOK
  BY DEF IInv
<1> QED
  BY <1>1, Inductive, PTL

\* The teardowns of the four modules delete a streamer only when neither the media callback nor
\* the read thread is going to use it again.
THEOREM NobodyUsesADeletedStreamer == Spec => []NoUseAfterDelete
<1>1. ASSUME IInv, object # "alive"
      PROVE  ~Uses("media", {"vad", "write", "writeConfig", "drain"}) /\ todo["read"] = <<>>
  <2>1. object \in {"none", "deleted"}
    BY <1>1 DEF IInv, TypeOK, VarTypes
  <2>2. todo["read"] = <<>>
    BY <1>1, <2>1 DEF IInv, Start, Deletes
  <2>3. Left("media") \subseteq {"trylock", "media_bug_read", "unlock"}
    BY <1>1, <2>1 DEF IInv, Start, Deletes, Calling
  <2>4. ~Uses("media", {"vad", "write", "writeConfig", "drain"})
    BY <2>3 DEF Uses, Left, Elems
  <2> QED
    BY <2>2, <2>4
<1>2. IInv => NoUseAfterDelete
  BY <1>1 DEF NoUseAfterDelete
<1> QED
  BY <1>2, Inductive, PTL

\* connect(), writesDone(), the cancelled wait and every Write come in the order that the stream
\* and the promise ask for, though no mutex guards the streamer.
THEOREM TheContractIsKept == Spec => []StreamContract
<1>1. IInv => StreamContract
  BY DEF IInv
<1> QED
  BY <1>1, Inductive, PTL
====
