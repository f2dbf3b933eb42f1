--------------------------- MODULE DebugSessionProof ---------------------------
(***************************************************************************)
(* Proofs about DebugSession: for any set of line addresses, any number of  *)
(* requests of the editor, every kind of launch and every failure, with a   *)
(* target of which only the contract DebugTarget is used.                   *)
(*                                                                          *)
(* All of them look at the messages between the two as one stream,          *)
(* Underway: what was sent and not yet taken.                               *)
(***************************************************************************)
EXTENDS DebugSession, SequenceTheorems, TLAPS

HasRun(s) == \E i \in DOMAIN s : s[i].action = "run"
HasTrace(s) == \E i \in DOMAIN s : s[i].action = "getRegisters"
SingleRun(s) == \A i, j \in DOMAIN s : s[i].action = "run" /\ s[j].action = "run" => i = j

\* Registers are asked for before the program is run again.
TracesFirst(s) ==
    \A i, j \in DOMAIN s : s[i].action = "getRegisters" /\ s[j].action = "run" => i < j

--------------------------------------------------------------------------------
(* Streams that grow at the end and shrink at the front.                        *)

\* What is in a stream that grows at the end.
LEMMA StreamEnd ==
    ASSUME NEW s \in Seq(Message), NEW t \in Seq(Message)
    PROVE  /\ HasRun(s \o t) <=> HasRun(s) \/ HasRun(t)
           /\ HasTrace(s \o t) <=> HasTrace(s) \/ HasTrace(t)
           /\ SingleRun(s) /\ SingleRun(t) /\ ~(HasRun(s) /\ HasRun(t)) => SingleRun(s \o t)
           /\ TracesFirst(s) /\ ~HasTrace(t) => TracesFirst(s \o t)
           /\ ~HasRun(s) /\ ~HasRun(t) => TracesFirst(s \o t)
<1> DEFINE u == s \o t
<1>1. /\ u \in Seq(Message) /\ Len(s) \in Nat /\ Len(t) \in Nat
      /\ DOMAIN s = 1 .. Len(s) /\ DOMAIN t = 1 .. Len(t) /\ DOMAIN u = 1 .. Len(s) + Len(t)
      /\ \A i \in DOMAIN u : u[i] = IF i <= Len(s) THEN s[i] ELSE t[i - Len(s)]
  BY ConcatProperties, LenProperties
<1> HIDE DEF u
<1>2. /\ \A i \in DOMAIN s : i \in DOMAIN u /\ u[i] = s[i]
      /\ \A i \in DOMAIN t : Len(s) + i \in DOMAIN u /\ u[Len(s) + i] = t[i]
      /\ \A i \in DOMAIN u : \/ i \in DOMAIN s /\ u[i] = s[i]
                             \/ i - Len(s) \in DOMAIN t /\ u[i] = t[i - Len(s)] /\ i > Len(s)
  <2>1. \A i \in DOMAIN s : i \in DOMAIN u /\ u[i] = s[i]
    BY <1>1
  <2>2. ASSUME NEW i \in DOMAIN t
        PROVE  Len(s) + i \in DOMAIN u /\ u[Len(s) + i] = t[i]
    <3>1. i \in Nat /\ Len(s) + i \in 1 .. Len(s) + Len(t) /\ ~(Len(s) + i <= Len(s))
          /\ (Len(s) + i) - Len(s) = i
      BY <1>1
    <3> QED
      BY <1>1, <3>1
  <2>3. ASSUME NEW i \in DOMAIN u
        PROVE  \/ i \in DOMAIN s /\ u[i] = s[i]
               \/ i - Len(s) \in DOMAIN t /\ u[i] = t[i - Len(s)] /\ i > Len(s)
    BY <1>1
  <2> QED
    BY <2>1, <2>2, <2>3
<1>3. HasRun(u) <=> HasRun(s) \/ HasRun(t)
  BY <1>2 DEF HasRun
<1>4. HasTrace(u) <=> HasTrace(s) \/ HasTrace(t)
  BY <1>2 DEF HasTrace
<1>5. SingleRun(s) /\ SingleRun(t) /\ ~(HasRun(s) /\ HasRun(t)) => SingleRun(u)
  <2> SUFFICES ASSUME SingleRun(s), SingleRun(t), ~(HasRun(s) /\ HasRun(t)),
                      NEW i \in DOMAIN u, NEW j \in DOMAIN u,
                      u[i].action = "run", u[j].action = "run"
               PROVE  i = j
    BY DEF SingleRun
  <2>1. CASE i \in DOMAIN s /\ j \in DOMAIN s
    BY <1>2, <2>1 DEF SingleRun
  <2>2. CASE i \notin DOMAIN s /\ j \notin DOMAIN s
    <3>1. i - Len(s) = j - Len(s)
      BY <1>2, <2>2 DEF SingleRun
    <3> QED
      BY <1>1, <3>1
  <2>3. CASE i \in DOMAIN s /\ j \notin DOMAIN s
    BY <1>2, <2>3 DEF HasRun
  <2>4. CASE i \notin DOMAIN s /\ j \in DOMAIN s
    BY <1>2, <2>4 DEF HasRun
  <2> QED
    BY <2>1, <2>2, <2>3, <2>4
<1>6. TracesFirst(s) /\ ~HasTrace(t) => TracesFirst(u)
  <2> SUFFICES ASSUME TracesFirst(s), ~HasTrace(t), NEW i \in DOMAIN u, NEW j \in DOMAIN u,
                      u[i].action = "getRegisters", u[j].action = "run"
               PROVE  i < j
    BY DEF TracesFirst
  <2>1. i \in DOMAIN s /\ u[i] = s[i]
    BY <1>2 DEF HasTrace
  <2>2. CASE j \in DOMAIN s
    BY <1>2, <2>1, <2>2 DEF TracesFirst
  <2>3. CASE j \notin DOMAIN s
    BY <1>1, <2>1, <2>3
  <2> QED
    BY <2>2, <2>3
<1>7. ~HasRun(s) /\ ~HasRun(t) => TracesFirst(u)
  BY <1>3 DEF HasRun, TracesFirst
<1> QED
  BY <1>3, <1>4, <1>5, <1>6, <1>7 DEF u

\* What is in a stream that loses its first message.
LEMMA StreamFront ==
    ASSUME NEW s \in Seq(Message), s # <<>>
    PROVE  /\ Head(s) \in Message /\ Tail(s) \in Seq(Message)
           /\ HasRun(s) <=> Head(s).action = "run" \/ HasRun(Tail(s))
           /\ HasTrace(s) <=> Head(s).action = "getRegisters" \/ HasTrace(Tail(s))
           /\ SingleRun(s) => SingleRun(Tail(s)) /\ ~(Head(s).action = "run" /\ HasRun(Tail(s)))
           /\ TracesFirst(s) => /\ TracesFirst(Tail(s))
                                /\ ~(Head(s).action = "run" /\ HasTrace(Tail(s)))
<1> DEFINE t == Tail(s)
<1>1. /\ t \in Seq(Message) /\ Len(s) \in Nat \ {0} /\ Head(s) = s[1] /\ Head(s) \in Message
      /\ DOMAIN s = 1 .. Len(s) /\ DOMAIN t = 1 .. Len(s) - 1
      /\ \A i \in DOMAIN t : t[i] = s[i + 1]
  BY HeadTailProperties, LenProperties, EmptySeq
<1> HIDE DEF t
<1>2. /\ \A i \in DOMAIN t : i \in Int /\ i + 1 \in DOMAIN s /\ t[i] = s[i + 1] /\ i + 1 # 1
      /\ \A i \in DOMAIN s : i \in Int /\ (i = 1 \/ (i - 1 \in DOMAIN t /\ t[i - 1] = s[i]))
      /\ 1 \in DOMAIN s /\ s[1] = Head(s)
  BY <1>1
<1>3. HasRun(s) <=> Head(s).action = "run" \/ HasRun(t)
  <2>1. ASSUME NEW i \in DOMAIN s, s[i].action = "run"
        PROVE  Head(s).action = "run" \/ HasRun(t)
    BY <1>2, <2>1, Zenon DEF HasRun
  <2>2. ASSUME Head(s).action = "run"
        PROVE  HasRun(s)
    BY <1>2, <2>2, Zenon DEF HasRun
  <2>3. ASSUME NEW i \in DOMAIN t, t[i].action = "run"
        PROVE  HasRun(s)
    <3>1. i + 1 \in DOMAIN s /\ s[i + 1].action = "run"
      BY <1>2, <2>3
    <3> QED
      BY <3>1, Zenon DEF HasRun
  <2> QED
    BY <2>1, <2>2, <2>3, Zenon DEF HasRun
<1>4. HasTrace(s) <=> Head(s).action = "getRegisters" \/ HasTrace(t)
  <2>1. ASSUME NEW i \in DOMAIN s, s[i].action = "getRegisters"
        PROVE  Head(s).action = "getRegisters" \/ HasTrace(t)
    BY <1>2, <2>1, Zenon DEF HasTrace
  <2>2. ASSUME Head(s).action = "getRegisters"
        PROVE  HasTrace(s)
    BY <1>2, <2>2, Zenon DEF HasTrace
  <2>3. ASSUME NEW i \in DOMAIN t, t[i].action = "getRegisters"
        PROVE  HasTrace(s)
    <3>1. i + 1 \in DOMAIN s /\ s[i + 1].action = "getRegisters"
      BY <1>2, <2>3
    <3> QED
      BY <3>1, Zenon DEF HasTrace
  <2> QED
    BY <2>1, <2>2, <2>3, Zenon DEF HasTrace
<1>5. SingleRun(s) => SingleRun(t) /\ ~(Head(s).action = "run" /\ HasRun(t))
  <2> SUFFICES ASSUME SingleRun(s) PROVE SingleRun(t) /\ ~(Head(s).action = "run" /\ HasRun(t))
    OBVIOUS
  <2>1. SingleRun(t)
    <3> SUFFICES ASSUME NEW i \in DOMAIN t, NEW j \in DOMAIN t,
                        t[i].action = "run", t[j].action = "run"
                 PROVE  i = j
      BY DEF SingleRun
    <3>1. i + 1 = j + 1
      BY <1>2 DEF SingleRun
    <3> QED
      BY <1>2, <3>1
  <2>2. ~(Head(s).action = "run" /\ HasRun(t))
    BY <1>2 DEF SingleRun, HasRun
  <2> QED
    BY <2>1, <2>2
<1>6. TracesFirst(s) => TracesFirst(t) /\ ~(Head(s).action = "run" /\ HasTrace(t))
  <2> SUFFICES ASSUME TracesFirst(s)
               PROVE  TracesFirst(t) /\ ~(Head(s).action = "run" /\ HasTrace(t))
    OBVIOUS
  <2>1. TracesFirst(t)
    <3> SUFFICES ASSUME NEW i \in DOMAIN t, NEW j \in DOMAIN t,
                        t[i].action = "getRegisters", t[j].action = "run"
                 PROVE  i < j
      BY DEF TracesFirst
    <3>1. i + 1 < j + 1
      BY <1>2 DEF TracesFirst
    <3> QED
      BY <1>2, <3>1
  <2>2. ~(Head(s).action = "run" /\ HasTrace(t))
    <3> SUFFICES ASSUME Head(s).action = "run", NEW i \in DOMAIN t, t[i].action = "getRegisters"
                 PROVE  FALSE
      BY DEF HasTrace
    <3>1. i + 1 < 1
      BY <1>2 DEF TracesFirst
    <3> QED
      BY <1>1, <3>1
  <2> QED
    BY <2>1, <2>2
<1> QED
  BY <1>1, <1>3, <1>4, <1>5, <1>6 DEF t

--------------------------------------------------------------------------------
(* The breakpoints a stream of requests leaves the target with.                 *)

\* A target with the breakpoints b has addrs when it has taken the first n of s.
Given(s, n, b, addrs) ==
    \/ addrs = b /\ \A k \in 1 .. n : s[k].action # "setBreakpoints"
    \/ \E k \in 1 .. n :
        /\ s[k].action = "setBreakpoints" /\ s[k].addrs = addrs
        /\ \A j \in k + 1 .. n : s[j].action # "setBreakpoints"

\* Every run finds the breakpoints it was asked for with.
RunsGiven(s, b) ==
    \A i \in DOMAIN s : s[i].action = "run" => Given(s, i - 1, b, s[i].addrs)

\* Given looks at the first n messages only.
LEMMA GivenSame ==
    ASSUME NEW s, NEW t, NEW n \in Nat, NEW b, NEW a, \A k \in 1 .. n : s[k] = t[k],
           Given(s, n, b, a)
    PROVE  Given(t, n, b, a)
<1>1. CASE a = b /\ \A k \in 1 .. n : s[k].action # "setBreakpoints"
  BY <1>1 DEF Given
<1>2. ASSUME NEW k \in 1 .. n, s[k].action = "setBreakpoints", s[k].addrs = a,
             \A j \in k + 1 .. n : s[j].action # "setBreakpoints"
      PROVE  Given(t, n, b, a)
  <2>1. \A j \in k + 1 .. n : j \in 1 .. n
    OBVIOUS
  <2> QED
    BY <1>2, <2>1 DEF Given
<1> QED
  BY <1>1, <1>2 DEF Given

\* Messages that set no breakpoints change none.
LEMMA GivenPast ==
    ASSUME NEW s, NEW n \in Nat, NEW m \in Nat, n <= m, NEW b, NEW a,
           \A k \in n + 1 .. m : s[k].action # "setBreakpoints",
           Given(s, n, b, a)
    PROVE  Given(s, m, b, a)
<1>1. CASE a = b /\ \A k \in 1 .. n : s[k].action # "setBreakpoints"
  <2>1. \A k \in 1 .. m : k \in 1 .. n \/ k \in n + 1 .. m
    OBVIOUS
  <2> QED
    BY <1>1, <2>1 DEF Given
<1>2. ASSUME NEW k \in 1 .. n, s[k].action = "setBreakpoints", s[k].addrs = a,
             \A j \in k + 1 .. n : s[j].action # "setBreakpoints"
      PROVE  Given(s, m, b, a)
  <2>1. k \in 1 .. m /\ \A j \in k + 1 .. m : j \in k + 1 .. n \/ j \in n + 1 .. m
    OBVIOUS
  <2> QED
    BY <1>2, <2>1 DEF Given
<1> QED
  BY <1>1, <1>2 DEF Given

\* What the target takes from the front becomes what it has.
LEMMA GivenTaken ==
    ASSUME NEW s \in Seq(Message), s # <<>>, NEW n \in 1 .. Len(s), NEW b, NEW a,
           Given(s, n, b, a)
    PROVE  Given(Tail(s), n - 1,
                 IF Head(s).action = "setBreakpoints" THEN Head(s).addrs ELSE b, a)
<1> DEFINE t == Tail(s)
<1>1. /\ Len(s) \in Nat /\ Head(s) = s[1] /\ n \in Nat \ {0} /\ 1 \in 1 .. n
      /\ \A k \in 1 .. n - 1 : k + 1 \in 1 .. n /\ t[k] = s[k + 1]
  BY HeadTailProperties, LenProperties
<1> HIDE DEF t
<1>2. CASE a = b /\ \A k \in 1 .. n : s[k].action # "setBreakpoints"
  BY <1>1, <1>2 DEF Given, t
<1>3. ASSUME NEW k \in 1 .. n, s[k].action = "setBreakpoints", s[k].addrs = a,
             \A j \in k + 1 .. n : s[j].action # "setBreakpoints"
      PROVE  Given(t, n - 1, IF Head(s).action = "setBreakpoints" THEN Head(s).addrs ELSE b, a)
  <2>1. \A j \in k .. n - 1 : j + 1 \in k + 1 .. n /\ j \in 1 .. n - 1
    OBVIOUS
  <2>2. \A j \in k .. n - 1 : t[j].action # "setBreakpoints"
    BY <1>1, <1>3, <2>1
  <2>3. CASE k = 1
    BY <1>1, <1>3, <2>2, <2>3 DEF Given
  <2>4. CASE k # 1
    <3>1. k - 1 \in 1 .. n - 1 /\ (k - 1) + 1 = k
      BY <2>4
    <3>2. t[k - 1] = s[k]
      BY <1>1, <3>1
    <3> QED
      BY <1>3, <2>2, <3>1, <3>2 DEF Given
  <2> QED
    BY <2>3, <2>4
<1> QED
  BY <1>2, <1>3 DEF Given, t

\* A stream goes on with messages that are no RUN.
LEMMA RunsGivenEnd ==
    ASSUME NEW s \in Seq(Message), NEW t \in Seq(Message), NEW b,
           RunsGiven(s, b), ~HasRun(t)
    PROVE  RunsGiven(s \o t, b)
<1> DEFINE u == s \o t
<1>1. /\ DOMAIN s = 1 .. Len(s) /\ DOMAIN t = 1 .. Len(t) /\ Len(s) \in Nat /\ Len(t) \in Nat
      /\ DOMAIN u = 1 .. Len(s) + Len(t)
      /\ \A i \in DOMAIN u : u[i] = IF i <= Len(s) THEN s[i] ELSE t[i - Len(s)]
  BY ConcatProperties, LenProperties
<1> HIDE DEF u
<1> SUFFICES ASSUME NEW i \in DOMAIN u, u[i].action = "run"
             PROVE  Given(u, i - 1, b, u[i].addrs)
  BY DEF RunsGiven, u
<1>2. i \in DOMAIN s
  <2> SUFFICES ASSUME i \notin DOMAIN s PROVE FALSE
    OBVIOUS
  <2>1. i - Len(s) \in DOMAIN t /\ u[i] = t[i - Len(s)]
    BY <1>1
  <2> QED
    BY <2>1 DEF HasRun
<1>3. u[i] = s[i] /\ i - 1 \in Nat /\ \A k \in 1 .. i - 1 : s[k] = u[k]
  BY <1>1, <1>2
<1>4. Given(s, i - 1, b, s[i].addrs)
  BY <1>2, <1>3 DEF RunsGiven
<1> QED
  BY <1>3, <1>4, GivenSame

\* A stream goes on with one message.
LEMMA GivenEnd ==
    ASSUME NEW s \in Seq(Message), NEW m \in Message, NEW b, NEW a
    PROVE  /\ m.action = "setBreakpoints" => Given(s \o <<m>>, Len(s) + 1, b, m.addrs)
           /\ m.action # "setBreakpoints" /\ Given(s, Len(s), b, a)
                => Given(s \o <<m>>, Len(s) + 1, b, a)
           /\ m.action = "run" /\ RunsGiven(s, b) /\ Given(s, Len(s), b, m.addrs)
                => RunsGiven(s \o <<m>>, b)
<1> DEFINE u == s \o <<m>>
           n == Len(s)
<1>1. /\ n \in Nat /\ DOMAIN s = 1 .. n /\ DOMAIN u = 1 .. n + 1
      /\ \A i \in 1 .. n : u[i] = s[i] /\ s[i] = u[i]
      /\ u[n + 1] = m
  BY LenProperties
<1> HIDE DEF u, n
<1>2. m.action = "setBreakpoints" => Given(u, n + 1, b, m.addrs)
  BY <1>1 DEF Given
<1>3. \A c : Given(s, n, b, c) => Given(u, n, b, c)
  BY <1>1, GivenSame
<1>4. m.action # "setBreakpoints" /\ Given(s, n, b, a) => Given(u, n + 1, b, a)
  <2>1. n + 1 \in Nat /\ n <= n + 1 /\ \A k \in n + 1 .. n + 1 : u[k] = m
    BY <1>1
  <2> QED
    BY <1>1, <1>3, <2>1, GivenPast
<1>5. ASSUME m.action = "run", RunsGiven(s, b), Given(s, n, b, m.addrs)
      PROVE  RunsGiven(u, b)
  <2> SUFFICES ASSUME NEW i \in DOMAIN u, u[i].action = "run"
               PROVE  Given(u, i - 1, b, u[i].addrs)
    BY DEF RunsGiven
  <2>1. CASE i \in DOMAIN s
    <3>1. i - 1 \in Nat /\ u[i] = s[i] /\ \A k \in 1 .. i - 1 : s[k] = u[k]
      BY <1>1, <2>1
    <3>2. Given(s, i - 1, b, s[i].addrs)
      BY <1>5, <2>1, <3>1 DEF RunsGiven
    <3> QED
      BY <3>1, <3>2, GivenSame
  <2>2. CASE i \notin DOMAIN s
    <3>1. i = n + 1 /\ i - 1 = n
      BY <1>1, <2>2
    <3> QED
      BY <1>1, <1>3, <1>5, <3>1
  <2> QED
    BY <2>1, <2>2
<1> QED
  BY <1>2, <1>4, <1>5 DEF u, n

\* A stream goes on with messages that set no breakpoints.
LEMMA GivenOver ==
    ASSUME NEW s \in Seq(Message), NEW t \in Seq(Message), NEW b, NEW a,
           \A i \in DOMAIN t : t[i].action # "setBreakpoints",
           Given(s, Len(s), b, a)
    PROVE  Given(s \o t, Len(s \o t), b, a)
<1> DEFINE u == s \o t
           n == Len(s)
           m == Len(u)
<1>1. /\ n \in Nat /\ Len(t) \in Nat /\ DOMAIN t = 1 .. Len(t) /\ m = n + Len(t)
      /\ \A i \in 1 .. n + Len(t) : u[i] = IF i <= n THEN s[i] ELSE t[i - n]
  BY ConcatProperties, LenProperties
<1> HIDE DEF u, m, n
<1>2. m \in Nat /\ n <= m /\ \A k \in 1 .. n : s[k] = u[k]
  BY <1>1
<1>3. ASSUME NEW k \in n + 1 .. m PROVE u[k].action # "setBreakpoints"
  <2>1. k \in 1 .. n + Len(t) /\ ~(k <= n) /\ k - n \in DOMAIN t
    BY <1>1
  <2> QED
    BY <1>1, <2>1
<1>4. Given(u, n, b, a)
  BY <1>1, <1>2, GivenSame DEF n
<1> QED
  BY <1>1, <1>2, <1>3, <1>4, GivenPast DEF u, m

\* A RUN at the front of the stream finds its breakpoints set.
LEMMA RunsGivenFront ==
    ASSUME NEW s \in Seq(Message), s # <<>>, NEW b, RunsGiven(s, b)
    PROVE  /\ RunsGiven(Tail(s), IF Head(s).action = "setBreakpoints" THEN Head(s).addrs ELSE b)
           /\ Head(s).action = "run" => Head(s).addrs = b
<1> DEFINE t == Tail(s)
           d == IF Head(s).action = "setBreakpoints" THEN Head(s).addrs ELSE b
<1>1. /\ Len(s) \in Nat /\ DOMAIN s = 1 .. Len(s) /\ DOMAIN t = 1 .. Len(s) - 1
      /\ Head(s) = s[1] /\ 1 \in DOMAIN s
      /\ \A i \in DOMAIN t : t[i] = s[i + 1]
  BY HeadTailProperties, LenProperties, EmptySeq
<1>2. RunsGiven(t, d)
  <2> SUFFICES ASSUME NEW i \in DOMAIN t, t[i].action = "run"
               PROVE  Given(t, i - 1, d, t[i].addrs)
    BY DEF RunsGiven
  <2>1. i \in 1 .. Len(s) /\ i + 1 \in DOMAIN s /\ t[i] = s[i + 1] /\ (i + 1) - 1 = i
    BY <1>1
  <2>2. Given(s, i, b, t[i].addrs)
    BY <2>1 DEF RunsGiven
  <2> QED
    BY <2>1, <2>2, GivenTaken
<1>3. Head(s).action = "run" => Head(s).addrs = b
  BY <1>1 DEF RunsGiven, Given
<1> QED
  BY <1>2, <1>3

--------------------------------------------------------------------------------
(* What is sent and what is answered.                                           *)

Answer == {Target!Response(m) : m \in Message} \cup {Target!Event(r) : r \in Target!Reasons}

Actions == {"init", "setLineLocations", "setBreakpoints", "reset", "load", "run",
            "pause", "getRegisters", "getMemory"}

\* The messages of the runtime are messages of the contract.
LEMMA Messages ==
    /\ \A a \in Actions : M(a) \in Message /\ M(a).action = a /\ <<M(a)>> \in Seq(Message)
    /\ \A a \in SUBSET Addr :
        /\ SetBreakpoints(a) \in Message /\ <<SetBreakpoints(a)>> \in Seq(Message)
        /\ SetBreakpoints(a).action = "setBreakpoints" /\ SetBreakpoints(a).addrs = a
        /\ [M("setLineLocations") EXCEPT !.addrs = a] \in Message
        /\ [M("setLineLocations") EXCEPT !.addrs = a].action = "setLineLocations"
<1>1. \A a \in Actions : M(a) \in Message /\ M(a).action = a
  BY DEF M, Message, Actions
<1>2. \A a \in SUBSET Addr :
        /\ SetBreakpoints(a) \in Message
        /\ SetBreakpoints(a).action = "setBreakpoints" /\ SetBreakpoints(a).addrs = a
        /\ [M("setLineLocations") EXCEPT !.addrs = a] \in Message
        /\ [M("setLineLocations") EXCEPT !.addrs = a].action = "setLineLocations"
  BY DEF SetBreakpoints, M, Message
<1> QED
  BY <1>1, <1>2

\* So is a RUN, and it carries the breakpoints of the session.
LEMMA RunMessage ==
    ASSUME breakpointLocations \subseteq Addr, NEW c \in {RunConds, RunConds \cup {"line"}}
    PROVE  /\ Run(c) \in Message /\ <<Run(c)>> \in Seq(Message)
           /\ Run(c).action = "run" /\ Run(c).addrs = breakpointLocations
  BY DEF Run, Message

\* send() appends to the stream while the socket is open, to the buffer before.
LEMMA SendStream ==
    ASSUME TypeOK, NEW t \in Seq(Message), Send(t), requests' = requests
    PROVE  /\ uplink' \in Seq(Message) /\ buffered' \in Seq(Message)
           /\ Underway \in Seq(Message) /\ Underway' \in Seq(Message)
           /\ ws = "open" => Underway' = Underway \o t /\ buffered' = buffered
           /\ ws # "open" => Underway' = Underway /\ uplink' = uplink /\ buffered' = buffered \o t
<1>1. requests \in Seq(Message) /\ uplink \in Seq(Message) /\ buffered \in Seq(Message)
  BY DEF TypeOK
<1>2. CASE ws = "open"
  <2>1. uplink' = uplink \o t /\ buffered' = buffered
    BY <1>2 DEF Send
  <2>2. (requests \o uplink) \o t = requests \o (uplink \o t)
    BY <1>1, ConcatAssociative
  <2> QED
    BY <1>1, <1>2, <2>1, <2>2, ConcatProperties DEF Underway
<1>3. CASE ws # "open"
  BY <1>1, <1>3, ConcatProperties DEF Send, Underway
<1> QED
  BY <1>2, <1>3

\* The target takes the first message of the stream.
LEMMA TakeStream ==
    ASSUME TypeOK, requests # <<>>, requests' = Tail(requests), uplink' = uplink
    PROVE  /\ requests' \in Seq(Message) /\ Head(requests) \in Message
           /\ Underway \in Seq(Message) /\ Underway # <<>>
           /\ Head(Underway) = Head(requests) /\ Underway' = Tail(Underway)
<1> DEFINE r == requests
           t == uplink
<1>1. r \in Seq(Message) /\ t \in Seq(Message)
  BY DEF TypeOK
<1>2. r' \in Seq(Message) /\ Head(r) \in Message /\ r = <<Head(r)>> \o r'
  <2>1. /\ Tail(r) \in Seq(Message) /\ Head(r) \in Message /\ Head(r) = r[1]
        /\ Len(Tail(r)) = Len(r) - 1 /\ Len(r) \in Nat
        /\ \A i \in 1 .. Len(Tail(r)) : Tail(r)[i] = r[i + 1]
    BY <1>1, HeadTailProperties, LenProperties
  <2> DEFINE u == <<Head(r)>> \o Tail(r)
  <2>2. /\ u \in Seq(Message) /\ Len(u) = Len(r)
        /\ \A i \in 1 .. Len(r) : u[i] = IF i <= 1 THEN Head(r) ELSE Tail(r)[i - 1]
    BY <2>1, ConcatProperties
  <2>3. \A i \in 1 .. Len(r) : u[i] = r[i]
    BY <2>1, <2>2
  <2>4. u = r
    BY <1>1, <2>2, <2>3, SeqEqual
  <2> QED
    BY <2>1, <2>4
<1>3. Underway = <<Head(r)>> \o Underway'
  BY <1>1, <1>2, ConcatAssociative DEF Underway
<1>4. Underway' \in Seq(Message)
  BY <1>1, <1>2, ConcatProperties DEF Underway
<1> HIDE DEF r, t
<1>5. \A h \in Message : \A u \in Seq(Message) :
        /\ <<h>> \o u \in Seq(Message) /\ <<h>> \o u # <<>>
        /\ Head(<<h>> \o u) = h /\ Tail(<<h>> \o u) = u
  OBVIOUS
<1> QED
  BY <1>2, <1>3, <1>4, <1>5 DEF r

\* A message that arrives stays where it is in the stream.
LEMMA AcceptStream ==
    ASSUME TypeOK, uplink # <<>>, uplink' = Tail(uplink), requests' = Append(requests, Head(uplink))
    PROVE  /\ requests' \in Seq(Message) /\ uplink' \in Seq(Message)
           /\ Underway' = Underway
<1>1. requests \in Seq(Message) /\ uplink \in Seq(Message)
  BY DEF TypeOK
<1>2. \A s \in Seq(Message) : s # <<>> =>
        Head(s) \in Message /\ Tail(s) \in Seq(Message) /\ s = <<Head(s)>> \o Tail(s)
  OBVIOUS
<1>3. requests' = requests \o <<Head(uplink)>>
  BY <1>1, <1>2, AppendIsConcat
<1> QED
  BY <1>1, <1>2, <1>3, ConcatAssociative, ConcatProperties, AppendProperties DEF Underway

--------------------------------------------------------------------------------
(* The replies, of which those after read are still to be handled.              *)

Unread == read + 1 .. Len(replies)
EventUnread == \E e \in Unread : replies[e].kind = "event"

HistoriesOK == replies \in Seq(Answer) /\ begunAt \in Seq(Nat)

\* The answers and events of the contract have their kinds.
LEMMA Answers ==
    /\ \A m \in Message : Target!Response(m) \in Answer /\ Target!Response(m).kind = "response"
    /\ \A r \in Target!Reasons : Target!Event(r) \in Answer /\ Target!Event(r).kind = "event"
<1>1. \A m \in Message : Target!Response(m).kind = "response"
  BY DEF Target!Response
<1>2. \A r \in Target!Reasons : Target!Event(r).kind = "event"
  BY DEF Target!Event
<1> QED
  BY <1>1, <1>2, Zenon DEF Answer

\* The session reads the oldest reply it has not read.
LEMMA ReadOn ==
    ASSUME TypeOK, HistoriesOK, read < Len(replies), read' = read + 1, replies' = replies
    PROVE  /\ read' \in 0 .. Len(replies')
           /\ read' \in Unread /\ Unread' = Unread \ {read'}
           /\ \A i \in Unread : i \in Nat /\ read' <= i
<1>1. read \in Nat /\ Len(replies) \in Nat
  BY LenProperties DEF TypeOK, HistoriesOK
<1> QED
  BY <1>1 DEF Unread

\* One reply more.
LEMMA Replied ==
    ASSUME TypeOK, HistoriesOK, read' = read, NEW a \in Answer, NEW n \in Nat,
           replies' = Append(replies, a), begunAt' = Append(begunAt, n)
    PROVE  LET last == Len(replies) + 1 IN
           /\ HistoriesOK' /\ Len(begunAt') = Len(replies') /\ read' \in 0 .. Len(replies')
           /\ Len(replies') = last /\ last \notin Unread /\ Unread' = Unread \cup {last}
           /\ replies'[last] = a /\ begunAt'[last] = n
           /\ \A i \in Unread : /\ replies'[i] = replies[i] /\ begunAt'[i] = begunAt[i]
                                /\ i \in Nat /\ i < last
<1> DEFINE k == Len(replies)
<1>1. read \in Nat /\ k \in Nat /\ read <= k /\ Len(begunAt) = k
  BY LenProperties DEF TypeOK, HistoriesOK
<1>2. /\ replies' \in Seq(Answer) /\ Len(replies') = k + 1
      /\ \A i \in 1 .. k : replies'[i] = replies[i]
      /\ replies'[k + 1] = a
  BY AppendProperties DEF HistoriesOK
<1>3. /\ begunAt' \in Seq(Nat) /\ Len(begunAt') = k + 1
      /\ \A i \in 1 .. k : begunAt'[i] = begunAt[i]
      /\ begunAt'[k + 1] = n
  BY <1>1, AppendProperties DEF HistoriesOK
<1> HIDE DEF k
<1>4. Unread = read + 1 .. k /\ Unread' = read + 1 .. k + 1
  BY <1>2 DEF Unread, k
<1>5. \A i \in Unread : i \in 1 .. k /\ i \in Nat /\ i < k + 1
  BY <1>1, <1>4
<1>6. k + 1 \notin Unread /\ Unread' = Unread \cup {k + 1} /\ read' \in 0 .. k + 1
  BY <1>1, <1>4
<1> QED
  BY <1>2, <1>3, <1>5, <1>6 DEF HistoriesOK, k

\* A stop adds its event and its response to the replies.
LEMMA TwoMore ==
    ASSUME NEW S, NEW s \in Seq(S), NEW a \in S, NEW b \in S
    PROVE  LET t == s \o <<a, b>>
               k == Len(s) IN
           /\ t \in Seq(S) /\ Len(t) = k + 2 /\ t[k + 1] = a /\ t[k + 2] = b
           /\ \A i \in 1 .. k : t[i] = s[i]
<1> DEFINE t == s \o <<a, b>>
           k == Len(s)
<1>1. k \in Nat /\ <<a, b>> \in Seq(S) /\ Len(<<a, b>>) = 2 /\ <<a, b>>[1] = a /\ <<a, b>>[2] = b
  BY LenProperties
<1>2. /\ t \in Seq(S) /\ Len(t) = k + 2
      /\ \A i \in 1 .. k + 2 : t[i] = IF i <= k THEN s[i] ELSE <<a, b>>[i - k]
  BY <1>1, ConcatProperties
<1> HIDE DEF k, t
<1>3. k + 1 \in 1 .. k + 2 /\ ~(k + 1 <= k) /\ (k + 1) - k = 1
  BY <1>1
<1>4. k + 2 \in 1 .. k + 2 /\ ~(k + 2 <= k) /\ (k + 2) - k = 2
  BY <1>1
<1>5. t[k + 1] = a /\ t[k + 2] = b
  BY <1>1, <1>2, <1>3, <1>4, Zenon
<1>6. \A i \in 1 .. k : i \in 1 .. k + 2 /\ i <= k
  BY <1>1
<1> QED
  BY <1>2, <1>5, <1>6 DEF k, t

\* Two more.
LEMMA RepliedTwice ==
    ASSUME TypeOK, HistoriesOK, read' = read, NEW a \in Answer, NEW b \in Answer, NEW n \in Nat,
           replies' = replies \o <<a, b>>, begunAt' = begunAt \o <<n, n>>
    PROVE  LET last == Len(replies) + 1 IN
           /\ HistoriesOK' /\ Len(begunAt') = Len(replies') /\ read' \in 0 .. Len(replies')
           /\ Len(replies') = last + 1 /\ Unread' = Unread \cup {last, last + 1}
           /\ last \notin Unread /\ last + 1 \notin Unread
           /\ replies'[last] = a /\ replies'[last + 1] = b
           /\ begunAt'[last] = n /\ begunAt'[last + 1] = n
           /\ \A i \in Unread : /\ replies'[i] = replies[i] /\ begunAt'[i] = begunAt[i]
                                /\ i \in Nat /\ i < last
<1> DEFINE k == Len(replies)
<1>1. read \in Nat /\ k \in Nat /\ read <= k /\ Len(begunAt) = k
  BY LenProperties DEF TypeOK, HistoriesOK
<1>2. /\ replies' \in Seq(Answer) /\ Len(replies') = k + 2
      /\ \A i \in 1 .. k : replies'[i] = replies[i]
      /\ replies'[k + 1] = a /\ replies'[k + 2] = b
  BY TwoMore DEF HistoriesOK
<1>3. /\ begunAt' \in Seq(Nat) /\ Len(begunAt') = k + 2
      /\ \A i \in 1 .. k : begunAt'[i] = begunAt[i]
      /\ begunAt'[k + 1] = n /\ begunAt'[k + 2] = n
  <2>1. begunAt \in Seq(Nat) /\ k = Len(begunAt)
    BY <1>1 DEF HistoriesOK
  <2> HIDE DEF k
  <2> QED
    BY <2>1, TwoMore
<1> HIDE DEF k
<1>4. Unread = read + 1 .. k /\ Unread' = read + 1 .. k + 2
  BY <1>2 DEF Unread, k
<1>5. \A i \in Unread : i \in 1 .. k /\ i \in Nat /\ i < k + 1
  BY <1>1, <1>4
<1>6. /\ Unread' = Unread \cup {k + 1, k + 2} /\ read' \in 0 .. k + 2
      /\ k + 1 \notin Unread /\ k + 2 \notin Unread /\ (k + 1) + 1 = k + 2
  BY <1>1, <1>4
<1> QED
  BY <1>2, <1>3, <1>5, <1>6 DEF HistoriesOK, k

--------------------------------------------------------------------------------
(* Most of what the extension does sends no run.                                *)

Sent(t) ==
    /\ t \in Seq(Message) /\ uplink' \in Seq(Message) /\ buffered' \in Seq(Message)
    /\ Underway \in Seq(Message) /\ Underway' \in Seq(Message)
    /\ ws = "open" => Underway' = Underway \o t /\ buffered' = buffered
    /\ ws # "open" => Underway' = Underway /\ uplink' = uplink /\ buffered' = buffered \o t

NoRunSent ==
    /\ uplink' \in Seq(Message) /\ buffered' \in Seq(Message)
    /\ UNCHANGED <<requests, replies, current, pausing, gone, targetBreakpoints, begun, begunAt, runs>>
    /\ HasRun(Underway') <=> HasRun(Underway)
    /\ SingleRun(Underway) => SingleRun(Underway')
    /\ HasRun(buffered') => HasRun(buffered)
    /\ HasTrace(Underway) => HasTrace(Underway')
    /\ \/ StackTraceRequest
       \/ /\ HasTrace(Underway') => HasTrace(Underway)
          /\ TracesFirst(Underway) => TracesFirst(Underway')

Speaking ==
    \/ Initialize \/ LoadImage \/ SetBreakPointsRequest \/ PauseRequest
    \/ StackTraceRequest \/ DisconnectRequest \/ OnLoaded

Silent ==
    \/ Launch \/ EmulatorDelay \/ LaunchRefused \/ DebugInfoFails \/ Lost \/ Timeout
    \/ OnLoadFailed \/ OnRegisters \/ OnOtherResponse \/ OnStopped

\* Nothing sent is the empty stream sent.
LEMMA SentNothing ==
    ASSUME TypeOK, UNCHANGED <<uplink, buffered, requests>>
    PROVE  Sent(<<>>)
BY ConcatProperties, ConcatEmptySeq, EmptySeq DEF Sent, TypeOK, Underway

\* What the speaking actions send.
LEMMA Speech ==
    ASSUME TypeOK, Speaking
    PROVE  /\ UNCHANGED <<targetVars, runs>>
           /\ \E t \in Seq(Message) :
                /\ Sent(t) /\ \A i \in DOMAIN t : t[i].action # "run"
                /\ StackTraceRequest \/ \A i \in DOMAIN t : t[i].action # "getRegisters"
<1> DEFINE Quiet(t) == /\ t \in Seq(Message) /\ \A i \in DOMAIN t : t[i].action # "run"
                       /\ StackTraceRequest \/ \A i \in DOMAIN t : t[i].action # "getRegisters"
<1>0. \A t \in Seq(Message) : Send(t) /\ requests' = requests => Sent(t)
  BY SendStream DEF Sent
<1>1. Quiet(<<>>)
  OBVIOUS
<1>2. \A m \in Message : m.action \notin {"run", "getRegisters"} => Quiet(<<m>>)
  OBVIOUS
<1>3. CASE Initialize
  <2> DEFINE t == <<M("init"), M("setLineLocations"), SetBreakpoints({}), M("reset")>>
  <2>1. /\ M("init") \in Message /\ M("init").action = "init"
        /\ M("setLineLocations") \in Message /\ M("setLineLocations").action = "setLineLocations"
        /\ SetBreakpoints({}) \in Message /\ SetBreakpoints({}).action = "setBreakpoints"
        /\ M("reset") \in Message /\ M("reset").action = "reset"
    BY Messages DEF Actions
  <2>2. Quiet(t)
    BY <2>1
  <2> QED
    BY <1>0, <1>3, <2>2 DEF Initialize, targetVars
<1>4. CASE LoadImage
  BY <1>0, <1>2, <1>4, Messages DEF LoadImage, targetVars, Actions
<1>5. CASE SetBreakPointsRequest
  <2>1. UNCHANGED <<targetVars, runs>>
    BY <1>5 DEF SetBreakPointsRequest
  <2>2. PICK a \in SUBSET Addr : \/ Send(<<SetBreakpoints(a)>>)
                                \/ UNCHANGED <<uplink, buffered>>
    BY <1>5 DEF SetBreakPointsRequest
  <2>3. CASE Send(<<SetBreakpoints(a)>>)
    <3>1. SetBreakpoints(a) \in Message /\ SetBreakpoints(a).action = "setBreakpoints"
      BY Messages
    <3>2. Quiet(<<SetBreakpoints(a)>>)
      BY <1>2, <3>1
    <3>3. Sent(<<SetBreakpoints(a)>>)
      BY <1>0, <2>1, <2>3, <3>2 DEF targetVars
    <3> QED
      BY <2>1, <3>2, <3>3
  <2>4. CASE UNCHANGED <<uplink, buffered>>
    <3>1. requests' = requests
      BY <2>1 DEF targetVars
    <3>2. Sent(<<>>)
      BY <2>4, <3>1, SentNothing
    <3> QED
      BY <1>1, <2>1, <3>2
  <2> QED
    BY <2>2, <2>3, <2>4
<1>6. CASE PauseRequest
  BY <1>0, <1>2, <1>6, Messages DEF PauseRequest, targetVars, Actions
<1>7. CASE StackTraceRequest
  <2>1. /\ M("getRegisters") \in Message /\ M("getRegisters").action # "run"
        /\ M("getMemory") \in Message /\ M("getMemory").action # "run"
    BY Messages DEF Actions
  <2>2. Quiet(<<M("getRegisters"), M("getMemory")>>)
    BY <1>7, <2>1
  <2> QED
    BY <1>0, <1>7, <2>2 DEF StackTraceRequest, targetVars
<1>8. CASE DisconnectRequest
  BY <1>0, <1>1, <1>2, <1>8, Messages, SentNothing DEF DisconnectRequest, targetVars, Actions
<1>9. CASE OnLoaded
  <2> DEFINE m == [M("setLineLocations") EXCEPT !.addrs = Addr]
  <2>1. m \in Message /\ m.action = "setLineLocations"
    BY Messages
  <2>2. Send(<<m>>) /\ UNCHANGED <<targetVars, runs>>
    BY <1>9 DEF OnLoaded
  <2> HIDE DEF m
  <2> QED
    BY <1>0, <1>2, <2>1, <2>2 DEF targetVars
<1> QED
  BY <1>3, <1>4, <1>5, <1>6, <1>7, <1>8, <1>9 DEF Speaking

\* Two actions send one.
LEMMA RunSpeech ==
    ASSUME TypeOK, ConfigurationDoneRequest \/ Resume
    PROVE  \E t \in Seq(Message) : Sent(t) /\ SingleRun(t) /\ HasRun(t) /\ ~HasTrace(t)
<1>1. requests' = requests
  BY DEF ConfigurationDoneRequest, Resume, targetVars
<1>2. CASE ConfigurationDoneRequest
  <2> DEFINE m == SetBreakpoints(breakpointLocations)
             c == Run(RunConds)
  <2>1. /\ m \in Message /\ m.action = "setBreakpoints"
        /\ c \in Message /\ c.action = "run"
    BY Messages, RunMessage DEF TypeOK
  <2>2. Send(<<m, c>>)
    BY <1>2 DEF ConfigurationDoneRequest
  <2> HIDE DEF m, c
  <2>3. <<m, c>> \in Seq(Message) /\ SingleRun(<<m, c>>) /\ HasRun(<<m, c>>) /\ ~HasTrace(<<m, c>>)
    BY <2>1 DEF SingleRun, HasRun, HasTrace
  <2> QED
    BY <1>1, <2>2, <2>3, SendStream DEF Sent
<1>3. CASE Resume
  <2>1. PICK c \in {RunConds, RunConds \cup {"line"}} : Send(<<Run(c)>>)
    BY <1>3 DEF Resume
  <2>2. <<Run(c)>> \in Seq(Message) /\ Run(c).action = "run"
    BY RunMessage DEF TypeOK
  <2>3. SingleRun(<<Run(c)>>) /\ HasRun(<<Run(c)>>) /\ ~HasTrace(<<Run(c)>>)
    BY <2>2 DEF SingleRun, HasRun, HasTrace
  <2> QED
    BY <1>1, <2>1, <2>2, <2>3, SendStream DEF Sent
<1> QED
  BY <1>2, <1>3

\* The actions that are no resumption send no RUN.
LEMMA Quietly ==
    ASSUME TypeOK, Speaking \/ Silent
    PROVE  NoRunSent
<1>1. CASE Speaking
  <2>1. PICK t \in Seq(Message) :
            /\ Sent(t) /\ \A i \in DOMAIN t : t[i].action # "run"
            /\ StackTraceRequest \/ \A i \in DOMAIN t : t[i].action # "getRegisters"
    BY <1>1, Speech
  <2>2. ~HasRun(t) /\ SingleRun(t) /\ (StackTraceRequest \/ ~HasTrace(t))
    BY <2>1 DEF HasRun, SingleRun, HasTrace
  <2>3. buffered \in Seq(Message)
    BY DEF TypeOK
  <2>4. UNCHANGED <<requests, replies, current, pausing, gone, targetBreakpoints, begun, begunAt, runs>>
    BY <1>1, Speech DEF targetVars
  <2>5. CASE ws = "open"
    <3>1. Underway' = Underway \o t /\ buffered' = buffered /\ Underway \in Seq(Message)
      BY <2>1, <2>5 DEF Sent
    <3>2. /\ HasRun(Underway \o t) <=> HasRun(Underway)
          /\ SingleRun(Underway) => SingleRun(Underway \o t)
          /\ HasTrace(Underway) => HasTrace(Underway \o t)
      BY <2>2, <3>1, StreamEnd
    <3>3. \/ StackTraceRequest
          \/ /\ HasTrace(Underway \o t) => HasTrace(Underway)
             /\ TracesFirst(Underway) => TracesFirst(Underway \o t)
      BY <2>2, <3>1, StreamEnd
    <3> QED
      BY <2>1, <2>4, <3>1, <3>2, <3>3 DEF Sent, NoRunSent
  <2>6. CASE ws # "open"
    <3>1. Underway' = Underway /\ buffered' = buffered \o t
      BY <2>1, <2>6 DEF Sent
    <3>2. HasRun(buffered \o t) => HasRun(buffered)
      BY <2>2, <2>3, StreamEnd
    <3> QED
      BY <2>1, <2>4, <3>1, <3>2 DEF Sent, NoRunSent
  <2> QED
    BY <2>5, <2>6
<1>2. CASE Silent
  <2>1. UNCHANGED <<uplink, buffered, targetVars, runs>>
    BY <1>2 DEF Silent, Launch, EmulatorDelay, LaunchRefused, DebugInfoFails, Lost, Timeout, OnLoadFailed,
                OnRegisters, OnOtherResponse, OnStopped, Incoming, targetVars
  <2> QED
    BY <2>1 DEF NoRunSent, TypeOK, targetVars, Underway
<1> QED
  BY <1>1, <1>2

--------------------------------------------------------------------------------
(* One run at a time.                                                           *)

\* Before the socket is open nothing has been said to the target.
Launching ==
    /\ ws \in {"none", "connecting"} =>
        /\ ui \in {"launching", "terminated", "disconnected"} /\ ~isConfigured
        /\ ~HasRun(buffered)
        /\ uplink = <<>> /\ requests = <<>> /\ replies = <<>> /\ current = Null
        /\ traces = {} /\ begun = runs
    /\ phase \in {"called", "starting"} => ws = "none"
    /\ ws = "none" => phase \in {"called", "starting", "failed"}
    /\ isConfigured \/ ui \in {"configuring", "running", "stopped"} => phase = "launched"
    /\ ui \in {"running", "stopped"} => isConfigured

\* A run on its way, a run that goes on and an unread stop event exclude each
\* other, and while the editor waits for none of them there is none.
OneRun ==
    /\ SingleRun(Underway)
    /\ \A i, j \in Unread : replies[i].kind = "event" /\ replies[j].kind = "event" => i = j
    /\ current # Null \/ EventUnread => ~HasRun(Underway)
    /\ current # Null => ~EventUnread
    /\ ui \in {"launching", "configuring", "stopped"}
        => current = Null /\ ~HasRun(Underway) /\ ~EventUnread
    /\ HasRun(Underway) => begun < runs

Inv == TypeOK /\ HistoriesOK /\ Launching /\ OneRun

\* Before the launch nothing is under way.
LEMMA InvInit == Init => Inv
<1> SUFFICES ASSUME Init PROVE Inv
  OBVIOUS
<1>1. requests = <<>> /\ uplink = <<>> /\ replies = <<>> /\ current = Null /\ Underway = <<>>
  BY DEF Init, Target!Init, Underway
<1>2. ~HasRun(<<>>) /\ SingleRun(<<>>) /\ ~EventUnread
  BY <1>1 DEF HasRun, SingleRun, EventUnread, Unread, Init
<1>3. TypeOK /\ HistoriesOK
  <2>1. 0 \in 0 .. MaxRequests /\ 0 \in 0 .. 0 /\ Len(<<>>) = 0
    BY SessionAssumption
  <2>2. <<>> \in Seq(Message) /\ <<>> \in Seq(Answer) /\ <<>> \in Seq(Nat)
    OBVIOUS
  <2> QED
    BY <1>1, <2>1, <2>2 DEF Init, Target!Init, TypeOK, HistoriesOK
<1>4. Launching
  BY <1>1, <1>2 DEF Init, Launching
<1>5. Unread = {}
  BY <1>1 DEF Unread, Init
<1>6. OneRun
  BY <1>1, <1>2, <1>5 DEF OneRun
<1> QED
  BY <1>3, <1>4, <1>6 DEF Inv

\* One step at a time the launch goes on in its order.
LEMMA LaunchingStep == ASSUME Inv, [Next]_vars PROVE Launching'
<1> USE DEF Inv, Launching
<1>1. CASE Speaking \/ Silent
  <2> DEFINE Before == ws \in {"none", "connecting"}
  <2>1. NoRunSent
    BY <1>1, Quietly
  <2>2. Before => /\ ~HasRun(buffered') /\ begun' = runs'
                  /\ requests' = <<>> /\ replies' = <<>> /\ current' = Null
    BY <2>1 DEF NoRunSent
  <2>3. ASSUME Speaking PROVE Before /\ ws' \in {"none", "connecting"} => uplink' = <<>>
    <3>1. CASE Before
      <4>1. \A t : Send(t) => uplink' = uplink
        BY <3>1 DEF Send
      <4> QED
        BY <2>3, <3>1, <4>1 DEF Speaking, Initialize, LoadImage, SetBreakPointsRequest,
                 PauseRequest, StackTraceRequest, DisconnectRequest, OnLoaded, Incoming
    <3> QED
      BY <3>1
  <2>4. CASE Initialize \/ LoadImage \/ SetBreakPointsRequest \/ PauseRequest
    BY <2>2, <2>3, <2>4 DEF Speaking, Initialize, LoadImage, SetBreakPointsRequest, PauseRequest, Shown
  <2>5. CASE StackTraceRequest \/ DisconnectRequest \/ OnLoaded
    BY <2>2, <2>3, <2>5 DEF Speaking, StackTraceRequest, DisconnectRequest, OnLoaded, Incoming
  <2>6. CASE Silent
    <3>1. uplink' = uplink
      BY <2>6 DEF Silent, Launch, EmulatorDelay, LaunchRefused, DebugInfoFails, Lost, Timeout, OnLoadFailed,
                  OnRegisters, OnOtherResponse, OnStopped
    <3>2. CASE Launch \/ EmulatorDelay
      BY <2>2, <3>1, <3>2 DEF Launch, EmulatorDelay
    <3>3. CASE LaunchRefused \/ DebugInfoFails \/ Lost \/ Timeout
      BY <2>2, <3>1, <3>3 DEF LaunchRefused, DebugInfoFails, Lost, Timeout, Terminated
    <3>4. CASE OnLoadFailed \/ OnRegisters \/ OnOtherResponse \/ OnStopped
      BY <2>2, <3>4 DEF OnLoadFailed, OnRegisters, OnOtherResponse, OnStopped, Incoming, Terminated
    <3> QED
      BY <2>6, <3>2, <3>3, <3>4 DEF Silent
  <2> QED
    BY <1>1, <2>4, <2>5, <2>6 DEF Speaking
<1>2. CASE Open
  BY <1>2 DEF Open
<1>3. CASE ConfigurationDoneRequest \/ Resume
  <2>1. ws \notin {"none", "connecting"} /\ ws' = ws /\ isConfigured' /\ phase' = phase
        /\ phase = "launched"
    BY <1>3 DEF ConfigurationDoneRequest, Resume
  <2> QED
    BY <2>1
<1>4. CASE Accept \/ Reply \/ Begin \/ Stop \/ Leave
  <2>1. \/ ws \notin {"none", "connecting"}
        \/ requests' = <<>> /\ UNCHANGED <<replies, current, begun>>
    BY <1>4 DEF Accept, Reply, Begin, Stop, Leave, Target!Reply, Target!Begin, Target!Stop,
                Target!Leave, Target!Take
  <2>2. UNCHANGED clientVars /\ (ws \in {"none", "connecting"} => uplink' = uplink)
    BY <1>4 DEF Accept, Reply, Begin, Stop, Leave
  <2> QED
    BY <2>1, <2>2 DEF clientVars, launchVars
<1>5. CASE UNCHANGED vars
  BY <1>5 DEF vars, launchVars, targetVars
<1> QED
  BY <1>1, <1>2, <1>3, <1>4, <1>5 DEF Next, LaunchRequest, Editor, OnMessage, Speaking, Silent

\* A RUN is sent only when the editor shows a stopped program, which no other run outlives.
LEMMA OneRunStep == ASSUME Inv, [Next]_vars PROVE OneRun'
<1> DEFINE Waits == ui \in {"launching", "configuring", "stopped"}
           NoReply == UNCHANGED <<replies, read>>
<1>0. TypeOK /\ HistoriesOK /\ Launching /\ OneRun
  BY DEF Inv
<1>a. NoReply => Unread' = Unread /\ EventUnread' = EventUnread
  BY DEF Unread, EventUnread
<1>b. ASSUME NoRunSent, Waits' => Waits, Unread' \subseteq Unread
      PROVE  OneRun'
  <2>1. EventUnread' => EventUnread
    BY <1>b DEF EventUnread, NoRunSent
  <2>2. HasRun(Underway') => HasRun(Underway) /\ begun' = begun /\ runs' = runs
    BY <1>b DEF NoRunSent
  <2>3. SingleRun(Underway') /\ current' = current /\ replies' = replies
    BY <1>0, <1>b DEF NoRunSent, OneRun
  <2> QED
    BY <1>0, <1>b, <2>1, <2>2, <2>3 DEF OneRun
<1>1. CASE Speaking \/ Silent
  <2>1. NoRunSent
    BY <1>0, <1>1, Quietly
  <2>2. CASE Launch \/ EmulatorDelay \/ Initialize \/ LoadImage \/ LaunchRefused \/ DebugInfoFails \/ Lost \/ Timeout
             \/ SetBreakPointsRequest \/ PauseRequest \/ StackTraceRequest \/ DisconnectRequest
    <3>1. NoReply /\ (Waits' => Waits)
      BY <2>2 DEF Launch, EmulatorDelay, Initialize, LoadImage, LaunchRefused, DebugInfoFails, Lost, Timeout,
              SetBreakPointsRequest, PauseRequest, StackTraceRequest, DisconnectRequest,
              Terminated, targetVars
    <3> QED
      BY <1>a, <1>b, <2>1, <3>1
  <2>3. ASSUME NEW a, Incoming(a) PROVE read' \in Unread /\ Unread' = Unread \ {read'} /\ a = replies[read']
    <3>1. read < Len(replies) /\ read' = read + 1 /\ replies' = replies
      BY <2>1, <2>3 DEF Incoming, NoRunSent
    <3> QED
      BY <1>0, <2>3, <3>1, ReadOn DEF Incoming
  <2>4. CASE OnLoaded \/ OnLoadFailed \/ OnRegisters \/ OnOtherResponse
    <3>1. \E a : Incoming(a)
      BY <2>4 DEF OnLoaded, OnLoadFailed, OnRegisters, OnOtherResponse
    <3>2. Unread' \subseteq Unread
      BY <2>3, <3>1
    <3>3. Waits' => Waits
      BY <2>4 DEF OnLoaded, OnLoadFailed, OnRegisters, OnOtherResponse, Terminated
    <3> QED
      BY <1>b, <2>1, <3>2, <3>3
  <2>5. CASE OnStopped
    <3>1. PICK r \in Target!Reasons : Incoming(Target!Event(r))
      BY <2>5 DEF OnStopped
    <3>2. /\ read' \in Unread /\ Unread' = Unread \ {read'} /\ replies[read'].kind = "event"
      BY <2>3, <3>1, Answers
    <3>3. EventUnread /\ ~EventUnread' /\ replies' = replies
      BY <1>0, <2>1, <3>2 DEF OneRun, EventUnread, NoRunSent
    <3>4. ~HasRun(Underway') /\ current' = Null
      BY <1>0, <2>1, <3>3 DEF OneRun, NoRunSent
    <3>5. SingleRun(Underway')
      BY <1>0, <2>1 DEF OneRun, NoRunSent
    <3> QED
      BY <1>0, <3>2, <3>3, <3>4, <3>5 DEF OneRun
  <2> QED
    BY <1>1, <2>2, <2>4, <2>5 DEF Speaking, Silent
<1>2. CASE Open
  <2>1. NoReply /\ UNCHANGED <<ui, current, begun, runs, replies>>
    BY <1>2 DEF Open, targetVars
  <2>2. Underway' = buffered /\ Underway = <<>> /\ ~HasRun(buffered)
    BY <1>0, <1>2, ConcatEmptySeq DEF Open, Launching, Underway, TypeOK, targetVars
  <2>3. ~HasRun(Underway') /\ SingleRun(Underway')
    BY <2>2 DEF HasRun, SingleRun
  <2> QED
    BY <1>0, <1>a, <2>1, <2>3 DEF OneRun
<1>3. CASE ConfigurationDoneRequest \/ Resume
  <2>1. Waits /\ ui' = "running" /\ runs' = runs + 1 /\ begun' = begun
        /\ NoReply /\ UNCHANGED <<replies, requests, current>>
    BY <1>3 DEF ConfigurationDoneRequest, Resume, targetVars
  <2>2. ~HasRun(Underway) /\ current' = Null /\ ~EventUnread'
    BY <1>0, <1>a, <2>1 DEF OneRun
  <2>3. PICK t \in Seq(Message) : Sent(t) /\ SingleRun(t)
    BY <1>0, <1>3, RunSpeech
  <2>4. SingleRun(Underway')
    <3>1. CASE ws = "open"
      BY <1>0, <2>2, <2>3, <3>1, StreamEnd DEF Sent, OneRun
    <3>2. CASE ws # "open"
      BY <1>0, <2>3, <3>2 DEF Sent, OneRun
    <3> QED
      BY <3>1, <3>2
  <2>5. begun' < runs'
    BY <1>0, <2>1 DEF TypeOK
  <2>6. ~Waits'
    BY <2>1
  <2> QED
    BY <1>0, <1>a, <2>1, <2>2, <2>4, <2>5, <2>6 DEF OneRun
<1>4. CASE Accept
  <2>1. /\ uplink # <<>> /\ uplink' = Tail(uplink) /\ requests' = Append(requests, Head(uplink))
        /\ UNCHANGED <<ui, replies, read, current, begun, runs>>
    BY <1>4 DEF Accept, Target!Accept, clientVars
  <2>2. Underway' = Underway
    BY <1>0, <2>1, AcceptStream
  <2> QED
    BY <1>0, <1>a, <2>1, <2>2 DEF OneRun
<1>5. ASSUME requests # <<>>, requests' = Tail(requests), UNCHANGED <<uplink, runs>>
      PROVE  /\ HasRun(Underway') => HasRun(Underway) /\ Head(requests).action # "run"
             /\ Head(requests).action = "run" => HasRun(Underway)
             /\ SingleRun(Underway')
  <2>1. /\ Underway \in Seq(Message) /\ Underway # <<>> /\ Underway' = Tail(Underway)
        /\ Head(Underway) = Head(requests)
    BY <1>0, <1>5, TakeStream
  <2> QED
    BY <1>0, <2>1, StreamFront DEF OneRun
<1>6. CASE Reply
  <2>1. /\ requests # <<>> /\ requests' = Tail(requests)
        /\ UNCHANGED <<ui, uplink, read, runs, begun, current>>
        /\ replies' = Append(replies, Target!Response(Head(requests)))
        /\ begunAt' = Append(begunAt, begun)
    BY <1>6 DEF Reply, Target!Reply, Target!Take, clientVars
  <2>2. Target!Response(Head(requests)) \in Answer /\ begun \in Nat
        /\ Target!Response(Head(requests)).kind = "response"
    BY <1>0, <2>1, TakeStream, Answers DEF TypeOK
  <2>3. PICK k : /\ Unread' = Unread \cup {k} /\ replies'[k].kind # "event"
                 /\ \A i \in Unread : replies'[i] = replies[i]
    BY <1>0, <2>1, <2>2, Replied
  <2>4. EventUnread' = EventUnread
    BY <2>3 DEF EventUnread
  <2>5. \A i, j \in Unread' : replies'[i].kind = "event" /\ replies'[j].kind = "event" => i = j
    BY <1>0, <2>3 DEF OneRun
  <2> QED
    BY <1>0, <1>5, <2>1, <2>4, <2>5 DEF OneRun
<1>7. CASE Begin
  <2>1. /\ requests # <<>> /\ requests' = Tail(requests) /\ NoReply
        /\ UNCHANGED <<ui, uplink, read, runs, replies>>
        /\ Head(requests).action = "run"
    BY <1>7 DEF Begin, Target!Begin, Target!Take, clientVars
  <2>2. HasRun(Underway) /\ ~HasRun(Underway') /\ SingleRun(Underway')
    BY <1>5, <2>1
  <2>3. ~EventUnread' /\ ~Waits'
    BY <1>0, <1>a, <2>1, <2>2 DEF OneRun
  <2> QED
    BY <1>0, <1>a, <2>1, <2>2, <2>3 DEF OneRun
<1>8. CASE Stop
  <2>1. PICK r \in Target!Reasons : Target!Stop(r)
    BY <1>8 DEF Stop
  <2>2. /\ current # Null /\ current' = Null
        /\ UNCHANGED <<ui, uplink, requests, read, runs, begun>>
        /\ replies' = replies \o <<Target!Event(r), Target!Response(current)>>
        /\ begunAt' = begunAt \o <<begun, begun>>
    BY <1>8, <2>1 DEF Stop, Target!Stop, clientVars
  <2>3. /\ Target!Event(r) \in Answer /\ Target!Response(current) \in Answer /\ begun \in Nat
        /\ Target!Response(current).kind = "response"
    BY <1>0, <2>2, Answers DEF TypeOK
  <2>4. PICK k : /\ Unread' = Unread \cup {k, k + 1} /\ replies'[k + 1].kind # "event"
                 /\ \A i \in Unread : replies'[i] = replies[i]
    BY <1>0, <2>2, <2>3, RepliedTwice
  <2>5. ~EventUnread /\ ~HasRun(Underway) /\ ~Waits
    BY <1>0, <2>2 DEF OneRun
  <2>6. \A i, j \in Unread' : replies'[i].kind = "event" /\ replies'[j].kind = "event" => i = j
    BY <2>4, <2>5 DEF EventUnread
  <2>7. Underway' = Underway
    BY <2>2 DEF Underway
  <2> QED
    BY <1>0, <2>2, <2>5, <2>6, <2>7 DEF OneRun
<1>9. CASE Leave
  <2>1. /\ requests' = requests \/ (requests # <<>> /\ requests' = Tail(requests))
        /\ UNCHANGED <<ui, uplink, read, runs, begun, replies, current>>
    BY <1>9 DEF Leave, Target!Leave, clientVars
  <2>2. SingleRun(Underway') /\ (HasRun(Underway') => HasRun(Underway))
    <3>1. CASE requests' = requests
      BY <1>0, <2>1, <3>1 DEF Underway, OneRun
    <3>2. CASE requests # <<>> /\ requests' = Tail(requests)
      BY <1>5, <2>1, <3>2
    <3> QED
      BY <2>1, <3>1, <3>2
  <2> QED
    BY <1>0, <1>a, <2>1, <2>2 DEF OneRun
<1>10. CASE UNCHANGED vars
  BY <1>0, <1>a, <1>10 DEF vars, launchVars, targetVars, OneRun, Underway
<1> QED
  BY <1>1, <1>2, <1>3, <1>4, <1>6, <1>7, <1>8, <1>9, <1>10
     DEF Next, LaunchRequest, Editor, OnMessage, Speaking, Silent

\* Types, and histories no longer than what was sent.
LEMMA TypeStep == ASSUME Inv, [Next]_vars PROVE TypeOK' /\ HistoriesOK'
<1>0. TypeOK /\ HistoriesOK /\ Launching /\ OneRun /\ Launching' /\ OneRun'
  BY LaunchingStep, OneRunStep DEF Inv
<1> DEFINE NoReply == UNCHANGED <<replies, read, begunAt>>
           Editing == /\ ui' \in Shown \cup {"launching", "configuring", "terminated", "disconnected"}
                      /\ asked' \in 0 .. MaxRequests
                      /\ phase' \in {"called", "starting", "started", "reading", "loading",
                                     "launched", "failed"}
                      /\ ws' \in {"none", "connecting", "open", "closed"} /\ timer' \in {"off", "armed"}
                      /\ isConfigured' \in BOOLEAN /\ breakpointLocations' \subseteq Addr
                      /\ runs' \in Nat /\ begun' \in 0 .. runs' /\ traces' \subseteq 0 .. runs'
                      /\ ws' = "none" => buffered' = <<>>
           Target_ == /\ requests' \in Seq(Message) /\ current' \in Message \cup {Null}
                      /\ pausing' \in BOOLEAN /\ gone' \in BOOLEAN
                      /\ targetBreakpoints' \subseteq Addr
           Channels == uplink' \in Seq(Message) /\ buffered' \in Seq(Message)
           Replies == read' \in 0 .. Len(replies') /\ Len(begunAt') = Len(replies') /\ HistoriesOK'
<1>a. NoReply => Replies
  BY <1>0 DEF TypeOK, HistoriesOK
<1>b. Editing /\ Target_ /\ Channels /\ Replies => TypeOK' /\ HistoriesOK'
  BY DEF TypeOK
<1>c. UNCHANGED <<requests, current, pausing, gone, targetBreakpoints>> => Target_
  BY <1>0 DEF TypeOK
<1>d. Asks => asked' \in 0 .. MaxRequests
  <2>1. MaxRequests \in Nat /\ asked \in 0 .. MaxRequests
    BY <1>0, SessionAssumption DEF TypeOK
  <2> QED
    BY <2>1 DEF Asks
<1> HIDE DEF Replies, Target_
<1>1. CASE Speaking \/ Silent
  <2>1. NoRunSent
    BY <1>0, <1>1, Quietly
  <2>2. Target_ /\ Channels /\ UNCHANGED <<runs, begun, replies, begunAt>>
    BY <1>c, <2>1 DEF NoRunSent
  <2>3. CASE Launch \/ EmulatorDelay \/ Initialize \/ LoadImage \/ LaunchRefused \/ DebugInfoFails \/ Lost \/ Timeout
    <3>1. Editing
      <4>1. UNCHANGED <<asked, isConfigured, breakpointLocations, traces>>
        BY <2>3 DEF Launch, EmulatorDelay, Initialize, LoadImage, LaunchRefused, DebugInfoFails, Lost, Timeout
      <4>2. /\ ui' \in {ui, "terminated"} /\ phase' \in {phase, "starting", "started", "reading", "loading", "failed"}
            /\ ws' \in {ws, "connecting", "closed"} /\ timer' \in {timer, "armed", "off"}
        BY <2>3 DEF Launch, EmulatorDelay, Initialize, LoadImage, LaunchRefused, DebugInfoFails, Lost, Timeout, Terminated
      <4>3. ws' = "none" => buffered' = <<>>
        BY <1>0, <2>3 DEF Launch, EmulatorDelay, Initialize, LoadImage, LaunchRefused, DebugInfoFails, Lost, Timeout,
                          TypeOK, Launching
      <4> QED
        BY <1>0, <2>2, <4>1, <4>2, <4>3 DEF TypeOK
    <3>2. NoReply
      BY <2>2, <2>3 DEF Launch, EmulatorDelay, Initialize, LoadImage, LaunchRefused, DebugInfoFails, Lost, Timeout
    <3> QED
      BY <1>a, <1>b, <2>2, <3>1, <3>2
  <2>4. CASE SetBreakPointsRequest \/ PauseRequest \/ StackTraceRequest \/ DisconnectRequest
    <3>1. Editing
      <4>1. /\ ui' \in {ui, "disconnected"} /\ phase' = phase /\ ws' \in {ws, "closed"}
            /\ timer' \in {timer, "off"} /\ isConfigured' = isConfigured
            /\ traces' \in {traces, traces \cup {runs}}
            /\ asked' = asked \/ Asks
        BY <2>4 DEF SetBreakPointsRequest, PauseRequest, StackTraceRequest, DisconnectRequest
      <4>2. breakpointLocations' \subseteq Addr
        BY <1>0, <2>4 DEF SetBreakPointsRequest, PauseRequest, StackTraceRequest, DisconnectRequest, TypeOK
      <4>3. ws' = "none" => buffered' = <<>>
        BY <1>0, <2>4 DEF SetBreakPointsRequest, PauseRequest, StackTraceRequest, DisconnectRequest,
                          TypeOK, Launching, Shown
      <4> QED
        BY <1>0, <1>d, <2>2, <4>1, <4>2, <4>3 DEF TypeOK
    <3>2. NoReply
      BY <2>2, <2>4 DEF SetBreakPointsRequest, PauseRequest, StackTraceRequest, DisconnectRequest
    <3> QED
      BY <1>a, <1>b, <2>2, <3>1, <3>2
  <2>5. CASE OnMessage
    <3>1. Editing
      <4>1. /\ ui' \in {ui, "configuring", "stopped", "terminated"} /\ phase' \in {phase, "launched"}
            /\ ws' = ws /\ ws # "none" /\ traces' \in {traces, {}}
            /\ UNCHANGED <<asked, timer, isConfigured, breakpointLocations>>
        BY <2>5 DEF OnMessage, OnLoaded, OnLoadFailed, OnRegisters, OnOtherResponse, OnStopped,
                    Incoming, Terminated
      <4> QED
        BY <1>0, <2>2, <4>1 DEF TypeOK, Shown
    <3>2. PICK a : Incoming(a)
      BY <2>5 DEF OnMessage, OnLoaded, OnLoadFailed, OnRegisters, OnOtherResponse, OnStopped
    <3>3. Replies
      <4>1. read' \in 0 .. Len(replies')
        BY <1>0, <2>2, <3>2, ReadOn DEF Incoming
      <4> QED
        BY <1>0, <2>2, <4>1 DEF Replies, TypeOK, HistoriesOK
    <3> QED
      BY <1>b, <2>2, <3>1, <3>3
  <2> QED
    BY <1>1, <2>3, <2>4, <2>5 DEF Speaking, Silent, OnMessage
<1>2. CASE Open
  <2>1. Editing
    BY <1>0, <1>2 DEF Open, TypeOK, targetVars
  <2>2. Channels
    BY <1>0, <1>2, ConcatProperties DEF Open, TypeOK
  <2>3. Target_ /\ NoReply
    BY <1>2, <1>c DEF Open, targetVars
  <2> QED
    BY <1>a, <1>b, <2>1, <2>2, <2>3
<1>3. CASE ConfigurationDoneRequest \/ Resume
  <2>1. /\ ui' = "running" /\ isConfigured' \in {TRUE, isConfigured} /\ runs' = runs + 1
        /\ UNCHANGED <<phase, ws, timer, breakpointLocations, traces, begun>>
        /\ asked' = asked \/ Asks
        /\ ws # "none"
    BY <1>0, <1>3 DEF ConfigurationDoneRequest, Resume, targetVars, Launching
  <2>2. Editing
    <3>1. runs \in Nat /\ begun \in 0 .. runs /\ traces \subseteq 0 .. runs
      BY <1>0 DEF TypeOK
    <3>2. runs' \in Nat /\ begun' \in 0 .. runs' /\ traces' \subseteq 0 .. runs'
      BY <2>1, <3>1
    <3> QED
      BY <1>0, <1>d, <2>1, <3>2 DEF TypeOK, Shown
  <2>3. Target_ /\ NoReply
    BY <1>3, <1>c DEF ConfigurationDoneRequest, Resume, targetVars
  <2>4. Channels
    BY <1>0, <1>3, RunSpeech DEF Sent
  <2> QED
    BY <1>a, <1>b, <2>2, <2>3, <2>4
<1>4. CASE Accept \/ Reply \/ Begin \/ Stop \/ Leave
  <2>1. UNCHANGED clientVars
    BY <1>4 DEF Accept, Reply, Begin, Stop, Leave
  <2>2. begun' \in 0 .. runs => Editing
    BY <1>0, <2>1 DEF clientVars, launchVars, TypeOK
  <2>3. ASSUME requests # <<>>, requests' = Tail(requests), uplink' = uplink
        PROVE  Head(requests) \in Message /\ requests' \in Seq(Message)
               /\ (Head(requests).action = "run" => HasRun(Underway))
    <3>1. Underway \in Seq(Message) /\ Underway # <<>> /\ Head(Underway) = Head(requests)
      BY <1>0, <2>3, TakeStream
    <3> QED
      BY <1>0, <2>3, <3>1, TakeStream, StreamFront
  <2>4. CASE Accept
    <3>1. /\ uplink # <<>> /\ uplink' = Tail(uplink) /\ requests' = Append(requests, Head(uplink))
          /\ NoReply /\ UNCHANGED <<current, pausing, gone, targetBreakpoints, begun, buffered>>
      BY <2>4 DEF Accept, Target!Accept, clientVars, launchVars
    <3>2. requests' \in Seq(Message) /\ Channels
      BY <1>0, <3>1, AcceptStream DEF TypeOK
    <3>3. Target_ /\ begun' \in 0 .. runs
      BY <1>0, <3>1, <3>2 DEF Target_, TypeOK
    <3> QED
      BY <1>a, <1>b, <2>2, <3>1, <3>2, <3>3
  <2>5. CASE Reply
    <3>1. /\ requests # <<>> /\ requests' = Tail(requests)
          /\ UNCHANGED <<uplink, buffered, read, begun, current, gone>>
          /\ pausing' = (current # Null /\ Head(requests).action = "pause")
          /\ targetBreakpoints' \in {targetBreakpoints, Head(requests).addrs}
          /\ replies' = Append(replies, Target!Response(Head(requests)))
          /\ begunAt' = Append(begunAt, begun)
      BY <2>5 DEF Reply, Target!Reply, Target!Take, clientVars, launchVars
    <3>2. /\ Head(requests) \in Message /\ requests' \in Seq(Message)
          /\ Head(requests).addrs \subseteq Addr
      BY <2>3, <3>1 DEF Message
    <3>3. Target!Response(Head(requests)) \in Answer /\ begun \in Nat
      BY <1>0, <3>2, Answers DEF TypeOK
    <3>4. Replies
      BY <1>0, <3>1, <3>3, Replied DEF Replies
    <3>5. Target_ /\ Channels /\ begun' \in 0 .. runs
      BY <1>0, <3>1, <3>2 DEF Target_, TypeOK
    <3> QED
      BY <1>b, <2>2, <3>4, <3>5
  <2>6. CASE Begin
    <3>1. /\ requests # <<>> /\ requests' = Tail(requests) /\ NoReply
          /\ UNCHANGED <<uplink, buffered, pausing, gone, targetBreakpoints>>
          /\ Head(requests).action = "run" /\ current' = Head(requests) /\ begun' = begun + 1
      BY <2>6 DEF Begin, Target!Begin, Target!Take, clientVars, launchVars
    <3>2. Head(requests) \in Message /\ requests' \in Seq(Message) /\ HasRun(Underway)
      BY <2>3, <3>1
    <3>3. begun' \in 0 .. runs
      BY <1>0, <3>1, <3>2 DEF TypeOK, OneRun
    <3>4. Target_ /\ Channels
      BY <1>0, <3>1, <3>2 DEF Target_, TypeOK
    <3> QED
      BY <1>a, <1>b, <2>2, <3>1, <3>3, <3>4
  <2>7. CASE Stop
    <3>1. PICK r \in Target!Reasons : Target!Stop(r)
      BY <2>7 DEF Stop
    <3>2. /\ current # Null /\ current' = Null /\ pausing' = FALSE
          /\ UNCHANGED <<uplink, buffered, requests, read, begun, gone, targetBreakpoints>>
          /\ replies' = replies \o <<Target!Event(r), Target!Response(current)>>
          /\ begunAt' = begunAt \o <<begun, begun>>
      BY <2>7, <3>1 DEF Stop, Target!Stop, clientVars, launchVars
    <3>3. Target!Event(r) \in Answer /\ Target!Response(current) \in Answer /\ begun \in Nat
      BY <1>0, <3>2, Answers DEF TypeOK
    <3>4. Replies
      BY <1>0, <3>2, <3>3, RepliedTwice DEF Replies
    <3>5. Target_ /\ Channels /\ begun' \in 0 .. runs
      BY <1>0, <3>2 DEF Target_, TypeOK
    <3> QED
      BY <1>b, <2>2, <3>4, <3>5
  <2>8. CASE Leave
    <3>1. /\ requests' = requests \/ (requests # <<>> /\ requests' = Tail(requests))
          /\ NoReply /\ gone' = TRUE
          /\ UNCHANGED <<uplink, buffered, begun, current, pausing, targetBreakpoints>>
      BY <2>8 DEF Leave, Target!Leave, clientVars, launchVars
    <3>2. requests' \in Seq(Message)
      BY <1>0, <2>3, <3>1 DEF TypeOK
    <3>3. Target_ /\ Channels /\ begun' \in 0 .. runs
      BY <1>0, <3>1, <3>2 DEF Target_, TypeOK
    <3> QED
      BY <1>a, <1>b, <2>2, <3>1, <3>3
  <2> QED
    BY <1>4, <2>4, <2>5, <2>6, <2>7, <2>8
<1>5. CASE UNCHANGED vars
  BY <1>0, <1>5 DEF vars, launchVars, targetVars, TypeOK, HistoriesOK
<1> QED
  BY <1>1, <1>2, <1>3, <1>4, <1>5
     DEF Next, LaunchRequest, Editor, OnMessage, Speaking, Silent

\* Of every session: requests and replies keep their types, no run is taken that
\* was not sent, and the runtime is not used before it has a socket.
THEOREM TypeCorrect == Spec => []TypeOK
<1>1. Init => Inv
  BY InvInit
<1>2. Inv /\ [Next]_vars => Inv'
  BY TypeStep, LaunchingStep, OneRunStep DEF Inv
<1>3. Inv => TypeOK
  BY DEF Inv
<1> QED
  BY <1>1, <1>2, <1>3, PTL DEF Spec

\* What the editor shows as stopped is stopped, however its requests, the
\* messages and the failures are interleaved (OneRun): the listener of "stopped"
\* is only called when nothing that could start the program is on its way.
THEOREM StoppedMeansStopped == Spec => []StoppedIsStopped
<1>1. Init => Inv
  BY InvInit
<1>2. Inv /\ [Next]_vars => Inv'
  BY TypeStep, LaunchingStep, OneRunStep DEF Inv
<1>3. Inv => StoppedIsStopped
  BY DEF Inv, OneRun, HasRun, StoppedIsStopped
<1> QED
  BY <1>1, <1>2, <1>3, PTL DEF Spec

--------------------------------------------------------------------------------
(* The breakpoints a run finds.                                                 *)

\* Every run on its way will find the breakpoints it was asked for with, and what
\* has been said leaves the target with those of the session.
BreakpointsAhead ==
    ~gone =>
      /\ RunsGiven(Underway, targetBreakpoints)
      /\ isConfigured /\ ws = "open"
           => Given(Underway, Len(Underway), targetBreakpoints, breakpointLocations)

\* Breakpoints are sent before the run that is to stop at them.
LEMMA BreakpointsStep ==
    ASSUME Inv, BreakpointsAhead, [Next]_vars
    PROVE  BreakpointsAhead'
<1>0. TypeOK /\ Launching
  BY DEF Inv
<1> DEFINE b == targetBreakpoints
<1>1. CASE Speaking
  <2>1. UNCHANGED <<targetVars, runs>>
    BY <1>0, <1>1, Speech
  <2> SUFFICES ASSUME ~gone
               PROVE  /\ RunsGiven(Underway', b)
                      /\ isConfigured' /\ ws' = "open"
                           => Given(Underway', Len(Underway'), b, breakpointLocations')
    BY <2>1 DEF BreakpointsAhead, targetVars
  <2>2. RunsGiven(Underway, b)
    BY DEF BreakpointsAhead
  <2>3. RunsGiven(Underway', b)
    <3>1. PICK t \in Seq(Message) : Sent(t) /\ ~HasRun(t)
      BY <1>0, <1>1, Speech DEF HasRun
    <3>2. CASE ws = "open"
      BY <2>2, <3>1, <3>2, RunsGivenEnd DEF Sent
    <3>3. CASE ws # "open"
      BY <2>2, <3>1, <3>3 DEF Sent
    <3> QED
      BY <3>2, <3>3
  <2> SUFFICES ASSUME isConfigured', ws' = "open"
               PROVE  Given(Underway', Len(Underway'), b, breakpointLocations')
    BY <2>3
  <2>4. isConfigured /\ ws = "open" /\ requests' = requests
    BY <1>1, <2>1 DEF Speaking, Initialize, LoadImage, SetBreakPointsRequest, PauseRequest,
                 StackTraceRequest, DisconnectRequest, OnLoaded, targetVars
  <2>5. Given(Underway, Len(Underway), b, breakpointLocations)
    BY <2>4 DEF BreakpointsAhead
  <2>6. CASE SetBreakPointsRequest
    <3>1. PICK a \in SUBSET Addr : Send(<<SetBreakpoints(a)>>) /\ breakpointLocations' = a
      BY <2>4, <2>6 DEF SetBreakPointsRequest
    <3>2. /\ SetBreakpoints(a) \in Message /\ <<SetBreakpoints(a)>> \in Seq(Message)
          /\ SetBreakpoints(a).action = "setBreakpoints" /\ SetBreakpoints(a).addrs = a
      BY Messages
    <3>3. Underway \in Seq(Message) /\ Underway' = Underway \o <<SetBreakpoints(a)>>
      BY <1>0, <2>4, <3>1, <3>2, SendStream
    <3>4. Len(Underway') = Len(Underway) + 1
      BY <3>2, <3>3, ConcatProperties
    <3> QED
      BY <3>1, <3>2, <3>3, <3>4, GivenEnd
  <2>7. CASE PauseRequest \/ StackTraceRequest
    <3>1. breakpointLocations' = breakpointLocations
      BY <2>7 DEF PauseRequest, StackTraceRequest
    <3>2. \E t \in Seq(Message) : /\ Send(t)
                                  /\ \A i \in DOMAIN t : t[i].action # "setBreakpoints"
      <4>1. \A x \in {"pause", "getRegisters", "getMemory"} :
                M(x) \in Message /\ M(x).action # "setBreakpoints"
        BY Messages DEF Actions
      <4>2. <<M("pause")>> \in Seq(Message)
            /\ \A i \in DOMAIN <<M("pause")>> : <<M("pause")>>[i].action # "setBreakpoints"
        BY <4>1
      <4> DEFINE t == <<M("getRegisters"), M("getMemory")>>
      <4>3. t \in Seq(Message) /\ \A i \in DOMAIN t : t[i].action # "setBreakpoints"
        BY <4>1
      <4> QED
        BY <2>7, <4>2, <4>3 DEF PauseRequest, StackTraceRequest
    <3>3. PICK t \in Seq(Message) : /\ Underway' = Underway \o t /\ Underway \in Seq(Message)
                                    /\ \A i \in DOMAIN t : t[i].action # "setBreakpoints"
      BY <1>0, <2>4, <3>2, SendStream
    <3> QED
      BY <2>5, <3>1, <3>3, GivenOver
  <2>8. CASE Initialize \/ LoadImage \/ OnLoaded \/ DisconnectRequest
    <3>1. phase # "launched" \/ ws' # "open"
      BY <2>4, <2>8 DEF Initialize, LoadImage, OnLoaded, DisconnectRequest
    <3> QED
      BY <1>0, <2>4, <3>1 DEF Launching
  <2> QED
    BY <1>1, <2>6, <2>7, <2>8 DEF Speaking
<1>2. CASE Silent
  <2>1. UNCHANGED <<uplink, targetVars, isConfigured, breakpointLocations>>
        /\ (ws' = "open" => ws = "open")
    BY <1>2 DEF Silent, Launch, EmulatorDelay, LaunchRefused, DebugInfoFails, Lost, Timeout, OnLoadFailed,
                OnRegisters, OnOtherResponse, OnStopped, Incoming, targetVars
  <2> QED
    BY <2>1 DEF BreakpointsAhead, Underway, targetVars
<1>3. CASE Open
  <2>1. ~isConfigured'
    BY <1>0, <1>3 DEF Open, Launching
  <2>2. Underway' = buffered /\ ~HasRun(buffered)
    BY <1>0, <1>3, ConcatEmptySeq DEF Open, Launching, Underway, TypeOK, targetVars
  <2>3. RunsGiven(Underway', b')
    BY <2>2 DEF RunsGiven, HasRun
  <2> QED
    BY <2>1, <2>3 DEF BreakpointsAhead
<1>4. CASE ConfigurationDoneRequest \/ Resume
  <2>1. UNCHANGED <<targetVars, ws, breakpointLocations, requests>>
    BY <1>4 DEF ConfigurationDoneRequest, Resume, targetVars
  <2>2. CASE ws # "open"
    <3>1. Underway' = Underway
      BY <1>0, <1>4, <2>2, RunSpeech DEF Sent
    <3> QED
      BY <2>1, <2>2, <3>1 DEF BreakpointsAhead, targetVars
  <2>3. CASE ws = "open"
    <3> SUFFICES ASSUME ~gone
                 PROVE  /\ RunsGiven(Underway', b)
                        /\ Given(Underway', Len(Underway'), b, breakpointLocations)
      BY <2>1 DEF BreakpointsAhead, targetVars
    <3>1. RunsGiven(Underway, b)
      BY DEF BreakpointsAhead
    <3>2. ASSUME NEW s \in Seq(Message), NEW c \in {RunConds, RunConds \cup {"line"}},
                 RunsGiven(s, b), Given(s, Len(s), b, breakpointLocations)
          PROVE  LET u == s \o <<Run(c)>> IN
                 RunsGiven(u, b) /\ Given(u, Len(u), b, breakpointLocations)
      <4> DEFINE u == s \o <<Run(c)>>
      <4>1. /\ Run(c) \in Message /\ <<Run(c)>> \in Seq(Message)
            /\ Run(c).action = "run" /\ Run(c).addrs = breakpointLocations
        BY <1>0, RunMessage DEF TypeOK
      <4>2. Len(u) = Len(s) + 1
        BY <4>1, ConcatProperties
      <4> QED
        BY <3>2, <4>1, <4>2, GivenEnd
    <3>3. CASE ConfigurationDoneRequest
      <4> DEFINE m == SetBreakpoints(breakpointLocations)
                 c == Run(RunConds)
                 s == Underway \o <<m>>
      <4>1. /\ m \in Message /\ <<m>> \in Seq(Message) /\ m.action = "setBreakpoints"
            /\ m.addrs = breakpointLocations
            /\ c \in Message /\ <<c>> \in Seq(Message)
        BY <1>0, Messages, RunMessage DEF TypeOK
      <4>2. Send(<<m, c>>)
        BY <3>3 DEF ConfigurationDoneRequest
      <4> HIDE DEF m, c
      <4>3. <<m, c>> \in Seq(Message) /\ <<m, c>> = <<m>> \o <<c>>
        <5>1. <<m, c>> \in Seq(Message) /\ <<m, c>> = Append(<<m>>, c)
          BY <4>1
        <5> QED
          BY <4>1, <5>1, AppendIsConcat
      <4>4. Underway \in Seq(Message) /\ Underway' = Underway \o <<m, c>>
        BY <1>0, <2>1, <2>3, <4>2, <4>3, SendStream
      <4>5. Underway' = s \o <<c>>
        BY <4>1, <4>3, <4>4, ConcatAssociative
      <4>6. s \in Seq(Message) /\ Len(s) = Len(Underway) + 1
        BY <4>1, <4>4, ConcatProperties
      <4>7. ~HasRun(<<m>>)
        BY <4>1 DEF HasRun
      <4>8. RunsGiven(s, b) /\ Given(s, Len(s), b, breakpointLocations)
        BY <3>1, <4>1, <4>4, <4>6, <4>7, RunsGivenEnd, GivenEnd
      <4> QED
        BY <3>2, <4>5, <4>6, <4>8 DEF c
    <3>4. CASE Resume
      <4>1. PICK c \in {RunConds, RunConds \cup {"line"}} : Send(<<Run(c)>>)
        BY <3>4 DEF Resume
      <4>2. <<Run(c)>> \in Seq(Message)
        BY <1>0, RunMessage DEF TypeOK
      <4>3. Underway \in Seq(Message) /\ Underway' = Underway \o <<Run(c)>>
        BY <1>0, <2>1, <2>3, <4>1, <4>2, SendStream
      <4>4. isConfigured
        BY <1>0, <3>4 DEF Resume, Launching
      <4> QED
        BY <2>3, <3>1, <3>2, <4>3, <4>4 DEF BreakpointsAhead
    <3> QED
      BY <1>4, <3>3, <3>4
  <2> QED
    BY <2>2, <2>3
<1>5. CASE Accept
  <2>1. /\ uplink # <<>> /\ uplink' = Tail(uplink) /\ requests' = Append(requests, Head(uplink))
        /\ UNCHANGED <<gone, targetBreakpoints, isConfigured, ws, breakpointLocations>>
    BY <1>5 DEF Accept, Target!Accept, clientVars, launchVars
  <2>2. Underway' = Underway
    BY <1>0, <2>1, AcceptStream
  <2> QED
    BY <2>1, <2>2 DEF BreakpointsAhead
<1>6. CASE Reply \/ Begin
  <2>1. /\ ~gone /\ requests # <<>> /\ requests' = Tail(requests)
        /\ UNCHANGED <<uplink, gone, isConfigured, ws, breakpointLocations>>
        /\ b' = IF Head(requests).action = "setBreakpoints" THEN Head(requests).addrs ELSE b
    BY <1>6 DEF Reply, Begin, Target!Reply, Target!Begin, Target!Take, clientVars, launchVars
  <2>2. /\ Underway \in Seq(Message) /\ Underway # <<>> /\ Underway' = Tail(Underway)
        /\ Head(Underway) = Head(requests)
    BY <1>0, <2>1, TakeStream
  <2>3. Len(Underway) \in 1 .. Len(Underway) /\ Len(Underway') = Len(Underway) - 1
    BY <2>2, HeadTailProperties, EmptySeq
  <2>4. RunsGiven(Underway', b')
    BY <2>1, <2>2, RunsGivenFront DEF BreakpointsAhead
  <2>5. ASSUME isConfigured, ws = "open"
        PROVE  Given(Underway', Len(Underway'), b', breakpointLocations)
    <3>1. Given(Underway, Len(Underway), b, breakpointLocations)
      BY <2>1, <2>5 DEF BreakpointsAhead
    <3> QED
      BY <2>1, <2>2, <2>3, <3>1, GivenTaken
  <2> QED
    BY <2>1, <2>4, <2>5 DEF BreakpointsAhead
<1>7. CASE Stop
  <2>1. UNCHANGED <<gone, requests, uplink, targetBreakpoints, isConfigured, ws, breakpointLocations>>
    BY <1>7 DEF Stop, Target!Stop, clientVars, launchVars
  <2> QED
    BY <2>1 DEF BreakpointsAhead, Underway
<1>8. CASE Leave
  BY <1>8 DEF Leave, Target!Leave, BreakpointsAhead
<1>9. CASE UNCHANGED vars
  BY <1>9 DEF vars, launchVars, targetVars, BreakpointsAhead, Underway
<1> QED
  BY <1>1, <1>2, <1>3, <1>4, <1>5, <1>6, <1>7, <1>8, <1>9
     DEF Next, LaunchRequest, Editor, OnMessage, Speaking, Silent

\* A program is run with the breakpoints that were set when the run was asked for,
\* however many requests are still on their way and wherever they wait: in the
\* runtime, on the socket or in the target (BreakpointsAhead).
THEOREM BreakpointsOfTheRun == Spec => RunsWithBreakpoints
<1>1. Init => Inv /\ BreakpointsAhead
  <2> SUFFICES ASSUME Init PROVE BreakpointsAhead
    BY InvInit
  <2>1. Underway = <<>> /\ ~isConfigured
    BY DEF Init, Target!Init, Underway
  <2> QED
    BY <2>1 DEF BreakpointsAhead, RunsGiven
<1>2. Inv /\ BreakpointsAhead /\ [Next]_vars => (Inv /\ BreakpointsAhead)'
  BY TypeStep, LaunchingStep, OneRunStep, BreakpointsStep DEF Inv
<1>3. Inv /\ BreakpointsAhead /\ [Next]_vars
      => [begun' # begun => targetBreakpoints = current'.addrs]_vars
  <2> SUFFICES ASSUME Inv, BreakpointsAhead, Next, begun' # begun
               PROVE  targetBreakpoints = current'.addrs
    OBVIOUS
  <2>1. Begin
    BY DEF Next, LaunchRequest, Launch, EmulatorDelay, Initialize, LoadImage, LaunchRefused, DebugInfoFails, Open,
           Lost, Timeout, Editor, SetBreakPointsRequest, ConfigurationDoneRequest, Resume, PauseRequest,
           StackTraceRequest, DisconnectRequest, OnMessage, OnLoaded, OnLoadFailed, OnRegisters,
           OnOtherResponse, OnStopped, Accept, Reply, Stop, Leave, targetVars
  <2>2. /\ ~gone /\ requests # <<>> /\ requests' = Tail(requests) /\ uplink' = uplink
        /\ Head(requests).action = "run" /\ current' = Head(requests)
    BY <2>1 DEF Begin, Target!Begin, Target!Take
  <2>3. Underway \in Seq(Message) /\ Underway # <<>> /\ Head(Underway) = Head(requests)
    BY <2>2, TakeStream DEF Inv
  <2> QED
    BY <2>2, <2>3, RunsGivenFront DEF BreakpointsAhead
<1> QED
  BY <1>1, <1>2, <1>3, PTL DEF Spec, RunsWithBreakpoints

--------------------------------------------------------------------------------
(* The stop a stack trace is about.                                             *)

RegistersReply == Target!Response(M("getRegisters"))

\* The registers come before any stop event.
Answered ==
    \E i \in Unread : /\ replies[i] = RegistersReply
                      /\ \A e \in Unread : e <= i => replies[e].kind # "event"

\* Registers on their way are those of the stop the waiting traces were asked in:
\* while they are asked for, or after they were read and before they are handled,
\* no run begins that could not be told from it.
Traced ==
  ws = "open" =>
    /\ TracesFirst(Underway)
    /\ current # Null => current.action = "run"
    /\ HasTrace(Underway) => current = Null /\ ~EventUnread /\ \A r \in traces : r = begun
    /\ \A i \in Unread : replies[i] = RegistersReply => \A r \in traces : begunAt[i] = r
    /\ traces # {} => \/ Answered
                      \/ ~EventUnread /\ current = Null /\ (HasTrace(Underway) \/ gone)
    /\ ~gone => IF HasRun(Underway) THEN begun + 1 = runs ELSE begun = runs
    /\ \A e \in Unread : replies[e].kind = "event" => \A i \in Unread : e <= i => begunAt[i] = begun
    /\ EventUnread => begun = runs
    /\ ui = "stopped" => /\ begun = runs /\ traces \subseteq {runs}
                         /\ \A i \in Unread : replies[i] = RegistersReply => begunAt[i] = runs

\* A reply with registers answers a request for them.
LEMMA Replies ==
    /\ \A m \in Message : Target!Response(m) = RegistersReply <=> m.action = "getRegisters"
    /\ RegistersReply.kind = "response"
BY Messages DEF RegistersReply, Target!Response, Actions

\* The steps of the session and of the editor keep Traced.
LEMMA TracedClient ==
    ASSUME Inv, Inv', Traced, Speaking \/ Silent
    PROVE  Traced'
<1>0. TypeOK /\ HistoriesOK /\ OneRun
  BY DEF Inv
<1>1. NoRunSent
  BY <1>0, Quietly
<1>2. ws' = "open" => ws = "open"
  BY DEF Speaking, Initialize, LoadImage, SetBreakPointsRequest, PauseRequest, StackTraceRequest,
         DisconnectRequest, OnLoaded, Silent, Launch, EmulatorDelay, LaunchRefused, DebugInfoFails, Lost, Timeout,
         OnLoadFailed, OnRegisters, OnOtherResponse, OnStopped, Incoming
<1> SUFFICES ASSUME ws = "open" PROVE Traced'
  BY <1>2 DEF Traced
<1>3. UNCHANGED <<requests, replies, current, gone, begun, begunAt, runs>>
  BY <1>1 DEF NoRunSent
<1>4. CASE StackTraceRequest
  <2>1. /\ ui = "stopped" /\ traces' = traces \cup {runs} /\ read' = read /\ ui' = ui
        /\ Send(<<M("getRegisters"), M("getMemory")>>)
    BY <1>4 DEF StackTraceRequest, targetVars
  <2>2. /\ current = Null /\ ~EventUnread /\ ~HasRun(Underway)
        /\ begun = runs /\ traces \subseteq {runs}
        /\ \A i \in Unread : replies[i] = RegistersReply => begunAt[i] = runs
    BY <1>0, <2>1 DEF OneRun, Traced
  <2>3. Unread' = Unread /\ EventUnread' = EventUnread
    BY <1>3, <2>1 DEF Unread, EventUnread
  <2>4. HasTrace(Underway') /\ ~HasRun(Underway')
    <3> DEFINE t == <<M("getRegisters"), M("getMemory")>>
    <3>1. M("getRegisters") \in Message /\ M("getMemory") \in Message /\ M("getRegisters").action = "getRegisters"
      BY Messages DEF Actions
    <3>2. t \in Seq(Message) /\ HasTrace(t)
      BY <3>1 DEF HasTrace
    <3>3. Underway' = Underway \o t /\ Underway \in Seq(Message)
      BY <1>0, <1>3, <2>1, <3>2, SendStream
    <3> QED
      BY <1>1, <2>2, <3>2, <3>3, StreamEnd DEF NoRunSent
  <2>5. TracesFirst(Underway')
    BY <2>4 DEF TracesFirst, HasRun
  <2>6. \A r \in traces' : r = begun
    BY <2>1, <2>2
  <2> QED
    BY <1>3, <2>1, <2>2, <2>3, <2>4, <2>5, <2>6 DEF Traced
<1>5. CASE ~StackTraceRequest
  <2>1. /\ HasRun(Underway') = HasRun(Underway) /\ HasTrace(Underway') = HasTrace(Underway)
        /\ TracesFirst(Underway')
    BY <1>1, <1>5 DEF NoRunSent, Traced, HasRun, HasTrace
  <2>2. CASE OnMessage
    <3>1. PICK a : Incoming(a)
      BY <2>2 DEF OnMessage, OnLoaded, OnLoadFailed, OnRegisters, OnOtherResponse, OnStopped
    <3>2. /\ read' \in Unread /\ Unread' = Unread \ {read'} /\ a = replies[read']
          /\ \A i \in Unread : i \in Nat /\ read' <= i
      BY <1>0, <1>3, <3>1, ReadOn DEF Incoming
    <3>3. EventUnread' => EventUnread
      BY <1>3, <3>2 DEF EventUnread
    <3>4. CASE OnStopped
      <4>1. PICK r \in Target!Reasons : Incoming(Target!Event(r))
        BY <3>4 DEF OnStopped
      <4>2. replies[read'].kind = "event" /\ EventUnread /\ traces' = traces
        BY <1>0, <1>3, <3>2, <3>4, <4>1, ReadOn, Answers DEF Incoming, EventUnread, OnStopped
      <4>3. traces = {}
        BY <3>2, <4>2 DEF Traced, Answered
      <4>4. begun = runs /\ \A i \in Unread : begunAt[i] = runs
        BY <3>2, <4>2 DEF Traced
      <4> QED
        BY <1>3, <2>1, <3>2, <3>3, <4>2, <4>3, <4>4 DEF Traced
    <3>5. CASE OnRegisters
      <4>1. traces' = {} /\ ui' = ui
        BY <3>5 DEF OnRegisters
      <4> QED
        BY <1>3, <2>1, <3>2, <3>3, <4>1 DEF Traced
    <3>6. CASE OnLoaded \/ OnLoadFailed \/ OnOtherResponse
      <4>1. traces' = traces /\ (ui' = "stopped" => ui = "stopped")
        BY <3>6 DEF OnLoaded, OnLoadFailed, OnOtherResponse, Terminated
      <4>2. PICK m \in Message : m.action # "getRegisters" /\ Incoming(Target!Response(m))
        BY <3>6, Messages DEF OnLoaded, OnLoadFailed, OnOtherResponse, Actions
      <4>3. replies[read'] # RegistersReply
        BY <1>0, <1>3, <4>2, Replies, ReadOn DEF Incoming
      <4>4. Answered => Answered'
        BY <1>3, <3>2, <4>3 DEF Answered
      <4> QED
        BY <1>3, <2>1, <3>2, <3>3, <4>1, <4>4 DEF Traced
    <3> QED
      BY <2>2, <3>4, <3>5, <3>6 DEF OnMessage
  <2>3. CASE ~OnMessage
    <3>1. read' = read /\ traces' = traces /\ (ui' = "stopped" => ui = "stopped")
      BY <1>5, <2>3 DEF Speaking, Initialize, LoadImage, SetBreakPointsRequest, PauseRequest,
             DisconnectRequest, Silent, Launch, EmulatorDelay, LaunchRefused, DebugInfoFails, Lost, Timeout,
             OnMessage, Terminated
    <3>2. Unread' = Unread /\ EventUnread' = EventUnread /\ Answered' = Answered
      BY <1>3, <3>1 DEF Unread, EventUnread, Answered
    <3> QED
      BY <1>3, <2>1, <3>1, <3>2 DEF Traced
  <2> QED
    BY <2>2, <2>3
<1> QED
  BY <1>4, <1>5

\* So do those of the target and of the network.
LEMMA TracedStep ==
    ASSUME Inv, Inv', Traced, [Next]_vars
    PROVE  Traced'
<1>0. TypeOK /\ HistoriesOK /\ Launching /\ OneRun /\ OneRun'
  BY DEF Inv
<1>a. ASSUME UNCHANGED <<read, replies, begunAt>>
      PROVE  Unread' = Unread /\ EventUnread' = EventUnread /\ Answered' = Answered
  BY <1>a DEF Unread, EventUnread, Answered
<1>1. CASE Speaking \/ Silent
  BY <1>1, TracedClient
<1>2. CASE Open
  <2>1. UNCHANGED <<ui, read, replies, begunAt, current, gone, begun, runs, traces>>
    BY <1>2 DEF Open, targetVars
  <2>2. Underway' = buffered /\ ~HasRun(buffered)
    BY <1>0, <1>2, ConcatEmptySeq DEF Open, Launching, Underway, TypeOK, targetVars
  <2>3. Unread' = {} /\ ~EventUnread'
    BY <1>0, <1>2, <2>1 DEF Open, Launching, TypeOK, Unread, EventUnread
  <2>4. current' = Null /\ traces' = {} /\ begun' = runs' /\ ui' # "stopped"
    BY <1>0, <1>2, <2>1 DEF Open, Launching
  <2>5. TracesFirst(Underway') /\ ~HasRun(Underway')
    BY <2>2 DEF TracesFirst, HasRun
  <2> QED
    BY <2>3, <2>4, <2>5 DEF Traced
<1>3. CASE ConfigurationDoneRequest \/ Resume
  <2>1. /\ ui \in {"configuring", "stopped"} /\ ui' = "running" /\ runs' = runs + 1
        /\ UNCHANGED <<read, replies, begunAt, current, gone, begun, traces, ws>>
    BY <1>3 DEF ConfigurationDoneRequest, Resume, targetVars
  <2> SUFFICES ASSUME ws = "open" PROVE Traced'
    BY <2>1 DEF Traced
  <2>2. current = Null /\ ~EventUnread /\ ~HasRun(Underway)
    BY <1>0, <2>1 DEF OneRun
  <2>3. /\ HasRun(Underway') /\ HasTrace(Underway') = HasTrace(Underway) /\ TracesFirst(Underway')
    <3>1. PICK t \in Seq(Message) : Sent(t) /\ HasRun(t) /\ ~HasTrace(t)
      BY <1>0, <1>3, RunSpeech
    <3>2. Underway' = Underway \o t /\ Underway \in Seq(Message) /\ TracesFirst(Underway)
      BY <3>1 DEF Sent, Traced
    <3>3. HasTrace(Underway') <=> HasTrace(Underway)
      BY <3>1, <3>2, StreamEnd
    <3> QED
      BY <3>1, <3>2, <3>3, StreamEnd DEF HasTrace
  <2>4. Unread' = Unread /\ EventUnread' = EventUnread /\ Answered' = Answered
    BY <1>a, <2>1
  <2>5. ~gone => begun' + 1 = runs'
    BY <2>1, <2>2 DEF Traced
  <2> QED
    BY <2>1, <2>2, <2>3, <2>4, <2>5 DEF Traced
<1>4. CASE Accept
  <2>1. /\ uplink # <<>> /\ uplink' = Tail(uplink) /\ requests' = Append(requests, Head(uplink))
        /\ UNCHANGED <<ui, read, replies, begunAt, current, gone, begun, runs, traces, ws>>
    BY <1>4 DEF Accept, Target!Accept, clientVars, launchVars
  <2>2. Underway' = Underway
    BY <1>0, <2>1, AcceptStream
  <2> QED
    BY <1>a, <2>1, <2>2 DEF Traced
<1>5. ASSUME requests # <<>>, requests' = Tail(requests), uplink' = uplink, ws = "open"
      PROVE  /\ HasRun(Underway) <=> Head(requests).action = "run" \/ HasRun(Underway')
             /\ HasTrace(Underway) <=> Head(requests).action = "getRegisters" \/ HasTrace(Underway')
             /\ TracesFirst(Underway') /\ ~(Head(requests).action = "run" /\ HasTrace(Underway'))
             /\ Head(requests) \in Message
  <2>1. /\ Underway \in Seq(Message) /\ Underway # <<>> /\ Underway' = Tail(Underway)
        /\ Head(Underway) = Head(requests) /\ Head(requests) \in Message
    BY <1>0, <1>5, TakeStream
  <2> QED
    BY <1>5, <2>1, StreamFront DEF Traced
<1>6. CASE Reply
  <2>1. /\ ~gone /\ requests # <<>> /\ requests' = Tail(requests)
        /\ Head(requests).action = "run" => current # Null
        /\ UNCHANGED <<ui, uplink, read, runs, begun, current, gone, traces, ws>>
        /\ replies' = Append(replies, Target!Response(Head(requests)))
        /\ begunAt' = Append(begunAt, begun)
    BY <1>6 DEF Reply, Target!Reply, Target!Take, clientVars, launchVars
  <2> SUFFICES ASSUME ws = "open" PROVE Traced'
    BY <2>1 DEF Traced
  <2>2. /\ Target!Response(Head(requests)) \in Answer /\ begun \in Nat
        /\ Target!Response(Head(requests)).kind = "response"
        /\ Target!Response(Head(requests)) = RegistersReply <=> Head(requests).action = "getRegisters"
    BY <1>0, <1>5, <2>1, Answers, Replies DEF TypeOK
  <2>3. PICK k : /\ Unread' = Unread \cup {k} /\ k \notin Unread /\ k \in Nat
                 /\ replies'[k] = Target!Response(Head(requests)) /\ begunAt'[k] = begun
                 /\ \A i \in Unread : /\ replies'[i] = replies[i] /\ begunAt'[i] = begunAt[i]
                                      /\ i \in Nat /\ i < k
    <3>1. Len(replies) + 1 \in Nat
      BY <1>0, LenProperties DEF HistoriesOK
    <3> QED
      BY <1>0, <2>1, <2>2, <3>1, Replied
  <2>4. EventUnread' = EventUnread
    BY <2>2, <2>3 DEF EventUnread
  <2>5. Head(requests).action # "run" /\ HasRun(Underway') = HasRun(Underway)
    BY <1>0, <1>5, <2>1 DEF OneRun, HasRun
  <2>6. Answered => Answered'
    BY <2>3 DEF Answered
  <2>7. Head(requests).action = "getRegisters" => Answered'
    <3> SUFFICES ASSUME Head(requests).action = "getRegisters" PROVE Answered'
      OBVIOUS
    <3>1. ~EventUnread'
      BY <1>5, <2>1, <2>4 DEF Traced
    <3> QED
      BY <2>2, <2>3, <3>1 DEF Answered, EventUnread
  <2>8. HasTrace(Underway') => HasTrace(Underway)
    BY <1>5, <2>1
  <2>9. traces' # {} => \/ Answered'
                        \/ ~EventUnread' /\ current' = Null /\ (HasTrace(Underway') \/ gone')
    BY <1>5, <2>1, <2>4, <2>6, <2>7 DEF Traced
  <2>10. \A i \in Unread' : replies'[i] = RegistersReply => \A r \in traces' : begunAt'[i] = r
    BY <1>5, <2>1, <2>2, <2>3 DEF Traced
  <2>11. \A e \in Unread' : replies'[e].kind = "event" => \A i \in Unread' : e <= i => begunAt'[i] = begun'
    BY <2>1, <2>2, <2>3 DEF Traced
  <2>12. ui' = "stopped" => /\ begun' = runs' /\ traces' \subseteq {runs'}
                            /\ \A i \in Unread' : replies'[i] = RegistersReply => begunAt'[i] = runs'
    BY <2>1, <2>3 DEF Traced
  <2>13. TracesFirst(Underway')
    BY <1>5, <2>1
  <2> QED
    BY <2>1, <2>4, <2>5, <2>8, <2>9, <2>10, <2>11, <2>12, <2>13 DEF Traced
<1>7. CASE Begin
  <2>1. /\ ~gone /\ requests # <<>> /\ requests' = Tail(requests) /\ current = Null
        /\ UNCHANGED <<ui, uplink, read, runs, replies, begunAt, traces, ws, gone>>
        /\ Head(requests).action = "run" /\ current' = Head(requests) /\ begun' = begun + 1
    BY <1>7 DEF Begin, Target!Begin, Target!Take, clientVars, launchVars
  <2> SUFFICES ASSUME ws = "open" PROVE Traced'
    BY <2>1 DEF Traced
  <2>2. HasRun(Underway) /\ ~HasTrace(Underway') /\ ~HasTrace(Underway) /\ TracesFirst(Underway')
    BY <1>5, <2>1
  <2>3. ~EventUnread /\ ui # "stopped" /\ begun' = runs' /\ current' # Null
    BY <1>0, <2>1, <2>2, SessionAssumption, <1>5 DEF OneRun, Traced
  <2>4. ~HasRun(Underway')
    BY <1>0, <2>3 DEF OneRun
  <2>5. Unread' = Unread /\ EventUnread' = EventUnread /\ Answered' = Answered
    BY <1>a, <2>1
  <2>6. traces # {} => Answered
    BY <2>1, <2>2 DEF Traced
  <2>7. \A e \in Unread' : replies'[e].kind # "event"
    BY <2>1, <2>3, <2>5 DEF EventUnread
  <2> QED
    BY <2>1, <2>2, <2>3, <2>4, <2>5, <2>6, <2>7 DEF Traced
<1>8. CASE Stop
  <2>1. PICK r \in Target!Reasons : Target!Stop(r)
    BY <1>8 DEF Stop
  <2>2. /\ ~gone /\ current # Null /\ current' = Null
        /\ UNCHANGED <<ui, uplink, requests, read, runs, begun, gone, traces, ws>>
        /\ replies' = replies \o <<Target!Event(r), Target!Response(current)>>
        /\ begunAt' = begunAt \o <<begun, begun>>
    BY <1>8, <2>1 DEF Stop, Target!Stop, clientVars, launchVars
  <2> SUFFICES ASSUME ws = "open" PROVE Traced'
    BY <2>2 DEF Traced
  <2>3. /\ Target!Event(r) \in Answer /\ Target!Response(current) \in Answer /\ begun \in Nat
        /\ Target!Event(r).kind = "event" /\ current \in Message
    BY <1>0, <2>2, Answers DEF TypeOK
  <2>4. Target!Response(current) # RegistersReply /\ Target!Event(r) # RegistersReply
    BY <2>2, <2>3, Replies DEF Traced
  <2>5. PICK k : /\ Unread' = Unread \cup {k, k + 1} /\ k \in Nat
                 /\ replies'[k] # RegistersReply /\ replies'[k + 1] # RegistersReply
                 /\ begunAt'[k] = begun /\ begunAt'[k + 1] = begun
                 /\ \A i \in Unread : /\ replies'[i] = replies[i] /\ begunAt'[i] = begunAt[i]
                                      /\ i \in Nat /\ i < k
    <3>1. Len(replies) + 1 \in Nat
      BY <1>0, LenProperties DEF HistoriesOK
    <3> QED
      BY <1>0, <2>2, <2>3, <2>4, <3>1, RepliedTwice
  <2>6. ~EventUnread /\ ~HasRun(Underway) /\ ui # "stopped" /\ ~HasTrace(Underway) /\ begun = runs
    BY <1>0, <2>2 DEF OneRun, Traced
  <2>7. Underway' = Underway
    BY <2>2 DEF Underway
  <2>8. Answered => Answered'
    BY <2>5 DEF Answered
  <2>9. traces' # {} => Answered'
    BY <2>2, <2>8 DEF Traced
  <2>10. \A i \in Unread' : replies'[i] = RegistersReply => \A x \in traces' : begunAt'[i] = x
    BY <2>2, <2>5 DEF Traced
  <2>11. \A e \in Unread' : replies'[e].kind = "event" => \A i \in Unread' : e <= i => begunAt'[i] = begun'
    <3> SUFFICES ASSUME NEW e \in Unread', replies'[e].kind = "event", NEW i \in Unread', e <= i
                 PROVE  begunAt'[i] = begun
      BY <2>2
    <3>1. e \notin Unread
      BY <2>5, <2>6 DEF EventUnread
    <3> QED
      BY <2>5, <3>1
  <2> QED
    BY <2>2, <2>6, <2>7, <2>9, <2>10, <2>11 DEF Traced
<1>9. CASE Leave
  <2>1. /\ requests' = requests \/ (requests # <<>> /\ requests' = Tail(requests))
        /\ current = Null /\ gone' = TRUE
        /\ UNCHANGED <<ui, uplink, read, runs, begun, begunAt, replies, current, traces, ws>>
    BY <1>9 DEF Leave, Target!Leave, clientVars, launchVars
  <2> SUFFICES ASSUME ws = "open" PROVE Traced'
    BY <2>1 DEF Traced
  <2>2. (HasTrace(Underway') => HasTrace(Underway)) /\ TracesFirst(Underway')
    <3>1. CASE requests' = requests
      BY <2>1, <3>1 DEF Underway, Traced
    <3>2. CASE requests # <<>> /\ requests' = Tail(requests)
      BY <1>5, <2>1, <3>2
    <3> QED
      BY <2>1, <3>1, <3>2
  <2>3. Unread' = Unread /\ EventUnread' = EventUnread /\ Answered' = Answered
    BY <1>a, <2>1
  <2> QED
    BY <2>1, <2>2, <2>3 DEF Traced
<1>10. CASE UNCHANGED vars
  <2>1. UNCHANGED <<ui, read, replies, begunAt, current, gone, begun, runs, traces, ws, requests, uplink>>
    BY <1>10 DEF vars, launchVars, targetVars
  <2>2. Underway' = Underway
    BY <2>1 DEF Underway
  <2> QED
    BY <1>a, <2>1, <2>2 DEF Traced
<1> QED
  BY <1>1, <1>2, <1>3, <1>4, <1>6, <1>7, <1>8, <1>9, <1>10
     DEF Next, LaunchRequest, Editor, OnMessage, Speaking, Silent

\* A stack trace is made of registers read in the stop it was asked in, however
\* soon the program was resumed and however late the registers come (Traced).
THEOREM TracesOfTheirStop == Spec => TraceOfItsStop
<1>1. Init => Inv /\ Traced
  BY InvInit DEF Init, Traced
<1>2. Inv /\ Traced /\ [Next]_vars => (Inv /\ Traced)'
  <2> SUFFICES ASSUME Inv, Traced, [Next]_vars PROVE Inv' /\ Traced'
    OBVIOUS
  <2>1. Inv'
    BY TypeStep, LaunchingStep, OneRunStep DEF Inv
  <2> QED
    BY <2>1, TracedStep
<1>3. Inv /\ Traced /\ [Next]_vars
      => [read' # read /\ replies[read'] = Target!Response(M("getRegisters"))
          => \A run \in traces : begunAt[read'] = run]_vars
  <2> SUFFICES ASSUME Inv, Traced, Next, read' # read, replies[read'] = RegistersReply
               PROVE  \A run \in traces : begunAt[read'] = run
    BY DEF RegistersReply
  <2>1. OnMessage
    BY DEF Next, LaunchRequest, Launch, EmulatorDelay, Initialize, LoadImage, LaunchRefused, DebugInfoFails, Open,
           Lost, Timeout, Editor, SetBreakPointsRequest, ConfigurationDoneRequest, Resume, PauseRequest,
           StackTraceRequest, DisconnectRequest, Accept, Reply, Begin, Stop, Leave, clientVars
  <2>2. ws = "open" /\ read < Len(replies) /\ read' = read + 1 /\ replies' = replies
    BY <2>1 DEF OnMessage, OnLoaded, OnLoadFailed, OnRegisters, OnOtherResponse, OnStopped,
                Incoming, targetVars
  <2>3. read' \in Unread
    BY <2>2, ReadOn DEF Inv
  <2> QED
    BY <2>2, <2>3 DEF Traced
<1> QED
  BY <1>1, <1>2, <1>3, PTL DEF Spec, TraceOfItsStop

================================================================================
