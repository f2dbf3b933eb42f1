---------------------------- MODULE EmuServerProof ----------------------------
(***************************************************************************)
(* Proofs about EmuServer, for every program, every set of requests and any *)
(* number of systems.                                                       *)
(***************************************************************************)
EXTENDS EmuServer, SequenceTheorems, TLAPS

InRun == thread \in {"clock", "poll", "decide"}

\* A run knows its request and its system; before its clock and after it, until
\* a request is handled, nothing has paused it.
Shape ==
    /\ messageQueue \in Seq(Messages)
    /\ InRun <=> current # Null
    /\ InRun => /\ current \in Messages /\ current.action \in Starting
                /\ adapter \in System /\ debugEnvironment \in System
                /\ adapter <= debugEnvironment /\ origin \in CpuState
    /\ ~InRun => ~simulationRunning
    /\ thread \in {"clock", "poll"} => simulationRunning

TypeInv == TypeOK /\ Shape

--------------------------------------------------------------------------------
\* What the clock and a reset make of a processor.
LEMMA ExecuteType == ASSUME NEW s \in CpuState PROVE Execute(s) \in CpuState
<1>1. /\ s.program \in Programs /\ s.inst \in Addr /\ Succ[s.inst] \in Addr
      /\ Kind[s.program][s.inst] \in Kinds
  BY ProgramAssumption DEF CpuState
<1>2. Done(s) \in CpuState
  BY DEF Done, CpuState
<1>3. CASE s.vector # "none"
  <2>1. s.vector \in Vectors /\ Entry[s.program][s.vector] \in Addr \cup {Odd}
    BY <1>1, <1>3, ProgramAssumption DEF CpuState
  <2>2. Enter(s) \in CpuState
    BY <1>2, <2>1 DEF Enter, CpuState, Statuses, Vectors
  <2> QED
    BY <1>3, <2>2 DEF Execute
<1>4. CASE s.vector = "none"
  BY <1>1, <1>2, <1>4 DEF Execute, CpuState, Kinds, Statuses, Vectors
<1> QED
  BY <1>3, <1>4

\* So does the fetch clock.
LEMMA FetchType == ASSUME NEW s \in CpuState PROVE Fetch(s) \in CpuState
BY ProgramAssumption DEF Fetch, CpuState

\* A clock leads from a state of the processor to one.
LEMMA ClockType == ASSUME NEW s \in CpuState PROVE Clock(s) \in CpuState
<1>1. [s EXCEPT !.phase = @ + 1] \in CpuState
  BY DEF CpuState
<1> QED
  BY <1>1, FetchType, ExecuteType DEF Clock

\* So does a reset.
LEMMA ResetType == ASSUME NEW s \in CpuState PROVE ResetCpu(s) \in CpuState
BY DEF ResetCpu, CpuState, Statuses, Vectors

\* The conditions a request asks for, and those that hold, are conditions.
LEMMA CondsType == ASSUME NEW m \in Messages PROVE StopConds(m) \subseteq Conditions
BY BoundsAssumption DEF StopConds, Message

\* What a queue of requests gives and keeps.
LEMMA PollType ==
    ASSUME messageQueue \in Seq(Messages), Poll
    PROVE  Head(messageQueue) \in Messages /\ messageQueue' \in Seq(Messages)
BY HeadTailProperties DEF Poll

\* The requests of the server are messages of the contract.
LEMMA QueueOfMessage == Seq(Messages) \subseteq Seq(Message)
BY BoundsAssumption

\* A reply is a pair of a kind and what it is of.
Reply == [kind: {"response", "event"}, of: Action \cup Reasons]

\* A response is a reply of the contract.
LEMMA ResponseType ==
    ASSUME NEW m \in Messages PROVE Response(m) \in Reply
BY BoundsAssumption DEF Response, Reply, Message

\* So is a stop event.
LEMMA EventType ==
    ASSUME NEW reason \in Reasons PROVE Event(reason) \in Reply
BY DEF Event, Reply

\* The handlers that answer at once keep the types, never replace a system by an
\* older one and only PAUSE ends simulationRunning.
LEMMA HandleType ==
    ASSUME TypeInv, NEW m \in Messages, Handle(m)
    PROVE  /\ simulationRunning' \in BOOLEAN
           /\ breakpoints' \subseteq Addr /\ lineLocations' \subseteq Addr
           /\ debugEnvironment' \in 0 .. MaxInits /\ debugEnvironment <= debugEnvironment'
           /\ cpu' \in [System -> CpuState]
           /\ simulationRunning' = (simulationRunning /\ m.action # "pause")
           /\ m.action \in Starting => simulationRunning
<1> USE DEF TypeInv, TypeOK
<1>1. m \in Message /\ m.addrs \subseteq Addr /\ m.action \in Action
  BY BoundsAssumption DEF Message
<1>2. debugEnvironment \in Nat /\ debugEnvironment <= debugEnvironment /\ MaxInits \in Nat
  BY BoundsAssumption
<1>3. CASE HandleBreakpoints(m)
  BY <1>1, <1>2, <1>3 DEF HandleBreakpoints, Starting
<1>4. CASE HandleLineLocations(m)
  BY <1>1, <1>2, <1>4 DEF HandleLineLocations, Starting
<1>5. CASE HandlePause(m)
  BY <1>1, <1>2, <1>5 DEF HandlePause, Starting
<1>6. CASE HandleReset(m) /\ ~Throws(m)
  <2>1. debugEnvironment \in System
    BY <1>2, <1>6 DEF HandleReset, Throws, NeedsSystem, System
  <2>2. ResetCpu(cpu[debugEnvironment]) \in CpuState
    BY <2>1, ResetType
  <2> QED
    BY <1>2, <1>6, <2>2 DEF HandleReset, Starting
<1>7. CASE HandleInit(m)
  <2>1. debugEnvironment' \in 0 .. MaxInits /\ debugEnvironment <= debugEnvironment'
    BY <1>2, <1>7 DEF HandleInit, System
  <2> QED
    BY <1>7, <2>1 DEF HandleInit, Starting
<1>8. CASE HandleQuery(m)
  BY <1>2, <1>8 DEF HandleQuery, fieldVars, Starting
<1>9. CASE HandleNestedRun(m)
  BY <1>2, <1>9 DEF HandleNestedRun, fieldVars, Starting
<1>10. HandleReset(m) => ~Throws(m)
  BY DEF Handle, HandleReset
<1> QED
  BY <1>3, <1>4, <1>5, <1>6, <1>7, <1>8, <1>9, <1>10 DEF Handle

\* The reason of the stop event of an accepted state: "pause" when the run was
\* paused, otherwise what it asked for or "halt".
LEMMA ReasonOfStop ==
    ASSUME TypeInv, NEW s \in CpuState, current \in Messages, Accepts(s)
    PROVE  /\ Reason(s) \in Reasons
           /\ IF ~simulationRunning THEN Reason(s) = "pause"
              ELSE Reason(s) \in StopConds(current) \cup {"halt"}
<1> DEFINE hit == Check(s, StopConds(current))
<1>1. hit \subseteq StopConds(current) /\ StopConds(current) \subseteq Conditions
  BY CondsType DEF Check
<1>2. ~simulationRunning \/ IsHalted(s) \/ hit # {}
  BY DEF Accepts
<1>3. Reason(s) = IF ~simulationRunning THEN "pause"
                  ELSE IF IsHalted(s) THEN "halt"
                  ELSE IF "exception" \in hit THEN "exception"
                  ELSE IF "breakpoint" \in hit THEN "breakpoint"
                  ELSE IF "line" \in hit THEN "line"
                  ELSE IF "fetch" \in hit THEN "fetch"
                  ELSE "unknown"
  BY Zenon DEF Reason
<1> HIDE DEF hit
<1>4. hit # {} => \/ "exception" \in hit \/ "breakpoint" \in hit
                  \/ "line" \in hit \/ "fetch" \in hit
  BY <1>1 DEF Conditions
<1>5. Reason(s) \in Reasons
  BY <1>3 DEF Reasons, Conditions
<1>6. IF ~simulationRunning THEN Reason(s) = "pause"
      ELSE Reason(s) \in StopConds(current) \cup {"halt"}
  BY <1>1, <1>2, <1>3, <1>4
<1> QED
  BY <1>5, <1>6

--------------------------------------------------------------------------------
\* The server starts without a project.
LEMMA TypeInit == Init => TypeInv
<1> SUFFICES ASSUME Init PROVE TypeInv
  OBVIOUS
<1>1. <<>> \in Seq(Message) /\ <<>> \in Seq(Messages) /\ <<>> \in Seq(Reply)
  OBVIOUS
<1>2. \A p \in Programs : [program |-> p, pc |-> 0, inst |-> 0, phase |-> 0, fetch |-> TRUE,
                           status |-> "running", vector |-> "none"] \in CpuState
  BY ProgramAssumption DEF CpuState, Statuses
<1>3. cpu \in [System -> CpuState]
  BY <1>2, ResetType DEF Init, NewCpu
<1>4. 0 \in 0 .. MaxMessages /\ 0 \in 0 .. MaxInits
  BY BoundsAssumption
<1>5. TypeOK
  BY <1>1, <1>3, <1>4 DEF Init, TypeOK, Reply
<1> QED
  BY <1>1, <1>5 DEF Init, TypeInv, Shape, InRun

\* Every step keeps the types and the shape of the handler thread.
LEMMA TypeStep == TypeInv /\ [Next]_vars => TypeInv'
<1> SUFFICES ASSUME TypeInv, [Next]_vars PROVE TypeInv'
  OBVIOUS
<1> DEFINE m == Head(messageQueue)
<1>1. ASSUME Poll
      PROVE  m \in Messages /\ messageQueue' \in Seq(Messages) /\ messageQueue' \in Seq(Message)
  BY <1>1, PollType, QueueOfMessage DEF TypeInv, Shape
<1>2. replies \in Seq(Reply)
  BY DEF TypeInv, TypeOK, Reply
<1>3. ASSUME NEW r \in Reply PROVE Append(replies, r) \in Seq(Reply)
  BY <1>2, AppendProperties
<1>4. Seq(Reply) = Seq([kind: {"response", "event"}, of: Action \cup Reasons])
  BY DEF Reply
<1> HIDE DEF m
<1>5. ASSUME NEW n \in Messages, OnMessage(n) PROVE TypeInv'
  <2>1. messageQueue' \in Seq(Messages) /\ messageQueue' \in Seq(Message)
    BY <1>5, AppendProperties, QueueOfMessage DEF OnMessage, TypeInv, Shape
  <2>2. accepted' \in 0 .. MaxMessages
    BY <1>5, BoundsAssumption DEF OnMessage, TypeInv, TypeOK
  <2> QED
    BY <1>5, <2>1, <2>2 DEF OnMessage, TypeInv, TypeOK, Shape, InRun, runVars, fieldVars
<1>6. CASE RequestStop
  BY <1>6 DEF RequestStop, TypeInv, TypeOK, Shape, InRun, runVars, fieldVars
<1>7. CASE HandleMessage
  <2>1. Poll /\ Handle(m) /\ thread = "idle" /\ replies' = Append(replies, Response(m))
    BY <1>7 DEF HandleMessage, m
  <2>2. replies' \in Seq(Reply)
    BY <1>1, <1>3, <2>1, ResponseType
  <2>3. /\ simulationRunning' \in BOOLEAN /\ (simulationRunning' => simulationRunning)
        /\ breakpoints' \subseteq Addr /\ lineLocations' \subseteq Addr
        /\ debugEnvironment' \in 0 .. MaxInits /\ cpu' \in [System -> CpuState]
    BY <1>1, <2>1, HandleType
  <2>4. UNCHANGED <<accepted, thread, current, adapter, origin, stopRequested>>
    BY <1>7 DEF HandleMessage, runVars
  <2> QED
    BY <1>1, <1>4, <2>1, <2>2, <2>3, <2>4 DEF TypeInv, TypeOK, Shape, InRun
<1>8. CASE Die
  BY <1>1, <1>8 DEF Die, TypeInv, TypeOK, Shape, InRun, fieldVars
<1>9. CASE End
  BY <1>9 DEF End, TypeInv, TypeOK, Shape, InRun, fieldVars
<1>10. CASE BeginRun
  <2>1. Poll /\ current' = m /\ m.action \in Starting /\ ~Throws(m)
    BY <1>10 DEF BeginRun, m
  <2>2. debugEnvironment \in System
    BY <2>1, BoundsAssumption DEF Throws, NeedsSystem, System, TypeInv, TypeOK
  <2>3. current' \in Messages /\ current' \in Message /\ current' # Null
    BY <1>1, <2>1, BoundsAssumption
  <2>4. cpu[debugEnvironment] \in CpuState
    BY <2>2 DEF TypeInv, TypeOK
  <2>5. /\ thread' = "clock" /\ simulationRunning' = TRUE /\ adapter' = debugEnvironment
        /\ origin' = cpu[debugEnvironment]
        /\ UNCHANGED <<accepted, replies, breakpoints, lineLocations, debugEnvironment,
                       cpu, stopRequested>>
    BY <1>10 DEF BeginRun
  <2>6. adapter' <= debugEnvironment' /\ adapter' \in 0 .. MaxInits
    BY <2>5 DEF TypeInv, TypeOK
  <2>7. TypeOK'
    BY <1>1, <2>1, <2>3, <2>4, <2>5, <2>6 DEF TypeInv, TypeOK
  <2> QED
    BY <1>1, <2>1, <2>2, <2>3, <2>4, <2>5, <2>6, <2>7 DEF TypeInv, Shape, InRun
<1>11. CASE ClockSystem
  <2>1. thread = "clock" /\ thread' = "poll" /\ debugEnvironment \in System
    BY <1>11 DEF ClockSystem, TypeInv, Shape, InRun
  <2>2. Clock(cpu[debugEnvironment]) \in CpuState
    BY <2>1, ClockType DEF TypeInv, TypeOK
  <2>3. cpu' \in [System -> CpuState]
    BY <1>11, <2>2 DEF ClockSystem, TypeInv, TypeOK
  <2> QED
    BY <1>11, <2>1, <2>3 DEF ClockSystem, TypeInv, TypeOK, Shape, InRun
<1>12. CASE PollEmpty
  BY <1>12 DEF PollEmpty, TypeInv, TypeOK, Shape, InRun, fieldVars
<1>13. CASE PollInterrupted
  BY <1>13 DEF PollInterrupted, TypeInv, TypeOK, Shape, InRun, fieldVars
<1>14. CASE PollHandle
  <2>1. /\ Poll /\ Handle(m) /\ thread = "poll" /\ thread' = "decide"
        /\ replies' = Append(replies, Response(m))
    BY <1>14 DEF PollHandle, m
  <2>2. replies' \in Seq(Reply)
    BY <1>1, <1>3, <2>1, ResponseType
  <2>3. /\ simulationRunning' \in BOOLEAN
        /\ breakpoints' \subseteq Addr /\ lineLocations' \subseteq Addr
        /\ debugEnvironment' \in 0 .. MaxInits /\ cpu' \in [System -> CpuState]
        /\ debugEnvironment <= debugEnvironment'
    BY <1>1, <2>1, HandleType
  <2>4. UNCHANGED <<accepted, current, adapter, origin, stopRequested>>
    BY <1>14 DEF PollHandle
  <2>5. /\ current # Null /\ current \in Messages /\ current.action \in Starting
        /\ adapter \in System /\ debugEnvironment \in System
        /\ adapter <= debugEnvironment /\ origin \in CpuState
    BY <2>1 DEF TypeInv, Shape, InRun
  <2>6. debugEnvironment' \in System /\ adapter <= debugEnvironment'
    BY <2>3, <2>5, BoundsAssumption DEF System
  <2>7. TypeOK'
    BY <1>1, <1>4, <2>1, <2>2, <2>3, <2>4 DEF TypeInv, TypeOK
  <2> QED
    BY <1>1, <2>1, <2>4, <2>5, <2>6, <2>7 DEF TypeInv, Shape, InRun
<1>15. CASE Continue
  <2>1. simulationRunning
    BY <1>15 DEF Continue, Accepts
  <2> QED
    BY <1>15, <2>1 DEF Continue, TypeInv, TypeOK, Shape, InRun, fieldVars
<1>16. CASE StopRun
  <2>1. current \in Messages /\ cpu[adapter] \in CpuState /\ Accepts(cpu[adapter])
    BY <1>16 DEF StopRun, TypeInv, TypeOK, Shape, InRun
  <2>2. Response(current) \in Reply /\ Event(Reason(cpu[adapter])) \in Reply
    BY <2>1, ReasonOfStop, ResponseType, EventType
  <2>3. <<Event(Reason(cpu[adapter])), Response(current)>> \in Seq(Reply)
    BY <2>2
  <2>4. replies' \in Seq(Reply)
    BY <1>2, <1>16, <2>3, ConcatProperties DEF StopRun
  <2> QED
    BY <1>4, <1>16, <2>4 DEF StopRun, TypeInv, TypeOK, Shape, InRun
<1>17. CASE UNCHANGED vars
  BY <1>17 DEF vars, runVars, fieldVars, TypeInv, TypeOK, Shape, InRun
<1> QED
  BY <1>5, <1>6, <1>7, <1>8, <1>9, <1>10, <1>11, <1>12, <1>13, <1>14, <1>15, <1>16, <1>17
     DEF Next, Handler

\* Every field keeps its type in every reachable state (the fields of Server,
\* MessageHandler and ServerMessageHandler).
THEOREM TypeCorrect == Spec => []TypeOK
<1>1. TypeInv => TypeOK
  BY DEF TypeInv
<1> QED
  BY <1>1, TypeInit, TypeStep, PTL DEF Spec

--------------------------------------------------------------------------------
\* Every step of the emulator is a step of DebugTarget or leaves it alone.
LEMMA TargetStep == TypeInv /\ [Next]_vars => [Target!Next]_(Target!vars)
<1> SUFFICES ASSUME TypeInv, [Next]_vars PROVE [Target!Next]_(Target!vars)
  OBVIOUS
<1> DEFINE m == Head(messageQueue)
<1>1. ASSUME Poll PROVE m \in Messages /\ messageQueue # <<>> /\ messageQueue' = Tail(messageQueue)
  BY <1>1, PollType DEF Poll, TypeInv, Shape
<1> HIDE DEF m
<1>2. ASSUME NEW n \in Messages, OnMessage(n) PROVE Target!Accept(n)
  BY <1>2 DEF OnMessage, Target!Accept, runVars, fieldVars
<1>3. CASE RequestStop
  BY <1>3 DEF RequestStop, Target!vars, runVars, fieldVars
<1>4. CASE HandleMessage
  <2>1. Poll /\ Handle(m) /\ thread = "idle" /\ replies' = Append(replies, Response(m))
    BY <1>4 DEF HandleMessage, m
  <2>2. current = Null /\ ~simulationRunning /\ current' = current /\ thread' = thread
    BY <1>4, <2>1 DEF HandleMessage, runVars, TypeInv, Shape, InRun
  <2>3. m.action \notin Starting
    BY <1>1, <2>1, <2>2, HandleType
  <2>4. Target!Response(m) = Response(m)
    BY DEF Target!Response, Response
  <2>5. Target!Reply
    BY <1>1, <2>1, <2>2, <2>3, <2>4 DEF Target!Reply, Target!Take, m
  <2> QED
    BY <2>5 DEF Target!Next
<1>5. CASE Die
  <2>1. Poll /\ thread = "idle" /\ thread' = "dead" /\ UNCHANGED <<replies, current, simulationRunning>>
    BY <1>5 DEF Die, fieldVars
  <2>2. Target!Leave
    BY <1>1, <2>1 DEF Target!Leave, TypeInv, Shape, InRun
  <2> QED
    BY <2>2 DEF Target!Next
<1>6. CASE End
  <2>1. Target!Leave
    BY <1>6 DEF End, Target!Leave, TypeInv, Shape, InRun, fieldVars
  <2> QED
    BY <2>1 DEF Target!Next
<1>7. CASE BeginRun
  <2>1. Poll /\ m.action \in Starting /\ current' = m /\ thread = "idle" /\ thread' = "clock"
        /\ simulationRunning' = TRUE /\ replies' = replies
    BY <1>7 DEF BeginRun, m
  <2>2. current = Null
    BY <2>1 DEF TypeInv, Shape, InRun
  <2>3. Target!Begin
    BY <1>1, <2>1, <2>2 DEF Target!Begin, Target!Take, m
  <2> QED
    BY <2>3 DEF Target!Next
<1>8. CASE ClockSystem
  BY <1>8 DEF ClockSystem, Target!vars
<1>9. CASE PollEmpty
  BY <1>9 DEF PollEmpty, Target!vars, fieldVars
<1>10. CASE PollInterrupted
  BY <1>10 DEF PollInterrupted, Target!vars, fieldVars
<1>11. CASE PollHandle
  <2>1. /\ Poll /\ Handle(m) /\ thread = "poll" /\ thread' = "decide"
        /\ replies' = Append(replies, Response(m)) /\ current' = current
    BY <1>11 DEF PollHandle, m
  <2>2. current # Null /\ simulationRunning
    BY <2>1 DEF TypeInv, Shape, InRun
  <2>3. simulationRunning' = (m.action # "pause")
    BY <1>1, <2>1, <2>2, HandleType
  <2>4. Target!Response(m) = Response(m)
    BY DEF Target!Response, Response
  <2>5. messageQueue # <<>> /\ messageQueue' = Tail(messageQueue)
    BY <1>1, <2>1
  <2>6. thread \notin {"dead", "ended"} /\ thread' \notin {"dead", "ended"}
    BY <2>1
  <2>7. (current' # Null /\ ~simulationRunning') <=> (current # Null /\ m.action = "pause")
    BY <2>1, <2>2, <2>3
  <2>8. (thread' \in {"dead", "ended"}) = (thread \in {"dead", "ended"})
    BY <2>6
  <2>9. Target!Take
    BY <2>2, <2>5, <2>6 DEF Target!Take
  <2>10. (current' # Null /\ ~simulationRunning') = (current # Null /\ m.action = "pause")
    BY <2>7
  <2>11. Target!Reply
    BY <2>1, <2>2, <2>4, <2>8, <2>9, <2>10, Zenon DEF Target!Reply, m
  <2> QED
    BY <2>11 DEF Target!Next
<1>12. CASE Continue
  BY <1>12 DEF Continue, Target!vars, fieldVars
<1>13. CASE StopRun
  <2> DEFINE reason == Reason(cpu[adapter])
  <2>1. /\ thread = "decide" /\ thread' = "idle" /\ current' = Null /\ simulationRunning' = FALSE
        /\ replies' = replies \o <<Event(reason), Response(current)>>
        /\ messageQueue' = messageQueue
    BY <1>13 DEF StopRun
  <2>2. current \in Messages /\ current # Null /\ current.action \in Starting
        /\ cpu[adapter] \in CpuState /\ Accepts(cpu[adapter])
    BY <1>13 DEF StopRun, TypeInv, TypeOK, Shape, InRun
  <2>3. IF ~simulationRunning THEN reason = "pause"
        ELSE reason \in StopConds(current) \cup {"halt"}
    BY <2>2, ReasonOfStop
  <2> HIDE DEF reason
  <2>4. Target!Event(reason) = Event(reason) /\ Target!Response(current) = Response(current)
    BY DEF Target!Event, Event, Target!Response, Response
  <2>5. reason \in Target!Reasons
    BY <2>2, <2>3 DEF Target!Reasons
  <2>6. Target!Stop(reason)
    BY <2>1, <2>2, <2>3, <2>4 DEF Target!Stop
  <2> QED
    BY <2>5, <2>6 DEF Target!Next
<1>14. CASE UNCHANGED vars
  BY <1>14 DEF vars, runVars, fieldVars, Target!vars
<1> QED
  BY <1>2, <1>3, <1>4, <1>5, <1>6, <1>7, <1>8, <1>9, <1>10, <1>11, <1>12, <1>13, <1>14
     DEF Next, Handler, Target!Next

\* The emulator is a debug target (DebugTarget): requests are answered once and
\* in order, a run ends with one stop event for a reason it asked for, and a
\* PAUSE is followed by it (MessageHandler.handleMessage, runSimulation).
THEOREM Implements == Spec => Target!Init /\ [][Target!Next]_(Target!vars)
<1>1. Init => Target!Init
  BY DEF Init, Target!Init
<1> QED
  BY <1>1, TypeInit, TypeStep, TargetStep, PTL DEF Spec

--------------------------------------------------------------------------------
\* Before its clock a run is where it began, or has just been tested.
Tested == thread = "clock" => cpu[debugEnvironment] = origin \/ ~Accepts(cpu[adapter])

\* A clock is followed by a test before the next one.
LEMMA TestedStep == TypeInv /\ Tested /\ [Next]_vars => Tested'
<1> SUFFICES ASSUME TypeInv, Tested, [Next]_vars, thread' = "clock" PROVE Tested'
  BY DEF Tested
<1> USE DEF Tested, Accepts, Check
<1>1. ASSUME NEW n \in Messages, OnMessage(n) PROVE Tested'
  BY <1>1 DEF OnMessage, runVars, fieldVars
<1>2. CASE RequestStop
  BY <1>2 DEF RequestStop, runVars, fieldVars
<1>3. CASE HandleMessage
  BY <1>3 DEF HandleMessage, runVars
<1>4. CASE BeginRun
  BY <1>4 DEF BeginRun
<1>5. CASE Continue
  BY <1>5 DEF Continue, fieldVars
<1>6. CASE Die \/ End \/ ClockSystem \/ PollEmpty \/ PollInterrupted \/ PollHandle \/ StopRun
  BY <1>6 DEF Die, End, ClockSystem, PollEmpty, PollInterrupted, PollHandle, StopRun
<1>7. CASE UNCHANGED vars
  BY <1>7 DEF vars, runVars, fieldVars
<1> QED
  BY <1>1, <1>2, <1>3, <1>4, <1>5, <1>6, <1>7 DEF Next, Handler

\* A run passes no breakpoint but the one it starts on (runSimulation tests every
\* fetch before it clocks the system off it).
THEOREM BreakpointsHit == Spec => BreakpointHit
<1>1. Init => Tested
  BY DEF Init, Tested
<1>2. ASSUME TypeInv, Tested, PassesBreakpoint, adapter = debugEnvironment
      PROVE  cpu[adapter] = origin
  <2>1. thread = "clock" /\ "breakpoint" \in Check(cpu[adapter], StopConds(current))
    BY <1>2 DEF PassesBreakpoint, Check
  <2> QED
    BY <1>2, <2>1 DEF Tested, Accepts
<1>3. TypeInv /\ Tested /\ [Next]_vars
        => [PassesBreakpoint /\ adapter = debugEnvironment => cpu[adapter] = origin]_vars
  BY <1>2
<1> QED
  BY <1>1, <1>3, TypeInit, TypeStep, TestedStep, PTL DEF Spec, BreakpointHit

--------------------------------------------------------------------------------
\* In the middle of an instruction the processor differs from what the fetch left by
\* the phase; at its end it fetches again, or has faulted.
InMiddle(s, o) == /\ o.status = "running" /\ s.status = "running" /\ ~s.fetch
                  /\ [s EXCEPT !.phase = 0] = Fetch(o)
Ended(s, o) == s = Instruction(o)
Faulted(s) == s.status = "fault" /\ ~s.fetch

\* The instruction executed does not depend on the phase.
LEMMA ExecuteMiddle ==
    ASSUME NEW s \in CpuState, NEW o \in CpuState, InMiddle(s, o)
    PROVE  Execute(s) = Instruction(o)
<1> DEFINE t == [s EXCEPT !.phase = 0]
<1>1. t.vector = s.vector /\ t.program = s.program /\ t.inst = s.inst /\ Done(t) = Done(s)
  BY DEF CpuState, Done
<1>2. Instruction(o) = Execute(t)
  BY DEF InMiddle, Instruction
<1> HIDE DEF t
<1>3. Enter(t) = Enter(s)
  BY <1>1 DEF Enter
<1>4. Execute(t) = Execute(s)
  BY <1>1, <1>3 DEF Execute
<1> QED
  BY <1>2, <1>4

\* An instruction ends at a fetch, or at a fault that no clock leaves.
LEMMA InstructionEnds ==
    ASSUME NEW o \in CpuState, o.fetch
    PROVE  Instruction(o) \in CpuState /\ (Instruction(o).fetch \/ Faulted(Instruction(o)))
<1>1. CASE o.status # "running"
  BY <1>1 DEF Instruction
<1>2. CASE o.status = "running"
  <2> DEFINE f == Fetch(o)
  <2>1. f \in CpuState /\ Instruction(o) = Execute(f)
    BY <1>2, FetchType DEF Instruction
  <2> HIDE DEF f
  <2>2. Execute(f) \in CpuState /\ Kind[f.program][f.inst] \in Kinds
    BY <2>1, ExecuteType, ProgramAssumption DEF CpuState
  <2>3. CASE f.vector # "none"
    <3>1. Execute(f) = Enter(f)
      BY <2>3 DEF Execute
    <3>2. Enter(f).fetch \/ Faulted(Enter(f))
      BY <2>1 DEF Enter, Done, Faulted, CpuState
    <3> QED
      BY <2>1, <2>2, <3>1, <3>2
  <2>4. CASE f.vector = "none"
    <3>1. Execute(f).fetch
      BY <2>1, <2>2, <2>4 DEF Execute, Done, CpuState, Kinds
    <3> QED
      BY <2>1, <2>2, <3>1
  <2> QED
    BY <2>3, <2>4
<1> QED
  BY <1>1, <1>2

\* A clock goes on in the instruction or to its end.
LEMMA ClockInInstruction ==
    ASSUME NEW s \in CpuState, NEW o \in CpuState, o.fetch,
           s = o \/ InMiddle(s, o) \/ (Ended(s, o) /\ Faulted(s))
    PROVE  InMiddle(Clock(s), o) \/ Ended(Clock(s), o)
<1>1. CASE s = o
  <2>1. CASE o.status # "running"
    BY <1>1, <2>1 DEF Clock, Ended, Instruction
  <2>2. CASE o.status = "running"
    <3>1. Clock(s) = Fetch(o)
      BY <1>1, <2>2 DEF Clock
    <3>2. [Fetch(o) EXCEPT !.phase = 0] = Fetch(o) /\ Fetch(o).status = "running" /\ ~Fetch(o).fetch
      BY <2>2 DEF Fetch, CpuState
    <3> QED
      BY <2>2, <3>1, <3>2 DEF InMiddle
  <2> QED
    BY <2>1, <2>2
<1>2. CASE InMiddle(s, o)
  <2>1. CASE s.phase + 1 < Clocks(s)
    <3>1. Clock(s) = [s EXCEPT !.phase = @ + 1]
      BY <1>2, <2>1 DEF Clock, InMiddle
    <3>2. [Clock(s) EXCEPT !.phase = 0] = [s EXCEPT !.phase = 0]
      BY <3>1 DEF CpuState
    <3>3. Clock(s).status = s.status /\ Clock(s).fetch = s.fetch
      BY <3>1 DEF CpuState
    <3> QED
      BY <1>2, <3>2, <3>3 DEF InMiddle
  <2>2. CASE ~(s.phase + 1 < Clocks(s))
    <3>1. Clock(s) = Execute(s)
      BY <1>2, <2>2 DEF Clock, InMiddle
    <3> QED
      BY <1>2, <3>1, ExecuteMiddle DEF Ended
  <2> QED
    BY <2>1, <2>2
<1>3. CASE Ended(s, o) /\ Faulted(s)
  BY <1>3 DEF Clock, Faulted, Ended
<1> QED
  BY <1>1, <1>2, <1>3

\* The only handler that touches a processor is RESET.
LEMMA HandleCpu ==
    ASSUME TypeInv, NEW m, Handle(m)
    PROVE  cpu' = cpu \/ cpu' = [cpu EXCEPT ![debugEnvironment] = ResetCpu(@)]
BY DEF Handle, HandleBreakpoints, HandleLineLocations, HandlePause, HandleReset,
       HandleInit, HandleQuery, HandleNestedRun, fieldVars

\* How far a STEP has come: its system is still in use and it began at a fetch.
Stepping == /\ current # Null /\ current.action = "step"
            /\ origin.fetch /\ adapter = debugEnvironment
Clocked(s) == InMiddle(s, origin) \/ Ended(s, origin)
Unfinished(s) == s = origin \/ InMiddle(s, origin) \/ (Ended(s, origin) /\ Faulted(s))
JustReset(s) == s.vector = "startup" /\ s.fetch
Progress ==
    LET s == cpu[adapter] IN
    Stepping => /\ thread = "clock"  => Unfinished(s)
                /\ thread = "poll"   => Clocked(s)
                /\ thread = "decide" => Clocked(s) \/ JustReset(s)

\* A STEP that has not been paused stops at a fetch or at a halted processor.
LEMMA StepAccepts ==
    ASSUME current.action = "step", NEW s \in CpuState
    PROVE  /\ s.fetch => Accepts(s)
           /\ Accepts(s) /\ simulationRunning => s.fetch \/ IsHalted(s)
<1>1. StopConds(current) = Conditions
  BY DEF StopConds
<1>2. s.fetch => "fetch" \in Check(s, Conditions)
  BY DEF Check, Conditions
<1>3. ~s.fetch => Check(s, Conditions) = {}
  BY DEF Check
<1> QED
  BY <1>1, <1>2, <1>3, Zenon DEF Accepts

\* A STEP goes from clock to clock of its instruction.
LEMMA ProgressStep == TypeInv /\ Progress /\ [Next]_vars => Progress'
<1> SUFFICES ASSUME TypeInv, Progress, [Next]_vars, Stepping'
             PROVE  /\ thread' = "clock"  => Unfinished(cpu[adapter])'
                    /\ thread' = "poll"   => Clocked(cpu[adapter])'
                    /\ thread' = "decide" => Clocked(cpu[adapter])' \/ JustReset(cpu[adapter])'
  BY Zenon DEF Progress
<1> DEFINE s == cpu[adapter]
<1>1. ASSUME UNCHANGED <<current, adapter, origin, debugEnvironment, cpu>>
      PROVE  /\ Stepping /\ s' = s /\ (Unfinished(s)' <=> Unfinished(s))
             /\ (Clocked(s)' <=> Clocked(s)) /\ (JustReset(s)' <=> JustReset(s))
  BY <1>1 DEF Stepping, Unfinished, Clocked, JustReset, InMiddle, Ended
<1>2. CASE UNCHANGED <<thread, current, adapter, origin, debugEnvironment, cpu>>
  BY <1>1, <1>2 DEF Progress
<1>3. CASE BeginRun
  BY <1>3 DEF BeginRun, Unfinished
<1>4. CASE ClockSystem
  <2>1. /\ thread = "clock" /\ thread' = "poll" /\ Stepping
        /\ UNCHANGED <<adapter, origin>> /\ cpu' = [cpu EXCEPT ![adapter] = Clock(@)]
    BY <1>4 DEF ClockSystem, Stepping
  <2>2. adapter \in System /\ origin \in CpuState
    BY <2>1 DEF Stepping, TypeInv, Shape, InRun
  <2>3. s' = Clock(s) /\ s \in CpuState
    BY <2>1, <2>2 DEF TypeInv, TypeOK
  <2>4. Unfinished(s) /\ origin.fetch
    BY <2>1 DEF Progress, Stepping
  <2>5. InMiddle(Clock(s), origin) \/ Ended(Clock(s), origin)
    BY <2>2, <2>3, <2>4, ClockInInstruction DEF Unfinished
  <2> QED
    BY <2>1, <2>3, <2>5 DEF Clocked, InMiddle, Ended
<1>5. CASE PollHandle
  <2>1. /\ thread = "poll" /\ thread' = "decide" /\ Handle(Head(messageQueue)) /\ Poll
        /\ UNCHANGED <<current, adapter, origin>>
    BY <1>5 DEF PollHandle
  <2>2. /\ adapter \in System /\ debugEnvironment \in System /\ adapter <= debugEnvironment
        /\ cpu \in [System -> CpuState]
    BY <2>1 DEF TypeInv, TypeOK, Shape, InRun
  <2>3. Head(messageQueue) \in Messages
    BY <2>1, PollType DEF TypeInv, Shape
  <2>4. debugEnvironment <= debugEnvironment' /\ debugEnvironment' \in Int
    BY <2>1, <2>3, HandleType
  <2>5. adapter = debugEnvironment
    BY <2>1, <2>2, <2>4 DEF Stepping, System
  <2>6. Stepping
    BY <2>1, <2>5 DEF Stepping
  <2>7. Clocked(s)
    BY <2>1, <2>6 DEF Progress
  <2>8. CASE cpu' = cpu
    BY <2>1, <2>7, <2>8 DEF Clocked, InMiddle, Ended
  <2>9. CASE cpu' = [cpu EXCEPT ![debugEnvironment] = ResetCpu(@)]
    <3>1. s' = ResetCpu(s) /\ s \in CpuState
      BY <2>1, <2>2, <2>5, <2>9
    <3> QED
      BY <2>1, <3>1 DEF JustReset, ResetCpu, CpuState
  <2> QED
    BY <2>1, <2>8, <2>9, HandleCpu
<1>6. CASE PollEmpty \/ PollInterrupted
  <2>1. thread = "poll" /\ thread' = "decide" /\ UNCHANGED <<current, adapter, origin, debugEnvironment, cpu>>
    BY <1>6 DEF PollEmpty, PollInterrupted, fieldVars
  <2> QED
    BY <1>1, <2>1 DEF Progress
<1>7. CASE Continue
  <2>1. /\ thread = "decide" /\ thread' = "clock" /\ ~Accepts(s)
        /\ UNCHANGED <<current, adapter, origin, debugEnvironment, cpu>>
    BY <1>7 DEF Continue, fieldVars
  <2>2. Stepping /\ s' = s /\ s \in CpuState /\ origin \in CpuState
    BY <1>1, <2>1 DEF TypeInv, TypeOK, Shape, InRun
  <2>3. ~s.fetch
    BY <2>1, <2>2, StepAccepts DEF Stepping
  <2>4. Clocked(s)
    BY <2>1, <2>2, <2>3 DEF Progress, JustReset
  <2>5. Unfinished(s)
    BY <2>2, <2>3, <2>4, InstructionEnds DEF Stepping, Clocked, Unfinished, Ended
  <2> QED
    BY <1>1, <2>1, <2>5
<1>8. CASE thread' \in {"idle", "dead", "ended"}
  BY <1>8
<1>9. CASE HandleMessage
  BY <1>8, <1>9 DEF HandleMessage, runVars
<1> QED
  BY <1>2, <1>3, <1>4, <1>5, <1>6, <1>7, <1>8, <1>9
     DEF Next, Handler, OnMessage, RequestStop, Die, End, StopRun, vars, runVars, fieldVars

\* A STEP from a fetch executes exactly one instruction, unless it is paused or
\* overtaken by a RESET or an INIT (runSimulation).
THEOREM StepsAreExact == Spec => StepIsOneInstruction
<1>1. Init => Progress
  BY DEF Init, Progress, Stepping
<1>2. ASSUME TypeInv, Progress, Next, Stops, current.action = "step", simulationRunning,
             origin.fetch, adapter = debugEnvironment, cpu[adapter].vector # "startup"
      PROVE  cpu[adapter] = Instruction(origin)
  <2>1. Stepping /\ cpu[adapter] \in CpuState /\ origin \in CpuState
    BY <1>2 DEF Stops, Stepping, TypeInv, TypeOK, Shape, InRun
  <2>2. Clocked(cpu[adapter])
    BY <1>2, <2>1 DEF Stops, Progress, JustReset
  <2>3. Accepts(cpu[adapter])
    BY <1>2, SMT DEF Stops, Next, Handler, OnMessage, RequestStop, HandleMessage, Die, End,
       BeginRun, ClockSystem, PollEmpty, PollInterrupted, PollHandle, Continue, StopRun,
       runVars, fieldVars
  <2>4. cpu[adapter].fetch \/ IsHalted(cpu[adapter])
    BY <1>2, <2>1, <2>3, StepAccepts
  <2>5. ~InMiddle(cpu[adapter], origin)
    BY <2>4 DEF InMiddle, IsHalted
  <2> QED
    BY <2>2, <2>5 DEF Clocked, Ended
<1>3. TypeInv /\ Progress /\ [Next]_vars
        => [Stops /\ current.action = "step" /\ simulationRunning /\ origin.fetch
            /\ adapter = debugEnvironment /\ cpu[adapter].vector # "startup"
            => cpu[adapter] = Instruction(origin)]_vars
  BY <1>2
<1> QED
  BY <1>1, <1>3, TypeInit, TypeStep, ProgressStep, PTL DEF Spec, StepIsOneInstruction

================================================================================
