--------------------------- MODULE TickControlProof ---------------------------
(***************************************************************************)
(* Proofs about TickControl, for every number of Servers, every program and *)
(* every set of client messages, and, where a theorem says so, for one      *)
(* Server whose simulator nobody ticks by hand: with a second Server the     *)
(* ticker's fields are shared by two runs and nothing can be said of a run.  *)
(***************************************************************************)
EXTENDS TickControl, SequenceTheorems, TLAPS

\* A Server not made yet has no thread, a thread that is in a run knows the
\* message that began it, and a predicate that polls a queue polls a thread's.
Owned ==
    /\ \A g \in Gen : generation < g => ctPc[g] = "none"
    /\ \A g \in Gen : ctPc[g] \in {"install", "request", "check", "wait", "return"}
                        => ctMsg[g] \in Message
    /\ simPc \in {"poll", "take", "sleep"} => test.owner \in Gen

TypeInv == TypeOK /\ Owned

--------------------------------------------------------------------------------
\* A tick of the clock keeps the processor's state well formed.
LEMMA TickType == ASSUME NEW s \in CpuState PROVE Tick(s) \in CpuState
BY ProgramAssumption DEF Tick, CpuState, IsHalted

\* A reset leads to a state of the processor.
LEMMA ResetType == ASSUME NEW s \in CpuState PROVE ResetCpu(s) \in CpuState
BY ProgramAssumption DEF ResetCpu, CpuState

\* The conditions of a message are conditions of a run.
LEMMA StopCondsType == ASSUME NEW m \in Message PROVE StopConds(m) \in SUBSET Conditions
BY DEF StopConds, Message, Conditions

\* A stop has one of the reasons of the protocol.
LEMMA ReasonType ==
    ASSUME NEW g, NEW conds, NEW s PROVE Reason(g, conds, s) \in Reasons
<1> DEFINE hit == Check([s EXCEPT !.phase = cpu.phase], conds, breakpoints[g], lineLocations[g])
<1> HIDE DEF hit
<1>1. Reason(g, conds, s) =
        IF ~running[g] THEN "pause"
        ELSE IF IsHalted(cpu) THEN "halt"
        ELSE IF "exception" \in hit THEN "exception"
        ELSE IF "breakpoint" \in hit THEN "breakpoint"
        ELSE IF "line" \in hit THEN "line"
        ELSE IF "fetch" \in hit THEN "fetch"
        ELSE "unknown"
  BY Zenon DEF Reason, hit
<1> QED
  BY <1>1 DEF Reasons, Conditions

\* What a queue of messages gives and keeps.
LEMMA QueueType ==
    ASSUME NEW q \in Seq(Message), q # <<>>
    PROVE  Head(q) \in Message /\ Tail(q) \in Seq(Message)
BY HeadTailProperties

\* A message enqueued makes a queue that is not empty.
LEMMA AppendType ==
    ASSUME NEW q \in Seq(Message), NEW m \in Message
    PROVE  Append(q, m) \in Seq(Message) /\ Append(q, m) # <<>>
BY AppendProperties

\* The handlers keep the types of the fields they assign.
LEMMA HandleType ==
    ASSUME TypeOK, NEW g \in Gen, NEW m \in Message, Handle(g, m)
    PROVE  /\ running' \in [Gen -> BOOLEAN] /\ answered' \in [Gen -> Nat]
           /\ breakpoints' \in [Gen -> SUBSET Addr]
           /\ lineLocations' \in [Gen -> SUBSET Addr]
           /\ adapterReady' \in BOOLEAN /\ resetRequested' \in BOOLEAN
<1>1. m.addrs \in SUBSET Addr
  BY DEF Message
<1>2. CASE HandleBreakpoints(g, m)
  BY <1>1, <1>2 DEF TypeOK, HandleBreakpoints, Answer
<1>3. CASE HandleLineLocations(g, m)
  BY <1>1, <1>3 DEF TypeOK, HandleLineLocations, Answer
<1>4. CASE HandlePause(g, m)
  BY <1>4 DEF TypeOK, HandlePause, Answer
<1>5. CASE HandleInit(g, m)
  BY <1>5 DEF TypeOK, HandleInit, Answer
<1>6. CASE HandleQuery(g, m)
  BY <1>6 DEF TypeOK, HandleQuery, Answer
<1>7. CASE HandleNestedRun(g, m)
  BY <1>7 DEF TypeOK, HandleNestedRun, Answer
<1> QED
  BY <1>2, <1>3, <1>4, <1>5, <1>6, <1>7 DEF Handle

--------------------------------------------------------------------------------
\* No thread runs and nothing is queued at first.
LEMMA TypeInit == Init => TypeInv
<1> SUFFICES ASSUME Init PROVE TypeInv
  OBVIOUS
<1>1. 0 \in 0 .. MaxServers /\ 0 \in 0 .. MaxManualTicks
  BY BoundsAssumption
<1>2. <<>> \in Seq(Message)
  OBVIOUS
<1>3. predicate \in [owner: 0 .. MaxServers, conds: SUBSET Conditions]
  BY <1>1 DEF Init
<1>4. test \in [owner: 0 .. MaxServers, conds: SUBSET Conditions, state: CpuState \cup {Null}]
  BY <1>1 DEF Init
<1>5. /\ queue \in [Gen -> Seq(Message)] /\ ctPc \in [Gen -> CtPcs]
      /\ accepted \in [Gen -> Nat] /\ answered \in [Gen -> Nat]
  BY <1>2 DEF Init, CtPcs
<1>6. /\ breakpoints \in [Gen -> SUBSET Addr] /\ lineLocations \in [Gen -> SUBSET Addr]
      /\ stop \in [Gen -> [reason: Reasons, state: CpuState] \cup {Null}]
      /\ ctMsg \in [Gen -> Message \cup {Null}] /\ running \in [Gen -> BOOLEAN]
      /\ lastState \in [Gen -> CpuState \cup {Null}]
      /\ origin \in [Gen -> CpuState \cup {Null}]
  BY DEF Init
<1>7. /\ server \in 0 .. MaxServers /\ generation \in 0 .. MaxServers
      /\ manualTicks \in 0 .. MaxManualTicks
      /\ tickCompleted \in BOOLEAN /\ bootstrapTicks \in -1 .. 2
      /\ tickResult \in CpuState \cup {Null}
      /\ adapterReady \in BOOLEAN /\ resetRequested \in BOOLEAN
      /\ uiTicks \in Nat /\ ticksRequested \in Nat
      /\ simPc \in SimPcs /\ cpu \in CpuState
  <2>1. server = 0 /\ generation = 0 /\ manualTicks = 0 /\ bootstrapTicks = 0
    BY DEF Init
  <2>2. tickCompleted = FALSE /\ adapterReady = FALSE /\ resetRequested = FALSE
    BY Zenon DEF Init
  <2>3. uiTicks = 0 /\ ticksRequested = 0 /\ simPc = "idle" /\ tickResult = Null
        /\ \E a \in Addr : cpu = [pc |-> Entry[a], phase |-> 0]
    BY DEF Init
  <2>4. bootstrapTicks \in -1 .. 2
    BY <2>1
  <2>5. cpu \in CpuState /\ tickResult \in CpuState \cup {Null}
    BY <2>3, ProgramAssumption DEF CpuState
  <2>6. uiTicks \in Nat /\ ticksRequested \in Nat /\ simPc \in SimPcs
    BY <2>3 DEF SimPcs
  <2>7. server \in 0 .. MaxServers /\ generation \in 0 .. MaxServers /\ manualTicks \in 0 .. MaxManualTicks
    BY <1>1, <2>1
  <2> QED
    BY <2>2, <2>4, <2>5, <2>6, <2>7
<1>8. TypeOK
  BY <1>3, <1>4, <1>5, <1>6, <1>7 DEF TypeOK
<1> QED
  BY <1>8 DEF Init, TypeInv, Owned

\* The user and Swing keep the types.
LEMMA TypeUser == TypeInv /\ (User \/ UiTick) => TypeInv'
<1> SUFFICES ASSUME TypeInv, User \/ UiTick PROVE TypeInv'
  OBVIOUS
<1> USE BoundsAssumption DEF TypeInv, TypeOK, Owned, CtPcs, SimPcs
<1>1. CASE PressStart
  <2>1. generation' \in Gen /\ server' \in Gen
    BY <1>1 DEF PressStart, Gen
  <2> QED
    BY <1>1, <2>1 DEF PressStart, ctVars, msgVars, tickVars, simVars, Gen
<1>2. CASE PressStop
  BY <1>2 DEF PressStop, ctVars, msgVars, tickVars, simVars
<1>3. CASE ManualTick
  BY <1>3 DEF ManualTick, comVars, ctVars, msgVars, tickVars
<1>4. ASSUME NEW m \in Messages, OnMessage(m) PROVE TypeInv'
  <2>1. m \in Message
    BY <1>4
  <2>2. queue' \in [Gen -> Seq(Message)] /\ accepted' \in [Gen -> Nat]
    <3>1. server \in Gen
      BY <1>4 DEF OnMessage, Gen
    <3>2. Append(queue[server], m) \in Seq(Message) /\ accepted[server] + 1 \in Nat
      BY <2>1, <3>1, AppendType
    <3> QED
      BY <1>4, <3>2 DEF OnMessage
  <2>3. ctPc' = ctPc /\ ctMsg' = ctMsg /\ simPc' = simPc /\ test' = test
    BY <1>4 DEF OnMessage, ctVars, simVars
  <2> QED
    BY <1>4, <2>2, <2>3 DEF OnMessage, ctVars, msgVars, tickVars, simVars
<1>5. CASE UiTick
  BY <1>5 DEF UiTick, comVars, ctVars, msgVars, tickVars
<1> QED
  BY <1>1, <1>2, <1>3, <1>4, <1>5 DEF User

\* The TickControlThread of any Server.
LEMMA TypeControlThread ==
    ASSUME TypeInv, NEW g \in Gen, OnStart(g) \/ ControlThread(g)
    PROVE  TypeInv'
<1> USE DEF TypeInv, TypeOK, Owned, CtPcs, SimPcs
<1> DEFINE m == Head(queue[g])
<1>1. Dequeue(g) => m \in Message /\ queue' \in [Gen -> Seq(Message)]
  BY QueueType DEF Dequeue
<1> HIDE DEF m
<1>2. CASE OnStart(g)
  BY <1>2 DEF OnStart, comVars, msgVars, tickVars, simVars
<1>3. CASE CtHandle(g)
  <2>1. Dequeue(g) /\ Handle(g, m)
    BY <1>3 DEF CtHandle, m
  <2>2. m \in Message /\ queue' \in [Gen -> Seq(Message)]
    BY <1>1, <2>1
  <2>3. /\ running' \in [Gen -> BOOLEAN] /\ answered' \in [Gen -> Nat]
        /\ breakpoints' \in [Gen -> SUBSET Addr]
        /\ lineLocations' \in [Gen -> SUBSET Addr]
        /\ adapterReady' \in BOOLEAN /\ resetRequested' \in BOOLEAN
    BY <2>1, <2>2, HandleType
  <2>4. /\ server' = server /\ generation' = generation /\ accepted' = accepted
        /\ UNCHANGED <<ctVars, tickVars, simVars>>
    BY <1>3 DEF CtHandle, Dequeue
  <2> QED
    BY <2>2, <2>3, <2>4 DEF ctVars, tickVars, simVars
<1>4. CASE CtThrow(g)
  BY <1>1, <1>4 DEF CtThrow, Dequeue, CtGoto, msgVars, tickVars, simVars
<1>5. CASE CtReset(g)
  BY <1>1, <1>5 DEF CtReset, Dequeue, CtGoto, RequestReset, tickVars, simVars
<1>6. CASE CtWake(g)
  BY <1>1, <1>6 DEF CtWake, CtGoto, Answer, comVars, tickVars, simVars
<1>7. CASE CtBeginRun(g)
  BY <1>1, <1>7 DEF CtBeginRun, Dequeue, CtGoto, BeginRun, simVars, m
<1>8. CASE CtInstall(g)
  BY <1>8, StopCondsType DEF CtInstall, CtGoto, comVars, msgVars, simVars, Gen
<1>9. CASE CtRequest(g)
  BY <1>1, <1>9 DEF CtRequest, CtGoto, comVars, msgVars, tickVars
<1>10. CASE CtCheck(g)
  BY <1>1, <1>10 DEF CtCheck, CtGoto, comVars, msgVars, tickVars, simVars
<1>11. CASE CtReturn(g)
  BY <1>11, ReasonType DEF CtReturn, CtGoto, Answer, comVars, tickVars, simVars
<1>12. CASE CtReturnNull(g)
  BY <1>1, <1>12 DEF CtReturnNull, CtGoto, comVars, msgVars, tickVars, simVars
<1> QED
  BY <1>2, <1>3, <1>4, <1>5, <1>6, <1>7, <1>8, <1>9, <1>10, <1>11, <1>12 DEF ControlThread

\* The simulator thread.
LEMMA TypeSimulator == TypeInv /\ Simulator => TypeInv'
<1> SUFFICES ASSUME TypeInv, Simulator PROVE TypeInv'
  OBVIOUS
<1> USE DEF TypeInv, TypeOK, Owned, CtPcs, SimPcs
<1> DEFINE m == Head(queue[test.owner])
<1>1. ASSUME simPc = "take", Dequeue(test.owner)
      PROVE  test.owner \in Gen /\ m \in Message /\ queue' \in [Gen -> Seq(Message)]
  BY <1>1, QueueType DEF Dequeue
<1> HIDE DEF m
<1>2. CASE SimReset
  BY <1>2, ResetType DEF SimReset, comVars, tickVars
<1>3. CASE SimTick
  BY <1>3, TickType DEF SimTick, comVars, ctVars, msgVars, tickVars
<1>4. CASE SimCompleted
  BY <1>4 DEF SimCompleted, RequestNextTick, Gen, comVars, ctVars, msgVars
<1>5. CASE SimPoll
  BY <1>5 DEF SimPoll, comVars, ctVars, msgVars, tickVars
<1>6. CASE SimHandle
  <2>1. Dequeue(test.owner) /\ Handle(test.owner, m) /\ simPc = "take"
    BY <1>6 DEF SimHandle, m
  <2>2. test.owner \in Gen /\ m \in Message /\ queue' \in [Gen -> Seq(Message)]
    BY <1>1, <2>1
  <2>3. /\ running' \in [Gen -> BOOLEAN] /\ answered' \in [Gen -> Nat]
        /\ breakpoints' \in [Gen -> SUBSET Addr]
        /\ lineLocations' \in [Gen -> SUBSET Addr]
        /\ adapterReady' \in BOOLEAN /\ resetRequested' \in BOOLEAN
    BY <2>1, <2>2, HandleType
  <2>4. /\ server' = server /\ generation' = generation /\ accepted' = accepted
        /\ UNCHANGED <<ctVars, tickVars, test, cpu, ticksRequested, uiTicks, manualTicks>>
        /\ simPc' = "decide"
    BY <1>6 DEF SimHandle, Dequeue
  <2> QED
    BY <2>2, <2>3, <2>4 DEF ctVars, tickVars
<1>7. CASE SimThrow
  BY <1>1, <1>7 DEF SimThrow, Dequeue, ctVars, msgVars, tickVars
<1>8. CASE SimHandleReset
  BY <1>1, <1>8 DEF SimHandleReset, Dequeue, RequestReset, ctVars, tickVars
<1>9. CASE SimWake
  BY <1>9 DEF SimWake, Answer, comVars, ctVars, tickVars
<1>10. CASE SimBeginRun
  <2>1. test.owner \in Gen /\ m \in Message /\ queue' \in [Gen -> Seq(Message)]
    BY <1>1, <1>10 DEF SimBeginRun
  <2>2. predicate' \in [owner: 0 .. MaxServers, conds: SUBSET Conditions]
    BY <1>10, <2>1, StopCondsType DEF SimBeginRun, m, Gen
  <2>3. bootstrapTicks' \in -1 .. 2 /\ uiTicks' \in Nat /\ simPc' \in SimPcs
    BY <1>10 DEF SimBeginRun
  <2>4. running' \in [Gen -> BOOLEAN]
    BY <1>10 DEF SimBeginRun, BeginRun
  <2> QED
    BY <1>10, <2>1, <2>2, <2>3, <2>4 DEF SimBeginRun, Dequeue, BeginRun, ctVars
<1>11. CASE SimContinue
  BY <1>11 DEF SimContinue, RequestNextTick, comVars, ctVars, msgVars, tickVars
<1>12. CASE SimAccept
  BY <1>12 DEF SimAccept, comVars, ctVars, msgVars
<1>13. CASE SimPublish
  BY <1>13 DEF SimPublish, comVars, ctVars, msgVars
<1>14. CASE SimNotify
  BY <1>14 DEF SimNotify, comVars, msgVars, tickVars
<1> QED
  BY <1>2, <1>3, <1>4, <1>5, <1>6, <1>7, <1>8, <1>9, <1>10, <1>11, <1>12, <1>13, <1>14
     DEF Simulator

\* All steps together.
LEMMA TypeStep == TypeInv /\ [Next]_vars => TypeInv'
<1> SUFFICES ASSUME TypeInv, [Next]_vars PROVE TypeInv'
  OBVIOUS
<1>1. CASE UNCHANGED vars
  BY <1>1 DEF vars, comVars, ctVars, msgVars, tickVars, simVars, TypeInv, TypeOK, Owned
<1> QED
  BY <1>1, TypeUser, TypeControlThread, TypeSimulator DEF Next

\* Every field keeps its type in every reachable state, for any number of
\* Servers, any program and any messages.
THEOREM TypeCorrect == Spec => []TypeOK
<1>1. TypeInv => TypeOK
  BY DEF TypeInv
<1> QED
  BY <1>1, TypeInit, TypeStep, PTL DEF Spec

--------------------------------------------------------------------------------
\* tickCompleted is raised before the notification and lowered before the wait,
\* so that NoLostWakeup is inductive once the types are known.
LEMMA WakeupStep == TypeInv /\ NoLostWakeup /\ [Next]_vars => NoLostWakeup'
<1> SUFFICES ASSUME TypeInv, NoLostWakeup, [Next]_vars PROVE NoLostWakeup'
  OBVIOUS
<1> USE DEF NoLostWakeup, Signalling, TypeInv, TypeOK
<1>1. CASE UNCHANGED vars
  BY <1>1 DEF vars, ctVars, tickVars, simVars
<1>2. CASE User \/ UiTick
  BY <1>2 DEF User, PressStart, PressStop, ManualTick, OnMessage, UiTick,
              ctVars, tickVars, simVars
<1>3. ASSUME NEW g \in Gen, OnStart(g) \/ ControlThread(g) PROVE NoLostWakeup'
  <2>1. CASE OnStart(g)
    BY <2>1 DEF OnStart, tickVars, simVars
  <2>2. CASE CtHandle(g) \/ CtThrow(g) \/ CtReset(g) \/ CtWake(g)
    BY <2>2 DEF CtHandle, CtThrow, CtReset, CtWake, CtGoto, ctVars, tickVars, simVars
  <2>3. CASE CtBeginRun(g)
    BY <2>3 DEF CtBeginRun, BeginRun
  <2>4. CASE CtInstall(g) \/ CtRequest(g)
    BY <2>4 DEF CtInstall, CtRequest, CtGoto, tickVars, simVars
  <2>5. CASE CtCheck(g)
    BY <2>5 DEF CtCheck, CtGoto, tickVars, simVars
  <2>6. CASE CtReturn(g) \/ CtReturnNull(g)
    BY <2>6 DEF CtReturn, CtReturnNull, CtGoto, tickVars, simVars
  <2> QED
    BY <1>3, <2>1, <2>2, <2>3, <2>4, <2>5, <2>6 DEF ControlThread
<1>4. CASE Simulator
  <2>1. CASE SimReset \/ SimTick \/ SimCompleted \/ SimPoll \/ SimHandle \/ SimThrow
             \/ SimHandleReset \/ SimWake \/ SimContinue
    BY <2>1 DEF SimReset, SimTick, SimCompleted, SimPoll, SimHandle, SimThrow,
                SimHandleReset, SimWake, SimContinue, RequestNextTick, ctVars, tickVars
  <2>2. CASE SimBeginRun
    BY <2>2 DEF SimBeginRun, BeginRun
  <2>3. CASE SimAccept \/ SimPublish
    BY <2>3 DEF SimAccept, SimPublish, ctVars
  <2>4. CASE SimNotify
    BY <2>4 DEF SimNotify
  <2> QED
    BY <1>4, <2>1, <2>2, <2>3, <2>4 DEF Simulator
<1> QED
  BY <1>1, <1>2, <1>3, <1>4 DEF Next

\* No thread sleeps through the end of its run, whatever the number of Servers,
\* manual ticks and presses of Stop.
THEOREM WakeupSafe == Spec => []NoLostWakeup
<1>1. Init => NoLostWakeup
  BY DEF Init, NoLostWakeup
<1> QED
  BY <1>1, TypeInit, TypeStep, WakeupStep, PTL DEF Spec

--------------------------------------------------------------------------------
\* One Server, and nobody ticks the simulator by hand: why the simulator thread
\* cannot meet the TickControlThread at the queue.
OneChain ==
    \* a tick is under way only during a run that nothing has accepted
    /\ TicksUnderWay <= (IF ~tickCompleted /\ Parked(1) THEN 1 ELSE 0)
    \* the run's own predicate is installed before its first tick
    /\ ctPc[1] \in {"install", "request"} => ~tickCompleted
    /\ ctPc[1] \in {"request", "check", "wait"} => predicate.owner = 1
    \* what is tested is tested for thread 1
    /\ simPc \in {"poll", "take", "sleep", "decide"} => test.owner = 1
    /\ simPc = "take" => queue[1] # <<>>
    \* only a PAUSE that is about to be accepted stops the run
    /\ ctPc[1] \in {"install", "request"} => running[1]
    /\ ~tickCompleted /\ Parked(1) /\ simPc # "decide" => running[1]
    /\ simPc # "deadlocked"

Single == MaxServers = 1 /\ MaxManualTicks = 0

\* No run, no tick.
LEMMA ChainInit == Init => OneChain
BY BoundsAssumption DEF Init, OneChain, TicksUnderWay, Testing, Parked, Gen

\* What the buttons, the client and the event thread do leaves the chain alone.
LEMMA ChainUser ==
    ASSUME Single, TypeInv, OneChain, User \/ UiTick
    PROVE  OneChain'
<1> USE DEF OneChain, TicksUnderWay, Parked, TypeInv, TypeOK
<1>1. 1 \in Gen /\ \A g \in Gen : g = 1
  BY DEF Gen, Single
<1>2. CASE PressStart
  <2>1. server' = 1
    BY <1>2 DEF PressStart, Single
  <2>2. ~Parked(1)
    BY <1>1, <1>2 DEF PressStart, Single, Owned
  <2>3. UNCHANGED <<queue, running, tickCompleted, predicate, simPc, test, uiTicks, ticksRequested>>
    BY <1>2 DEF PressStart, msgVars, tickVars, simVars
  <2>4. ctPc'[1] = "created"
    BY <1>1, <1>2, <2>1 DEF PressStart
  <2> QED
    BY <2>2, <2>3, <2>4 DEF Testing
<1>3. CASE PressStop
  BY <1>3 DEF PressStop, ctVars, msgVars, tickVars, simVars
<1>4. CASE ManualTick
  BY <1>4 DEF ManualTick, Single
<1>5. ASSUME NEW m \in Messages, OnMessage(m) PROVE OneChain'
  <2>1. server = 1
    BY <1>5 DEF OnMessage, Single
  <2>2. queue'[1] # <<>>
    <3> HIDE DEF OneChain, TicksUnderWay, Parked
    <3>1. queue[1] \in Seq(Message)
      BY <1>1
    <3>2. m \in Message
      BY BoundsAssumption
    <3>3. queue'[1] = Append(queue[1], m)
      BY <1>1, <1>5, <2>1 DEF OnMessage
    <3> QED
      BY <3>1, <3>2, <3>3, AppendType
  <2>3. UNCHANGED <<ctPc, running, tickCompleted, predicate, simPc, test, uiTicks, ticksRequested>>
    BY <1>5 DEF OnMessage, ctVars, msgVars, tickVars, simVars
  <2> QED
    BY <2>2, <2>3 DEF Testing
<1>6. CASE UiTick
  BY <1>6 DEF UiTick, comVars, ctVars, msgVars, tickVars
<1> QED
  BY <1>2, <1>3, <1>4, <1>5, <1>6 DEF User

\* The TickControlThread touches its queue and the ticker only while it is not
\* parked, when by OneChain no tick is under way.
LEMMA ChainControlThread ==
    ASSUME Single, TypeInv, OneChain, OnStart(1) \/ ControlThread(1)
    PROVE  OneChain'
<1> USE DEF OneChain, TicksUnderWay, Parked, TypeInv, TypeOK, Testing
<1>1. 1 \in Gen
  BY DEF Gen, Single
<1>2. CASE OnStart(1)
  BY <1>1, <1>2 DEF OnStart, comVars, msgVars, tickVars, simVars
<1>3. CASE CtHandle(1)
  BY <1>1, <1>3 DEF CtHandle, ctVars, tickVars, simVars
<1>4. CASE CtThrow(1)
  BY <1>1, <1>4 DEF CtThrow, CtGoto, msgVars, tickVars, simVars
<1>5. CASE CtReset(1)
  BY <1>1, <1>5 DEF CtReset, CtGoto, tickVars, simVars
<1>6. CASE CtWake(1)
  BY <1>1, <1>6 DEF CtWake, CtGoto, tickVars, simVars
<1>7. CASE CtBeginRun(1)
  BY <1>1, <1>7 DEF CtBeginRun, CtGoto, BeginRun, simVars
<1>8. CASE CtInstall(1)
  BY <1>1, <1>8 DEF CtInstall, CtGoto, comVars, msgVars, simVars
<1>9. CASE CtRequest(1)
  BY <1>1, <1>9 DEF CtRequest, CtGoto, comVars, msgVars, tickVars
<1>10. CASE CtCheck(1)
  BY <1>1, <1>10 DEF CtCheck, CtGoto, comVars, msgVars, tickVars, simVars
<1>11. CASE CtReturn(1)
  BY <1>1, <1>11 DEF CtReturn, CtGoto, comVars, tickVars, simVars
<1>12. CASE CtReturnNull(1)
  BY <1>1, <1>12 DEF CtReturnNull, CtGoto, comVars, msgVars, tickVars, simVars
<1> QED
  BY <1>2, <1>3, <1>4, <1>5, <1>6, <1>7, <1>8, <1>9, <1>10, <1>11, <1>12 DEF ControlThread

\* The simulator thread passes the one tick from hand to hand.
LEMMA ChainSimulator ==
    ASSUME Single, TypeInv, OneChain, Simulator
    PROVE  OneChain'
<1> USE DEF OneChain, TicksUnderWay, Parked, TypeInv, TypeOK, Testing
<1>1. 1 \in Gen /\ \A g \in Gen : g = 1
  BY DEF Gen, Single
<1>2. CASE SimReset
  BY <1>2 DEF SimReset, comVars, tickVars
<1>3. CASE SimTick
  BY <1>3 DEF SimTick, comVars, ctVars, msgVars, tickVars
<1>4. CASE SimCompleted
  BY <1>4 DEF SimCompleted, RequestNextTick, comVars, ctVars, msgVars
<1>5. CASE SimPoll
  BY <1>5 DEF SimPoll, comVars, ctVars, msgVars, tickVars
<1>6. CASE SimHandle
  BY <1>6 DEF SimHandle, ctVars, tickVars
<1>7. CASE SimThrow
  BY <1>7 DEF SimThrow, ctVars, msgVars, tickVars
<1>8. CASE SimHandleReset
  BY <1>8 DEF SimHandleReset, RequestReset, ctVars, tickVars
<1>9. CASE SimWake
  BY <1>9 DEF SimWake, comVars, ctVars, tickVars
<1>10. CASE SimBeginRun
  \* a run is in progress: the RUN is a nested one
  BY <1>10 DEF SimBeginRun
<1>11. CASE SimContinue
  BY <1>11 DEF SimContinue, Accepted, Accepts, RequestNextTick, comVars, ctVars, msgVars, tickVars
<1>12. CASE SimAccept
  BY <1>12 DEF SimAccept, comVars, ctVars, msgVars
<1>13. CASE SimPublish
  BY <1>13 DEF SimPublish, comVars, ctVars, msgVars
<1>14. CASE SimNotify
  BY <1>1, <1>14 DEF SimNotify, comVars, msgVars, tickVars
<1> QED
  BY <1>2, <1>3, <1>4, <1>5, <1>6, <1>7, <1>8, <1>9, <1>10, <1>11, <1>12, <1>13, <1>14
     DEF Simulator

\* All steps together.
LEMMA ChainStep ==
    ASSUME Single, TypeInv, OneChain, [Next]_vars
    PROVE  OneChain'
<1>1. CASE UNCHANGED vars
  BY <1>1 DEF vars, comVars, ctVars, msgVars, tickVars, simVars, OneChain, TicksUnderWay,
              Testing, Parked
<1>2. \A g \in Gen : g = 1
  BY DEF Gen, Single
<1> QED
  BY <1>1, <1>2, ChainUser, ChainControlThread, ChainSimulator DEF Next

\* With one Server and no manual tick the simulator thread never blocks in take(),
\* never begins a run, and handles messages only while the thread is parked.
THEOREM SimulatorSafe == Single => (Spec => []SimulatorNeverBlocks)
<1> SUFFICES ASSUME Single PROVE Spec => []SimulatorNeverBlocks
  OBVIOUS
<1>1. TypeInv /\ OneChain /\ [Next]_vars => OneChain'
  BY ChainStep
<1>2. TypeInv /\ OneChain => SimulatorNeverBlocks
  <2> SUFFICES ASSUME TypeInv, OneChain PROVE SimulatorNeverBlocks
    OBVIOUS
  <2>1. 1 \in Gen
    BY DEF Gen, Single
  <2>2. simPc \in Testing => Parked(1)
    BY DEF OneChain, TicksUnderWay, TypeInv, TypeOK
  <2> QED
    BY <2>1, <2>2 DEF OneChain, SimulatorNeverBlocks, Testing
<1> QED
  BY <1>1, <1>2, TypeInit, ChainInit, TypeStep, PTL DEF Spec

--------------------------------------------------------------------------------
\* The accounting of messages, for any number of Servers: a thread at rest holds
\* no message.
Accounted ==
    /\ EveryMessageAnsweredOnce
    /\ \A g \in Gen : ctPc[g] \in {"none", "created", "take", "sleep"} => ctMsg[g] = Null

\* A message handled is answered once.
LEMMA HandleAnswers ==
    ASSUME TypeOK, NEW g \in Gen, NEW m, Handle(g, m)
    PROVE  answered' = [answered EXCEPT ![g] = @ + 1]
BY DEF Handle, HandleBreakpoints, HandleLineLocations, HandlePause, HandleInit,
       HandleQuery, HandleNestedRun, Answer

\* Taking a message shortens one queue by one.
LEMMA DequeueLength ==
    ASSUME TypeOK, NEW g \in Gen, Dequeue(g)
    PROVE  /\ accepted' = accepted
           /\ Len(queue'[g]) = Len(queue[g]) - 1 /\ Len(queue[g]) \in Nat
           /\ \A h \in Gen : h # g => queue'[h] = queue[h]
<1>1. queue[g] \in Seq(Message) /\ queue[g] # <<>>
  BY DEF TypeOK, Dequeue
<1>2. Len(Tail(queue[g])) = Len(queue[g]) - 1 /\ Len(queue[g]) \in Nat
  BY <1>1
<1> QED
  BY <1>2 DEF Dequeue, TypeOK

\* Queues have lengths.
LEMMA QueueLengths == TypeOK => \A g \in Gen : Len(queue[g]) \in Nat
BY DEF TypeOK

\* A message accepted is queued.
LEMMA AccountUser ==
    ASSUME TypeInv, Accounted, User \/ UiTick
    PROVE  Accounted'
<1> USE DEF Accounted, EveryMessageAnsweredOnce, InHand, TypeInv, TypeOK
<1>1. CASE PressStart
  <2>1. generation' \in Gen /\ server' = generation' /\ ctPc[server'] = "none"
    BY <1>1, BoundsAssumption DEF PressStart, Gen, Owned
  <2>2. UNCHANGED <<queue, accepted, answered, ctMsg, simPc, test>>
    BY <1>1 DEF PressStart, msgVars, simVars
  <2>3. \A g \in Gen : ctPc'[g] = (IF g = server' THEN "created" ELSE ctPc[g])
    BY <1>1 DEF PressStart
  <2>4. \A g \in Gen : InHand(g)' = InHand(g)
    BY <2>1, <2>2, <2>3
  <2> QED
    BY <2>1, <2>2, <2>3, <2>4
<1>2. CASE PressStop \/ ManualTick \/ UiTick
  BY <1>2 DEF PressStop, ManualTick, UiTick, comVars, ctVars, msgVars, simVars
<1>3. ASSUME NEW m \in Messages, OnMessage(m) PROVE Accounted'
  <2>1. server \in Gen /\ m \in Message
    BY <1>3, BoundsAssumption DEF OnMessage, Gen
  <2>2. Len(Append(queue[server], m)) = Len(queue[server]) + 1
    BY <2>1
  <2>3. UNCHANGED <<answered, ctPc, ctMsg, simPc, test>>
    BY <1>3 DEF OnMessage, ctVars, msgVars, simVars
  <2>4. \A g \in Gen : InHand(g)' = InHand(g)
    BY <2>3
  <2>5. /\ accepted'[server] = accepted[server] + 1
        /\ Len(queue'[server]) = Len(queue[server]) + 1
        /\ \A g \in Gen : g # server => accepted'[g] = accepted[g] /\ queue'[g] = queue[g]
    BY <1>3, <2>1, <2>2 DEF OnMessage
  <2>6. ASSUME NEW g \in Gen
        PROVE  accepted'[g] = answered'[g] + Len(queue'[g]) + InHand(g)'
    <3>1. InHand(g) \in Nat /\ Len(queue[g]) \in Nat /\ accepted[g] \in Nat /\ answered[g] \in Nat
      BY QueueLengths
    <3>2. accepted[g] = answered[g] + Len(queue[g]) + InHand(g)
      BY DEF EveryMessageAnsweredOnce
    <3> HIDE DEF InHand
    <3>0. answered'[g] = answered[g] /\ InHand(g)' = InHand(g)
      BY <2>3, <2>4, Zenon
    <3>3. CASE g = server
      <4>1. accepted'[g] = accepted[g] + 1 /\ Len(queue'[g]) = Len(queue[g]) + 1
        BY <2>5, <3>3, Zenon
      <4> QED
        BY <3>0, <3>1, <3>2, <4>1, SMT
    <3>4. CASE g # server
      <4>1. accepted'[g] = accepted[g] /\ queue'[g] = queue[g]
        BY <2>5, <3>4, Zenon
      <4> QED
        BY <3>0, <3>2, <4>1, Zenon
    <3> QED
      BY <3>3, <3>4
  <2> QED
    BY <2>3, <2>6
<1> QED
  BY <1>1, <1>2, <1>3 DEF User

\* What is counted are numbers.
LEMMA AccountNumbers ==
    ASSUME TypeOK, NEW g \in Gen
    PROVE  /\ accepted[g] \in Nat /\ answered[g] \in Nat
           /\ Len(queue[g]) \in Nat /\ InHand(g) \in Nat
<1>1. accepted[g] \in Nat /\ answered[g] \in Nat
  BY DEF TypeOK
<1>2. Len(queue[g]) \in Nat
  BY QueueLengths
<1>3. InHand(g) \in Nat
  BY DEF InHand
<1> QED
  BY <1>1, <1>2, <1>3

\* A step that moves one message of Server g between queue, hand and answered.
LEMMA AccountOne ==
    ASSUME EveryMessageAnsweredOnce, NEW g \in Gen,
           accepted' = accepted,
           \A h \in Gen : h # g => /\ answered'[h] = answered[h] /\ queue'[h] = queue[h]
                                   /\ InHand(h)' = InHand(h),
           answered'[g] + Len(queue'[g]) + InHand(g)' = answered[g] + Len(queue[g]) + InHand(g)
    PROVE  EveryMessageAnsweredOnce'
BY DEF EveryMessageAnsweredOnce

\* A message taken is in hand until it is answered.
LEMMA AccountControlThread ==
    ASSUME TypeInv, Accounted, NEW g \in Gen, OnStart(g) \/ ControlThread(g)
    PROVE  Accounted'
<1> USE DEF TypeInv, TypeOK, Accounted
<1>0. Len(queue[g]) \in Nat /\ answered[g] \in Nat /\ InHand(g) \in Nat
  BY AccountNumbers
<1>1. CASE OnStart(g)
  BY <1>1 DEF OnStart, EveryMessageAnsweredOnce, InHand, comVars, msgVars, simVars
<1>2. CASE CtHandle(g)
  <2>1. Dequeue(g) /\ answered' = [answered EXCEPT ![g] = @ + 1]
    BY <1>2, HandleAnswers DEF CtHandle
  <2>2. UNCHANGED <<ctPc, ctMsg, simPc, test>>
    BY <1>2 DEF CtHandle, ctVars, simVars
  <2>3. \A h \in Gen : InHand(h)' = InHand(h)
    BY <2>2 DEF InHand
  <2>4. EveryMessageAnsweredOnce'
    <3>0. Len(queue'[g]) = Len(queue[g]) - 1
      BY <2>1, DequeueLength
    <3>1. answered'[g] + Len(queue'[g]) + InHand(g)' = answered[g] + Len(queue[g]) + InHand(g)
      BY <1>0, <2>1, <2>3, <3>0
    <3>2. /\ accepted' = accepted
          /\ \A h \in Gen : h # g => answered'[h] = answered[h] /\ queue'[h] = queue[h]
      BY <2>1, <2>3, DequeueLength
    <3> QED
      BY <1>0, <2>1, <2>3, <3>1, <3>2, AccountOne
  <2> QED
    BY <2>2, <2>4
<1>3. CASE CtThrow(g)
  <2>1. Dequeue(g) /\ UNCHANGED answered /\ ctPc[g] = "take"
    BY <1>3 DEF CtThrow, msgVars
  <2>2. UNCHANGED <<ctMsg, simPc, test>> /\ ctPc' = [ctPc EXCEPT ![g] = "dead"]
    BY <1>3 DEF CtThrow, CtGoto, simVars
  <2>3. InHand(g)' = InHand(g) + 1 /\ \A h \in Gen : h # g => InHand(h)' = InHand(h)
    BY <2>1, <2>2 DEF InHand
  <2>4. EveryMessageAnsweredOnce'
    <3>0. Len(queue'[g]) = Len(queue[g]) - 1
      BY <2>1, DequeueLength
    <3>1. answered'[g] + Len(queue'[g]) + InHand(g)' = answered[g] + Len(queue[g]) + InHand(g)
      BY <1>0, <2>1, <2>3, <3>0
    <3>2. /\ accepted' = accepted
          /\ \A h \in Gen : h # g => answered'[h] = answered[h] /\ queue'[h] = queue[h]
      BY <2>1, <2>3, DequeueLength
    <3> QED
      BY <1>0, <2>1, <2>3, <3>1, <3>2, AccountOne
  <2> QED
    BY <2>2, <2>4
<1>4. CASE CtReset(g)
  <2>1. Dequeue(g) /\ UNCHANGED answered /\ ctPc[g] = "take"
    BY <1>4 DEF CtReset, RequestReset
  <2>2. UNCHANGED <<ctMsg, simPc, test>> /\ ctPc' = [ctPc EXCEPT ![g] = "sleep"]
    BY <1>4 DEF CtReset, CtGoto, simVars
  <2>3. InHand(g)' = InHand(g) + 1 /\ \A h \in Gen : h # g => InHand(h)' = InHand(h)
    BY <2>1, <2>2 DEF InHand
  <2>4. EveryMessageAnsweredOnce'
    <3>0. Len(queue'[g]) = Len(queue[g]) - 1
      BY <2>1, DequeueLength
    <3>1. answered'[g] + Len(queue'[g]) + InHand(g)' = answered[g] + Len(queue[g]) + InHand(g)
      BY <1>0, <2>1, <2>3, <3>0
    <3>2. /\ accepted' = accepted
          /\ \A h \in Gen : h # g => answered'[h] = answered[h] /\ queue'[h] = queue[h]
      BY <2>1, <2>3, DequeueLength
    <3> QED
      BY <1>0, <2>1, <2>3, <3>1, <3>2, AccountOne
  <2> QED
    BY <2>1, <2>2, <2>4
<1>5. CASE CtWake(g)
  <2>1. /\ UNCHANGED <<queue, accepted>> /\ ctPc[g] = "sleep"
        /\ answered' = [answered EXCEPT ![g] = @ + 1]
    BY <1>5 DEF CtWake, Answer, comVars
  <2>2. UNCHANGED <<ctMsg, simPc, test>> /\ ctPc' = [ctPc EXCEPT ![g] = "take"]
    BY <1>5 DEF CtWake, CtGoto, simVars
  <2>3. InHand(g)' = InHand(g) + (-1) /\ \A h \in Gen : h # g => InHand(h)' = InHand(h)
    BY <2>1, <2>2 DEF InHand
  <2>4. EveryMessageAnsweredOnce'
    <3>1. answered'[g] + Len(queue'[g]) + InHand(g)' = answered[g] + Len(queue[g]) + InHand(g)
      BY <1>0, <2>1, <2>3
    <3>2. /\ accepted' = accepted
          /\ \A h \in Gen : h # g => answered'[h] = answered[h] /\ queue'[h] = queue[h]
      BY <2>1, <2>3
    <3> QED
      BY <1>0, <2>1, <2>3, <3>1, <3>2, AccountOne
  <2> QED
    BY <2>1, <2>2, <2>4
<1>6. CASE CtBeginRun(g)
  <2>1. Dequeue(g) /\ UNCHANGED answered /\ ctPc[g] = "take"
    BY <1>6 DEF CtBeginRun, BeginRun
  <2>2. /\ UNCHANGED <<simPc, test>> /\ ctPc' = [ctPc EXCEPT ![g] = "install"]
        /\ ctMsg' = [ctMsg EXCEPT ![g] = Head(queue[g])]
    BY <1>6 DEF CtBeginRun, CtGoto, simVars
  <2>3. ctMsg[g] = Null /\ Head(queue[g]) # Null
    BY <2>1, QueueType, ProgramAssumption DEF Dequeue
  <2>4. InHand(g)' = InHand(g) + 1 /\ \A h \in Gen : h # g => InHand(h)' = InHand(h)
    BY <2>1, <2>2, <2>3 DEF InHand
  <2>5. EveryMessageAnsweredOnce'
    <3>0. Len(queue'[g]) = Len(queue[g]) - 1
      BY <2>1, DequeueLength
    <3>1. answered'[g] + Len(queue'[g]) + InHand(g)' = answered[g] + Len(queue[g]) + InHand(g)
      BY <1>0, <2>1, <2>4, <3>0
    <3>2. /\ accepted' = accepted
          /\ \A h \in Gen : h # g => answered'[h] = answered[h] /\ queue'[h] = queue[h]
      BY <2>1, <2>4, DequeueLength
    <3> QED
      BY <1>0, <2>1, <2>4, <3>1, <3>2, AccountOne
  <2> QED
    BY <2>1, <2>2, <2>5
<1>7. CASE CtInstall(g) \/ CtRequest(g) \/ CtCheck(g)
  <2>1. /\ UNCHANGED <<queue, accepted, answered, ctMsg, simPc, test>>
        /\ \E pc \in {"request", "check", "return", "wait"} : ctPc' = [ctPc EXCEPT ![g] = pc]
        /\ ctPc[g] \in {"install", "request", "check"}
    BY <1>7 DEF CtInstall, CtRequest, CtCheck, CtGoto, comVars, msgVars, simVars
  <2>2. \A h \in Gen : InHand(h)' = InHand(h)
    BY <2>1 DEF InHand
  <2> QED
    BY <2>1, <2>2 DEF EveryMessageAnsweredOnce
<1>8. CASE CtReturn(g)
  <2>1. /\ UNCHANGED <<queue, accepted, simPc, test>> /\ ctPc[g] = "return"
        /\ answered' = [answered EXCEPT ![g] = @ + 1]
        /\ ctPc' = [ctPc EXCEPT ![g] = "take"] /\ ctMsg' = [ctMsg EXCEPT ![g] = Null]
    BY <1>8 DEF CtReturn, CtGoto, Answer, comVars, simVars
  <2>2. ctMsg[g] # Null
    BY <2>1, ProgramAssumption DEF Owned
  <2>3. InHand(g)' = InHand(g) + (-1) /\ \A h \in Gen : h # g => InHand(h)' = InHand(h)
    BY <2>1, <2>2 DEF InHand
  <2>4. EveryMessageAnsweredOnce'
    <3>1. answered'[g] + Len(queue'[g]) + InHand(g)' = answered[g] + Len(queue[g]) + InHand(g)
      BY <1>0, <2>1, <2>3
    <3>2. /\ accepted' = accepted
          /\ \A h \in Gen : h # g => answered'[h] = answered[h] /\ queue'[h] = queue[h]
      BY <2>1, <2>3
    <3> QED
      BY <1>0, <2>1, <2>3, <3>1, <3>2, AccountOne
  <2> QED
    BY <2>1, <2>4
<1>9. CASE CtReturnNull(g)
  <2>1. /\ UNCHANGED <<queue, accepted, answered, ctMsg, simPc, test>> /\ ctPc[g] = "return"
        /\ ctPc' = [ctPc EXCEPT ![g] = "dead"]
    BY <1>9 DEF CtReturnNull, CtGoto, comVars, msgVars, simVars
  <2>2. ctMsg[g] # Null
    BY <2>1, ProgramAssumption DEF Owned
  <2>3. \A h \in Gen : InHand(h)' = InHand(h)
    BY <2>1, <2>2 DEF InHand
  <2> QED
    BY <2>1, <2>3 DEF EveryMessageAnsweredOnce
<1> QED
  BY <1>1, <1>2, <1>3, <1>4, <1>5, <1>6, <1>7, <1>8, <1>9 DEF ControlThread

\* A message taken by the simulator thread is handled at once.
LEMMA AccountSimulator ==
    ASSUME TypeInv, Accounted, Simulator
    PROVE  Accounted'
<1> DEFINE g == test.owner
<1> USE DEF TypeInv, TypeOK, Accounted
<1>1. ASSUME simPc = "take", Dequeue(g)
      PROVE  /\ g \in Gen /\ Len(queue'[g]) = Len(queue[g]) - 1
             /\ Len(queue[g]) \in Nat /\ answered[g] \in Nat /\ InHand(g) \in Nat
             /\ accepted' = accepted
             /\ \A h \in Gen : h # g => queue'[h] = queue[h]
  BY <1>1, DequeueLength, AccountNumbers DEF Owned
\* the steps between two messages
<1>2. CASE SimReset \/ SimTick \/ SimCompleted \/ SimPoll \/ SimContinue \/ SimAccept
           \/ SimPublish
  <2>1. /\ UNCHANGED <<accepted, answered, queue, ctPc, ctMsg>>
        /\ test' = test \/ simPc = "completed"
        /\ simPc \notin {"sleep", "dead", "deadlocked"}
        /\ simPc' \notin {"sleep", "dead", "deadlocked"}
    BY <1>2 DEF SimReset, SimTick, SimCompleted, SimPoll, SimContinue, SimAccept, SimPublish,
                RequestNextTick, comVars, ctVars, msgVars
  <2>2. \A h \in Gen : InHand(h)' = InHand(h)
    BY <2>1 DEF InHand
  <2> QED
    BY <2>1, <2>2 DEF EveryMessageAnsweredOnce
<1>3. CASE SimNotify
  <2>1. /\ UNCHANGED <<accepted, answered, queue, ctMsg, test>>
        /\ simPc = "notify" /\ simPc' = "idle"
        /\ ctPc' = [h \in Gen |-> IF ctPc[h] = "wait" THEN "check" ELSE ctPc[h]]
    BY <1>3 DEF SimNotify, comVars, msgVars
  <2>2. \A h \in Gen : InHand(h)' = InHand(h)
    BY <2>1 DEF InHand
  <2> QED
    BY <2>1, <2>2 DEF EveryMessageAnsweredOnce
\* a message is taken and answered
<1>4. CASE SimHandle
  <2>1. /\ simPc = "take" /\ simPc' = "decide" /\ Dequeue(g)
        /\ Handle(g, Head(queue[g])) /\ UNCHANGED <<ctPc, ctMsg, test>>
    BY <1>4 DEF SimHandle, ctVars
  <2>2. g \in Gen /\ answered' = [answered EXCEPT ![g] = @ + 1]
    BY <1>1, <2>1, HandleAnswers
  <2>3. \A h \in Gen : InHand(h)' = InHand(h)
    BY <2>1 DEF InHand
  <2>4. answered'[g] + Len(queue'[g]) + InHand(g)' = answered[g] + Len(queue[g]) + InHand(g)
    <3>1. answered'[g] = answered[g] + 1 /\ Len(queue'[g]) = Len(queue[g]) - 1
      BY <1>1, <2>1, <2>2
    <3>2. Len(queue[g]) \in Nat /\ answered[g] \in Nat /\ InHand(g) \in Nat /\ InHand(g)' = InHand(g)
      BY <1>1, <2>1, <2>2, <2>3
    <3> HIDE DEF g, TypeInv, TypeOK, Accounted
    <3> QED
      BY <3>1, <3>2
  <2>5. EveryMessageAnsweredOnce'
    BY <1>1, <2>1, <2>2, <2>3, <2>4, AccountOne
  <2> QED
    BY <2>1, <2>5
\* a message is taken and stays in hand
<1>5. CASE SimThrow \/ SimHandleReset \/ SimBeginRun
  <2>1. /\ simPc = "take" /\ simPc' \in {"sleep", "dead", "deadlocked"} /\ Dequeue(g)
        /\ UNCHANGED <<answered, ctPc, ctMsg, test>>
    BY <1>5 DEF SimThrow, SimHandleReset, SimBeginRun, RequestReset, BeginRun, ctVars, msgVars
  <2>2. InHand(g)' = InHand(g) + 1 /\ \A h \in Gen : h # g => InHand(h)' = InHand(h)
    BY <2>1 DEF InHand
  <2>3. answered'[g] + Len(queue'[g]) + InHand(g)' = answered[g] + Len(queue[g]) + InHand(g)
    <3>1. answered'[g] = answered[g] /\ Len(queue'[g]) = Len(queue[g]) - 1
      BY <1>1, <2>1
    <3>2. /\ Len(queue[g]) \in Nat /\ answered[g] \in Nat /\ InHand(g) \in Nat
          /\ InHand(g)' = InHand(g) + 1
      BY <1>1, <2>1, <2>2
    <3> HIDE DEF g, TypeInv, TypeOK, Accounted
    <3>3. answered[g] + (Len(queue[g]) - 1) + (InHand(g) + 1) = answered[g] + Len(queue[g]) + InHand(g)
      BY <3>2
    <3> QED
      BY <3>1, <3>2, <3>3
  <2>4. EveryMessageAnsweredOnce'
    BY <1>1, <2>1, <2>2, <2>3, AccountOne
  <2> QED
    BY <2>1, <2>4
\* the message in hand is answered
<1>6. CASE SimWake
  <2>1. /\ simPc = "sleep" /\ simPc' = "decide" /\ UNCHANGED <<accepted, queue, ctPc, ctMsg, test>>
        /\ g \in Gen /\ answered' = [answered EXCEPT ![g] = @ + 1]
    BY <1>6 DEF SimWake, Answer, Owned, comVars, ctVars
  <2>2. InHand(g)' = InHand(g) - 1 /\ \A h \in Gen : h # g => InHand(h)' = InHand(h)
    BY <2>1 DEF InHand
  <2>3. Len(queue[g]) \in Nat /\ answered[g] \in Nat /\ InHand(g) \in Nat
    BY <2>1, AccountNumbers
  <2>4. answered'[g] + Len(queue'[g]) + InHand(g)' = answered[g] + Len(queue[g]) + InHand(g)
    BY <2>1, <2>2, <2>3
  <2>5. EveryMessageAnsweredOnce'
    BY <2>1, <2>2, <2>4, AccountOne
  <2> QED
    BY <2>1, <2>5
<1> QED
  BY <1>2, <1>3, <1>4, <1>5, <1>6 DEF Simulator

\* All steps together.
LEMMA AccountStep == TypeInv /\ Accounted /\ [Next]_vars => Accounted'
<1> SUFFICES ASSUME TypeInv, Accounted, [Next]_vars PROVE Accounted'
  OBVIOUS
<1>1. CASE UNCHANGED vars
  BY <1>1 DEF vars, comVars, ctVars, msgVars, simVars, Accounted, EveryMessageAnsweredOnce, InHand
<1> QED
  BY <1>1, AccountUser, AccountControlThread, AccountSimulator DEF Next

\* Every message that entered a queue is in it, in the hands of one thread, or
\* answered exactly once: for any number of Servers, with Stop and manual ticks.
THEOREM MessagesAccounted == Spec => []EveryMessageAnsweredOnce
<1>1. Init => Accounted
  BY DEF Init, Accounted, EveryMessageAnsweredOnce, InHand
<1>2. Accounted => EveryMessageAnsweredOnce
  BY DEF Accounted
<1> QED
  BY <1>1, <1>2, TypeInit, TypeStep, AccountStep, PTL DEF Spec

--------------------------------------------------------------------------------
(* What a run reports and where it stops, for one Server: any program, any   *)
(* messages, any moment of Stop.                                            *)

\* The simulator thread tests a state, or is about to.
Tested == {"poll", "take", "sleep", "decide"}

\* A tick is due: asked for and not made yet.
Due == uiTicks + ticksRequested > 0

\* One Server is Server 1.
LEMMA OnlyServer == Single => 1 \in Gen /\ \A g \in Gen : g = 1
BY DEF Gen, Single

\* What OneChain says of the places where the simulator thread is.
LEMMA ChainFacts ==
    ASSUME TypeInv, OneChain
    PROVE  /\ simPc \in Testing => ~tickCompleted /\ Parked(1) /\ ~Due
           /\ Due => ~tickCompleted /\ Parked(1) /\ simPc \notin Testing
           /\ Tested \subseteq Testing /\ Testing = Tested \cup {"completed"}
           /\ simPc \in Tested => test.owner = 1 /\ predicate.owner = 1
           /\ simPc # "deadlocked"
<1> USE DEF TypeInv, TypeOK, OneChain, TicksUnderWay
<1>1. uiTicks \in Nat /\ ticksRequested \in Nat
  OBVIOUS
<1>2. Testing = Tested \cup {"completed"}
  BY DEF Testing, Tested
<1>3. simPc \in Testing => ~tickCompleted /\ Parked(1) /\ ~Due
  BY <1>1 DEF Due
<1>4. Due => ~tickCompleted /\ Parked(1) /\ simPc \notin Testing
  BY <1>1 DEF Due
<1> QED
  BY <1>2, <1>3, <1>4 DEF Parked, Tested

--------------------------------------------------------------------------------
\* Without Stop the chain of ticks never breaks: the Server of a thread is there,
\* so that no handler throws and no tick is dropped.
Unbroken ==
    /\ ctPc[1] # "none" => server = 1
    /\ simPc # "dead"
    /\ ~tickCompleted /\ Parked(1) => TicksUnderWay >= 1

\* Each tick of a run that goes on asks for the next one.
LEMMA UnbrokenStep ==
    ASSUME Single, ~MayStop, TypeInv, OneChain, Unbroken, [Next]_vars
    PROVE  Unbroken'
<1> USE DEF Unbroken, TicksUnderWay, Parked, TypeInv, TypeOK
<1>0. 1 \in Gen /\ \A g \in Gen : g = 1
  BY OnlyServer
<1>1. CASE UNCHANGED vars
  BY <1>1 DEF vars, comVars, ctVars, tickVars, simVars, Testing
<1>2. CASE User \/ UiTick
  <2>1. CASE PressStart
    BY <1>0, <2>1 DEF PressStart, Single, tickVars, simVars
  <2>2. CASE ManualTick \/ PressStop
    BY <2>2 DEF ManualTick, PressStop, Single
  <2>3. ASSUME NEW m \in Messages, OnMessage(m) PROVE Unbroken'
    BY <2>3 DEF OnMessage, ctVars, tickVars, simVars, Testing
  <2>4. CASE UiTick
    BY <2>4 DEF UiTick, comVars, ctVars, tickVars, Testing
  <2> QED
    BY <1>2, <2>1, <2>2, <2>3, <2>4 DEF User
<1>3. CASE OnStart(1) \/ ControlThread(1)
  <2>1. CASE OnStart(1) \/ CtHandle(1) \/ CtThrow(1) \/ CtReset(1) \/ CtWake(1)
    BY <1>0, <2>1 DEF OnStart, CtHandle, CtThrow, CtReset, CtWake, CtGoto, Dequeue, comVars,
                      ctVars, tickVars, simVars
  <2>2. CASE CtBeginRun(1) \/ CtInstall(1)
    BY <1>0, <2>2 DEF CtBeginRun, CtInstall, CtGoto, Dequeue, BeginRun, comVars, simVars
  <2>3. CASE CtRequest(1)
    BY <1>0, <2>3 DEF CtRequest, CtGoto, comVars, tickVars
  <2>4. CASE CtCheck(1) \/ CtReturn(1) \/ CtReturnNull(1)
    BY <1>0, <2>4 DEF CtCheck, CtReturn, CtReturnNull, CtGoto, comVars, tickVars, simVars
  <2> QED
    BY <1>3, <2>1, <2>2, <2>3, <2>4 DEF ControlThread
<1>4. CASE Simulator
  <2>1. simPc \in Tested => server = 1 /\ test.owner = 1
    BY ChainFacts, <1>0 DEF Tested
  <2>2. CASE SimReset \/ SimPoll \/ SimHandle \/ SimHandleReset \/ SimWake
    BY <2>2 DEF SimReset, SimPoll, SimHandle, SimHandleReset, SimWake, RequestReset, Dequeue,
                comVars, ctVars, tickVars, Testing
  <2>3. CASE SimTick
    <3>1. Due
      BY <2>3 DEF SimTick, Due
    <3>2. server = 1
      BY <3>1, ChainFacts
    <3>3. /\ simPc' = "completed" /\ uiTicks' = uiTicks /\ ticksRequested' = ticksRequested - 1
          /\ ticksRequested > 0 /\ uiTicks \in Nat /\ ticksRequested \in Nat
      BY <2>3, <3>2 DEF SimTick
    <3>4. UNCHANGED <<server, ctPc>>
      BY <2>3 DEF SimTick, comVars, ctVars
    <3>5. simPc' \in Testing /\ simPc' # "dead"
      BY <3>3 DEF Testing
    <3> HIDE DEF TypeInv, TypeOK, Unbroken
    <3>6. TicksUnderWay' = uiTicks' + ticksRequested' + 1
      BY <3>5
    <3>7. uiTicks' + ticksRequested' + 1 >= 1
      BY <3>3
    <3> QED
      BY <3>2, <3>4, <3>5, <3>6, <3>7 DEF Unbroken
  <2>4. CASE SimCompleted
    BY <2>4 DEF SimCompleted, RequestNextTick, comVars, ctVars, Testing
  <2>5. CASE SimThrow \/ SimBeginRun
    BY <2>1, <2>5 DEF SimThrow, SimBeginRun, Throws, Tested, OneChain, Testing
  <2>6. CASE SimContinue
    BY <2>6 DEF SimContinue, RequestNextTick, comVars, ctVars, tickVars, Testing
  <2>7. CASE SimAccept \/ SimPublish
    BY <2>7 DEF SimAccept, SimPublish, comVars, ctVars, Testing
  <2>8. CASE SimNotify
    <3>1. UNCHANGED <<server, tickCompleted, uiTicks, ticksRequested>>
      BY <2>8 DEF SimNotify, comVars, tickVars
    <3>2. simPc = "notify" /\ simPc' = "idle"
      BY <2>8 DEF SimNotify
    <3>3. ctPc'[1] = IF ctPc[1] = "wait" THEN "check" ELSE ctPc[1]
      BY <1>0, <2>8 DEF SimNotify
    <3> QED
      BY <3>1, <3>2, <3>3 DEF Testing
  <2> QED
    BY <1>4, <2>2, <2>3, <2>4, <2>5, <2>6, <2>7, <2>8 DEF Simulator
<1> QED
  BY <1>0, <1>1, <1>2, <1>3, <1>4 DEF Next

\* With one Server that nobody stops, and no tick by hand, a run advances by one
\* chain of ticks that is never lost, never doubled and ends with the run.
THEOREM OneTickSafe == Single /\ ~MayStop => (Spec => []OneTickChain)
<1> SUFFICES ASSUME Single, ~MayStop PROVE Spec => []OneTickChain
  OBVIOUS
<1>1. Init => Unbroken
  BY OnlyServer DEF Init, Unbroken, Parked
<1>2. TypeInv /\ OneChain /\ [Next]_vars => OneChain'
  BY ChainStep
<1>3. TypeInv /\ OneChain /\ Unbroken /\ [Next]_vars => Unbroken'
  BY UnbrokenStep
<1>4. TypeInv /\ OneChain /\ Unbroken => OneTickChain
  BY OnlyServer DEF OneChain, Unbroken, OneTickChain, TypeInv, TypeOK, TicksUnderWay
<1> QED
  BY <1>1, <1>2, <1>3, <1>4, TypeInit, ChainInit, TypeStep, PTL DEF Spec

--------------------------------------------------------------------------------
\* What the simulator thread tests, accepts and hands over belongs to the run of
\* thread 1, and is the state of the processor unless that was reset.
Exact ==
    /\ ctPc[1] = "return" => tickCompleted
    /\ tickCompleted /\ simPc # "publish" => tickResult = test.state
    /\ simPc \in Tested => test.state = cpu
    /\ tickCompleted /\ origin[1] # Null => test.state = cpu
    /\ ctPc[1] \in {"request", "check", "wait", "return"}
            => predicate.conds = StopConds(ctMsg[1])
    /\ simPc \in Tested => test.conds = predicate.conds /\ adapterReady
    /\ tickCompleted /\ ctPc[1] \in {"check", "wait", "return"}
            => Accepts(1, StopConds(ctMsg[1]), test.state)

\* No message makes an adapter unready.
LEMMA HandleKeeps ==
    ASSUME NEW g, NEW m, Handle(g, m)
    PROVE  (adapterReady => adapterReady') /\ resetRequested' = resetRequested
<1>1. CASE HandleInit(g, m)
  BY <1>1, Zenon DEF HandleInit
<1>2. CASE adapterReady' = adapterReady /\ resetRequested' = resetRequested
  BY <1>2, Zenon
<1> QED
  BY <1>1, <1>2 DEF Handle, HandleBreakpoints, HandleLineLocations, HandlePause, HandleQuery,
                    HandleNestedRun

\* Nothing has been accepted at first.
LEMMA ExactInit == Single /\ Init => Exact
<1> SUFFICES ASSUME Single, Init PROVE Exact
  OBVIOUS
<1>1. ~tickCompleted
  BY Zenon DEF Init
<1>2. simPc = "idle" /\ ctPc[1] = "none"
  BY OnlyServer DEF Init
<1> QED
  BY <1>1, <1>2 DEF Exact, Tested

\* The user and Swing do not touch what a run accepted.
LEMMA ExactUser ==
    ASSUME Single, TypeInv, Exact, User \/ UiTick
    PROVE  Exact'
<1> USE DEF Exact, TypeInv, TypeOK
<1>0. 1 \in Gen
  BY OnlyServer
<1>1. /\ UNCHANGED <<tickCompleted, simPc, tickResult, test, cpu, origin, predicate, ctMsg>>
      /\ UNCHANGED <<adapterReady, running, breakpoints, lineLocations>>
  BY DEF User, PressStart, PressStop, ManualTick, OnMessage, UiTick, ctVars, msgVars, tickVars,
         simVars
<1>2. ctPc'[1] = ctPc[1] \/ ctPc'[1] = "created"
  BY <1>0 DEF User, PressStart, PressStop, ManualTick, OnMessage, UiTick, ctVars
<1> QED
  BY <1>1, <1>2 DEF Accepts

\* A run begins with nothing accepted and returns what was.
LEMMA ExactControlThread ==
    ASSUME Single, TypeInv, OneChain, Exact, OnStart(1) \/ ControlThread(1)
    PROVE  Exact'
<1> USE DEF Exact
<1>0. 1 \in Gen /\ ctPc \in [Gen -> CtPcs]
  BY OnlyServer DEF TypeInv, TypeOK
<1>1. simPc \in Tested => ~tickCompleted /\ ctPc[1] \in {"check", "wait"}
  BY ChainFacts DEF Parked
<1>2. CASE OnStart(1) \/ CtHandle(1) \/ CtThrow(1) \/ CtReset(1) \/ CtWake(1)
  <2>1. /\ UNCHANGED <<tickCompleted, simPc, tickResult, test, cpu, origin, predicate, ctMsg>>
        /\ ctPc[1] \in {"created", "take", "sleep"} /\ ctPc'[1] \in {"take", "dead", "sleep"}
    BY <1>0, <1>2 DEF OnStart, CtHandle, CtThrow, CtReset, CtWake, CtGoto, ctVars, tickVars, simVars
  <2> QED
    BY <1>1, <2>1
<1>3. CASE CtBeginRun(1)
  <2>1. /\ UNCHANGED <<simPc, tickResult, test, cpu, predicate>> /\ tickCompleted' = FALSE
        /\ ctPc[1] = "take" /\ ctPc'[1] = "install"
    BY <1>0, <1>3 DEF CtBeginRun, CtGoto, BeginRun, simVars
  <2> QED
    BY <1>1, <2>1
<1>4. CASE CtInstall(1)
  <2>1. /\ UNCHANGED <<tickCompleted, simPc, tickResult, test, cpu, ctMsg, origin>>
        /\ ctPc[1] = "install" /\ ctPc'[1] = "request" /\ predicate'.conds = StopConds(ctMsg[1])
    BY <1>0, <1>4 DEF CtInstall, CtGoto, simVars
  <2> QED
    BY <1>1, <2>1
<1>5. CASE CtRequest(1)
  <2>1. /\ UNCHANGED <<tickCompleted, simPc, tickResult, test, cpu, ctMsg, origin, predicate>>
        /\ ctPc[1] = "request" /\ ctPc'[1] = "check"
    BY <1>0, <1>5 DEF CtRequest, CtGoto, tickVars
  <2> QED
    BY <1>1, <2>1 DEF OneChain
<1>6. CASE CtCheck(1)
  <2>1. /\ UNCHANGED <<tickCompleted, simPc, tickResult, test, cpu, ctMsg, origin, predicate>>
        /\ UNCHANGED <<adapterReady, running, breakpoints, lineLocations>>
        /\ ctPc[1] = "check" /\ ctPc'[1] = IF tickCompleted THEN "return" ELSE "wait"
    BY <1>0, <1>6 DEF CtCheck, CtGoto, tickVars, simVars, msgVars
  <2> QED
    BY <2>1 DEF Accepts
<1>7. CASE CtReturn(1) \/ CtReturnNull(1)
  <2>1. /\ UNCHANGED <<tickCompleted, simPc, tickResult, test, cpu, origin, predicate>>
        /\ ctPc[1] = "return" /\ ctPc'[1] \in {"take", "dead"}
    BY <1>0, <1>7 DEF CtReturn, CtReturnNull, CtGoto, tickVars, simVars
  <2> QED
    BY <1>1, <2>1
<1> QED
  BY <1>2, <1>3, <1>4, <1>5, <1>6, <1>7 DEF ControlThread

\* A state is accepted by the conditions it was tested for, and published as it was.
LEMMA ExactSimulator ==
    ASSUME Single, TypeInv, OneChain, Exact, Simulator
    PROVE  Exact'
<1> USE DEF Exact
<1>0. 1 \in Gen /\ ctPc \in [Gen -> CtPcs]
  BY OnlyServer DEF TypeInv, TypeOK
<1>1. /\ simPc \in Testing => ~tickCompleted /\ ctPc[1] \in {"check", "wait"}
      /\ Due => ~tickCompleted
      /\ simPc \in Tested => test.owner = 1
  BY ChainFacts DEF Parked
<1>2. CASE SimReset
  <2>1. /\ UNCHANGED <<ctPc, tickCompleted, simPc, tickResult, test, ctMsg, predicate>>
        /\ UNCHANGED <<adapterReady, running, breakpoints, lineLocations>>
        /\ simPc = "idle" /\ origin'[1] = Null
    BY <1>0, <1>2 DEF SimReset, tickVars
  <2> QED
    BY <2>1 DEF Accepts, Tested
<1>3. CASE SimTick
  <2>1. /\ UNCHANGED <<ctPc, tickCompleted, tickResult, test, ctMsg, predicate, origin>>
        /\ simPc' \in {"idle", "completed"} /\ Due
    BY <1>3 DEF SimTick, tickVars, ctVars, Due, TypeInv, TypeOK
  <2> QED
    BY <1>1, <2>1 DEF Tested
<1>4. CASE SimCompleted
  <2>1. /\ UNCHANGED <<ctPc, tickCompleted, tickResult, ctMsg, predicate, origin, cpu, adapterReady>>
        /\ ~tickCompleted /\ ctPc[1] \in {"check", "wait"}
    BY <1>1, <1>4 DEF SimCompleted, Testing, ctVars, msgVars
  <2>2. \/ simPc' = "idle"
        \/ test'.state = cpu /\ test'.conds = predicate.conds /\ adapterReady
    BY <1>4 DEF SimCompleted, RequestNextTick
  <2> QED
    BY <2>1, <2>2 DEF Tested
<1>5. CASE SimPoll \/ SimHandle \/ SimThrow \/ SimHandleReset \/ SimWake \/ SimContinue
  <2>1. /\ UNCHANGED <<ctPc, tickCompleted, tickResult, test, cpu, ctMsg, predicate, origin>>
        /\ simPc \in Tested
    BY <1>5 DEF SimPoll, SimHandle, SimThrow, SimHandleReset, SimWake, SimContinue, Tested, ctVars,
                tickVars
  <2>2. adapterReady => adapterReady'
    BY <1>5, HandleKeeps DEF SimPoll, SimHandle, SimThrow, SimHandleReset, SimWake, SimContinue,
                RequestReset, msgVars
  <2>3. ~tickCompleted /\ ctPc[1] \in {"check", "wait"}
    BY <1>1, <2>1 DEF Tested, Testing
  <2> QED
    BY <2>1, <2>2, <2>3
<1>6. CASE SimBeginRun
  BY <1>6, ChainFacts, ChainSimulator DEF SimBeginRun, OneChain
<1>7. CASE SimAccept
  <2>1. /\ UNCHANGED <<ctPc, tickResult, test, cpu, ctMsg, predicate, origin>>
        /\ UNCHANGED <<adapterReady, running, breakpoints, lineLocations>>
        /\ simPc = "decide" /\ simPc' = "publish" /\ tickCompleted' = TRUE /\ Accepted
    BY <1>7 DEF SimAccept, ctVars, msgVars
  <2>2. simPc \in Tested /\ simPc \in Testing
    BY <2>1 DEF Tested, Testing
  <2>3. Accepts(1, StopConds(ctMsg[1]), test.state)
    BY <1>1, <2>1, <2>2 DEF Accepted
  <2>4. ctPc[1] # "return"
    BY <1>1, <2>2
  <2> QED
    BY <2>1, <2>2, <2>3, <2>4 DEF Accepts, Tested
<1>8. CASE SimPublish
  <2>1. /\ UNCHANGED <<ctPc, tickCompleted, test, cpu, ctMsg, predicate, origin>>
        /\ UNCHANGED <<adapterReady, running, breakpoints, lineLocations>>
        /\ simPc' = "notify" /\ tickResult' = test.state
    BY <1>8 DEF SimPublish, ctVars, msgVars
  <2> QED
    BY <2>1 DEF Accepts, Tested
<1>9. CASE SimNotify
  <2>1. /\ UNCHANGED <<tickCompleted, tickResult, test, cpu, ctMsg, predicate, origin>>
        /\ UNCHANGED <<adapterReady, running, breakpoints, lineLocations>>
        /\ simPc = "notify" /\ simPc' = "idle"
        /\ ctPc'[1] = IF ctPc[1] = "wait" THEN "check" ELSE ctPc[1]
    BY <1>0, <1>9 DEF SimNotify, msgVars, tickVars
  <2> QED
    BY <2>1 DEF Accepts, Tested
<1> QED
  BY <1>2, <1>3, <1>4, <1>5, <1>6, <1>7, <1>8, <1>9 DEF Simulator

\* All steps together.
LEMMA ExactStep ==
    ASSUME Single, TypeInv, OneChain, Exact, [Next]_vars
    PROVE  Exact'
<1>1. CASE UNCHANGED vars
  BY <1>1 DEF vars, ctVars, msgVars, tickVars, simVars, Exact, Accepts
<1> QED
  BY <1>1, OnlyServer, ExactUser, ExactControlThread, ExactSimulator DEF Next

--------------------------------------------------------------------------------
\* A thread goes back to its queue from a run only by tickUntil's return.
LEMMA ReturnStep ==
    ASSUME TypeInv, [Next]_vars, NEW g \in Gen, ctPc[g] = "return", ctPc'[g] = "take"
    PROVE  CtReturn(g)
<1> USE DEF TypeInv, TypeOK
<1>1. CASE UNCHANGED vars
  BY <1>1 DEF vars, ctVars
<1>2. CASE User \/ UiTick
  BY <1>2, BoundsAssumption
     DEF User, PressStart, PressStop, ManualTick, OnMessage, UiTick, ctVars
<1>3. CASE Simulator
  BY <1>3 DEF Simulator, SimReset, SimTick, SimCompleted, SimPoll, SimHandle, SimThrow,
              SimHandleReset, SimWake, SimBeginRun, SimContinue, SimAccept, SimPublish, SimNotify,
              ctVars
<1>4. ASSUME NEW h \in Gen, OnStart(h) \/ ControlThread(h) PROVE CtReturn(g)
  <2>1. CASE h # g
    BY <1>4, <2>1 DEF OnStart, ControlThread, CtHandle, CtThrow, CtReset, CtWake, CtBeginRun,
                      CtInstall, CtRequest, CtCheck, CtReturn, CtReturnNull, CtGoto, ctVars
  <2>2. CASE h = g
    BY <1>4, <2>2 DEF OnStart, ControlThread, CtHandle, CtThrow, CtReset, CtWake, CtBeginRun,
                      CtInstall, CtRequest, CtCheck, CtReturnNull, CtGoto
  <2> QED
    BY <2>1, <2>2
<1> QED
  BY <1>1, <1>2, <1>3, <1>4 DEF Next

\* What a run reports: the state that ended it, which is the processor's own, and
\* the reason found for that state.
LEMMA Returned ==
    ASSUME Single, TypeInv, Exact, CtReturn(1), simPc # "publish", origin[1] # Null
    PROVE  /\ stop'[1].state = cpu /\ test.state = cpu
           /\ stop'[1].reason = Reason(1, StopConds(ctMsg[1]), cpu)
<1>1. 1 \in Gen /\ stop \in [Gen -> [reason: Reasons, state: CpuState] \cup {Null}]
  BY OnlyServer DEF TypeInv, TypeOK
<1>2. tickResult = cpu /\ test.state = cpu
  BY DEF CtReturn, Exact
<1>3. stop'[1] = [reason |-> Reason(1, StopConds(ctMsg[1]), tickResult), state |-> tickResult]
  BY <1>1 DEF CtReturn
<1> QED
  BY <1>2, <1>3

\* The condition that was accepted is found again, so that the reason has a name.
LEMMA ReasonNamed ==
    ASSUME TypeInv, NEW m \in Message, Accepts(1, StopConds(m), cpu)
    PROVE  Reason(1, StopConds(m), cpu) # "unknown"
<1> DEFINE conds == StopConds(m)
           hit == Check([cpu EXCEPT !.phase = cpu.phase], conds, breakpoints[1], lineLocations[1])
<1>1. [cpu EXCEPT !.phase = cpu.phase] = cpu
  BY DEF TypeInv, TypeOK, CpuState
<1>2. hit = Check(cpu, conds, breakpoints[1], lineLocations[1])
  BY <1>1
<1>3. hit \subseteq {"fetch", "line", "breakpoint", "exception"}
  BY StopCondsType DEF Check, Conditions
<1>4. ~running[1] \/ IsHalted(cpu) \/ hit # {}
  BY <1>2 DEF Accepts
<1> HIDE DEF hit, conds
<1>5. Reason(1, conds, cpu) =
        IF ~running[1] THEN "pause"
        ELSE IF IsHalted(cpu) THEN "halt"
        ELSE IF "exception" \in hit THEN "exception"
        ELSE IF "breakpoint" \in hit THEN "breakpoint"
        ELSE IF "line" \in hit THEN "line"
        ELSE IF "fetch" \in hit THEN "fetch"
        ELSE "unknown"
  BY Zenon DEF Reason, hit
<1> QED
  BY <1>3, <1>4, <1>5 DEF conds

\* A run reports the very state that ended it and a reason with a name, for every
\* program, all stop conditions and messages handled during the run.
THEOREM ReportsAreExact == Single => (Spec => ReportIsExact)
<1> SUFFICES ASSUME Single PROVE Spec => ReportIsExact
  OBVIOUS
<1>1. ASSUME TypeInv, OneChain, Exact, [Next]_vars, NEW g \in Gen,
             ctPc[g] = "return", ctPc'[g] = "take", simPc # "publish", origin[g] # Null
      PROVE  stop'[g].state = test.state /\ stop'[g].reason # "unknown"
  <2>1. g = 1 /\ CtReturn(1)
    BY <1>1, OnlyServer, ReturnStep
  <2>2. /\ stop'[1].state = cpu /\ test.state = cpu
        /\ stop'[1].reason = Reason(1, StopConds(ctMsg[1]), cpu)
    BY <1>1, <2>1, Returned
  <2>3. ctMsg[1] \in Message
    BY <1>1, <2>1 DEF TypeInv, Owned
  <2>4. Accepts(1, StopConds(ctMsg[1]), cpu)
    BY <1>1, <2>1, <2>2 DEF Exact
  <2> QED
    BY <1>1, <2>1, <2>2, <2>3, <2>4, ReasonNamed
<1>2. TypeInv /\ OneChain /\ Exact /\ [Next]_vars
        => [\A g \in Gen :
              ctPc[g] = "return" /\ ctPc'[g] = "take" /\ simPc # "publish" /\ origin[g] # Null =>
                stop'[g].state = test.state /\ stop'[g].reason # "unknown"]_vars
  BY <1>1
<1>3. TypeInv /\ OneChain /\ [Next]_vars => OneChain'
  BY ChainStep
<1>4. TypeInv /\ OneChain /\ Exact /\ [Next]_vars => Exact'
  BY ExactStep
<1>5. Init => Exact
  BY ExactInit
<1> QED
  BY <1>2, <1>3, <1>4, <1>5, TypeInit, ChainInit, TypeStep, PTL DEF Spec, ReportIsExact

--------------------------------------------------------------------------------
\* How far a run begun at the fetch of an instruction has come.  The two bootstrap
\* ticks stay inside the instruction when it takes three ticks or more; the third
\* tick, which is tested, is over the fetch when that takes three ticks or fewer.
LongInstructions == InstrTicks >= 3
ShortFetch == FetchTicks <= 3

\* k ticks after o, in the bootstrap of a run.
Leaving(o, k) == cpu = IF IsHalted(o) THEN o ELSE [pc |-> o.pc, phase |-> k]
\* In the instruction of o, with the fetch behind it.
Inside(o) == IF IsHalted(o) THEN cpu = o ELSE cpu.pc = o.pc /\ ~IsFetching(cpu)
\* At the fetch of the instruction after that of o.
AtNext(o) == cpu = [pc |-> IF IsHalted(o) THEN o.pc ELSE Succ[o.pc], phase |-> 0]

\* The run of thread 1 began at o, at the beginning of an instruction.
From(o) == origin[1] = o /\ o.phase = 0

Bootstrap ==
    /\ ctPc[1] = "request" => bootstrapTicks = 2
    /\ simPc \in Tested => bootstrapTicks < 0
    /\ \A o \in CpuState : From(o) =>
        /\ ctPc[1] \in {"install", "request"} => cpu = o
        /\ Due /\ bootstrapTicks >= 0 => Leaving(o, 2 - bootstrapTicks)
        /\ simPc = "completed" /\ bootstrapTicks > 0 => Leaving(o, 3 - bootstrapTicks)

\* A tick leaves the instruction after its last phase only.
LEMMA TickPhase ==
    ASSUME NEW s \in CpuState
    PROVE  /\ IsHalted(s) => Tick(s) = s
           /\ ~IsHalted(s) /\ s.phase < InstrTicks - 1
                => Tick(s) = [pc |-> s.pc, phase |-> s.phase + 1]
           /\ ~IsHalted(s) /\ s.phase = InstrTicks - 1 => Tick(s) = [pc |-> Succ[s.pc], phase |-> 0]
BY ProgramAssumption DEF Tick, CpuState

\* Bootstrap looks at a few variables only.
LEMMA FromKept ==
    ASSUME Bootstrap, UNCHANGED <<origin, cpu, bootstrapTicks>>,
           Due' => Due, simPc' = "completed" => simPc = "completed",
           simPc' \in Tested => simPc \in Tested,
           ctPc'[1] \in {"install", "request"} => ctPc'[1] = ctPc[1]
    PROVE  Bootstrap'
BY DEF Bootstrap, From, Leaving, IsHalted

\* A run begins with two bootstrap ticks to come.
LEMMA BootstrapControlThread ==
    ASSUME Single, TypeInv, OneChain, Bootstrap, OnStart(1) \/ ControlThread(1)
    PROVE  Bootstrap'
<1> USE DEF TypeInv, TypeOK
<1>0. 1 \in Gen
  BY OnlyServer
<1>1. ctPc[1] \notin {"check", "wait"} => ~Due /\ simPc \notin Testing /\ simPc \notin Tested
  BY ChainFacts DEF Parked
<1>2. CASE CtBeginRun(1)
  <2>1. /\ UNCHANGED <<cpu, simPc, uiTicks, ticksRequested>> /\ ctPc[1] = "take"
        /\ ctPc'[1] = "install" /\ origin'[1] = cpu
    BY <1>0, <1>2 DEF CtBeginRun, CtGoto, simVars
  <2> QED
    BY <1>1, <2>1 DEF Bootstrap, From, Due, Testing
<1>3. CASE CtInstall(1)
  <2>1. /\ UNCHANGED <<cpu, simPc, uiTicks, ticksRequested, origin>> /\ ctPc[1] = "install"
        /\ ctPc'[1] = "request" /\ bootstrapTicks' = 2
    BY <1>0, <1>3 DEF CtInstall, CtGoto, simVars
  <2> QED
    BY <1>1, <2>1 DEF Bootstrap, From, Due, Testing
<1>4. CASE CtRequest(1)
  <2>1. /\ UNCHANGED <<cpu, simPc, bootstrapTicks, origin>> /\ ctPc[1] = "request"
        /\ ctPc'[1] = "check"
    BY <1>0, <1>4 DEF CtRequest, CtGoto, tickVars
  <2>2. bootstrapTicks = 2
    BY <2>1 DEF Bootstrap
  <2>3. \A o \in CpuState : From(o) => o = [pc |-> o.pc, phase |-> 0] /\ cpu = o
    BY <2>1 DEF Bootstrap, From, CpuState
  <2> QED
    BY <1>1, <2>1, <2>2, <2>3 DEF Bootstrap, From, Leaving, Testing
<1>5. CASE OnStart(1) \/ CtHandle(1) \/ CtThrow(1) \/ CtReset(1) \/ CtWake(1) \/ CtCheck(1)
           \/ CtReturn(1) \/ CtReturnNull(1)
  <2>1. /\ UNCHANGED <<cpu, simPc, bootstrapTicks, origin, uiTicks, ticksRequested>>
        /\ ctPc'[1] \notin {"install", "request"}
    BY <1>0, <1>5 DEF OnStart, CtHandle, CtThrow, CtReset, CtWake, CtCheck, CtReturn, CtReturnNull,
                      CtGoto, ctVars, tickVars, simVars
  <2> QED
    BY <2>1, FromKept DEF Due
<1> QED
  BY <1>2, <1>3, <1>4, <1>5 DEF ControlThread

\* What is ticked on was tested, or is still in the fetch of its first instruction.
LEMMA BootstrapSimulator ==
    ASSUME Single, LongInstructions, TypeInv, OneChain, Bootstrap, Simulator
    PROVE  Bootstrap'
<1> USE DEF TypeInv, TypeOK
<1>0. 1 \in Gen
  BY OnlyServer
<1>1. /\ simPc \in Testing => ctPc[1] \in {"check", "wait"} /\ ~Due
      /\ Due => ctPc[1] \in {"check", "wait"}
  BY ChainFacts DEF Parked
<1>2. CASE SimReset
  <2>1. origin'[1] = Null /\ UNCHANGED <<ctPc, bootstrapTicks, simPc>>
    BY <1>0, <1>2 DEF SimReset, tickVars
  <2> QED
    BY <2>1, ProgramAssumption DEF Bootstrap, From
<1>3. CASE SimTick
  <2>1. /\ UNCHANGED <<ctPc, bootstrapTicks, origin>> /\ cpu' = Tick(cpu)
        /\ uiTicks' = uiTicks /\ ticksRequested' = ticksRequested - 1
        /\ simPc' \in {"idle", "completed"} /\ ticksRequested > 0
    BY <1>3 DEF SimTick, tickVars, ctVars
  <2>2. Due /\ uiTicks + ticksRequested <= 1
    BY <1>1, <2>1 DEF Due, OneChain, TicksUnderWay
  <2>3. ~Due'
    BY <2>1, <2>2 DEF Due
  <2>4. ASSUME NEW o \in CpuState, From(o), bootstrapTicks > 0
        PROVE  Tick(cpu) = IF IsHalted(o) THEN o ELSE [pc |-> o.pc, phase |-> 3 - bootstrapTicks]
    <3>1. cpu = IF IsHalted(o) THEN o ELSE [pc |-> o.pc, phase |-> 2 - bootstrapTicks]
      BY <2>2, <2>4 DEF Bootstrap, Leaving
    <3>2. CASE IsHalted(o)
      BY <3>1, <3>2, TickPhase
    <3>3. CASE ~IsHalted(o)
      <4>1. ~IsHalted(cpu) /\ cpu.phase = 2 - bootstrapTicks /\ cpu.pc = o.pc
        BY <3>1, <3>3 DEF IsHalted
      <4>2. bootstrapTicks \in -1 .. 2 /\ InstrTicks >= 3 /\ InstrTicks \in Nat
        BY ProgramAssumption DEF LongInstructions
      <4>3. cpu.phase < InstrTicks - 1 /\ cpu.phase + 1 = 3 - bootstrapTicks
        BY <2>4, <4>1, <4>2
      <4> QED
        BY <3>3, <4>1, <4>3, TickPhase
    <3> QED
      BY <3>2, <3>3
  <2> QED
    BY <1>1, <2>1, <2>2, <2>3, <2>4 DEF Bootstrap, From, Leaving, IsHalted, Tested
<1>4. CASE SimCompleted
  <2>1. /\ UNCHANGED <<ctPc, origin, cpu>> /\ simPc = "completed"
        /\ bootstrapTicks' = IF bootstrapTicks < 0 THEN -1 ELSE bootstrapTicks - 1
        /\ (simPc' = "idle" \/ (simPc' \in Tested /\ bootstrapTicks' < 0))
    BY <1>4 DEF SimCompleted, RequestNextTick, ctVars, Tested
  <2>2. ctPc[1] \in {"check", "wait"} /\ ~Due
    BY <1>1, <2>1 DEF Testing
  <2>3. bootstrapTicks' >= 0 => bootstrapTicks > 0 /\ 2 - bootstrapTicks' = 3 - bootstrapTicks
    BY <2>1
  <2> QED
    BY <2>1, <2>2, <2>3 DEF Bootstrap, From, Leaving, IsHalted, Tested
<1>5. CASE SimBeginRun
  BY <1>5, ChainSimulator DEF SimBeginRun, OneChain
<1>6. CASE SimContinue
  <2>1. /\ UNCHANGED <<ctPc, origin, cpu, bootstrapTicks>> /\ simPc = "decide" /\ simPc' = "idle"
    BY <1>6 DEF SimContinue, RequestNextTick, ctVars, tickVars
  <2>2. bootstrapTicks < 0 /\ ctPc[1] \in {"check", "wait"}
    BY <1>1, <2>1 DEF Bootstrap, Tested, Testing
  <2> QED
    BY <2>1, <2>2 DEF Bootstrap, From, Tested
<1>7. CASE SimNotify
  <2>1. /\ UNCHANGED <<origin, cpu, bootstrapTicks, uiTicks, ticksRequested>>
        /\ simPc = "notify" /\ simPc' = "idle"
        /\ ctPc'[1] = IF ctPc[1] = "wait" THEN "check" ELSE ctPc[1]
    BY <1>0, <1>7 DEF SimNotify, tickVars
  <2> QED
    BY <2>1, FromKept DEF Due, Tested
<1>8. CASE SimPoll \/ SimHandle \/ SimThrow \/ SimHandleReset \/ SimWake \/ SimAccept \/ SimPublish
  <2>1. /\ UNCHANGED <<ctPc, origin, cpu, bootstrapTicks, uiTicks, ticksRequested>>
        /\ simPc' # "completed" /\ (simPc' \in Tested => simPc \in Tested)
    BY <1>8 DEF SimPoll, SimHandle, SimThrow, SimHandleReset, SimWake, SimAccept, SimPublish,
                ctVars, tickVars, Tested
  <2> QED
    BY <2>1, FromKept DEF Due
<1> QED
  BY <1>2, <1>3, <1>4, <1>5, <1>6, <1>7, <1>8 DEF Simulator

\* All steps together.
LEMMA BootstrapStep ==
    ASSUME Single, LongInstructions, TypeInv, OneChain, Bootstrap, [Next]_vars
    PROVE  Bootstrap'
<1>0. 1 \in Gen
  BY OnlyServer
<1>1. CASE UNCHANGED vars
  BY <1>1, FromKept DEF vars, ctVars, tickVars, simVars, Due
<1>2. CASE User \/ UiTick
  <2>1. UNCHANGED <<origin, cpu, bootstrapTicks, simPc>>
    BY <1>2 DEF User, PressStart, PressStop, ManualTick, OnMessage, UiTick, ctVars, tickVars, simVars
  <2>2. ctPc'[1] = ctPc[1] \/ ctPc'[1] = "created"
    BY <1>0, <1>2 DEF User, PressStart, PressStop, ManualTick, OnMessage, UiTick, ctVars,
                      TypeInv, TypeOK
  <2>3. Due' => Due
    BY <1>2 DEF User, PressStart, PressStop, ManualTick, OnMessage, UiTick, simVars, Due, Single,
                TypeInv, TypeOK
  <2> QED
    BY <2>1, <2>2, <2>3, FromKept
<1> QED
  BY <1>1, <1>2, OnlyServer, BootstrapControlThread, BootstrapSimulator DEF Next

\* No run, no tick.
LEMMA BootstrapInit == Single /\ Init => Bootstrap
<1> SUFFICES ASSUME Single, Init PROVE Bootstrap
  OBVIOUS
<1>1. 1 \in Gen
  BY OnlyServer
<1>2. ctPc[1] = "none" /\ simPc = "idle" /\ origin[1] = Null
  BY <1>1 DEF Init
<1> QED
  BY <1>2, ProgramAssumption DEF Bootstrap, From, Tested

\* The simulator goes on with a run after a tick it did not test, or tested.
LEMMA GoesOn ==
    ASSUME TypeInv, [Next]_vars, simPc \in {"completed", "decide"}, simPc' = "idle"
    PROVE  SimCompleted \/ SimContinue
<1>1. CASE UNCHANGED vars
  BY <1>1 DEF vars, simVars
<1>2. CASE User \/ UiTick
  BY <1>2 DEF User, PressStart, PressStop, ManualTick, OnMessage, UiTick, simVars
<1>3. CASE Simulator
  BY <1>3 DEF Simulator, SimReset, SimTick, SimPoll, SimHandle, SimThrow, SimHandleReset, SimWake,
              SimBeginRun, SimAccept, SimPublish, SimNotify
<1>4. ASSUME NEW g \in Gen, OnStart(g) \/ ControlThread(g) PROVE FALSE
  BY <1>4 DEF OnStart, ControlThread, CtHandle, CtThrow, CtReset, CtWake, CtBeginRun, CtInstall,
              CtRequest, CtCheck, CtReturn, CtReturnNull, simVars
<1> QED
  BY <1>1, <1>2, <1>3, <1>4 DEF Next

\* A run from the beginning of an instruction passes no breakpoint but the one it
\* stands on, and that one in its bootstrap ticks only, wherever in the run the
\* breakpoints were set; instructions take three ticks or more.
THEOREM BreakpointsHit == Single /\ LongInstructions => (Spec => BreakpointHit)
<1> SUFFICES ASSUME Single, LongInstructions PROVE Spec => BreakpointHit
  OBVIOUS
<1>1. ASSUME TypeInv, OneChain, Exact, Bootstrap, [Next]_vars, NEW g \in Gen,
             PassesBreakpoint(g), origin[g] # Null, origin[g].phase = 0
      PROVE  bootstrapTicks' >= 0 /\ cpu = [origin[g] EXCEPT !.phase = FetchTicks - 1]
  <2> DEFINE o == origin[1]
  <2>1. g = 1 /\ o \in CpuState /\ cpu \in CpuState /\ From(o)
    BY <1>1, OnlyServer DEF TypeInv, TypeOK, From
  <2>2. /\ "breakpoint" \in StopConds(ctMsg[1]) /\ cpu.phase = FetchTicks - 1
        /\ cpu.pc \in breakpoints[1] /\ adapterReady /\ simPc' = "idle"
        /\ simPc \in {"completed", "decide"} /\ ctPc[1] \in {"check", "wait"}
    BY <1>1, <2>1 DEF PassesBreakpoint, Parked
  <2> HIDE DEF o
  <2>3. SimCompleted \/ SimContinue
    BY <1>1, <2>2, GoesOn
  <2>4. CASE SimContinue
    <3>1. ~Accepted /\ simPc = "decide"
      BY <2>4 DEF SimContinue
    <3>2. test.owner = 1 /\ test.state = cpu /\ test.conds = StopConds(ctMsg[1])
      BY <1>1, <2>2, <3>1, ChainFacts DEF Exact, Tested
    <3>3. Check(cpu, StopConds(ctMsg[1]), breakpoints[1], lineLocations[1]) = {}
      BY <3>1, <3>2 DEF Accepted, Accepts
    <3>4. IsFetching(cpu)
      BY <2>2, ProgramAssumption DEF IsFetching
    <3> QED
      BY <2>2, <3>3, <3>4 DEF Check
  <2>5. CASE SimCompleted
    <3>1. simPc = "completed" /\ bootstrapTicks' >= 0 /\ bootstrapTicks > 0
      BY <1>1, <2>2, <2>5 DEF SimCompleted, TypeInv, TypeOK
    <3>2. Leaving(o, 3 - bootstrapTicks)
      BY <1>1, <2>1, <3>1 DEF Bootstrap
    <3>3. cpu.pc = o.pc
      BY <2>1, <3>2 DEF Leaving
    <3>4. cpu = [o EXCEPT !.phase = FetchTicks - 1]
      BY <2>1, <2>2, <3>3 DEF CpuState
    <3> QED
      BY <2>1, <3>1, <3>4 DEF o
  <2> QED
    BY <2>3, <2>4, <2>5
<1>2. TypeInv /\ OneChain /\ Exact /\ Bootstrap /\ [Next]_vars
        => [\A g \in Gen :
              PassesBreakpoint(g) /\ origin[g] # Null /\ origin[g].phase = 0
              => bootstrapTicks' >= 0 /\ cpu = [origin[g] EXCEPT !.phase = FetchTicks - 1]]_vars
  BY <1>1
<1>3. TypeInv /\ OneChain /\ [Next]_vars => OneChain'
  BY ChainStep
<1>4. TypeInv /\ OneChain /\ Exact /\ [Next]_vars => Exact'
  BY ExactStep
<1>5. TypeInv /\ OneChain /\ Bootstrap /\ [Next]_vars => Bootstrap'
  BY BootstrapStep
<1>6. Init => Exact /\ Bootstrap
  BY ExactInit, BootstrapInit
<1> QED
  BY <1>2, <1>3, <1>4, <1>5, <1>6, TypeInit, ChainInit, TypeStep, PTL DEF Spec, BreakpointHit

--------------------------------------------------------------------------------
\* Thread 1 is in a STEP.
Stepping == ctMsg[1] # Null /\ ctMsg[1].action = "step"

\* A STEP from the beginning of an instruction is in it after the bootstrap ticks,
\* until a tick brings it to the fetch of the next, where it stops.
OneInstruction ==
    Stepping => \A o \in CpuState : From(o) =>
        /\ Due /\ bootstrapTicks < 0 /\ adapterReady => Inside(o) /\ ~IsHalted(o)
        /\ simPc = "completed" /\ bootstrapTicks <= 0 /\ adapterReady => Inside(o) \/ AtNext(o)
        /\ simPc \in Tested => Inside(o) \/ AtNext(o)
        /\ tickCompleted /\ ctPc[1] \in {"check", "wait", "return"} => ~running[1] \/ AtNext(o)

\* A tick inside an instruction, its fetch over or about to be, stays inside or
\* leads to the next.
LEMMA TickInside ==
    ASSUME ShortFetch, TypeInv, NEW o \in CpuState, cpu.pc = o.pc, ~IsHalted(o),
           ~IsFetching(cpu) \/ cpu.phase = 2, cpu' = Tick(cpu)
    PROVE  Inside(o)' \/ AtNext(o)'
<1>1. cpu \in CpuState /\ cpu.phase \in 0 .. InstrTicks - 1 /\ FetchTicks \in Nat /\ InstrTicks \in Nat
  BY ProgramAssumption DEF TypeInv, TypeOK, CpuState
<1>2. ~IsHalted(cpu)
  BY DEF IsHalted
<1>3. CASE cpu.phase = InstrTicks - 1
  BY <1>1, <1>2, <1>3, TickPhase DEF AtNext
<1>4. CASE cpu.phase < InstrTicks - 1
  <2>1. cpu' = [pc |-> o.pc, phase |-> cpu.phase + 1]
    BY <1>1, <1>2, <1>4, TickPhase
  <2>2. ~(cpu.phase + 1 < FetchTicks)
    BY <1>1 DEF ShortFetch, IsFetching
  <2> QED
    BY <2>1, <2>2 DEF Inside, IsFetching, IsHalted
<1> QED
  BY <1>1, <1>3, <1>4

\* OneInstruction looks at a few variables only.
LEMMA InstructionKept ==
    ASSUME OneInstruction,
           UNCHANGED <<origin, cpu, bootstrapTicks, ctMsg, adapterReady, tickCompleted, running>>,
           Due' => Due, simPc' = "completed" => simPc = "completed",
           simPc' \in Tested => simPc \in Tested,
           tickCompleted /\ ctPc'[1] \in {"check", "wait", "return"}
                => ctPc[1] \in {"check", "wait", "return"}
    PROVE  OneInstruction'
BY DEF OneInstruction, Stepping, From, Inside, AtNext, IsHalted, IsFetching

\* A STEP begins with no tick made.
LEMMA InstructionControlThread ==
    ASSUME Single, TypeInv, OneChain, Bootstrap, OneInstruction, OnStart(1) \/ ControlThread(1)
    PROVE  OneInstruction'
<1> USE DEF TypeInv, TypeOK
<1>0. 1 \in Gen
  BY OnlyServer
<1>1. ctPc[1] \notin {"check", "wait"} => ~Due /\ simPc \notin Testing
  BY ChainFacts DEF Parked
<1>2. CASE CtCheck(1)
  <2>1. /\ UNCHANGED <<origin, cpu, bootstrapTicks, ctMsg, adapterReady, tickCompleted, running>>
        /\ UNCHANGED <<simPc, uiTicks, ticksRequested>> /\ ctPc[1] = "check"
    BY <1>2 DEF CtCheck, msgVars, tickVars, simVars
  <2> QED
    BY <2>1, InstructionKept DEF Due
<1>3. CASE ~CtCheck(1)
  <2>1. simPc' = simPc /\ ctPc[1] \notin {"check", "wait"}
    BY <1>3 DEF OnStart, ControlThread, CtHandle, CtThrow, CtReset, CtWake, CtBeginRun, CtInstall,
                CtRequest, CtReturn, CtReturnNull, simVars
  <2>2. Due' => bootstrapTicks' = 2
    <3>1. CASE CtRequest(1)
      BY <3>1 DEF CtRequest, Bootstrap, tickVars
    <3>2. CASE ~CtRequest(1)
      <4>1. UNCHANGED <<uiTicks, ticksRequested>>
        BY <1>3, <3>2 DEF OnStart, ControlThread, CtHandle, CtThrow, CtReset, CtWake, CtBeginRun,
                          CtInstall, CtReturn, CtReturnNull, simVars
      <4> QED
        BY <1>1, <2>1, <4>1 DEF Due
    <3> QED
      BY <3>1, <3>2
  <2>3. ~(tickCompleted' /\ ctPc'[1] \in {"check", "wait", "return"})
    <3>1. CASE CtRequest(1)
      BY <3>1 DEF CtRequest, OneChain, tickVars
    <3>2. CASE ~CtRequest(1)
      BY <1>0, <1>3, <3>2 DEF OnStart, ControlThread, CtHandle, CtThrow, CtReset, CtWake, CtBeginRun,
                        CtInstall, CtReturn, CtReturnNull, CtGoto, ctVars
    <3> QED
      BY <3>1, <3>2
  <2> QED
    BY <1>1, <2>1, <2>2, <2>3 DEF OneInstruction, Testing, Tested
<1> QED
  BY <1>2, <1>3

\* A tick takes a STEP further in its instruction, never past the next fetch.
LEMMA InstructionTick ==
    ASSUME Single, LongInstructions, ShortFetch, TypeInv, OneChain, Bootstrap, OneInstruction, SimTick
    PROVE  OneInstruction'
<1> USE DEF TypeInv, TypeOK
<1>1. /\ UNCHANGED <<ctPc, bootstrapTicks, origin, ctMsg, adapterReady, tickCompleted>>
      /\ cpu' = Tick(cpu) /\ uiTicks' = uiTicks /\ ticksRequested' = ticksRequested - 1
      /\ simPc' \in {"idle", "completed"} /\ ticksRequested > 0
  BY DEF SimTick, tickVars, ctVars, msgVars
<1>2. Due /\ ~tickCompleted /\ uiTicks + ticksRequested <= 1
  BY <1>1, ChainFacts DEF Due, OneChain, TicksUnderWay
<1>3. ~Due'
  BY <1>1, <1>2 DEF Due
<1>4. ASSUME NEW o \in CpuState, From(o), Stepping, bootstrapTicks <= 0, adapterReady
      PROVE  Inside(o)' \/ AtNext(o)'
  <2>1. CASE bootstrapTicks < 0
    <3>1. Inside(o) /\ ~IsHalted(o)
      BY <1>2, <1>4, <2>1 DEF OneInstruction
    <3>2. cpu.pc = o.pc /\ ~IsFetching(cpu)
      BY <3>1 DEF Inside
    <3> QED
      BY <1>1, <3>1, <3>2, TickInside
  <2>2. CASE bootstrapTicks = 0
    <3>1. cpu = IF IsHalted(o) THEN o ELSE [pc |-> o.pc, phase |-> 2]
      BY <1>2, <1>4, <2>2 DEF Bootstrap, Leaving
    <3>2. CASE IsHalted(o)
      BY <1>1, <3>1, <3>2, TickPhase DEF Inside, IsHalted
    <3>3. CASE ~IsHalted(o)
      <4>1. cpu.pc = o.pc /\ cpu.phase = 2
        BY <3>1, <3>3
      <4> QED
        BY <1>1, <3>3, <4>1, TickInside
    <3> QED
      BY <3>2, <3>3
  <2> QED
    BY <1>4, <2>1, <2>2
<1> QED
  BY <1>1, <1>2, <1>3, <1>4 DEF OneInstruction, Stepping, From, Tested

\* What the simulator thread decides of a STEP.
LEMMA InstructionDecide ==
    ASSUME TypeInv, Exact, OneInstruction, Stepping, simPc = "decide", test.owner = 1,
           ctPc[1] \in {"check", "wait"}, NEW o \in CpuState, From(o)
    PROVE  /\ ~Accepted => Inside(o) /\ ~IsHalted(o)
           /\ Accepted => ~running[1] \/ AtNext(o)
<1>1. Inside(o) \/ AtNext(o)
  BY DEF OneInstruction, Tested
<1>2. Accepted <=> ~running[1] \/ IsHalted(cpu)
                   \/ Check(cpu, Conditions, breakpoints[1], lineLocations[1]) # {}
  BY DEF Accepted, Accepts, Exact, Tested, StopConds, Stepping
<1>3. IsFetching(cpu) <=> Check(cpu, Conditions, breakpoints[1], lineLocations[1]) # {}
  BY DEF Check, Conditions
<1>4. IsHalted(o) /\ cpu = o => AtNext(o)
  BY DEF AtNext, From, CpuState
<1>5. AtNext(o) => IsFetching(cpu)
  BY ProgramAssumption DEF AtNext, IsFetching
<1>6. Inside(o) /\ ~IsHalted(o) => ~IsHalted(cpu) /\ ~IsFetching(cpu)
  BY DEF Inside, IsHalted
<1>7. Inside(o) /\ IsHalted(o) => cpu = o
  BY DEF Inside
<1> QED
  BY <1>1, <1>2, <1>3, <1>4, <1>5, <1>6, <1>7

\* A state is accepted for a STEP at the beginning of an instruction only.
LEMMA InstructionSimulator ==
    ASSUME Single, LongInstructions, ShortFetch, TypeInv, OneChain, Exact, Bootstrap,
           OneInstruction, Simulator
    PROVE  OneInstruction'
<1> USE DEF TypeInv, TypeOK
<1>0. 1 \in Gen
  BY OnlyServer
<1>1. /\ simPc \in Testing => ctPc[1] \in {"check", "wait"} /\ ~Due /\ ~tickCompleted
      /\ simPc \in Tested => test.owner = 1
  BY ChainFacts DEF Parked
<1>2. CASE SimReset
  <2>1. origin'[1] = Null
    BY <1>0, <1>2 DEF SimReset
  <2> QED
    BY <2>1, ProgramAssumption DEF OneInstruction, From
<1>3. CASE SimTick
  BY <1>3, InstructionTick
<1>4. CASE SimCompleted
  <2>1. /\ UNCHANGED <<ctPc, origin, cpu, ctMsg, adapterReady, tickCompleted, running>>
        /\ simPc = "completed"
        /\ bootstrapTicks' = IF bootstrapTicks < 0 THEN -1 ELSE bootstrapTicks - 1
        /\ \/ simPc' = "idle" /\ ~(bootstrapTicks' < 0 /\ adapterReady)
           \/ /\ simPc' \in Tested /\ bootstrapTicks' < 0 /\ adapterReady
              /\ UNCHANGED <<uiTicks, ticksRequested>>
    BY <1>4 DEF SimCompleted, RequestNextTick, ctVars, msgVars, Tested
  <2>2. ctPc[1] \in {"check", "wait"} /\ ~Due /\ ~tickCompleted
    BY <1>1, <2>1 DEF Testing
  <2>3. bootstrapTicks' < 0 => bootstrapTicks <= 0
    BY <2>1
  <2> QED
    BY <2>1, <2>2, <2>3
       DEF OneInstruction, Stepping, From, Inside, AtNext, IsHalted, IsFetching, Tested, Due
<1>5. CASE SimBeginRun
  BY <1>5, ChainSimulator DEF SimBeginRun, OneChain
<1>6. CASE SimContinue
  <2>1. /\ UNCHANGED <<ctPc, origin, cpu, ctMsg, tickCompleted>> /\ ~Accepted
        /\ simPc = "decide" /\ simPc' = "idle"
    BY <1>6 DEF SimContinue, RequestNextTick, ctVars, tickVars
  <2>2. ctPc[1] \in {"check", "wait"} /\ ~tickCompleted /\ test.owner = 1
    BY <1>1, <2>1 DEF Testing, Tested
  <2>3. Stepping => \A o \in CpuState : From(o) => Inside(o) /\ ~IsHalted(o)
    BY <2>1, <2>2, InstructionDecide
  <2> QED
    BY <2>1, <2>2, <2>3
       DEF OneInstruction, Stepping, From, Inside, IsHalted, IsFetching, Tested
<1>7. CASE SimAccept
  <2>1. /\ UNCHANGED <<ctPc, origin, cpu, ctMsg, running, uiTicks, ticksRequested>> /\ Accepted
        /\ simPc = "decide" /\ simPc' = "publish"
    BY <1>7 DEF SimAccept, ctVars, msgVars
  <2>2. ctPc[1] \in {"check", "wait"} /\ ~Due /\ test.owner = 1
    BY <1>1, <2>1 DEF Testing, Tested
  <2>3. Stepping => \A o \in CpuState : From(o) => ~running[1] \/ AtNext(o)
    BY <2>1, <2>2, InstructionDecide
  <2> QED
    BY <2>1, <2>2, <2>3 DEF OneInstruction, Stepping, From, AtNext, IsHalted, Tested, Due
<1>8. CASE SimPoll \/ SimHandle \/ SimThrow \/ SimHandleReset \/ SimWake
  <2>1. /\ UNCHANGED <<ctPc, origin, cpu, ctMsg, tickCompleted, uiTicks, ticksRequested>>
        /\ simPc \in Tested /\ simPc' # "completed"
    BY <1>8 DEF SimPoll, SimHandle, SimThrow, SimHandleReset, SimWake, ctVars, tickVars, Tested
  <2>2. ~Due /\ ~tickCompleted
    BY <1>1, <2>1 DEF Testing, Tested
  <2> QED
    BY <2>1, <2>2 DEF OneInstruction, Stepping, From, Inside, AtNext, IsHalted, IsFetching, Due
<1>9. CASE SimPublish
  <2>1. /\ UNCHANGED <<origin, cpu, bootstrapTicks, ctMsg, adapterReady, tickCompleted, running>>
        /\ UNCHANGED <<ctPc, uiTicks, ticksRequested>> /\ simPc' = "notify"
    BY <1>9 DEF SimPublish, ctVars, msgVars
  <2> QED
    BY <2>1, InstructionKept DEF Due, Tested
<1>10. CASE SimNotify
  <2>1. /\ UNCHANGED <<origin, cpu, bootstrapTicks, ctMsg, adapterReady, tickCompleted, running>>
        /\ UNCHANGED <<uiTicks, ticksRequested>> /\ simPc' = "idle"
        /\ ctPc'[1] = IF ctPc[1] = "wait" THEN "check" ELSE ctPc[1]
    BY <1>0, <1>10 DEF SimNotify, msgVars, tickVars
  <2> QED
    BY <2>1, InstructionKept DEF Due, Tested
<1> QED
  BY <1>2, <1>3, <1>4, <1>5, <1>6, <1>7, <1>8, <1>9, <1>10 DEF Simulator

\* All steps together.
LEMMA InstructionStep ==
    ASSUME Single, LongInstructions, ShortFetch, TypeInv, OneChain, Exact, Bootstrap,
           OneInstruction, [Next]_vars
    PROVE  OneInstruction'
<1>0. 1 \in Gen
  BY OnlyServer
<1>1. CASE UNCHANGED vars
  BY <1>1, InstructionKept DEF vars, ctVars, msgVars, tickVars, simVars, Due
<1>2. CASE User \/ UiTick
  <2>1. UNCHANGED <<origin, cpu, bootstrapTicks, ctMsg, adapterReady, tickCompleted, running, simPc>>
    BY <1>2 DEF User, PressStart, PressStop, ManualTick, OnMessage, UiTick, ctVars, msgVars,
                tickVars, simVars
  <2>2. ctPc'[1] = ctPc[1] \/ ctPc'[1] = "created"
    BY <1>0, <1>2 DEF User, PressStart, PressStop, ManualTick, OnMessage, UiTick, ctVars,
                      TypeInv, TypeOK
  <2>3. Due' => Due
    BY <1>2 DEF User, PressStart, PressStop, ManualTick, OnMessage, UiTick, simVars, Due, Single,
                TypeInv, TypeOK
  <2> QED
    BY <2>1, <2>2, <2>3, InstructionKept
<1> QED
  BY <1>1, <1>2, OnlyServer, InstructionControlThread, InstructionSimulator DEF Next

\* A STEP from the beginning of an instruction that is neither paused nor reset ends
\* at the beginning of the next one, whatever is handled meanwhile, if fetching takes
\* three ticks or fewer and an instruction three or more.
THEOREM StepsAreExact ==
    Single /\ LongInstructions /\ ShortFetch => (Spec => StepIsOneInstruction)
<1> SUFFICES ASSUME Single, LongInstructions, ShortFetch PROVE Spec => StepIsOneInstruction
  OBVIOUS
<1>1. ASSUME TypeInv, OneChain, Exact, OneInstruction, [Next]_vars, NEW g \in Gen,
             ctPc[g] = "return", ctPc'[g] = "take", simPc # "publish",
             ctMsg[g].action = "step", origin[g] # Null, origin[g].phase = 0,
             stop'[g].reason # "pause"
      PROVE  \/ stop'[g].state = [pc |-> IF IsHalted(origin[g]) THEN origin[g].pc
                                         ELSE Succ[origin[g].pc], phase |-> 0]
             \/ IsHalted(stop'[g].state)
  <2>1. g = 1 /\ CtReturn(1)
    BY <1>1, OnlyServer, ReturnStep
  <2>2. stop'[1].state = cpu /\ stop'[1].reason = Reason(1, StopConds(ctMsg[1]), cpu)
    BY <1>1, <2>1, Returned
  <2>3. running[1]
    BY <1>1, <2>1, <2>2, Zenon DEF Reason
  <2>4. Stepping /\ origin[1] \in CpuState /\ From(origin[1])
    BY <1>1, <2>1, ProgramAssumption DEF TypeInv, TypeOK, Owned, Stepping, From
  <2>5. AtNext(origin[1])
    BY <1>1, <2>1, <2>3, <2>4 DEF OneInstruction, Exact
  <2> QED
    BY <2>1, <2>2, <2>5 DEF AtNext
<1>2. TypeInv /\ OneChain /\ Exact /\ OneInstruction /\ [Next]_vars
        => [\A g \in Gen :
              /\ ctPc[g] = "return" /\ ctPc'[g] = "take" /\ simPc # "publish"
              /\ ctMsg[g].action = "step" /\ origin[g] # Null /\ origin[g].phase = 0
              /\ stop'[g].reason # "pause"
              => stop'[g].state = [pc |-> IF IsHalted(origin[g]) THEN origin[g].pc
                                          ELSE Succ[origin[g].pc], phase |-> 0]
                 \/ IsHalted(stop'[g].state)]_vars
  BY <1>1
<1>3. TypeInv /\ OneChain /\ [Next]_vars => OneChain'
  BY ChainStep
<1>4. TypeInv /\ OneChain /\ Exact /\ [Next]_vars => Exact'
  BY ExactStep
<1>5. TypeInv /\ OneChain /\ Bootstrap /\ [Next]_vars => Bootstrap'
  BY BootstrapStep
<1>6. TypeInv /\ OneChain /\ Exact /\ Bootstrap /\ OneInstruction /\ [Next]_vars => OneInstruction'
  BY InstructionStep
<1>7. Init => Exact /\ Bootstrap
  BY ExactInit, BootstrapInit
<1>8. Init => OneInstruction
  BY OnlyServer DEF Init, OneInstruction, Stepping
<1> QED
  BY <1>2, <1>3, <1>4, <1>5, <1>6, <1>7, <1>8, TypeInit, ChainInit, TypeStep, PTL
     DEF Spec, StepIsOneInstruction

================================================================================
