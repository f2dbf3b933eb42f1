------------------------------ MODULE TickControl ------------------------------
(***************************************************************************)
(* The Logisim debugger (src/logisim/logisim-debugger): how a TCP client    *)
(* drives a circuit simulation one clock tick at a time.                    *)
(*                                                                          *)
(* Four kinds of thread meet here:                                          *)
(*   - the WebSocket thread of a Server enqueues the client's messages;     *)
(*   - one TickControlThread per Server takes them and, for RUN and STEP,   *)
(*     parks in SimulationTicker.tickUntil until a run has ended;           *)
(*   - Logisim's simulator thread makes the ticks.  After each tick it      *)
(*     calls onTickComplete, which, during a run, handles further messages  *)
(*     itself (the predicate calls handleMessage(false)) and either stops   *)
(*     the run or asks for one more tick;                                   *)
(*   - Swing's event thread runs the "first tick" closure and the Start     *)
(*     and Stop buttons.                                                    *)
(*                                                                          *)
(* Every pressed Start makes a new Server with a queue and a thread of its  *)
(* own; they are numbered 1..MaxServers.  The ticker, the processor adapter *)
(* and the simulator are shared by all of them.                             *)
(***************************************************************************)
EXTENDS Integers, Sequences

CONSTANTS
    MaxServers,          \* bound: how often Start may make a new Server
    MaxMessages,         \* bound: messages sent to the first Server, and one fewer
                         \* to each later one
    MaxManualTicks,      \* bound: ticks made by hand in Logisim's menu
    MayStop,             \* whether the user presses Stop
    Capacity,            \* QUEUE_INITIAL_CAPACITY of Server.java
    Messages,            \* the messages the client may send
    Addr, Succ,          \* addresses of the programs in memory, successors
    Entry,               \* the reset address of the program an address is in
    Halting, Faulting,   \* addresses that halt / raise an exception
    FetchTicks,          \* ticks of an instruction with the fetch signal on
    InstrTicks,          \* ticks of an instruction
    SupportsExceptions,  \* ProcessorAdapter.supportsExceptions()
    Null                 \* Java's null, for a processor state

Gen == 1 .. MaxServers
Conditions == {"fetch", "line", "breakpoint", "exception"}
Starting == {"run", "step"}
NeedsProject == {"reset", "init", "memory"}
Action == Starting \cup NeedsProject
            \cup {"pause", "setBreakpoints", "setLineLocations", "query"}
Message == [action: Action, addrs: SUBSET Addr, conds: SUBSET Conditions]

\* What the debugger sees of the processor between two ticks.
CpuState == [pc: Addr, phase: 0 .. InstrTicks - 1]
ResetCpu(s) == [pc |-> Entry[s.pc], phase |-> 0]

ASSUME BoundsAssumption ==
    /\ MaxServers \in Nat \ {0} /\ MaxMessages \in Nat /\ MaxManualTicks \in Nat
    /\ Capacity \in Nat \ {0} /\ MayStop \in BOOLEAN /\ SupportsExceptions \in BOOLEAN
    /\ Messages \subseteq Message
ASSUME ProgramAssumption ==
    /\ Entry \in [Addr -> Addr] /\ Succ \in [Addr -> Addr]
    /\ Halting \subseteq Addr /\ Faulting \subseteq Addr
    /\ FetchTicks \in Nat /\ InstrTicks \in Nat
    /\ 0 < FetchTicks /\ FetchTicks < InstrTicks
    /\ Null \notin CpuState /\ Null \notin Message

VARIABLES
    server,          \* DebuggerComponent.server: 0 is null
    generation,      \* Servers made so far
    queue,           \* messageQueue of each Server
    ctPc,            \* where each TickControlThread is
    ctMsg,           \* the RUN or STEP it is in, Null when none
    running,         \* simulationRunning of each thread
    breakpoints, lineLocations, lastState,    \* fields of each thread
    tickCompleted, bootstrapTicks, predicate, tickResult,  \* SimulationTicker
    adapterReady,    \* processorAdapter is not the DefaultAdapter
    uiTicks,         \* closures waiting in Swing's event queue
    ticksRequested, resetRequested,           \* Logisim's Simulator
    simPc,           \* where the simulator thread is
    test,            \* the predicate call it is making: owner, conds, state
    cpu,             \* the simulated processor
    manualTicks, accepted, answered, origin, stop  \* history

comVars  == <<server, generation, queue, accepted>>
ctVars   == <<ctPc, ctMsg, lastState, origin, stop>>
msgVars  == <<running, breakpoints, lineLocations, adapterReady, resetRequested, answered>>
tickVars == <<tickCompleted, bootstrapTicks, predicate, tickResult>>
simVars  == <<simPc, test, cpu, ticksRequested, uiTicks, manualTicks>>
vars == <<comVars, ctVars, msgVars, tickVars, simVars>>

--------------------------------------------------------------------------------
(* The processor and the stop conditions.                                     *)

IsFetching(s) == s.phase < FetchTicks
IsHalted(s) == s.pc \in Halting
ExceptionHappened(s) == s.pc \in Faulting

\* Mutant: the phase counter runs one tick too far.
TickTooLong(s) ==
    IF IsHalted(s) THEN s
    ELSE IF s.phase < InstrTicks THEN [s EXCEPT !.phase = @ + 1]
    ELSE [pc |-> Succ[s.pc], phase |-> 0]

\* One tick of the clock; a halted processor stays where it is.
Tick(s) ==
    IF IsHalted(s) THEN s
    ELSE IF s.phase < InstrTicks - 1 THEN [s EXCEPT !.phase = @ + 1]
    ELSE [pc |-> Succ[s.pc], phase |-> 0]

\* Mutant: the two address lists are swapped.
CheckSwapped(s, conds, bps, lines) ==
    {c \in conds :
        /\ IsFetching(s)
        /\ c = "breakpoint" => s.pc \in lines
        /\ c = "line"       => s.pc \in bps
        /\ c = "exception"  => SupportsExceptions /\ ExceptionHappened(s)}

\* StopConditions.check: which of the requested conditions hold in s.
Check(s, conds, bps, lines) ==
    {c \in conds :
        /\ IsFetching(s)
        /\ c = "breakpoint" => s.pc \in bps
        /\ c = "line"       => s.pc \in lines
        /\ c = "exception"  => SupportsExceptions /\ ExceptionHappened(s)}

\* The predicate that runSimulation gives to tickUntil, after its call of
\* handleMessage(false).
Accepts(g, conds, s) ==
    ~running[g] \/ IsHalted(s) \/ Check(s, conds, breakpoints[g], lineLocations[g]) # {}

\* Mutant: an exception stops the run but is not named.
ReasonWithoutException(g, conds, s) ==
    LET hit == Check([s EXCEPT !.phase = cpu.phase], conds, breakpoints[g], lineLocations[g]) IN
    IF ~running[g] THEN "pause"
    ELSE IF IsHalted(cpu) THEN "halt"
    ELSE IF "breakpoint" \in hit THEN "breakpoint"
    ELSE IF "line" \in hit THEN "line"
    ELSE IF "fetch" \in hit THEN "fetch"
    ELSE "unknown"

\* The reason sent with the stop event: a later assignment of the code wins.  The
\* registers of s are a snapshot, its fetch and status pins are read from the
\* circuit when the adapter is asked for them.
Reason(g, conds, s) ==
    LET hit == Check([s EXCEPT !.phase = cpu.phase], conds, breakpoints[g], lineLocations[g]) IN
    IF ~running[g] THEN "pause"
    ELSE IF IsHalted(cpu) THEN "halt"
    ELSE IF "exception" \in hit THEN "exception"
    ELSE IF "breakpoint" \in hit THEN "breakpoint"
    ELSE IF "line" \in hit THEN "line"
    ELSE IF "fetch" \in hit THEN "fetch"
    ELSE "unknown"

StopConds(m) == IF m.action = "step" THEN Conditions ELSE m.conds

--------------------------------------------------------------------------------
Init ==
    /\ server = 0 /\ generation = 0 /\ manualTicks = 0
    /\ queue = [g \in Gen |-> <<>>]
    /\ accepted = [g \in Gen |-> 0] /\ answered = [g \in Gen |-> 0]
    /\ ctPc = [g \in Gen |-> "none"]
    /\ ctMsg = [g \in Gen |-> Null] /\ stop = [g \in Gen |-> Null]
    /\ lastState = [g \in Gen |-> Null] /\ origin = [g \in Gen |-> Null]
    /\ running = [g \in Gen |-> FALSE]
    /\ breakpoints = [g \in Gen |-> {}] /\ lineLocations = [g \in Gen |-> {}]
    /\ tickCompleted = FALSE /\ bootstrapTicks = 0 /\ tickResult = Null
    /\ predicate = [owner |-> 0, conds |-> {}]   \* (state) -> true
    /\ adapterReady = FALSE
    /\ uiTicks = 0 /\ ticksRequested = 0 /\ resetRequested = FALSE
    /\ simPc = "idle" /\ \E a \in Addr : cpu = [pc |-> Entry[a], phase |-> 0]
    /\ test = [owner |-> 0, conds |-> {}, state |-> Null]

--------------------------------------------------------------------------------
(* The buttons, the client and the event thread.                              *)

PressStart ==
    /\ server = 0 /\ generation < MaxServers
    /\ generation' = generation + 1 /\ server' = generation'
    /\ ctPc' = [ctPc EXCEPT ![server'] = "created"]
    /\ UNCHANGED <<queue, accepted, ctMsg, lastState, origin, stop, msgVars, tickVars, simVars>>

\* Stop closes the Server and forgets the project; the thread is left alone.
PressStop ==
    /\ MayStop /\ server # 0 /\ server' = 0
    /\ UNCHANGED <<generation, queue, accepted, ctVars, msgVars, tickVars, simVars>>

OnStart(g) ==
    /\ ctPc[g] = "created" /\ ctPc' = [ctPc EXCEPT ![g] = "take"]
    /\ UNCHANGED <<comVars, ctMsg, lastState, origin, stop, msgVars, tickVars, simVars>>

\* A message arrives; ArrayBlockingQueue.add throws when the queue is full, so
\* the message that does not fit is dropped and changes nothing.
OnMessage(m) ==
    /\ server # 0 /\ ctPc[server] # "created"
    /\ accepted[server] + generation <= MaxMessages /\ Len(queue[server]) < Capacity
    /\ queue' = [queue EXCEPT ![server] = Append(@, m)]
    /\ accepted' = [accepted EXCEPT ![server] = @ + 1]
    /\ UNCHANGED <<server, generation, ctVars, msgVars, tickVars, simVars>>

\* The closure of invokeLater; it throws when the project is null.
UiTick ==
    /\ uiTicks > 0 /\ uiTicks' = uiTicks - 1
    /\ ticksRequested' = ticksRequested + (IF server # 0 THEN 1 ELSE 0)
    /\ UNCHANGED <<comVars, ctVars, msgVars, tickVars, simPc, test, cpu, manualTicks>>

\* The user ticks the clock from Logisim's own menu.
ManualTick ==
    /\ manualTicks < MaxManualTicks /\ manualTicks' = manualTicks + 1
    /\ ticksRequested' = ticksRequested + 1
    /\ UNCHANGED <<comVars, ctVars, msgVars, tickVars, simPc, test, cpu, uiTicks>>

--------------------------------------------------------------------------------
(* The handlers of TickControlThread that neither start a run nor sleep.  The  *)
(* same code runs on the TickControlThread and, during a run, on the simulator *)
(* thread.  Each handler answers exactly once, with a success or a failure.    *)

Answer(g) == answered' = [answered EXCEPT ![g] = @ + 1]

HandleBreakpoints(g, m) ==
    /\ m.action = "setBreakpoints"
    /\ breakpoints' = [breakpoints EXCEPT ![g] = m.addrs]
    /\ Answer(g)
    /\ UNCHANGED <<running, lineLocations, adapterReady, resetRequested>>

HandleLineLocations(g, m) ==
    /\ m.action = "setLineLocations"
    /\ lineLocations' = [lineLocations EXCEPT ![g] = m.addrs]
    /\ Answer(g)
    /\ UNCHANGED <<running, breakpoints, adapterReady, resetRequested>>

HandlePause(g, m) ==
    /\ m.action = "pause"
    /\ running' = [running EXCEPT ![g] = FALSE]
    /\ Answer(g)
    /\ UNCHANGED <<breakpoints, lineLocations, adapterReady, resetRequested>>

\* INIT installs the adapter of the target when the circuit holds one.
HandleInit(g, m) ==
    /\ m.action = "init"
    /\ \E found \in BOOLEAN : adapterReady' = (adapterReady \/ found)
    /\ Answer(g)
    /\ UNCHANGED <<running, breakpoints, lineLocations, resetRequested>>

\* PING, GET_REGISTERS, GET/SET_MEMORY, LOAD, GET_TUNNEL, an unknown action.
HandleQuery(g, m) ==
    /\ m.action \in {"memory", "query"}
    /\ Answer(g)
    /\ UNCHANGED <<running, breakpoints, lineLocations, adapterReady, resetRequested>>

\* Mutant: the early return leaves without a response.
HandleNestedRunSilent(g, m) ==
    /\ m.action \in Starting /\ running[g]
    /\ UNCHANGED msgVars

\* RUN or STEP during a run: runSimulation returns at once.
HandleNestedRun(g, m) ==
    /\ m.action \in Starting /\ running[g]
    /\ Answer(g)
    /\ UNCHANGED <<running, breakpoints, lineLocations, adapterReady, resetRequested>>

Handle(g, m) ==
    \/ HandleBreakpoints(g, m) \/ HandleLineLocations(g, m)
    \/ HandlePause(g, m) \/ HandleInit(g, m)
    \/ HandleQuery(g, m) \/ HandleNestedRun(g, m)

\* The handler dereferences the project or the circuit, which Stop made null.
Throws(m) == m.action \in NeedsProject /\ server = 0

\* RESET up to its sleep: the reset itself is left to the simulator thread.
RequestReset ==
    /\ resetRequested' = TRUE
    /\ UNCHANGED <<running, breakpoints, lineLocations, adapterReady, answered>>

\* RUN or STEP outside a run: the beginning of runSimulation and of tickUntil.
BeginRun(g) ==
    /\ running' = [running EXCEPT ![g] = TRUE]
    /\ tickCompleted' = FALSE
    /\ UNCHANGED <<breakpoints, lineLocations, adapterReady, resetRequested, answered>>

Dequeue(g) ==
    /\ queue[g] # <<>>
    /\ queue' = [queue EXCEPT ![g] = Tail(@)]
    /\ UNCHANGED <<server, generation, accepted>>

CtGoto(g, pc) == ctPc' = [ctPc EXCEPT ![g] = pc]

--------------------------------------------------------------------------------
(* The TickControlThread g.                                                    *)

\* handleMessage(true): everything but the start of a run and RESET.
CtHandle(g) ==
    /\ ctPc[g] = "take" /\ Dequeue(g)
    /\ ~Throws(Head(queue[g])) /\ Handle(g, Head(queue[g]))
    /\ UNCHANGED <<ctVars, tickVars, simVars>>

CtThrow(g) ==
    /\ ctPc[g] = "take" /\ Dequeue(g)
    /\ Throws(Head(queue[g])) /\ CtGoto(g, "dead")
    /\ UNCHANGED <<ctMsg, lastState, origin, stop, msgVars, tickVars, simVars>>

CtReset(g) ==
    /\ ctPc[g] = "take" /\ Dequeue(g)
    /\ Head(queue[g]).action = "reset" /\ ~Throws(Head(queue[g]))
    /\ RequestReset /\ CtGoto(g, "sleep")
    /\ UNCHANGED <<ctMsg, lastState, origin, stop, tickVars, simVars>>

\* sleep(resetTimeout) is over: the response goes out.
CtWake(g) ==
    /\ ctPc[g] = "sleep" /\ CtGoto(g, "take") /\ Answer(g)
    /\ UNCHANGED <<comVars, ctMsg, lastState, origin, stop, tickVars, simVars,
                   running, breakpoints, lineLocations, adapterReady, resetRequested>>

CtBeginRun(g) ==
    /\ ctPc[g] = "take" /\ Dequeue(g)
    /\ Head(queue[g]).action \in Starting /\ ~running[g]
    /\ BeginRun(g) /\ CtGoto(g, "install")
    /\ ctMsg' = [ctMsg EXCEPT ![g] = Head(queue[g])]
    /\ origin' = [origin EXCEPT ![g] = cpu]
    /\ UNCHANGED <<lastState, stop, bootstrapTicks, predicate, tickResult, simVars>>

\* Mutant: the bootstrap ticks are forgotten.
CtInstallNoBootstrap(g) ==
    /\ ctPc[g] = "install" /\ CtGoto(g, "request")
    /\ bootstrapTicks' = 0
    /\ predicate' = [owner |-> g, conds |-> StopConds(ctMsg[g])]
    /\ UNCHANGED <<comVars, ctMsg, lastState, origin, stop, msgVars,
                   tickCompleted, tickResult, simVars>>

\* tickUntil: bootstrapTicks and tickPredicate are set.
CtInstall(g) ==
    /\ ctPc[g] = "install" /\ CtGoto(g, "request")
    /\ bootstrapTicks' = 2
    /\ predicate' = [owner |-> g, conds |-> StopConds(ctMsg[g])]
    /\ UNCHANGED <<comVars, ctMsg, lastState, origin, stop, msgVars,
                   tickCompleted, tickResult, simVars>>

\* tickUntil: invokeLater.
CtRequest(g) ==
    /\ ctPc[g] = "request" /\ CtGoto(g, "check")
    /\ uiTicks' = uiTicks + 1
    /\ UNCHANGED <<comVars, ctMsg, lastState, origin, stop, msgVars, tickVars,
                   simPc, test, cpu, ticksRequested, manualTicks>>

\* while (!tickCompleted) tickLock.wait(), the test and the wait under the lock.
CtCheck(g) ==
    /\ ctPc[g] = "check"
    /\ CtGoto(g, IF tickCompleted THEN "return" ELSE "wait")
    /\ UNCHANGED <<comVars, ctMsg, lastState, origin, stop, msgVars, tickVars, simVars>>

\* tickUntil returns tickResult; the rest of runSimulation, then the response of
\* the RUN or STEP handler.
CtReturn(g) ==
    /\ ctPc[g] = "return"
    /\ tickResult # Null /\ CtGoto(g, "take")
    /\ lastState' = [lastState EXCEPT ![g] = tickResult]
    /\ stop' = [stop EXCEPT ![g] =
            [reason |-> Reason(g, StopConds(ctMsg[g]), tickResult), state |-> tickResult]]
    /\ running' = [running EXCEPT ![g] = FALSE]
    /\ ctMsg' = [ctMsg EXCEPT ![g] = Null]
    /\ Answer(g)
    /\ UNCHANGED <<comVars, origin, breakpoints, lineLocations, adapterReady,
                   resetRequested, tickVars, simVars>>

\* lastProcessorState is null: the next line throws and the thread ends.
CtReturnNull(g) ==
    /\ ctPc[g] = "return" /\ tickResult = Null /\ CtGoto(g, "dead")
    /\ lastState' = [lastState EXCEPT ![g] = Null]
    /\ UNCHANGED <<comVars, ctMsg, origin, stop, msgVars, tickVars, simVars>>

ControlThread(g) ==
    \/ CtHandle(g) \/ CtThrow(g) \/ CtReset(g) \/ CtWake(g) \/ CtBeginRun(g)
    \/ CtInstall(g) \/ CtRequest(g) \/ CtCheck(g) \/ CtReturn(g) \/ CtReturnNull(g)

--------------------------------------------------------------------------------
(* Logisim's simulator thread and the listener DebuggerComponent put on it.    *)

\* The simulator serves a reset before any tick.
SimReset ==
    /\ simPc = "idle" /\ resetRequested
    /\ resetRequested' = FALSE /\ cpu' = ResetCpu(cpu)
    /\ origin' = [g \in Gen |-> Null]
    /\ UNCHANGED <<comVars, ctPc, ctMsg, lastState, stop, running, breakpoints,
                   lineLocations, adapterReady, answered, tickVars, simPc, test,
                   ticksRequested, uiTicks, manualTicks>>

\* Mutant: the listener forgets to look at the Server.
SimTickUnguarded ==
    /\ simPc = "idle" /\ ~resetRequested /\ ticksRequested > 0
    /\ ticksRequested' = ticksRequested - 1 /\ cpu' = Tick(cpu) /\ simPc' = "completed"
    /\ UNCHANGED <<comVars, ctVars, msgVars, tickVars, test, uiTicks, manualTicks>>

\* One tick; its listener does nothing while there is no Server.
SimTick ==
    /\ simPc = "idle" /\ ~resetRequested /\ ticksRequested > 0
    /\ ticksRequested' = ticksRequested - 1 /\ cpu' = Tick(cpu)
    /\ simPc' = IF server # 0 THEN "completed" ELSE "idle"
    /\ UNCHANGED <<comVars, ctVars, msgVars, tickVars, test, uiTicks, manualTicks>>

\* event.getSource().tick()
RequestNextTick == ticksRequested' = ticksRequested + 1 /\ simPc' = "idle"

\* Mutant: an untested tick is the last one.
SimCompletedNoTick ==
    /\ simPc = "completed"
    /\ bootstrapTicks' = IF bootstrapTicks < 0 THEN -1 ELSE bootstrapTicks - 1
    /\ IF bootstrapTicks' < 0 /\ adapterReady
       THEN /\ test' = [owner |-> predicate.owner, conds |-> predicate.conds, state |-> cpu]
            /\ simPc' = IF predicate.owner = 0 THEN "decide" ELSE "poll"
       ELSE simPc' = "idle" /\ UNCHANGED test
    /\ UNCHANGED <<comVars, ctVars, msgVars, tickCompleted, predicate, tickResult,
                   cpu, ticksRequested, uiTicks, manualTicks>>

\* onTickComplete up to the call of the predicate: the DefaultAdapter has no
\* state, and the bootstrap ticks are not tested.
SimCompleted ==
    /\ simPc = "completed"
    /\ bootstrapTicks' = IF bootstrapTicks < 0 THEN -1 ELSE bootstrapTicks - 1
    /\ IF bootstrapTicks' < 0 /\ adapterReady
       THEN /\ test' = [owner |-> predicate.owner, conds |-> predicate.conds, state |-> cpu]
            /\ simPc' = IF predicate.owner = 0 THEN "decide" ELSE "poll"
            /\ UNCHANGED ticksRequested
       ELSE RequestNextTick /\ UNCHANGED test
    /\ UNCHANGED <<comVars, ctVars, msgVars, tickCompleted, predicate, tickResult,
                   cpu, uiTicks, manualTicks>>

\* Mutant: the emptiness of the queue is not looked at.
SimPollBlocking ==
    /\ simPc = "poll" /\ simPc' = "take"
    /\ UNCHANGED <<comVars, ctVars, msgVars, tickVars, test, cpu, ticksRequested, uiTicks, manualTicks>>

\* handleMessage(false): messageQueue.isEmpty() ...
SimPoll ==
    /\ simPc = "poll"
    /\ simPc' = IF queue[test.owner] = <<>> THEN "decide" ELSE "take"
    /\ UNCHANGED <<comVars, ctVars, msgVars, tickVars, test, cpu, ticksRequested, uiTicks, manualTicks>>

\* ... and then the blocking take(), with the handler that does not sleep.
SimHandle ==
    /\ simPc = "take" /\ Dequeue(test.owner)
    /\ LET m == Head(queue[test.owner]) IN ~Throws(m) /\ Handle(test.owner, m)
    /\ simPc' = "decide"
    /\ UNCHANGED <<ctVars, tickVars, test, cpu, ticksRequested, uiTicks, manualTicks>>

SimThrow ==
    /\ simPc = "take" /\ Dequeue(test.owner)
    /\ Throws(Head(queue[test.owner])) /\ simPc' = "dead"
    /\ UNCHANGED <<ctVars, msgVars, tickVars, test, cpu, ticksRequested, uiTicks, manualTicks>>

SimHandleReset ==
    /\ simPc = "take" /\ Dequeue(test.owner)
    /\ LET m == Head(queue[test.owner]) IN m.action = "reset" /\ ~Throws(m)
    /\ RequestReset /\ simPc' = "sleep"
    /\ UNCHANGED <<ctVars, tickVars, test, cpu, ticksRequested, uiTicks, manualTicks>>

SimWake ==
    /\ simPc = "sleep" /\ simPc' = "decide" /\ Answer(test.owner)
    /\ UNCHANGED <<comVars, ctVars, running, breakpoints, lineLocations, adapterReady,
                   resetRequested, tickVars, test, cpu, ticksRequested, uiTicks, manualTicks>>

\* A RUN that the simulator thread takes outside a run: tickUntil waits, on the
\* only thread that makes ticks, for a tick.
SimBeginRun ==
    /\ simPc = "take" /\ Dequeue(test.owner)
    /\ LET m == Head(queue[test.owner]) IN
        /\ m.action \in Starting /\ ~running[test.owner]
        /\ predicate' = [owner |-> test.owner, conds |-> StopConds(m)]
    /\ BeginRun(test.owner)
    /\ bootstrapTicks' = 2 /\ uiTicks' = uiTicks + 1 /\ simPc' = "deadlocked"
    /\ UNCHANGED <<ctVars, tickResult, test, cpu, ticksRequested, manualTicks>>

\* The predicate's value.
Accepted ==
    test.owner # 0 => Accepts(test.owner, test.conds, test.state)

SimContinue ==
    /\ simPc = "decide" /\ ~Accepted /\ RequestNextTick
    /\ UNCHANGED <<comVars, ctVars, msgVars, tickVars, test, cpu, uiTicks, manualTicks>>

SimAccept ==
    /\ simPc = "decide" /\ Accepted
    /\ tickCompleted' = TRUE /\ simPc' = "publish"
    /\ UNCHANGED <<comVars, ctVars, msgVars, bootstrapTicks, predicate, tickResult,
                   test, cpu, ticksRequested, uiTicks, manualTicks>>

\* Mutant: the next tick is requested although the run is over.
SimPublishAndTick ==
    /\ simPc = "publish" /\ tickResult' = test.state /\ simPc' = "notify"
    /\ ticksRequested' = ticksRequested + 1
    /\ UNCHANGED <<comVars, ctVars, msgVars, tickCompleted, bootstrapTicks, predicate,
                   test, cpu, uiTicks, manualTicks>>

SimPublish ==
    /\ simPc = "publish" /\ tickResult' = test.state /\ simPc' = "notify"
    /\ UNCHANGED <<comVars, ctVars, msgVars, tickCompleted, bootstrapTicks, predicate,
                   test, cpu, ticksRequested, uiTicks, manualTicks>>

\* Mutant: nobody is notified.
SimNotifyNobody ==
    /\ simPc = "notify" /\ simPc' = "idle"
    /\ UNCHANGED <<comVars, ctVars, msgVars, tickVars, test, cpu, ticksRequested, uiTicks, manualTicks>>

\* notifyAll: every waiting thread tests tickCompleted again.
SimNotify ==
    /\ simPc = "notify" /\ simPc' = "idle"
    /\ ctPc' = [g \in Gen |-> IF ctPc[g] = "wait" THEN "check" ELSE ctPc[g]]
    /\ UNCHANGED <<comVars, ctMsg, lastState, origin, stop, msgVars, tickVars,
                   test, cpu, ticksRequested, uiTicks, manualTicks>>

Simulator ==
    \/ SimReset \/ SimTick \/ SimCompleted \/ SimPoll \/ SimHandle \/ SimThrow
    \/ SimHandleReset \/ SimWake \/ SimBeginRun \/ SimContinue \/ SimAccept
    \/ SimPublish \/ SimNotify

User == PressStart \/ PressStop \/ ManualTick \/ \E m \in Messages : OnMessage(m)

Next ==
    \/ User \/ UiTick \/ Simulator
    \/ \E g \in Gen : OnStart(g) \/ ControlThread(g)

Spec == Init /\ [][Next]_vars

\* Each thread goes on while it can; the user and the client owe nothing.
FairSpec ==
    /\ Spec
    /\ WF_vars(UiTick) /\ WF_vars(Simulator)
    /\ \A g \in Gen : WF_vars(OnStart(g)) /\ WF_vars(ControlThread(g))

--------------------------------------------------------------------------------
(* Properties.                                                                 *)

CtPcs == {"none", "created", "take", "sleep", "install", "request", "check", "wait",
          "return", "dead"}
SimPcs == {"idle", "completed", "poll", "take", "sleep", "decide", "publish", "notify",
           "dead", "deadlocked"}

Reasons == Conditions \cup {"pause", "halt", "unknown"}

\* The types of the fields of Server, TickControlThread, SimulationTicker and of
\* Logisim's simulator as the debugger uses it.
TypeOK ==
    /\ server \in 0 .. MaxServers /\ generation \in 0 .. MaxServers
    /\ queue \in [Gen -> Seq(Message)]
    /\ accepted \in [Gen -> Nat] /\ answered \in [Gen -> Nat]
    /\ ctPc \in [Gen -> CtPcs] /\ ctMsg \in [Gen -> Message \cup {Null}]
    /\ running \in [Gen -> BOOLEAN]
    /\ breakpoints \in [Gen -> SUBSET Addr] /\ lineLocations \in [Gen -> SUBSET Addr]
    /\ lastState \in [Gen -> CpuState \cup {Null}]
    /\ origin \in [Gen -> CpuState \cup {Null}]
    /\ stop \in [Gen -> [reason: Reasons, state: CpuState] \cup {Null}]
    /\ tickCompleted \in BOOLEAN /\ bootstrapTicks \in -1 .. 2
    /\ predicate \in [owner: 0 .. MaxServers, conds: SUBSET Conditions]
    /\ tickResult \in CpuState \cup {Null}
    /\ adapterReady \in BOOLEAN /\ resetRequested \in BOOLEAN
    /\ uiTicks \in Nat /\ ticksRequested \in Nat /\ manualTicks \in 0 .. MaxManualTicks
    /\ simPc \in SimPcs /\ cpu \in CpuState
    /\ test \in [owner: 0 .. MaxServers, conds: SUBSET Conditions, state: CpuState \cup {Null}]

Parked(g) == ctPc[g] \in {"check", "wait"}
Testing == {"completed", "poll", "take", "sleep", "decide"}
Signalling == simPc \in {"publish", "notify"}

\* Ticks on their way: in Swing's queue, in the simulator, or being tested.
TicksUnderWay == uiTicks + ticksRequested + (IF simPc \in Testing THEN 1 ELSE 0)

\* A run advances by exactly one chain of ticks: while its thread is parked and
\* nothing has been accepted one tick is under way, and none is otherwise
\* (SimulationTicker.tickUntil / onTickComplete).
OneTickChain ==
    TicksUnderWay = IF ~tickCompleted /\ \E g \in Gen : Parked(g) THEN 1 ELSE 0

\* A thread that waits although its run was accepted is about to be notified:
\* tickCompleted is tested under tickLock, set before notifyAll
\* (SimulationTicker lines 35-38 and 51-55).
NoLostWakeup ==
    \A g \in Gen : ctPc[g] = "wait" /\ tickCompleted => Signalling

\* The simulator thread shares the queue with the TickControlThread, but only
\* while that one is parked, so that isEmpty() and take() cannot disagree, the
\* simulator thread never blocks in take() and never waits for its own tick
\* (TickControlThread.handleMessage lines 164-175).
SimulatorNeverBlocks ==
    /\ simPc # "deadlocked"
    /\ simPc = "take" => queue[test.owner] # <<>>
    /\ simPc \in Testing => \E g \in Gen : Parked(g)

\* Messages that a thread has taken and not answered yet.
InHand(g) ==
    (IF ctMsg[g] # Null THEN 1 ELSE 0)
    + (IF ctPc[g] = "sleep" \/ (ctPc[g] = "dead" /\ ctMsg[g] = Null) THEN 1 ELSE 0)
    + (IF simPc \in {"sleep", "dead", "deadlocked"} /\ test.owner = g THEN 1 ELSE 0)

\* Whichever thread takes a message, it is answered once: no message is lost or
\* answered twice between Server.onMessage and sendResponse.
EveryMessageAnsweredOnce ==
    \A g \in Gen : accepted[g] = answered[g] + Len(queue[g]) + InHand(g)

\* A run that ends reports the very state that ended it, and a reason: tickResult
\* and the breakpoints have not changed in between (runSimulation, lines 111-157,
\* evaluates StopConditions twice).  Excepted are a run that was reset, and a
\* thread that gets through while the simulator thread is between lines 51 and 52
\* of onTickComplete.
ReportIsExact ==
    [][\A g \in Gen :
        ctPc[g] = "return" /\ ctPc'[g] = "take" /\ simPc # "publish" /\ origin[g] # Null =>
            stop'[g].state = test.state /\ stop'[g].reason # "unknown"]_vars

\* A STEP from the beginning of an instruction that is neither paused nor reset
\* ends at the beginning of the next one (the two bootstrap ticks of tickUntil
\* are over before the next fetch, and are needed to leave the first).
StepIsOneInstruction ==
    [][\A g \in Gen :
        /\ ctPc[g] = "return" /\ ctPc'[g] = "take" /\ simPc # "publish"
        /\ ctMsg[g].action = "step" /\ origin[g] # Null /\ origin[g].phase = 0
        /\ stop'[g].reason # "pause"
        => stop'[g].state = [pc |-> IF IsHalted(origin[g]) THEN origin[g].pc ELSE Succ[origin[g].pc],
                             phase |-> 0]
           \/ IsHalted(stop'[g].state)]_vars

\* The simulator leaves an instruction on which a breakpoint of the run is set.
PassesBreakpoint(g) ==
    /\ ctMsg[g] # Null /\ "breakpoint" \in StopConds(ctMsg[g]) /\ Parked(g)
    /\ simPc \in {"completed", "decide"} /\ simPc' = "idle"
    /\ adapterReady /\ cpu.phase = FetchTicks - 1 /\ cpu.pc \in breakpoints[g]

\* A run begun at the beginning of an instruction passes no breakpoint but the
\* one it stands on, and that one once, in its two bootstrap ticks, wherever in the
\* run the breakpoints were set.  A run resumed from a PAUSE in the last tick of an
\* instruction may pass the next one, whose fetch its two bootstrap ticks cover
\* (SimulationTicker line 27).
BreakpointHit ==
    [][\A g \in Gen :
        PassesBreakpoint(g) /\ origin[g] # Null /\ origin[g].phase = 0
        => bootstrapTicks' >= 0 /\ cpu = [origin[g] EXCEPT !.phase = FetchTicks - 1]]_vars

\* A PAUSE that reaches the queue during a run ends it: the simulator thread
\* takes a message after every tested tick (handlePauseMessage).
PauseStopsRun ==
    \A g \in Gen :
        (/\ ctPc[g] = "wait" /\ server = g /\ adapterReady
         /\ \E i \in DOMAIN queue[g] : queue[g][i].action = "pause")
        ~> (~Parked(g) \/ server # g)

\* The program comes to a halting instruction.
Halts == cpu.pc \in Halting \/ Succ[cpu.pc] \in Halting \/ Succ[Succ[cpu.pc]] \in Halting

\* A program that halts ends its run, stop conditions or not (line 117).
RunEndsAtHalt ==
    \A g \in Gen :
        (ctPc[g] = "wait" /\ server = g /\ adapterReady /\ Halts) ~> (~Parked(g) \/ server # g)

StepPending(g) ==
    \/ ctMsg[g] # Null /\ ctMsg[g].action = "step"
    \/ \E i \in DOMAIN queue[g] : queue[g][i].action = "step"

\* docs/guides/4-debugging.md:18, "execute one instruction and stop": once there
\* is a processor to step, a STEP ends, unless Stop is pressed or the thread has
\* died of a null state.
StepEnds ==
    \A g \in Gen :
        (StepPending(g) /\ server = g /\ adapterReady)
        ~> (~StepPending(g) \/ server # g \/ ctPc[g] = "dead")

\* Together: neither a program that halts, nor a single instruction, nor a run that was
\* to be paused goes on.
RunsEnd == RunEndsAtHalt /\ StepEnds /\ PauseStopsRun

\* Stop leaves no simulation running away: once there is no Server the chain of
\* ticks ends at the next tickCompleted, whoever asked for it (DebuggerComponent
\* lines 135-139), unless the simulator thread is itself blocked in a handler.
StopEndsTicking ==
    (server = 0) ~> (server # 0 \/ TicksUnderWay = 0 \/ simPc \in {"take", "dead", "deadlocked"})

\* docs/guides/4-debugging.md:30, "Yellow line shows instruction that will be
\* executed next": the state reported at a stop is where the processor is.
StopShowsNextInstruction ==
    [][\A g \in Gen : ctPc[g] = "return" /\ ctPc'[g] = "take" => stop'[g].state = cpu]_vars

================================================================================
