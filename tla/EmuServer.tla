------------------------------- MODULE EmuServer -------------------------------
(***************************************************************************)
(* cocoemu-server: the CdM-16 emulator behind the debug protocol.           *)
(*                                                                          *)
(* Two threads: the WebSocket thread enqueues requests (cdp-java, Server),  *)
(* and the thread of ServerMessageHandler takes them, and for RUN and STEP  *)
(* clocks the emulated system itself, looking into the queue after each     *)
(* clock.  The processor is the CdM-16 with a memory that is not written: a *)
(* clock with the fetch signal, then as many as the instruction has phases. *)
(***************************************************************************)
EXTENDS Integers, Sequences

CONSTANTS
    MaxMessages,         \* bound: requests sent to the server
    MaxInits,            \* bound: systems made by INIT
    MayStop,             \* whether Server.stop is called
    Capacity,            \* QUEUE_INITIAL_CAPACITY of Server.java
    Messages,            \* the requests the client may send
    Addr, Odd,           \* code addresses; an address no instruction can be at
    Follow,              \* the address after it in memory
    Succ,                \* the address an instruction goes on to
    Programs, Kind,      \* memory images, what each instruction of one does
    Phases,              \* the clocks of each instruction after its fetch
    Entry, Entering,     \* the vector table of an image, the clocks to enter a vector
    Horizon,             \* bound: clocks in which a program is seen to halt
    Null                 \* Java's null

Conditions == {"fetch", "line", "breakpoint", "exception"}
Starting == {"run", "step"}
NeedsSystem == Starting \cup {"reset", "load", "getRegisters"}
Action == NeedsSystem \cup {"pause", "init", "setBreakpoints", "setLineLocations", "ping"}
Message == [action: Action, addrs: SUBSET Addr, conds: SUBSET Conditions]
Kinds == {"plain", "halt", "wait", "raise"}
Vectors == {"startup", "exception", "double"}
Statuses == {"running", "waiting", "halted", "fault"}
System == 1 .. MaxInits

\* The memory image; pc, fetch and status of Cdm16.outputs, the address of the
\* instruction being executed and its phase, the vector fetched instead of the
\* program's instruction.
CpuState == [program: Programs, pc: Addr, inst: Addr, phase: Nat, fetch: BOOLEAN,
             status: Statuses, vector: Vectors \cup {"none"}]

ASSUME BoundsAssumption ==
    /\ MaxMessages \in Nat /\ MaxInits \in Nat \ {0} /\ Capacity \in Nat \ {0}
    /\ MayStop \in BOOLEAN /\ Messages \subseteq Message /\ Null \notin Message
ASSUME ProgramAssumption ==
    /\ 0 \in Addr /\ Odd \notin Addr /\ Programs # {}
    /\ Follow \in [Addr -> Addr] /\ Succ \in [Addr -> Addr]
    /\ Kind \in [Programs -> [Addr -> Kinds]]
    /\ DOMAIN Phases = Programs /\ DOMAIN Entering = Programs
    /\ \A p \in Programs : /\ \A a \in Addr : Phases[p][a] \in Nat \ {0}
                           /\ \A v \in Vectors : Entering[p][v] \in Nat \ {0}
    /\ Entry \in [Programs -> [Vectors -> Addr \cup {Odd}]]
    /\ Horizon \in Nat

VARIABLES
    messageQueue,        \* shared by the two threads
    accepted,            \* requests enqueued so far
    replies,             \* what was sent to the client
    thread,              \* where the handler thread is
    current,             \* the RUN or STEP it is in, Null when none
    adapter,             \* the system whose adapter runSimulation holds
    origin,              \* history: the processor when the run began
    simulationRunning, breakpoints, lineLocations,
    debugEnvironment,    \* the system in use, 0 for null
    cpu,                 \* the processor of every system made
    stopRequested        \* requestStop: "no", "interrupted", "noticed"

runVars == <<thread, current, adapter, origin>>
fieldVars == <<simulationRunning, breakpoints, lineLocations, debugEnvironment, cpu>>
vars == <<messageQueue, accepted, replies, runVars, fieldVars, stopRequested>>

--------------------------------------------------------------------------------
(* The processor, between two clocks.                                          *)

\* A reset leaves pc alone: the start vector is fetched by the next instruction.
ResetCpu(s) == [s EXCEPT !.fetch = TRUE, !.phase = 0, !.status = "running", !.vector = "startup"]

\* The processor of a new system.
NewCpu(p) == ResetCpu([program |-> p, pc |-> 0, inst |-> 0, phase |-> 0, fetch |-> TRUE,
                       status |-> "running", vector |-> "none"])

\* The fetch clock leaves pc at the next word of memory.
Fetch(s) ==
    [s EXCEPT !.fetch = FALSE, !.phase = 0, !.inst = s.pc,
              !.pc = IF s.vector = "none" THEN Follow[@] ELSE @]

Clocks(s) == IF s.vector = "none" THEN Phases[s.program][s.inst] ELSE Entering[s.program][s.vector]

\* What follows the last clock of an instruction that does nothing.
Done(s) == [s EXCEPT !.fetch = TRUE, !.phase = 0]

\* Mutant: a waiting processor is reported as held.
ExecuteHolding(s) ==
    IF s.vector # "none" THEN [Done(s) EXCEPT !.pc = 3, !.vector = "none"]
    ELSE IF Kind[s.program][s.inst] = "wait"
    THEN [Done(s) EXCEPT !.pc = Succ[s.inst], !.status = "held"]
    ELSE [Done(s) EXCEPT !.pc = Succ[s.inst]]

\* A vector is entered.  An odd address in the table is an exception of the entering
\* itself: it leaves pc alone and the double fault is entered next; in a double
\* fault it stops the processor where it is, in the middle of the instruction.
Enter(s) ==
    CASE Entry[s.program][s.vector] # Odd ->
           [Done(s) EXCEPT !.pc = Entry[s.program][s.vector], !.vector = "none"]
      [] Entry[s.program][s.vector] = Odd /\ s.vector # "double" -> [Done(s) EXCEPT !.vector = "double"]
      [] OTHER -> [Done(s) EXCEPT !.fetch = FALSE, !.status = "fault"]

\* The last clock.  An instruction that raises takes pc back to itself, and the
\* exception vector is fetched next.
Execute(s) ==
    IF s.vector # "none" THEN Enter(s)
    ELSE CASE Kind[s.program][s.inst] = "plain" -> [Done(s) EXCEPT !.pc = Succ[s.inst]]
           [] Kind[s.program][s.inst] = "halt"  -> [Done(s) EXCEPT !.pc = Succ[s.inst], !.status = "halted"]
           [] Kind[s.program][s.inst] = "wait"  -> [Done(s) EXCEPT !.pc = Succ[s.inst], !.status = "waiting"]
           [] Kind[s.program][s.inst] = "raise" -> [Done(s) EXCEPT !.pc = s.inst, !.vector = "exception"]

\* Rising and falling edge and the update of the system; the clock of a processor
\* that does not run is suspended.
Clock(s) ==
    IF s.status # "running" THEN s
    ELSE IF s.fetch THEN Fetch(s)
    ELSE IF s.phase + 1 < Clocks(s) THEN [s EXCEPT !.phase = @ + 1]
    ELSE Execute(s)

\* Mutant: the next status is compared.
IsHaltedFault(s) == s.status = "fault"

\* A fault is not a halt.
IsHalted(s) == s.status = "halted"
ExceptionHappened(s) == s.vector \in {"exception", "double"}

\* Mutant: the two address lists are swapped.
CheckSwapped(s, conds) ==
    {c \in conds : /\ s.fetch
                   /\ c = "breakpoint" => s.pc \in lineLocations
                   /\ c = "line"       => s.pc \in breakpoints
                   /\ c = "exception"  => ExceptionHappened(s)}

\* StopConditions.check
Check(s, conds) ==
    {c \in conds : /\ s.fetch
                   /\ c = "breakpoint" => s.pc \in breakpoints
                   /\ c = "line"       => s.pc \in lineLocations
                   /\ c = "exception"  => ExceptionHappened(s)}

StopConds(m) == IF m.action = "step" THEN Conditions ELSE m.conds

Accepts(s) == ~simulationRunning \/ IsHalted(s) \/ Check(s, StopConds(current)) # {}

\* The reason of the stop event: the last assignment of runSimulation wins.
Reason(s) ==
    LET hit == Check(s, StopConds(current)) IN
    IF ~simulationRunning THEN "pause"
    ELSE IF IsHalted(s) THEN "halt"
    ELSE IF "exception" \in hit THEN "exception"
    ELSE IF "breakpoint" \in hit THEN "breakpoint"
    ELSE IF "line" \in hit THEN "line"
    ELSE IF "fetch" \in hit THEN "fetch"
    ELSE "unknown"

--------------------------------------------------------------------------------
Init ==
    /\ messageQueue = <<>> /\ accepted = 0 /\ replies = <<>>
    /\ thread = "idle" /\ current = Null /\ adapter = 0 /\ origin = Null
    /\ simulationRunning = FALSE /\ breakpoints = {} /\ lineLocations = {}
    /\ debugEnvironment = 0 /\ stopRequested = "no"
    /\ \E p \in Programs : cpu = [e \in System |-> NewCpu(p)]

\* The WebSocket thread; add throws when the queue is full, and the request is lost.
OnMessage(m) ==
    /\ accepted < MaxMessages /\ Len(messageQueue) < Capacity
    /\ messageQueue' = Append(messageQueue, m) /\ accepted' = accepted + 1
    /\ UNCHANGED <<replies, runVars, fieldVars, stopRequested>>

RequestStop ==
    /\ MayStop /\ stopRequested = "no" /\ stopRequested' = "interrupted"
    /\ UNCHANGED <<messageQueue, accepted, replies, runVars, fieldVars>>

--------------------------------------------------------------------------------
(* The handlers that answer at once.                                           *)

HandleBreakpoints(m) ==
    /\ m.action = "setBreakpoints" /\ breakpoints' = m.addrs
    /\ UNCHANGED <<simulationRunning, lineLocations, debugEnvironment, cpu>>

HandleLineLocations(m) ==
    /\ m.action = "setLineLocations" /\ lineLocations' = m.addrs
    /\ UNCHANGED <<simulationRunning, breakpoints, debugEnvironment, cpu>>

HandlePause(m) ==
    /\ m.action = "pause" /\ simulationRunning' = FALSE
    /\ UNCHANGED <<breakpoints, lineLocations, debugEnvironment, cpu>>

HandleReset(m) ==
    /\ m.action = "reset"
    /\ cpu' = [cpu EXCEPT ![debugEnvironment] = ResetCpu(@)]
    /\ UNCHANGED <<simulationRunning, breakpoints, lineLocations, debugEnvironment>>

\* INIT makes a new system, whether a run is in course or not; an unknown target
\* leaves the old one.
HandleInit(m) ==
    /\ m.action = "init" /\ breakpoints' = {} /\ lineLocations' = {}
    /\ debugEnvironment' \in {debugEnvironment} \cup (System \cap {debugEnvironment + 1})
    /\ UNCHANGED <<simulationRunning, cpu>>

\* PING, LOAD, GET_REGISTERS, GET_MEMORY, the requests that are not implemented.
HandleQuery(m) ==
    /\ m.action \in {"ping", "load", "getRegisters"}
    /\ UNCHANGED fieldVars

\* RUN or STEP during a run: runSimulation returns at once.
HandleNestedRun(m) ==
    /\ m.action \in Starting /\ simulationRunning
    /\ UNCHANGED fieldVars

\* debugEnvironment is null: the handler throws and its thread ends, but for a
\* LOAD whose file could not be read.
Throws(m) == m.action \in NeedsSystem /\ debugEnvironment = 0

Handle(m) ==
    /\ ~Throws(m) \/ m.action = "load"
    /\ HandleBreakpoints(m) \/ HandleLineLocations(m) \/ HandlePause(m)
       \/ HandleReset(m) \/ HandleInit(m) \/ HandleQuery(m) \/ HandleNestedRun(m)

Response(m) == [kind |-> "response", of |-> m.action]
Event(reason) == [kind |-> "event", of |-> reason]

Poll == messageQueue # <<>> /\ messageQueue' = Tail(messageQueue)

--------------------------------------------------------------------------------
(* The handler thread.                                                         *)

\* handleMessage(true)
HandleMessage ==
    /\ thread = "idle" /\ stopRequested = "no" /\ Poll
    /\ Handle(Head(messageQueue))
    /\ replies' = Append(replies, Response(Head(messageQueue)))
    /\ UNCHANGED <<accepted, runVars, stopRequested>>

Die ==
    /\ thread = "idle" /\ stopRequested = "no" /\ Poll
    /\ Throws(Head(messageQueue)) /\ thread' = "dead"
    /\ UNCHANGED <<accepted, replies, current, adapter, origin, fieldVars, stopRequested>>

\* poll throws InterruptedException and run returns.
End ==
    /\ thread = "idle" /\ stopRequested # "no" /\ thread' = "ended"
    /\ UNCHANGED <<messageQueue, accepted, replies, current, adapter, origin, fieldVars, stopRequested>>

\* Mutant: the predicate is evaluated before the first clock.
BeginRunTested ==
    /\ thread = "idle" /\ stopRequested = "no" /\ Poll
    /\ LET m == Head(messageQueue) IN
        /\ m.action \in Starting /\ ~simulationRunning /\ ~Throws(m)
        /\ current' = m
    /\ simulationRunning' = TRUE /\ adapter' = debugEnvironment
    /\ origin' = cpu[debugEnvironment] /\ thread' = "poll"
    /\ UNCHANGED <<accepted, replies, breakpoints, lineLocations, debugEnvironment, cpu, stopRequested>>

\* runSimulation, up to its first clock.
BeginRun ==
    /\ thread = "idle" /\ stopRequested = "no" /\ Poll
    /\ LET m == Head(messageQueue) IN
        /\ m.action \in Starting /\ ~simulationRunning /\ ~Throws(m)
        /\ current' = m
    /\ simulationRunning' = TRUE /\ adapter' = debugEnvironment
    /\ origin' = cpu[debugEnvironment] /\ thread' = "clock"
    /\ UNCHANGED <<accepted, replies, breakpoints, lineLocations, debugEnvironment, cpu, stopRequested>>

\* The system that is clocked is the current one, not the adapter's.
ClockSystem ==
    /\ thread = "clock" /\ thread' = "poll"
    /\ cpu' = [cpu EXCEPT ![debugEnvironment] = Clock(@)]
    /\ UNCHANGED <<messageQueue, accepted, replies, current, adapter, origin,
                   simulationRunning, breakpoints, lineLocations, debugEnvironment, stopRequested>>

\* handleMessage(false): at most one request per clock.
PollEmpty ==
    /\ thread = "poll" /\ messageQueue = <<>> /\ thread' = "decide"
    /\ UNCHANGED <<messageQueue, accepted, replies, current, adapter, origin, fieldVars, stopRequested>>

PollInterrupted ==
    /\ thread = "poll" /\ messageQueue # <<>> /\ stopRequested = "interrupted"
    /\ stopRequested' = "noticed" /\ thread' = "decide"
    /\ UNCHANGED <<messageQueue, accepted, replies, current, adapter, origin, fieldVars>>

PollHandle ==
    /\ thread = "poll" /\ stopRequested # "interrupted" /\ Poll
    /\ Handle(Head(messageQueue)) /\ thread' = "decide"
    /\ replies' = Append(replies, Response(Head(messageQueue)))
    /\ UNCHANGED <<accepted, current, adapter, origin, stopRequested>>

\* The predicate and the processor read through the adapter of runSimulation.
Continue ==
    /\ thread = "decide" /\ ~Accepts(cpu[adapter]) /\ thread' = "clock"
    /\ UNCHANGED <<messageQueue, accepted, replies, current, adapter, origin, fieldVars, stopRequested>>

\* Mutant: the response goes out before the stop event.
StopRunLate ==
    /\ thread = "decide" /\ Accepts(cpu[adapter]) /\ thread' = "idle"
    /\ replies' = replies \o <<Response(current), Event(Reason(cpu[adapter]))>>
    /\ simulationRunning' = FALSE /\ current' = Null
    /\ UNCHANGED <<messageQueue, accepted, adapter, origin, breakpoints, lineLocations,
                   debugEnvironment, cpu, stopRequested>>

\* The stop event, then the response of the request that started the run.
StopRun ==
    /\ thread = "decide" /\ Accepts(cpu[adapter]) /\ thread' = "idle"
    /\ replies' = replies \o <<Event(Reason(cpu[adapter])), Response(current)>>
    /\ simulationRunning' = FALSE /\ current' = Null
    /\ UNCHANGED <<messageQueue, accepted, adapter, origin, breakpoints, lineLocations,
                   debugEnvironment, cpu, stopRequested>>

Handler ==
    \/ HandleMessage \/ Die \/ End \/ BeginRun \/ ClockSystem
    \/ PollEmpty \/ PollInterrupted \/ PollHandle \/ Continue \/ StopRun

Next == Handler \/ RequestStop \/ \E m \in Messages : OnMessage(m)

Spec == Init /\ [][Next]_vars

\* The handler thread runs; client and stop owe nothing.
FairSpec == Spec /\ WF_vars(Handler)

--------------------------------------------------------------------------------
(* Properties.                                                                 *)

Reasons == Conditions \cup {"pause", "halt", "unknown"}

\* The types of the fields of Server, MessageHandler and ServerMessageHandler.
TypeOK ==
    /\ messageQueue \in Seq(Message) /\ accepted \in 0 .. MaxMessages
    /\ replies \in Seq([kind: {"response", "event"}, of: Action \cup Reasons])
    /\ thread \in {"idle", "clock", "poll", "decide", "dead", "ended"}
    /\ current \in Message \cup {Null} /\ adapter \in 0 .. MaxInits
    /\ origin \in CpuState \cup {Null}
    /\ simulationRunning \in BOOLEAN
    /\ breakpoints \subseteq Addr /\ lineLocations \subseteq Addr
    /\ debugEnvironment \in 0 .. MaxInits /\ cpu \in [System -> CpuState]
    /\ stopRequested \in {"no", "interrupted", "noticed"}

Target == INSTANCE DebugTarget WITH
    Requests <- Messages,
    Conds    <- [m \in Messages |-> StopConds(m)],
    requests <- messageQueue,
    pausing  <- current # Null /\ ~simulationRunning,
    gone     <- thread \in {"dead", "ended"}

\* The emulator is a debug target: each request is answered once and in order, a
\* RUN or STEP with one stop event whose reason it asked for, and a PAUSE is
\* followed by the stop event of its run (MessageHandler.handleMessage,
\* ServerMessageHandler.runSimulation).
ImplementsTarget == Target!Spec

Stops == thread = "decide" /\ thread' = "idle"

\* What one instruction makes of a processor, in however many clocks.
Instruction(s) == IF s.status # "running" THEN s ELSE Execute(Fetch(s))

\* A STEP from a fetch that is neither paused nor overtaken by RESET or INIT
\* executes exactly one instruction (runSimulation clocks before it tests).
StepIsOneInstruction ==
    [][Stops /\ current.action = "step" /\ simulationRunning /\ origin.fetch
       /\ adapter = debugEnvironment /\ cpu[adapter].vector # "startup"
       => cpu[adapter] = Instruction(origin)]_vars

\* The processor is clocked off an instruction with a breakpoint of the run.
PassesBreakpoint ==
    /\ thread = "clock" /\ "breakpoint" \in StopConds(current)
    /\ cpu[debugEnvironment].fetch /\ cpu[debugEnvironment].vector = "none"
    /\ cpu[debugEnvironment].status = "running"
    /\ cpu[debugEnvironment].pc \in breakpoints
    /\ thread' = "poll"

\* A run passes no breakpoint but the one it starts on, unless INIT replaced the
\* system under it.
BreakpointHit ==
    [][PassesBreakpoint /\ adapter = debugEnvironment => cpu[adapter] = origin]_vars

\* The programs that come to a HALT.
Halting ==
    {p \in Programs :
        LET after[n \in 0 .. Horizon] == IF n = 0 THEN NewCpu(p) ELSE Clock(after[n - 1])
        IN  after[Horizon].status = "halted"}

\* A program that halts ends its run, whatever is requested meanwhile, unless INIT
\* replaced it (runSimulation, tickPredicate).  One that loops or waits does not,
\* nor does one that faults: a faulted processor is neither halted nor fetching,
\* so that no stop condition of a RUN or a STEP ever holds of it again and only
\* PAUSE or RESET ends it.
RunEndsAtHalt ==
    (current # Null /\ cpu[adapter].program \in Halting)
    ~> (current = Null \/ adapter # debugEnvironment)

================================================================================
