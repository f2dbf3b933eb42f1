------------------------------ MODULE DebugSession ------------------------------
(***************************************************************************)
(* The debug session of the VS Code extension (CdmDebugSession and          *)
(* CdmDebugRuntime) between the editor and a debug target, of which it is   *)
(* known only that it keeps the contract of DebugTarget.                    *)
(*                                                                          *)
(* Everything in the extension runs on one JavaScript thread, so that an    *)
(* action is what happens between two awaits: a request of the editor, a    *)
(* message of the target, a timer, or the rest of launchRequest.  Messages  *)
(* travel in order in both directions.                                      *)
(***************************************************************************)
EXTENDS Integers, Sequences, FiniteSets

CONSTANTS
    Addr,            \* addresses of the instructions with source lines
    Environments,    \* what a launch may choose of "external" and "emulator"
    MaxRequests,     \* bound: requests of the editor after the launch
    MayFail,         \* whether launch, connection, target or load may fail
    Null

\* The actions and stop conditions the extension uses.
RunConds == {"exception", "breakpoint"}
Message == [action: {"init", "setLineLocations", "setBreakpoints", "reset", "load", "run",
                     "pause", "getRegisters", "getMemory"},
            conds: {{}, RunConds, RunConds \cup {"line"}}, addrs: SUBSET Addr]

ASSUME SessionAssumption ==
    /\ Environments \subseteq {"external", "emulator"} /\ MaxRequests \in Nat
    /\ MayFail \in BOOLEAN /\ Null \notin Message

VARIABLES
    ui,              \* what the editor shows
    asked,           \* requests of the editor so far
    phase,           \* how far launchRequest has come
    ws,              \* runtime.ws: "none" is undefined
    buffered,        \* runtime.buffered
    timer,           \* whether the connection timeout is armed
    isConfigured,
    breakpointLocations,
    traces,          \* stack traces waiting for registers: the run each is about
    uplink,          \* messages sent to the target and not yet accepted
    read,            \* replies of the target handled so far
    requests, replies, current, pausing, gone,  \* the target
    targetBreakpoints,                          \* the breakpoints it was given
    runs,            \* history: RUNs sent
    begun,           \* history: RUNs the target took
    begunAt          \* history: begun, at every reply

launchVars == <<phase, ws, buffered, timer, isConfigured>>
targetVars == <<requests, replies, current, pausing, gone, targetBreakpoints, begun, begunAt>>
vars == <<ui, asked, launchVars, breakpointLocations, traces, uplink, read, targetVars, runs>>

Target == INSTANCE DebugTarget WITH
    Requests <- Message, Starting <- {"run"},
    Conds <- [m \in Message |-> m.conds]

Init ==
    /\ ui = "launching" /\ asked = 0
    /\ phase = "called" /\ ws = "none" /\ buffered = <<>> /\ timer = "off"
    /\ isConfigured = FALSE /\ breakpointLocations = {} /\ traces = {}
    /\ uplink = <<>> /\ read = 0 /\ Target!Init
    /\ targetBreakpoints = {} /\ runs = 0 /\ begun = 0 /\ begunAt = <<>>

--------------------------------------------------------------------------------
(* CdmDebugRuntime.send: what was sent before the socket opened is kept for it. *)

M(action) == [action |-> action, conds |-> {}, addrs |-> {}]
SetBreakpoints(addrs) == [M("setBreakpoints") EXCEPT !.addrs = addrs]

\* Its addrs are only there to be compared with the target's.
Run(conds) == [action |-> "run", conds |-> conds, addrs |-> breakpointLocations]

Send(messages) ==
    IF ws = "open" THEN uplink' = uplink \o messages /\ UNCHANGED buffered
                   ELSE buffered' = buffered \o messages /\ UNCHANGED uplink

--------------------------------------------------------------------------------
(* launchRequest, from await to await.                                          *)

\* TerminatedEvent ends the session in the editor unless that has ended it.
Terminated == ui' = IF ui = "disconnected" THEN ui ELSE "terminated"

\* A processor the emulator has not got, an address that cannot be parsed or an
\* environment there is not: there is never a runtime.
LaunchRefused ==
    /\ MayFail /\ phase = "called" /\ phase' = "failed" /\ Terminated
    /\ UNCHANGED <<asked, ws, buffered, timer, isConfigured, breakpointLocations, traces,
                   uplink, read, targetVars, runs>>

\* Mutant: start is not awaited.
LaunchUnawaited ==
    /\ phase = "called" /\ ui = "launching" /\ phase' = "started"
    /\ UNCHANGED <<ui, asked, ws, timer, buffered, isConfigured, breakpointLocations, traces,
                   uplink, read, targetVars, runs>>

\* createDebugRuntime and start; the emulator is given time to come up before its
\* socket is made.
Launch ==
    /\ phase = "called" /\ ui = "launching"
    /\ \/ /\ "emulator" \in Environments
          /\ phase' = "starting" /\ UNCHANGED <<ws, timer>>
       \/ /\ "external" \in Environments
          /\ phase' = "started" /\ ws' = "connecting" /\ timer' = "armed"
    /\ UNCHANGED <<ui, asked, buffered, isConfigured, breakpointLocations, traces, uplink,
                   read, targetVars, runs>>

EmulatorDelay ==
    /\ phase = "starting" /\ phase' = "started" /\ ws' = "connecting" /\ timer' = "armed"
    /\ UNCHANGED <<ui, asked, buffered, isConfigured, breakpointLocations, traces, uplink,
                   read, targetVars, runs>>

\* The listeners are set, the target is prepared and the debug information read.
Initialize ==
    /\ phase = "started" /\ phase' = "reading"
    /\ Send(<<M("init"), M("setLineLocations"), SetBreakpoints({}), M("reset")>>)
    /\ UNCHANGED <<ui, asked, ws, timer, isConfigured, breakpointLocations, traces,
                   read, targetVars, runs>>

LoadImage ==
    /\ phase = "reading" /\ phase' = "loading" /\ Send(<<M("load")>>)
    /\ UNCHANGED <<ui, asked, ws, timer, isConfigured, breakpointLocations, traces,
                   read, targetVars, runs>>

DebugInfoFails ==
    /\ MayFail /\ phase = "reading" /\ phase' = "failed" /\ Terminated
    /\ UNCHANGED <<asked, ws, buffered, timer, isConfigured, breakpointLocations, traces,
                   uplink, read, targetVars, runs>>

--------------------------------------------------------------------------------
(* The socket.                                                                  *)

Open ==
    /\ ws = "connecting" /\ ws' = "open" /\ uplink' = uplink \o buffered
    /\ UNCHANGED <<ui, asked, phase, buffered, timer, isConfigured, breakpointLocations,
                   traces, read, targetVars, runs>>

\* Refused, or closed by the other end: no listener hears of it.
Lost ==
    /\ MayFail /\ ws \in {"connecting", "open"} /\ ws' = "closed"
    /\ UNCHANGED <<ui, asked, phase, buffered, timer, isConfigured, breakpointLocations,
                   traces, uplink, read, targetVars, runs>>

\* The connection timeout, after which the session is over unless it is connected.
Timeout ==
    /\ timer = "armed" /\ MayFail /\ timer' = "off"
    /\ IF ws # "open" THEN Terminated ELSE UNCHANGED ui
    /\ UNCHANGED <<asked, phase, ws, buffered, isConfigured, breakpointLocations, traces,
                   uplink, read, targetVars, runs>>

--------------------------------------------------------------------------------
(* The requests of the editor.                                                  *)

Shown == {"running", "stopped"}
Asks == asked < MaxRequests /\ asked' = asked + 1

\* validateBreakpoints, emitBreakpointLocations.  Before configurationDone the
\* breakpoints are only remembered.
SetBreakPointsRequest ==
    /\ ui \in Shown \cup {"configuring"} /\ Asks
    /\ \E addrs \in SUBSET Addr :
        /\ breakpointLocations' = addrs
        /\ IF isConfigured THEN Send(<<SetBreakpoints(addrs)>>) ELSE UNCHANGED <<uplink, buffered>>
    /\ UNCHANGED <<ui, phase, ws, timer, isConfigured, traces, read, targetVars, runs>>

\* Mutant: the run is started first.
ConfigurationDoneRunFirst ==
    /\ ui = "configuring" /\ ui' = "running" /\ isConfigured' = TRUE /\ runs' = runs + 1
    /\ Send(<<Run(RunConds), SetBreakpoints(breakpointLocations)>>)
    /\ UNCHANGED <<asked, phase, ws, timer, breakpointLocations, traces, read, targetVars>>

ConfigurationDoneRequest ==
    /\ ui = "configuring" /\ ui' = "running" /\ isConfigured' = TRUE /\ runs' = runs + 1
    /\ Send(<<SetBreakpoints(breakpointLocations), Run(RunConds)>>)
    /\ UNCHANGED <<asked, phase, ws, timer, breakpointLocations, traces, read, targetVars>>

\* Mutant: the run overtakes what waits to be sent.
ResumeOvertaking ==
    /\ ui = "stopped" /\ Asks /\ ui' = "running" /\ runs' = runs + 1
    /\ \E conds \in {RunConds, RunConds \cup {"line"}} : uplink' = <<Run(conds)>> \o uplink
    /\ UNCHANGED <<phase, ws, buffered, timer, isConfigured, breakpointLocations, traces,
                   read, targetVars>>

\* ContinueRequest, StepInRequest and NextRequest.
Resume ==
    /\ ui = "stopped" /\ Asks /\ ui' = "running" /\ runs' = runs + 1
    /\ \E conds \in {RunConds, RunConds \cup {"line"}} : Send(<<Run(conds)>>)
    /\ UNCHANGED <<phase, ws, timer, isConfigured, breakpointLocations, traces, read, targetVars>>

\* Mutant: the editor is told at once.
PauseRequestTold ==
    /\ ui = "running" /\ Asks /\ Send(<<M("pause")>>) /\ ui' = "stopped"
    /\ UNCHANGED <<phase, ws, timer, isConfigured, breakpointLocations, traces, read,
                   targetVars, runs>>

PauseRequest ==
    /\ ui = "running" /\ Asks /\ Send(<<M("pause")>>)
    /\ UNCHANGED <<ui, phase, ws, timer, isConfigured, breakpointLocations, traces, read,
                   targetVars, runs>>

\* Answered when registers come: once("receivedRegisters").
StackTraceRequest ==
    /\ ui = "stopped" /\ Asks /\ traces' = traces \cup {runs}
    /\ Send(<<M("getRegisters"), M("getMemory")>>)
    /\ UNCHANGED <<ui, phase, ws, timer, isConfigured, breakpointLocations, read, targetVars, runs>>

\* pause, which throws while there is no socket, then shutdown.
DisconnectRequest ==
    /\ ui # "disconnected" /\ phase # "called" /\ ui' = "disconnected"
    /\ IF ws = "none" THEN UNCHANGED <<ws, timer, uplink, buffered>>
       ELSE Send(<<M("pause")>>) /\ ws' = "closed" /\ timer' = "off"
    /\ UNCHANGED <<asked, phase, isConfigured, breakpointLocations, traces, read, targetVars, runs>>

Editor ==
    \/ SetBreakPointsRequest \/ ConfigurationDoneRequest \/ Resume
    \/ PauseRequest \/ StackTraceRequest \/ DisconnectRequest

--------------------------------------------------------------------------------
(* The messages of the target, in order.                                        *)

Incoming(reply) ==
    /\ ws = "open" /\ read < Len(replies) /\ read' = read + 1
    /\ reply = replies[read + 1]

\* "loaded": the locations of the lines, then InitializedEvent.
OnLoaded ==
    /\ Incoming(Target!Response(M("load"))) /\ phase = "loading" /\ phase' = "launched"
    /\ Send(<<[M("setLineLocations") EXCEPT !.addrs = Addr]>>)
    /\ ui' = IF ui = "launching" THEN "configuring" ELSE ui
    /\ UNCHANGED <<asked, ws, timer, isConfigured, breakpointLocations, traces, targetVars, runs>>

\* The target answers FAIL: "error" ends the session.
OnLoadFailed ==
    /\ MayFail /\ Incoming(Target!Response(M("load"))) /\ Terminated
    /\ UNCHANGED <<asked, phase, ws, buffered, timer, isConfigured, breakpointLocations,
                   traces, uplink, targetVars, runs>>

\* "receivedRegisters" answers every stack trace that waits.
OnRegisters ==
    /\ Incoming(Target!Response(M("getRegisters"))) /\ traces' = {}
    /\ UNCHANGED <<ui, asked, phase, ws, buffered, timer, isConfigured, breakpointLocations,
                   uplink, targetVars, runs>>

OnOtherResponse ==
    /\ \E m \in Message : m.action \notin {"load", "getRegisters"} /\ Incoming(Target!Response(m))
    /\ UNCHANGED <<ui, asked, phase, ws, buffered, timer, isConfigured, breakpointLocations,
                   traces, uplink, targetVars, runs>>

\* Mutant: the reason "pause" is not handled.
OnStoppedUnpaused ==
    /\ \E reason \in Target!Reasons :
        /\ Incoming(Target!Event(reason))
        /\ IF reason = "halt" THEN Terminated
           ELSE ui' = IF ui = "running" /\ reason # "pause" THEN "stopped" ELSE ui
    /\ UNCHANGED <<asked, phase, ws, buffered, timer, isConfigured, breakpointLocations,
                   traces, uplink, targetVars, runs>>

\* "stopped"
OnStopped ==
    /\ \E reason \in Target!Reasons :
        /\ Incoming(Target!Event(reason))
        /\ IF reason = "halt" THEN Terminated
           ELSE ui' = IF ui = "running" THEN "stopped" ELSE ui
    /\ UNCHANGED <<asked, phase, ws, buffered, timer, isConfigured, breakpointLocations,
                   traces, uplink, targetVars, runs>>

OnMessage == OnLoaded \/ OnLoadFailed \/ OnRegisters \/ OnOtherResponse \/ OnStopped

--------------------------------------------------------------------------------
(* The target: the steps of DebugTarget, and what they do to the histories.     *)

clientVars == <<ui, asked, launchVars, breakpointLocations, traces, read, runs>>

Accept ==
    /\ uplink # <<>> /\ uplink' = Tail(uplink) /\ Target!Accept(Head(uplink))
    /\ UNCHANGED <<clientVars, targetBreakpoints, begun, begunAt>>

Reply ==
    /\ Target!Reply
    /\ targetBreakpoints' = IF Head(requests).action = "setBreakpoints"
                            THEN Head(requests).addrs ELSE targetBreakpoints
    /\ begunAt' = Append(begunAt, begun)
    /\ UNCHANGED <<clientVars, uplink, begun>>

Begin ==
    /\ Target!Begin /\ begun' = begun + 1
    /\ UNCHANGED <<clientVars, uplink, targetBreakpoints, begunAt>>

Stop ==
    /\ \E reason \in Target!Reasons : Target!Stop(reason)
    /\ begunAt' = begunAt \o <<begun, begun>>
    /\ UNCHANGED <<clientVars, uplink, targetBreakpoints, begun>>

Leave ==
    /\ MayFail /\ Target!Leave
    /\ UNCHANGED <<clientVars, uplink, targetBreakpoints, begun, begunAt>>

LaunchRequest == LaunchRefused \/ Launch \/ EmulatorDelay \/ Initialize \/ LoadImage \/ DebugInfoFails

Next ==
    \/ LaunchRequest \/ Open \/ Lost \/ Timeout
    \/ Editor \/ OnMessage
    \/ Accept \/ Reply \/ Begin \/ Stop \/ Leave

Spec == Init /\ [][Next]_vars

\* launchRequest goes on, the editor configures what is initialized, messages
\* travel, and the target is fair as DebugTarget promises.
FairSpec ==
    /\ Spec
    /\ WF_vars(LaunchRequest) /\ WF_vars(Open) /\ WF_vars(ConfigurationDoneRequest)
    /\ WF_vars(OnMessage) /\ WF_vars(Accept)
    /\ WF_vars(Reply \/ Begin) /\ WF_vars(pausing /\ Stop)

--------------------------------------------------------------------------------
(* Properties.                                                                  *)

\* The fields of the session and its runtime, and the messages on their way; send
\* is never called before there is a socket.
TypeOK ==
    /\ ui \in Shown \cup {"launching", "configuring", "terminated", "disconnected"}
    /\ asked \in 0 .. MaxRequests
    /\ phase \in {"called", "starting", "started", "reading", "loading", "launched", "failed"}
    /\ ws \in {"none", "connecting", "open", "closed"} /\ timer \in {"off", "armed"}
    /\ buffered \in Seq(Message) /\ uplink \in Seq(Message) /\ requests \in Seq(Message)
    /\ isConfigured \in BOOLEAN /\ pausing \in BOOLEAN /\ gone \in BOOLEAN
    /\ breakpointLocations \subseteq Addr /\ targetBreakpoints \subseteq Addr
    /\ runs \in Nat /\ begun \in 0 .. runs /\ traces \subseteq 0 .. runs
    /\ current \in Message \cup {Null}
    /\ ws = "none" => buffered = <<>>
    /\ read \in 0 .. Len(replies) /\ Len(begunAt) = Len(replies)

Underway == requests \o uplink

\* What the editor shows as stopped is stopped: the program does not run and no
\* run is on its way (the stopped listener, continueRequest, pauseRequest).
StoppedIsStopped ==
    ui = "stopped" => current = Null /\ \A i \in DOMAIN Underway : Underway[i].action # "run"

\* A program is run with the breakpoints that were set when the run was asked for
\* (configurationDoneRequest, setBreakPointsRequest).
RunsWithBreakpoints ==
    [][begun' # begun => targetBreakpoints = current'.addrs]_vars

\* A stack trace is made of registers read in the stop it was asked in, however
\* soon the program was resumed (once("receivedRegisters")).
TraceOfItsStop ==
    [][read' # read /\ replies[read'] = Target!Response(M("getRegisters"))
       => \A run \in traces : begunAt[read'] = run]_vars

\* A launch that nothing disturbs starts the program (launchRequest, send, open).
LaunchStarts ==
    phase = "called" ~> (begun > 0 \/ ui \in {"terminated", "disconnected"} \/ ws = "closed" \/ gone)

\* A PAUSE ends the run it was meant for, and what the editor shows as running, as
\* long as there is a target (pauseRequest).  A PAUSE that comes after the stop
\* leaves the next run alone.
PauseStops ==
    (ui = "running" /\ \E i \in DOMAIN Underway :
        /\ Underway[i].action = "pause"
        /\ \A j \in i .. Len(Underway) : Underway[j].action # "run")
      ~> (ui # "running" \/ ws # "open" \/ gone)

\* Both: what the user asks for happens, as long as there is a target.
LaunchesAndPauses == LaunchStarts /\ PauseStops

\* docs/guides/4-debugging.md:20, "terminate debug session": after it there is no
\* connection to the target.
DisconnectCloses == ui = "disconnected" => ws \notin {"connecting", "open"}

================================================================================
