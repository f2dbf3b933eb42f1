# A TLA+ development of the CdM devkit

This directory holds TLA+ models of the CdM devkit, the TLC configurations that
check them on small instances, and TLAPS proofs of theorems about them. Paths are
relative to the repository's root.

1. [The system](#1-the-system)
2. [Plan](#2-plan)
3. [The modules and the code](#3-the-modules-and-the-code)
4. [The runs](#4-the-runs)
5. [What the code does not keep](#5-what-the-code-does-not-keep)
6. [Proofs](#6-proofs)
7. [Limits of the models](#7-limits-of-the-models)

## 1. The system

| Part | Sources | State | Operations | What is hard | Correct when |
|---|---|---|---|---|---|
| Logisim debugger | `logisim/logisim-debugger` | a message queue per server, run flag, breakpoints, line locations, last processor state; a ticker, a processor adapter and a server shared by all | the client's messages (INIT, RUN, STEP, PAUSE, RESET, SET_BREAKPOINTS, ...), Start and Stop buttons, a tick of the simulator | four kinds of threads, a monitor with hand-made signalling, two consumers of one queue, handlers that run on either of two threads | every message is answered once, a run advances by one chain of ticks, stops where it was asked to and reports where it stopped, PAUSE and STEP come to an end |
| cdp-java | `cdp-java` | message queue, current connection | WebSocket callbacks, a message loop | callbacks of two connections and the handler thread share one field; queue limit, shutdown | one client at a time is served, answers go to the one who asked |
| cocoemu-server | `cocoemu-server` | debug environment, run flag, breakpoints, last processor state | the same messages against the emulator | messages handled in the middle of a run, a target replaced in the middle of a run | it is a debug target: one stop event per run, with the right reason |
| cocoemu | `cocoemu` | registers, latches, phase, status, bus, memories | rising and falling edge, update, reset | order of the latches within a clock, hold/wait/halt/fault, accesses of two clocks, exceptions in any phase of an instruction and in each other | clocks make up whole instructions, and one that an exception broke off can be executed again |
| VS Code debug session | `vscode-cdm-extension/src/debug` | socket, buffer, breakpoints, variable references, memory views | requests of the editor, messages of the target | answers matched by `once` listeners, messages before the connection, awaits in the launch, stopping at any time | what the editor shows is what the target does |
| cocas linker | `cocas/linker`, `cocas/object_module` | sections, gaps, section addresses, lower parts, image | joining, needed sections, gaps, placement, relocation | alignment in gaps, transitive references, carry between halves of an address | nothing overlaps, every field gets the address it asked for |
| cocas object files | `cocas/object_file`, `cocas/main.py` | files between two runs of cocas | export, import, merging into a library | a grammar whose keywords names may be, sections told apart by address, modules told apart by file | what was compiled is what is linked |
| cocas macro processor | `cocas/assembler/macro_processor.py` | macros by name and arity, nonce, text rewritten so far | definitions, calls, libraries, line marks | macros in macros, names made of pieces, marks that say where a line came from | a call means the text of its macro, and errors name the right line |
| cocas assembler | `cocas/assembler` | syntax tree, segments, labels, loops | parse, structured statements, search for lengths, object generation | segments whose lengths depend on each other's, labels of nested statements, padding | what is written is assembled, the search ends and no label is wrong after it |
| cocodump, synthm | `cocodump`, `synthm` | none | pure translations | round trips | what is written is read back |
| banked memory, other plugins | `logisim/logisim-*` | memory banks, last clock | Logisim's propagate | clock edges, page allocation | a write is seen by later reads of its bank only |
| language server | `ext` | open documents | LSP notifications | order of changes | diagnostics are of the last text |

The editor's debug session talks JSON over a WebSocket to *one* debug target: the
Logisim debugger (a component placed in a circuit) or cocoemu-server (which embeds
cocoemu). The assembler and the linker make the image that the target loads.

`PROJECT.json` lists every component with its status, the hazards at their lines
and, under "map", the lines each definition stands for.

## 2. Plan

| # | Modules | Of | State |
|---|---|---|---|
| A | `TickControl`, `TickControlProof` | Logisim debugger | done |
| B | `DebugTarget`, `EmuServer`, `EmuServerProof` | the contract of a target; cocoemu-server implements it | done |
| C | `DebugConnection`, `DebugConnectionProof` | connections of cdp-java | done |
| D | `DebugSession`, with an INSTANCE of `DebugTarget`; `DebugSessionProof` | debug session against any target | done |
| E | `ObjectModule`, `Linker`, `ObjectModuleProof`, `LinkerProof` | cocas linker | done |
| F | `ObjectFile`, `Cocas`, which composes it with `Linker`; the last chapter of `LinkerProof` | object files, and the ways of `main.py` through them | done |
| G | `AstNodes`, `AsmLexer`, `AsmParser`, `AstBuilder`, `Cdm16`, `CodeSection`, `CodeBlock`, `Assembler`, `AssembledText`; `AssemblerProof` | cocas assembler for CdM-16 | done |
| H | `MacroParser`, `MacroProcessor`, composed by `MCAssembler` | cocas macro processor | done |
| I | `Microcode`, `Cdm16Clock`, `Cdm16Machine`, `Cdm16ClockProof` | cocoemu, which implements the machine its programmer sees | done |
| J | `BankedMemory`, `References` (variables and memory views), `Alu`, `Synthm` | the rest, state machines first | to do |

Abstract specifications: `DebugTarget`; `Cdm16Machine`, the instruction set; `AsmText`, the text a program is written as
and the order in which it is executed; `MacroText`, macros as a rewriting of texts;
still to come, a sequence of words with a port for `BankedMemory`. The Logisim debugger
is no `DebugTarget`: a reset during a run can stop it with the reason "unknown", and a
thread that finds no result dies with its request open (section 5, `stale_stop`); what
it does promise is stated in `TickControl` itself.

Theorems still to come: about `BankedMemory`, with its model; that of the assembler and
the linker is complete but for what section 6 leaves to TLC.

## 3. The modules and the code

### TickControl — `logisim-debugger`

Three server-side classes share one simulation: `Server` (a thread of the WebSocket
library enqueues messages), `TickControlThread` (takes them) and `SimulationTicker`,
in whose monitor a RUN or STEP parks. A tick is made by Logisim's simulator thread;
after it, `onTickComplete` tests the stop conditions, and the predicate it calls
*handles one queued message on the simulator thread*.

| Model | Code |
|---|---|
| `ctPc[g]`, `simPc`, `uiTicks` | where the TickControlThread of the g-th Server, the simulator thread and Swing's queue are; an action ends where another thread may see the difference |
| `queue`, `running`, `breakpoints`, `lineLocations`, `answered` | fields of TickControlThread, one per Server |
| `tickCompleted`, `predicate`, `test`, `bootstrapTicks` | fields of SimulationTicker, shared |
| `Handle(g, m)` | `handleMessage`, on either thread |
| `CtBeginRun`, `CtInstall`, `CtRequest`, `CtCheck`, `CtReturn` | `tickUntil`, then what follows it in `runSimulation` |
| `SimTick`, `SimCompleted`, `SimPoll`, `SimHandle`, `SimContinue`, `SimAccept`, `SimPublish`, `SimNotify` | `propagate`, `onTickComplete` and the predicate |
| `PressStart`, `PressStop` | the two buttons of DebuggerComponent |

The processor is a parameter: a program (`Succ`, `Halting`, `Faulting`) executed one
tick at a time, `InstrTicks` per instruction, the first `FetchTicks` with the fetch
signal. `origin`, `accepted`, `answered` and `stop` are history.

### DebugTarget and EmuServer — `cdp-java`, `cocoemu-server`

`DebugTarget` is what a client may rely on: requests are taken in order and answered
once; RUN and STEP occupy the target until one stop event that comes before their
response; other requests are answered meanwhile; a PAUSE is followed by the stop
event of its run, with the reason "pause" then and only then.

`EmuServer` is `ServerMessageHandler`: its thread takes a request, and during a run
clocks the processor itself (`ClockSystem`), looks into the queue after each clock
(`PollEmpty`, `PollHandle`, `PollInterrupted`) and decides (`Continue`, `StopRun`).
`runSimulation` holds the adapter it began with (`adapter`) while INIT replaces
`debugEnvironment`. An instruction takes one clock with the fetch signal and then as
many without as its microcode has rows (`Phases`; `Entering` for the instruction that
enters a handler); `Kind` says what it does (go on, halt, wait, raise an exception).
A handler at an odd address (`Entry`) is a double fault, and within a double fault the
processor stops where it is, with the status "fault" and the fetch signal low
(`Enter`). The refinement `Target` maps `pausing` to "in a run whose
simulationRunning is false" and `gone` to a dead or ended thread.

### DebugConnection — `cdp-java`, `Server.java`

A connection goes `none → handshake → open → closing → removed → closed`; the library
counts it among `getConnections()` from before `onOpen` until before `onClose`.
`onOpen` and `onClose` set `currentConnection`; the handler thread reads that field
three times to answer (`Check`, `IsOpen`, `Send`), one action each.

### DebugSession — the VS Code extension

One JavaScript thread: an action is what runs between two awaits. `phase` is how far
`launchRequest` has come (or failed: `LaunchRefused`, `DebugInfoFails`), `ws`, `buffered` and `timer` are the runtime's socket,
buffer and connection timeout, `traces` the stack traces that wait for registers
(the `once` listeners). `Editor` holds what the user may do in the state the editor
shows (`ui`). The target is *any* implementation of `DebugTarget`: its actions are
conjoined with `Target!Reply`, `Target!Begin`, ... so that what is checked depends on
nothing else of it.

### ObjectModule and Linker — cocas

`link` is a sequence of loops; an action is one iteration. `Concat` joins a piece to
the section of its name (`concat_rsects`); `Collect` and `Visit` find what `$abs`
needs (`find_sect_by_ent`, `find_referenced_sects`); `Referenced` drops and sorts;
`InitBin` and `LastBin` make the gaps (`init_bins`); `Place` puts a section into the
first that fits (`place_sects`); `AddAddress` relocates a field. Each exception is a
value of `stage`. `ObjectModule` has the records of `cocas/object_module`. A sort of the
code is the order of its ranks (`Before`, `OrderedBy`); the nested loops over sections
and their fields are a set of pairs (`jobs`) of which the next in the loops' order is
taken.

### ObjectFile and Cocas — cocas

`ObjectFile` holds `object_export`, the grammar that ANTLR's parser follows and
`object_import`. A file is a sequence of lines, a line of tokens: the keyword a line
begins with, words, marks. A rule of the grammar within a line holds or not; one of
several lines leads from its first line to the one behind its last, or to 0. `Cocas`
is `main.py` behind the assembler: compiled modules are linked directly (`way` =
"direct"), or written into an object file each (`Compile`) or one for all
(`CompileTogether`), perhaps merged (`Merge`), read back (`Read`) and linked (`Link`,
then the actions of `Linker`).

`object_export` and `object_import` are CONSTANT operators of `Cocas` to which
`MCCocas` gives the definitions of `ObjectFile` (`export_object`, `visitObject_file`):
the actions of `Cocas` do not depend on what a file looks like, and what they do with
it can be read without the grammar. `FileOf`, `ReadOf` and `Library` say which files a
build writes (`FilesOf`) and what is kept of them; a build of macro libraries alone, which
has no object module, is left out. In the same way `Assembler` has `ExpandedText`,
`SyntaxTree` and `CodeSections`, which `MCAssembler` gives as
`Macros!expand_source`, `build_ast` and `generate_sections`.

### The assembler — cocas

| Module | Code |
|---|---|
| `AsmLexer`, `AsmParser` | the rules of the generated `AsmParser` over lines of tokens, in the manner of `ObjectFile` |
| `AstNodes`, `AstBuilder` | `ast_nodes.py`, `ast_builder.py`: the tree, with the code location each node gets from the line marks |
| `CodeBlock` | `code_block.py`: lines of a section become segments, statements become branches and labels, templates become fields |
| `CodeSection` | a section of `code_block.py` with its segments, labels and code locations |
| `Cdm16` | `targets/cdm16`: which segments an instruction makes, how long they are now, what they fill in, every exception |
| `Assembler` | `assembler.py`, `object_generator.py`: `ProcessMacros`, `BuildAst`, then `UpdateLength` for one segment of varying length at a time, `NextPass` while one has changed, `NextGroup` (all absolute sections together, then each relocatable one), `Fill` for a section and `generate_object_module` |
| `AssembledText` | no code: what `Assembler` has made of a text up to its branches, against `AsmText` and `MacroText` |
| `AsmText` | no code: how a tree is written down, and in which order its statements are executed |

`sects[s].declared` (where in the segments a label was declared), `regrown`, `shared`
and `passes` are history. A segment keeps its position, as in the code, and labels and
code locations are moved when one before them changes (`update_surroundings`): that
they are still right in the end is what the properties say.

Trees are walked by RECURSIVE operators (`AsmParser`, `AstBuilder`, `CodeBlock`,
`MacroProcessor`), which the prover cannot work with. So the actions stand in `Assembler`
and `CodeSection`, which know the walks as constant operators, and the properties that
compare the tree with its text in `AssembledText`.

### The macro processor — cocas

`MacroParser` has the rules of `Macro.g4`. `MacroProcessor` has `ExpandMacrosVisitor`:
a line in pieces (`MacroLine`), a call as the text of its lines with marks
(`expand_macro`, `expand_line`), a source as a walk over its macros and lines
(`visitProgram`) that keeps the macros, the nonce, the text so far and the mark that
`TokenStreamRewriter` inserts behind a definition (`mark`). `MacroText` says the same
as a reader of the manual would: as long as a line is a call, replace it.

### Cdm16Clock — cocoemu

| Model | Code |
|---|---|
| `cpu` | `pc`, `sp`, `ps` and the register file of `Cdm16` |
| `ctl` | `ir`, `phase`, `fetch`, `clockState` (`high`), the latches and vector registers, the bus controller's latch and byte |
| `ram`, `image` | the memories of `HarvardSystem` |
| `Signals(in)` | `updateProcessorState`: the data path for the main row, the exception unit, perhaps the row of the other table, the data path again |
| `Ecu`, `FetchInstruction`, `Datapath`, `Registered`, `StatusOf` | `ExceptionChecker` and `ExceptionControlUnit`, `FetchUnit`, `updateDatapath` with the bus controller, `updateRegisters`, `updateStatus` |
| `SuspendedClock`, `InhibitedClock`, `FetchClock`, `ExecuteClock` | `clockFalling` with the `update` and `clockRising` before it: up to its first return, up to the second, and to its end in a fetch or a phase of an instruction |
| `Reset` | `reset` |

The inputs of a clock (`in`) are chosen anew in each. `Microcode` has the two tables of
`logisim/cdm16/microcode` as sets of signals. `boundary` is history: what the program
sees after the last whole instruction, and the exception it is about to enter.
`Cdm16Machine` says what may come next: an instruction as a whole; one that was broken
off and left no trace but in the memory it was to write (`Raise`), with the exceptions
to that rule (`Lose`, `RaiseUnrecoverable`); a handler entered; a reset. Its instructions
are written from the instruction set and share no operator with `Cdm16Clock`.

## 4. The runs

Bounds are constants, named in the modules as such. A run's next-state relation
fires every action between the passing runs of its module. Deadlock is checked in
`processor` alone: every other of these systems may stop, when the client has sent its last message, the
server was stopped or the program is linked or assembled; what must go on is stated as liveness.

| Run | Asks | Bounds, and why they suffice |
|---|---|---|
| `session` | One Server of the Logisim debugger: one chain of ticks, no lost wake-up, the simulator thread never blocks, every message answered once, a stop reports exactly what ended it, STEP is one instruction, no breakpoint is passed, PAUSE, STEP and a halting program end | four messages: INIT, a run, one message handled inside it by the simulator thread and one after it; a loop of two instructions of four ticks, so that the two bootstrap ticks and a missed fetch differ, and a program of three of which one raises an exception and the last halts; queue of two, so that it fills |
| `restart` | two Servers after each other, a tick by hand | two is where a leftover of the first can meet the second; one instruction, since no property looks at addresses |
| `emulator` | refinement of `DebugTarget`, STEP, breakpoints, halting, with INIT in the middle, waiting and faulting instructions, LOAD, `Server.stop` | four requests, two systems, three programs of four words, each of which raises an exception: its handler halts; or there is only one for the double fault, which waits; or there is none and the processor faults. Instructions of two to seven clocks; the queue (three) fills; 1.2 million states |
| `clients` | three clients in turn or at once: order of answers, refusal, service, and that an answer never passes a client that is still connected | three clients: one served, one refused, one that comes when the first has left; three requests, a queue of two |
| `debugging` | the session against any target, both environments, with every failure | two requests of the editor after the launch: a pause and its resumption, a breakpoint in a run, a stack trace and a step, a disconnection in any of them |
| `building` | linking directly or from object files and libraries: joining, needed sections, placement, fields, and that a module comes back from its file | up to two pieces of every kind or three of some, five layouts of absolute sections, three of them between two sections also from a library, an image of eight cells and bytes of 0..3, so that addresses have two bytes and carries occur; pairs of six modules that are hard to write (several absolute sections, empty ones, a label named like a record, two sections at an address) by all four ways, for two targets, with all path options; every exception of `link` and of reading occurs |
| `assembling` | sources through the whole assembler: macros, tree, branches, lengths, code, lines | 3819 sources, in the families below; 43585 states |
| `processor` | the emulator implements `Cdm16Machine`; what is entered has a number that somebody gave | words of 6 bits and bytes of 3, so that carries and unaligned accesses occur and 64 bytes hold the vectors, two handlers and a program; 29 programs, one for every operation and way of breaking it off, with the exceptions of an odd sp or pc and of invalid words; two interferences (IRQ, EXC, HOLD or reset in any clocks), since a second exception on top of the first is the worst case the code distinguishes; 119864 states |

The sources of `assembling`: every statement inside every other in the places where
code may be empty (`Nested`, `Alone`); segments of varying length, labels, alignment
and gaps of about a reach in every order, and chains in which each segment that grows
makes the one before it grow (`Layouts`); a line of every instruction of CdM-16 with
arguments at the ends of their ranges, relocatable and external ones and wrong ones
(`Lines`); several sections and templates (`Several`); macros that call macros, make
names and labels, ask for registers, are redefined, are wrong or endless, with and
without libraries (`Calling`, `Miscalling`); and four texts with each line or each
token left out or said twice (`Changed`).

`stale_stop`, `lost_handler`, `stopped_early` and `overlapping` are violated, see
section 5.

**Properties.** Each is stated in the module with the code it is about. The central
ones: `SimulatorNeverBlocks` (two consumers of one queue test `isEmpty()` and then
`take()`; this is safe only because one is parked whenever the other looks),
`OneTickChain`, `EveryMessageAnsweredOnce`, `BreakpointHit`, `ImplementsTarget`,
`OpenIsCurrent`, `StoppedIsStopped`, `TraceOfItsStop`, `PlacedRight`,
`LinkedAsCompiled`, `MacrosExpanded`, `JumpsAsStructured`, `PlacesExact`, `CodeExact`,
`ImplementsMachine`. Each property
of a passing run has a mutant: a plausible error in the code that violates it.

**Fairness.** Only weak fairness, and only of what runs by itself: the threads of the
servers (`WF` of the simulator thread, of each TickControlThread, of Swing's queue,
of the handler thread, of the library's callbacks): Java threads that are runnable
are scheduled. In `DebugSession` the JavaScript event loop runs what is due,
messages travel while the socket is open, the editor sends configurationDone after
`initialized`, and the target is as fair as `DebugTarget` says, which `EmuServer` is
shown to be. Users, clients and failures owe nothing.

## 5. What the code does not keep

| Run | Where | What happens |
|---|---|---|
| `stale_stop` | `SimulationTicker.java:51` | `tickCompleted` is raised before `tickResult` is assigned; a thread not yet waiting returns the previous result, and the editor shows the previous stop (on the first run it is null, and the thread dies) |
| `lost_handler` | `cdp-java` `Server.java:116` | `sendMessage` reads `currentConnection` again after testing it; a client that leaves in between ends the handler thread, and later clients are let in but never answered |
| `stopped_early` | `session.ts`, `disconnectRequest` | Stop while the emulator starts up calls `pause()` on a socket that is not there yet and throws before `shutdown()`: the session connects later all the same |
| `overlapping` | `linker.py:50` | the padding before an aligned section is not taken from its gap, so a later section may be placed over an absolute one or outside the image without an error |

The passing properties say where else the code does not go as far as one might
expect, each in its statement:

- `TickControl!BreakpointHit` is for runs that begin at the beginning of an
  instruction: resumed from a PAUSE in the last tick of one, a run passes the next
  breakpoint, because the two bootstrap ticks cover its fetch.
- `RunsEnd` (its `StepEnds`) is checked without ticks by hand: one outside a run can be tested in
  place of the run's own and end the chain.
- `EmuServer!BreakpointHit` and `RunEndsAtHalt` except a run under which INIT
  replaced the system: the run clocks the new one and tests the old.
- `RunEndsAtHalt` is for programs that come to a HALT. A processor that faults is not
  halted (`Cdm16ProcessorAdapter.isHalted` compares with `HALTED`) and never fetches
  again, so that no stop condition holds: its RUN or STEP, with the stop on exceptions
  or without, ends only by PAUSE or RESET.
- `DebugConnection!AnswerToAskerOrSuccessor` allows what its name says: the request of a
  client that has left is answered to the one that came after it, since
  `currentConnection` is read when the answer is sent.
- `DebugConnection!OpenIsCurrent` ends with the first refused client, whose `onClose`
  clears the connection of the other.
- `Cocas!LinkedAsCompiled` is for modules with something to write, no two absolute
  sections at one address (the import keeps the last) and no name that is a keyword
  of object files (a label `DATA` makes the file a syntax error), and for files of
  several modules that have debug information: only a FILE record separates modules
  (`object_export.py:60`), so that others merged by `cocas -m` become one when the
  library is read, which fails if they share the name of a section; paths are converted
  only in files with debug information (otherwise `.relative_to` meets None).
- `AssembledText!JumpsAsStructured` excludes statements that begin at one place: their
  labels carry the address as nonce, so an `if` whose first condition begins with a
  loop shares its labels, and branches of one lead into the other.
- `PlacesExact` and `CodeExact` exclude sections in which a padding became empty and
  grew again: what is at the place of an empty padding is not behind it for
  `update_surroundings`. Code locations of absolute sections not at 0 are not moved.
- `CodeExact` takes template fields where the code recognises them: in added terms of
  lines outside statements. Elsewhere a field is an unknown label.
- `MacrosExpanded` excludes libraries that have a macro of the same name but not of
  every arity of an earlier one: `macros |= lib` replaces all arities.
- Its other half, `LinesOfCalls`, excludes texts where the mark of a call and the one behind a
  definition come in the wrong order (a call in the first line or directly behind
  `mend`): the lines that follow are then one off.
- Without a property: two nonces in one line of a macro are a character constant for
  the lexer (`Macro.g4`, CHAR), so that the labels are not made different; a definition
  or call between a top-level `ext` line and the first section puts a line mark where
  the grammar has none; `shl rd, rs, 0` makes no code although rd and rs differ. The
  model does as the code does.
- `Cdm16Machine` allows what the emulator does and one might not expect. `halt`, `wait`,
  `ei` and `di` have no row that takes pc back, so that an external exception in their
  clock loses them (`Lose`). An exception line still high when its handler is fetched is a
  double fault. `reset` leaves `ir` alone: an exception in the clock after a reset during
  the handler of a double fault stops the processor (`Fault`). A wait is ended by an
  interrupt only, though `docs/cdm16/cdm16-overview.md:236` says "until an interrupt or
  an exception occurs"; and HOLD is sampled while the clock is low, but a stopped clock
  stays high (where something raised it: Logisim's component does), so that its release
  is not seen before a reset.
- `Linker!WholeFieldsExact` is for fields that keep no lower byte. `FieldsExact`
  fails with the high-byte fields of cdm8e: `lower_parts` is written under the
  address of a field and read under the offset of another, and `concat_rsects`
  assigns the new lower part to the entry it has just copied.

## 6. Proofs

Every theorem holds for all values of the constants that satisfy the modules' named
assumptions, which TLC evaluates on every run:

- `TickControl`, `EmuServer`, `DebugConnection`, `DebugSession` (`BoundsAssumption`,
  `ProgramAssumption`, `ConnectionAssumption`, `SessionAssumption`): types of the
  parameters, positive capacities, that fetching takes some but not all ticks of an
  instruction, and that there are finitely many `Clients`.
- `Linker` (`ModuleAssumption`, `LinkerAssumption`): the sections of compiled modules are
  typed, and a field that keeps no lower byte holds its constant.
- `Cocas` (`FilesAssumption`): a build has a module at least, its modules are typed, and so
  is what is read of each file that it writes, when that is read without an error. TLC
  evaluates this for all builds of `building`: the types, not more, of what export and
  import make of a module are taken from there.
- `Assembler` (`SectionsAssumption`): the sections made of an accepted source are typed,
  their labels and code locations are where they were declared, nothing has grown, and
  the absolute ones come first (`IsProgram`). TLC evaluates it for all sources of `assembling`.
- `CodeIsExact` has the hypothesis `Byte = 256`: the code wraps words at 65536, so
  that a byte of another size is no byte.
- `Cdm16Clock` (`SizeAssumption`, `ProgramAssumption`): a word is two bytes and holds the
  four flags, the vectors of the processor, of the devices and of each `int` and `reset`
  are among its addresses, each word of the program memory is decoded to some instruction,
  if only to "invalid", and there is a register 0, which virtual instructions name.

| Module | Theorem | Argument |
|---|---|---|
| `TickControlProof` | `TypeCorrect` | `TypeInv` adds `Owned` to `TypeOK`: a thread in a run holds the message that began it, and `test.owner` is a Server while its queue is looked at; without it `Head(queue[test.owner])` has no type |
| | `WakeupSafe` | `NoLostWakeup` is inductive with `TypeInv`: only the simulator thread raises `tickCompleted`, and it is then before `notify`; a thread tests it under the lock |
| | `SimulatorSafe` | for one Server without manual ticks (`Single`). `OneChain` is the strengthening: at most one tick is under way and only during a run nothing has accepted, the run's own predicate is installed before its first tick, and nothing but an accepted PAUSE clears the run flag. It gives that the queue seen non-empty is still so at `take()`, and that whoever polls on the simulator thread does so for a parked thread |
| | `MessagesAccounted` | accepted = answered + queued + in hand is inductive with `TypeInv`; holds with any number of Servers and handlers on either thread |
| | `OneTickSafe` | for one Server that nobody stops. `OneChain` says that no run has two ticks under way; `Unbroken`, that a run whose result is not there has one: no handler throws while the Server of a thread is there |
| | `ReportsAreExact` | for one Server. `Exact` follows the state from the test that accepted it through `tickResult` to the stop event: nothing is ticked between, so that the state reported is the processor's, and the reason is a condition that held in it |
| | `BreakpointsHit` | for one Server and instructions of three ticks or more. `Bootstrap`: whenever a tick is due the state was tested, and no condition held, or is within the bootstrap ticks of a run from the beginning of an instruction, and then still in its fetch |
| | `StepsAreExact` | and for a fetch of three ticks or fewer. `OneInstruction` counts the ticks of a STEP against those of its instruction: its fetch is over before the bootstrap ticks are, and the next one is the first state with the fetch signal that is tested. In the circuits a clock is two ticks, a fetch one clock and an instruction two clocks or more; with instructions of two ticks, or a fetch of four ticks in five, TLC finds the property false |
| `EmuServerProof` | `TypeCorrect` | `TypeInv` says besides which shape the handler thread's fields have where (`Shape`) |
| | `Implements` | every step maps to a step of `DebugTarget` or a stutter: `Spec => Target!Init /\ [][Target!Next]_Target!vars`; `ReasonOfStop` is the heart: a stop that is no pause has a condition that was asked for or "halt", never "unknown" |
| | `BreakpointsHit` | from `Tested`: whenever the processor is about to be clocked again, its state was tested and no condition held, unless the run has just begun |
| | `StepsAreExact` | `Progress`: in a STEP the processor is as it was at its beginning, in the middle of the instruction (where it differs from after the fetch in its phase alone, `ExecuteMiddle`), or at its end, or it has faulted. `ClockInInstruction` says that a clock leads from one of these to the next, `InstructionEnds` that the first fetch signal after the beginning is at the end, for any number of phases |
| `DebugConnectionProof` | `TypeCorrect` | `Admitted`: only a client that was let in is ever the current connection |
| | `AnswersStayWithTheirClient` | `HandOver`: at most one connection is open (a refused one is closing from `onOpen` on); who has asked was let in, and is gone from the connections once another is let in. `LetInAlone` counts the connections, as `onOpen` does |
| | `SoleClientIsCurrent` | `SoleInv`: clients that never overlap are at most one, in every state of a connection |
| | `AnswersInOrder` | `OrderInv`: what was answered is older than what is being answered, and that older than what is queued |
| `DebugSessionProof` | `TypeCorrect` | messages between the two are one stream, `Underway`; lemmas say what stays of it when it grows at the end and shrinks at the front |
| | `StoppedMeansStopped` | `OneRun`: a RUN or STEP on its way, one that the target executes, and a stop event not yet read exclude each other, and while the editor shows a stopped program there is none of them. It needs of the target only the contract: one stop event per run, before its response |
| | `BreakpointsOfTheRun` | `BreakpointsAhead`: each run in the stream will find the breakpoints it was asked for with, and at its end the target has those of the session |
| | `TracesOfTheirStop` | `Traced`: registers are asked for before the next run in the stream, and while they are on their way, or read and not handled, no run begins that could not be told from that of the waiting traces |
| `LinkerProof` | `LinkTypesCorrect` | `TypeInv` says besides what each stage has already made: the sections joined, the gaps, the jobs left |
| | `LinksWhatIsNeeded` | `Needed`: what the visited sections need is used, and all that is used is in every closed set; when nothing is left to visit, what is used is the least closed set |
| | `SectionsPlacedRight` | `PlaceInv`: the absolute sections passed by `init_bins` are apart (`PassedApart`), what they leave of the image are the gaps (`Gaps`), and without alignments so is what is left of these after each placement (`Placement`). Its core is `OneGap`: gaps have something between them, so that what is free of everything lies in one gap; hence a section without a gap long enough has no room anywhere. With alignments the padding breaks `Placement` (section 5), but not that pieces keep theirs: the alignment of a joined section is a multiple of each (`MultipleOfMultiple`), and so is its address (`Addressed`) |
| | `WholeFieldsAreExact` | `Resolved`: every label that a linked section waits for is in one of them; `Fine`: a field without lower bytes holds its constant, in pieces and in what is joined of them; `Written`: as long as only such fields were written no lower part is kept, so that each holds the sum of constant and address |
| | `CocasTypesCorrect`, `CocasLinksRight` | the same four under `CocasSpec`, where the linker finds modules that were compiled, written, merged and read. `ReadInv`: what is read, and what the files still to be read hold, are the build's own files (`FilesOf`), and of a library its beginning, in the order of the modules (`InOrder`); so the lists that `Link` makes are typed (`Begun`), which is all that the linker's invariant (`LinkInv`) starts from |
| `AssemblerProof` | `PassesAreFew` | in a pass that is not among the last two a segment grows, and one that has grown is locked: passes are at most two more than the locked ones (`LockedIn`, a subset of `GrowableOf`; `PassInv`). A padding may shrink again, but is not asked twice: segments are asked in order, and a padding that was asked fits (`Fits`) until one before it changes |
| | `PlacesAreExact` | while sections are asked, positions, labels and locations are not where the segments will be found: they are moved by a comparison with the position of what has grown, and a padding behind it may take that back later. `Placing` says that there are places the update has in mind, each where its segment begins or where one without code between them does, that fit all of them; only a padding that grows out of nothing (`regrown`) breaks it |
| | `TypesKept` | `FillInv` says what is filled in, `RecordsAre` that a section and what it is filled with become a typed record of the linker's, `ModuleJoined` that joining such records gives one: each field in it holds its constant, and fields made by `concat_rsects` stay so |
| | `CodeIsExact` | `Chosen` says that a segment found no reason to grow, with the labels known then: a constant or label in reach, a register pair; `AskedInv`, that in a pass in which nothing has changed this is so of what was asked; `SettledIn` keeps it for the sections that are done, since labels of absolute sections stay (`FinalSame`) and a relocatable one sees no others (`KnownInv`). The rest is about what is filled in: an expression is a sum whose relocatable part cancels or becomes a field (`MeaningIs`), a word holds it modulo 65536, and so it does with whatever the linker adds to the field (`WordExact`); the short distance of a branch, a signed byte of words, leads where it should (`BranchArrives`), and paddings and alignments of segments survive the joining because the section's alignment is a multiple of theirs (`Aligned`) |
| `ObjectModuleProof` | lemmas only | division and alignments, fields that move, joined sections and lists: `AssemblerProof` and `LinkerProof` both stand on it |
| `Cdm16ClockProof` | `TypeCorrect` | `TypeInv` adds what an instruction register may hold: every word a program has or the fetch unit makes can be decoded, and names registers there are. Sums are cut where the code cuts them, to the width of a word, a byte or the flags |
| | `VectorsSound` | `NumberInv`: a latched exception has the number of one (`LatchedIsNumbered`), an external one a device's beside it; so the vector registers, which outlive every exception, are read only while they are those of the latched one (`FetchedNumbers`, `LatchNumbers`) |
| | `MachineImplemented` | every clock maps to a step of `Cdm16Machine` or a stutter: `Spec => Machine!Spec`. `Sim` relates the middle of an instruction to the last boundary: the instruction register holds what the boundary's pc points to or what enters a handler; sp is where the phases so far have taken it (`SpAt`), memory as far as they have written it (`RamAt`), pc so too unless an exception has come (`PcAt`, `PcKept`), half an unaligned access has been done (`Halfway`), the other registers are untouched; and the number latched for an exception is one that the instruction, as broken, may end with (`Broken`). Lemmas say what the signals of a row do, which two rows differ only in what they latch (`SameAccess`), what the phases of each kind of instruction add up to (`LastPhase`), and what those of the exception table give back (`BrokenPhase`); `NextAllowed` takes the steps one by one. With `TypeInv` and `NumberInv` it is inductive |

Only model-checked:

- all liveness (`RunsEnd`, `RunEndsAtHalt`, `StopEndsTicking`, `Served`,
  `LaunchesAndPauses`, and the fairness half of `ImplementsTarget`), which is out of the
  prover's reach;
- `Cocas!LinkedAsCompiled`, `AssembledText`'s `MacrosExpanded`, `ReadsAsWritten` and
  `JumpsAsStructured`: they say what a parser or a walk makes of every text, which is
  induction over data. The proofs begin behind these: with the modules that a file holds
  (`FilesAssumption`), with the sections that a tree has become (`SectionsAssumption`).

## 7. Limits of the models

- *TickControl.* Fields that are neither volatile nor locked are read as written last
  (sequential consistency), and `wait` does not wake up by itself. `bootstrapTicks`
  stays at -1 instead of wrapping after 2^31 ticks. A message that finds the queue
  full is dropped, as `add` throws in the library's callback. Payloads (registers,
  memory, tunnels) are abstracted; a handler that reads them differs from the others
  only in needing a project. `MaxMessages` bounds the first Server, and each later
  one gets one message fewer. `Answer` never fails: that `Server.sendMessage` throws when
  the client leaves between its two reads of `currentConnection` is in `DebugConnection`
  (`lost_handler`), and callbacks of the connections are left to it.
- *EmuServer.* Memory and devices are fixed: a program is a parameter with its vector
  table, and an interrupt never comes. Within `Horizon` clocks a program has halted or
  never does. A failed and a successful answer are not told apart. LOAD before INIT
  is answered with a failure or ends the thread, as its file can be read or not. `Server.stop` is modelled although the
  program itself never calls it.
- *DebugConnection.* The WebSocket library is external: callbacks of one connection in
  order, those of two in any; an exception in a callback is the library's.
- *DebugSession.* The three early exits of `launchRequest` (`LaunchRefused`) are one
  failure, whatever the configuration. The editor sends what its state offers; `restartRequest` cannot be
  sent to it (the capability is not announced), `stepOutRequest` sends nothing to the
  target, scopes and variables keep no state of the program. The emulator's terminal
  and the contents of the debug information are left out.
- *Linker.* Of the contents of a section only its fields are kept, no two at the same
  place; addresses are never subtracted (sign -1 is "not tested", and nothing makes
  it) and the image is never unlimited (`target_link` gives a size). Where a section
  was placed over another the bytes are not followed further.
- *ObjectFile, Cocas.* Tokens, not characters: hexadecimal digits, the minus sign of
  an address and the bytes of code are left out; relative paths lie inside the base.
- *Assembler.* A text is a sequence of tokens, with blanks in a source. Encodings of
  instructions are reduced to what the properties tell apart (the code of a branch,
  an immediate, a length), strings to their lengths. Only CdM-16. That the search for
  lengths ends is stated as a bound on its passes (`FewPasses`), stronger than
  liveness.
- *MacroProcessor.* `MaxDepth` stands for Python's recursion limit; every error of the
  processor is the same error. `MacrosExpanded` is for parameters of one word each.
- *Cdm16Clock.* The lines of the devices do not change within a clock; a system without
  devices drives none of them. Of the ALU the sum, of the flags the carry; subtraction,
  shifts, loads with sign or from the frame pointer or program memory, and negative
  immediates have the rows of operations that are modelled but for the signal named.
  What an undriven bus keeps from before a reset is not followed, `int_ack` is not an
  output. The memories are those of `HarvardSystem`; the clock and the lines of the devices
  are as in a circuit with Logisim's `Cdm16Component`, which calls `clockRising`.
  `HarvardSystem` does not, and drives no line: its runs are those without a raised one,
  and no result rests on the state of its clock. An exception may change the flags in `add_p`, whose row
  latches them, and memory that the instruction was to write.
- Only the two texts of `assemble_files` that a user can give, sources and macro
  libraries, are followed; `cocas` with several sources assembles each by itself.
- Not modelled: `Cdm16e` and `VonNeumannSystem` of cocoemu, banked memory, variable references
  and memory views, synthm and cocodump are still to do; circuit files
  are data of another tool, the language server and the editor's UI have no state of
  their own beyond what is shown, the emulator component and the runner are thin
  wrappers, tests and examples are no part of the program.
