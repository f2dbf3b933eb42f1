---------------------------- MODULE MCTickControl ----------------------------
(* Small instances of TickControl.                                            *)
EXTENDS TickControl

\* Two programs: a loop of two instructions, 0 -> 1 -> 0, and three instructions of
\* which the second raises an exception and the last halts, 2 -> 3 -> 4.
MCAddr == 0 .. 4
MCSucc == [a \in MCAddr |-> CASE a = 0 -> 1 [] a = 1 -> 0 [] a = 2 -> 3 [] OTHER -> 4]
MCEntry == [a \in MCAddr |-> IF a < 2 THEN 0 ELSE 2]
MCHalting == {4}
MCFaulting == {3}
MCNone == {}

Msg(action, addrs, conds) == [action |-> action, addrs |-> addrs, conds |-> conds]
Init0 == Msg("init", {}, {})
Step == Msg("step", {}, {})
Pause == Msg("pause", {}, {})
RunToBreakpoint == Msg("run", {}, {"breakpoint"})
RunToException == Msg("run", {}, {"exception", "line"})

\* A debugging session as the editor drives it.
MCSession ==
    {Init0, Step, Pause, RunToBreakpoint, RunToException, Msg("setBreakpoints", {1}, {}),
     Msg("setLineLocations", {0}, {}), Msg("reset", {}, {}), Msg("memory", {}, {}),
     Msg("query", {}, {})}

\* Runs of two Servers that overlap, over a loop of one instruction.
MCZero == {0}
MCZeroSucc == [a \in MCZero |-> 0]
MCRestart == {Init0, Msg("run", {}, {})}

\* What the race between the two threads needs: the loop of two instructions.
MCTwo == {0, 1}
MCTwoSucc == [a \in MCTwo |-> 1 - a]
MCTwoEntry == [a \in MCTwo |-> 0]
MCRace == {Init0, Step}
==============================================================================
