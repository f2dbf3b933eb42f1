----------------------------- MODULE MCEmuServer -----------------------------
(* Small programs and small sets of requests for EmuServer.                   *)
EXTENDS EmuServer, TLC

MCAddr == 0 .. 3
Next4 == [a \in MCAddr |-> (a + 1) % 4]

\* Word 1 of each raises an exception.  The handler at word 3 halts; or there is a
\* handler for the double fault only, which waits for an interrupt that no device
\* sends; or there is none, and the processor stops.
MCPrograms == {"raising", "waiting", "faulting"}
Words(last) == 0 :> "plain" @@ 1 :> "raise" @@ 2 :> "plain" @@ 3 :> last
MCKind == "raising" :> Words("halt") @@ "waiting" :> Words("wait") @@ "faulting" :> Words("plain")
Table(exception, double) == "startup" :> 0 @@ "exception" :> exception @@ "double" :> double
MCEntry == "raising" :> Table(3, 3) @@ "waiting" :> Table(Odd, 3) @@ "faulting" :> Table(Odd, Odd)

\* The instruction that raises has two rows of microcode.
MCPhases == [p \in MCPrograms |-> 0 :> 1 @@ 1 :> 2 @@ 2 :> 1 @@ 3 :> 1]

\* reset, int, int broken off, int broken off by a critical fault.
MCEntering == "raising"  :> ("startup" :> 2 @@ "exception" :> 4 @@ "double" :> 4) @@
              "waiting"  :> ("startup" :> 2 @@ "exception" :> 6 @@ "double" :> 4) @@
              "faulting" :> ("startup" :> 2 @@ "exception" :> 6 @@ "double" :> 3)

M(action, addrs, conds) == [action |-> action, addrs |-> addrs, conds |-> conds]
Plain(action) == M(action, {}, {})

ClientMessages ==
    {M("run", {}, {"breakpoint", "exception"}), M("run", {}, {"breakpoint", "exception", "line"}),
     M("run", {}, {}), Plain("step"), Plain("pause"), Plain("reset"), Plain("init"), Plain("load"),
     M("setBreakpoints", {1}, {}), M("setLineLocations", {0, 3}, {})}

=============================================================================
