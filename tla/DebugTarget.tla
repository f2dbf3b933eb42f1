------------------------------ MODULE DebugTarget ------------------------------
(***************************************************************************)
(* What a debug target promises its client: requests are served one by one  *)
(* in the order they were accepted, each is answered once, and a request    *)
(* that starts the program keeps the target busy until one stop event,      *)
(* which precedes its own response.  Meanwhile other requests are answered, *)
(* and a PAUSE is followed by the stop event before anything else.          *)
(*                                                                          *)
(* Abstracted from CdmDebugRuntime's use of a target (src/vscode-cdm-       *)
(* extension/src/debug/runtime/index.ts) and MessageHandler.handleMessage   *)
(* (src/cdp-java); EmuServer implements it.                                 *)
(***************************************************************************)
EXTENDS Sequences

CONSTANTS
    Requests,       \* the requests, records with the fields action and conds
    Starting,       \* actions that start the program
    Conds,          \* the stop conditions a request asks for
    Null            \* no request

VARIABLES
    requests,       \* accepted and not taken
    replies,        \* all that was sent to the client, in order
    current,        \* the request that started the program, Null at rest
    pausing,        \* a PAUSE was answered and the stop event is due
    gone            \* the target has stopped serving

vars == <<requests, replies, current, pausing, gone>>

Response(m) == [kind |-> "response", of |-> m.action]
Event(reason) == [kind |-> "event", of |-> reason]

Init ==
    /\ requests = <<>> /\ replies = <<>>
    /\ current = Null /\ pausing = FALSE /\ gone = FALSE

Accept(m) ==
    /\ requests' = Append(requests, m)
    /\ UNCHANGED <<replies, current, pausing, gone>>

Take == ~gone /\ requests # <<>> /\ ~pausing /\ requests' = Tail(requests)

\* A request that does not start the program, or comes while it runs.
Reply ==
    /\ Take
    /\ Head(requests).action \in Starting => current # Null
    /\ replies' = Append(replies, Response(Head(requests)))
    /\ pausing' = (current # Null /\ Head(requests).action = "pause")
    /\ UNCHANGED <<current, gone>>

Begin ==
    /\ Take
    /\ current = Null /\ Head(requests).action \in Starting
    /\ current' = Head(requests)
    /\ UNCHANGED <<replies, pausing, gone>>

\* The one stop event of a run: "pause" exactly when it was paused, otherwise a
\* condition it asked for or "halt".
Stop(reason) ==
    /\ ~gone /\ current # Null
    /\ IF pausing THEN reason = "pause" ELSE reason \in Conds[current] \cup {"halt"}
    /\ replies' = replies \o <<Event(reason), Response(current)>>
    /\ current' = Null /\ pausing' = FALSE
    /\ UNCHANGED <<requests, gone>>

\* The target goes away, with the request it could not serve.
Leave ==
    /\ ~gone /\ gone' = TRUE /\ current = Null
    /\ requests' \in {requests} \cup (IF requests = <<>> THEN {} ELSE {Tail(requests)})
    /\ UNCHANGED <<replies, current, pausing>>

Reasons == {"pause", "halt"} \cup UNION {Conds[m] : m \in {r \in Requests : r.action \in Starting}}

Next ==
    \/ \E m \in Requests : Accept(m)
    \/ Reply \/ Begin \/ Leave
    \/ \E reason \in Reasons : Stop(reason)

\* A request is served sooner or later, unless the target goes away, and a PAUSE
\* ends the run it finds.
Fairness ==
    /\ WF_vars(Reply \/ Begin)
    /\ WF_vars(pausing /\ \E reason \in Reasons : Stop(reason))

Spec == Init /\ [][Next]_vars /\ Fairness

================================================================================
