---------------------------- MODULE DebugConnection ----------------------------
(***************************************************************************)
(* The connections of the debug server (cdp-java, Server.java).             *)
(*                                                                          *)
(* The WebSocket library runs the callbacks onOpen, onMessage and onClose   *)
(* on its worker threads, those of one connection in order, those of two    *)
(* connections in any order.  The message handler thread answers through    *)
(* sendMessage, which reads the field currentConnection three times.        *)
(***************************************************************************)
EXTENDS Integers, Sequences, FiniteSets

CONSTANTS
    Clients,        \* debug sessions, each with one connection
    MaxMessages,    \* bound: requests sent by all of them
    Capacity,       \* QUEUE_INITIAL_CAPACITY
    Null            \* Java's null

Request == [from: Clients, id: 1 .. MaxMessages]

ASSUME ConnectionAssumption ==
    /\ Null \notin Clients \cup Request
    /\ IsFiniteSet(Clients)
    /\ MaxMessages \in Nat /\ Capacity \in Nat \ {0}

VARIABLES
    socket,             \* the connection of every client, as the library sees it
    currentConnection,
    messageQueue,       \* requests, with the client that sent each
    sent,               \* requests sent so far
    thread,             \* where the handler thread is
    answering,          \* the request it answers
    received,           \* the answers, in the order they were sent
    overlapped          \* history: a client connected before the last was forgotten

vars == <<socket, currentConnection, messageQueue, sent, thread, answering, received, overlapped>>

\* "removed": no longer among the connections, its onClose not yet called.
SocketState == {"none", "handshake", "open", "closing", "removed", "closed"}

\* WebSocketServer.getConnections
Connections == {c \in Clients : socket[c] \in {"handshake", "open", "closing"}}

\* WebSocket.isOpen
IsOpen(c) == socket[c] \in {"handshake", "open"}

Init ==
    /\ socket = [c \in Clients |-> "none"] /\ currentConnection = Null
    /\ messageQueue = <<>> /\ sent = 0
    /\ thread = "take" /\ answering = Null /\ received = <<>> /\ overlapped = FALSE

--------------------------------------------------------------------------------
(* The connections.                                                            *)

\* The library adds a connection before it calls onOpen.
Connect(c) ==
    /\ socket[c] = "none"
    /\ socket' = [socket EXCEPT ![c] = "handshake"]
    /\ overlapped' = (overlapped \/ \E d \in Clients : socket[d] \notin {"none", "closed"})
    /\ UNCHANGED <<currentConnection, messageQueue, sent, thread, answering, received>>

\* Mutant: a connection that is let in is not remembered.
OnOpenForgotten(c) ==
    /\ socket[c] = "handshake"
    /\ socket' = [socket EXCEPT ![c] = IF Cardinality(Connections) > 1 THEN "closing" ELSE "open"]
    /\ UNCHANGED <<currentConnection, messageQueue, sent, thread, answering, received, overlapped>>

\* Mutant: the new connection is not counted.
OnOpenUncounted(c) ==
    /\ socket[c] = "handshake" /\ Cardinality(Connections) > 0
    /\ socket' = [socket EXCEPT ![c] = "closing"]
    /\ UNCHANGED <<currentConnection, messageQueue, sent, thread, answering, received, overlapped>>

\* Mutant: a client is refused for the current one, not for a connection that is there.
OnOpenCurrent(c) ==
    /\ socket[c] = "handshake"
    /\ IF currentConnection # Null
       THEN socket' = [socket EXCEPT ![c] = "closing"] /\ UNCHANGED currentConnection
       ELSE socket' = [socket EXCEPT ![c] = "open"] /\ currentConnection' = c
    /\ UNCHANGED <<messageQueue, sent, thread, answering, received, overlapped>>

\* A second connection is closed at once.
OnOpen(c) ==
    /\ socket[c] = "handshake"
    /\ IF Cardinality(Connections) > 1
       THEN socket' = [socket EXCEPT ![c] = "closing"] /\ UNCHANGED currentConnection
       ELSE socket' = [socket EXCEPT ![c] = "open"] /\ currentConnection' = c
    /\ UNCHANGED <<messageQueue, sent, thread, answering, received, overlapped>>

\* The client closes its connection, or is lost.
ClientCloses(c) ==
    /\ socket[c] = "open" /\ socket' = [socket EXCEPT ![c] = "closing"]
    /\ UNCHANGED <<currentConnection, messageQueue, sent, thread, answering, received, overlapped>>

\* The library removes a connection before it calls onClose.
Remove(c) ==
    /\ socket[c] = "closing" /\ socket' = [socket EXCEPT ![c] = "removed"]
    /\ UNCHANGED <<currentConnection, messageQueue, sent, thread, answering, received, overlapped>>

\* Whichever connection was closed.
OnClose(c) ==
    /\ socket[c] = "removed" /\ socket' = [socket EXCEPT ![c] = "closed"]
    /\ currentConnection' = Null
    /\ UNCHANGED <<messageQueue, sent, thread, answering, received, overlapped>>

\* Mutant: the queue has no capacity.
OnMessageUnbounded(c) ==
    /\ socket[c] = "open" /\ sent < MaxMessages /\ sent' = sent + 1
    /\ messageQueue' = Append(messageQueue, [from |-> c, id |-> sent + 1])
    /\ UNCHANGED <<socket, currentConnection, thread, answering, received, overlapped>>

\* add throws when the queue is full, and the library reports and drops it.
OnMessage(c) ==
    /\ socket[c] = "open" /\ sent < MaxMessages /\ sent' = sent + 1
    /\ messageQueue' = IF Len(messageQueue) < Capacity
                       THEN Append(messageQueue, [from |-> c, id |-> sent + 1])
                       ELSE messageQueue
    /\ UNCHANGED <<socket, currentConnection, thread, answering, received, overlapped>>

--------------------------------------------------------------------------------
(* The handler thread, one request and one answer at a time.                   *)

\* Mutant: a request is peeked at, and taken again for its second answer.
TakePeeked ==
    /\ thread = "take" /\ messageQueue # <<>>
    /\ answering' = Head(messageQueue) /\ thread' = "check"
    /\ \E n \in {0, 1} : messageQueue' = IF n = 0 THEN messageQueue ELSE Tail(messageQueue)
    /\ UNCHANGED <<socket, currentConnection, sent, received, overlapped>>

Take ==
    /\ thread = "take" /\ messageQueue # <<>>
    /\ answering' = Head(messageQueue) /\ messageQueue' = Tail(messageQueue)
    /\ thread' = "check"
    /\ UNCHANGED <<socket, currentConnection, sent, received, overlapped>>

\* currentConnection != null
CheckNull ==
    /\ thread = "check"
    /\ thread' = IF currentConnection = Null THEN "take" ELSE "isOpen"
    /\ UNCHANGED <<socket, currentConnection, messageQueue, sent, answering, received, overlapped>>

\* currentConnection.isOpen(), which throws on null
CheckOpen ==
    /\ thread = "isOpen"
    /\ thread' = IF currentConnection = Null THEN "dead"
                 ELSE IF IsOpen(currentConnection) THEN "send" ELSE "take"
    /\ UNCHANGED <<socket, currentConnection, messageQueue, sent, answering, received, overlapped>>

\* currentConnection.send(message), which throws on null and on a closed one
Send ==
    /\ thread = "send"
    /\ IF currentConnection # Null /\ IsOpen(currentConnection)
       THEN /\ thread' = "take"
            /\ received' = Append(received, [to |-> currentConnection, request |-> answering])
       ELSE thread' = "dead" /\ UNCHANGED received
    /\ UNCHANGED <<socket, currentConnection, messageQueue, sent, answering, overlapped>>

SendMessage == CheckNull \/ CheckOpen \/ Send
Handler == Take \/ SendMessage

Next ==
    \/ \E c \in Clients : Connect(c) \/ OnOpen(c) \/ ClientCloses(c) \/ OnMessage(c)
    \/ \E c \in Clients : Remove(c) \/ OnClose(c)
    \/ Handler

Spec == Init /\ [][Next]_vars

\* The threads of the library and of the handler run; clients owe nothing.
FairSpec == Spec /\ WF_vars(Handler)
                 /\ \A c \in Clients : WF_vars(OnOpen(c) \/ Remove(c) \/ OnClose(c))

--------------------------------------------------------------------------------
(* Properties.                                                                 *)

\* The types of the fields of Server and of what it holds.
TypeOK ==
    /\ socket \in [Clients -> SocketState] /\ currentConnection \in Clients \cup {Null}
    /\ messageQueue \in Seq(Request) /\ Len(messageQueue) <= Capacity
    /\ sent \in 0 .. MaxMessages
    /\ thread \in {"take", "check", "isOpen", "send", "dead"}
    /\ answering \in Request \cup {Null}
    /\ received \in Seq([to: Clients, request: Request]) /\ overlapped \in BOOLEAN

\* Answers go out in the order of the requests and each at most once, over all
\* clients and whatever was dropped between (messageQueue, sendMessage).
AnsweredInOrder ==
    \A i, j \in DOMAIN received : i < j => received[i].request.id < received[j].request.id

\* An answer goes to the client that asked, or to a later one let in when the
\* asker's connection had been removed: never past a client that is still there,
\* whatever clients come, are refused and leave meanwhile (onOpen, onClose,
\* sendMessage).  The request of a client that left is answered to the next one.
AnswerToAskerOrSuccessor ==
    [][\A c \in Clients : received' = Append(received, [to |-> c, request |-> answering])
          => answering.from = c \/ socket[answering.from] \in {"removed", "closed"}]_vars

\* As long as each client comes when the last is forgotten, the one that is open
\* is the one that is answered (onOpen, onClose).  Refusing an early client ends
\* that: its onClose clears the connection of the other.
OpenIsCurrent ==
    ~overlapped => \A c \in Clients : socket[c] = "open" => currentConnection = c

\* Such a client, once connected, is let in; and the answer to a request that was
\* enqueued reaches it, unless it leaves or the handler thread is gone.
Served ==
    /\ \A c \in Clients : socket[c] = "handshake" ~> (socket[c] = "open" \/ overlapped)
    /\ \A c \in Clients, n \in 1 .. MaxMessages :
         (\E i \in DOMAIN messageQueue : messageQueue[i] = [from |-> c, id |-> n])
           ~> (\/ socket[c] # "open" \/ thread = "dead" \/ overlapped
               \/ \E i \in DOMAIN received :
                    received[i] = [to |-> c, request |-> [from |-> c, id |-> n]])

\* docs/guides/7-using-cli.md:116, the server "listens to incoming connections from
\* debug clients": one that leaves does not take the handler with it.
HandlerOutlivesClients == thread # "dead"

================================================================================
