-------------------------- MODULE DebugConnectionProof --------------------------
(***************************************************************************)
(* Proofs about DebugConnection, for any number of clients and requests and *)
(* any capacity of the queue.                                               *)
(***************************************************************************)
EXTENDS DebugConnection, SequenceTheorems, FiniteSetTheorems, TLAPS

\* What the fields hold of each other: the handler has a request while it
\* answers, and the current connection was let in.
Admitted ==
    /\ thread \in {"check", "isOpen", "send"} => answering \in Request
    /\ currentConnection # Null =>
         socket[currentConnection] \in {"open", "closing", "removed", "closed"}

TypeInv == TypeOK /\ Admitted

\* No client is there at first.
LEMMA TypeInit == Init => TypeInv
<1> SUFFICES ASSUME Init PROVE TypeInv
  OBVIOUS
<1>1. <<>> \in Seq(Request) /\ <<>> \in Seq([to: Clients, request: Request]) /\ Len(<<>>) = 0
  OBVIOUS
<1>2. socket \in [Clients -> SocketState] /\ overlapped \in BOOLEAN
  BY DEF Init, SocketState
<1>3. Admitted
  BY DEF Init, Admitted
<1> QED
  BY <1>1, <1>2, <1>3, ConnectionAssumption DEF Init, TypeInv, TypeOK

\* A callback leaves a client that was let in, or none, as the current one.
LEMMA TypeStep == TypeInv /\ [Next]_vars => TypeInv'
<1> SUFFICES ASSUME TypeInv, [Next]_vars PROVE TypeInv'
  OBVIOUS
<1> USE DEF TypeInv, TypeOK, Admitted
<1>1. ASSUME NEW c \in Clients, Connect(c) PROVE TypeInv'
  BY <1>1 DEF Connect, SocketState
<1>2. ASSUME NEW c \in Clients, OnOpen(c) PROVE TypeInv'
  BY <1>2 DEF OnOpen, SocketState
<1>3. ASSUME NEW c \in Clients, ClientCloses(c) PROVE TypeInv'
  BY <1>3 DEF ClientCloses, SocketState
<1>4. ASSUME NEW c \in Clients, Remove(c) PROVE TypeInv'
  BY <1>4 DEF Remove, SocketState
<1>5. ASSUME NEW c \in Clients, OnClose(c) PROVE TypeInv'
  BY <1>5 DEF OnClose, SocketState
<1>6. ASSUME NEW c \in Clients, OnMessage(c) PROVE TypeInv'
  <2>1. [from |-> c, id |-> sent + 1] \in Request /\ sent' \in 0 .. MaxMessages
    BY <1>6, ConnectionAssumption DEF OnMessage, Request
  <2>2. messageQueue' \in Seq(Request) /\ Len(messageQueue') <= Capacity
    BY <1>6, <2>1, AppendProperties, ConnectionAssumption DEF OnMessage
  <2> QED
    BY <1>6, <2>1, <2>2 DEF OnMessage
<1>7. CASE Take
  <2>1. Head(messageQueue) \in Request /\ Tail(messageQueue) \in Seq(Request)
        /\ Len(Tail(messageQueue)) = Len(messageQueue) - 1
    BY <1>7, HeadTailProperties DEF Take
  <2>2. Len(messageQueue') <= Capacity
    BY <1>7, <2>1, LenProperties, ConnectionAssumption DEF Take
  <2> QED
    BY <1>7, <2>1, <2>2 DEF Take
<1>8. CASE CheckNull
  BY <1>8 DEF CheckNull
<1>9. CASE CheckOpen
  BY <1>9 DEF CheckOpen
<1>10. CASE Send
  <2>1. CASE currentConnection # Null /\ IsOpen(currentConnection)
    <3> DEFINE answers == [to: Clients, request: Request]
               answer == [to |-> currentConnection, request |-> answering]
    <3>1. answer \in answers /\ received \in Seq(answers) /\ received' = Append(received, answer)
      BY <1>10, <2>1 DEF Send
    <3>2. ASSUME NEW S, NEW s \in Seq(S), NEW e \in S PROVE Append(s, e) \in Seq(S)
      BY AppendProperties
    <3> HIDE DEF answers, answer
    <3>3. received' \in Seq(answers)
      BY <3>1, <3>2
    <3> QED
      BY <1>10, <2>1, <3>3 DEF Send, answers
  <2>2. CASE ~(currentConnection # Null /\ IsOpen(currentConnection))
    BY <1>10, <2>2 DEF Send
  <2> QED
    BY <2>1, <2>2
<1>11. CASE UNCHANGED vars
  BY <1>11 DEF vars
<1> QED
  BY <1>1, <1>2, <1>3, <1>4, <1>5, <1>6, <1>7, <1>8, <1>9, <1>10, <1>11
     DEF Next, Handler, SendMessage

\* Every field keeps its type, the queue its capacity (Server.java).
THEOREM TypeCorrect == Spec => []TypeOK
<1>1. TypeInv => TypeOK
  BY DEF TypeInv
<1> QED
  BY <1>1, TypeInit, TypeStep, PTL DEF Spec

--------------------------------------------------------------------------------
\* A client one of whose requests waits or is being answered.
Queued(c) == \E i \in 1 .. Len(messageQueue) : messageQueue[i].from = c
Asker(c) == Queued(c) \/ (answering # Null /\ answering.from = c)

\* One client is let in at a time; a client that asked was let in, and is gone from
\* the connections once another is.
OneOpen == \A c, d \in Clients : socket[c] = "open" /\ socket[d] = "open" => c = d
AskersCame == \A d \in Clients : Asker(d) => socket[d] \in {"open", "closing", "removed", "closed"}
AskersLeft ==
    \A c, d \in Clients : socket[c] = "open" /\ Asker(d) /\ d # c => socket[d] \in {"removed", "closed"}
HandOver == OneOpen /\ AskersCame /\ AskersLeft

\* A client that is let in is the only one among the connections.
LEMMA LetInAlone ==
    ASSUME TypeOK, NEW c \in Clients, socket[c] = "handshake", ~(Cardinality(Connections) > 1)
    PROVE  \A d \in Clients \ {c} : socket[d] \in {"none", "removed", "closed"}
<1>1. IsFiniteSet(Connections) /\ c \in Connections
  BY ConnectionAssumption, FS_Subset DEF Connections
<1>2. Cardinality(Connections) \in Nat
  BY <1>1, FS_CardinalityType
<1>3. Connections \ {c} = {}
  <2>1. IsFiniteSet(Connections \ {c}) /\ Cardinality(Connections \ {c}) = Cardinality(Connections) - 1
    BY <1>1, FS_RemoveElement
  <2>2. Cardinality(Connections \ {c}) = 0
    BY <1>2, <2>1, FS_CardinalityType
  <2> QED
    BY <2>1, <2>2, FS_EmptySet
<1> QED
  BY <1>3 DEF Connections, TypeOK, SocketState

\* Connections come and go without a client being let in beside another.
LEMMA HandOverStep == TypeInv /\ HandOver /\ [Next]_vars => HandOver'
<1> SUFFICES ASSUME TypeInv, HandOver, [Next]_vars PROVE HandOver'
  OBVIOUS
<1> USE DEF HandOver, OneOpen, AskersCame, AskersLeft
<1>1. TypeOK /\ socket \in [Clients -> SocketState] /\ messageQueue \in Seq(Request)
  BY DEF TypeInv, TypeOK
<1>2. ASSUME UNCHANGED <<messageQueue, answering>> PROVE \A d \in Clients : Asker(d)' = Asker(d)
  BY <1>2 DEF Asker, Queued
<1>3. ASSUME NEW c \in Clients, Connect(c) PROVE HandOver'
  BY <1>1, <1>2, <1>3 DEF Connect
<1>4. ASSUME NEW c \in Clients, OnOpen(c) PROVE HandOver'
  <2>1. CASE Cardinality(Connections) > 1
    BY <1>1, <1>2, <1>4, <2>1 DEF OnOpen
  <2>2. CASE ~(Cardinality(Connections) > 1)
    <3>1. \A d \in Clients \ {c} : socket[d] \in {"none", "removed", "closed"}
      BY <1>1, <1>4, <2>2, LetInAlone DEF OnOpen
    <3>2. socket' = [socket EXCEPT ![c] = "open"] /\ UNCHANGED <<messageQueue, answering>>
      BY <1>4, <2>2 DEF OnOpen
    <3> QED
      BY <1>1, <1>2, <3>1, <3>2
  <2> QED
    BY <2>1, <2>2
<1>5. ASSUME NEW c \in Clients, ClientCloses(c) PROVE HandOver'
  BY <1>1, <1>2, <1>5 DEF ClientCloses
<1>6. ASSUME NEW c \in Clients, Remove(c) PROVE HandOver'
  BY <1>1, <1>2, <1>6 DEF Remove
<1>7. ASSUME NEW c \in Clients, OnClose(c) PROVE HandOver'
  BY <1>1, <1>2, <1>7 DEF OnClose
<1>8. ASSUME NEW c \in Clients, OnMessage(c) PROVE HandOver'
  <2>1. socket[c] = "open" /\ UNCHANGED <<socket, answering>>
    BY <1>8 DEF OnMessage
  <2>2. \A d \in Clients : Asker(d)' => Asker(d) \/ d = c
    <3> DEFINE m == [from |-> c, id |-> sent + 1]
    <3>1. CASE messageQueue' = messageQueue
      BY <1>2, <2>1, <3>1
    <3>2. CASE messageQueue' = Append(messageQueue, m)
      <4>1. m.from = c
        OBVIOUS
      <4> HIDE DEF m
      <4>2. /\ Len(messageQueue') = Len(messageQueue) + 1 /\ Len(messageQueue) \in Nat
            /\ \A i \in 1 .. Len(messageQueue) : messageQueue'[i] = messageQueue[i]
            /\ messageQueue'[Len(messageQueue) + 1] = m
        BY <1>1, <3>2, LenProperties
      <4>3. \A i \in 1 .. Len(messageQueue') : i \in 1 .. Len(messageQueue) \/ i = Len(messageQueue) + 1
        BY <4>2
      <4> QED
        BY <2>1, <4>1, <4>2, <4>3 DEF Asker, Queued
    <3> QED
      BY <1>8, <3>1, <3>2 DEF OnMessage
  <2> QED
    BY <2>1, <2>2
<1>9. CASE Take
  <2>1. /\ messageQueue # <<>> /\ answering' = Head(messageQueue)
        /\ messageQueue' = Tail(messageQueue) /\ UNCHANGED socket
    BY <1>9 DEF Take
  <2>2. /\ Len(messageQueue) \in Nat \ {0} /\ answering' = messageQueue[1]
        /\ Len(messageQueue') = Len(messageQueue) - 1
        /\ \A i \in 1 .. Len(messageQueue') : messageQueue'[i] = messageQueue[i + 1]
    BY <1>1, <2>1, HeadTailProperties, EmptySeq, LenProperties
  <2>3. \A i \in 1 .. Len(messageQueue') : i + 1 \in 1 .. Len(messageQueue)
    BY <2>2
  <2>4. \A d \in Clients : Asker(d)' => Asker(d)
    BY <2>2, <2>3 DEF Asker, Queued
  <2> QED
    BY <2>1, <2>4
<1>10. CASE UNCHANGED <<socket, messageQueue, answering>>
  BY <1>2, <1>10
<1> QED
  BY <1>3, <1>4, <1>5, <1>6, <1>7, <1>8, <1>9, <1>10
     DEF Next, Handler, SendMessage, CheckNull, CheckOpen, Send, vars

\* An answer goes to the client that asked or to its successor, never past a client
\* that is still connected (onOpen, onClose, sendMessage).
THEOREM AnswersStayWithTheirClient == Spec => AnswerToAskerOrSuccessor
<1>1. Init => HandOver
  <2> SUFFICES ASSUME Init PROVE HandOver
    OBVIOUS
  <2>1. \A c \in Clients : socket[c] = "none" /\ ~Asker(c)
    BY DEF Init, Asker, Queued
  <2> QED
    BY <2>1 DEF HandOver, OneOpen, AskersCame, AskersLeft
<1>2. ASSUME TypeInv, HandOver, Next, NEW c \in Clients,
             received' = Append(received, [to |-> c, request |-> answering])
      PROVE  answering.from = c \/ socket[answering.from] \in {"removed", "closed"}
  <2>1. received' # received
    BY <1>2, AppendProperties DEF TypeInv, TypeOK
  <2>2. Send
    BY <1>2, <2>1 DEF Next, Connect, OnOpen, ClientCloses, OnMessage, Remove, OnClose,
                      Handler, Take, SendMessage, CheckNull, CheckOpen
  <2>3. /\ currentConnection # Null /\ IsOpen(currentConnection)
        /\ received' = Append(received, [to |-> currentConnection, request |-> answering])
    BY <2>1, <2>2 DEF Send
  <2>4. [to |-> c, request |-> answering] = [to |-> currentConnection, request |-> answering]
    <3> DEFINE x == [to |-> c, request |-> answering]
               y == [to |-> currentConnection, request |-> answering]
    <3>1. Append(received, x) = Append(received, y)
      BY <1>2, <2>3
    <3> HIDE DEF x, y
    <3>2. Append(received, x)[Len(received) + 1] = x /\ Append(received, y)[Len(received) + 1] = y
      BY <1>2, LenProperties DEF TypeInv, TypeOK
    <3> QED
      BY <3>1, <3>2 DEF x, y
  <2>5. c = currentConnection
    BY <2>4
  <2>6. socket[c] = "open"
    BY <1>2, <2>3, <2>5 DEF IsOpen, TypeInv, Admitted
  <2>7. answering \in Request /\ answering # Null
    BY <1>2, <2>2, ConnectionAssumption DEF Send, TypeInv, Admitted
  <2>8. answering.from \in Clients /\ Asker(answering.from)
    BY <2>7 DEF Request, Asker
  <2> QED
    BY <1>2, <2>6, <2>8 DEF HandOver, AskersLeft
<1>3. TypeInv /\ HandOver /\ [Next]_vars
        => [\A c \in Clients : received' = Append(received, [to |-> c, request |-> answering])
              => answering.from = c \/ socket[answering.from] \in {"removed", "closed"}]_vars
  BY <1>2
<1> QED
  BY <1>1, <1>3, TypeInit, TypeStep, HandOverStep, PTL DEF Spec, AnswerToAskerOrSuccessor

--------------------------------------------------------------------------------
\* Clients that do not overlap are never more than one, and the one that is open
\* is the current one.
Live(c) == socket[c] \notin {"none", "closed"}
OneLive == ~overlapped => \A c, d \in Clients : Live(c) /\ Live(d) => c = d
SoleInv == OneLive /\ OpenIsCurrent

\* Clients that do not overlap come one after the other.
LEMMA SoleStep == TypeInv /\ SoleInv /\ [Next]_vars => SoleInv'
<1> SUFFICES ASSUME TypeInv, SoleInv, [Next]_vars
             PROVE  OneLive' /\ OpenIsCurrent'
  BY DEF SoleInv
<1> USE DEF SoleInv, OneLive, Live, OpenIsCurrent, TypeInv, TypeOK
<1>1. ASSUME NEW c \in Clients, Connect(c) PROVE OneLive' /\ OpenIsCurrent'
  BY <1>1 DEF Connect
<1>2. ASSUME NEW c \in Clients, OnOpen(c) PROVE OneLive' /\ OpenIsCurrent'
  BY <1>2 DEF OnOpen
<1>3. ASSUME NEW c \in Clients, ClientCloses(c) \/ Remove(c) PROVE OneLive' /\ OpenIsCurrent'
  BY <1>3 DEF ClientCloses, Remove
<1>4. ASSUME NEW c \in Clients, OnClose(c) PROVE OneLive' /\ OpenIsCurrent'
  BY <1>4 DEF OnClose
<1>5. CASE UNCHANGED <<socket, currentConnection, overlapped>>
  BY <1>5
<1> QED
  BY <1>1, <1>2, <1>3, <1>4, <1>5
     DEF Next, Handler, Take, SendMessage, CheckNull, CheckOpen, Send, OnMessage, vars

\* Until clients overlap, the one that is open is the current one (onOpen, onClose).
THEOREM SoleClientIsCurrent == Spec => []OpenIsCurrent
<1>1. Init => SoleInv
  BY DEF Init, SoleInv, OneLive, Live, OpenIsCurrent
<1>2. SoleInv => OpenIsCurrent
  BY DEF SoleInv
<1> QED
  BY <1>1, <1>2, TypeInit, TypeStep, SoleStep, PTL DEF Spec

--------------------------------------------------------------------------------
\* Numbers that grow along a sequence of n still do when a larger one is added.
LEMMA StillGrows ==
    ASSUME NEW n \in Nat, NEW f, NEW g, NEW top \in Int,
           \A i \in 1 .. n : f[i] \in Int /\ f[i] < top /\ g[i] = f[i],
           g[n + 1] = top,
           \A i, j \in 1 .. n : i < j => f[i] < f[j]
    PROVE  \A i, j \in 1 .. n + 1 : i < j => g[i] < g[j]
<1> SUFFICES ASSUME NEW i \in 1 .. n + 1, NEW j \in 1 .. n + 1, i < j PROVE g[i] < g[j]
  OBVIOUS
<1>1. i \in 1 .. n /\ (j \in 1 .. n \/ j = n + 1)
  OBVIOUS
<1>2. CASE j \in 1 .. n
  BY <1>1, <1>2
<1>3. CASE j = n + 1
  BY <1>1, <1>3
<1> QED
  BY <1>1, <1>2, <1>3

\* The numbers of the requests grow along the queue, after the one that is being
\* answered, which comes after those that were answered.
Busy == thread \in {"check", "isOpen", "send"}
QueueGrows ==
    /\ \A i, j \in 1 .. Len(messageQueue) : i < j => messageQueue[i].id < messageQueue[j].id
    /\ \A i \in 1 .. Len(messageQueue) : messageQueue[i].id <= sent
AnswerBeforeQueue ==
    answering \in Request =>
        /\ answering.id <= sent
        /\ \A i \in 1 .. Len(messageQueue) : answering.id < messageQueue[i].id
AnswersGrow ==
    /\ \A i, j \in 1 .. Len(received) : i < j => received[i].request.id < received[j].request.id
    /\ \A i \in 1 .. Len(received) :
         /\ answering \in Request /\ received[i].request.id <= answering.id
         /\ Busy => received[i].request.id < answering.id
OrderInv == QueueGrows /\ AnswerBeforeQueue /\ AnswersGrow

\* Requests are queued, taken and answered in the order of their numbers.
LEMMA OrderStep == TypeInv /\ OrderInv /\ [Next]_vars => OrderInv'
<1> SUFFICES ASSUME TypeInv, OrderInv, [Next]_vars PROVE OrderInv'
  OBVIOUS
<1>1. /\ messageQueue \in Seq(Request) /\ sent \in Nat
      /\ \A i \in 1 .. Len(messageQueue) : messageQueue[i].id \in Int
  <2>1. \A i \in 1 .. Len(messageQueue) : messageQueue[i] \in Request
    BY ElementOfSeq DEF TypeInv, TypeOK
  <2> QED
    BY <2>1, ConnectionAssumption DEF TypeInv, TypeOK, Request
<1>2. /\ Len(received) \in Nat
      /\ \A i \in 1 .. Len(received) : received[i].request.id \in Int
  <2>1. \A i \in 1 .. Len(received) : received[i] \in [to: Clients, request: Request]
    BY ElementOfSeq DEF TypeInv, TypeOK
  <2> QED
    BY <2>1, LenProperties, ConnectionAssumption DEF TypeInv, TypeOK, Request
<1>3. answering \in Request => answering.id \in Int
  BY ConnectionAssumption DEF Request
<1> USE DEF OrderInv
<1>4. ASSUME NEW c \in Clients, OnMessage(c) PROVE OrderInv'
  <2> DEFINE m == [from |-> c, id |-> sent + 1]
  <2>1. sent' = sent + 1 /\ UNCHANGED <<thread, answering, received>>
    BY <1>4 DEF OnMessage
  <2>2. AnswersGrow'
    BY <2>1 DEF AnswersGrow, Busy
  <2>3. CASE messageQueue' = messageQueue
    BY <1>1, <1>3, <2>1, <2>2, <2>3 DEF QueueGrows, AnswerBeforeQueue
  <2>4. CASE messageQueue' = Append(messageQueue, m)
    <3>1. m \in Request
      BY <1>4, ConnectionAssumption DEF OnMessage, Request, TypeInv, TypeOK
    <3>2. /\ Len(messageQueue') = Len(messageQueue) + 1 /\ Len(messageQueue) \in Nat
          /\ \A i \in 1 .. Len(messageQueue) : messageQueue'[i] = messageQueue[i]
          /\ messageQueue'[Len(messageQueue) + 1] = m
      BY <1>1, <2>4, <3>1, AppendProperties, LenProperties
    <3>3. m.id = sent + 1
      OBVIOUS
    <3> HIDE DEF m
    <3>4. QueueGrows'
      <4> DEFINE n == Len(messageQueue)
                 f == [i \in 1 .. n |-> messageQueue[i].id]
                 g == [i \in 1 .. n + 1 |-> messageQueue'[i].id]
      <4>1. \A i \in 1 .. n : f[i] \in Int /\ f[i] < sent + 1 /\ g[i] = f[i]
        BY <1>1, <3>2 DEF QueueGrows
      <4>2. g[n + 1] = sent + 1 /\ n \in Nat /\ sent + 1 \in Int
        BY <1>1, <3>2, <3>3
      <4>3. \A i, j \in 1 .. n : i < j => f[i] < f[j]
        BY DEF QueueGrows
      <4>4. \A i \in 1 .. n + 1 : i \in 1 .. n \/ i = n + 1
        BY <4>2
      <4> HIDE DEF f, g
      <4>5. \A i, j \in 1 .. n + 1 : i < j => g[i] < g[j]
        BY <4>1, <4>2, <4>3, StillGrows
      <4>6. \A i \in 1 .. n + 1 : g[i] <= sent + 1
        BY <1>1, <4>1, <4>2, <4>4
      <4> QED
        BY <2>1, <3>2, <4>5, <4>6 DEF QueueGrows, g
    <3>5. AnswerBeforeQueue'
      BY <1>1, <1>3, <2>1, <3>2, <3>3 DEF AnswerBeforeQueue
    <3> QED
      BY <2>2, <3>4, <3>5
  <2> QED
    BY <1>4, <2>3, <2>4 DEF OnMessage
<1>5. CASE Take
  <2>1. /\ messageQueue # <<>> /\ answering' = Head(messageQueue)
        /\ messageQueue' = Tail(messageQueue) /\ UNCHANGED <<sent, received>>
    BY <1>5 DEF Take
  <2>2. /\ answering' = messageQueue[1] /\ answering' \in Request /\ Len(messageQueue) \in Nat \ {0}
        /\ Len(messageQueue') = Len(messageQueue) - 1
        /\ \A i \in 1 .. Len(messageQueue') : messageQueue'[i] = messageQueue[i + 1]
    BY <1>1, <2>1, HeadTailProperties, EmptySeq, LenProperties
  <2>3. QueueGrows'
    BY <1>1, <2>1, <2>2 DEF QueueGrows
  <2>4. AnswerBeforeQueue'
    BY <1>1, <2>1, <2>2 DEF QueueGrows, AnswerBeforeQueue
  <2>5. \A i \in 1 .. Len(received) : received[i].request.id < answering'.id
    BY <1>1, <1>2, <1>3, <2>2 DEF AnswersGrow, AnswerBeforeQueue
  <2>6. answering'.id \in Int
    BY <1>1, <2>2
  <2>7. AnswersGrow'
    BY <1>2, <2>1, <2>2, <2>5, <2>6 DEF AnswersGrow
  <2> QED
    BY <2>3, <2>4, <2>7
<1>6. CASE Send
  <2> DEFINE answer == [to |-> currentConnection, request |-> answering]
  <2>1. Busy /\ ~Busy' /\ UNCHANGED <<sent, answering, messageQueue>> /\ answering \in Request
    BY <1>6 DEF Send, Busy, TypeInv, Admitted
  <2>2. QueueGrows' /\ AnswerBeforeQueue'
    BY <2>1 DEF QueueGrows, AnswerBeforeQueue
  <2>3. CASE received' = received
    BY <2>1, <2>2, <2>3 DEF AnswersGrow
  <2>4. CASE received' = Append(received, answer)
    <3>1. /\ Len(received') = Len(received) + 1
          /\ \A i \in 1 .. Len(received) : received'[i] = received[i]
          /\ received'[Len(received) + 1] = answer
      BY <2>4, LenProperties DEF TypeInv, TypeOK
    <3>2. answer.request = answering
      OBVIOUS
    <3> HIDE DEF answer
    <3>3. AnswersGrow'
      <4> DEFINE n == Len(received)
                 f == [i \in 1 .. n |-> received[i].request.id]
                 g == [i \in 1 .. n + 1 |-> received'[i].request.id]
      <4>1. \A i \in 1 .. n : f[i] \in Int /\ f[i] < answering.id /\ g[i] = f[i]
        BY <1>2, <2>1, <3>1 DEF AnswersGrow
      <4>2. g[n + 1] = answering.id /\ n \in Nat /\ answering.id \in Int
        BY <1>2, <1>3, <2>1, <3>1, <3>2
      <4>3. \A i, j \in 1 .. n : i < j => f[i] < f[j]
        BY DEF AnswersGrow
      <4>4. \A i \in 1 .. n + 1 : i \in 1 .. n \/ i = n + 1
        BY <4>2
      <4> HIDE DEF f, g
      <4>5. \A i, j \in 1 .. n + 1 : i < j => g[i] < g[j]
        BY <4>1, <4>2, <4>3, StillGrows
      <4>6. \A i \in 1 .. n + 1 : g[i] <= answering.id
        BY <4>1, <4>2, <4>4
      <4> QED
        BY <2>1, <3>1, <4>5, <4>6 DEF AnswersGrow, g
    <3> QED
      BY <2>2, <3>3
  <2> QED
    BY <1>6, <2>3, <2>4 DEF Send
<1>7. CASE CheckNull \/ CheckOpen
  BY <1>7 DEF CheckNull, CheckOpen, QueueGrows, AnswerBeforeQueue, AnswersGrow, Busy
<1>8. CASE UNCHANGED <<messageQueue, sent, thread, answering, received>>
  BY <1>8 DEF QueueGrows, AnswerBeforeQueue, AnswersGrow, Busy
<1> QED
  BY <1>4, <1>5, <1>6, <1>7, <1>8
     DEF Next, Handler, SendMessage, Connect, OnOpen, ClientCloses, Remove, OnClose, vars

\* Answers are in the order of the requests (messageQueue, sendMessage).
THEOREM AnswersInOrder == Spec => []AnsweredInOrder
<1>1. Init => OrderInv
  BY ConnectionAssumption DEF Init, OrderInv, QueueGrows, AnswerBeforeQueue, AnswersGrow
<1>2. TypeInv /\ OrderInv => AnsweredInOrder
  <2> SUFFICES ASSUME TypeInv, OrderInv PROVE AnsweredInOrder
    OBVIOUS
  <2>1. DOMAIN received = 1 .. Len(received)
    BY LenProperties DEF TypeInv, TypeOK
  <2> QED
    BY <2>1 DEF OrderInv, AnswersGrow, AnsweredInOrder
<1> QED
  BY <1>1, <1>2, TypeInit, TypeStep, OrderStep, PTL DEF Spec

================================================================================
