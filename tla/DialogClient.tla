----------------------------- MODULE DialogClient -----------------------------
(***************************************************************************)
(* The robot's side of the dialogue: the Conversation state of the skill     *)
(* (flow thread) and the SocketClient it shares with two coroutines per      *)
(* request, a sender and a listener.  Every utterance of the user is a turn  *)
(* with a request, a connection, a sender and a listener of its own; the     *)
(* fields of SocketClient exist once and each coroutine uses whatever they   *)
(* hold at that moment.  Coroutines run on the threads of Dispatchers.IO:    *)
(* each read of a field, each assignment and each use of the channel is an   *)
(* action of its own.  Only a statement that reads a field and uses it at    *)
(* once is one action: to open a stream (OpenWriter, OpenReader) or to       *)
(* close what the field holds (CloseStream, CloseSocket).                    *)
(*                                                                           *)
(* reader.close() waits for a readLine in progress on the same reader: one   *)
(* more delay, which the interleaving contains already.                      *)
(***************************************************************************)
EXTENDS Naturals, Sequences

CONSTANT MaxTurns   \* bound on the utterances

ASSUME ClientAssumption == MaxTurns \in Nat \ {0}

Turns   == 1 .. MaxTurns
NoTurn  == 0
Kinds   == {"ai", "test", "error"}
NoRequest == [type |-> "ai", of |-> NoTurn]
NoReply   == [kind |-> "none", to |-> NoTurn, by |-> NoTurn]

(* A reply answers the utterance `to` and came over the connection `by`.     *)
Replies == [kind : Kinds, to : Turns \cup {NoTurn}, by : Turns]

VARIABLES
    flow,      \* where onResponse is
    turn,      \* the utterance it deals with
    channel,   \* answers delivered and not received, of this Conversation
    spoken,    \* the reply spoken in each turn, NoReply for repeat_request
    snd,       \* the sender of each turn
    payload,   \* the utterance at the end of the history its request tells
    out,       \* the writer its println takes
    lst,       \* the listener of each turn
    from,      \* the connection whose reader a listener took
    line,      \* what its readLine returned
    passes,    \* the calls of disconnect() it has left
    socket, writer, reader,  \* fields of SocketClient: connections
    connected, \* _isConnected
    message,   \* type and payload of the shared message object
    conn,      \* the server's side of each connection
    asked,     \* the request it received
    closed     \* the connections the client has closed

flowVars     == <<flow, turn, channel, spoken>>
senderVars   == <<snd, payload, out>>
listenerVars == <<lst, from, line, passes>>
fields       == <<socket, writer, reader>>
server       == <<conn, asked>>
vars == <<flowVars, senderVars, listenerVars, fields, connected, message, server,
          closed>>

Init ==
    /\ flow = "listening"
    /\ turn = NoTurn
    /\ channel = << >>
    /\ spoken = [n \in Turns |-> NoReply]
    /\ snd = [n \in Turns |-> "none"]
    /\ payload = [n \in Turns |-> NoTurn]
    /\ out = [n \in Turns |-> NoTurn]
    /\ lst = [n \in Turns |-> "none"]
    /\ from = [n \in Turns |-> NoTurn]
    /\ line = [n \in Turns |-> NoReply]
    /\ passes = [n \in Turns |-> 0]
    /\ socket = NoTurn
    /\ writer = NoTurn
    /\ reader = NoTurn
    /\ connected = FALSE
    /\ message = NoRequest
    /\ conn = [n \in Turns |-> "none"]
    /\ asked = [n \in Turns |-> NoRequest]
    /\ closed = {}

----------------------------------------------------------------------------
(* Conversation.onResponse                                                   *)

(* The user says something: the sender is launched, and channel.receive() is *)
(* called, which suspends unless an answer is in the channel already.        *)
Utterance ==
    /\ flow = "listening"
    /\ turn < MaxTurns
    /\ turn' = turn + 1
    /\ snd' = [snd EXCEPT ![turn + 1] = "connect"]
    /\ flow' = IF channel = << >> THEN "suspended" ELSE "receive"
    /\ UNCHANGED <<channel, spoken, payload, out, listenerVars, fields,
                   connected, message, server, closed>>

Speak(reply) ==
    /\ spoken' = [spoken EXCEPT ![turn] = reply]
    /\ flow' = "listening"

(* Slip: the answer stays in the channel.                                    *)
PeekAnswer ==
    /\ flow \in {"receive", "suspended", "receive_again", "suspended_again"}
    /\ channel # << >>
    /\ Speak(Head(channel))
    /\ UNCHANGED <<turn, channel, senderVars, listenerVars, fields, connected,
                   message, server, closed>>

(* The first receive() may wait three seconds, the second one, after the     *)
(* waiting sentence, two.                                                    *)
TakeAnswer ==
    /\ flow \in {"receive", "suspended", "receive_again", "suspended_again"}
    /\ channel # << >>
    /\ Speak(Head(channel))
    /\ channel' = Tail(channel)
    /\ UNCHANGED <<turn, senderVars, listenerVars, fields, connected, message,
                   server, closed>>

(* withTimeoutOrNull cancels the receive.  An answer that was handed to the  *)
(* suspended receive before it could resume is lost with it.                 *)
Timeout ==
    /\ channel' = IF channel = << >> THEN << >> ELSE Tail(channel)
    /\ \/ /\ flow = "suspended"
          /\ flow' = IF channel' = << >> THEN "suspended_again" ELSE "receive_again"
          /\ UNCHANGED spoken
       \/ /\ flow = "suspended_again"
          /\ Speak(NoReply)
    /\ UNCHANGED <<turn, senderVars, listenerVars, fields, connected, message,
                   server, closed>>

(* The users leave and others start a new Conversation: onEntry directs      *)
(* onMessageReceived to its own, empty channel.                              *)
NewConversation ==
    /\ flow = "listening"
    /\ channel' = << >>
    /\ UNCHANGED <<flow, turn, spoken, senderVars, listenerVars, fields,
                   connected, message, server, closed>>

----------------------------------------------------------------------------
(* The sender: connect(), startListening(), sendMessage().                   *)

SenderGoes(n, step) == snd' = [snd EXCEPT ![n] = step]

(* Socket(host, port)                                                        *)
Connect(n) ==
    /\ snd[n] = "connect"
    /\ socket' = n
    /\ conn' = [conn EXCEPT ![n] = "open"]
    /\ SenderGoes(n, "writer")
    /\ UNCHANGED <<flowVars, payload, out, listenerVars, writer, reader,
                   connected, message, asked, closed>>

ConnectFails(n) ==
    /\ snd[n] = "connect"
    /\ SenderGoes(n, "done")
    /\ UNCHANGED <<flowVars, payload, out, listenerVars, fields, connected,
                   message, server, closed>>

(* The streams of a socket that was closed meanwhile cannot be had.          *)
OpenFails(n) ==
    /\ snd[n] \in {"writer", "reader"}
    /\ socket \in closed
    /\ SenderGoes(n, "done")
    /\ UNCHANGED <<flowVars, payload, out, listenerVars, fields, connected,
                   message, server, closed>>

OpenWriter(n) ==
    /\ snd[n] = "writer"
    /\ socket \notin closed
    /\ writer' = socket
    /\ SenderGoes(n, "reader")
    /\ UNCHANGED <<flowVars, payload, out, listenerVars, socket, reader,
                   connected, message, server, closed>>

OpenReader(n) ==
    /\ snd[n] = "reader"
    /\ socket \notin closed
    /\ reader' = socket
    /\ SenderGoes(n, "connected")
    /\ UNCHANGED <<flowVars, payload, out, listenerVars, socket, writer,
                   connected, message, server, closed>>

(* connect() returns true and startListening() launches the listener.        *)
StartListening(n) ==
    /\ snd[n] = "connected"
    /\ connected' = TRUE
    /\ lst' = [lst EXCEPT ![n] = "start"]
    /\ SenderGoes(n, "history")
    /\ UNCHANGED <<flowVars, payload, out, from, line, passes, fields, message,
                   server, closed>>

(* The payload tells the history of the moment, which ends with the last     *)
(* utterance.                                                                *)
BuildPayload(n) ==
    /\ snd[n] = "history"
    /\ payload' = [payload EXCEPT ![n] = turn]
    /\ SenderGoes(n, "send")
    /\ UNCHANGED <<flowVars, out, listenerVars, fields, connected, message,
                   server, closed>>

(* sendMessage() gives up, or fills in the shared message object.            *)
NotConnected(n) ==
    /\ snd[n] = "send"
    /\ ~ connected
    /\ SenderGoes(n, "done")
    /\ payload' = [payload EXCEPT ![n] = NoTurn]
    /\ UNCHANGED <<flowVars, out, listenerVars, fields, connected, message,
                   server, closed>>

CheckConnected(n) ==
    /\ snd[n] = "send"
    /\ connected
    /\ SenderGoes(n, "payload")
    /\ UNCHANGED <<flowVars, payload, out, listenerVars, fields, connected,
                   message, server, closed>>

(* Slip: only an empty message is filled in.                                 *)
FillEmptyMessage(n) ==
    /\ snd[n] = "payload"
    /\ message' = IF message.of = NoTurn THEN [message EXCEPT !.of = payload[n]]
                                         ELSE message
    /\ payload' = [payload EXCEPT ![n] = NoTurn]
    /\ SenderGoes(n, "writer?")
    /\ UNCHANGED <<flowVars, out, listenerVars, fields, connected, server,
                   closed>>

FillMessage(n) ==
    /\ snd[n] = "payload"
    /\ message' = [message EXCEPT !.of = payload[n]]
    /\ payload' = [payload EXCEPT ![n] = NoTurn]
    /\ SenderGoes(n, "writer?")
    /\ UNCHANGED <<flowVars, out, listenerVars, fields, connected, server,
                   closed>>

(* writer?.println(message.toString()): the writer is taken before the       *)
(* message is.                                                               *)
TakeWriter(n) ==
    /\ snd[n] = "writer?"
    /\ out' = [out EXCEPT ![n] = writer]
    /\ SenderGoes(n, "print")
    /\ UNCHANGED <<flowVars, payload, listenerVars, fields, connected, message,
                   server, closed>>

(* The server takes the first line of a connection.  PrintWriter does not    *)
(* report that the connection is closed.                                     *)
PrintMessage(n) ==
    /\ snd[n] = "print"
    /\ IF out[n] \notin closed /\ conn[out[n]] = "open"
         THEN /\ conn' = [conn EXCEPT ![out[n]] = "asked"]
              /\ asked' = [asked EXCEPT ![out[n]] = message]
         ELSE UNCHANGED server
    /\ out' = [out EXCEPT ![n] = NoTurn]
    /\ SenderGoes(n, "done")
    /\ UNCHANGED <<flowVars, payload, listenerVars, fields, connected, message,
                   closed>>

----------------------------------------------------------------------------
(* The listener: readLine(), handleServerMessage(), disconnect().            *)

(* The locals of the listener go out of scope, and disconnect() is next.     *)
Disconnecting(n, times) ==
    /\ lst' = [lst EXCEPT ![n] = "flag"]
    /\ passes' = [passes EXCEPT ![n] = times]
    /\ from' = [from EXCEPT ![n] = NoTurn]
    /\ line' = [line EXCEPT ![n] = NoReply]

CheckListening(n) ==
    /\ lst[n] = "start"
    /\ connected
    /\ lst' = [lst EXCEPT ![n] = "listen"]
    /\ UNCHANGED <<flowVars, senderVars, from, line, passes, fields, connected,
                   message, server, closed>>

(* reader?.readLine() takes the reader of the moment.                        *)
Listen(n) ==
    /\ lst[n] = "listen"
    /\ lst' = [lst EXCEPT ![n] = "read"]
    /\ from' = [from EXCEPT ![n] = reader]
    /\ UNCHANGED <<flowVars, senderVars, line, passes, fields, connected,
                   message, server, closed>>

(* _isConnected is false already: only the finally block runs.               *)
ListenInVain(n) ==
    /\ lst[n] = "start"
    /\ ~ connected
    /\ Disconnecting(n, 1)
    /\ UNCHANGED <<flowVars, senderVars, fields, connected, message, server,
                   closed>>

ReadReply(n) ==
    /\ lst[n] = "read"
    /\ from[n] \notin closed
    /\ conn[from[n]] \in {"ai", "test", "error"}
    /\ line' = [line EXCEPT ![n] = [kind |-> conn[from[n]],
                                    to |-> asked[from[n]].of,
                                    by |-> from[n]]]
    /\ conn' = [conn EXCEPT ![from[n]] = "over"]
    /\ asked' = [asked EXCEPT ![from[n]] = NoRequest]
    /\ lst' = [lst EXCEPT ![n] = "handle"]
    /\ UNCHANGED <<flowVars, senderVars, from, passes, fields, connected,
                   message, closed>>

(* Slip: the listener waits for a line after the end of the stream.          *)
ReadNothingAgain(n) ==
    /\ lst[n] = "read"
    /\ from[n] \in closed
    /\ Disconnecting(n, 2)
    /\ UNCHANGED <<flowVars, senderVars, fields, connected, message, server,
                   closed>>

(* Slip: a listener without an answer does not disconnect.                   *)
ReadNothingAndLeave(n) ==
    /\ lst[n] = "read"
    /\ from[n] \in closed \/ conn[from[n]] = "over"
    /\ lst' = [lst EXCEPT ![n] = "done"]
    /\ UNCHANGED <<flowVars, senderVars, from, line, passes, fields, connected,
                   message, server, closed>>

(* readLine returns null at the end of the stream, or throws because the     *)
(* connection was closed; disconnect() is called, and again in the finally   *)
(* block.                                                                    *)
ReadNothing(n) ==
    /\ lst[n] = "read"
    /\ from[n] \in closed \/ conn[from[n]] = "over"
    /\ Disconnecting(n, 2)
    /\ UNCHANGED <<flowVars, senderVars, fields, connected, message, server,
                   closed>>

(* A canned answer replaces the message object by an empty test request,     *)
(* unless the listener found a test request there.                           *)
CheckMessage(n) ==
    /\ lst[n] = "handle"
    /\ line[n].kind = "test"
    /\ lst' = [lst EXCEPT ![n] =
                   IF message.type # "test" THEN "replace" ELSE "deliver"]
    /\ UNCHANGED <<flowVars, senderVars, from, line, passes, fields, connected,
                   message, server, closed>>

ReplaceMessage(n) ==
    /\ lst[n] = "replace"
    /\ message' = [type |-> "test", of |-> NoTurn]
    /\ lst' = [lst EXCEPT ![n] = "deliver"]
    /\ UNCHANGED <<flowVars, senderVars, from, line, passes, fields, connected,
                   server, closed>>

(* onMessageReceived puts an answer into the channel.                        *)
Deliver(n) ==
    /\ \/ lst[n] = "handle" /\ line[n].kind = "ai"
       \/ lst[n] = "deliver"
    /\ channel' = Append(channel, line[n])
    /\ Disconnecting(n, 2)
    /\ UNCHANGED <<flow, turn, spoken, senderVars, fields, connected, message,
                   server, closed>>

(* An error makes for one more call of disconnect().                         *)
HandleError(n) ==
    /\ lst[n] = "handle"
    /\ line[n].kind = "error"
    /\ Disconnecting(n, 3)
    /\ UNCHANGED <<flowVars, senderVars, fields, connected, message, server,
                   closed>>

(* disconnect(): _isConnected = false, then writer, reader and socket are    *)
(* closed, whichever they are by now.                                        *)
ClearFlag(n) ==
    /\ lst[n] = "flag"
    /\ connected' = FALSE
    /\ lst' = [lst EXCEPT ![n] = "writer"]
    /\ UNCHANGED <<flowVars, senderVars, from, line, passes, fields, message,
                   server, closed>>

Closing(connection) == closed' = closed \cup ({connection} \ {NoTurn})

CloseStream(n) ==
    /\ \/ /\ lst[n] = "writer"
          /\ Closing(writer)
          /\ lst' = [lst EXCEPT ![n] = "reader"]
       \/ /\ lst[n] = "reader"
          /\ Closing(reader)
          /\ lst' = [lst EXCEPT ![n] = "socket"]
    /\ UNCHANGED <<flowVars, senderVars, from, line, passes, fields, connected,
                   message, server>>

(* Slip: one call of disconnect() too many.                                  *)
CloseSocketOnceMore(n) ==
    /\ lst[n] = "socket"
    /\ Closing(socket)
    /\ passes' = [passes EXCEPT ![n] = @ - 1]
    /\ lst' = [lst EXCEPT ![n] = IF passes[n] > 0 THEN "flag" ELSE "done"]
    /\ UNCHANGED <<flowVars, senderVars, from, line, fields, connected,
                   message, server>>

CloseSocket(n) ==
    /\ lst[n] = "socket"
    /\ Closing(socket)
    /\ passes' = [passes EXCEPT ![n] = @ - 1]
    /\ lst' = [lst EXCEPT ![n] = IF passes[n] > 1 THEN "flag" ELSE "done"]
    /\ UNCHANGED <<flowVars, senderVars, from, line, fields, connected,
                   message, server>>

----------------------------------------------------------------------------
(* The server, as RequestHandler describes it: one reply of a kind its       *)
(* request allows, and the connection is closed; or no reply at all.         *)

KindsFor(request) ==
    CASE request.of = NoTurn -> {"error"}
      [] request.of # NoTurn /\ request.type = "test" -> {"test", "error"}
      [] OTHER -> Kinds

ServerReplies(c) ==
    /\ conn[c] = "asked"
    /\ \E kind \in KindsFor(asked[c]) : conn' = [conn EXCEPT ![c] = kind]
    /\ UNCHANGED <<flowVars, senderVars, listenerVars, fields, connected,
                   message, asked, closed>>

ServerCloses(c) ==
    /\ conn[c] \in {"open", "asked"}
    /\ conn' = [conn EXCEPT ![c] = "over"]
    /\ asked' = [asked EXCEPT ![c] = NoRequest]
    /\ UNCHANGED <<flowVars, senderVars, listenerVars, fields, connected,
                   message, closed>>

----------------------------------------------------------------------------

FlowStep == TakeAnswer \/ Timeout

SenderStep(n) ==
    \/ Connect(n) \/ ConnectFails(n) \/ OpenFails(n) \/ OpenWriter(n)
    \/ OpenReader(n) \/ StartListening(n) \/ BuildPayload(n) \/ NotConnected(n)
    \/ CheckConnected(n) \/ FillMessage(n) \/ TakeWriter(n) \/ PrintMessage(n)

ListenerStep(n) ==
    \/ CheckListening(n) \/ Listen(n) \/ ListenInVain(n) \/ ReadReply(n)
    \/ ReadNothing(n) \/ CheckMessage(n) \/ ReplaceMessage(n) \/ Deliver(n)
    \/ HandleError(n) \/ ClearFlag(n) \/ CloseStream(n) \/ CloseSocket(n)

ServerStep(c) == ServerReplies(c) \/ ServerCloses(c)

Next == \/ Utterance \/ FlowStep \/ NewConversation
        \/ \E n \in Turns : SenderStep(n) \/ ListenerStep(n) \/ ServerStep(n)

Spec == Init /\ [][Next]_vars

(* Timers fire, every coroutine gets a thread, and the server ends each      *)
(* connection (EndsUnlessFedCarriageReturns of RequestHandler; the client    *)
(* sends no carriage returns).                                               *)
FairSpec == /\ Spec
            /\ WF_vars(FlowStep)
            /\ \A n \in Turns : /\ WF_vars(SenderStep(n))
                                /\ WF_vars(ListenerStep(n))
                                /\ WF_vars(ServerStep(n))
----------------------------------------------------------------------------

TypeOK ==
    /\ flow \in {"listening", "receive", "suspended", "receive_again",
                 "suspended_again"}
    /\ turn \in Turns \cup {NoTurn}
    /\ channel \in Seq(Replies)
    /\ spoken \in [Turns -> Replies \cup {NoReply}]
    /\ snd \in [Turns -> {"none", "connect", "writer", "reader", "connected",
                          "history", "send", "payload", "writer?", "print", "done"}]
    /\ payload \in [Turns -> Turns \cup {NoTurn}]
    /\ out \in [Turns -> Turns \cup {NoTurn}]
    /\ lst \in [Turns -> {"none", "start", "listen", "read", "handle", "replace",
                          "deliver", "flag", "writer", "reader", "socket", "done"}]
    /\ from \in [Turns -> Turns \cup {NoTurn}]
    /\ line \in [Turns -> Replies \cup {NoReply}]
    /\ passes \in [Turns -> 0 .. 3]
    /\ {socket, writer, reader} \subseteq Turns \cup {NoTurn}
    /\ connected \in BOOLEAN
    /\ message \in [type : {"ai", "test"}, of : Turns \cup {NoTurn}]
    /\ conn \in [Turns -> {"none", "open", "asked", "over"} \cup Kinds]
    /\ asked \in [Turns -> [type : {"ai", "test"}, of : Turns \cup {NoTurn}]]
    /\ closed \subseteq Turns

(* No reply is spoken twice, whichever listener read it and however late     *)
(* (startListening, channel.receive).                                        *)
ReplySpokenOnce ==
    \A j, k \in Turns : j # k /\ spoken[j] # NoReply => spoken[j].by # spoken[k].by

(* As long as every utterance so far was answered in time, each answer       *)
(* belongs to its utterance: the shared fields, the shared message and the   *)
(* old listeners' disconnect() can lose an answer but not mix answers up.    *)
(* Only a turn that ended without an answer can shift them.                  *)
AnswersFitUnlessOneWasMissed ==
    \A k \in Turns :
        /\ spoken[k] # NoReply
        /\ \A j \in 1 .. k - 1 : spoken[j] # NoReply
        => spoken[k].to = k

Quiet == \A n \in Turns : snd[n] \in {"none", "done"} /\ lst[n] \in {"none", "done"}

(* When no coroutine is left the last connection is closed, whichever        *)
(* listener's disconnect() did it and wherever connect() failed.             *)
LastConnectionIsClosed == Quiet => socket \in closed \cup {NoTurn}

(* Every request comes to an end, and so does every turn: no coroutine is    *)
(* left in readLine() of a connection that another one reads or closes.      *)
RequestsEnd ==
    /\ \A n \in Turns :
           []<>(snd[n] \in {"none", "done"} /\ lst[n] \in {"none", "done"})
    /\ []<>(flow = "listening")

(* robot_dialog_documentation.md:53, "Ogni richiesta e' completamente        *)
(* autocontenuta", and Conversation.kt:108, "Aspetta la prima risposta con   *)
(* timeout": what the robot answers to an utterance is the answer to that    *)
(* utterance.                                                                *)
AnswerFitsUtterance ==
    \A k \in Turns : spoken[k] # NoReply => spoken[k].to = k
=============================================================================
