-------------------------- MODULE DialogClientProofs --------------------------
(***************************************************************************)
(* Proofs about the robot's side of the dialogue, for any number of          *)
(* utterances.  The hard one is that answers fit: it needs that a turn with  *)
(* no gap before it finds every older sender gone and every older connection *)
(* over, and that in turn needs that an answer is in one place only.         *)
(***************************************************************************)
EXTENDS DialogClient, SequenceTheorems, TLAPS

(* Steps of a sender after Socket(host, port), after getOutputStream and     *)
(* after getInputStream; of a listener with a line, and in disconnect().     *)
HasSocket == {"writer", "reader", "connected", "history", "send", "payload",
              "writer?", "print"}
HasWriter == HasSocket \ {"writer"}
HasReader == HasWriter \ {"reader"}
HasLine   == {"handle", "replace", "deliver"}
Leaving   == {"flag", "writer", "reader", "socket"}

(* A coroutine that uses a field finds one there.                            *)
FieldsAreSet ==
    \A n \in Turns :
        /\ snd[n] \in HasSocket => socket # NoTurn
        /\ snd[n] \in HasWriter => writer # NoTurn
        /\ snd[n] \in HasReader => reader # NoTurn
        /\ lst[n] # "none" => reader # NoTurn
        /\ lst[n] = "read" => from[n] # NoTurn
        /\ snd[n] = "print" => out[n] # NoTurn
        /\ lst[n] \in HasLine => line[n] # NoReply
        /\ lst[n] \in {"replace", "deliver"} => line[n].kind = "test"
        /\ lst[n] \in Leaving => passes[n] > 0

(* A connection is made once, in its turn.                                   *)
ConnectionsInTurn ==
    /\ \A n \in Turns : n > turn => snd[n] = "none" /\ spoken[n] = NoReply
    /\ \A n \in Turns : snd[n] \in {"none", "connect"} => conn[n] = "none"

(* What the shared message object may be.                                    *)
Requests == [type : {"ai", "test"}, of : Turns \cup {NoTurn}]

(* A reply is none of the empty ones, and has a connection.                  *)
LEMMA AReply ==
  /\ \A r \in Replies : r.kind \in Kinds /\ r.to \in Turns \cup {NoTurn} /\ r.by \in Turns
  /\ \A r \in Replies : r # NoReply
  /\ NoReply.by = NoTurn /\ NoTurn \notin Turns
  /\ \A kind \in Kinds, to \in Turns \cup {NoTurn}, by \in Turns :
        [kind |-> kind, to |-> to, by |-> by] \in Replies
<1>1. NoTurn \notin Turns
  BY DEF Turns, NoTurn
<1> QED
  BY <1>1 DEF Replies, NoReply

(* Filling in the message object gives another request.                      *)
LEMMA ARequest ==
  /\ NoRequest \in Requests /\ NoRequest.of = NoTurn
  /\ \A r \in Requests : r.of \in Turns \cup {NoTurn} /\ r.type \in {"ai", "test"}
  /\ \A r \in Requests, n \in Turns \cup {NoTurn} : [r EXCEPT !.of = n] \in Requests
  /\ \A r \in Requests, n \in Turns \cup {NoTurn} : [r EXCEPT !.of = n].of = n
  /\ [type |-> "test", of |-> NoTurn] \in Requests
  BY DEF Requests, NoRequest

(* Turns are counted from one.                                               *)
LEMMA TurnNumbers ==
  /\ MaxTurns \in Nat /\ Turns \subseteq Nat /\ NoTurn = 0 /\ 0 \notin Turns
  /\ \A n \in Nat : n \in Turns <=> 1 <= n /\ n <= MaxTurns
  BY ClientAssumption DEF Turns, NoTurn

(* What Head, Tail and Append do to the channel.                             *)
LEMMA Received ==
  ASSUME NEW S, NEW s \in Seq(S), s # << >>
  PROVE  /\ Head(s) \in S /\ Tail(s) \in Seq(S)
         /\ 1 \in DOMAIN s /\ Head(s) = s[1]
         /\ \A i \in DOMAIN Tail(s) : /\ i + 1 \in DOMAIN s
                                      /\ Tail(s)[i] = s[i + 1]
                                      /\ i \in Nat
<1>1. /\ Head(s) \in S /\ Tail(s) \in Seq(S)
      /\ Len(Tail(s)) = Len(s) - 1
      /\ \A i \in 1 .. Len(Tail(s)) : Tail(s)[i] = s[i + 1]
  BY HeadTailProperties
<1>2. Len(s) \in Nat /\ DOMAIN s = 1 .. Len(s) /\ Len(s) > 0
  BY LenProperties, EmptySeq
<1>3. DOMAIN Tail(s) = 1 .. Len(s) - 1
  BY <1>1, LenProperties
<1> QED
  BY <1>1, <1>2, <1>3

(* A message sent to the channel is its last one.                            *)
LEMMA Sent ==
  ASSUME NEW S, NEW s \in Seq(S), NEW e \in S
  PROVE  /\ Append(s, e) \in Seq(S)
         /\ \A i \in DOMAIN Append(s, e) : \/ i \in DOMAIN s /\ Append(s, e)[i] = s[i]
                                           \/ i \notin DOMAIN s /\ Append(s, e)[i] = e
         /\ \A i, j \in DOMAIN Append(s, e) : i \notin DOMAIN s /\ j \notin DOMAIN s => i = j
<1>1. /\ Append(s, e) \in Seq(S)
      /\ Len(Append(s, e)) = Len(s) + 1
      /\ \A i \in 1 .. Len(s) : Append(s, e)[i] = s[i]
      /\ Append(s, e)[Len(s) + 1] = e
  BY AppendProperties
<1>2. Len(s) \in Nat /\ DOMAIN s = 1 .. Len(s)
  BY LenProperties
<1>3. DOMAIN Append(s, e) = 1 .. Len(s) + 1
  BY <1>1, LenProperties
<1> QED
  BY <1>1, <1>2, <1>3

(* Which steps touch which variables.                                        *)
LEMMA FlowFrame ==
  ASSUME [Next]_vars
  PROVE  \/ Utterance
         \/ TakeAnswer
         \/ Timeout
         \/ NewConversation
         \/ \E n \in Turns : \/ Deliver(n)
         \/ UNCHANGED flowVars
  BY DEF Next, FlowStep, SenderStep, ListenerStep, ServerStep, vars, flowVars,
         senderVars, listenerVars, fields, server, Connect, ConnectFails,
         OpenFails, OpenWriter, OpenReader, StartListening, BuildPayload,
         NotConnected, CheckConnected, FillMessage, TakeWriter, PrintMessage,
         CheckListening, Listen, ListenInVain, ReadReply, ReadNothing,
         CheckMessage, ReplaceMessage, HandleError, ClearFlag, CloseStream,
         CloseSocket, ServerReplies, ServerCloses

LEMMA SenderFrame ==
  ASSUME [Next]_vars
  PROVE  \/ Utterance
         \/ \E n \in Turns : \/ Connect(n) \/ ConnectFails(n) \/ OpenFails(n) \/ OpenWriter(n)
                            \/ OpenReader(n) \/ StartListening(n) \/ BuildPayload(n) \/ NotConnected(n)
                            \/ CheckConnected(n) \/ FillMessage(n) \/ TakeWriter(n) \/ PrintMessage(n)
         \/ UNCHANGED senderVars
  BY DEF Next, FlowStep, SenderStep, ListenerStep, ServerStep, vars, flowVars,
         senderVars, listenerVars, fields, server, TakeAnswer, Timeout,
         NewConversation, CheckListening, Listen, ListenInVain, ReadReply,
         ReadNothing, CheckMessage, ReplaceMessage, Deliver, HandleError,
         ClearFlag, CloseStream, CloseSocket, ServerReplies, ServerCloses

LEMMA ListenerFrame ==
  ASSUME [Next]_vars
  PROVE  \/ \E n \in Turns : \/ StartListening(n) \/ CheckListening(n) \/ Listen(n) \/ ListenInVain(n)
                            \/ ReadReply(n) \/ ReadNothing(n) \/ CheckMessage(n) \/ ReplaceMessage(n)
                            \/ Deliver(n) \/ HandleError(n) \/ ClearFlag(n) \/ CloseStream(n)
                            \/ CloseSocket(n)
         \/ UNCHANGED listenerVars
  BY DEF Next, FlowStep, SenderStep, ListenerStep, ServerStep, vars, flowVars,
         senderVars, listenerVars, fields, server, Utterance, TakeAnswer,
         Timeout, NewConversation, Connect, ConnectFails, OpenFails, OpenWriter,
         OpenReader, BuildPayload, NotConnected, CheckConnected, FillMessage,
         TakeWriter, PrintMessage, ServerReplies, ServerCloses

LEMMA FieldFrame ==
  ASSUME [Next]_vars
  PROVE  \/ \E n \in Turns : \/ Connect(n) \/ OpenWriter(n) \/ OpenReader(n)
         \/ UNCHANGED fields
  BY DEF Next, FlowStep, SenderStep, ListenerStep, ServerStep, vars, flowVars,
         senderVars, listenerVars, fields, server, Utterance, TakeAnswer,
         Timeout, NewConversation, ConnectFails, OpenFails, StartListening,
         BuildPayload, NotConnected, CheckConnected, FillMessage, TakeWriter,
         PrintMessage, CheckListening, Listen, ListenInVain, ReadReply,
         ReadNothing, CheckMessage, ReplaceMessage, Deliver, HandleError,
         ClearFlag, CloseStream, CloseSocket, ServerReplies, ServerCloses

LEMMA ServerFrame ==
  ASSUME [Next]_vars
  PROVE  \/ \E n \in Turns : \/ Connect(n) \/ PrintMessage(n) \/ ReadReply(n) \/ ServerReplies(n)
                            \/ ServerCloses(n)
         \/ UNCHANGED server
  BY DEF Next, FlowStep, SenderStep, ListenerStep, ServerStep, vars, flowVars,
         senderVars, listenerVars, fields, server, Utterance, TakeAnswer,
         Timeout, NewConversation, ConnectFails, OpenFails, OpenWriter,
         OpenReader, StartListening, BuildPayload, NotConnected, CheckConnected,
         FillMessage, TakeWriter, CheckListening, Listen, ListenInVain,
         ReadNothing, CheckMessage, ReplaceMessage, Deliver, HandleError,
         ClearFlag, CloseStream, CloseSocket

LEMMA MessageFrame ==
  ASSUME [Next]_vars
  PROVE  \/ \E n \in Turns : \/ FillMessage(n) \/ ReplaceMessage(n)
         \/ UNCHANGED message
  BY DEF Next, FlowStep, SenderStep, ListenerStep, ServerStep, vars, flowVars,
         senderVars, listenerVars, fields, server, Utterance, TakeAnswer,
         Timeout, NewConversation, Connect, ConnectFails, OpenFails, OpenWriter,
         OpenReader, StartListening, BuildPayload, NotConnected, CheckConnected,
         TakeWriter, PrintMessage, CheckListening, Listen, ListenInVain,
         ReadReply, ReadNothing, CheckMessage, Deliver, HandleError, ClearFlag,
         CloseStream, CloseSocket, ServerReplies, ServerCloses

LEMMA FlagFrame ==
  ASSUME [Next]_vars
  PROVE  \/ \E n \in Turns : \/ StartListening(n) \/ ClearFlag(n)
         \/ UNCHANGED connected
  BY DEF Next, FlowStep, SenderStep, ListenerStep, ServerStep, vars, flowVars,
         senderVars, listenerVars, fields, server, Utterance, TakeAnswer,
         Timeout, NewConversation, Connect, ConnectFails, OpenFails, OpenWriter,
         OpenReader, BuildPayload, NotConnected, CheckConnected, FillMessage,
         TakeWriter, PrintMessage, CheckListening, Listen, ListenInVain,
         ReadReply, ReadNothing, CheckMessage, ReplaceMessage, Deliver,
         HandleError, CloseStream, CloseSocket, ServerReplies, ServerCloses

LEMMA ClosedFrame ==
  ASSUME [Next]_vars
  PROVE  \/ \E n \in Turns : \/ CloseStream(n) \/ CloseSocket(n)
         \/ UNCHANGED closed
  BY DEF Next, FlowStep, SenderStep, ListenerStep, ServerStep, vars, flowVars,
         senderVars, listenerVars, fields, server, Utterance, TakeAnswer,
         Timeout, NewConversation, Connect, ConnectFails, OpenFails, OpenWriter,
         OpenReader, StartListening, BuildPayload, NotConnected, CheckConnected,
         FillMessage, TakeWriter, PrintMessage, CheckListening, Listen,
         ListenInVain, ReadReply, ReadNothing, CheckMessage, ReplaceMessage,
         Deliver, HandleError, ClearFlag, ServerReplies, ServerCloses

----------------------------------------------------------------------------
(* Types.                                                                    *)

(* The types, but for _isConnected, by who changes the variables.            *)
FlowTypes ==
    /\ flow \in {"listening", "receive", "suspended", "receive_again",
                 "suspended_again"}
    /\ turn \in Turns \cup {NoTurn}
    /\ channel \in Seq(Replies)
    /\ spoken \in [Turns -> Replies \cup {NoReply}]

SenderTypes ==
    /\ snd \in [Turns -> {"none", "connect", "writer", "reader", "connected", "history",
                          "send", "payload", "writer?", "print", "done"}]
    /\ payload \in [Turns -> Turns \cup {NoTurn}]
    /\ out \in [Turns -> Turns \cup {NoTurn}]

ListenerTypes ==
    /\ lst \in [Turns -> {"none", "start", "listen", "read", "handle", "replace",
                          "deliver", "flag", "writer", "reader", "socket", "done"}]
    /\ from \in [Turns -> Turns \cup {NoTurn}]
    /\ line \in [Turns -> Replies \cup {NoReply}]
    /\ passes \in [Turns -> 0 .. 3]

FieldTypes == /\ socket \in Turns \cup {NoTurn}
              /\ writer \in Turns \cup {NoTurn}
              /\ reader \in Turns \cup {NoTurn}

ServerTypes == /\ conn \in [Turns -> {"none", "open", "asked", "over"} \cup Kinds]
               /\ asked \in [Turns -> Requests]

Types == /\ FlowTypes /\ SenderTypes /\ ListenerTypes /\ FieldTypes /\ ServerTypes
         /\ message \in Requests
         /\ closed \subseteq Turns

(* The channel gets what a listener has read.                                *)
LEMMA FlowTypesKept ==
  ASSUME FlowTypes, ListenerTypes, FieldsAreSet, [Next]_vars
  PROVE  FlowTypes'
<1> USE DEF FlowTypes
<1>1. CASE Utterance
  BY <1>1, TurnNumbers DEF Utterance
<1>2. ASSUME TakeAnswer \/ Timeout
      PROVE  FlowTypes'
  <2>1. channel = << >> \/ (Head(channel) \in Replies /\ Tail(channel) \in Seq(Replies))
    BY Received
  <2>2. channel' \in Seq(Replies)
    BY <1>2, <2>1 DEF TakeAnswer, Timeout
  <2>3. spoken' \in [Turns -> Replies \cup {NoReply}]
    BY <1>2, <2>1 DEF TakeAnswer, Timeout, Speak
  <2> QED
    BY <1>2, <2>2, <2>3 DEF TakeAnswer, Timeout, Speak
<1>3. CASE NewConversation
  <2>1. channel' \in Seq(Replies)
    BY <1>3, EmptySeq DEF NewConversation
  <2> QED
    BY <1>3, <2>1 DEF NewConversation
<1>4. ASSUME NEW n \in Turns, Deliver(n)
      PROVE  FlowTypes'
  <2>1. line[n] \in Replies
    BY <1>4 DEF Deliver, ListenerTypes, FieldsAreSet, HasLine
  <2>2. Append(channel, line[n]) \in Seq(Replies)
    BY <2>1, Sent
  <2> QED
    BY <1>4, <2>2 DEF Deliver
<1>5. CASE UNCHANGED flowVars
  BY <1>5 DEF flowVars
<1> QED
  BY <1>1, <1>2, <1>3, <1>4, <1>5, FlowFrame

(* The steps of a sender.                                                    *)
LEMMA SenderTypesKept ==
  ASSUME SenderTypes, FlowTypes, FieldTypes, [Next]_vars
  PROVE  SenderTypes'
<1> USE DEF SenderTypes
<1>1. CASE Utterance
  BY <1>1 DEF Utterance
<1>2. ASSUME NEW n \in Turns,
             \/ Connect(n) \/ ConnectFails(n) \/ OpenFails(n) \/ OpenWriter(n)
             \/ OpenReader(n) \/ StartListening(n) \/ BuildPayload(n) \/ NotConnected(n)
             \/ CheckConnected(n) \/ FillMessage(n) \/ TakeWriter(n) \/ PrintMessage(n)
      PROVE  SenderTypes'
  BY <1>2 DEF Connect, ConnectFails, OpenFails, OpenWriter, OpenReader, StartListening, BuildPayload,
              NotConnected, CheckConnected, FillMessage, TakeWriter, PrintMessage, SenderGoes,
              FlowTypes, FieldTypes, fields
<1> QED
  BY <1>1, <1>2, SenderFrame DEF senderVars

(* The steps of a listener.                                                  *)
LEMMA ListenerTypesKept ==
  ASSUME ListenerTypes, FieldTypes, ServerTypes, FieldsAreSet, [Next]_vars
  PROVE  ListenerTypes'
<1> USE DEF ListenerTypes
<1>1. ASSUME NEW n \in Turns,
             \/ StartListening(n) \/ CheckListening(n) \/ CheckMessage(n)
             \/ ReplaceMessage(n) \/ ClearFlag(n) \/ CloseStream(n)
      PROVE  ListenerTypes'
  BY <1>1 DEF StartListening, CheckListening, CheckMessage, ReplaceMessage, ClearFlag,
              CloseStream
<1>2. ASSUME NEW n \in Turns, Listen(n)
      PROVE  ListenerTypes'
  BY <1>2 DEF Listen, fields, FieldTypes
<1>3. ASSUME NEW n \in Turns,
             ListenInVain(n) \/ ReadNothing(n) \/ Deliver(n) \/ HandleError(n)
      PROVE  ListenerTypes'
  <2>1. PICK times \in 1 .. 3 : Disconnecting(n, times)
    BY <1>3 DEF ListenInVain, ReadNothing, Deliver, HandleError
  <2> QED
    BY <2>1 DEF Disconnecting
<1>4. ASSUME NEW n \in Turns, ReadReply(n)
      PROVE  ListenerTypes'
  <2>1. from[n] \in Turns
    BY <1>4 DEF ReadReply, FieldsAreSet
  <2>2. conn[from[n]] \in Kinds /\ asked[from[n]].of \in Turns \cup {NoTurn}
    BY <1>4, <2>1, ARequest DEF ReadReply, ServerTypes, Kinds
  <2>3. [kind |-> conn[from[n]], to |-> asked[from[n]].of, by |-> from[n]] \in Replies
    BY <2>1, <2>2, AReply
  <2> QED
    BY <1>4, <2>3 DEF ReadReply
<1>5. ASSUME NEW n \in Turns, CloseSocket(n)
      PROVE  ListenerTypes'
  BY <1>5 DEF CloseSocket, FieldsAreSet, Leaving
<1> QED
  BY <1>1, <1>2, <1>3, <1>4, <1>5, ListenerFrame DEF listenerVars

(* The fields of SocketClient.                                               *)
LEMMA FieldTypesKept ==
  ASSUME FieldTypes, [Next]_vars
  PROVE  FieldTypes'
<1>1. ASSUME NEW n \in Turns, Connect(n) \/ OpenWriter(n) \/ OpenReader(n)
      PROVE  FieldTypes'
  BY <1>1 DEF FieldTypes, Connect, OpenWriter, OpenReader
<1> QED
  BY <1>1, FieldFrame DEF FieldTypes, fields

(* What the server is asked and what it replies.                             *)
LEMMA ServerTypesKept ==
  ASSUME ServerTypes, SenderTypes, message \in Requests, [Next]_vars
  PROVE  ServerTypes' /\ message' \in Requests
<1> USE DEF ServerTypes
<1>1. ASSUME NEW n \in Turns, Connect(n) \/ PrintMessage(n) \/ ReadReply(n)
                              \/ ServerCloses(n)
      PROVE  ServerTypes'
  BY <1>1, ARequest DEF Connect, PrintMessage, ReadReply, ServerCloses, server
<1>2. ASSUME NEW c \in Turns, ServerReplies(c)
      PROVE  ServerTypes'
  BY <1>2 DEF ServerReplies, KindsFor, Kinds
<1>3. ServerTypes'
  BY <1>1, <1>2, ServerFrame DEF server
<1>4. ASSUME NEW n \in Turns, FillMessage(n) \/ ReplaceMessage(n)
      PROVE  message' \in Requests
  BY <1>4, ARequest DEF FillMessage, ReplaceMessage, SenderTypes
<1> QED
  BY <1>3, <1>4, MessageFrame

(* Only a connection that was there is closed.                               *)
LEMMA ClosedTypesKept ==
  ASSUME closed \subseteq Turns, FieldTypes, [Next]_vars
  PROVE  closed' \subseteq Turns
<1>1. ASSUME NEW n \in Turns, CloseStream(n) \/ CloseSocket(n)
      PROVE  closed' \subseteq Turns
  BY <1>1 DEF CloseStream, CloseSocket, Closing, FieldTypes
<1> QED
  BY <1>1, ClosedFrame

(* All of them.                                                              *)
LEMMA TypesKept ==
  ASSUME Types, FieldsAreSet, [Next]_vars
  PROVE  Types'
BY FlowTypesKept, SenderTypesKept, ListenerTypesKept, FieldTypesKept, ServerTypesKept,
   ClosedTypesKept DEF Types

(* The fields are set before they are used.                                  *)
LEMMA FieldsStaySet ==
  ASSUME Types, FieldsAreSet, [Next]_vars
  PROVE  FieldsAreSet'
<1> USE AReply DEF Types, SenderTypes, ListenerTypes, FieldTypes, FieldsAreSet,
        HasSocket, HasWriter, HasReader, HasLine, Leaving
<1>1. CASE Utterance
  BY <1>1 DEF Utterance, listenerVars, fields
<1>2. ASSUME NEW n \in Turns, Connect(n)
      PROVE  FieldsAreSet'
  BY <1>2 DEF Connect, SenderGoes, listenerVars
<1>3. ASSUME NEW n \in Turns, OpenWriter(n) \/ OpenReader(n)
      PROVE  FieldsAreSet'
  BY <1>3 DEF OpenWriter, OpenReader, SenderGoes, listenerVars
<1>4. ASSUME NEW n \in Turns,
             \/ ConnectFails(n) \/ OpenFails(n) \/ BuildPayload(n) \/ NotConnected(n)
             \/ CheckConnected(n) \/ FillMessage(n) \/ PrintMessage(n)
      PROVE  FieldsAreSet'
  <2>1. /\ UNCHANGED <<listenerVars, fields>>
        /\ UNCHANGED out \/ out' = [out EXCEPT ![n] = NoTurn]
    BY <1>4 DEF ConnectFails, OpenFails, BuildPayload, NotConnected, CheckConnected,
                FillMessage, PrintMessage
  <2>2. PICK step \in {"done", "send", "payload", "writer?"} : snd' = [snd EXCEPT ![n] = step]
    BY <1>4 DEF ConnectFails, OpenFails, BuildPayload, NotConnected, CheckConnected,
                FillMessage, PrintMessage, SenderGoes
  <2>3. step = "done" \/ snd[n] \in HasReader
    BY <1>4, <2>2 DEF ConnectFails, OpenFails, BuildPayload, NotConnected, CheckConnected,
                      FillMessage, PrintMessage, SenderGoes
  <2>4. \A m \in Turns : snd'[m] = "print" => snd[m] = "print" /\ out'[m] = out[m]
    BY <2>1, <2>2
  <2> QED
    BY <2>1, <2>2, <2>3, <2>4 DEF listenerVars, fields
<1>13. ASSUME NEW n \in Turns, TakeWriter(n)
      PROVE  FieldsAreSet'
  BY <1>13 DEF TakeWriter, SenderGoes, listenerVars, fields
<1>5. ASSUME NEW n \in Turns, StartListening(n)
      PROVE  FieldsAreSet'
  BY <1>5 DEF StartListening, SenderGoes, fields
<1>6. ASSUME NEW n \in Turns, Listen(n)
      PROVE  FieldsAreSet'
  BY <1>6 DEF Listen, fields, senderVars
<1>7. ASSUME NEW n \in Turns,
             ListenInVain(n) \/ ReadNothing(n) \/ Deliver(n) \/ HandleError(n)
      PROVE  FieldsAreSet'
  <2>1. PICK times \in 1 .. 3 : Disconnecting(n, times)
    BY <1>7 DEF ListenInVain, ReadNothing, Deliver, HandleError
  <2>2. UNCHANGED <<snd, out, fields>> /\ lst[n] # "none"
    BY <1>7 DEF ListenInVain, ReadNothing, Deliver, HandleError, senderVars
  <2> QED
    BY <2>1, <2>2 DEF Disconnecting, fields
<1>8. ASSUME NEW n \in Turns, ReadReply(n)
      PROVE  FieldsAreSet'
  <2>1. line'[n] # NoReply
    BY <1>8 DEF ReadReply, NoReply, NoTurn
  <2> QED
    BY <1>8, <2>1 DEF ReadReply, fields, senderVars
<1>9. ASSUME NEW n \in Turns,
             \/ CheckListening(n) \/ CheckMessage(n) \/ ReplaceMessage(n) \/ ClearFlag(n)
             \/ CloseStream(n)
      PROVE  FieldsAreSet'
  BY <1>9 DEF CheckListening, CheckMessage, ReplaceMessage, ClearFlag, CloseStream, fields,
              senderVars
<1>10. ASSUME NEW n \in Turns, CloseSocket(n)
      PROVE  FieldsAreSet'
  BY <1>10 DEF CloseSocket, fields, senderVars
<1>11. ASSUME UNCHANGED senderVars, UNCHANGED listenerVars, UNCHANGED fields
      PROVE  FieldsAreSet'
  BY <1>11 DEF senderVars, listenerVars, fields
<1>12. ASSUME NEW n \in Turns, Connect(n) \/ OpenWriter(n) \/ OpenReader(n)
       PROVE  FieldsAreSet'
  BY <1>12, <1>2, <1>3
<1> QED
  BY <1>1, <1>12, <1>4, <1>13, <1>5, <1>6, <1>7, <1>8, <1>9, <1>10, <1>11,
     SenderFrame, ListenerFrame, FieldFrame

(* A connection is made once, in its turn.                                   *)
LEMMA ConnectionsStayInTurn ==
  ASSUME Types, FieldsAreSet, ConnectionsInTurn, [Next]_vars
  PROVE  ConnectionsInTurn'
<1> USE TurnNumbers DEF Types, FlowTypes, SenderTypes, ServerTypes
<1>1. ASSUME UNCHANGED <<turn, spoken>>
      PROVE  \A n \in Turns : n > turn' => spoken'[n] = NoReply
  BY <1>1 DEF ConnectionsInTurn
<1>2. \A n \in Turns : n > turn' => spoken'[n] = NoReply
  <2>1. CASE Utterance
    BY <2>1 DEF Utterance, ConnectionsInTurn
  <2>2. ASSUME TakeAnswer \/ Timeout
        PROVE  \A n \in Turns : n > turn' => spoken'[n] = NoReply
    <3>1. turn' = turn
      BY <2>2 DEF TakeAnswer, Timeout
    <3>2. UNCHANGED spoken \/ \E reply : spoken' = [spoken EXCEPT ![turn] = reply]
      BY <2>2, Zenon DEF TakeAnswer, Timeout, Speak
    <3>3. \A n \in Turns : n > turn => n # turn
      <4>1. turn \in Nat /\ \A n \in Turns : n \in Nat
        BY TurnNumbers DEF Types, FlowTypes
      <4> QED
        BY <4>1
    <3>4. \A n \in Turns : n > turn => spoken'[n] = spoken[n]
      BY <3>2, <3>3
    <3> QED
      BY <3>1, <3>4 DEF ConnectionsInTurn
  <2>3. ASSUME NewConversation \/ (\E n \in Turns : Deliver(n)) \/ UNCHANGED flowVars
        PROVE  UNCHANGED <<turn, spoken>>
    BY <2>3 DEF NewConversation, Deliver, flowVars
  <2> QED
    BY <1>1, <2>1, <2>2, <2>3, FlowFrame
<1>3. \A n \in Turns : n > turn' => snd'[n] = "none"
  <2>1. CASE Utterance
    BY <2>1 DEF Utterance, ConnectionsInTurn
  <2>2. ASSUME ~ Utterance
        PROVE  turn' = turn
    BY <2>2, FlowFrame DEF TakeAnswer, Timeout, NewConversation, Deliver, flowVars
  <2>3. ASSUME NEW n \in Turns,
               \/ Connect(n) \/ ConnectFails(n) \/ OpenFails(n) \/ OpenWriter(n)
               \/ OpenReader(n) \/ StartListening(n) \/ BuildPayload(n) \/ NotConnected(n)
               \/ CheckConnected(n) \/ FillMessage(n) \/ TakeWriter(n) \/ PrintMessage(n)
        PROVE  snd[n] # "none" /\ \A m \in Turns : m # n => snd'[m] = snd[m]
    BY <2>3 DEF Connect, ConnectFails, OpenFails, OpenWriter, OpenReader, StartListening, BuildPayload,
                NotConnected, CheckConnected, FillMessage, TakeWriter, PrintMessage, SenderGoes
  <2> QED
    BY <2>1, <2>2, <2>3, SenderFrame DEF ConnectionsInTurn, senderVars
<1>4. \A n \in Turns : snd'[n] \in {"none", "connect"} => conn'[n] = "none"
  <2>1. \A n \in Turns : snd'[n] \in {"none", "connect"} => snd[n] \in {"none", "connect"}
    <3>1. CASE Utterance
      BY <3>1 DEF Utterance, ConnectionsInTurn
    <3>2. ASSUME NEW n \in Turns,
                 \/ Connect(n) \/ ConnectFails(n) \/ OpenFails(n) \/ OpenWriter(n)
                 \/ OpenReader(n) \/ StartListening(n) \/ BuildPayload(n) \/ NotConnected(n)
                 \/ CheckConnected(n) \/ FillMessage(n) \/ TakeWriter(n) \/ PrintMessage(n)
          PROVE  \E step : step \notin {"none", "connect"} /\ snd' = [snd EXCEPT ![n] = step]
      BY <3>2 DEF Connect, ConnectFails, OpenFails, OpenWriter, OpenReader, StartListening, BuildPayload,
                  NotConnected, CheckConnected, FillMessage, TakeWriter, PrintMessage, SenderGoes
    <3> QED
      BY <3>1, <3>2, SenderFrame DEF senderVars
  <2>2. ASSUME NEW n \in Turns, Connect(n)
        PROVE  snd'[n] = "writer" /\ \A m \in Turns : m # n => conn'[m] = conn[m]
    BY <2>2 DEF Connect, SenderGoes
  <2>3. ASSUME NEW n \in Turns, PrintMessage(n)
        PROVE  \A m \in Turns : conn[m] = "none" => conn'[m] = "none"
    BY <2>3 DEF PrintMessage, server
  <2>4. ASSUME NEW n \in Turns, ReadReply(n) \/ ServerReplies(n) \/ ServerCloses(n)
        PROVE  \A m \in Turns : conn[m] = "none" => conn'[m] = "none"
    BY <2>4 DEF ReadReply, ServerReplies, ServerCloses, Kinds
  <2> QED
    BY <2>1, <2>2, <2>3, <2>4, ServerFrame DEF ConnectionsInTurn, server
<1> QED
  BY <1>2, <1>3, <1>4 DEF ConnectionsInTurn

(* A connection that is over stays so.                                       *)
LEMMA OverIsOver ==
  ASSUME Types, ConnectionsInTurn, [Next]_vars, NEW c \in Turns, conn[c] = "over"
  PROVE  conn'[c] = "over"
<1> USE DEF Types, ServerTypes
<1>1. ASSUME NEW n \in Turns, Connect(n)
      PROVE  conn'[c] = "over"
  BY <1>1 DEF Connect, ConnectionsInTurn
<1>2. ASSUME NEW n \in Turns,
             PrintMessage(n) \/ ReadReply(n) \/ ServerReplies(n) \/ ServerCloses(n)
      PROVE  conn'[c] = "over"
  BY <1>2 DEF PrintMessage, ReadReply, ServerReplies, ServerCloses, server
<1> QED
  BY <1>1, <1>2, ServerFrame DEF server

----------------------------------------------------------------------------
(* Replies.                                                                  *)

(* Where a reply is, its connection is over.                                 *)
ReadRepliesAreOver ==
    /\ \A k \in Turns : spoken[k] # NoReply => conn[spoken[k].by] = "over"
    /\ \A n \in Turns : line[n] # NoReply => conn[line[n].by] = "over"
    /\ \A i \in DOMAIN channel : conn[channel[i].by] = "over"

(* No two replies of a place came over the same connection.                  *)
OnceInItsPlace ==
    /\ ReplySpokenOnce
    /\ \A m, n \in Turns : m # n /\ line[m] # NoReply => line[m].by # line[n].by
    /\ \A i, j \in DOMAIN channel : i # j => channel[i].by # channel[j].by

(* No reply is spoken, held by a listener and in the channel at once.        *)
InOnePlace ==
    /\ \A k, n \in Turns : spoken[k] # NoReply => spoken[k].by # line[n].by
    /\ \A k \in Turns, i \in DOMAIN channel : spoken[k].by # channel[i].by
    /\ \A n \in Turns, i \in DOMAIN channel : line[n].by # channel[i].by

ReplyPlaces == ReadRepliesAreOver /\ OnceInItsPlace /\ InOnePlace

(* What is known of the places by their types.                               *)
LEMMA PlaceTypes ==
  ASSUME Types
  PROVE  /\ \A k \in Turns : \/ spoken[k] = NoReply /\ spoken[k].by = NoTurn
                             \/ spoken[k] # NoReply /\ spoken[k].by \in Turns
         /\ \A n \in Turns : \/ line[n] = NoReply /\ line[n].by = NoTurn
                             \/ line[n] # NoReply /\ line[n].by \in Turns
         /\ \A i \in DOMAIN channel : channel[i] # NoReply /\ channel[i].by \in Turns
         /\ NoTurn \notin Turns
<1>1. \A i \in DOMAIN channel : channel[i] \in Replies
  BY ElementOfSeq, LenProperties DEF Types, FlowTypes
<1> QED
  BY <1>1, AReply DEF Types, FlowTypes, ListenerTypes

(* The steps by what they do to the places.                                  *)
LEMMA PlaceFrame ==
  ASSUME [Next]_vars
  PROVE  \/ TakeAnswer \/ Timeout \/ NewConversation
         \/ \E n \in Turns : \/ ListenInVain(n) \/ ReadReply(n) \/ ReadNothing(n)
                             \/ Deliver(n) \/ HandleError(n)
         \/ UNCHANGED <<spoken, line, channel>>
<1>1. \/ TakeAnswer \/ Timeout \/ NewConversation \/ (\E n \in Turns : Deliver(n))
      \/ UNCHANGED <<spoken, channel>>
  BY FlowFrame DEF Utterance, flowVars
<1>2. \/ \E n \in Turns : \/ ListenInVain(n) \/ ReadReply(n) \/ ReadNothing(n)
                          \/ Deliver(n) \/ HandleError(n)
      \/ UNCHANGED line
  BY ListenerFrame DEF StartListening, CheckListening, Listen, CheckMessage,
                       ReplaceMessage, ClearFlag, CloseStream, CloseSocket, listenerVars
<1> QED
  BY <1>1, <1>2

(* A reply moves: out of its connection, which is over from then on, to its  *)
(* listener, from there to the channel and from there to the user.           *)
LEMMA ReplyPlacesKept ==
  ASSUME Types, Types', FieldsAreSet, ConnectionsInTurn, ReplyPlaces, [Next]_vars
  PROVE  ReplyPlaces'
<1> USE PlaceTypes
<1>0. \A c \in Turns : conn[c] = "over" => conn'[c] = "over"
  BY OverIsOver
<1>1. CASE UNCHANGED <<spoken, line, channel>>
  BY <1>0, <1>1 DEF ReplyPlaces, ReadRepliesAreOver, OnceInItsPlace, InOnePlace, ReplySpokenOnce
<1>2. CASE TakeAnswer
  <2>1. /\ channel \in Seq(Replies) /\ channel # << >>
        /\ channel' = Tail(channel) /\ spoken' = [spoken EXCEPT ![turn] = Head(channel)]
        /\ line' = line /\ conn' = conn
        /\ spoken \in [Turns -> Replies \cup {NoReply}]
    BY <1>2 DEF TakeAnswer, Speak, Types, FlowTypes, listenerVars, server
  <2>2. /\ 1 \in DOMAIN channel /\ Head(channel) = channel[1]
        /\ \A i \in DOMAIN channel' : /\ i + 1 \in DOMAIN channel
                                      /\ channel'[i] = channel[i + 1]
                                      /\ i \in Nat /\ i + 1 # 1
    BY <2>1, Received, LenProperties
  <2>3. \A k \in Turns : spoken'[k] = spoken[k] \/ (k = turn /\ spoken'[k] = channel[1])
    BY <2>1, <2>2
  <2>4. \A i, j \in DOMAIN channel' : i # j => i + 1 # j + 1
    BY <2>2
  <2>5. ReadRepliesAreOver'
    BY <2>1, <2>2, <2>3 DEF ReplyPlaces, ReadRepliesAreOver
  <2>6. OnceInItsPlace'
    BY <2>1, <2>2, <2>3, <2>4 DEF ReplyPlaces, OnceInItsPlace, InOnePlace, ReplySpokenOnce
  <2>7. InOnePlace'
    BY <2>1, <2>2, <2>3 DEF ReplyPlaces, OnceInItsPlace, InOnePlace
  <2> QED
    BY <2>5, <2>6, <2>7 DEF ReplyPlaces
<1>3. CASE Timeout
  <2>1. /\ channel \in Seq(Replies)
        /\ channel' = channel \/ (channel # << >> /\ channel' = Tail(channel))
        /\ spoken' = spoken \/ spoken' = [spoken EXCEPT ![turn] = NoReply]
        /\ line' = line /\ conn' = conn
        /\ spoken \in [Turns -> Replies \cup {NoReply}]
    BY <1>3 DEF Timeout, Speak, Types, FlowTypes, listenerVars, server
  <2>2. /\ \A i \in DOMAIN channel' : \E j \in DOMAIN channel : channel'[i] = channel[j]
        /\ \A i, j \in DOMAIN channel' : i # j => channel'[i].by # channel'[j].by
    <3>1. CASE channel' = channel
      BY <3>1 DEF ReplyPlaces, OnceInItsPlace
    <3>2. CASE channel # << >> /\ channel' = Tail(channel)
      <4>1. \A i \in DOMAIN channel' : /\ i + 1 \in DOMAIN channel
                                       /\ channel'[i] = channel[i + 1]
                                       /\ i \in Nat
        BY <2>1, <3>2, Received
      <4>2. \A i, j \in DOMAIN channel' : i # j => i + 1 # j + 1
        BY <4>1
      <4> QED
        BY <4>1, <4>2 DEF ReplyPlaces, OnceInItsPlace
    <3> QED
      BY <2>1, <3>1, <3>2
  <2>3. \A k \in Turns : spoken'[k] = spoken[k] \/ spoken'[k] = NoReply
    BY <2>1
  <2>4. ReadRepliesAreOver'
    BY <2>1, <2>2, <2>3 DEF ReplyPlaces, ReadRepliesAreOver
  <2>5. OnceInItsPlace'
    BY <2>1, <2>2, <2>3, AReply DEF ReplyPlaces, OnceInItsPlace, ReplySpokenOnce
  <2>6. InOnePlace'
    BY <2>1, <2>2, <2>3, AReply DEF ReplyPlaces, InOnePlace
  <2> QED
    BY <2>4, <2>5, <2>6 DEF ReplyPlaces
<1>4. CASE NewConversation
  <2>1. /\ DOMAIN channel' = {}
        /\ UNCHANGED <<spoken, line, conn>>
    BY <1>4, EmptySeq, LenProperties DEF NewConversation, listenerVars, server
  <2> QED
    BY <2>1 DEF ReplyPlaces, ReadRepliesAreOver, OnceInItsPlace, InOnePlace, ReplySpokenOnce
<1>5. ASSUME NEW n \in Turns, ListenInVain(n) \/ ReadNothing(n) \/ HandleError(n)
      PROVE  ReplyPlaces'
  <2>1. line' = [line EXCEPT ![n] = NoReply] /\ UNCHANGED <<spoken, channel, conn>>
    BY <1>5 DEF ListenInVain, ReadNothing, HandleError, Disconnecting, flowVars, server
  <2>2. \A m \in Turns : line'[m] = line[m] \/ line'[m] = NoReply
    BY <2>1 DEF Types, ListenerTypes
  <2>3. ReadRepliesAreOver'
    BY <2>1, <2>2 DEF ReplyPlaces, ReadRepliesAreOver
  <2>4. OnceInItsPlace'
    BY <2>1, <2>2, AReply DEF ReplyPlaces, OnceInItsPlace, ReplySpokenOnce
  <2>5. InOnePlace'
    BY <2>1, <2>2, AReply DEF ReplyPlaces, InOnePlace
  <2> QED
    BY <2>3, <2>4, <2>5 DEF ReplyPlaces
<1>6. ASSUME NEW n \in Turns, ReadReply(n)
      PROVE  ReplyPlaces'
  <2>1. /\ from[n] \in Turns
        /\ conn[from[n]] # "over" /\ conn'[from[n]] = "over"
        /\ UNCHANGED <<spoken, channel>>
    BY <1>6 DEF ReadReply, Types, ListenerTypes, ServerTypes, FieldsAreSet, flowVars
  <2>2. \A m \in Turns : (m # n /\ line'[m] = line[m]) \/ (m = n /\ line'[m].by = from[n])
    BY <1>6 DEF ReadReply, Types, ListenerTypes
  <2>3. ReadRepliesAreOver'
    BY <1>0, <2>1, <2>2 DEF ReplyPlaces, ReadRepliesAreOver
  <2>4. OnceInItsPlace'
    BY <2>1, <2>2 DEF ReplyPlaces, ReadRepliesAreOver, OnceInItsPlace, ReplySpokenOnce
  <2>5. InOnePlace'
    BY <2>1, <2>2 DEF ReplyPlaces, ReadRepliesAreOver, InOnePlace
  <2> QED
    BY <2>3, <2>4, <2>5 DEF ReplyPlaces
<1>7. ASSUME NEW n \in Turns, Deliver(n)
      PROVE  ReplyPlaces'
  <2>1. /\ line' = [line EXCEPT ![n] = NoReply]
        /\ channel' = Append(channel, line[n])
        /\ UNCHANGED <<spoken, conn>>
        /\ line[n] \in Replies /\ line[n] # NoReply /\ channel \in Seq(Replies)
    BY <1>7 DEF Deliver, Disconnecting, server, Types, FlowTypes, ListenerTypes,
                FieldsAreSet, HasLine
  <2>2. \A m \in Turns : (m # n /\ line'[m] = line[m]) \/ (m = n /\ line'[m] = NoReply)
    BY <2>1 DEF Types, ListenerTypes
  <2>3. /\ \A i \in DOMAIN channel' : \/ i \in DOMAIN channel /\ channel'[i] = channel[i]
                                      \/ i \notin DOMAIN channel /\ channel'[i] = line[n]
        /\ \A i, j \in DOMAIN channel' :
               i \notin DOMAIN channel /\ j \notin DOMAIN channel => i = j
    BY <2>1, Sent
  <2>4. ReadRepliesAreOver'
    BY <2>1, <2>2, <2>3 DEF ReplyPlaces, ReadRepliesAreOver
  <2>5. OnceInItsPlace'
    BY <2>1, <2>2, <2>3, AReply DEF ReplyPlaces, OnceInItsPlace, InOnePlace, ReplySpokenOnce
  <2>6. InOnePlace'
    BY <2>1, <2>2, <2>3, AReply DEF ReplyPlaces, OnceInItsPlace, InOnePlace
  <2> QED
    BY <2>4, <2>5, <2>6 DEF ReplyPlaces
<1> QED
  BY <1>1, <1>2, <1>3, <1>4, <1>5, <1>6, <1>7, PlaceFrame

----------------------------------------------------------------------------
(* Answers.  As long as every turn had an answer, each turn begins with the  *)
(* senders of the turns before gone and their connections over, so that the  *)
(* shared fields and the shared message belong to the one sender of the turn.*)

Unbroken(k) == \A j \in 1 .. k : spoken[j] # NoReply

(* Every turn up to the first gap was answered over its own connection.      *)
AnswersSoFar == \A k \in Turns : Unbroken(k) => spoken[k].by = k /\ spoken[k].to = k

(* The shared fields and message belong to the sender of turn t.             *)
SenderAlone(t) ==
    /\ \A j \in 1 .. t - 1 : snd[j] = "done"
    /\ snd[t] \in HasSocket => socket = t
    /\ snd[t] \in HasWriter => writer = t
    /\ snd[t] \in {"send", "payload"} => payload[t] = t
    /\ snd[t] \in {"writer?", "print"} => message.of \in {NoTurn, t}
    /\ snd[t] = "print" => out[t] = t

(* Its connection carries its utterance.                                     *)
AskedInTurn(t) ==
    /\ conn[t] = "asked" => asked[t].of \in {NoTurn, t}
    /\ conn[t] \in {"ai", "test"} => asked[t].of = t
    /\ conn[t] \in {"asked"} \cup Kinds => snd[t] = "done"

(* What is read from its connection answers it.                              *)
RepliesInTurn(t) ==
    /\ \A k \in Turns : spoken[k].by = t => snd[t] = "done"
    /\ \A n \in Turns : line[n].by = t => /\ snd[t] = "done"
                                          /\ line[n].kind = "error" \/ line[n].to = t
    /\ \A i \in DOMAIN channel : channel[i].by = t => snd[t] = "done" /\ channel[i].to = t

TurnInOrder ==
    turn # NoTurn /\ Unbroken(turn - 1) =>
        SenderAlone(turn) /\ AskedInTurn(turn) /\ RepliesInTurn(turn)

(* An open socket has a sender on its way to a listener, or a listener on    *)
(* its way to disconnect().                                                  *)
SocketIsLookedAfter ==
    socket \notin closed \cup {NoTurn} =>
        \E n \in Turns : \/ snd[n] \in {"writer", "reader", "connected"}
                         \/ lst[n] \notin {"none", "done"}

(* The last socket is closed by the listener that its sender starts, or by   *)
(* an older one.                                                             *)
LEMMA SocketStaysLookedAfter ==
  ASSUME Types, ConnectionsInTurn, SocketIsLookedAfter, [Next]_vars
  PROVE  SocketIsLookedAfter'
<1> USE TurnNumbers DEF Types, SenderTypes, ListenerTypes
<1> SUFFICES ASSUME socket' \notin closed' \cup {NoTurn}
             PROVE  \E n \in Turns : \/ snd'[n] \in {"writer", "reader", "connected"}
                                     \/ lst'[n] \notin {"none", "done"}
  BY DEF SocketIsLookedAfter
<1>1. CASE \E n \in Turns : Connect(n)
  BY <1>1 DEF Connect, SenderGoes
<1>2. CASE ~ \E n \in Turns : Connect(n)
  <2>1. socket' = socket
    BY <1>2, FieldFrame DEF OpenWriter, OpenReader, fields
  <2>2. closed \subseteq closed'
    BY ClosedFrame DEF CloseStream, CloseSocket, Closing
  <2>3. PICK w \in Turns : \/ snd[w] \in {"writer", "reader", "connected"}
                           \/ lst[w] \notin {"none", "done"}
    BY <2>1, <2>2 DEF SocketIsLookedAfter
  <2>4. CASE lst[w] \notin {"none", "done"}
    <3>1. ASSUME NEW n \in Turns,
                 \/ StartListening(n) \/ CheckListening(n) \/ Listen(n) \/ ListenInVain(n)
                 \/ ReadReply(n) \/ ReadNothing(n) \/ CheckMessage(n) \/ ReplaceMessage(n)
                 \/ Deliver(n) \/ HandleError(n) \/ ClearFlag(n) \/ CloseStream(n)
          PROVE  \E step : step \notin {"none", "done"} /\ lst' = [lst EXCEPT ![n] = step]
      BY <3>1 DEF StartListening, CheckListening, Listen, ListenInVain, ReadReply,
                  ReadNothing, CheckMessage, ReplaceMessage, Deliver, HandleError,
                  ClearFlag, CloseStream, Disconnecting
    <3>2. ASSUME NEW n \in Turns, CloseSocket(n)
          PROVE  FALSE
      BY <3>2, <2>1 DEF CloseSocket, Closing
    <3> QED
      BY <2>4, <3>1, <3>2, ListenerFrame DEF listenerVars
  <2>5. CASE snd[w] \in {"writer", "reader", "connected"}
    <3>1. CASE Utterance
      BY <2>5, <3>1 DEF Utterance, ConnectionsInTurn, FlowTypes
    <3>2. ASSUME NEW n \in Turns, OpenWriter(n) \/ OpenReader(n)
          PROVE  /\ snd'[n] \in {"reader", "connected"}
                 /\ \A m \in Turns : m # n => snd'[m] = snd[m]
      BY <3>2 DEF OpenWriter, OpenReader, SenderGoes
    <3>3. ASSUME NEW n \in Turns, StartListening(n)
          PROVE  lst'[n] = "start"
      BY <3>3 DEF StartListening
    <3>4. ASSUME NEW n \in Turns, OpenFails(n)
          PROVE  FALSE
      BY <3>4, <2>1, <2>2 DEF OpenFails
    <3>5. ASSUME NEW n \in Turns,
                 \/ ConnectFails(n) \/ BuildPayload(n) \/ NotConnected(n)
                 \/ CheckConnected(n) \/ FillMessage(n) \/ TakeWriter(n) \/ PrintMessage(n)
          PROVE  n # w /\ \A m \in Turns : m # n => snd'[m] = snd[m]
      BY <2>5, <3>5 DEF ConnectFails, BuildPayload, NotConnected, CheckConnected,
                        FillMessage, TakeWriter, PrintMessage, SenderGoes
    <3> QED
      BY <1>2, <2>5, <3>1, <3>2, <3>3, <3>4, <3>5, SenderFrame DEF senderVars
  <2> QED
    BY <2>3, <2>4, <2>5
<1> QED
  BY <1>1, <1>2

(* In a turn with no gap before it only its own sender is at work.           *)
LEMMA OnlyItsSender ==
  ASSUME Types, ConnectionsInTurn, NEW t \in Turns, t = turn, SenderAlone(t),
         NEW n \in Turns, snd[n] \notin {"none", "done"}
  PROVE  n = t
<1>1. n \in Nat /\ t \in Nat /\ n > 0 /\ (n > t => snd[n] = "none")
  BY TurnNumbers DEF ConnectionsInTurn
<1>2. n < t => snd[n] = "done"
  BY <1>1 DEF SenderAlone
<1> QED
  BY <1>1, <1>2

(* A sender that has gone does not come back.                                *)
LEMMA DoneIsDone ==
  ASSUME Types, ConnectionsInTurn, [Next]_vars, NEW n \in Turns, snd[n] = "done"
  PROVE  snd'[n] = "done"
<1> USE DEF Types, SenderTypes
<1>1. CASE Utterance
  BY <1>1, TurnNumbers DEF Utterance, FlowTypes, ConnectionsInTurn
<1>2. ASSUME NEW m \in Turns,
             \/ Connect(m) \/ ConnectFails(m) \/ OpenFails(m) \/ OpenWriter(m)
             \/ OpenReader(m) \/ StartListening(m) \/ BuildPayload(m) \/ NotConnected(m)
             \/ CheckConnected(m) \/ FillMessage(m) \/ TakeWriter(m) \/ PrintMessage(m)
      PROVE  snd[m] # "done" /\ \A k \in Turns : k # m => snd'[k] = snd[k]
  BY <1>2 DEF Connect, ConnectFails, OpenFails, OpenWriter, OpenReader, StartListening, BuildPayload,
              NotConnected, CheckConnected, FillMessage, TakeWriter, PrintMessage, SenderGoes
<1> QED
  BY <1>1, <1>2, SenderFrame DEF senderVars

(* What the sender of the turn does to the fields and the message, and what  *)
(* nobody else does.                                                         *)
LEMMA SenderStaysAlone ==
  ASSUME Types, ConnectionsInTurn, NEW t \in Turns, t = turn, SenderAlone(t),
         [Next]_vars, turn' = turn
  PROVE  SenderAlone(t)'
<1> USE DEF Types, SenderTypes, HasSocket, HasWriter
<1>1. \A j \in 1 .. t - 1 : snd'[j] = "done"
  <2>1. \A j \in 1 .. t - 1 : j \in Turns
    BY TurnNumbers
  <2> QED
    BY <2>1, DoneIsDone DEF SenderAlone
<1>2. ASSUME NEW n \in Turns, Connect(n)
      PROVE  SenderAlone(t)'
  <2>1. n = t
    BY <1>2, OnlyItsSender DEF Connect
  <2> QED
    BY <1>1, <1>2, <2>1 DEF Connect, SenderGoes, SenderAlone
<1>3. ASSUME NEW n \in Turns, OpenWriter(n)
      PROVE  SenderAlone(t)'
  <2>1. n = t
    BY <1>3, OnlyItsSender DEF OpenWriter
  <2> QED
    BY <1>1, <1>3, <2>1 DEF OpenWriter, SenderGoes, SenderAlone
<1>4. ASSUME NEW n \in Turns, OpenReader(n) \/ StartListening(n) \/ CheckConnected(n)
      PROVE  SenderAlone(t)'
  <2>1. /\ UNCHANGED <<socket, writer, payload>>
        /\ snd[n] \in {"reader", "connected", "send"}
        /\ \E step \in {"connected", "history", "payload"} :
               /\ snd' = [snd EXCEPT ![n] = step]
               /\ step = "payload" => snd[n] = "send"
    BY <1>4 DEF OpenReader, StartListening, CheckConnected, SenderGoes, fields
  <2>2. n = t
    BY <2>1, OnlyItsSender
  <2> QED
    BY <1>1, <2>1, <2>2 DEF SenderAlone
<1>5. ASSUME NEW n \in Turns, FillMessage(n)
      PROVE  SenderAlone(t)'
  <2>1. n = t
    BY <1>5, OnlyItsSender DEF FillMessage
  <2>2. message'.of = t
    <3>1. payload[t] = t
      BY <1>5, <2>1 DEF FillMessage, SenderAlone
    <3> QED
      BY <1>5, <2>1, <3>1, ARequest DEF FillMessage
  <2> QED
    BY <1>1, <1>5, <2>1, <2>2 DEF FillMessage, SenderGoes, SenderAlone, fields
<1>6. ASSUME NEW n \in Turns,
             ConnectFails(n) \/ OpenFails(n) \/ NotConnected(n) \/ PrintMessage(n)
      PROVE  SenderAlone(t)'
  <2>1. snd' = [snd EXCEPT ![n] = "done"] /\ snd[n] \notin {"none", "done"}
    BY <1>6 DEF ConnectFails, OpenFails, NotConnected, PrintMessage, SenderGoes
  <2>2. snd'[t] = "done"
    BY <2>1, OnlyItsSender
  <2> QED
    BY <1>1, <2>2 DEF SenderAlone
<1>7. CASE UNCHANGED senderVars
  <2>0. UNCHANGED <<snd, payload, out>>
    BY <1>7 DEF senderVars
  <2>1. UNCHANGED fields
    BY <2>0, FieldFrame DEF Connect, OpenWriter, OpenReader, SenderGoes
  <2>2. message'.of \in {message.of, NoTurn}
    BY <2>0, MessageFrame DEF FillMessage, ReplaceMessage, SenderGoes
  <2> QED
    BY <1>1, <2>0, <2>1, <2>2 DEF SenderAlone, fields
<1>9. ASSUME NEW n \in Turns, BuildPayload(n)
      PROVE  SenderAlone(t)'
  <2>1. n = t
    BY <1>9, OnlyItsSender DEF BuildPayload
  <2> QED
    BY <1>1, <1>9, <2>1 DEF BuildPayload, SenderGoes, SenderAlone, fields
<1>10. ASSUME NEW n \in Turns, TakeWriter(n)
      PROVE  SenderAlone(t)'
  <2>1. n = t
    BY <1>10, OnlyItsSender DEF TakeWriter
  <2> QED
    BY <1>1, <1>10, <2>1 DEF TakeWriter, SenderGoes, SenderAlone, fields
<1>8. ~ Utterance
  BY TurnNumbers DEF Utterance, FlowTypes
<1> QED
  BY <1>2, <1>3, <1>4, <1>5, <1>6, <1>7, <1>8, <1>9, <1>10, SenderFrame

(* Printing, reading and replying on the connection of the turn.             *)
LEMMA AskedStaysInTurn ==
  ASSUME Types, FieldsAreSet, ConnectionsInTurn, NEW t \in Turns, t = turn, SenderAlone(t),
         AskedInTurn(t), [Next]_vars
  PROVE  AskedInTurn(t)'
<1> USE DEF Types, SenderTypes, ServerTypes, Kinds
<1>1. snd[t] = "done" => snd'[t] = "done"
  BY DoneIsDone
<1>2. ASSUME conn'[t] = conn[t], asked'[t] = asked[t]
      PROVE  AskedInTurn(t)'
  BY <1>1, <1>2 DEF AskedInTurn
<1>3. ASSUME NEW n \in Turns, Connect(n)
      PROVE  AskedInTurn(t)'
  <2>1. n = t
    BY <1>3, OnlyItsSender DEF Connect
  <2> QED
    BY <1>3, <2>1 DEF Connect, AskedInTurn
<1>4. ASSUME NEW n \in Turns, PrintMessage(n)
      PROVE  AskedInTurn(t)'
  <2>1. n = t /\ snd[t] = "print" /\ snd'[t] = "done"
    BY <1>4, OnlyItsSender DEF PrintMessage, SenderGoes
  <2>2. out[n] = t /\ message.of \in {NoTurn, t}
    BY <2>1 DEF SenderAlone
  <2>3. CASE /\ conn' = [conn EXCEPT ![out[n]] = "asked"]
             /\ asked' = [asked EXCEPT ![out[n]] = message]
    BY <2>1, <2>2, <2>3 DEF AskedInTurn
  <2> QED
    BY <1>2, <1>4, <2>3 DEF PrintMessage, server
<1>5. ASSUME NEW n \in Turns, ReadReply(n)
      PROVE  AskedInTurn(t)'
  <2>1. from[n] = t => conn'[t] = "over"
    BY <1>5 DEF ReadReply
  <2>2. from[n] # t => conn'[t] = conn[t] /\ asked'[t] = asked[t]
    BY <1>5 DEF ReadReply
  <2> QED
    BY <1>2, <2>1, <2>2 DEF AskedInTurn
<1>6. ASSUME NEW c \in Turns, ServerReplies(c)
      PROVE  AskedInTurn(t)'
  <2>1. c # t => conn'[t] = conn[t] /\ asked'[t] = asked[t]
    BY <1>6 DEF ServerReplies
  <2>2. ASSUME c = t
        PROVE  AskedInTurn(t)'
    <3>1. conn[t] = "asked" /\ conn'[t] \in KindsFor(asked[t]) /\ asked'[t] = asked[t]
      BY <1>6, <2>2 DEF ServerReplies
    <3>2. asked[t].of = NoTurn => conn'[t] = "error"
      BY <3>1 DEF KindsFor
    <3>3. conn'[t] \in Kinds
      BY <3>1 DEF KindsFor
    <3> QED
      BY <1>1, <3>1, <3>2, <3>3 DEF AskedInTurn
  <2> QED
    BY <1>2, <2>1, <2>2
<1>7. ASSUME NEW c \in Turns, ServerCloses(c)
      PROVE  AskedInTurn(t)'
  <2>1. c # t => conn'[t] = conn[t] /\ asked'[t] = asked[t]
    BY <1>7 DEF ServerCloses
  <2>2. c = t => conn'[t] = "over"
    BY <1>7 DEF ServerCloses
  <2> QED
    BY <1>2, <2>1, <2>2 DEF AskedInTurn
<1> QED
  BY <1>2, <1>3, <1>4, <1>5, <1>6, <1>7, ServerFrame DEF server

(* The ways of a reply, with what it answers.                                *)
LEMMA RepliesStayInTurn ==
  ASSUME Types, FieldsAreSet, ConnectionsInTurn, NEW t \in Turns, AskedInTurn(t),
         RepliesInTurn(t), [Next]_vars
  PROVE  RepliesInTurn(t)'
<1> USE PlaceTypes
<1>1. snd[t] = "done" => snd'[t] = "done"
  BY DoneIsDone
<1>2. CASE UNCHANGED <<spoken, line, channel>>
  BY <1>1, <1>2 DEF RepliesInTurn
<1>3. ASSUME TakeAnswer \/ Timeout \/ NewConversation
      PROVE  RepliesInTurn(t)'
  <2>1. \A i \in DOMAIN channel' : \E j \in DOMAIN channel : channel'[i] = channel[j]
    BY <1>3, Received, EmptySeq, LenProperties
       DEF TakeAnswer, Timeout, NewConversation, Types, FlowTypes
  <2>2. \A k \in Turns : \/ spoken'[k] = spoken[k] \/ spoken'[k] = NoReply
                         \/ \E j \in DOMAIN channel : spoken'[k] = channel[j]
    BY <1>3, Received DEF TakeAnswer, Timeout, NewConversation, Speak, Types, FlowTypes
  <2>3. line' = line
    BY <1>3 DEF TakeAnswer, Timeout, NewConversation, listenerVars
  <2> QED
    BY <1>1, <2>1, <2>2, <2>3, AReply DEF RepliesInTurn
<1>4. ASSUME NEW n \in Turns, ListenInVain(n) \/ ReadNothing(n) \/ HandleError(n)
      PROVE  RepliesInTurn(t)'
  <2>1. line' = [line EXCEPT ![n] = NoReply] /\ UNCHANGED <<spoken, channel>>
    BY <1>4 DEF ListenInVain, ReadNothing, HandleError, Disconnecting, flowVars
  <2>2. \A m \in Turns : line'[m] = line[m] \/ line'[m] = NoReply
    BY <2>1 DEF Types, ListenerTypes
  <2> QED
    BY <1>1, <2>1, <2>2, AReply DEF RepliesInTurn
<1>5. ASSUME NEW n \in Turns, ReadReply(n)
      PROVE  RepliesInTurn(t)'
  <2>1. /\ from[n] \in Turns /\ conn[from[n]] \in Kinds
        /\ UNCHANGED <<spoken, channel>>
    BY <1>5 DEF ReadReply, Types, ListenerTypes, FieldsAreSet, flowVars, Kinds
  <2>2. \A m \in Turns : \/ line'[m] = line[m]
                         \/ line'[m] = [kind |-> conn[from[n]], to |-> asked[from[n]].of,
                                        by |-> from[n]]
    BY <1>5 DEF ReadReply, Types, ListenerTypes
  <2> QED
    BY <1>1, <2>1, <2>2 DEF RepliesInTurn, AskedInTurn, Kinds
<1>6. ASSUME NEW n \in Turns, Deliver(n)
      PROVE  RepliesInTurn(t)'
  <2>1. /\ line' = [line EXCEPT ![n] = NoReply]
        /\ line[n].kind # "error" /\ channel' = Append(channel, line[n])
        /\ UNCHANGED spoken
        /\ line[n] \in Replies /\ channel \in Seq(Replies)
    BY <1>6 DEF Deliver, Disconnecting, Types, FlowTypes, ListenerTypes, FieldsAreSet,
                HasLine
  <2>2. \A m \in Turns : line'[m] = line[m] \/ line'[m] = NoReply
    BY <2>1 DEF Types, ListenerTypes
  <2>3. \A i \in DOMAIN channel' : \/ i \in DOMAIN channel /\ channel'[i] = channel[i]
                                   \/ line[n].kind # "error" /\ channel'[i] = line[n]
    BY <2>1, Sent
  <2> QED
    BY <1>1, <2>1, <2>2, <2>3, AReply DEF RepliesInTurn
<1> QED
  BY <1>2, <1>3, <1>4, <1>5, <1>6, PlaceFrame

(* A new turn begins in order when the last one was answered: then its       *)
(* sender is done.                                                           *)
LEMMA TurnStaysInOrder ==
  ASSUME Types, FieldsAreSet, ConnectionsInTurn, ReplyPlaces, AnswersSoFar, TurnInOrder,
         [Next]_vars
  PROVE  TurnInOrder'
<1>1. CASE Utterance
  <2>0. turn + 1 \in Turns
    BY <1>1, TurnNumbers DEF Utterance, Types, FlowTypes
  <2> PICK t \in Turns : t = turn + 1
    BY <2>0
  <2>1. /\ turn \in Nat /\ t \in Nat /\ t \notin {NoTurn, turn} /\ t > turn
        /\ turn' = t
        /\ snd' = [snd EXCEPT ![t] = "connect"]
        /\ UNCHANGED <<spoken, channel, line, conn, asked>>
    BY <1>1, TurnNumbers DEF Utterance, Types, FlowTypes, listenerVars, server
  <2>2. snd[t] = "none" /\ conn[t] = "none"
    BY <2>1, TurnNumbers DEF ConnectionsInTurn
  <2>3. RepliesInTurn(t)'
    BY <2>1, <2>2, PlaceTypes DEF ReplyPlaces, ReadRepliesAreOver, RepliesInTurn
  <2>4. AskedInTurn(t)'
    BY <2>1, <2>2 DEF AskedInTurn, Kinds
  <2>5. ASSUME Unbroken(turn)
        PROVE  \A j \in 1 .. turn : snd[j] = "done"
    <3>1. CASE turn = 0
      BY <3>1
    <3>2. CASE turn # 0
      <4>1. turn \in Turns /\ turn # NoTurn
        BY <2>1, <3>2, TurnNumbers DEF Types, FlowTypes
      <4>2. spoken[turn].by = turn
        BY <2>5, <4>1 DEF AnswersSoFar
      <4>3. 1 .. turn - 1 \subseteq 1 .. turn
        BY <2>1
      <4>4. Unbroken(turn - 1)
        BY <2>5, <4>3 DEF Unbroken
      <4>5. /\ \A j \in 1 .. turn - 1 : snd[j] = "done"
            /\ snd[turn] = "done"
        BY <4>1, <4>2, <4>4 DEF TurnInOrder, SenderAlone, RepliesInTurn
      <4>6. \A j \in 1 .. turn : j \in 1 .. turn - 1 \/ j = turn
        BY <2>1
      <4> QED
        BY <4>5, <4>6
    <3> QED
      BY <3>1, <3>2
  <2>6. ASSUME Unbroken(turn)
        PROVE  SenderAlone(t)'
    <3>1. t - 1 = turn /\ \A j \in 1 .. turn : j # t /\ j \in Turns
      BY <2>1, TurnNumbers
    <3>2. \A j \in 1 .. turn : snd'[j] = "done"
      BY <2>1, <2>5, <2>6, <3>1 DEF Types, SenderTypes
    <3>3. snd'[t] = "connect"
      BY <2>1 DEF Types, SenderTypes
    <3> QED
      BY <3>1, <3>2, <3>3 DEF SenderAlone, HasSocket, HasWriter
  <2>7. Unbroken(turn - 1)' => Unbroken(turn)
    <3>1. turn' - 1 = turn
      BY <2>1
    <3> QED
      BY <2>1, <3>1 DEF Unbroken
  <2>8. RepliesInTurn(turn)' /\ AskedInTurn(turn)' /\ (Unbroken(turn) => SenderAlone(turn)')
    BY <2>1, <2>3, <2>4, <2>6 DEF RepliesInTurn, AskedInTurn, SenderAlone
  <2> QED
    BY <2>7, <2>8 DEF TurnInOrder
<1>2. CASE ~ Utterance
  <2>1. turn' = turn
    BY <1>2, FlowFrame DEF TakeAnswer, Timeout, NewConversation, Deliver, flowVars
  <2> SUFFICES ASSUME NEW t \in Turns, t = turn, Unbroken(turn - 1)'
               PROVE  SenderAlone(t)' /\ AskedInTurn(t)' /\ RepliesInTurn(t)'
    BY <2>1, TurnNumbers
       DEF TurnInOrder, SenderAlone, AskedInTurn, RepliesInTurn, Types, FlowTypes
  <2>2. \A j \in 1 .. t - 1 : spoken'[j] = spoken[j]
    <3>1. \/ UNCHANGED spoken
          \/ \E reply : spoken' = [spoken EXCEPT ![turn] = reply]
      BY <1>2, FlowFrame, Zenon
         DEF TakeAnswer, Timeout, NewConversation, Deliver, Speak, flowVars
    <3>2. \A j \in 1 .. t - 1 : j # t /\ j \in Turns
      BY TurnNumbers
    <3> QED
      BY <3>1, <3>2 DEF Types, FlowTypes
  <2>3. Unbroken(turn - 1)
    BY <2>1, <2>2 DEF Unbroken
  <2>4. SenderAlone(t) /\ AskedInTurn(t) /\ RepliesInTurn(t)
    BY <2>3, TurnNumbers DEF TurnInOrder
  <2> QED
    BY <2>1, <2>4, SenderStaysAlone, AskedStaysInTurn, RepliesStayInTurn
<1> QED
  BY <1>1, <1>2

(* The answer taken in turn t came over a connection no later than t, and    *)
(* those of the earlier turns are used up.                                   *)
LEMMA AnswersStay ==
  ASSUME Types, ConnectionsInTurn, ConnectionsInTurn', ReplyPlaces, AnswersSoFar, TurnInOrder,
         [Next]_vars
  PROVE  AnswersSoFar'
<1> USE TurnNumbers
<1>1. CASE UNCHANGED spoken
  BY <1>1 DEF AnswersSoFar, Unbroken
<1>2. ASSUME NEW reply, spoken' = [spoken EXCEPT ![turn] = reply], turn' = turn,
             reply # NoReply /\ turn # NoTurn /\ Unbroken(turn - 1)
                 => reply.by = turn /\ reply.to = turn
      PROVE  AnswersSoFar'
  <2> SUFFICES ASSUME NEW k \in Turns, Unbroken(k)'
               PROVE  spoken'[k].by = k /\ spoken'[k].to = k
    BY DEF AnswersSoFar
  <2>1. k \in Nat /\ turn \in Nat /\ k \in 1 .. k
    BY DEF Types, FlowTypes
  <2>2. spoken'[k] # NoReply
    BY <2>1 DEF Unbroken
  <2>3. k <= turn
    BY <1>2, <2>1, <2>2 DEF ConnectionsInTurn
  <2>4. \A j \in 1 .. k : j < turn => spoken'[j] = spoken[j]
    <3>1. \A j \in 1 .. k : j \in Turns /\ (j < turn => j # turn)
      BY <2>1
    <3> QED
      BY <1>2, <3>1 DEF Types, FlowTypes
  <2>5. CASE k < turn
    <3>1. Unbroken(k)
      BY <2>1, <2>4, <2>5 DEF Unbroken
    <3> QED
      BY <2>1, <2>4, <2>5, <3>1 DEF AnswersSoFar
  <2>6. CASE k = turn
    <3>1. spoken'[k] = reply
      BY <1>2, <2>6 DEF Types, FlowTypes
    <3>2. Unbroken(turn - 1)
      BY <2>1, <2>4, <2>6 DEF Unbroken
    <3>3. turn # NoTurn
      BY <2>6
    <3> QED
      BY <1>2, <2>2, <2>6, <3>1, <3>2, <3>3
  <2> QED
    BY <2>1, <2>3, <2>5, <2>6
<1>3. CASE Timeout
  BY <1>1, <1>2, <1>3 DEF Timeout, Speak
<1>4. CASE TakeAnswer
  <2> DEFINE reply == channel[1]
  <2>1. /\ channel \in Seq(Replies) /\ channel # << >>
        /\ turn' = turn /\ spoken' = [spoken EXCEPT ![turn] = Head(channel)]
    BY <1>4 DEF TakeAnswer, Speak, Types, FlowTypes
  <2>2. 1 \in DOMAIN channel /\ Head(channel) = reply
    BY <2>1, Received
  <2>3. reply.by \in Turns /\ conn[reply.by] = "over"
    BY <2>2, PlaceTypes DEF ReplyPlaces, ReadRepliesAreOver
  <2>4. reply.by <= turn /\ turn \in Nat /\ reply.by \in Nat
    BY <2>3 DEF ConnectionsInTurn, Types, FlowTypes
  <2>5. ASSUME turn # NoTurn, Unbroken(turn - 1)
        PROVE  reply.by = turn /\ reply.to = turn
    <3>1. ASSUME reply.by < turn
          PROVE  FALSE
      <4> DEFINE j == reply.by
      <4>1. 1 .. j \subseteq 1 .. turn - 1
        BY <2>3, <2>4, <3>1
      <4>2. Unbroken(j)
        BY <2>5, <4>1 DEF Unbroken
      <4>3. spoken[j].by = j
        BY <2>3, <4>2 DEF AnswersSoFar
      <4> QED
        BY <2>2, <2>3, <4>3 DEF ReplyPlaces, InOnePlace
    <3>2. reply.by = turn
      BY <2>4, <3>1
    <3> QED
      BY <2>2, <2>5, <3>2 DEF TurnInOrder, RepliesInTurn
  <2> QED
    BY <1>2, <2>1, <2>2, <2>5
<1>5. ASSUME Utterance \/ NewConversation \/ (\E n \in Turns : Deliver(n))
             \/ UNCHANGED flowVars
      PROVE  UNCHANGED spoken
  BY <1>5 DEF Utterance, NewConversation, Deliver, flowVars
<1> QED
  BY <1>1, <1>3, <1>4, <1>5, FlowFrame

----------------------------------------------------------------------------

(* The inductive invariant.                                                  *)
ClientInv == /\ Types /\ FieldsAreSet /\ ConnectionsInTurn
             /\ ReplyPlaces /\ AnswersSoFar /\ TurnInOrder
             /\ SocketIsLookedAfter

(* Nothing is connected in the beginning.                                    *)
LEMMA InitEstablishes == Init => ClientInv
<1> SUFFICES ASSUME Init PROVE ClientInv
  OBVIOUS
<1> USE AReply, TurnNumbers DEF Init
<1>1. channel \in Seq(Replies) /\ DOMAIN channel = {}
  BY EmptySeq, LenProperties
<1>2. Types
  BY <1>1, ARequest
     DEF Types, FlowTypes, SenderTypes, ListenerTypes, FieldTypes, ServerTypes
<1>3. FieldsAreSet
  BY DEF FieldsAreSet, HasSocket, HasWriter, HasReader, HasLine, Leaving
<1>4. ConnectionsInTurn
  BY DEF ConnectionsInTurn
<1>5. ReplyPlaces
  BY <1>1 DEF ReplyPlaces, ReadRepliesAreOver, OnceInItsPlace, InOnePlace, ReplySpokenOnce
<1>6. AnswersSoFar
  BY DEF AnswersSoFar, Unbroken
<1>7. TurnInOrder /\ SocketIsLookedAfter
  BY DEF TurnInOrder, SocketIsLookedAfter
<1> QED
  BY <1>2, <1>3, <1>4, <1>5, <1>6, <1>7 DEF ClientInv

(* By the lemmas above.                                                      *)
LEMMA NextPreserves == ClientInv /\ [Next]_vars => ClientInv'
<1> SUFFICES ASSUME ClientInv, [Next]_vars PROVE ClientInv'
  OBVIOUS
<1>1. Types' /\ FieldsAreSet' /\ ConnectionsInTurn'
  BY TypesKept, FieldsStaySet, ConnectionsStayInTurn DEF ClientInv
<1>2. ReplyPlaces' /\ SocketIsLookedAfter'
  BY <1>1, ReplyPlacesKept, SocketStaysLookedAfter DEF ClientInv
<1>3. AnswersSoFar' /\ TurnInOrder'
  BY <1>1, AnswersStay, TurnStaysInOrder DEF ClientInv
<1> QED
  BY <1>1, <1>2, <1>3 DEF ClientInv

(* The invariant of the client holds for any number of utterances.           *)
THEOREM ClientInvHolds == Spec => []ClientInv
  BY InitEstablishes, NextPreserves, PTL DEF Spec

(* Types.  No coroutine uses a field that was never set, and disconnect() is *)
(* never called more than three times for a request.                         *)
THEOREM ClientTypes == Spec => []TypeOK
<1>1. Init => connected \in BOOLEAN
  BY Zenon DEF Init
<1>2. connected \in BOOLEAN /\ [Next]_vars => (connected \in BOOLEAN)'
  <2>1. connected' \in {TRUE, FALSE, connected} \/ ~[Next]_vars
    BY FlagFrame, Zenon DEF StartListening, ClearFlag
  <2> QED
    BY <2>1, Zenon
<1>3. ClientInv /\ connected \in BOOLEAN => TypeOK
  <2>1. FieldTypes => {socket, writer, reader} \subseteq Turns \cup {NoTurn}
    BY DEF FieldTypes
  <2> QED
    BY <2>1, Zenon DEF ClientInv, Types, FlowTypes, SenderTypes, ListenerTypes, FieldTypes,
                       ServerTypes, Requests, TypeOK
<1> QED
  BY <1>1, <1>2, <1>3, ClientInvHolds, PTL DEF Spec

(* Whatever listener reads a reply, through whichever connection and however *)
(* late, the robot says it at most once (SocketClient.startListening,        *)
(* Conversation's channel.receive).                                          *)
THEOREM RepliesAreSpokenOnce == Spec => []ReplySpokenOnce
<1>1. ClientInv => ReplySpokenOnce
  BY DEF ClientInv, ReplyPlaces, OnceInItsPlace
<1> QED
  BY <1>1, ClientInvHolds, PTL

(* As long as no turn ended without an answer, every answer belongs to its   *)
(* utterance, for any number of utterances: the shared fields and message of *)
(* SocketClient cannot mix answers up (Conversation.kt:108).                 *)
THEOREM AnswersFit == Spec => []AnswersFitUnlessOneWasMissed
<1>1. ASSUME Types, AnswersSoFar
      PROVE  AnswersFitUnlessOneWasMissed
  <2> SUFFICES ASSUME NEW k \in Turns, spoken[k] # NoReply,
                      \A j \in 1 .. k - 1 : spoken[j] # NoReply
               PROVE  spoken[k].to = k
    BY DEF AnswersFitUnlessOneWasMissed
  <2>1. \A j \in 1 .. k : j \in 1 .. k - 1 \/ j = k
    BY TurnNumbers
  <2>2. Unbroken(k)
    BY <2>1 DEF Unbroken
  <2> QED
    BY <2>2, <1>1 DEF AnswersSoFar
<1>2. ClientInv => AnswersFitUnlessOneWasMissed
  BY <1>1 DEF ClientInv
<1> QED
  BY <1>2, ClientInvHolds, PTL

(* However connect() fails and whichever listener calls disconnect(), no     *)
(* connection is left open when the coroutines are gone.                     *)
THEOREM LastConnectionGetsClosed == Spec => []LastConnectionIsClosed
<1>1. ClientInv => LastConnectionIsClosed
  BY DEF ClientInv, SocketIsLookedAfter, LastConnectionIsClosed, Quiet
<1> QED
  BY <1>1, ClientInvHolds, PTL
=============================================================================
