------------------------------- MODULE Dialogue -------------------------------
(***************************************************************************)
(* A robot's conversation from end to end: on one side the Conversation      *)
(* state of the skill with the history it sends, Parser, and SocketClient's  *)
(* choice of request; on the other the server's cut of a request, the call   *)
(* of Gemini (GeminiCall) and the canned answers (CannedResponses), which    *)
(* other workers give at the same time.  An exchange may fail, be refused,   *)
(* lose its reply or take longer than the robot waits.  One exchange ends    *)
(* before the next utterance: exchanges that overlap on the shared socket    *)
(* are the subject of DialogClient, concurrent parsing that of               *)
(* RequestHandler.                                                           *)
(***************************************************************************)
EXTENDS CannedResponses, Sequences, SequencesExt

CONSTANTS Ours,            \* the worker that serves this robot
          HistoryLength,   \* lines of the history sent with a request, 5
          Sizes,           \* sizes of a line of JSON, separator included
          Room,            \* size that fits into client_message_t.conversation
          MaxChunks        \* bound on the pieces of a body, see GeminiCall

ASSUME DialogueAssumption == /\ Ours \in Workers
                             /\ HistoryLength \in Nat \ {0, 1}
                             /\ Sizes \subseteq Nat \ {0}
                             /\ Room \in Nat
                             /\ MaxChunks \in Nat

VARIABLES turn,      \* what the flow thread does
          exchange,  \* how far the last request is
          channel,   \* replies handed over and not yet taken by the flow
          history,   \* the end of Furhat.dialogHistory
          waited,    \* the waiting sentence of this turn was spoken
          mode,      \* class of SocketClient.message
          request,   \* the last request for the AI, as it reached Gemini
          reply,     \* the line on its way to the client
          spoken,    \* what the robot said last in answer to an utterance
          causes     \* why AI requests were answered with canned text so far

flowVars == <<turn, history, waited, spoken>>
exchangeVars == <<exchange, mode, request, reply, causes>>
turnVars == <<flowVars, channel, exchangeVars>>

(* The variables of the current call of generate_ai_response.                *)
VARIABLES stage, owned, chunks, http_code, response, success, result, shown

callVars == <<stage, owned, chunks, http_code, response, success, result, shown>>

vars == <<turnVars, callVars, cannedVars>>

Call == INSTANCE GeminiCall

Turns == {"gone", "listening", "waiting"}

(* exchange: "request" before the server has it, "ai" and "canned" while the *)
(* server works on one or the other answer, "reply" on its way back.         *)
Exchanges == {"none", "request", "ai", "canned", "reply"}

(* A ConversationLine; "now" marks the utterance that is being answered.     *)
Lines == [role : {"user", "model"}, size : Sizes, now : BOOLEAN]

Line(role, size) == [role |-> role, size |-> size, now |-> role = "user"]

Before(lines) == [i \in DOMAIN lines |-> [lines[i] EXCEPT !.now = FALSE]]

(* Slip: the first lines of the dialogue are taken.                          *)
RememberTheBeginning(lines, line) ==
    IF Len(lines) < HistoryLength THEN Append(lines, line) ELSE lines

(* Furhat keeps everything that was said; a request takes the last five      *)
(* items, so no others need to be kept here.                                 *)
Remember(lines, line) ==
    LET all == Append(lines, line)
    IN  IF Len(all) <= HistoryLength THEN all ELSE Tail(all)

Size(lines) == FoldLeft(LAMBDA n, line : n + line.size, 0, lines)

(* What is left of the lines in client_message_t.conversation.  A cut after  *)
(* a complete line leaves JSON that Gemini can read; any other does not.     *)
Kept(lines) == LET fitting == {n \in 0 .. Len(lines) : Size(SubSeq(lines, 1, n)) <= Room}
               IN  SubSeq(lines, 1, Max(fitting))

Broken(lines) == Len(Kept(lines)) < Len(lines) /\ Size(Kept(lines)) < Room

AsReceived(lines) ==
    [readable |-> ~Broken(lines),
     whole    |-> Kept(lines) = lines,
     now      |-> \E i \in DOMAIN Kept(lines) : Kept(lines)[i].now]

Requests == [readable : BOOLEAN, whole : BOOLEAN, now : BOOLEAN]
----------------------------------------------------------------------------

Init == /\ turn = "gone"
        /\ exchange = "none"
        /\ channel = <<>>
        /\ history = <<>>
        /\ waited = FALSE
        /\ mode = "ai"                    \* TEST_MODE is false
        /\ request = AsReceived(<<>>)
        /\ reply = "none"
        /\ spoken = "none"
        /\ causes = {}
        /\ Call!Init
        /\ CannedInit

(* Whatever the robot says goes into Furhat.dialogHistory.                   *)
RobotSays == \E n \in Sizes : history' = Remember(history, Line("model", n))

----------------------------------------------------------------------------
(* The flow thread: the Conversation state and BaseWOCatchAll.               *)

(* A Conversation state has a channel of its own; its onEntry clears the     *)
(* history and asks the opening question.                                    *)
NewConversation ==
    /\ turn = "gone"
    /\ \E n \in Sizes : history' = <<Line("model", n)>>
    /\ channel' = <<>>
    /\ turn' = "listening"
    /\ spoken' = "none"
    /\ UNCHANGED <<waited, exchangeVars, callVars, cannedVars>>

UserLeaves ==
    /\ turn = "listening"
    /\ turn' = "gone"
    /\ UNCHANGED <<history, waited, spoken, channel, exchangeVars, callVars, cannedVars>>

(* onResponse is entered; the sender coroutine is launched.                  *)
Utterance ==
    /\ turn = "listening"
    /\ exchange = "none"
    /\ \E n \in Sizes : history' = Remember(history, Line("user", n))
    /\ turn' = "waiting"
    /\ exchange' = "request"
    /\ request' = AsReceived(<<>>)
    /\ spoken' = "none"
    /\ UNCHANGED <<waited, channel, mode, reply, causes, callVars, cannedVars>>

(* The user says nothing and onNoResponse asks again, or makes a short pause *)
(* and onInterimResponse says "okay".                                        *)
Pause ==
    /\ turn = "listening"
    /\ RobotSays
    /\ UNCHANGED <<turn, waited, spoken, channel, exchangeVars, callVars, cannedVars>>

(* Three seconds pass and the channel is empty.  connect() may not have      *)
(* returned yet: the sender reads the history afterwards.                    *)
WaitingSentence ==
    /\ turn = "waiting"
    /\ channel = <<>>
    /\ ~waited
    /\ RobotSays
    /\ waited' = TRUE
    /\ UNCHANGED <<turn, spoken, channel, exchangeVars, callVars, cannedVars>>

(* The robot speaks and listens: no utterance is being answered any more.    *)
EndTurn ==
    /\ \E n \in Sizes : history' = Remember(Before(history), Line("model", n))
    /\ turn' = "listening"
    /\ waited' = FALSE

(* Slip: the second receive has no timeout and ends with the connection.     *)
GiveUpWithTheExchange ==
    /\ turn = "waiting"
    /\ channel = <<>>
    /\ waited
    /\ exchange = "none"
    /\ spoken' = "repeat request"
    /\ EndTurn
    /\ UNCHANGED <<channel, exchangeVars, callVars, cannedVars>>

(* Two more seconds pass, whatever became of the exchange: the robot asks    *)
(* the user to repeat and listens.                                           *)
GiveUp ==
    /\ turn = "waiting"
    /\ channel = <<>>
    /\ waited
    /\ spoken' = "repeat request"
    /\ EndTurn
    /\ UNCHANGED <<channel, exchangeVars, callVars, cannedVars>>

(* What is left in the channel when a turn ends answers a later utterance.   *)
Late(replies) == [i \in DOMAIN replies |-> "late"]

(* channel.receive returns, and the flow speaks the answer and listens.      *)
TakeReply ==
    /\ turn = "waiting"
    /\ channel # <<>>
    /\ spoken' = Head(channel)
    /\ channel' = Late(Tail(channel))
    /\ EndTurn
    /\ UNCHANGED <<exchangeVars, callVars, cannedVars>>

Flow == WaitingSentence \/ GiveUp \/ TakeReply

----------------------------------------------------------------------------
(* The exchange: sender, server and listener.                                *)

(* connect() fails, or the request gets lost: nobody tells the flow.         *)
NoConnection ==
    /\ exchange = "request"
    /\ exchange' = "none"
    /\ UNCHANGED <<flowVars, channel, mode, request, reply, causes, callVars, cannedVars>>

(* The payload is built from the history of this moment and sent with the    *)
(* code of the current message object.                                       *)
SendRequest ==
    /\ exchange = "request"
    /\ IF mode = "ai" THEN /\ request' = AsReceived(history)
                           /\ exchange' = "ai"
                      ELSE /\ exchange' = "canned"
                           /\ UNCHANGED request
    /\ UNCHANGED <<flowVars, channel, mode, reply, causes, callVars, cannedVars>>

(* The server cannot parse the request, or misses a field of it, and answers *)
(* with an error.                                                            *)
Refuse ==
    /\ exchange = "request"
    /\ exchange' = "reply"
    /\ reply' = "error"
    /\ UNCHANGED <<flowVars, channel, mode, request, causes, callVars, cannedVars>>

(* The server's AI call.  Gemini answers broken JSON with an error.          *)
AskAi ==
    /\ exchange = "ai"
    /\ Call!Step
    /\ ~request.readable => http_code' # 200
    /\ UNCHANGED <<turnVars, cannedVars>>

(* The text is sent as MSG_AI_DIALOG_RESPONSE, or the handler falls through  *)
(* to the case of a test request.                                            *)
AiReturned ==
    /\ exchange = "ai"
    /\ stage = "shown"
    /\ IF shown = "text"
         THEN exchange' = "reply" /\ reply' = "ai" /\ UNCHANGED causes
         ELSE /\ exchange' = "canned"
              /\ causes' = causes \cup {IF ~request.readable /\ http_code = 400
                                         THEN "too long" ELSE "fault"}
              /\ UNCHANGED reply
    /\ Call!NewCall
    /\ UNCHANGED <<flowVars, channel, mode, request, cannedVars>>

LoadPlace ==
    /\ exchange = "canned"
    /\ Load(Ours)
    /\ UNCHANGED <<turnVars, callVars>>

(* An index outside of the table may find a text or end the process.         *)
SendCanned ==
    /\ exchange = "canned"
    /\ Store(Ours)
    /\ reply' \in {"canned"} \cup (IF InTable(loaded[Ours]) THEN {} ELSE {"nothing"})
    /\ exchange' = "reply"
    /\ UNCHANGED <<flowVars, channel, mode, request, causes, callVars>>

(* Other connections take canned answers in the same language.               *)
OtherWorkers ==
    /\ \E w \in Workers \ {Ours} : Load(w) \/ Store(w)
    /\ UNCHANGED <<turnVars, callVars>>

(* Slip: the two codes of an answer are mixed up.                            *)
HandleAnyReply ==
    /\ exchange = "reply"
    /\ reply \in {"ai", "canned"}
    /\ mode' = IF reply = "ai" THEN "test" ELSE mode
    /\ channel' = Append(channel, IF turn = "waiting" THEN reply ELSE "late")
    /\ exchange' = "none"
    /\ reply' = "none"
    /\ UNCHANGED <<flowVars, request, causes, callVars, cannedVars>>

(* handleServerMessage in the listener, in time or after the robot has given *)
(* up: a canned answer makes all requests to come test requests.             *)
HandleReply ==
    /\ exchange = "reply"
    /\ reply \in {"ai", "canned"}
    /\ mode' = IF reply = "canned" THEN "test" ELSE mode
    /\ channel' = Append(channel, IF turn = "waiting" THEN reply ELSE "late")
    /\ exchange' = "none"
    /\ reply' = "none"
    /\ UNCHANGED <<flowVars, request, causes, callVars, cannedVars>>

(* onServerError only prints; the connection is closed.                      *)
HandleError ==
    /\ exchange = "reply"
    /\ reply = "error"
    /\ exchange' = "none"
    /\ reply' = "none"
    /\ UNCHANGED <<flowVars, channel, mode, request, causes, callVars, cannedVars>>

(* The connection ends before its reply was read: readLine returns null or   *)
(* throws.                                                                   *)
ReplyLost ==
    /\ exchange = "reply"
    /\ exchange' = "none"
    /\ reply' = "none"
    /\ UNCHANGED <<flowVars, channel, mode, request, causes, callVars, cannedVars>>

Exchange == \/ NoConnection \/ SendRequest \/ Refuse \/ AskAi \/ AiReturned
            \/ LoadPlace \/ SendCanned \/ HandleReply \/ HandleError \/ ReplyLost

Next == \/ NewConversation \/ UserLeaves \/ Utterance \/ Pause \/ Flow
        \/ Exchange \/ OtherWorkers

Spec == Init /\ [][Next]_vars

(* The flow thread runs and its two timers expire.  Nothing is assumed of    *)
(* the exchange: not that it ends, nor that a reply comes.                   *)
FairSpec == Spec /\ WF_vars(Flow)
----------------------------------------------------------------------------

TypeOK == /\ turn \in Turns
          /\ exchange \in Exchanges
          /\ channel \in Seq({"ai", "canned", "late"})
          /\ history \in Seq(Lines) /\ Len(history) <= HistoryLength
          /\ waited \in BOOLEAN
          /\ mode \in {"ai", "test"}
          /\ request \in Requests
          /\ reply \in {"none", "ai", "canned", "error", "nothing"}
          /\ spoken \in {"none", "ai", "canned", "late", "repeat request"}
          /\ causes \subseteq {"fault", "too long"}
          /\ Call!TypeOK
          /\ CannedTypeOK

(* Over any number of turns, nothing that a call of Gemini acquires is kept  *)
(* or released twice (gemini_ai.c:207-435).                                  *)
EverythingReleasedOnce == Call!EverythingReleasedOnce

(* In every turn the client gets as AI text only the text of a 200 answer.   *)
OnlyTextPassesForAnswer == Call!OnlyTextPassesForAnswer

(* An AI answer that comes in time answers the utterance of its turn:        *)
(* whatever was said before it, and although a waiting sentence may come     *)
(* after it, the lines sent hold it (Conversation.kt:147), and when the      *)
(* server cuts it off the AI refuses the rest, unless the cut falls exactly  *)
(* between two lines.                                                        *)
AiAnswersTheUtterance ==
    spoken = "ai" => request.now \/ (request.readable /\ ~request.whole)

(* The robot leaves the AI only after an AI call of this robot failed or its *)
(* request was too long (network.c:132, SocketClient.kt:165): neither AI     *)
(* answers, nor other robots' canned ones, nor errors and lost replies do    *)
(* it.                                                                       *)
TestModeHasACause == mode = "test" => causes # {}

(* However the exchange ends, and even if it never does (no connection, an   *)
(* error reply, a lost reply, a call that hangs), the robot comes back to    *)
(* the user by its own timers (Conversation.kt:92-115).                      *)
EveryUtteranceIsAnswered == turn = "waiting" ~> turn = "listening"

(* InteractionParams.kt:10, TEST_MODE = false, and section 3.5 of the        *)
(* documentation, a fallback for when the AI is unavailable for a while:     *)
(* while no call of the AI has failed by itself, requests are for the AI.    *)
AiIsAskedWhileAvailable == exchange = "request" /\ "fault" \notin causes => mode = "ai"
=============================================================================
