---------------------------- MODULE DialogueProofs ----------------------------
(***************************************************************************)
(* Proofs about Dialogue, for every history length, room, set of workers,    *)
(* table, int and number of pieces of a body: over any number of turns the   *)
(* calls of Gemini release what they acquire and pass on nothing but         *)
(* answers, the test mode has a cause, canned answers lie in their table and *)
(* the AI answers the utterance it is asked about.                           *)
(***************************************************************************)
EXTENDS Dialogue, TLAPS

(* Stages between curl_easy_init and the clean-up, and those of them after   *)
(* which there may be headers and a body.                                    *)
Sending == {"perform", "failed", "answered", "error_body", "body", "cleanup"}
Open    == {"request", "headers"} \cup Sending

CallTypes == /\ stage \in Call!Stages
             /\ owned \in [Call!Resources -> {0, 1}]
             /\ chunks \in Nat
             /\ result \in {"none", "ok", "error"}

(* What is owned at each stage.                                              *)
OwnedByStage == /\ owned["curl"] = 1 <=> stage \in Open
                /\ owned["headers"] = 1 => stage \in Sending
                /\ owned["memory"] = 1 => stage \in Sending /\ chunks > 0
                /\ owned["json"] = 1 <=> stage \in {"error_body", "body"}
                /\ stage = "body" => owned["memory"] = 1

(* Success comes from a text, and "ok" from success and a 200.               *)
ResultByStage == /\ result # "none" <=> stage \in {"returned", "shown"}
                 /\ success => /\ stage \in {"cleanup", "returned", "shown"}
                               /\ response = "text" /\ chunks > 0
                 /\ result = "ok" => http_code = 200 /\ success
                 /\ shown # "none" => stage = "shown"
                 /\ shown \in {"none", "test response"} \/ (shown = "text" /\ result = "ok")

CallInv == CallTypes /\ OwnedByStage /\ ResultByStage

(* The call holds nothing when it begins, the first one and every other.     *)
LEMMA CallInitially == Call!Init => CallInv
  BY DEF Call!Init, CallInv, CallTypes, OwnedByStage, ResultByStage, Call!Stages,
         Call!Resources, Open, Sending

LEMMA NewCallKeepsCallInv == Call!NewCall => CallInv'
  BY DEF Call!NewCall, CallInv, CallTypes, OwnedByStage, ResultByStage, Call!Stages,
         Call!Resources, Open, Sending

(* One step per action of GeminiCall.                                        *)
LEMMA OwnedKept ==
  ASSUME CallTypes, OwnedByStage, Call!Step
  PROVE  CallTypes' /\ OwnedByStage'
<1> USE DEF CallTypes, OwnedByStage, Call!Stages, Call!Resources,
            Open, Sending
<1>1. CASE Call!InitCurl
  BY <1>1 DEF Call!InitCurl, Call!Acquire, Call!Return
<1>2. CASE Call!BuildRequest
  BY <1>2 DEF Call!BuildRequest, Call!Release, Call!Return
<1>3. CASE Call!SetHeaders
  BY <1>3 DEF Call!SetHeaders, Call!Acquire
<1>4. CASE Call!WriteCallback
  BY <1>4 DEF Call!WriteCallback, Call!Acquire
<1>5. CASE Call!PerformReturns
  BY <1>5 DEF Call!PerformReturns
<1>6. CASE Call!TransferFailed
  BY <1>6 DEF Call!TransferFailed, Call!Release, Call!IfHeld, Call!Return
<1>7. CASE Call!CheckStatus
  BY <1>7 DEF Call!CheckStatus, Call!Acquire
<1>8. CASE Call!ReadError
  BY <1>8 DEF Call!ReadError, Call!Release
<1>9. CASE Call!ReadText
  BY <1>9 DEF Call!ReadText, Call!Release
<1>10. CASE Call!CleanUp
  BY <1>10 DEF Call!CleanUp, Call!Release, Call!IfHeld, Call!Return
<1>11. CASE Call!Answer
  BY <1>11 DEF Call!Answer
<1> QED
  BY <1>1, <1>2, <1>3, <1>4, <1>5, <1>6, <1>7, <1>8, <1>9, <1>10, <1>11 DEF Call!Step

(* One step per action of GeminiCall.                                        *)
LEMMA ResultKept ==
  ASSUME CallTypes, OwnedByStage, ResultByStage, Call!Step
  PROVE  ResultByStage'
<1> USE DEF CallTypes, OwnedByStage, ResultByStage, Call!Stages,
            Call!Resources, Open, Sending
<1>1. CASE Call!InitCurl
  BY <1>1 DEF Call!InitCurl, Call!Return
<1>2. CASE Call!BuildRequest
  BY <1>2 DEF Call!BuildRequest, Call!Return
<1>3. CASE Call!SetHeaders
  BY <1>3 DEF Call!SetHeaders
<1>4. CASE Call!WriteCallback
  BY <1>4 DEF Call!WriteCallback
<1>5. CASE Call!PerformReturns
  BY <1>5 DEF Call!PerformReturns
<1>6. CASE Call!TransferFailed
  BY <1>6 DEF Call!TransferFailed, Call!Return
<1>7. CASE Call!CheckStatus
  BY <1>7 DEF Call!CheckStatus
<1>8. CASE Call!ReadError
  BY <1>8 DEF Call!ReadError
<1>9. CASE Call!ReadText
  <2>1. chunks > 0 /\ stage' = "cleanup" /\ UNCHANGED <<chunks, http_code, result, shown>>
    BY <1>9 DEF Call!ReadText
  <2>2. shown = "none" /\ result = "none"
    BY <1>9 DEF Call!ReadText
  <2>3. success' => response' = "text"
    BY <1>9, Zenon DEF Call!ReadText
  <2> QED
    BY <2>1, <2>2, <2>3
<1>10. CASE Call!CleanUp
  BY <1>10 DEF Call!CleanUp, Call!Return
<1>11. CASE Call!Answer
  BY <1>11 DEF Call!Answer
<1> QED
  BY <1>1, <1>2, <1>3, <1>4, <1>5, <1>6, <1>7, <1>8, <1>9, <1>10, <1>11 DEF Call!Step

(* Both halves of the invariant of the call.                                 *)
LEMMA StepKeepsCallInv ==
  ASSUME CallInv, Call!Step
  PROVE  CallInv'
  BY OwnedKept, ResultKept DEF CallInv

(* Every step of the dialogue is a step of the call, the next call, or       *)
(* leaves the call alone.                                                    *)
LEMMA DialogueStepsTheCall ==
  [Next]_vars => Call!Step \/ Call!NewCall \/ UNCHANGED callVars
<1>1. NewConversation \/ UserLeaves \/ Utterance \/ Pause \/ Flow => UNCHANGED callVars
  BY DEF NewConversation, UserLeaves, Utterance, Pause, Flow, WaitingSentence, GiveUp,
         TakeReply
<1>2. Exchange \/ OtherWorkers => Call!Step \/ Call!NewCall \/ UNCHANGED callVars
  BY DEF Exchange, NoConnection, SendRequest, Refuse, AskAi, AiReturned, LoadPlace,
         SendCanned, HandleReply, HandleError, ReplyLost, OtherWorkers
<1>3. UNCHANGED vars => UNCHANGED callVars
  BY DEF vars
<1> QED
  BY <1>1, <1>2, <1>3 DEF Next

(* The invariant of the call holds through all the turns.                    *)
LEMMA CallInvHolds == Spec => []CallInv
<1>1. Init => CallInv
  BY CallInitially DEF Init
<1>2. CallInv /\ [Next]_vars => CallInv'
  <2> SUFFICES ASSUME CallInv, [Next]_vars PROVE CallInv'
    OBVIOUS
  <2>1. CASE UNCHANGED callVars
    BY <2>1 DEF CallInv, CallTypes, OwnedByStage, ResultByStage, callVars
  <2> QED
    BY <2>1, DialogueStepsTheCall, StepKeepsCallInv, NewCallKeepsCallInv
<1> QED
  BY <1>1, <1>2, PTL DEF Spec

(* Over any number of turns and whatever fails in them, each allocation of a *)
(* call of Gemini is released exactly once (gemini_ai.c:207-435).            *)
THEOREM CallsReleaseEverything == Spec => []EverythingReleasedOnce
<1>1. CallInv => EverythingReleasedOnce
  BY DEF CallInv, CallTypes, OwnedByStage, ResultByStage, EverythingReleasedOnce,
         Call!EverythingReleasedOnce, Call!Resources, Open, Sending
<1> QED
  BY <1>1, CallInvHolds, PTL

(* What a client is sent as AI text is the text of a 200 answer.             *)
THEOREM ClientsGetOnlyAnswers == Spec => []OnlyTextPassesForAnswer
<1>1. CallInv => OnlyTextPassesForAnswer
  BY DEF CallInv, CallTypes, ResultByStage, OnlyTextPassesForAnswer,
         Call!OnlyTextPassesForAnswer
<1> QED
  BY <1>1, CallInvHolds, PTL
----------------------------------------------------------------------------
(* The test mode.  A canned answer on its way, or one being taken, has the   *)
(* cause already that the mode will have.                                    *)

Modes == mode \in {"ai", "test"}

CannedHasACause ==
    mode = "test" \/ exchange = "canned" \/ reply = "canned" => causes # {}

(* One step per action of the dialogue.                                      *)
LEMMA CannedHasACauseKept ==
  ASSUME Modes, CannedHasACause, [Next]_vars
  PROVE  Modes' /\ CannedHasACause'
<1> USE DEF Modes, CannedHasACause
<1>1. CASE NewConversation \/ UserLeaves \/ Pause \/ Flow
  BY <1>1 DEF NewConversation, UserLeaves, Pause, Flow, WaitingSentence, GiveUp,
              TakeReply, exchangeVars
<1>2. CASE Utterance
  BY <1>2 DEF Utterance
<1>3. CASE NoConnection \/ HandleError \/ ReplyLost
  BY <1>3 DEF NoConnection, HandleError, ReplyLost
<1>4. CASE SendRequest
  BY <1>4 DEF SendRequest
<1>5. CASE Refuse
  BY <1>5 DEF Refuse
<1>6. CASE AskAi \/ LoadPlace \/ OtherWorkers \/ UNCHANGED vars
  BY <1>6 DEF AskAi, LoadPlace, OtherWorkers, vars, turnVars, exchangeVars
<1>7. CASE AiReturned
  BY <1>7 DEF AiReturned
<1>8. CASE SendCanned
  BY <1>8 DEF SendCanned
<1>9. CASE HandleReply
  BY <1>9 DEF HandleReply
<1> QED
  BY <1>1, <1>2, <1>3, <1>4, <1>5, <1>6, <1>7, <1>8, <1>9 DEF Next, Exchange

(* The robot leaves the AI for good only after an AI request of its own was  *)
(* answered with canned text (SocketClient.kt:165-168, network.c:132).       *)
THEOREM TestModeIsCaused == Spec => []TestModeHasACause
<1>1. Init => Modes /\ CannedHasACause
  BY DEF Init, Modes, CannedHasACause
<1>2. Modes /\ CannedHasACause /\ [Next]_vars => (Modes /\ CannedHasACause)'
  BY CannedHasACauseKept
<1>3. CannedHasACause => TestModeHasACause
  BY DEF CannedHasACause, TestModeHasACause
<1> QED
  BY <1>1, <1>2, <1>3, PTL DEF Spec
----------------------------------------------------------------------------
(* The canned answers, for any number of workers, any table and any int.     *)

(* The counter never runs ahead of the calls made.                           *)
NeverAhead == /\ given <= MaxInt => counter \in 0 .. given
              /\ given <= MaxInt + 1 =>
                    \A w \in Workers : loaded[w] # None => loaded[w] \in 0 .. given - 1

CannedInv == CannedTypeOK /\ NeverAhead

(* A remainder by TableSize of a non-negative int is an index of the table.  *)
LEMMA NonNegativeInTable ==
    ASSUME NEW i \in Nat
    PROVE  InTable(i)
<1>1. TableSize \in Nat /\ TableSize > 0 /\ i % TableSize \in 0 .. TableSize - 1
  BY CannedAssumption
<1> QED
  BY <1>1 DEF InTable, Entry, Remainder

(* Loading and storing, in whatever order, keeps the counter behind the      *)
(* number of calls.                                                          *)
LEMMA CannedInvKept == CannedInv /\ [CannedNext]_cannedVars => CannedInv'
<1> SUFFICES ASSUME CannedInv, [CannedNext]_cannedVars
             PROVE  CannedInv'
  OBVIOUS
<1> USE CannedAssumption
<1>0. MaxInt \in Int /\ MaxInt >= 0 /\ given \in Int /\ counter \in Int
  BY DEF CannedInv, CannedTypeOK, MinInt
<1>1. ASSUME NEW w \in Workers, Load(w)
      PROVE  CannedInv'
  <2>1. /\ counter' = counter
        /\ loaded' = [loaded EXCEPT ![w] = counter]
        /\ given' = IF given > MaxInt + 1 THEN given ELSE given + 1
    BY <1>1 DEF Load
  <2>2. CannedTypeOK'
    BY <2>1, <1>0 DEF CannedInv, CannedTypeOK, MinInt, None
  <2>3. NeverAhead'
    BY <2>1, <1>0 DEF CannedInv, CannedTypeOK, NeverAhead, MinInt, None
  <2> QED
    BY <2>2, <2>3 DEF CannedInv
<1>2. ASSUME NEW w \in Workers, Store(w)
      PROVE  CannedInv'
  <2>1. /\ loaded[w] # None
        /\ counter' = Incremented(loaded[w])
        /\ loaded' = [loaded EXCEPT ![w] = None]
        /\ given' = given
    BY <1>2 DEF Store
  <2>2. loaded[w] \in MinInt .. MaxInt
    BY <2>1, <1>0 DEF CannedInv, CannedTypeOK, MinInt, None
  <2>3. CannedTypeOK'
    BY <2>1, <2>2, <1>0 DEF CannedInv, CannedTypeOK, MinInt, None, Incremented
  <2>4. given <= MaxInt => counter' \in 0 .. given
    BY <2>1, <1>0 DEF CannedInv, NeverAhead, Incremented
  <2>5. NeverAhead'
    BY <2>1, <2>4, <1>0 DEF CannedInv, CannedTypeOK, NeverAhead, MinInt, None
  <2> QED
    BY <2>3, <2>5 DEF CannedInv
<1>3. CASE UNCHANGED cannedVars
  BY <1>3 DEF CannedInv, CannedTypeOK, NeverAhead, cannedVars
<1> QED
  BY <1>1, <1>2, <1>3 DEF CannedNext

(* The dialogue takes its canned answers as one of the workers, and other    *)
(* connections' workers do as they like.                                     *)
LEMMA DialogueTakesCanned == [Next]_vars => [CannedNext]_cannedVars
<1> USE DialogueAssumption
<1>1. ASSUME LoadPlace \/ SendCanned \/ OtherWorkers
      PROVE  CannedNext
  BY <1>1 DEF LoadPlace, SendCanned, OtherWorkers, CannedNext
<1>2. ASSUME \/ NewConversation \/ UserLeaves \/ Utterance \/ Pause \/ Flow
             \/ NoConnection \/ SendRequest \/ Refuse \/ AskAi \/ AiReturned
             \/ HandleReply \/ HandleError \/ ReplyLost \/ UNCHANGED vars
      PROVE  UNCHANGED cannedVars
  BY <1>2 DEF NewConversation, UserLeaves, Utterance, Pause, Flow, WaitingSentence,
              GiveUp, TakeReply, NoConnection, SendRequest, Refuse, AskAi, AiReturned,
              HandleReply, HandleError, ReplyLost, vars
<1> QED
  BY <1>1, <1>2 DEF Next, Exchange

(* So the invariant of the counter holds in the dialogue.                    *)
LEMMA CannedInvHolds == Spec => []CannedInv
<1>1. Init => CannedInv
  BY CannedAssumption
  DEF Init, CannedInit, CannedInv, CannedTypeOK, NeverAhead, MinInt, None
<1>2. CannedInv /\ [Next]_vars => CannedInv'
  BY DialogueTakesCanned, CannedInvKept
<1> QED
  BY <1>1, <1>2, PTL DEF Spec

(* No worker ever indexes test_string outside of it, within the first        *)
(* MaxInt + 1 answers of a language (utils.c:113), whatever dialogues and    *)
(* other connections do in between.                                          *)
THEOREM EntriesStayInTable == Spec => []EntriesInTable
<1>1. CannedInv => EntriesInTable
  <2> SUFFICES ASSUME CannedInv, given <= MaxInt + 1,
                      NEW w \in Workers, loaded[w] # None
               PROVE  InTable(loaded[w])
    BY DEF EntriesInTable
  <2>1. loaded[w] \in Nat
    BY CannedAssumption DEF CannedInv, CannedTypeOK, NeverAhead
  <2> QED
    BY <2>1, NonNegativeInTable
<1> QED
  BY <1>1, CannedInvHolds, PTL
----------------------------------------------------------------------------
(* The types that CallTypes leaves open.  An answer with an error body is    *)
(* not a 200, so its text is one of the refusals.                            *)

AnswerTypes == /\ chunks \in 0 .. MaxChunks
               /\ http_code \in Call!Codes
               /\ response \in {"empty", "text"} \cup Call!ErrorTexts
               /\ stage = "error_body" => http_code # 200

(* One step per action of GeminiCall.                                        *)
LEMMA AnswerTypesKept ==
  ASSUME AnswerTypes, Call!Step
  PROVE  AnswerTypes'
<1> USE DialogueAssumption DEF AnswerTypes
<1>1. CASE Call!InitCurl
  BY <1>1 DEF Call!InitCurl, Call!Return
<1>2. CASE Call!BuildRequest
  BY <1>2 DEF Call!BuildRequest, Call!Return
<1>3. CASE Call!SetHeaders
  BY <1>3 DEF Call!SetHeaders
<1>4. CASE Call!WriteCallback
  BY <1>4 DEF Call!WriteCallback
<1>5. CASE Call!PerformReturns
  BY <1>5 DEF Call!PerformReturns
<1>6. CASE Call!TransferFailed
  BY <1>6 DEF Call!TransferFailed, Call!Return
<1>7. CASE Call!CheckStatus
  BY <1>7 DEF Call!CheckStatus
<1>8. CASE Call!ReadError
  <2>1. http_code \in Call!Codes \ {200}
    BY <1>8 DEF Call!ReadError
  <2>2. Call!ErrorText(http_code) \in Call!ErrorTexts
    BY <2>1 DEF Call!ErrorTexts
  <2>3. response' \in {"empty", "text"} \cup Call!ErrorTexts
    BY <1>8, <2>2 DEF Call!ReadError
  <2> QED
    BY <1>8, <2>3 DEF Call!ReadError
<1>9. CASE Call!ReadText
  <2>1. response' \in {"text", response}
    BY <1>9, Zenon DEF Call!ReadText
  <2>2. stage' = "cleanup" /\ UNCHANGED <<chunks, http_code>>
    BY <1>9 DEF Call!ReadText
  <2> QED
    BY <2>1, <2>2
<1>10. CASE Call!CleanUp
  BY <1>10 DEF Call!CleanUp, Call!Return
<1>11. CASE Call!Answer
  BY <1>11 DEF Call!Answer
<1> QED
  BY <1>1, <1>2, <1>3, <1>4, <1>5, <1>6, <1>7, <1>8, <1>9, <1>10, <1>11 DEF Call!Step

(* response->success is a truth value.                                       *)
LEMMA SuccessKept ==
  ASSUME success \in BOOLEAN, Call!Step
  PROVE  success' \in BOOLEAN
  BY Zenon
     DEF Call!Step, Call!InitCurl, Call!BuildRequest, Call!SetHeaders,
         Call!WriteCallback, Call!PerformReturns, Call!TransferFailed,
         Call!CheckStatus, Call!ReadError, Call!ReadText, Call!CleanUp, Call!Answer

(* The types of the call, through all the turns.                             *)
LEMMA CallTypesHold == Spec => []Call!TypeOK
<1> DEFINE Inv == AnswerTypes /\ success \in BOOLEAN
<1>1. Init => Inv
  <2>1. Call!Init => AnswerTypes
    BY DialogueAssumption DEF Call!Init, AnswerTypes, Call!Codes
  <2>2. Call!Init => success \in BOOLEAN
    BY Zenon DEF Call!Init
  <2> QED
    BY <2>1, <2>2, Zenon DEF Init
<1>2. Inv /\ [Next]_vars => Inv'
  <2> SUFFICES ASSUME AnswerTypes, success \in BOOLEAN, [Next]_vars
               PROVE  AnswerTypes' /\ success' \in BOOLEAN
    BY Zenon
  <2>1. CASE Call!Step
    BY <2>1, AnswerTypesKept, SuccessKept, Zenon
  <2>2. CASE Call!NewCall
    <3>1. AnswerTypes'
      BY <2>2, DialogueAssumption DEF Call!NewCall, AnswerTypes, Call!Codes
    <3>2. success' \in BOOLEAN
      BY <2>2, Zenon DEF Call!NewCall
    <3> QED
      BY <3>1, <3>2, Zenon
  <2>3. CASE UNCHANGED callVars
    <3>1. AnswerTypes'
      BY <2>3 DEF AnswerTypes, callVars
    <3>2. success' \in BOOLEAN
      BY <2>3, Zenon DEF callVars
    <3> QED
      BY <3>1, <3>2, Zenon
  <2> QED
    BY <2>1, <2>2, <2>3, DialogueStepsTheCall, Zenon
<1>3. Inv /\ CallInv => Call!TypeOK
  <2>1. CallInv => owned \in [Call!Resources -> Int]
    BY DEF CallInv, CallTypes
  <2>2. CallInv => shown \in {"none", "text", "test response"}
    BY DEF CallInv, ResultByStage
  <2> QED
    BY <2>1, <2>2, Zenon DEF Call!TypeOK, AnswerTypes, CallInv, CallTypes
<1> HIDE DEF Inv
<1> QED
  BY <1>1, <1>2, <1>3, CallInvHolds, PTL DEF Spec

----------------------------------------------------------------------------
(* The history.                                                              *)

(* What Remember does: it adds a line at the end, and the lines before it    *)
(* keep their distance from the end, but for the oldest.                     *)
LEMMA Remembered ==
  ASSUME NEW lines \in Seq(Lines), Len(lines) <= HistoryLength, NEW line \in Lines
  PROVE  LET after == Remember(lines, line)
         IN  /\ after \in Seq(Lines)
             /\ Len(after) \in 1 .. HistoryLength
             /\ after[Len(after)] = line
             /\ Len(lines) > 0 => /\ Len(after) > 1
                                  /\ after[Len(after) - 1] = lines[Len(lines)]
<1> DEFINE all == Append(lines, line)
<1>1. HistoryLength \in Nat /\ HistoryLength > 1
  BY DialogueAssumption
<1>2. /\ all \in Seq(Lines)
      /\ Len(all) = Len(lines) + 1
      /\ Len(lines) \in Nat
      /\ \A i \in 1 .. Len(lines) : all[i] = lines[i]
      /\ all[Len(all)] = line
  OBVIOUS
<1>3. /\ Tail(all) \in Seq(Lines)
      /\ Len(Tail(all)) = Len(lines)
      /\ \A i \in 1 .. Len(lines) : Tail(all)[i] = all[i + 1]
  BY <1>2
<1> HIDE DEF all
<1>4. Remember(lines, line) = IF Len(all) <= HistoryLength THEN all ELSE Tail(all)
  BY DEF Remember, all
<1>5. CASE Len(all) <= HistoryLength
  BY <1>1, <1>2, <1>4, <1>5
<1>6. CASE Len(all) > HistoryLength
  <2>1. Remember(lines, line) = Tail(all) /\ Len(lines) = HistoryLength
    BY <1>1, <1>2, <1>4, <1>6
  <2>2. Tail(all)[Len(lines)] = line /\ Tail(all)[Len(lines) - 1] = lines[Len(lines)]
    BY <1>1, <1>2, <1>3, <2>1
  <2> QED
    BY <1>1, <1>3, <2>1, <2>2
<1> QED
  BY <1>1, <1>2, <1>5, <1>6

(* The end of a turn leaves no line marked.                                  *)
LEMMA BeforeKeepsTheLines ==
  ASSUME NEW lines \in Seq(Lines)
  PROVE  Before(lines) \in Seq(Lines) /\ Len(Before(lines)) = Len(lines)
<1>1. Len(lines) \in Nat /\ DOMAIN lines = 1 .. Len(lines)
  OBVIOUS
<1>2. ASSUME NEW line \in Lines
      PROVE  [line EXCEPT !.now = FALSE] \in Lines
  <2> DEFINE Mark == BOOLEAN
  <2>1. Lines = [role : {"user", "model"}, size : Sizes, now : Mark] /\ FALSE \in Mark
    BY DEF Lines
  <2> HIDE DEF Mark
  <2> QED
    BY <2>1
<1>3. Before(lines) \in [1 .. Len(lines) -> Lines]
  BY <1>1, <1>2 DEF Before
<1> QED
  BY <1>1, <1>3

(* Only the user's lines can be the current utterance.                       *)
LEMMA ALine ==
  ASSUME NEW role \in {"user", "model"}, NEW n \in Sizes
  PROVE  Line(role, n) \in Lines /\ (Line(role, n).now <=> role = "user")
  BY DEF Line, Lines

(* What is received whole holds the lines that were sent.                    *)
LEMMA Received ==
  ASSUME NEW lines
  PROVE  /\ AsReceived(lines) \in Requests
         /\ AsReceived(lines).whole
               => (AsReceived(lines).now <=> \E i \in DOMAIN lines : lines[i].now)
  BY DEF AsReceived, Requests, Broken

(* The utterance being answered is the last line, or the one before it.      *)
LastIsNow(lines) == Len(lines) > 0 /\ lines[Len(lines)].now
NowIsNear(lines) == LastIsNow(lines) \/ (Len(lines) > 1 /\ lines[Len(lines) - 1].now)

(* The waiting sentence is spoken at most once in a turn: while the robot    *)
(* waits, the utterance is the last line of the history or the one before.   *)
HistoryInv == /\ history \in Seq(Lines)
              /\ Len(history) <= HistoryLength
              /\ turn = "waiting" => NowIsNear(history)
              /\ turn = "waiting" /\ ~waited => LastIsNow(history)

(* A new line pushes a marked last line back by one place.                   *)
LEMMA RememberedInv ==
  ASSUME NEW lines \in Seq(Lines), Len(lines) <= HistoryLength,
         NEW role \in {"user", "model"}, NEW n \in Sizes
  PROVE  LET after == Remember(lines, Line(role, n))
         IN  /\ after \in Seq(Lines) /\ Len(after) <= HistoryLength
             /\ role = "user" => LastIsNow(after) /\ NowIsNear(after)
             /\ LastIsNow(lines) => NowIsNear(after)
<1> DEFINE line  == Line(role, n)
           after == Remember(lines, line)
<1>1. line \in Lines /\ (line.now <=> role = "user")
  BY ALine
<1>2. /\ after \in Seq(Lines)
      /\ Len(after) \in 1 .. HistoryLength
      /\ after[Len(after)] = line
      /\ Len(lines) > 0 => Len(after) > 1 /\ after[Len(after) - 1] = lines[Len(lines)]
  BY <1>1, Remembered
<1> HIDE DEF line, after
<1>3. HistoryLength \in Nat
  BY DialogueAssumption
<1>4. Len(after) <= HistoryLength /\ Len(after) > 0
  BY <1>2, <1>3
<1> QED
  BY <1>1, <1>2, <1>4, Zenon DEF LastIsNow, NowIsNear, line, after

(* The actions by what they add to the history.                              *)
LEMMA HistoryInvKept ==
  ASSUME HistoryInv, [Next]_vars
  PROVE  HistoryInv'
<1>1. CASE Utterance
  <2>1. PICK n \in Sizes : history' = Remember(history, Line("user", n))
    BY <1>1 DEF Utterance
  <2> QED
    BY <2>1, RememberedInv, Zenon DEF HistoryInv
<1>2. ASSUME Pause \/ GiveUp \/ TakeReply
      PROVE  HistoryInv'
  <2>1. turn' = "listening"
    BY <1>2 DEF Pause, GiveUp, TakeReply, EndTurn
  <2>2. \/ \E n \in Sizes : history' = Remember(history, Line("model", n))
        \/ \E n \in Sizes : history' = Remember(Before(history), Line("model", n))
    BY <1>2, Zenon DEF Pause, GiveUp, TakeReply, RobotSays, EndTurn
  <2>3. /\ Before(history) \in Seq(Lines)
        /\ Len(Before(history)) <= HistoryLength
    BY BeforeKeepsTheLines DEF HistoryInv
  <2>4. history' \in Seq(Lines) /\ Len(history') <= HistoryLength
    BY <2>2, <2>3, RememberedInv, Zenon DEF HistoryInv
  <2> QED
    BY <2>1, <2>4 DEF HistoryInv
<1>3. CASE WaitingSentence
  <2>1. PICK n \in Sizes : history' = Remember(history, Line("model", n))
    BY <1>3 DEF WaitingSentence, RobotSays
  <2>2. ~waited /\ waited' /\ turn' = turn
    BY <1>3, Zenon DEF WaitingSentence
  <2>3. history' \in Seq(Lines) /\ Len(history') <= HistoryLength
    BY <2>1, RememberedInv, Zenon DEF HistoryInv
  <2>4. LastIsNow(history) => NowIsNear(history')
    BY <2>1, RememberedInv, Zenon DEF HistoryInv
  <2> QED
    BY <2>2, <2>3, <2>4, Zenon DEF HistoryInv
<1>4. CASE NewConversation
  <2>1. PICK n \in Sizes : history' = <<Line("model", n)>>
    BY <1>4 DEF NewConversation
  <2>2. Line("model", n) \in Lines
    BY ALine
  <2>3. history' \in Seq(Lines) /\ Len(history') <= HistoryLength
    BY <2>1, <2>2, DialogueAssumption
  <2> QED
    BY <1>4, <2>3 DEF HistoryInv, NewConversation
<1>5. CASE UserLeaves
  BY <1>5 DEF UserLeaves, HistoryInv
<1>6. ASSUME Exchange \/ OtherWorkers \/ UNCHANGED vars
      PROVE  HistoryInv'
  <2>1. UNCHANGED flowVars
    BY <1>6 DEF Exchange, NoConnection, SendRequest, Refuse, AskAi, AiReturned, LoadPlace,
                SendCanned, HandleReply, HandleError, ReplyLost, OtherWorkers, vars, turnVars
  <2>2. UNCHANGED <<turn, history, waited>>
    BY <2>1 DEF flowVars
  <2> QED
    BY <2>2, Zenon DEF HistoryInv
<1> QED
  BY <1>1, <1>2, <1>3, <1>4, <1>5, <1>6 DEF Next, Flow

(* The utterance does not leave the history before it is sent.               *)
LEMMA HistoryInvHolds == Spec => []HistoryInv
<1>1. Init => HistoryInv
  BY DialogueAssumption DEF Init, HistoryInv
<1>2. HistoryInv /\ [Next]_vars => HistoryInv'
  BY HistoryInvKept
<1> QED
  BY <1>1, <1>2, PTL DEF Spec

(* The near marked line is one of those that are sent.                       *)
LEMMA NearLineIsSent ==
  ASSUME NEW lines \in Seq(Lines), NowIsNear(lines)
  PROVE  \E i \in DOMAIN lines : lines[i].now
<1>1. DOMAIN lines = 1 .. Len(lines) /\ Len(lines) \in Nat
  OBVIOUS
<1>2. CASE LastIsNow(lines)
  BY <1>1, <1>2 DEF LastIsNow
<1>3. CASE Len(lines) > 1 /\ lines[Len(lines) - 1].now
  <2>1. Len(lines) - 1 \in DOMAIN lines
    BY <1>1, <1>3
  <2> QED
    BY <2>1, <1>3, Zenon
<1> QED
  BY <1>2, <1>3 DEF NowIsNear

(* The replies in the channel.                                               *)
Channel == channel \in Seq({"ai", "canned", "late"})

Holds(replies) == \E i \in DOMAIN replies : replies[i] = "ai"

(* What the listener adds, and what a turn leaves behind.                    *)
LEMMA ReplyAdded ==
  ASSUME NEW replies \in Seq({"ai", "canned", "late"}), NEW r \in {"ai", "canned", "late"}
  PROVE  /\ Append(replies, r) \in Seq({"ai", "canned", "late"})
         /\ Holds(Append(replies, r)) => Holds(replies) \/ r = "ai"
  BY DEF Holds

LEMMA NothingHeld == ~Holds(<<>>)
<1>1. <<>> \in Seq({}) /\ Len(<<>>) = 0
  OBVIOUS
<1> QED
  BY <1>1 DEF Holds

LEMMA ReplyTaken ==
  ASSUME NEW replies \in Seq({"ai", "canned", "late"}), replies # <<>>
  PROVE  /\ Late(Tail(replies)) \in Seq({"ai", "canned", "late"})
         /\ ~Holds(Late(Tail(replies)))
         /\ Head(replies) \in {"ai", "canned", "late"}
         /\ Head(replies) = "ai" => Holds(replies)
<1>1. Tail(replies) \in Seq({"ai", "canned", "late"})
  OBVIOUS
<1>2. DOMAIN Tail(replies) = 1 .. Len(Tail(replies)) /\ Len(Tail(replies)) \in Nat
  BY <1>1
<1>3. Head(replies) = replies[1] /\ 1 \in DOMAIN replies
  OBVIOUS
<1> QED
  BY <1>2, <1>3 DEF Holds, Late

(* Only the listener and the flow touch the channel.                         *)
LEMMA ChannelKept ==
  ASSUME Channel, [Next]_vars
  PROVE  Channel'
<1>1. CASE NewConversation
  BY <1>1 DEF NewConversation, Channel
<1>2. CASE TakeReply
  BY <1>2, ReplyTaken DEF TakeReply, Channel
<1>3. CASE HandleReply
  <2>1. (IF turn = "waiting" THEN reply ELSE "late") \in {"ai", "canned", "late"}
    BY <1>3 DEF HandleReply
  <2> QED
    BY <1>3, <2>1, ReplyAdded DEF HandleReply, Channel
<1>4. CASE UserLeaves \/ Utterance \/ Pause \/ WaitingSentence \/ GiveUp
  BY <1>4 DEF UserLeaves, Utterance, Pause, WaitingSentence, GiveUp, Channel
<1>5. CASE \/ NoConnection \/ SendRequest \/ Refuse \/ AskAi \/ AiReturned \/ LoadPlace
           \/ SendCanned \/ HandleError \/ ReplyLost \/ OtherWorkers \/ UNCHANGED vars
  BY <1>5 DEF NoConnection, SendRequest, Refuse, AskAi, AiReturned, LoadPlace, SendCanned,
              HandleError, ReplyLost, OtherWorkers, vars, turnVars, Channel
<1> QED
  BY <1>1, <1>2, <1>3, <1>4, <1>5 DEF Next, Flow, Exchange

LEMMA ChannelHolds == Spec => []Channel
<1>1. Init => Channel
  BY DEF Init, Channel
<1> QED
  BY <1>1, ChannelKept, PTL DEF Spec

(* An answer to the request of this turn is one to the utterance, or to a    *)
(* prefix of the dialogue.                                                   *)
Answerable == request.readable /\ (request.whole => request.now)

(* A request sent in its own turn and whole holds the utterance, and one     *)
(* that the AI answered was readable.  The code of an answer is forgotten    *)
(* with its call, and an AI reply is in the channel only in its own turn.    *)
RequestInv ==
  /\ exchange \in {"none", "request", "ai"} => reply = "none"
  /\ exchange # "ai" => http_code = 0
  /\ exchange = "ai" /\ http_code = 200 => request.readable
  /\ exchange = "ai" /\ turn = "waiting" => (request.whole => request.now)
  /\ exchange = "reply" /\ reply = "ai" /\ turn = "waiting" => Answerable
  /\ Holds(channel) => turn = "waiting" /\ exchange = "none" /\ Answerable
  /\ spoken = "ai" => exchange = "none" /\ Answerable

(* One step per action of the dialogue.                                      *)
LEMMA RequestInvKept ==
  ASSUME RequestInv, HistoryInv, Channel, CallInv, [Next]_vars
  PROVE  RequestInv'
<1> USE DEF RequestInv, Answerable
<1>1. CASE NewConversation
  <2>1. ~Holds(channel')
    BY <1>1, NothingHeld DEF NewConversation
  <2> QED
    BY <1>1, <2>1, Zenon DEF NewConversation, exchangeVars, callVars
<1>2. CASE UserLeaves
  BY <1>2, Zenon DEF UserLeaves, exchangeVars, callVars
<1>3. CASE Utterance
  BY <1>3, Zenon DEF Utterance, callVars
<1>4. CASE Pause
  BY <1>4, Zenon DEF Pause, exchangeVars, callVars
<1>5. CASE WaitingSentence
  BY <1>5, Zenon DEF WaitingSentence, exchangeVars, callVars
<1>6. CASE GiveUp
  <2>1. channel' = <<>> /\ spoken' = "repeat request" /\ turn' = "listening"
    BY <1>6 DEF GiveUp, EndTurn
  <2>2. ~Holds(channel')
    BY <2>1, NothingHeld, Zenon
  <2>3. spoken' # "ai" /\ turn' # "waiting"
    BY <2>1
  <2> QED
    BY <1>6, <2>2, <2>3, Zenon DEF GiveUp, exchangeVars, callVars
<1>7. CASE TakeReply
  <2>1. ~Holds(channel') /\ (spoken' = "ai" => Holds(channel)) /\ turn' # "waiting"
    BY <1>7, ReplyTaken DEF TakeReply, EndTurn, Channel
  <2> QED
    BY <1>7, <2>1, Zenon DEF TakeReply, exchangeVars, callVars
<1>8. CASE NoConnection
  BY <1>8, Zenon DEF NoConnection, flowVars, callVars
<1>9. CASE SendRequest
  <2>1. CASE mode = "ai"
    <3>1. /\ request' = AsReceived(history) /\ exchange' = "ai"
          /\ UNCHANGED <<turn, reply, spoken, http_code, channel>>
      BY <1>9, <2>1 DEF SendRequest, flowVars, callVars
    <3>2. reply = "none" /\ spoken # "ai" /\ http_code = 0 /\ ~Holds(channel)
      BY <1>9 DEF SendRequest
    <3>3. turn = "waiting" => NowIsNear(history) /\ history \in Seq(Lines)
      BY DEF HistoryInv
    <3>4. turn = "waiting" => (request'.whole => request'.now)
      BY <3>1, <3>3, NearLineIsSent, Received, Zenon
    <3>5. http_code' # 200 /\ reply' # "ai" /\ spoken' # "ai" /\ ~Holds(channel')
      BY <3>1, <3>2
    <3> QED
      BY <3>1, <3>2, <3>4, <3>5, Zenon
  <2>2. CASE mode # "ai"
    <3>1. /\ exchange' = "canned" /\ exchange = "request"
          /\ UNCHANGED <<turn, request, reply, spoken, http_code, channel>>
      BY <1>9, <2>2 DEF SendRequest, flowVars, callVars
    <3> QED
      BY <3>1, Zenon
  <2> QED
    BY <2>1, <2>2
<1>10. CASE Refuse
  <2>1. exchange' = "reply" /\ reply' # "ai" /\ exchange = "request"
    BY <1>10 DEF Refuse
  <2> QED
    BY <1>10, <2>1, Zenon DEF Refuse, flowVars, callVars
<1>11. CASE AskAi
  BY <1>11, Zenon DEF AskAi, turnVars, exchangeVars, flowVars
<1>12. CASE AiReturned
  <2>1. /\ exchange' \in {"reply", "canned"} /\ http_code' = 0 /\ exchange = "ai"
        /\ UNCHANGED <<turn, request, spoken, channel>>
    BY <1>12 DEF AiReturned, Call!NewCall, flowVars
  <2>2. reply' = "ai" => http_code = 200
    <3>1. reply = "none"
      BY <2>1
    <3>2. reply' = "ai" => shown = "text"
      BY <3>1, <1>12 DEF AiReturned
    <3>3. shown = "text" => http_code = 200
      BY DEF CallInv, ResultByStage
    <3> QED
      BY <3>2, <3>3
  <2> QED
    BY <2>1, <2>2
<1>13. CASE LoadPlace \/ OtherWorkers
  BY <1>13, Zenon DEF LoadPlace, OtherWorkers, turnVars, exchangeVars, flowVars, callVars
<1>14. CASE SendCanned
  <2>1. /\ exchange' = "reply" /\ exchange = "canned" /\ reply' # "ai"
        /\ UNCHANGED <<turn, request, spoken, channel, http_code>>
    BY <1>14 DEF SendCanned, flowVars, callVars
  <2> QED
    BY <2>1, Zenon
<1>15. CASE HandleReply
  <2>1. /\ exchange = "reply" /\ exchange' = "none"
        /\ reply' = "none"
        /\ UNCHANGED <<turn, request, spoken, http_code>>
    BY <1>15 DEF HandleReply, flowVars, callVars
  <2>2. Holds(channel') => Holds(channel) \/ (turn = "waiting" /\ reply = "ai")
    <3> DEFINE r == IF turn = "waiting" THEN reply ELSE "late"
    <3>1. channel' = Append(channel, r) /\ r \in {"ai", "canned", "late"}
      BY <1>15 DEF HandleReply
    <3>2. r = "ai" => turn = "waiting" /\ reply = "ai"
      OBVIOUS
    <3> HIDE DEF r
    <3> QED
      BY <3>1, <3>2, ReplyAdded DEF Channel
  <2> QED
    BY <2>1, <2>2, Zenon
<1>16. CASE HandleError \/ ReplyLost
  BY <1>16, Zenon DEF HandleError, ReplyLost, flowVars, callVars
<1>17. CASE UNCHANGED vars
  BY <1>17, Zenon DEF vars, turnVars, exchangeVars, flowVars, callVars
<1> QED
  BY <1>1, <1>2, <1>3, <1>4, <1>5, <1>6, <1>7, <1>8, <1>9, <1>10, <1>11, <1>12, <1>13,
     <1>14, <1>15, <1>16, <1>17 DEF Next, Flow, Exchange

(* For every history length, room and size of the lines: an answer of the AI *)
(* is one to the utterance, or to a prefix of the dialogue cut exactly       *)
(* between two lines (Conversation.kt:147, protocol.c, gemini_ai.c).         *)
THEOREM UtteranceIsAnswered == Spec => []AiAnswersTheUtterance
<1>1. Init => RequestInv
  BY NothingHeld DEF Init, Call!Init, RequestInv
<1>2. RequestInv /\ HistoryInv /\ Channel /\ CallInv /\ [Next]_vars => RequestInv'
  BY RequestInvKept
<1>3. RequestInv => AiAnswersTheUtterance
  BY Zenon DEF RequestInv, Answerable, AiAnswersTheUtterance
<1> QED
  BY <1>1, <1>2, <1>3, HistoryInvHolds, ChannelHolds, CallInvHolds, PTL DEF Spec
----------------------------------------------------------------------------
(* The types.                                                                *)

(* The variables of a turn other than the flags, the channel and the history. *)
TurnTypes == /\ turn \in Turns
             /\ exchange \in Exchanges
             /\ mode \in {"ai", "test"}
             /\ reply \in {"none", "ai", "canned", "error", "nothing"}
             /\ spoken \in {"none", "ai", "canned", "late", "repeat request"}
             /\ causes \subseteq {"fault", "too long"}

(* The actions by what they assign.                                          *)
LEMMA TurnTypesKept ==
  ASSUME TurnTypes, Channel, [Next]_vars
  PROVE  TurnTypes'
<1> USE DEF TurnTypes, Turns, Exchanges
<1>1. CASE NewConversation \/ UserLeaves \/ Utterance \/ Pause \/ WaitingSentence \/ GiveUp
  BY <1>1 DEF NewConversation, UserLeaves, Utterance, Pause, WaitingSentence, GiveUp,
              EndTurn, exchangeVars
<1>2. CASE TakeReply
  <2>1. spoken' \in {"ai", "canned", "late"} /\ turn' = "listening" /\ UNCHANGED exchangeVars
    BY <1>2, ReplyTaken DEF TakeReply, EndTurn, Channel
  <2> QED
    BY <2>1 DEF exchangeVars
<1>3. CASE NoConnection \/ SendRequest \/ Refuse
  BY <1>3 DEF NoConnection, SendRequest, Refuse, flowVars
<1>4. CASE AiReturned
  BY <1>4 DEF AiReturned, flowVars
<1>5. CASE SendCanned
  BY <1>5 DEF SendCanned, flowVars
<1>6. CASE HandleReply \/ HandleError \/ ReplyLost
  BY <1>6 DEF HandleReply, HandleError, ReplyLost, flowVars
<1>7. CASE AskAi \/ LoadPlace \/ OtherWorkers \/ UNCHANGED vars
  BY <1>7 DEF AskAi, LoadPlace, OtherWorkers, vars, turnVars, flowVars, exchangeVars
<1> QED
  BY <1>1, <1>2, <1>3, <1>4, <1>5, <1>6, <1>7 DEF Next, Flow, Exchange

(* The truth values, and the request.                                        *)
LEMMA FlagsKept ==
  ASSUME waited \in BOOLEAN, request \in Requests, [Next]_vars
  PROVE  waited' \in BOOLEAN /\ request' \in Requests
<1>1. waited' \in {waited, TRUE, FALSE}
  BY Zenon DEF Next, Flow, Exchange, vars, turnVars, flowVars, NewConversation, UserLeaves,
               Utterance, Pause, WaitingSentence, GiveUp, TakeReply, EndTurn, NoConnection,
               SendRequest, Refuse, AskAi, AiReturned, LoadPlace, SendCanned, HandleReply,
               HandleError, ReplyLost, OtherWorkers
<1>2. request' \in {request, AsReceived(<<>>), AsReceived(history)}
  BY DEF Next, Flow, Exchange, vars, turnVars, exchangeVars, NewConversation, UserLeaves,
         Utterance, Pause, WaitingSentence, GiveUp, TakeReply, NoConnection, SendRequest,
         Refuse, AskAi, AiReturned, LoadPlace, SendCanned, HandleReply, HandleError,
         ReplyLost, OtherWorkers
<1> QED
  BY <1>1, <1>2, Received, Zenon

(* Types, over any number of turns and with the call of Gemini and the       *)
(* counter of canned answers included: the counter never leaves the ints.    *)
THEOREM DialogueTypes == Spec => []TypeOK
<1> DEFINE Flags == waited \in BOOLEAN /\ request \in Requests
<1>1. Init => TurnTypes
  BY DEF Init, TurnTypes, Turns, Exchanges
<1>2. Init => Flags
  BY Received, Zenon DEF Init
<1>3. TurnTypes /\ Channel /\ [Next]_vars => TurnTypes'
  BY TurnTypesKept
<1>4. Flags /\ [Next]_vars => Flags'
  BY FlagsKept, Zenon
<1>5. TurnTypes /\ Channel /\ Flags /\ HistoryInv /\ Call!TypeOK /\ CannedInv => TypeOK
  BY Zenon DEF TurnTypes, Channel, HistoryInv, CannedInv, TypeOK
<1> HIDE DEF Flags
<1> QED
  BY <1>1, <1>2, <1>3, <1>4, <1>5, HistoryInvHolds, ChannelHolds, CallTypesHold,
     CannedInvHolds, PTL DEF Spec
=============================================================================
