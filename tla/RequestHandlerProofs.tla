------------------------- MODULE RequestHandlerProofs -------------------------
(***************************************************************************)
(* Proofs about RequestHandler for any number of workers, any capacity of    *)
(* the line and any numbers of fields: although strtok's place is shared,    *)
(* every connection is closed once, every copy freed, and the reply fits.    *)
(***************************************************************************)
EXTENDS RequestHandler, FiniteSetTheorems, SequenceTheorems, WellFoundedInduction, TLAPS

States == {"receive", "decode", "unreceived", "parse", "tokens", "advance", "refuse",
           "ai", "test", "unknown", "close", "done"}

HandlerTypes == /\ pc \in [Workers -> States]
                /\ attempt \in [Workers -> {1, 2}]
                /\ request \in [Workers -> Request]
                /\ reply \in [Workers -> {"none", "ai_response", "test_response", "error",
                                          "lost"}]
                /\ closes \in [Workers -> Nat]

(* A worker has a copy in use only inside the loop of strtok, and only the   *)
(* one of its current attempt, which the exits of the loop free.             *)
CopyInUse(w) == \A b \in live : Owner(b) = w => /\ b = Buffer(w)
                                               /\ pc[w] \in {"tokens", "advance"}

ClosedWhenDone(w) == closes[w] = IF pc[w] = "done" THEN 1 ELSE 0

(* The second attempt is that of an AI request, after its answer failed.     *)
AttemptFits(w) ==
    /\ pc[w] \in {"receive", "decode"} => attempt[w] = 1
    /\ pc[w] \in {"parse", "tokens", "advance", "ai", "test"} =>
          request[w].type \in (IF attempt[w] = 1 THEN {"ai_request", "test_request"}
                                                ELSE {"ai_request"})
    /\ pc[w] = "ai" => request[w].type = "ai_request" /\ attempt[w] = 1
    /\ pc[w] = "test" => request[w].type = "test_request" \/ attempt[w] = 2

ReplyFits(w) ==
    /\ pc[w] \notin {"close", "done"} => reply[w] = "none"
    /\ reply[w] = "ai_response" => request[w].type = "ai_request" /\ attempt[w] = 1
    /\ reply[w] = "test_response" => \/ request[w].type = "test_request"
                                     \/ request[w].type = "ai_request" /\ attempt[w] = 2

WorkerInv(w) == CopyInUse(w) /\ ClosedWhenDone(w) /\ AttemptFits(w) /\ ReplyFits(w)

IInv == HandlerTypes /\ \A w \in Workers : WorkerInv(w)

(* One step per action, here and below.                                      *)
LEMMA TypesKept ==
  ASSUME HandlerTypes, NEW w \in Workers,
         HandlerStep(w) \/ ClientSends(w) \/ ReceiveInterrupted(w)
  PROVE  HandlerTypes'
<1> USE DEF HandlerTypes, States, At, Goto, Request, parseVars
<1>0. ASSUME Send(w, "error"), Close(w), UNCHANGED <<attempt, request>>
      PROVE  HandlerTypes'
  BY <1>0 DEF Send, Close
<1>1. CASE ClientSends(w)
  BY <1>1 DEF ClientSends
<1>2. CASE ReceiveByte(w)
  BY <1>2 DEF ReceiveByte
<1>3. CASE ReceiveFails(w)
  BY <1>3 DEF ReceiveFails
<1>4. CASE ReceiveInterrupted(w)
  BY <1>4 DEF ReceiveInterrupted
<1>5. CASE DropLine(w)
  BY <1>5 DEF DropLine
<1>6. CASE Dispatch(w)
  BY <1>6 DEF Dispatch, Request
<1>7. CASE ParseNothing(w)
  BY <1>7 DEF ParseNothing
<1>8. CASE FirstToken(w)
  BY <1>8 DEF FirstToken
<1>9. CASE KeepToken(w)
  BY <1>9 DEF KeepToken
<1>10. CASE NextToken(w)
  BY <1>10 DEF NextToken
<1>11. CASE NextTokenOfFreed(w)
  BY <1>11 DEF NextTokenOfFreed
<1>12. CASE RejectParts(w)
  BY <1>12 DEF RejectParts, FreeCopy, DropLocals
<1>13. CASE CopyParts(w)
  BY <1>13 DEF CopyParts, AfterParse, FreeCopy, DropLocals
<1>14. CASE MissingField(w)
  BY <1>14, <1>0 DEF MissingField
<1>15. CASE AiAnswers(w)
  BY <1>15 DEF AiAnswers, Send
<1>16. CASE AiFails(w)
  BY <1>16 DEF AiFails
<1>17. CASE SendTestResponse(w)
  BY <1>17 DEF SendTestResponse, Send
<1>18. CASE RefuseUnknown(w)
  BY <1>18 DEF RefuseUnknown, Send
<1>19. CASE CloseSocket(w)
  BY <1>19 DEF CloseSocket, Close
<1>20. CASE CloseUnreceived(w)
  BY <1>20 DEF CloseUnreceived, Close
<1>21. CASE RefuseAiRequest(w)
  BY <1>21, <1>0 DEF RefuseAiRequest
<1>22. CASE RefuseTestRequest(w)
  BY <1>22, <1>0 DEF RefuseTestRequest
<1> QED
  BY <1>1, <1>2, <1>3, <1>4, <1>5, <1>6, <1>7, <1>8, <1>9, <1>10,
     <1>11, <1>12, <1>13, <1>14, <1>15, <1>16, <1>17, <1>18, <1>19, <1>20,
     <1>21, <1>22
  DEF HandlerStep

LEMMA CopiesKept ==
  ASSUME HandlerTypes, \A v \in Workers : CopyInUse(v), NEW w \in Workers,
         HandlerStep(w) \/ ClientSends(w) \/ ReceiveInterrupted(w)
  PROVE  \A v \in Workers : CopyInUse(v)'
<1> USE DEF HandlerTypes, CopyInUse, Buffer, Owner, At, Goto, parseVars
<1>1. CASE ClientSends(w)
  BY <1>1 DEF ClientSends
<1>2. CASE ReceiveByte(w)
  BY <1>2 DEF ReceiveByte
<1>3. CASE ReceiveFails(w)
  BY <1>3 DEF ReceiveFails
<1>4. CASE ReceiveInterrupted(w)
  BY <1>4 DEF ReceiveInterrupted
<1>5. CASE DropLine(w)
  BY <1>5 DEF DropLine
<1>6. CASE Dispatch(w)
  BY <1>6 DEF Dispatch, Request
<1>7. CASE ParseNothing(w)
  BY <1>7 DEF ParseNothing
<1>8. CASE FirstToken(w)
  BY <1>8 DEF FirstToken
<1>9. CASE KeepToken(w)
  BY <1>9 DEF KeepToken
<1>10. CASE NextToken(w)
  BY <1>10 DEF NextToken
<1>11. CASE NextTokenOfFreed(w)
  BY <1>11 DEF NextTokenOfFreed
<1>12. CASE RejectParts(w)
  BY <1>12 DEF RejectParts, FreeCopy, DropLocals
<1>13. CASE CopyParts(w)
  BY <1>13 DEF CopyParts, AfterParse, FreeCopy, DropLocals
<1>14. CASE MissingField(w)
  BY <1>14 DEF MissingField, Send, Close
<1>15. CASE AiAnswers(w)
  BY <1>15 DEF AiAnswers, Send
<1>16. CASE AiFails(w)
  BY <1>16 DEF AiFails
<1>17. CASE SendTestResponse(w)
  BY <1>17 DEF SendTestResponse, Send
<1>18. CASE RefuseUnknown(w)
  BY <1>18 DEF RefuseUnknown, Send
<1>19. CASE CloseSocket(w)
  BY <1>19 DEF CloseSocket, Close
<1>20. CASE CloseUnreceived(w)
  BY <1>20 DEF CloseUnreceived, Close
<1>21. CASE RefuseAiRequest(w)
  BY <1>21 DEF RefuseAiRequest, AfterParse, Send, Close
<1>22. CASE RefuseTestRequest(w)
  BY <1>22 DEF RefuseTestRequest, AfterParse, Send, Close
<1> QED
  BY <1>1, <1>2, <1>3, <1>4, <1>5, <1>6, <1>7, <1>8, <1>9, <1>10,
     <1>11, <1>12, <1>13, <1>14, <1>15, <1>16, <1>17, <1>18, <1>19, <1>20,
     <1>21, <1>22
  DEF HandlerStep

LEMMA ClosesKept ==
  ASSUME HandlerTypes, \A v \in Workers : ClosedWhenDone(v), NEW w \in Workers,
         HandlerStep(w) \/ ClientSends(w) \/ ReceiveInterrupted(w)
  PROVE  \A v \in Workers : ClosedWhenDone(v)'
<1> USE DEF HandlerTypes, ClosedWhenDone, At, Goto
<1>1. CASE ClientSends(w)
  BY <1>1 DEF ClientSends
<1>2. CASE ReceiveByte(w)
  BY <1>2 DEF ReceiveByte
<1>3. CASE ReceiveFails(w)
  BY <1>3 DEF ReceiveFails
<1>4. CASE ReceiveInterrupted(w)
  BY <1>4 DEF ReceiveInterrupted
<1>5. CASE DropLine(w)
  BY <1>5 DEF DropLine
<1>6. CASE Dispatch(w)
  BY <1>6 DEF Dispatch, Request
<1>7. CASE ParseNothing(w)
  BY <1>7 DEF ParseNothing
<1>8. CASE FirstToken(w)
  BY <1>8 DEF FirstToken
<1>9. CASE KeepToken(w)
  BY <1>9 DEF KeepToken
<1>10. CASE NextToken(w)
  BY <1>10 DEF NextToken
<1>11. CASE NextTokenOfFreed(w)
  BY <1>11 DEF NextTokenOfFreed
<1>12. CASE RejectParts(w)
  BY <1>12 DEF RejectParts, FreeCopy, DropLocals
<1>13. CASE CopyParts(w)
  BY <1>13 DEF CopyParts, AfterParse, FreeCopy, DropLocals
<1>14. CASE MissingField(w)
  BY <1>14 DEF MissingField, Send, Close
<1>15. CASE AiAnswers(w)
  BY <1>15 DEF AiAnswers, Send
<1>16. CASE AiFails(w)
  BY <1>16 DEF AiFails
<1>17. CASE SendTestResponse(w)
  BY <1>17 DEF SendTestResponse, Send
<1>18. CASE RefuseUnknown(w)
  BY <1>18 DEF RefuseUnknown, Send
<1>19. CASE CloseSocket(w)
  BY <1>19 DEF CloseSocket, Close
<1>20. CASE CloseUnreceived(w)
  BY <1>20 DEF CloseUnreceived, Close
<1>21. CASE RefuseAiRequest(w)
  BY <1>21 DEF RefuseAiRequest, AfterParse, Send, Close
<1>22. CASE RefuseTestRequest(w)
  BY <1>22 DEF RefuseTestRequest, AfterParse, Send, Close
<1> QED
  BY <1>1, <1>2, <1>3, <1>4, <1>5, <1>6, <1>7, <1>8, <1>9, <1>10,
     <1>11, <1>12, <1>13, <1>14, <1>15, <1>16, <1>17, <1>18, <1>19, <1>20,
     <1>21, <1>22
  DEF HandlerStep

LEMMA AttemptKept ==
  ASSUME HandlerTypes, \A v \in Workers : AttemptFits(v), NEW w \in Workers,
         HandlerStep(w) \/ ClientSends(w) \/ ReceiveInterrupted(w)
  PROVE  \A v \in Workers : AttemptFits(v)'
<1> USE DEF HandlerTypes, AttemptFits, At, Goto
<1>1. CASE ClientSends(w)
  BY <1>1 DEF ClientSends
<1>2. CASE ReceiveByte(w)
  BY <1>2 DEF ReceiveByte
<1>3. CASE ReceiveFails(w)
  BY <1>3 DEF ReceiveFails
<1>4. CASE ReceiveInterrupted(w)
  BY <1>4 DEF ReceiveInterrupted
<1>5. CASE DropLine(w)
  BY <1>5 DEF DropLine
<1>6. CASE Dispatch(w)
  BY <1>6 DEF Dispatch, Request
<1>7. CASE ParseNothing(w)
  BY <1>7 DEF ParseNothing
<1>8. CASE FirstToken(w)
  BY <1>8 DEF FirstToken
<1>9. CASE KeepToken(w)
  BY <1>9 DEF KeepToken
<1>10. CASE NextToken(w)
  BY <1>10 DEF NextToken
<1>11. CASE NextTokenOfFreed(w)
  BY <1>11 DEF NextTokenOfFreed
<1>12. CASE RejectParts(w)
  BY <1>12 DEF RejectParts, FreeCopy, DropLocals
<1>13. CASE CopyParts(w)
  BY <1>13 DEF CopyParts, AfterParse, FreeCopy, DropLocals
<1>14. CASE MissingField(w)
  BY <1>14 DEF MissingField, Send, Close
<1>15. CASE AiAnswers(w)
  BY <1>15 DEF AiAnswers, Send
<1>16. CASE AiFails(w)
  BY <1>16 DEF AiFails
<1>17. CASE SendTestResponse(w)
  BY <1>17 DEF SendTestResponse, Send
<1>18. CASE RefuseUnknown(w)
  BY <1>18 DEF RefuseUnknown, Send
<1>19. CASE CloseSocket(w)
  BY <1>19 DEF CloseSocket, Close
<1>20. CASE CloseUnreceived(w)
  BY <1>20 DEF CloseUnreceived, Close
<1>21. CASE RefuseAiRequest(w)
  BY <1>21 DEF RefuseAiRequest, AfterParse, Send, Close
<1>22. CASE RefuseTestRequest(w)
  BY <1>22 DEF RefuseTestRequest, AfterParse, Send, Close
<1> QED
  BY <1>1, <1>2, <1>3, <1>4, <1>5, <1>6, <1>7, <1>8, <1>9, <1>10,
     <1>11, <1>12, <1>13, <1>14, <1>15, <1>16, <1>17, <1>18, <1>19, <1>20,
     <1>21, <1>22
  DEF HandlerStep

LEMMA RepliesKept ==
  ASSUME HandlerTypes, \A v \in Workers : AttemptFits(v) /\ ReplyFits(v), NEW w \in Workers,
         HandlerStep(w) \/ ClientSends(w) \/ ReceiveInterrupted(w)
  PROVE  \A v \in Workers : ReplyFits(v)'
<1> USE DEF HandlerTypes, AttemptFits, ReplyFits, At, Goto
<1>1. CASE ClientSends(w)
  BY <1>1 DEF ClientSends
<1>2. CASE ReceiveByte(w)
  BY <1>2 DEF ReceiveByte
<1>3. CASE ReceiveFails(w)
  BY <1>3 DEF ReceiveFails
<1>4. CASE ReceiveInterrupted(w)
  BY <1>4 DEF ReceiveInterrupted
<1>5. CASE DropLine(w)
  BY <1>5 DEF DropLine
<1>6. CASE Dispatch(w)
  BY <1>6 DEF Dispatch, Request
<1>7. CASE ParseNothing(w)
  BY <1>7 DEF ParseNothing
<1>8. CASE FirstToken(w)
  BY <1>8 DEF FirstToken
<1>9. CASE KeepToken(w)
  BY <1>9 DEF KeepToken
<1>10. CASE NextToken(w)
  BY <1>10 DEF NextToken
<1>11. CASE NextTokenOfFreed(w)
  BY <1>11 DEF NextTokenOfFreed
<1>12. CASE RejectParts(w)
  BY <1>12 DEF RejectParts, FreeCopy, DropLocals
<1>13. CASE CopyParts(w)
  BY <1>13 DEF CopyParts, AfterParse, FreeCopy, DropLocals
<1>14. CASE MissingField(w)
  BY <1>14 DEF MissingField, Send, Close
<1>15. CASE AiAnswers(w)
  BY <1>15 DEF AiAnswers, Send
<1>16. CASE AiFails(w)
  BY <1>16 DEF AiFails
<1>17. CASE SendTestResponse(w)
  BY <1>17 DEF SendTestResponse, Send
<1>18. CASE RefuseUnknown(w)
  BY <1>18 DEF RefuseUnknown, Send
<1>19. CASE CloseSocket(w)
  BY <1>19 DEF CloseSocket, Close
<1>20. CASE CloseUnreceived(w)
  BY <1>20 DEF CloseUnreceived, Close
<1>21. CASE RefuseAiRequest(w)
  BY <1>21 DEF RefuseAiRequest, AfterParse, Send, Close
<1>22. CASE RefuseTestRequest(w)
  BY <1>22 DEF RefuseTestRequest, AfterParse, Send, Close
<1> QED
  BY <1>1, <1>2, <1>3, <1>4, <1>5, <1>6, <1>7, <1>8, <1>9, <1>10,
     <1>11, <1>12, <1>13, <1>14, <1>15, <1>16, <1>17, <1>18, <1>19, <1>20,
     <1>21, <1>22
  DEF HandlerStep

LEMMA IInvHolds == Spec => []IInv
<1>1. Init => IInv
  BY DEF Init, IInv, HandlerTypes, States, Request, WorkerInv, CopyInUse, ClosedWhenDone,
         AttemptFits, ReplyFits
<1>2. IInv /\ [Next]_vars => IInv'
  <2> SUFFICES ASSUME IInv, [Next]_vars PROVE IInv'
    OBVIOUS
  <2>1. ASSUME NEW w \in Workers, HandlerStep(w) \/ ClientSends(w) \/ ReceiveInterrupted(w)
        PROVE  IInv'
    BY <2>1, TypesKept, CopiesKept, ClosesKept, AttemptKept, RepliesKept DEF IInv, WorkerInv
  <2>2. CASE UNCHANGED vars
    BY <2>2 DEF vars, parseVars, IInv, HandlerTypes, WorkerInv, CopyInUse, ClosedWhenDone,
                AttemptFits, ReplyFits, Buffer
  <2> QED
    BY <2>1, <2>2 DEF Next, Ended
<1> QED
  BY <1>1, <1>2, PTL DEF Spec

(* For any number of workers, on every path through                          *)
(* process_single_request_and_close the socket is closed once and no copy of *)
(* the payload is kept.                                                      *)
THEOREM EveryConnectionIsClosedOnce == Spec => []ClosedOnceAndNothingKept
<1>1. IInv => ClosedOnceAndNothingKept
  BY DEF IInv, WorkerInv, CopyInUse, ClosedWhenDone, ClosedOnceAndNothingKept
<1> QED
  BY <1>1, IInvHolds, PTL

(* For any number of workers, a client gets at most one reply, of a kind its *)
(* request allows, although a failed AI answer falls through (network.c:132). *)
THEOREM EveryReplyFits == Spec => []ReplyFitsRequest
<1>1. IInv => ReplyFitsRequest
  BY DEF IInv, WorkerInv, ReplyFits, ReplyFitsRequest
<1> QED
  BY <1>1, IInvHolds, PTL
----------------------------------------------------------------------------
(* The types of the parser's state.  The indices in strtok's place are       *)
(* bounded by the largest number of fields, which Max names.                 *)

(* Induction without an induction theorem, which would take an operator: a   *)
(* set of numbers that is not empty has a least element.                     *)
LEMMA LeastNatural ==
  ASSUME NEW T, T \subseteq Nat, T # {}
  PROVE  \E n \in T : \A m \in T : n <= m
<1>1. PICK n \in T : \A m \in T : ~ (<<m, n>> \in OpToRel(<, Nat))
  BY NatLessThanWellFounded, WFMin
<1>2. \A m \in T : ~ (m < n)
  BY <1>1 DEF OpToRel
<1> QED
  BY <1>2

(* Among the subsets of S without a largest element one of the least size    *)
(* would still have none after an element is taken away.                     *)
LEMMA FiniteSetHasMax ==
  ASSUME NEW S, IsFiniteSet(S), S \subseteq Nat, S # {}
  PROVE  Max(S) \in S /\ \A n \in S : Max(S) >= n
<1> DEFINE Without == {n \in Nat : \E U \in SUBSET S : /\ U # {} /\ Cardinality(U) = n
                                       /\ \A x \in U : \E y \in U : y > x}
<1>1. Without = {}
  <2>1. SUFFICES ASSUME Without # {} PROVE FALSE
    OBVIOUS
  <2>2. PICK n \in Without : \A m \in Without : n <= m
    BY <2>1, LeastNatural
  <2>3. PICK U \in SUBSET S : /\ U # {} /\ Cardinality(U) = n
                             /\ \A x \in U : \E y \in U : y > x
    OBVIOUS
  <2>4. PICK x \in U : TRUE
    BY <2>3
  <2> DEFINE V == U \ {x}
  <2>5. V # {} /\ V \in SUBSET S
    BY <2>3
  <2>6. \A z \in V : \E y \in V : y > z
    BY <2>3
  <2>7. Cardinality(V) = n - 1 /\ Cardinality(V) \in Nat
    BY <2>3, <2>4, FS_Subset, FS_RemoveElement, FS_CardinalityType
  <2>8. n - 1 \in Without
    BY <2>5, <2>6, <2>7
  <2> QED
    BY <2>2, <2>8
<1>2. PICK x \in S : \A y \in S : ~ (y > x)
  BY <1>1, FS_CardinalityType
<1>3. \A y \in S : x >= y
  BY <1>2
<1> QED
  BY <1>3 DEF Max

LEMMA FieldsAreBounded ==
  /\ MaxFields \in Nat
  /\ \A r \in Request : r.fields \in Nat /\ r.fields <= MaxFields
<1>1. MaxFields \in FieldCounts /\ \A n \in FieldCounts : MaxFields >= n
  BY HandlerAssumption, FiniteSetHasMax DEF MaxFields
<1>2. FieldCounts \subseteq Nat
  BY HandlerAssumption
<1>3. \A r \in Request : r.fields \in FieldCounts \cup {0}
  BY DEF Request
<1>4. \A n \in FieldCounts \cup {0} : n \in Nat /\ n <= MaxFields
  BY <1>1, <1>2
<1> QED
  BY <1>1, <1>2, <1>3, <1>4

(* A line that is still received has room for another character.             *)
LineInv == /\ inbox \in [Workers -> Bytes \cup {"nothing", "end"}]
           /\ line \in [Workers -> 0 .. LineCapacity]
           /\ \A w \in Workers : pc[w] = "receive" => line[w] < LineCapacity

(* A worker inside the loop of strtok has a place to go on from: a place is  *)
(* overwritten by another worker's, but never lost.                          *)
PlaceInv == /\ live \subseteq Buffers
            /\ position \in Positions \cup {NoPosition}
            /\ cut \subseteq Tokens
            /\ reg \in [Workers -> Positions \cup {NoPosition}]
            /\ \A w \in Workers :
                  /\ pc[w] \in {"tokens", "advance"} => position \in Positions
                  /\ pc[w] = "advance" => reg[w] \in Positions

TokenTypes == /\ token \in [Workers -> Tokens \cup {NoToken, Garbage}]
              /\ parts \in [Workers -> Seq(Tokens \cup {Garbage})]
              /\ parsed \in [Workers -> Seq(Tokens \cup {Garbage})]

(* Outside the loop of strtok a step leaves the parser alone, but for the    *)
(* result, which it may drop.                                                *)
LEMMA ParserFrame ==
  ASSUME HandlerTypes, NEW w \in Workers,
         HandlerStep(w) \/ ClientSends(w) \/ ReceiveInterrupted(w)
  PROVE  \/ FirstToken(w) \/ KeepToken(w) \/ NextToken(w) \/ NextTokenOfFreed(w)
         \/ RejectParts(w) \/ CopyParts(w)
         \/ /\ UNCHANGED <<live, position, cut, reg, token, parts, crashed>>
            /\ parsed' \in {parsed, [parsed EXCEPT ![w] = << >>]}
            /\ \A v \in Workers : pc'[v] = pc[v] \/ pc'[v] \notin {"tokens", "advance"}
<1> USE DEF HandlerTypes, At, Goto, parseVars
<1>1. CASE ClientSends(w)
  BY <1>1 DEF ClientSends
<1>2. CASE ReceiveByte(w)
  BY <1>2 DEF ReceiveByte
<1>3. CASE ReceiveFails(w)
  BY <1>3 DEF ReceiveFails
<1>4. CASE ReceiveInterrupted(w)
  BY <1>4 DEF ReceiveInterrupted
<1>5. CASE DropLine(w)
  BY <1>5 DEF DropLine
<1>6. CASE Dispatch(w)
  BY <1>6 DEF Dispatch
<1>7. CASE ParseNothing(w)
  BY <1>7 DEF ParseNothing
<1>8. CASE MissingField(w)
  BY <1>8 DEF MissingField, Send, Close
<1>9. CASE AiAnswers(w)
  BY <1>9 DEF AiAnswers, Send
<1>10. CASE AiFails(w)
  BY <1>10 DEF AiFails
<1>11. CASE SendTestResponse(w)
  BY <1>11 DEF SendTestResponse, Send
<1>12. CASE RefuseUnknown(w)
  BY <1>12 DEF RefuseUnknown, Send
<1>13. CASE CloseSocket(w)
  BY <1>13 DEF CloseSocket, Close
<1>14. CASE CloseUnreceived(w)
  BY <1>14 DEF CloseUnreceived, Close
<1>15. CASE RefuseAiRequest(w)
  BY <1>15 DEF RefuseAiRequest, AfterParse, Send, Close
<1>16. CASE RefuseTestRequest(w)
  BY <1>16 DEF RefuseTestRequest, AfterParse, Send, Close
<1> QED
  BY <1>1, <1>2, <1>3, <1>4, <1>5, <1>6, <1>7, <1>8, <1>9, <1>10, <1>11, <1>12, <1>13,
     <1>14, <1>15, <1>16
  DEF HandlerStep

LEMMA LineKept ==
  ASSUME HandlerTypes, LineInv, NEW w \in Workers,
         HandlerStep(w) \/ ClientSends(w) \/ ReceiveInterrupted(w)
  PROVE  LineInv'
<1> USE HandlerAssumption DEF HandlerTypes, LineInv, At, Goto
<1>1. CASE ClientSends(w)
  BY <1>1 DEF ClientSends
<1>2. CASE ReceiveByte(w)
  BY <1>2 DEF ReceiveByte
<1>3. CASE ReceiveFails(w)
  BY <1>3 DEF ReceiveFails
<1>4. CASE ReceiveInterrupted(w)
  BY <1>4 DEF ReceiveInterrupted
<1>5. CASE DropLine(w)
  BY <1>5 DEF DropLine
<1>6. CASE Dispatch(w)
  BY <1>6 DEF Dispatch
<1>7. CASE ParseNothing(w)
  BY <1>7 DEF ParseNothing
<1>8. CASE FirstToken(w)
  BY <1>8 DEF FirstToken
<1>9. CASE KeepToken(w)
  BY <1>9 DEF KeepToken
<1>10. CASE NextToken(w)
  BY <1>10 DEF NextToken
<1>11. CASE NextTokenOfFreed(w)
  BY <1>11 DEF NextTokenOfFreed
<1>12. CASE RejectParts(w)
  BY <1>12 DEF RejectParts, FreeCopy, DropLocals
<1>13. CASE CopyParts(w)
  BY <1>13 DEF CopyParts, AfterParse, FreeCopy, DropLocals
<1>14. CASE MissingField(w)
  BY <1>14 DEF MissingField, Send, Close
<1>15. CASE AiAnswers(w)
  BY <1>15 DEF AiAnswers, Send
<1>16. CASE AiFails(w)
  BY <1>16 DEF AiFails
<1>17. CASE SendTestResponse(w)
  BY <1>17 DEF SendTestResponse, Send
<1>18. CASE RefuseUnknown(w)
  BY <1>18 DEF RefuseUnknown, Send
<1>19. CASE CloseSocket(w)
  BY <1>19 DEF CloseSocket, Close
<1>20. CASE CloseUnreceived(w)
  BY <1>20 DEF CloseUnreceived, Close
<1>21. CASE RefuseAiRequest(w)
  BY <1>21 DEF RefuseAiRequest, AfterParse, Send, Close
<1>22. CASE RefuseTestRequest(w)
  BY <1>22 DEF RefuseTestRequest, AfterParse, Send, Close
<1> QED
  BY <1>1, <1>2, <1>3, <1>4, <1>5, <1>6, <1>7, <1>8, <1>9, <1>10,
     <1>11, <1>12, <1>13, <1>14, <1>15, <1>16, <1>17, <1>18, <1>19, <1>20,
     <1>21, <1>22
  DEF HandlerStep

LEMMA PlaceKept ==
  ASSUME HandlerTypes, PlaceInv, NEW w \in Workers,
         HandlerStep(w) \/ ClientSends(w) \/ ReceiveInterrupted(w)
  PROVE  PlaceInv'
<1> USE DEF HandlerTypes, PlaceInv, At, Goto
<1>1. Buffer(w) \in Buffers /\ 1 \in 1 .. MaxFields + 1
  BY FieldsAreBounded DEF Buffer, Buffers
<1>2. CASE FirstToken(w)
  <2>1. request[w].fields > 0 => 2 \in 1 .. MaxFields + 1
    BY FieldsAreBounded
  <2>2. position' \in Positions
    BY <1>1, <1>2, <2>1 DEF FirstToken, Positions
  <2>3. request[w].fields > 0 => <<Buffer(w), 1>> \in Tokens
    BY <1>1, FieldsAreBounded DEF Tokens
  <2>4. cut' \subseteq Tokens
    BY <1>2, <2>3 DEF FirstToken
  <2> QED
    BY <1>1, <1>2, <2>2, <2>4 DEF FirstToken
<1>3. CASE KeepToken(w)
  BY <1>3 DEF KeepToken
<1>4. CASE NextToken(w)
  <2> DEFINE last == request[Owner(reg[w][1])].fields
  <2>1. reg[w] \in Buffers \X (1 .. MaxFields + 1) /\ Owner(reg[w][1]) \in Workers
    BY <1>4 DEF NextToken, Positions, Buffers, Owner
  <2>2. last \in Nat /\ last <= MaxFields
    BY <2>1, FieldsAreBounded
  <2>3. reg[w][2] <= last => /\ reg[w] \in Tokens
                             /\ reg[w][2] + 1 \in 1 .. MaxFields + 1
                             /\ last + 1 \in 1 .. MaxFields + 1
    BY <2>1, <2>2, FieldsAreBounded DEF Tokens
  <2>4. position' \in Positions
    BY <1>4, <2>1, <2>3 DEF NextToken, Positions
  <2>5. cut' \subseteq Tokens
    BY <1>4, <2>3 DEF NextToken
  <2> QED
    BY <1>4, <2>4, <2>5 DEF NextToken
<1>5. CASE NextTokenOfFreed(w)
  BY <1>5 DEF NextTokenOfFreed
<1>6. CASE RejectParts(w)
  BY <1>6 DEF RejectParts, FreeCopy, DropLocals
<1>7. CASE CopyParts(w)
  BY <1>7 DEF CopyParts, AfterParse, FreeCopy, DropLocals
<1>8. ASSUME UNCHANGED <<live, position, cut, reg>>,
             \A v \in Workers : pc'[v] = pc[v] \/ pc'[v] \notin {"tokens", "advance"}
      PROVE  PlaceInv'
  BY <1>8
<1> QED
  BY <1>2, <1>3, <1>4, <1>5, <1>6, <1>7, <1>8, ParserFrame

LEMMA TokensKept ==
  ASSUME HandlerTypes, PlaceInv, TokenTypes, NEW w \in Workers,
         HandlerStep(w) \/ ClientSends(w) \/ ReceiveInterrupted(w)
  PROVE  TokenTypes'
<1> USE DEF HandlerTypes, TokenTypes
<1>0. << >> \in Seq(Tokens \cup {Garbage})
  OBVIOUS
<1>1. CASE FirstToken(w)
  <2>1. request[w].fields > 0 => <<Buffer(w), 1>> \in Tokens
    BY FieldsAreBounded DEF Buffer, Buffers, Tokens
  <2>2. \/ token' = [token EXCEPT ![w] = NoToken]
        \/ token' = [token EXCEPT ![w] = <<Buffer(w), 1>>] /\ <<Buffer(w), 1>> \in Tokens
    BY <1>1, <2>1, Zenon DEF FirstToken
  <2>3. parts' = [parts EXCEPT ![w] = << >>] /\ parsed' = parsed
    BY <1>1, Zenon DEF FirstToken
  <2> QED
    BY <1>0, <2>2, <2>3
<1>2. CASE KeepToken(w)
  <2>1. token[w] \in Tokens \cup {Garbage}
    BY <1>2 DEF KeepToken, MoreTokens
  <2>2. Append(parts[w], token[w]) \in Seq(Tokens \cup {Garbage})
    BY <2>1
  <2> QED
    BY <1>2, <2>2 DEF KeepToken
<1>3. CASE NextToken(w)
  <2>1. reg[w] \in Buffers \X (1 .. MaxFields + 1) /\ Owner(reg[w][1]) \in Workers
    BY <1>3 DEF NextToken, PlaceInv, Positions, Buffers, Owner, At
  <2>2. reg[w][2] <= request[Owner(reg[w][1])].fields => reg[w] \in Tokens
    BY <2>1, FieldsAreBounded DEF Tokens
  <2> QED
    BY <1>3, <2>2 DEF NextToken
<1>4. CASE NextTokenOfFreed(w)
  BY <1>4 DEF NextTokenOfFreed
<1>5. CASE RejectParts(w)
  BY <1>5 DEF RejectParts, FreeCopy, DropLocals
<1>6. CASE CopyParts(w)
  <2>1. \A i \in 1 .. 3 : parts[w][i] \in Tokens \cup {Garbage}
    BY <1>6, ElementOfSeq DEF CopyParts
  <2>2. [i \in 1 .. 3 |-> IF Readable(parts[w][i]) THEN parts[w][i] ELSE Garbage]
           \in Seq(Tokens \cup {Garbage})
    BY <2>1
  <2> DEFINE fields == [i \in 1 .. 3 |-> IF Readable(parts[w][i]) THEN parts[w][i] ELSE Garbage]
  <2>3. parsed' = [parsed EXCEPT ![w] = fields] \/ parsed' = parsed
    BY <1>6, Zenon DEF CopyParts
  <2>4. /\ token' = token \/ token' = [token EXCEPT ![w] = NoToken]
        /\ parts' = parts \/ parts' = [parts EXCEPT ![w] = << >>]
    BY <1>6, Zenon DEF CopyParts, DropLocals
  <2> HIDE DEF fields
  <2>5. fields \in Seq(Tokens \cup {Garbage})
    BY <2>2, Zenon DEF fields
  <2>6. parsed' \in [Workers -> Seq(Tokens \cup {Garbage})]
    BY <2>3, <2>5
  <2>7. parts' \in [Workers -> Seq(Tokens \cup {Garbage})]
    BY <1>0, <2>4
  <2>8. token' \in [Workers -> Tokens \cup {NoToken, Garbage}]
    BY <2>4
  <2> QED
    BY <2>6, <2>7, <2>8
<1>7. ASSUME UNCHANGED <<token, parts>>,
             parsed' \in {parsed, [parsed EXCEPT ![w] = << >>]}
      PROVE  TokenTypes'
  BY <1>0, <1>7
<1> HIDE DEF HandlerTypes, TokenTypes
<1> QED
  BY <1>1, <1>2, <1>3, <1>4, <1>5, <1>6, <1>7, ParserFrame

LEMMA CrashKept ==
  ASSUME HandlerTypes, crashed \in BOOLEAN, NEW w \in Workers,
         HandlerStep(w) \/ ClientSends(w) \/ ReceiveInterrupted(w)
  PROVE  crashed' \in BOOLEAN
<1>1. crashed' = crashed \/ crashed' = TRUE
  BY ParserFrame, Zenon DEF FirstToken, KeepToken, NextToken, NextTokenOfFreed, RejectParts,
                            CopyParts
<1> QED
  BY <1>1, Zenon

(* For any number of workers, any capacity of the line and any finite set of *)
(* numbers of fields, the line never outgrows line_buffer (protocol.c), and  *)
(* every place strtok resumes from lies in a copy some worker has made, at   *)
(* most one field beyond its last.                                           *)
THEOREM HandlerStateIsTyped == Spec => []TypeOK
<1> DEFINE Parts == HandlerTypes /\ LineInv /\ PlaceInv /\ TokenTypes
           Typed == Parts /\ crashed \in BOOLEAN
<1>1. Init => Typed
  <2>1. Init => HandlerTypes /\ LineInv
    BY HandlerAssumption DEF Init, HandlerTypes, States, Request, LineInv, Bytes
  <2>2. Init => PlaceInv /\ TokenTypes
    BY DEF Init, PlaceInv, TokenTypes
  <2>3. Init => crashed \in BOOLEAN
    BY Zenon DEF Init
  <2> QED
    BY <2>1, <2>2, <2>3, Zenon
<1>2. Typed /\ [Next]_vars => Typed'
  <2> SUFFICES ASSUME Typed, [Next]_vars PROVE Typed'
    OBVIOUS
  <2>1. ASSUME NEW w \in Workers, HandlerStep(w) \/ ClientSends(w) \/ ReceiveInterrupted(w)
        PROVE  Typed'
    <3>1. Parts'
      BY <2>1, TypesKept, LineKept, PlaceKept, TokensKept
    <3> QED
      BY <2>1, <3>1, CrashKept, Zenon
  <2>2. CASE UNCHANGED vars
    BY <2>2, Zenon DEF vars, parseVars, HandlerTypes, LineInv, PlaceInv, TokenTypes
  <2> QED
    BY <2>1, <2>2, Zenon DEF Next, Ended
<1>3. Typed => TypeOK
  BY Zenon DEF HandlerTypes, States, LineInv, PlaceInv, TokenTypes, TypeOK
<1> QED
  BY <1>1, <1>2, <1>3, PTL DEF Spec
=============================================================================
