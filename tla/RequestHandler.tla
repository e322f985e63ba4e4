---------------------------- MODULE RequestHandler ----------------------------
(***************************************************************************)
(* What the workers of the pool do with the connections they take:           *)
(* process_single_request_and_close of network.c with receive_line,          *)
(* receive_message, parse_client_dialog_message and send_message of          *)
(* protocol.c.  Each worker of this module handles one connection.           *)
(*                                                                           *)
(* The workers share one thing, the static pointer in which strtok keeps its *)
(* place between two calls.  A call of strtok(NULL, ..) reads that pointer   *)
(* and later stores the advanced one, two separate steps here.               *)
(***************************************************************************)
EXTENDS Naturals, Sequences, FiniteSetsExt

CONSTANTS Workers,
          LineCapacity,  \* sizeof(line_buffer) - 1 in receive_message
          FieldCounts,   \* the numbers of fields a payload may have
          NoPosition,    \* strtok was not called yet
          NoToken,       \* strtok returned NULL
          Garbage        \* a token read from freed memory

ASSUME HandlerAssumption ==
    /\ LineCapacity \in Nat \ {0}
    /\ IsFiniteSet(FieldCounts)
    /\ FieldCounts \subseteq Nat
    /\ FieldCounts # {}

VARIABLES
    pc,        \* control state of each worker
    inbox,     \* what the socket of each worker has to read
    line,      \* number of characters in its line_buffer
    request,   \* the decoded message: its type and the fields of its payload
    attempt,   \* first or second parse of the same message
    live,      \* the copies of payloads (data_copy) that are not freed
    position,  \* strtok's static pointer
    cut,       \* the tokens of live copies after which strtok has written a NUL
    reg,       \* the value a strtok(NULL, ..) call has read from it
    token,     \* the local `token`
    parts,     \* the local `parts`
    parsed,    \* personality, language and conversation of client_message_t
    reply,     \* what was sent to the client
    closes,    \* how often the socket was closed
    crashed    \* a read of freed memory brought the process down

parseVars == <<live, position, cut, reg, token, parts, parsed>>
vars == <<pc, inbox, line, request, attempt, parseVars, reply, closes, crashed>>

Request == [type : {"ai_request", "test_request"}, fields : FieldCounts]
             \cup [type : {"unknown"}, fields : {0}]
Bytes   == {"char", "cr", "newline"}

MaxFields == Max(FieldCounts)
Buffers   == Workers \X {1, 2}
Positions == Buffers \X (1 .. MaxFields + 1)
Tokens    == Buffers \X (1 .. MaxFields)

Init ==
    /\ pc = [w \in Workers |-> "receive"]
    /\ inbox = [w \in Workers |-> "nothing"]
    /\ line = [w \in Workers |-> 0]
    /\ request = [w \in Workers |-> [type |-> "unknown", fields |-> 0]]
    /\ attempt = [w \in Workers |-> 1]
    /\ live = {}
    /\ position = NoPosition
    /\ cut = {}
    /\ reg = [w \in Workers |-> NoPosition]
    /\ token = [w \in Workers |-> NoToken]
    /\ parts = [w \in Workers |-> << >>]
    /\ parsed = [w \in Workers |-> << >>]
    /\ reply = [w \in Workers |-> "none"]
    /\ closes = [w \in Workers |-> 0]
    /\ crashed = FALSE

At(w, state) == ~ crashed /\ pc[w] = state

Goto(w, state) == pc' = [pc EXCEPT ![w] = state]

----------------------------------------------------------------------------
(* receive_line: one recv per character, each with its own timeout.          *)

(* The client sends a byte or closes its side.                               *)
ClientSends(w) ==
    /\ At(w, "receive")
    /\ inbox[w] = "nothing"
    /\ \E input \in Bytes \cup {"end"} : inbox' = [inbox EXCEPT ![w] = input]
    /\ UNCHANGED <<pc, line, request, attempt, parseVars, reply, closes, crashed>>

(* Slip: the line is taken to be full one character too late.                *)
ReceiveByteTooMany(w) ==
    /\ At(w, "receive")
    /\ inbox[w] \in Bytes
    /\ inbox' = [inbox EXCEPT ![w] = "nothing"]
    /\ line' = [line EXCEPT ![w] = IF inbox[w] = "char" THEN @ + 1 ELSE @]
    /\ IF inbox[w] = "newline" \/ line'[w] > LineCapacity
         THEN Goto(w, "decode")
         ELSE UNCHANGED pc
    /\ UNCHANGED <<request, attempt, parseVars, reply, closes, crashed>>

(* A character is stored, a carriage return skipped; the line ends at the    *)
(* newline or when the buffer is full.                                       *)
ReceiveByte(w) ==
    /\ At(w, "receive")
    /\ inbox[w] \in Bytes
    /\ inbox' = [inbox EXCEPT ![w] = "nothing"]
    /\ line' = [line EXCEPT ![w] = IF inbox[w] = "char" THEN @ + 1 ELSE @]
    /\ IF inbox[w] = "newline" \/ line'[w] = LineCapacity
         THEN Goto(w, "decode")
         ELSE UNCHANGED pc
    /\ UNCHANGED <<request, attempt, parseVars, reply, closes, crashed>>

(* Slip: a timeout is taken for a reason to try again, as send_message does. *)
ReceiveRetries(w) ==
    /\ At(w, "receive")
    /\ inbox[w] = "end"
    /\ Goto(w, "unreceived")
    /\ UNCHANGED <<inbox, line, request, attempt, parseVars, reply, closes, crashed>>

(* recv returns 0 at the end of the stream, or fails with EAGAIN after       *)
(* CLIENT_SOCKET_TIMEOUT_SEC without a byte: no reply is sent.               *)
ReceiveFails(w) ==
    /\ At(w, "receive")
    /\ inbox[w] \in {"nothing", "end"}
    /\ Goto(w, "unreceived")
    /\ UNCHANGED <<inbox, line, request, attempt, parseVars, reply, closes, crashed>>

(* recv fails with another error, EINTR when the stop signal is delivered to *)
(* this thread for one.                                                      *)
ReceiveInterrupted(w) ==
    /\ At(w, "receive")
    /\ Goto(w, "unreceived")
    /\ UNCHANGED <<inbox, line, request, attempt, parseVars, reply, closes, crashed>>

----------------------------------------------------------------------------
(* receive_message and the switch on the type.  Locals of a function that    *)
(* returns get their initial value back.                                     *)

(* A line of less than two characters, without '|' or without a type from 0  *)
(* to 1000 is dropped without a reply.                                       *)
DropLine(w) ==
    /\ At(w, "decode")
    /\ Goto(w, "unreceived")
    /\ line' = [line EXCEPT ![w] = 0]
    /\ UNCHANGED <<inbox, request, attempt, parseVars, reply, closes, crashed>>

Dispatch(w) ==
    /\ At(w, "decode")
    /\ line[w] >= 2
    /\ \E r \in Request :
          /\ request' = [request EXCEPT ![w] = r]
          /\ Goto(w, IF r.type = "unknown" THEN "unknown" ELSE "parse")
    /\ line' = [line EXCEPT ![w] = 0]
    /\ UNCHANGED <<inbox, attempt, parseVars, reply, closes, crashed>>

----------------------------------------------------------------------------
(* parse_client_dialog_message.                                              *)

Buffer(w) == <<w, attempt[w]>>

Owner(buffer) == buffer[1]

(* The payload is empty, or strdup fails.                                    *)
ParseNothing(w) ==
    /\ At(w, "parse")
    /\ Goto(w, "refuse")
    /\ UNCHANGED <<inbox, line, request, attempt, parseVars, reply, closes, crashed>>

(* strdup and strtok(data_copy, "|")                                         *)
FirstToken(w) ==
    /\ At(w, "parse")
    /\ live' = live \cup {Buffer(w)}
    /\ parts' = [parts EXCEPT ![w] = << >>]
    /\ IF request[w].fields > 0
         THEN /\ token' = [token EXCEPT ![w] = <<Buffer(w), 1>>]
              /\ position' = <<Buffer(w), 2>>
              /\ cut' = cut \cup {<<Buffer(w), 1>>}
         ELSE /\ token' = [token EXCEPT ![w] = NoToken]
              /\ position' = <<Buffer(w), 1>>
              /\ UNCHANGED cut
    /\ Goto(w, "tokens")
    /\ UNCHANGED <<inbox, line, request, attempt, reg, parsed, reply, closes, crashed>>

MoreTokens(w) == token[w] # NoToken /\ Len(parts[w]) < 3

(* parts[part_count] = token, and strtok(NULL, "|") reads its pointer.       *)
KeepToken(w) ==
    /\ At(w, "tokens")
    /\ MoreTokens(w)
    /\ parts' = [parts EXCEPT ![w] = Append(@, token[w])]
    /\ reg' = [reg EXCEPT ![w] = position]
    /\ Goto(w, "advance")
    /\ UNCHANGED <<inbox, line, request, attempt, live, position, cut, token,
                   parsed, reply, closes, crashed>>

(* The rest of strtok(NULL, "|"): it scans the buffer its pointer led to,    *)
(* writes a NUL over the delimiter, stores the place behind it and returns a *)
(* token of that buffer.  Where another worker was there before, the scan    *)
(* ends at that worker's NUL, and the place stored is the end.  The pointer  *)
(* is never NULL: FirstToken has set it.                                     *)
NextToken(w) ==
    LET from  == reg[w][1]
        index == reg[w][2]
        last  == request[Owner(from)].fields
    IN  /\ At(w, "advance")
        /\ from \in live
        /\ IF index <= last
             THEN /\ token' = [token EXCEPT ![w] = reg[w]]
                  /\ position' = <<from, IF reg[w] \in cut THEN last + 1 ELSE index + 1>>
                  /\ cut' = cut \cup {reg[w]}
             ELSE /\ token' = [token EXCEPT ![w] = NoToken]
                  /\ position' = reg[w]
                  /\ UNCHANGED cut
        /\ Goto(w, "tokens")
        /\ UNCHANGED <<inbox, line, request, attempt, live, reg, parts, parsed,
                       reply, closes, crashed>>

(* The same when the owner of that buffer has freed it meanwhile.            *)
NextTokenOfFreed(w) ==
    /\ At(w, "advance")
    /\ reg[w][1] \notin live
    /\ \/ /\ crashed' = TRUE
          /\ UNCHANGED <<pc, token, position>>
       \/ /\ token' \in {[token EXCEPT ![w] = t] : t \in {Garbage, NoToken}}
          /\ position' = reg[w]
          /\ Goto(w, "tokens")
          /\ UNCHANGED crashed
    /\ UNCHANGED <<inbox, line, request, attempt, live, cut, reg, parts, parsed,
                   reply, closes>>

(* parse_client_dialog_message returns.                                      *)
DropLocals(w) ==
    /\ reg' = [reg EXCEPT ![w] = NoPosition]
    /\ token' = [token EXCEPT ![w] = NoToken]
    /\ parts' = [parts EXCEPT ![w] = << >>]

(* free(data_copy)                                                           *)
FreeCopy(w) ==
    /\ live' = live \ {Buffer(w)}
    /\ cut' = {t \in cut : t[1] # Buffer(w)}

(* Slip: the copy is not freed on the error path.                            *)
RejectPartsLeaking(w) ==
    /\ At(w, "tokens")
    /\ ~ MoreTokens(w)
    /\ Len(parts[w]) # 3
    /\ DropLocals(w)
    /\ Goto(w, "refuse")
    /\ UNCHANGED <<inbox, line, request, attempt, live, position, cut, parsed,
                   reply, closes, crashed>>

(* Other than three fields: data_copy is freed and the request refused.      *)
RejectParts(w) ==
    /\ At(w, "tokens")
    /\ ~ MoreTokens(w)
    /\ Len(parts[w]) # 3
    /\ FreeCopy(w)
    /\ DropLocals(w)
    /\ Goto(w, "refuse")
    /\ UNCHANGED <<inbox, line, request, attempt, position, parsed, reply, closes,
                   crashed>>

Readable(t) == t # Garbage /\ t[1] \in live

AfterParse(w) ==
    IF request[w].type = "ai_request" /\ attempt[w] = 1 THEN "ai" ELSE "test"

(* safe_strncpy of the three parts, and free(data_copy).  A part that lies   *)
(* in a freed buffer is copied as whatever that memory holds.                *)
CopyParts(w) ==
    /\ At(w, "tokens")
    /\ ~ MoreTokens(w)
    /\ Len(parts[w]) = 3
    /\ \/ /\ parsed' = [parsed EXCEPT ![w] =
                          [i \in 1 .. 3 |-> IF Readable(parts[w][i])
                                            THEN parts[w][i] ELSE Garbage]]
          /\ FreeCopy(w)
          /\ DropLocals(w)
          /\ Goto(w, AfterParse(w))
          /\ UNCHANGED crashed
       \/ /\ \E i \in 1 .. 3 : ~ Readable(parts[w][i])
          /\ crashed' = TRUE
          /\ UNCHANGED <<parsed, live, cut, reg, token, parts, pc>>
    /\ UNCHANGED <<inbox, line, request, attempt, position, reply, closes>>

----------------------------------------------------------------------------
(* The answer: the AI, the canned response, or an error.                     *)

(* send_message succeeds, or fails (client gone, connection reset): its      *)
(* callers close the socket in both cases.                                   *)
Send(w, kind) == reply' \in {[reply EXCEPT ![w] = r] : r \in {kind, "lost"}}

(* close(client_fd), and return, at five places of the handler.              *)
Close(w) ==
    /\ closes' = [closes EXCEPT ![w] = @ + 1]
    /\ parsed' = [parsed EXCEPT ![w] = << >>]
    /\ Goto(w, "done")

(* receive_message failed: nothing is sent.                                  *)
CloseUnreceived(w) ==
    /\ At(w, "unreceived")
    /\ Close(w)
    /\ UNCHANGED <<inbox, line, request, attempt, live, position, cut, reg, token,
                   parts, reply, crashed>>

(* Slip: no return after the close, as in the case that falls through.       *)
RefuseAiRequestAndGoOn(w) ==
    /\ At(w, "refuse")
    /\ AfterParse(w) = "ai"
    /\ Send(w, "error")
    /\ closes' = [closes EXCEPT ![w] = @ + 1]
    /\ attempt' = [attempt EXCEPT ![w] = 2]
    /\ Goto(w, "parse")
    /\ UNCHANGED <<inbox, line, request, parseVars, crashed>>

(* The parse of an AI request failed.                                        *)
RefuseAiRequest(w) ==
    /\ At(w, "refuse")
    /\ AfterParse(w) = "ai"
    /\ Send(w, "error")
    /\ Close(w)
    /\ UNCHANGED <<inbox, line, request, attempt, live, position, cut, reg, token,
                   parts, crashed>>

(* The parse of a test request failed, or the second of an AI request.       *)
RefuseTestRequest(w) ==
    /\ At(w, "refuse")
    /\ AfterParse(w) = "test"
    /\ Send(w, "error")
    /\ Close(w)
    /\ UNCHANGED <<inbox, line, request, attempt, live, position, cut, reg, token,
                   parts, crashed>>

(* strlen(..) == 0 for a field: tokens are never empty, garbage may be.      *)
MissingField(w) ==
    /\ At(w, "ai")
    /\ \E i \in 1 .. 3 : parsed[w][i] = Garbage
    /\ Send(w, "error")
    /\ Close(w)
    /\ UNCHANGED <<inbox, line, request, attempt, live, position, cut, reg, token,
                   parts, crashed>>

(* Slip: no break after the AI response.                                     *)
AiAnswersAndFallsThrough(w) ==
    /\ At(w, "ai")
    /\ Send(w, "ai_response")
    /\ attempt' = [attempt EXCEPT ![w] = 2]
    /\ Goto(w, "parse")
    /\ UNCHANGED <<inbox, line, request, parseVars, closes, crashed>>

(* The cases that break lead to the close at the end.                        *)
AiAnswers(w) ==
    /\ At(w, "ai")
    /\ Send(w, "ai_response")
    /\ Goto(w, "close")
    /\ UNCHANGED <<inbox, line, request, attempt, parseVars, closes, crashed>>

(* generate_ai_response fails: control falls through into the case of a test *)
(* request, which parses the message again.                                  *)
AiFails(w) ==
    /\ At(w, "ai")
    /\ attempt' = [attempt EXCEPT ![w] = 2]
    /\ parsed' = [parsed EXCEPT ![w] = << >>]
    /\ Goto(w, "parse")
    /\ UNCHANGED <<inbox, line, request, live, position, cut, reg, token, parts,
                   reply, closes, crashed>>

SendTestResponse(w) ==
    /\ At(w, "test")
    /\ Send(w, "test_response")
    /\ Goto(w, "close")
    /\ UNCHANGED <<inbox, line, request, attempt, parseVars, closes, crashed>>

RefuseUnknown(w) ==
    /\ At(w, "unknown")
    /\ Send(w, "error")
    /\ Goto(w, "close")
    /\ UNCHANGED <<inbox, line, request, attempt, parseVars, closes, crashed>>

CloseSocket(w) ==
    /\ At(w, "close")
    /\ Close(w)
    /\ UNCHANGED <<inbox, line, request, attempt, live, position, cut, reg, token,
                   parts, reply, crashed>>

----------------------------------------------------------------------------

HandlerStep(w) ==
    \/ ReceiveByte(w) \/ ReceiveFails(w)
    \/ DropLine(w) \/ Dispatch(w)
    \/ ParseNothing(w) \/ FirstToken(w) \/ KeepToken(w) \/ NextToken(w)
    \/ NextTokenOfFreed(w) \/ RejectParts(w) \/ CopyParts(w)
    \/ CloseUnreceived(w) \/ RefuseAiRequest(w) \/ RefuseTestRequest(w)
    \/ MissingField(w) \/ AiAnswers(w) \/ AiFails(w)
    \/ SendTestResponse(w) \/ RefuseUnknown(w) \/ CloseSocket(w)

Ended == /\ crashed \/ \A w \in Workers : pc[w] = "done"
         /\ UNCHANGED vars

Next ==
    \/ \E w \in Workers : HandlerStep(w) \/ ClientSends(w) \/ ReceiveInterrupted(w)
    \/ Ended

Spec == Init /\ [][Next]_vars

(* Every worker keeps running; recv times out, the AI call times out and     *)
(* send returns.  Nothing is assumed of the client.                          *)
FairSpec == Spec /\ \A w \in Workers : WF_vars(HandlerStep(w))
----------------------------------------------------------------------------

TypeOK ==
    /\ pc \in [Workers -> {"receive", "decode", "unreceived", "parse", "tokens",
                           "advance", "refuse", "ai", "test", "unknown", "close",
                           "done"}]
    /\ inbox \in [Workers -> Bytes \cup {"nothing", "end"}]
    /\ line \in [Workers -> 0 .. LineCapacity]
    /\ request \in [Workers -> Request]
    /\ attempt \in [Workers -> {1, 2}]
    /\ live \subseteq Buffers
    /\ position \in Positions \cup {NoPosition}
    /\ cut \subseteq Tokens
    /\ reg \in [Workers -> Positions \cup {NoPosition}]
    /\ token \in [Workers -> Tokens \cup {NoToken, Garbage}]
    /\ parts \in [Workers -> Seq(Tokens \cup {Garbage})]
    /\ parsed \in [Workers -> Seq(Tokens \cup {Garbage})]
    /\ reply \in [Workers -> {"none", "ai_response", "test_response", "error",
                              "lost"}]
    /\ closes \in [Workers -> Nat]
    /\ crashed \in BOOLEAN

(* Every path through the handler, the fall-through after an AI failure and  *)
(* the parse errors of the second parse included, closes the socket once and *)
(* frees every copy of the payload; a second close would hit a descriptor    *)
(* that accept may have given to another connection.                         *)
ClosedOnceAndNothingKept ==
    \A w \in Workers :
        /\ closes[w] = IF pc[w] = "done" THEN 1 ELSE 0
        /\ pc[w] \in {"refuse", "ai", "test", "close", "done"}
              => \A b \in live : Owner(b) # w

(* One connection, one reply, of the kind its request allows: the fall-      *)
(* through answers an AI request with a test response, never the reverse,    *)
(* and never after an AI response was sent or lost.                          *)
ReplyFitsRequest ==
    \A w \in Workers :
        /\ reply[w] = "ai_response" => /\ request[w].type = "ai_request"
                                       /\ attempt[w] = 1
        /\ reply[w] = "test_response" =>
              \/ request[w].type = "test_request"
              \/ request[w].type = "ai_request" /\ attempt[w] = 2
        /\ pc[w] \notin {"close", "done"} => reply[w] = "none"

(* The handler ends, whatever the client sends or leaves unsent, except for  *)
(* one that goes on sending carriage returns, which restart the timeout and  *)
(* never fill the line.                                                      *)
EndsUnlessFedCarriageReturns ==
    \A w \in Workers :
        []<>(inbox[w] = "cr") \/ <>(crashed \/ pc[w] = "done")

(* protocol.c:222, "Parse complete stateless client message into             *)
(* components": the fields a request is answered from are those of its own   *)
(* message.                                                                  *)
ParsedFieldsAreOwn ==
    \A w \in Workers : pc[w] \in {"ai", "test"} =>
        \A i \in 1 .. 3 : parsed[w][i] = <<Buffer(w), i>>
=============================================================================
