------------------------------ MODULE GeminiCall ------------------------------
(***************************************************************************)
(* One call of generate_ai_response, from a worker's point of view: what is  *)
(* acquired and released on every path through call_gemini_api, what the     *)
(* call reports, and what process_single_request_and_close makes of it.      *)
(* libcurl, json-c and the Gemini service are external.                      *)
(***************************************************************************)
EXTENDS Integers

CONSTANT MaxChunks   \* bound on the pieces libcurl delivers the body in, a Nat

VARIABLES stage,     \* control state of the call
          owned,     \* allocations not yet released, per resource
          chunks,    \* pieces of the body stored in api_response
          http_code,
          response,  \* contents of response->response
          success,   \* response->success
          result,    \* return value of call_gemini_api
          shown      \* what the client is sent in the end

vars == <<stage, owned, chunks, http_code, response, success, result, shown>>

Resources == {"curl", "headers", "memory", "json"}
Codes     == {0, 200, 400, 403}
Stages    == {"init", "request", "headers", "perform", "failed", "answered",
              "error_body", "body", "cleanup", "returned", "shown"}

(* The texts of lines 295 to 314; the one of 403, quota exceeded, stands for  *)
(* those of 401 and 429 too.                                                 *)
ErrorText(code) == IF code = 403 THEN "quota exceeded" ELSE "api error"

ErrorTexts == {ErrorText(code) : code \in Codes \ {200}}

Init == /\ stage = "init"
        /\ owned = [r \in Resources |-> 0]
        /\ chunks = 0
        /\ http_code = 0
        /\ response = "empty"
        /\ success = FALSE
        /\ result = "none"
        /\ shown = "none"

(* The locals of the next call of call_gemini_api.                           *)
NewCall ==
    /\ stage' = "init"
    /\ owned' = [r \in Resources |-> 0]
    /\ chunks' = 0
    /\ http_code' = 0
    /\ response' = "empty"
    /\ success' = FALSE
    /\ result' = "none"
    /\ shown' = "none"

Acquire(r) == owned' = [owned EXCEPT ![r] = @ + 1]
Release(R) == owned' = [r \in Resources |-> IF r \in R THEN owned[r] - 1
                                            ELSE owned[r]]

(* free and curl_slist_free_all accept NULL.                                 *)
IfHeld(R) == {r \in R : owned[r] > 0}

Return(value) == result' = value /\ stage' = "returned"

(* curl_easy_init                                                            *)
InitCurl ==
    /\ stage = "init"
    /\ \/ /\ Acquire("curl")
          /\ stage' = "request"
          /\ UNCHANGED result
       \/ /\ Return("error")
          /\ UNCHANGED owned
    /\ UNCHANGED <<chunks, http_code, response, success, shown>>

(* generate_gemini_request_json, which fails when the request does not fit.  *)
BuildRequest ==
    /\ stage = "request"
    /\ \/ stage' = "headers" /\ UNCHANGED <<owned, result>>
       \/ Release({"curl"}) /\ Return("error")
    /\ UNCHANGED <<chunks, http_code, response, success, shown>>

(* curl_slist_append, which may return NULL, and the options.                *)
SetHeaders ==
    /\ stage = "headers"
    /\ Acquire("headers") \/ UNCHANGED owned
    /\ stage' = "perform"
    /\ UNCHANGED <<chunks, http_code, response, success, result, shown>>

(* my_curl_write_callback: a piece is appended to the buffer; when realloc   *)
(* fails the old buffer stays and curl gives the transfer up.                *)
WriteCallback ==
    /\ stage = "perform"
    /\ chunks < MaxChunks
    /\ \/ /\ chunks' = chunks + 1
          /\ IF owned["memory"] = 0 THEN Acquire("memory") ELSE UNCHANGED owned
          /\ UNCHANGED <<stage, http_code>>
       \/ /\ stage' = "failed"
          /\ http_code' \in Codes \ {0}
          /\ UNCHANGED <<chunks, owned>>
    /\ UNCHANGED <<response, success, result, shown>>

(* curl_easy_perform returns: a network error or the timeout of              *)
(* AI_TIMEOUT_SECONDS, at any point of the transfer, or a complete answer.   *)
PerformReturns ==
    /\ stage = "perform"
    /\ \/ http_code' \in Codes /\ stage' = "failed"
       \/ http_code' \in Codes \ {0} /\ stage' = "answered"
    /\ UNCHANGED <<owned, chunks, response, success, result, shown>>

TransferFailed ==
    /\ stage = "failed"
    /\ Release(IfHeld({"headers", "curl", "memory"}))
    /\ Return("error")
    /\ UNCHANGED <<chunks, http_code, response, success, shown>>

(* The status decides; a body is parsed if there is one.                     *)
CheckStatus ==
    /\ stage = "answered"
    /\ \/ /\ owned["memory"] > 0
          /\ Acquire("json")
          /\ stage' = IF http_code = 200 THEN "body" ELSE "error_body"
       \/ stage' = "cleanup" /\ UNCHANGED owned   \* no body, or not JSON
    /\ UNCHANGED <<chunks, http_code, response, success, result, shown>>

(* An error answer may carry "error" and "message".                          *)
ReadError ==
    /\ stage = "error_body"
    /\ response' \in {response, ErrorText(http_code)}
    /\ Release({"json"})
    /\ stage' = "cleanup"
    /\ UNCHANGED <<chunks, http_code, success, result, shown>>

(* candidates[0].content.parts[0].text is there, or one of them is not.      *)
ReadText ==
    /\ stage = "body"
    /\ \/ response' = "text" /\ success' = TRUE
       \/ UNCHANGED <<response, success>>
    /\ Release({"json"})
    /\ stage' = "cleanup"
    /\ UNCHANGED <<chunks, http_code, result, shown>>

(* Slip: the buffer is only freed on the successful path.                    *)
CleanUpWithoutBuffer ==
    /\ stage = "cleanup"
    /\ Release(IfHeld({"headers", "curl"}))
    /\ Return(IF http_code = 200 /\ success THEN "ok" ELSE "error")
    /\ UNCHANGED <<chunks, http_code, response, success, shown>>

(* The two clean-ups of lines 322 to 329 and 427 to 435.                     *)
CleanUp ==
    /\ stage = "cleanup"
    /\ Release(IfHeld({"headers", "curl", "memory"}))
    /\ Return(IF http_code = 200 /\ success THEN "ok" ELSE "error")
    /\ UNCHANGED <<chunks, http_code, response, success, shown>>

(* Slip: the handler sends whatever the response holds.                      *)
AnswerAnyway ==
    /\ stage = "returned"
    /\ shown' = IF response # "empty" THEN response ELSE "test response"
    /\ stage' = "shown"
    /\ UNCHANGED <<owned, chunks, http_code, response, success, result>>

(* The handler sends the response, or falls through to a test response.      *)
Answer ==
    /\ stage = "returned"
    /\ shown' = IF result = "ok" /\ success THEN response ELSE "test response"
    /\ stage' = "shown"
    /\ UNCHANGED <<owned, chunks, http_code, response, success, result>>

Ended == stage = "shown" /\ UNCHANGED vars

Step == \/ InitCurl \/ BuildRequest \/ SetHeaders \/ WriteCallback \/ PerformReturns
        \/ TransferFailed \/ CheckStatus \/ ReadError \/ ReadText \/ CleanUp
        \/ Answer

Next == Step \/ Ended

Spec == Init /\ [][Next]_vars
----------------------------------------------------------------------------

TypeOK == /\ stage \in Stages
          /\ owned \in [Resources -> Int]
          /\ chunks \in 0 .. MaxChunks
          /\ http_code \in Codes
          /\ response \in {"empty", "text"} \cup ErrorTexts
          /\ success \in BOOLEAN
          /\ result \in {"none", "ok", "error"}
          /\ shown \in {"none", "text", "test response"}

(* Whatever step fails (no handle, request too long, no headers, realloc,    *)
(* transfer, status, body), everything acquired before is released, once.    *)
EverythingReleasedOnce ==
    /\ \A r \in Resources : owned[r] \in {0, 1}
    /\ result # "none" => \A r \in Resources : owned[r] = 0

(* The client gets AI text only out of a 200 answer; error texts, partial    *)
(* bodies and stale contents of the response never pass for an AI response.  *)
OnlyTextPassesForAnswer ==
    shown \notin {"none", "test response"} =>
        http_code = 200 /\ chunks > 0 /\ response = "text" /\ shown = "text"
=============================================================================
