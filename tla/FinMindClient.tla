---------------------------- MODULE FinMindClient ---------------------------
(***************************************************************************)
(* How one GET of the FinMind API ends for FinMindClient.fetch.  FinMind   *)
(* is external: a request ends with a transport error or time-out, or with *)
(* a reply whose HTTP status class and body shape are what the client      *)
(* looks at.                                                               *)
(***************************************************************************)
EXTENDS Naturals

CONSTANTS
    MaxAttempts,    \* max_attempts, 5 in the code
    NoReply         \* httpx.TransportError: connect error, read time-out...

ASSUME MaxAttemptsAssumption == MaxAttempts \in Nat \ {0}

Reply(http, body) == [http |-> http, body |-> body]

\* FinMind reports its own status in the body of a 2xx reply
Bodies == {"not json", "not an object", "status 402", "status not 200",
           "data not a list", "data list"}

Replies == {Reply(http, "any") : http \in {"429", "5xx", "other"}}
               \cup {Reply("2xx", body) : body \in Bodies}

ASSUME NoReplyAssumption == NoReply \notin Replies

\* _parse_response and what httpx raises by itself: "uncaught" is an error that
\* is neither retried nor a FinMindError (TransportError, HTTPStatusError of
\* raise_for_status, JSONDecodeError)
ParseResponse(reply) ==
    CASE reply = NoReply                                -> "uncaught"
      [] reply.http \in {"429", "5xx"}                  -> "transient"
      [] reply.http = "other"                           -> "uncaught"
      [] reply.body = "not json"                        -> "uncaught"
      [] reply.body = "status 402"                      -> "transient"
      [] reply.body = "data list"                       -> "data"
      [] OTHER                                          -> "request error"

\* variants with a fault: one attempt too many, and no retry at all
AttemptResultOneMore(reply, made) ==
    LET parsed == ParseResponse(reply)
    IN  IF parsed # "transient" THEN parsed
        ELSE IF made <= MaxAttempts THEN "retry" ELSE "rate limit error"

AttemptResultOnce(reply, made) ==
    LET parsed == ParseResponse(reply)
    IN  IF parsed # "transient" THEN parsed ELSE "rate limit error"

\* the retry decorator around an attempt: only a transient error is tried again,
\* and the last one becomes FinMindRateLimitError
AttemptResult(reply, made) ==
    LET parsed == ParseResponse(reply)
    IN  IF parsed # "transient" THEN parsed
        ELSE IF made < MaxAttempts THEN "retry" ELSE "rate limit error"

FinMindErrors == {"rate limit error", "request error"}
=============================================================================
