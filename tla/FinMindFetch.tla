---------------------------- MODULE FinMindFetch ----------------------------
(***************************************************************************)
(* When the GETs of FinMindClient.fetch leave: the AsyncLimiter that every *)
(* attempt passes, and the retry that waits between attempts.  Callers are *)
(* tasks that share a client, and with it the limiter; each fetches over   *)
(* and over.  The limiter is external: a leaky bucket which a GET fills by *)
(* one and which leaks MaxRate per TimePeriod.  Here a GET weighs          *)
(* TimePeriod and the bucket leaks MaxRate per tick, so that levels are    *)
(* whole numbers.                                                          *)
(*                                                                         *)
(* The event loop is quick: what can be done now is done before time       *)
(* passes.                                                                 *)
(***************************************************************************)
EXTENDS FinMindClient, Integers, FiniteSetsExt, Functions

CONSTANTS
    Callers,
    MaxRate,        \* max_rate, 8 in the code
    TimePeriod,     \* time_period, 60 seconds in the code
    WaitInitial,    \* retry_wait_initial, 2 seconds in the code
    WaitMax,        \* retry_wait_max, 60 seconds in the code
    Jitter,         \* the jitters drawn, reals up to a second in the code
    Timeout,        \* the HTTP time-out
    MaxTime         \* bound: the ticks of a behaviour

ASSUME LimiterAssumption == {MaxRate, TimePeriod} \subseteq Nat \ {0}
ASSUME WaitAssumption == {WaitInitial, WaitMax, Timeout, MaxTime} \subseteq Nat
ASSUME JitterAssumption == Jitter \subseteq Nat

VARIABLES
    now,
    level,      \* of the bucket
    call,       \* per caller, its open fetch
    sent,       \* history: the number of GETs sent
    sentBefore  \* history: per time, the number sent before it

fetchVars == <<now, level, call, sent, sentBefore>>

Times == 0..MaxTime
Capacity == MaxRate * TimePeriod

\* a fetch: its step, the attempts made, when the step is over at the latest,
\* when it began to wait for the limiter and what had been sent then, and when
\* it sent its first GET
NoFetch == [pc |-> "idle", made |-> 0, until |-> 0, since |-> 0, ahead |-> 0, first |-> 0]

FetchTypeOK ==
    /\ now \in Times
    /\ level \in 0..Capacity
    /\ call \in [Callers -> [pc : {"idle", "acquire", "flight", "backoff", "gave up"},
                             made : 0..MaxAttempts, until : Int, since : Times,
                             ahead : Nat, first : Times]]
    /\ sent \in Nat
    /\ sentBefore \in [Times -> Nat]

FetchInit ==
    /\ now = 0
    /\ level = 0
    /\ call = [c \in Callers |-> NoFetch]
    /\ sent = 0
    /\ sentBefore = [t \in Times |-> 0]
-----------------------------------------------------------------------------
\* `async with self._limiter`: the attempt asks for a place
Asking(old) == [old EXCEPT !.pc = "acquire", !.since = now, !.ahead = sent]

BeginFetch(c) ==
    /\ call[c].pc \in {"idle", "gave up"}
    /\ call' = [call EXCEPT ![c] = Asking(NoFetch)]
    /\ UNCHANGED <<now, level, sent, sentBefore>>

\* variant with a fault: has_capacity forgets the amount that is asked for
HasCapacityNow == level < Capacity

\* variant with a fault: a place is held until the reply is there
HasCapacityHeld ==
    /\ level + TimePeriod <= Capacity
    /\ \A c \in Callers : call[c].pc # "flight"

HasCapacity == level + TimePeriod <= Capacity

Asked(old) == [old EXCEPT !.pc = "flight", !.until = now + Timeout, !.made = old.made + 1,
                          !.first = IF old.made = 0 THEN now ELSE old.first]

\* acquire() succeeds, and the GET leaves
Send(c) ==
    /\ call[c].pc = "acquire"
    /\ HasCapacity
    /\ level' = level + TimePeriod
    /\ sent' = sent + 1
    /\ call' = [call EXCEPT ![c] = Asked(call[c])]
    /\ UNCHANGED <<now, sentBefore>>

\* wait_exponential_jitter without its jitter: initial * 2^(n-1), at most max
Backoff(n) ==
    LET wait == WaitInitial * 2 ^ (n - 1)
    IN  IF wait < WaitMax THEN wait ELSE WaitMax

\* variant with a fault: every wait is the first one
WaitsFlat(n) == {Backoff(1)}

\* the jitter counts towards the maximum
Waits(n) == {IF Backoff(n) + j < WaitMax THEN Backoff(n) + j ELSE WaitMax : j \in Jitter}

\* the reply, or the time-out, and what the retry makes of it
Answer(c) ==
    /\ call[c].pc = "flight"
    /\ \E reply \in Replies \cup {NoReply} :
          LET result == AttemptResult(reply, call[c].made)
          IN  \/ /\ result = "retry"
                 /\ \E wait \in Waits(call[c].made) :
                       call' = [call EXCEPT ![c].pc = "backoff", ![c].until = now + wait]
              \/ /\ result = "rate limit error"
                 /\ call' = [call EXCEPT ![c].pc = "gave up"]
              \/ /\ result \in {"data", "request error", "uncaught"}
                 /\ call' = [call EXCEPT ![c] = NoFetch]
    /\ UNCHANGED <<now, level, sent, sentBefore>>

\* variant with a fault: the limiter is passed once, outside the retry
RetryUnlimited(c) ==
    /\ call[c].pc = "backoff"
    /\ call[c].until <= now
    /\ sent' = sent + 1
    /\ call' = [call EXCEPT ![c] = Asked(call[c])]
    /\ UNCHANGED <<now, level, sentBefore>>

\* the next attempt is a whole one: it passes the limiter again
Retry(c) ==
    /\ call[c].pc = "backoff"
    /\ call[c].until <= now
    /\ call' = [call EXCEPT ![c] = Asking(call[c])]
    /\ UNCHANGED <<now, level, sent, sentBefore>>

\* nothing that could be done now is left
Quiet ==
    \A c \in Callers :
        /\ call[c].pc = "acquire" => ~HasCapacity
        /\ call[c].pc \in {"flight", "backoff"} => now < call[c].until

Tick ==
    /\ now < MaxTime
    /\ Quiet
    /\ now' = now + 1
    /\ level' = IF level > MaxRate THEN level - MaxRate ELSE 0
    /\ sentBefore' = [sentBefore EXCEPT ![now + 1] = sent]
    /\ UNCHANGED <<call, sent>>

\* the modelled time is up; what waits for a later time waits
TimeIsUp ==
    /\ now = MaxTime
    /\ Quiet
    /\ UNCHANGED fetchVars
-----------------------------------------------------------------------------
FetchNext ==
    \/ Tick \/ TimeIsUp
    \/ \E c \in Callers : BeginFetch(c) \/ Send(c) \/ Answer(c) \/ Retry(c)

FetchSpec == FetchInit /\ [][FetchNext]_fetchVars
-----------------------------------------------------------------------------
\* How many GETs may reach FinMind: from any time on, MaxRate per TimePeriod and
\* a burst of MaxRate on top, retries included, whatever the callers and the
\* replies.  Over an hour that is 488 with the values of the code, but 15 within
\* a minute.
RateBound ==
    \A t \in 0..now :
        (sent - sentBefore[t]) * TimePeriod <= MaxRate * (TimePeriod + now - t)

\* The limiter holds nobody up for nothing: while a caller waits, GETs leave at
\* the full rate.  A caller on its own, as in every run of an ingest, waits less
\* than the time of one GET and a tick.
WaitIsShort ==
    \A c \in Callers : call[c].pc = "acquire" =>
        (now - call[c].since) * MaxRate < (sent - call[c].ahead + 1) * TimePeriod + MaxRate

\* the exponential waits, and how long a fetch has slept before its n-th attempt
WaitOf == [n \in 1..MaxAttempts |-> Backoff(n)]
Slept(n) == SumFunctionOnSet(WaitOf, 1..(n - 1))

\* A fetch gives up on a busy FinMind only after it has asked MaxAttempts times,
\* spread over the sum of the exponential waits.
GivesUpLate ==
    \A c \in Callers : call[c].pc = "gave up" =>
        /\ call[c].made = MaxAttempts
        /\ now - call[c].first >= Slept(MaxAttempts)
=============================================================================
