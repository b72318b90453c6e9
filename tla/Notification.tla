---------------------------- MODULE Notification ----------------------------
(***************************************************************************)
(* NotificationService.publish_daily for one day, through the Discord      *)
(* webhook: read the day's events signal by signal, skip the channel when  *)
(* there are none, else POST one message with an embed per signal that has *)
(* events, retried on 429 and 5xx.  Evaluations may still upsert events    *)
(* while it reads.  A publisher is the 17:50 cron tick or `literati-signal *)
(* notify`, each with its own list of signal names.                        *)
(*                                                                         *)
(* Discord is external: it shows a message it answers below 400, and may   *)
(* or may not have shown one whose answer is a 5xx or never arrives.       *)
(***************************************************************************)
EXTENDS Integers, Sequences, SequencesExt

CONSTANTS
    Stocks,
    Signals,        \* the signals the application evaluates
    Severities,     \* severities of events, numbers
    NoEvent,        \* signal_event has no row
    Publishers,     \* processes that may call publish_daily
    SignalNames,    \* per publisher, the signal_names of its service
    MaxAttempts,    \* max_attempts of the channel, 3 in the code
    MaxFields,      \* MAX_FIELDS_PER_EMBED, 10 in the code
    MaxCalls        \* bound: calls of publish_daily

Calls == 1..MaxCalls

ASSUME StocksAssumption == IsFiniteSet(Stocks)
ASSUME SeveritiesAssumption == Severities \subseteq Int /\ NoEvent \notin Severities
ASSUME SignalNamesAssumption == SignalNames \in [Publishers -> Seq(Signals)]
ASSUME LimitsAssumption == {MaxAttempts, MaxFields} \subseteq Nat \ {0} /\ MaxCalls \in Nat

VARIABLES
    event,      \* signal_event rows of the day, by signal and stock
    run,        \* per publisher, its open publish_daily call
    sent,       \* per call, the messages Discord showed, in order
    since,      \* history: the stocks with events when the call began
    who,        \* history: the publisher of the call
    outcome,    \* how the call ended
    calls

vars == <<event, run, sent, since, who, outcome, calls>>

NoEvents   == [signal \in Signals |-> [s \in Stocks |-> NoEvent]]
EventTable == [Signals -> [Stocks -> Severities \cup {NoEvent}]]

With(tbl, signal) == {s \in Stocks : tbl[signal][s] # NoEvent}
Hit(tbl) == {signal \in Signals : With(tbl, signal) # {}}

Outcomes == {"none", "open", "skipped", "sent", "raised", "killed"}

\* what an embed shows: the number of hits and the stocks it lists; a message
\* has one for each signal with events
Embed   == [total : 1..Cardinality(Stocks), shown : SUBSET Stocks]
Message == UNION {[S -> Embed] : S \in SUBSET Signals}
NoMessage == [signal \in {} |-> 0]

Idle == [pc |-> "idle", call |-> 0, names |-> << >>, loaded |-> NoEvents,
         message |-> NoMessage, made |-> 0]

TypeOK ==
    /\ event \in EventTable
    /\ \A p \in Publishers :
          /\ run[p].pc \in {"idle", "load", "post"}
          /\ run[p].call \in 0..MaxCalls
          /\ run[p].names \in Seq(Signals)
          /\ run[p].loaded \in EventTable
          /\ run[p].message \in Message
          /\ run[p].made \in 0..(MaxAttempts - 1)
    /\ \A c \in Calls : sent[c] \in Seq([reply : {"2xx", "5xx", "none"}, message : Message])
    /\ since \in [Calls -> [Signals -> SUBSET Stocks]]
    /\ \A c \in 1..calls : who[c] \in Publishers
    /\ outcome \in [Calls -> Outcomes]
    /\ calls \in 0..MaxCalls

Init ==
    /\ event = NoEvents
    /\ run = [p \in Publishers |-> Idle]
    /\ sent = [c \in Calls |-> << >>]
    /\ since = [c \in Calls |-> [signal \in Signals |-> {}]]
    /\ who = << >>
    /\ outcome = [c \in Calls |-> "none"]
    /\ calls = 0
-----------------------------------------------------------------------------
\* an evaluation upserts an event of the day; rows are never deleted
RecordEvent(signal, s) ==
    /\ \E severity \in Severities : event' = [event EXCEPT ![signal][s] = severity]
    /\ UNCHANGED <<run, sent, since, who, outcome, calls>>

StartPublish(p) ==
    /\ run[p].pc = "idle"
    /\ calls < MaxCalls
    /\ calls' = calls + 1
    /\ since' = [since EXCEPT ![calls + 1] = [signal \in Signals |-> With(event, signal)]]
    /\ who' = Append(who, p)
    /\ outcome' = [outcome EXCEPT ![calls + 1] = "open"]
    /\ run' = [run EXCEPT ![p] = [Idle EXCEPT !.pc = "load", !.call = calls + 1,
                                              !.names = SignalNames[p]]]
    /\ UNCHANGED <<event, sent>>

\* variant with a fault: the list of names is not used up
LoadEventsAgain(p) ==
    /\ run[p].pc = "load"
    /\ run[p].names # << >>
    /\ run' = [run EXCEPT ![p].loaded[Head(run[p].names)] = event[Head(run[p].names)]]
    /\ UNCHANGED <<event, sent, since, who, outcome, calls>>

\* one SELECT per signal name, each sees what is committed when it runs
LoadEvents(p) ==
    /\ run[p].pc = "load"
    /\ run[p].names # << >>
    /\ LET signal == Head(run[p].names)
       IN  run' = [run EXCEPT ![p].loaded[signal] = event[signal], ![p].names = Tail(@)]
    /\ UNCHANGED <<event, sent, since, who, outcome, calls>>

EndCall(p, how) ==
    /\ outcome' = [outcome EXCEPT ![run[p].call] = how]
    /\ run' = [run EXCEPT ![p] = Idle]

SkipEmpty(p) ==
    /\ run[p].pc = "load"
    /\ run[p].names = << >>
    /\ Hit(run[p].loaded) = {}
    /\ EndCall(p, "skipped")
    /\ UNCHANGED <<event, sent, since, who, calls>>

\* the fields of an embed: the first MaxFields stocks in order of severity,
\* highest first, ties in any order
IsTop(tbl, signal, shown) ==
    LET hits == With(tbl, signal)
    IN  /\ shown \subseteq hits
        /\ Cardinality(shown) = Min({MaxFields, Cardinality(hits)})
        /\ \A s \in shown : \A r \in hits \ shown : tbl[signal][s] >= tbl[signal][r]

\* variant with a fault: the total counts the listed stocks
IsMessageOfListed(tbl, message) ==
    \A signal \in Hit(tbl) :
        /\ message[signal].total = Cardinality(message[signal].shown)
        /\ IsTop(tbl, signal, message[signal].shown)

\* build_embeds: a message the loaded events give
IsMessage(tbl, message) ==
    \A signal \in Hit(tbl) :
        /\ message[signal].total = Cardinality(With(tbl, signal))
        /\ IsTop(tbl, signal, message[signal].shown)

\* variant with a fault: the channel is called with nothing to send
CallChannelAlways(p) ==
    /\ run[p].pc = "load"
    /\ run[p].names = << >>
    /\ \E message \in [Hit(run[p].loaded) -> Embed] :
          /\ IsMessage(run[p].loaded, message)
          /\ run' = [run EXCEPT ![p].pc = "post", ![p].message = message]
    /\ UNCHANGED <<event, sent, since, who, outcome, calls>>

CallChannel(p) ==
    /\ run[p].pc = "load"
    /\ run[p].names = << >>
    /\ Hit(run[p].loaded) # {}
    /\ \E message \in [Hit(run[p].loaded) -> Embed] :
          /\ IsMessage(run[p].loaded, message)
          /\ run' = [run EXCEPT ![p].pc = "post", ![p].message = message]
    /\ UNCHANGED <<event, sent, since, who, outcome, calls>>

\* Discord shows the message in the channel
Show(p, reply) ==
    sent' = [sent EXCEPT ![run[p].call] =
                Append(@, [reply |-> reply, message |-> run[p].message])]

\* variant with a fault: one attempt too many
RetryOneMore(p) ==
    IF run[p].made < MaxAttempts
    THEN run' = [run EXCEPT ![p].made = @ + 1] /\ UNCHANGED outcome
    ELSE EndCall(p, "raised")

\* a retryable status: again, or raise after the last attempt
Retry(p) ==
    IF run[p].made + 1 < MaxAttempts
    THEN run' = [run EXCEPT ![p].made = @ + 1] /\ UNCHANGED outcome
    ELSE EndCall(p, "raised")

\* variant with a fault: a lost answer is retried
PostRetryingLost(p) ==
    /\ run[p].pc = "post"
    /\ \/ Show(p, "2xx") /\ EndCall(p, "sent")
       \/ UNCHANGED sent /\ Retry(p)
       \/ Show(p, "5xx") /\ Retry(p)
       \/ Show(p, "none") /\ Retry(p)
    /\ UNCHANGED <<event, since, who, calls>>

\* one POST and its answer; a 4xx and a transport error are not retried
Post(p) ==
    /\ run[p].pc = "post"
    /\ \/ Show(p, "2xx") /\ EndCall(p, "sent")
       \/ UNCHANGED sent /\ Retry(p)                              \* 429, or 5xx
       \/ Show(p, "5xx") /\ Retry(p)                              \* shown all the same
       \/ UNCHANGED sent /\ EndCall(p, "raised")                  \* 4xx, or no answer
       \/ Show(p, "none") /\ EndCall(p, "raised")                 \* answer lost
    /\ UNCHANGED <<event, since, who, calls>>

\* a database error, a crash, or shutdown cancelling the job
Killed(p) ==
    /\ run[p].pc # "idle"
    /\ EndCall(p, "killed")
    /\ UNCHANGED <<event, sent, since, who, calls>>
-----------------------------------------------------------------------------
PublishStep(p) ==
    \/ LoadEvents(p)
    \/ SkipEmpty(p)
    \/ CallChannel(p)
    \/ Post(p)

Next ==
    \/ \E signal \in Signals, s \in Stocks : RecordEvent(signal, s)
    \/ \E p \in Publishers : StartPublish(p) \/ PublishStep(p) \/ Killed(p)

Spec == Init /\ [][Next]_vars

\* the event loop runs what is ready, and every POST ends within the time-out
FairSpec == Spec /\ \A p \in Publishers : WF_vars(PublishStep(p))
-----------------------------------------------------------------------------
Names(c) == Range(SignalNames[who[c]])

\* stock s of a signal can be read off the message: it is listed, or the embed
\* is full and its total counts more than it lists
Covers(message, signal, s) ==
    /\ signal \in DOMAIN message
    /\ \/ s \in message[signal].shown
       \/ /\ Cardinality(message[signal].shown) = MaxFields
          /\ message[signal].total > MaxFields

LastMessage(c) == Last(sent[c]).message

\* A call's outcome tells the truth about the channel, though events come in
\* while it reads: if it returned after sending, the channel shows every event
\* of its signals that was recorded before it began; if it skipped, there was
\* none and the channel shows nothing.
OutcomeIsTrue ==
    \A c \in Calls :
        /\ outcome[c] = "sent" =>
              /\ sent[c] # << >>
              /\ \A signal \in Names(c) : \A s \in since[c][signal] :
                    Covers(LastMessage(c), signal, s)
        /\ outcome[c] = "skipped" =>
              /\ sent[c] = << >>
              /\ \A signal \in Names(c) : since[c][signal] = {}

\* The no-spam contract, and no invention: a message has an embed, every embed
\* lists a stock, and each listed stock has an event of one of the call's signals.
OnlyRecorded ==
    \A c \in Calls : \A n \in DOMAIN sent[c] :
        LET message == sent[c][n].message
        IN  /\ DOMAIN message # {}
            /\ DOMAIN message \subseteq Names(c)
            /\ \A signal \in DOMAIN message :
                  /\ message[signal].shown # {}
                  /\ message[signal].shown \subseteq With(event, signal)

\* A call repeats a message only after a 5xx for a message Discord did show:
\* when answers are honest, one call shows at most one message.
RepeatsOnlyAfter5xx ==
    \A c \in Calls : \A n \in DOMAIN sent[c] :
        n < Len(sent[c]) => sent[c][n].reply = "5xx"

\* Every started call ends, however often Discord asks to try again.
PublishEnds == \A c \in Calls : calls >= c ~> outcome[c] # "open"
=============================================================================
