------------------------ MODULE Notification_proofs -------------------------
(***************************************************************************)
(* Theorems about Notification, for every finite set of stocks, any        *)
(* signals, publishers, severities and limits: its type invariant, and     *)
(* what a reader of the channel may rely on, that a message is repeated    *)
(* only after a 5xx, says only what is recorded, and that the result of a  *)
(* call is true of what the channel shows.                                 *)
(***************************************************************************)
EXTENDS Notification, FiniteSetTheorems, SequenceTheorems, TLAPS

(***************************************************************************)
(* Types, and which call is whose.                                         *)
(***************************************************************************)

Shown == [reply : {"2xx", "5xx", "none"}, message : Message]

CallType == [pc      : {"idle", "load", "post"},
             call    : 0..MaxCalls,
             names   : Seq(Signals),
             loaded  : EventTable,
             message : Message,
             made    : 0..(MaxAttempts - 1)]

Types ==
    /\ event \in EventTable
    /\ run \in [Publishers -> CallType]
    /\ sent \in [Calls -> Seq(Shown)]
    /\ since \in [Calls -> [Signals -> SUBSET Stocks]]
    /\ who \in Seq(Publishers) /\ Len(who) = calls
    /\ outcome \in [Calls -> Outcomes]
    /\ calls \in 0..MaxCalls

\* an open call is its publisher's, and one without a number has left nothing
Owned ==
    /\ \A p \in Publishers :
          run[p].pc # "idle" =>
             run[p].call \in 1..calls /\ who[run[p].call] = p /\ outcome[run[p].call] = "open"
    /\ \A c \in Calls : c > calls => sent[c] = << >> /\ outcome[c] = "none"

OwnInv == Types /\ Owned

LEMMA NoMessageType == NoMessage \in Message
<1>1. NoMessage \in [{} -> Embed]
  BY DEF NoMessage
<1> QED BY <1>1 DEF Message

LEMMA NoEventsType == NoEvents \in EventTable
  BY DEF NoEvents, EventTable

LEMMA IdleType == Idle \in CallType
<1>1. 0 \in 0..MaxCalls /\ 0 \in 0..(MaxAttempts - 1)
  BY LimitsAssumption
<1>2. << >> \in Seq(Signals)
  OBVIOUS
<1> QED BY <1>1, <1>2, NoMessageType, NoEventsType DEF Idle, CallType

LEMMA OwnInit == Init => OwnInv
<1> SUFFICES ASSUME Init PROVE Types /\ Owned
  BY DEF OwnInv
<1>1. Types
  BY IdleType, NoEventsType, LimitsAssumption DEF Init, Types, Calls, Outcomes
<1>2. Owned
  BY DEF Init, Owned, Idle
<1> QED BY <1>1, <1>2

\* The call StartPublish opens.
Opened(p) == [Idle EXCEPT !.pc = "load", !.call = calls + 1, !.names = SignalNames[p]]

LEMMA OpenedFields ==
  ASSUME NEW p
  PROVE  /\ Opened(p).pc = "load" /\ Opened(p).call = calls + 1
         /\ Opened(p).names = SignalNames[p] /\ Opened(p).loaded = NoEvents
  BY DEF Opened, Idle

LEMMA OpenedType ==
  ASSUME Types, calls < MaxCalls, NEW p \in Publishers
  PROVE  Opened(p) \in CallType
<1>1. calls + 1 \in 0..MaxCalls
  BY LimitsAssumption DEF Types
<1>2. SignalNames[p] \in Seq(Signals)
  BY SignalNamesAssumption
<1> QED BY <1>1, <1>2, IdleType DEF Opened, CallType

\* What loading the events of a signal leaves of the call.
Loaded(c, tbl) == [c EXCEPT !.loaded[Head(c.names)] = tbl[Head(c.names)], !.names = Tail(c.names)]

LEMMA LoadedFields ==
  ASSUME NEW c \in CallType, NEW tbl \in EventTable, c.names # << >>
  PROVE  /\ Loaded(c, tbl) \in CallType
         /\ Loaded(c, tbl).pc = c.pc /\ Loaded(c, tbl).call = c.call
         /\ Loaded(c, tbl).names = Tail(c.names)
         /\ Loaded(c, tbl).loaded = [c.loaded EXCEPT ![Head(c.names)] = tbl[Head(c.names)]]
<1>1. Head(c.names) \in Signals /\ Tail(c.names) \in Seq(Signals)
  BY HeadTailProperties DEF CallType
<1>2. [c.loaded EXCEPT ![Head(c.names)] = tbl[Head(c.names)]] \in EventTable
  BY <1>1 DEF EventTable, CallType
<1>3. /\ Loaded(c, tbl).pc = c.pc /\ Loaded(c, tbl).call = c.call
      /\ Loaded(c, tbl).names = Tail(c.names)
      /\ Loaded(c, tbl).loaded = [c.loaded EXCEPT ![Head(c.names)] = tbl[Head(c.names)]]
  BY DEF Loaded, CallType
<1>4. Loaded(c, tbl) \in CallType
  BY <1>1, <1>2 DEF Loaded, CallType
<1> QED BY <1>3, <1>4

Posting(c, message) == [c EXCEPT !.pc = "post", !.message = message]
Again(c) == [c EXCEPT !.made = c.made + 1]

LEMMA PostingFields ==
  ASSUME NEW c \in CallType, NEW message \in Message
  PROVE  /\ Posting(c, message) \in CallType
         /\ Posting(c, message).pc = "post" /\ Posting(c, message).call = c.call
         /\ Posting(c, message).message = message
  BY DEF Posting, CallType

LEMMA AgainFields ==
  ASSUME NEW c \in CallType, c.made + 1 < MaxAttempts
  PROVE  /\ Again(c) \in CallType
         /\ Again(c).pc = c.pc /\ Again(c).call = c.call /\ Again(c).message = c.message
<1>1. c.made + 1 \in 0..(MaxAttempts - 1)
  BY LimitsAssumption DEF CallType
<1> QED BY <1>1 DEF Again, CallType

LEMMA LoadStep ==
  ASSUME Types, NEW p \in Publishers, LoadEvents(p)
  PROVE  /\ run[p] \in CallType /\ run[p].pc = "load" /\ run[p].names # << >>
         /\ run' = [run EXCEPT ![p] = Loaded(run[p], event)]
         /\ UNCHANGED <<event, sent, since, who, outcome, calls>>
  BY DEF LoadEvents, Types, Loaded

LEMMA CallStep ==
  ASSUME Types, NEW p \in Publishers, CallChannel(p)
  PROVE  /\ run[p] \in CallType /\ run[p].pc = "load" /\ run[p].names = << >>
         /\ Hit(run[p].loaded) # {}
         /\ UNCHANGED <<event, sent, since, who, outcome, calls>>
         /\ \E message \in [Hit(run[p].loaded) -> Embed] :
               /\ IsMessage(run[p].loaded, message) /\ message \in Message
               /\ run' = [run EXCEPT ![p] = Posting(run[p], message)]
<1>1. Hit(run[p].loaded) \subseteq Signals
  BY DEF Hit
<1>2. [Hit(run[p].loaded) -> Embed] \subseteq Message
  BY <1>1 DEF Message
<1> QED BY <1>2 DEF CallChannel, Types, Posting

\* A POST adds what Discord showed to what the call has sent, and ends the call
\* or goes on to the next attempt.
LEMMA PostStep ==
  ASSUME Types, NEW p \in Publishers, Post(p)
  PROVE  /\ run[p] \in CallType /\ run[p].pc = "post"
         /\ UNCHANGED <<event, since, who, calls>>
         /\ \/ UNCHANGED sent
            \/ \E reply \in {"2xx", "5xx", "none"} :
                  sent' = [sent EXCEPT ![run[p].call] =
                             Append(sent[run[p].call], [reply |-> reply, message |-> run[p].message])]
         /\ \/ /\ run' = [run EXCEPT ![p] = Idle]
               /\ \/ outcome' = [outcome EXCEPT ![run[p].call] = "raised"]
                  \/ /\ outcome' = [outcome EXCEPT ![run[p].call] = "sent"]
                     /\ Show(p, "2xx")
            \/ /\ run' = [run EXCEPT ![p] = Again(run[p])] /\ UNCHANGED outcome
               /\ run[p].made + 1 < MaxAttempts
               /\ UNCHANGED sent \/ Show(p, "5xx")
  BY DEF Post, Retry, EndCall, Show, Types, Again

LEMMA TypesStep ==
  ASSUME OwnInv, [Next]_vars
  PROVE  Types'
<1> USE DEF OwnInv
<1>1. ASSUME NEW signal \in Signals, NEW s \in Stocks, RecordEvent(signal, s)
      PROVE  Types'
  <2>1. event' \in EventTable
    BY <1>1 DEF RecordEvent, Types, EventTable
  <2> QED BY <1>1, <2>1 DEF RecordEvent, Types
<1>2. ASSUME NEW p \in Publishers, StartPublish(p) PROVE Types'
  <2>1. run' = [run EXCEPT ![p] = Opened(p)] /\ calls < MaxCalls /\ calls' = calls + 1
    BY <1>2 DEF StartPublish, Opened
  <2>2. run' \in [Publishers -> CallType]
    BY <2>1, OpenedType DEF Types
  <2>3. calls' \in 0..MaxCalls
    BY <2>1, LimitsAssumption DEF Types
  <2>4. [signal \in Signals |-> With(event, signal)] \in [Signals -> SUBSET Stocks]
    BY DEF With
  <2>5. since' \in [Calls -> [Signals -> SUBSET Stocks]]
    BY <1>2, <2>4 DEF StartPublish, Types
  <2>6. outcome' \in [Calls -> Outcomes]
    BY <1>2 DEF StartPublish, Types, Outcomes
  <2>7. who' \in Seq(Publishers) /\ Len(who') = calls'
    BY <1>2, <2>1 DEF StartPublish, Types
  <2> QED BY <1>2, <2>2, <2>3, <2>5, <2>6, <2>7 DEF StartPublish, Types
<1>3. ASSUME NEW p \in Publishers, LoadEvents(p) PROVE Types'
  <2>1. /\ run[p] \in CallType /\ run[p].names # << >> /\ event \in EventTable
        /\ run' = [run EXCEPT ![p] = Loaded(run[p], event)]
    BY <1>3, LoadStep DEF Types
  <2>2. Loaded(run[p], event) \in CallType
    BY <2>1, LoadedFields
  <2>3. run' \in [Publishers -> CallType]
    BY <2>1, <2>2 DEF Types
  <2> QED BY <1>3, <2>3, LoadStep DEF Types
<1>4. ASSUME NEW p \in Publishers, SkipEmpty(p) \/ Killed(p) PROVE Types'
  <2>1. run' \in [Publishers -> CallType]
    BY <1>4, IdleType DEF SkipEmpty, Killed, EndCall, Types
  <2>2. outcome' \in [Calls -> Outcomes]
    BY <1>4 DEF SkipEmpty, Killed, EndCall, Types, Outcomes
  <2> QED BY <1>4, <2>1, <2>2 DEF SkipEmpty, Killed, Types
<1>5. ASSUME NEW p \in Publishers, CallChannel(p) PROVE Types'
  <2>1. run' \in [Publishers -> CallType]
    BY <1>5, CallStep, PostingFields DEF Types
  <2> QED BY <1>5, <2>1, CallStep DEF Types
<1>6. ASSUME NEW p \in Publishers, Post(p) PROVE Types'
  <2>1. run' \in [Publishers -> CallType]
    BY <1>6, PostStep, AgainFields, IdleType DEF Types
  <2>2. outcome' \in [Calls -> Outcomes]
    BY <1>6, PostStep DEF Types, Outcomes
  <2>3. ASSUME NEW reply \in {"2xx", "5xx", "none"}
        PROVE  [sent EXCEPT ![run[p].call] =
                  Append(sent[run[p].call], [reply |-> reply, message |-> run[p].message])]
                  \in [Calls -> Seq(Shown)]
    <3>1. [reply |-> reply, message |-> run[p].message] \in Shown
      BY DEF Types, CallType, Shown
    <3>2. run[p].call \in Calls =>
             Append(sent[run[p].call], [reply |-> reply, message |-> run[p].message]) \in Seq(Shown)
      BY <3>1 DEF Types
    <3> QED BY <3>2 DEF Types
  <2>4. sent' \in [Calls -> Seq(Shown)]
    <3>1. \/ UNCHANGED sent
          \/ \E reply \in {"2xx", "5xx", "none"} :
                sent' = [sent EXCEPT ![run[p].call] =
                           Append(sent[run[p].call], [reply |-> reply, message |-> run[p].message])]
      BY <1>6, PostStep
    <3> QED BY <2>3, <3>1 DEF Types
  <2> QED BY <1>6, <2>1, <2>2, <2>4, PostStep DEF Types
<1>7. CASE UNCHANGED vars
  BY <1>7 DEF vars, Types
<1> QED BY <1>1, <1>2, <1>3, <1>4, <1>5, <1>6, <1>7 DEF Next, PublishStep

\* A call of p goes on or ends; the numbers of the others are theirs.
LEMMA OwnedOne ==
  ASSUME OwnInv, NEW p \in Publishers, run[p].pc # "idle", NEW c, run' = [run EXCEPT ![p] = c],
         UNCHANGED <<who, calls>>,
         \A n \in Calls : n # run[p].call => sent'[n] = sent[n] /\ outcome'[n] = outcome[n],
         c.pc # "idle" => c.call = run[p].call /\ outcome'[c.call] = outcome[c.call]
  PROVE  Owned'
<1>1. ASSUME NEW q \in Publishers, run'[q].pc # "idle"
      PROVE  run'[q].call \in 1..calls /\ who[run'[q].call] = q /\ outcome'[run'[q].call] = "open"
  <2>1. CASE q = p
    BY <1>1, <2>1 DEF OwnInv, Owned, Types
  <2>2. CASE q # p
    <3>1. run'[q] = run[q]
      BY <2>2 DEF OwnInv, Types
    <3>2. run[q].call \in 1..calls /\ who[run[q].call] = q /\ who[run[p].call] = p
      BY <1>1, <3>1 DEF OwnInv, Owned
    <3>3. run[q].call # run[p].call /\ run[q].call \in Calls
      BY <2>2, <3>2, LimitsAssumption DEF OwnInv, Types, Calls
    <3> QED BY <1>1, <3>1, <3>2, <3>3 DEF OwnInv, Owned
  <2> QED BY <2>1, <2>2
<1>2. run[p].call <= calls
  BY DEF OwnInv, Owned
<1>3. ASSUME NEW n \in Calls, n > calls PROVE sent'[n] = << >> /\ outcome'[n] = "none"
  <2>1. n # run[p].call
    BY <1>2, <1>3 DEF OwnInv, Types, CallType, Calls
  <2> QED BY <1>3, <2>1 DEF OwnInv, Owned
<1> QED BY <1>1, <1>3 DEF Owned

LEMMA OwnedStep ==
  ASSUME OwnInv, [Next]_vars
  PROVE  Owned'
<1>1. CASE UNCHANGED vars \/ \E signal \in Signals, s \in Stocks : RecordEvent(signal, s)
  <2>1. UNCHANGED <<run, who, calls, sent, outcome>>
    BY <1>1 DEF vars, RecordEvent
  <2> QED BY <2>1 DEF OwnInv, Owned
<1>2. ASSUME NEW p \in Publishers, StartPublish(p) PROVE Owned'
  <2>1. /\ run' = [run EXCEPT ![p] = Opened(p)] /\ calls < MaxCalls /\ calls' = calls + 1
        /\ who' = Append(who, p) /\ outcome' = [outcome EXCEPT ![calls + 1] = "open"]
        /\ sent' = sent /\ calls \in Nat /\ MaxCalls \in Nat /\ calls + 1 \in Calls
    BY <1>2, LimitsAssumption DEF StartPublish, Opened, OwnInv, Types, Calls
  <2>2. /\ who' \in Seq(Publishers) /\ who'[calls + 1] = p
        /\ \A n \in 1..calls : who'[n] = who[n]
    BY <2>1 DEF OwnInv, Types
  <2>3. ASSUME NEW q \in Publishers, run'[q].pc # "idle"
        PROVE  run'[q].call \in 1..calls' /\ who'[run'[q].call] = q /\ outcome'[run'[q].call] = "open"
    <3>1. CASE q = p
      <4>1. run'[q].call = calls + 1
        BY <2>1, <3>1, OpenedFields DEF OwnInv, Types
      <4> QED BY <2>1, <2>2, <3>1, <4>1 DEF OwnInv, Types
    <3>2. CASE q # p
      <4>1. run'[q] = run[q]
        BY <2>1, <3>2 DEF OwnInv, Types
      <4>2. run[q].call \in 1..calls /\ who[run[q].call] = q /\ outcome[run[q].call] = "open"
        BY <2>3, <4>1 DEF OwnInv, Owned
      <4>3. run[q].call \in 1..(calls + 1) /\ run[q].call # calls + 1 /\ run[q].call \in Calls
        BY <2>1, <4>2 DEF Calls
      <4> QED BY <2>1, <2>2, <4>1, <4>2, <4>3 DEF OwnInv, Types
    <3> QED BY <3>1, <3>2
  <2>4. ASSUME NEW n \in Calls, n > calls' PROVE sent'[n] = << >> /\ outcome'[n] = "none"
    <3>1. n > calls /\ n # calls + 1
      BY <2>1, <2>4 DEF Calls
    <3> QED BY <2>1, <3>1 DEF OwnInv, Owned, Types
  <2> QED BY <2>3, <2>4 DEF Owned
<1>3. ASSUME NEW p \in Publishers, LoadEvents(p) PROVE Owned'
  <2>1. Loaded(run[p], event).call = run[p].call /\ run[p].pc # "idle"
    BY <1>3, LoadStep, LoadedFields DEF OwnInv, Types
  <2> QED BY <1>3, <2>1, LoadStep, OwnedOne DEF OwnInv
<1>4. ASSUME NEW p \in Publishers, SkipEmpty(p) \/ Killed(p) PROVE Owned'
  <2>1. /\ run' = [run EXCEPT ![p] = Idle] /\ Idle.pc = "idle" /\ run[p].pc # "idle"
        /\ UNCHANGED <<who, calls, sent>>
    BY <1>4 DEF SkipEmpty, Killed, EndCall, Idle
  <2>2. \A n \in Calls : n # run[p].call => outcome'[n] = outcome[n]
    BY <1>4 DEF SkipEmpty, Killed, EndCall, OwnInv, Types
  <2> QED BY <2>1, <2>2, OwnedOne
<1>5. ASSUME NEW p \in Publishers, CallChannel(p) PROVE Owned'
  <2>1. PICK message \in Message : run' = [run EXCEPT ![p] = Posting(run[p], message)]
    BY <1>5, CallStep DEF OwnInv
  <2>2. Posting(run[p], message).call = run[p].call /\ run[p].pc # "idle"
    BY <1>5, CallStep, PostingFields DEF OwnInv
  <2> QED BY <1>5, <2>1, <2>2, CallStep, OwnedOne DEF OwnInv
<1>6. ASSUME NEW p \in Publishers, Post(p) PROVE Owned'
  <2>0. Types
    BY DEF OwnInv
  <2>1. run[p].pc # "idle" /\ run[p] \in CallType /\ UNCHANGED <<who, calls>>
    BY <1>6, <2>0, PostStep
  <2>2. \A n \in Calls : n # run[p].call => sent'[n] = sent[n] /\ outcome'[n] = outcome[n]
    BY <1>6, <2>0, PostStep DEF Types
  <2>3. CASE run' = [run EXCEPT ![p] = Idle]
    BY <2>1, <2>2, <2>3, OwnedOne DEF Idle
  <2>4. CASE /\ run' = [run EXCEPT ![p] = Again(run[p])] /\ UNCHANGED outcome
             /\ run[p].made + 1 < MaxAttempts
    BY <2>1, <2>2, <2>4, AgainFields, OwnedOne
  <2> QED BY <1>6, <2>0, <2>3, <2>4, PostStep
<1> QED BY <1>1, <1>2, <1>3, <1>4, <1>5, <1>6 DEF Next, PublishStep

LEMMA OwnStep ==
  ASSUME OwnInv, [Next]_vars
  PROVE  OwnInv'
  BY TypesStep, OwnedStep DEF OwnInv

\* For any publishers, signals, stocks and answers of the channel, every call is
\* at a step that fits what it holds.
THEOREM TypeCorrect == Spec => []TypeOK
<1>1. Init => OwnInv
  BY OwnInit
<1>2. OwnInv /\ [Next]_vars => OwnInv'
  BY OwnStep
<1>3. OwnInv => TypeOK
  <2> SUFFICES ASSUME Types PROVE TypeOK
    BY DEF OwnInv
  <2>1. ASSUME NEW p \in Publishers
        PROVE  /\ run[p].pc \in {"idle", "load", "post"}
               /\ run[p].call \in 0..MaxCalls /\ run[p].names \in Seq(Signals)
               /\ run[p].loaded \in EventTable /\ run[p].message \in Message
               /\ run[p].made \in 0..(MaxAttempts - 1)
    BY DEF Types, CallType
  <2>2. \A c \in 1..calls : who[c] \in Publishers
    BY DEF Types
  <2>3. \A c \in Calls : sent[c] \in Seq(Shown)
    BY DEF Types
  <2> QED BY <2>1, <2>2, <2>3 DEF Types, Shown, TypeOK
<1> QED BY <1>1, <1>2, <1>3, PTL DEF Spec

-----------------------------------------------------------------------------
(***************************************************************************)
(* What a message tells.                                                   *)
(***************************************************************************)

LEMMA MinOfTwo ==
  ASSUME NEW a \in Int, NEW b \in Int
  PROVE  Min({a, b}) = IF a <= b THEN a ELSE b
<1> DEFINE m == IF a <= b THEN a ELSE b
<1>1. m \in {a, b} /\ \A y \in {a, b} : m <= y
  OBVIOUS
<1>2. Min({a, b}) \in {a, b} /\ \A y \in {a, b} : Min({a, b}) <= y
  BY <1>1, Zenon DEF Min
<1>3. Min({a, b}) \in Int /\ m \in Int /\ Min({a, b}) <= m /\ m <= Min({a, b})
  BY <1>1, <1>2
<1> QED BY <1>3

\* A full embed, or one that lists all: every stock with an event can be read off.
LEMMA TopTells ==
  ASSUME NEW tbl, NEW signal, With(tbl, signal) # {}, NEW shown, IsTop(tbl, signal, shown)
  PROVE  /\ shown # {} /\ shown \subseteq With(tbl, signal)
         /\ \/ shown = With(tbl, signal)
            \/ Cardinality(shown) = MaxFields /\ Cardinality(With(tbl, signal)) > MaxFields
<1> DEFINE hits == With(tbl, signal)
<1>1. hits \subseteq Stocks /\ IsFiniteSet(hits)
  BY StocksAssumption, FS_Subset DEF With
<1>2. shown \subseteq hits /\ IsFiniteSet(shown)
  BY <1>1, FS_Subset DEF IsTop
<1>3. Cardinality(hits) \in Nat /\ Cardinality(hits) # 0 /\ MaxFields \in Nat \ {0}
  BY <1>1, FS_CardinalityType, FS_EmptySet, LimitsAssumption
<1>4. Cardinality(shown) = IF MaxFields <= Cardinality(hits) THEN MaxFields ELSE Cardinality(hits)
  <2>1. Cardinality(shown) = Min({MaxFields, Cardinality(hits)})
    BY DEF IsTop
  <2> HIDE DEF hits
  <2> QED BY <1>3, <2>1, MinOfTwo
<1>5. shown # {}
  BY <1>3, <1>4, FS_EmptySet
<1>6. Cardinality(shown) = Cardinality(hits) => shown = hits
  BY <1>1, <1>2, FS_Subset
<1> QED BY <1>2, <1>3, <1>4, <1>5, <1>6

\* An embed for each of some signals, each of listed stocks with an event.
Rests(message, names, tbl) ==
    /\ DOMAIN message # {} /\ DOMAIN message \subseteq names
    /\ \A signal \in DOMAIN message :
          message[signal].shown # {} /\ message[signal].shown \subseteq With(tbl, signal)

\* Every stock of a set per signal can be read off.
Tells(message, names, from) ==
    \A signal \in names : \A s \in from[signal] : Covers(message, signal, s)

LEMMA MessageTells ==
  ASSUME NEW tbl, Hit(tbl) # {}, NEW message \in [Hit(tbl) -> Embed], IsMessage(tbl, message),
         NEW names \in SUBSET Signals, Hit(tbl) \subseteq names, NEW from,
         \A signal \in names : from[signal] \subseteq With(tbl, signal)
  PROVE  Rests(message, names, tbl) /\ Tells(message, names, from)
<1>1. ASSUME NEW signal \in Hit(tbl)
      PROVE  /\ message[signal].shown # {} /\ message[signal].shown \subseteq With(tbl, signal)
             /\ \A s \in With(tbl, signal) : Covers(message, signal, s)
  <2>1. /\ With(tbl, signal) # {} /\ IsTop(tbl, signal, message[signal].shown)
        /\ message[signal].total = Cardinality(With(tbl, signal))
    BY DEF Hit, IsMessage
  <2>2. signal \in DOMAIN message
    OBVIOUS
  <2>3. /\ message[signal].shown # {} /\ message[signal].shown \subseteq With(tbl, signal)
        /\ \/ message[signal].shown = With(tbl, signal)
           \/ /\ Cardinality(message[signal].shown) = MaxFields
              /\ Cardinality(With(tbl, signal)) > MaxFields
    BY <2>1, TopTells
  <2> QED BY <2>1, <2>2, <2>3 DEF Covers
<1>2. \A signal \in names : \A s \in from[signal] : signal \in Hit(tbl) /\ s \in With(tbl, signal)
  BY DEF Hit
<1> QED BY <1>1, <1>2 DEF Rests, Tells
-----------------------------------------------------------------------------
(***************************************************************************)
(* What a call knows, shows and reports.                                   *)
(***************************************************************************)

\* loading: nothing sent; every signal is to be loaded or is, as the table had it
Loads(c, names, s, from, tbl) ==
    /\ s = << >>
    /\ Range(c.names) \subseteq names /\ Hit(c.loaded) \subseteq names
    /\ \A signal \in Signals : With(c.loaded, signal) \subseteq With(tbl, signal)
    /\ \A signal \in names : signal \in Range(c.names) \/ from[signal] \subseteq With(c.loaded, signal)

\* posting: what was shown before was answered 5xx, and the message is true
Posts(c, names, s, from, tbl) ==
    /\ \A n \in DOMAIN s : s[n].reply = "5xx"
    /\ Rests(c.message, names, tbl) /\ Tells(c.message, names, from)

Underway(c, names, s, from, tbl) ==
    /\ c.pc = "load" => Loads(c, names, s, from, tbl)
    /\ c.pc = "post" => Posts(c, names, s, from, tbl)

\* what a call has shown and reported
Past(names, s, how, from, tbl) ==
    /\ \A n \in DOMAIN s : /\ n < Len(s) => s[n].reply = "5xx"
                           /\ Rests(s[n].message, names, tbl)
    /\ how = "sent" => s # << >> /\ Tells(Last(s).message, names, from)
    /\ how = "skipped" => s = << >> /\ \A signal \in names : from[signal] = {}

PublishInv ==
    /\ OwnInv
    /\ \A p \in Publishers : run[p].pc # "idle" =>
          Underway(run[p], Range(SignalNames[p]), sent[run[p].call], since[run[p].call], event)
    /\ \A n \in 1..calls :
          /\ Past(Names(n), sent[n], outcome[n], since[n], event)
          /\ \A signal \in Signals : since[n][signal] \subseteq With(event, signal)

LEMMA NamesType ==
  ASSUME NEW p \in Publishers
  PROVE  Range(SignalNames[p]) \subseteq Signals
  BY SignalNamesAssumption DEF Range

LEMMA OwnNames ==
  ASSUME OwnInv, NEW p \in Publishers, run[p].pc # "idle"
  PROVE  /\ run[p].call \in 1..calls /\ run[p].call \in Calls
         /\ Names(run[p].call) = Range(SignalNames[p])
<1>1. run[p].call \in 1..calls /\ who[run[p].call] = p
  BY DEF OwnInv, Owned
<1>2. run[p].call \in Calls
  BY <1>1, LimitsAssumption DEF OwnInv, Types, Calls
<1> QED BY <1>1, <1>2 DEF Names

\* Two open calls have two numbers.
LEMMA OwnNumbers ==
  ASSUME OwnInv, NEW p \in Publishers, NEW q \in Publishers, p # q,
         run[p].pc # "idle", run[q].pc # "idle"
  PROVE  run[p].call # run[q].call
  BY DEF OwnInv, Owned

LEMMA PublishInit == Init => PublishInv
<1> SUFFICES ASSUME Init PROVE PublishInv
  OBVIOUS
<1>1. OwnInv
  BY OwnInit
<1>2. \A p \in Publishers : run[p].pc = "idle"
  BY DEF Init, Idle
<1>3. 1..calls = {}
  BY DEF Init
<1> QED BY <1>1, <1>2, <1>3 DEF PublishInv

\* A step of one call.
LEMMA PublishOne ==
  ASSUME PublishInv, OwnInv', NEW p \in Publishers, run[p].pc # "idle",
         NEW c, run' = [run EXCEPT ![p] = c], UNCHANGED <<event, since, who, calls>>,
         \A n \in Calls : n # run[p].call => sent'[n] = sent[n] /\ outcome'[n] = outcome[n],
         c.pc # "idle" =>
            /\ c.call = run[p].call
            /\ Underway(c, Range(SignalNames[p]), sent'[run[p].call], since[run[p].call], event),
         Past(Range(SignalNames[p]), sent'[run[p].call], outcome'[run[p].call],
              since[run[p].call], event)
  PROVE  PublishInv'
<1>0. OwnInv
  BY DEF PublishInv
<1>1. ASSUME NEW q \in Publishers, run'[q].pc # "idle"
      PROVE  Underway(run'[q], Range(SignalNames[q]), sent'[run'[q].call], since[run'[q].call], event)
  <2>1. run'[q] = IF q = p THEN c ELSE run[q]
    BY <1>0 DEF OwnInv, Types
  <2>2. CASE q = p
    BY <1>1, <2>1, <2>2
  <2>3. CASE q # p
    <3>1. run[q].call # run[p].call /\ run[q].call \in Calls
      BY <1>0, <1>1, <2>1, <2>3, OwnNumbers, OwnNames
    <3> QED BY <1>1, <2>1, <2>3, <3>1 DEF PublishInv
  <2> QED BY <2>2, <2>3
<1>2. ASSUME NEW n \in 1..calls
      PROVE  Past(Names(n), sent'[n], outcome'[n], since[n], event)
  <2>1. n \in Calls
    BY <1>0, LimitsAssumption DEF OwnInv, Types, Calls
  <2>2. CASE n = run[p].call
    BY <1>0, <2>2, OwnNames
  <2>3. CASE n # run[p].call
    BY <2>1, <2>3 DEF PublishInv
  <2> QED BY <2>2, <2>3
<1>3. \A n \in 1..calls : Names(n)' = Names(n)
  BY DEF Names
<1> QED BY <1>1, <1>2, <1>3 DEF PublishInv

\* Events are never taken back, so what was true of the table stays true.
LEMMA RestsOn ==
  ASSUME NEW message, NEW names \in SUBSET Signals, NEW tbl, NEW more,
         \A signal \in Signals : With(tbl, signal) \subseteq With(more, signal),
         Rests(message, names, tbl)
  PROVE  Rests(message, names, more)
  BY DEF Rests

LEMMA GrowingTable ==
  ASSUME NEW names \in SUBSET Signals, NEW s, NEW from, NEW tbl, NEW more,
         \A signal \in Signals : With(tbl, signal) \subseteq With(more, signal)
  PROVE  /\ \A c : Underway(c, names, s, from, tbl) => Underway(c, names, s, from, more)
         /\ \A how : Past(names, s, how, from, tbl) => Past(names, s, how, from, more)
<1>1. \A message : Rests(message, names, tbl) => Rests(message, names, more)
  BY RestsOn
<1>2. \A c : Loads(c, names, s, from, tbl) => Loads(c, names, s, from, more)
  BY DEF Loads
<1>3. \A c : Posts(c, names, s, from, tbl) => Posts(c, names, s, from, more)
  BY <1>1 DEF Posts
<1>4. \A how : Past(names, s, how, from, tbl) => Past(names, s, how, from, more)
  BY <1>1 DEF Past
<1> QED BY <1>2, <1>3, <1>4 DEF Underway

LEMMA RecordStep ==
  ASSUME PublishInv, OwnInv', NEW signal \in Signals, NEW s \in Stocks, RecordEvent(signal, s)
  PROVE  PublishInv'
<1>1. PICK severity \in Severities : event' = [event EXCEPT ![signal][s] = severity]
  BY DEF RecordEvent
<1>2. event \in EventTable /\ severity # NoEvent
  BY SeveritiesAssumption DEF PublishInv, OwnInv, Types
<1>3. \A other \in Signals : With(event, other) \subseteq With(event', other)
  BY <1>1, <1>2 DEF With, EventTable
<1>4. UNCHANGED <<run, sent, since, who, outcome, calls>>
  BY DEF RecordEvent
<1>5. ASSUME NEW p \in Publishers, run[p].pc # "idle"
      PROVE  Underway(run[p], Range(SignalNames[p]), sent[run[p].call], since[run[p].call], event')
  <2>1. Underway(run[p], Range(SignalNames[p]), sent[run[p].call], since[run[p].call], event)
    BY <1>5 DEF PublishInv
  <2> QED BY <1>3, <2>1, NamesType, GrowingTable
<1>6. ASSUME NEW n \in 1..calls
      PROVE  /\ Past(Names(n), sent[n], outcome[n], since[n], event')
             /\ \A other \in Signals : since[n][other] \subseteq With(event', other)
  <2>1. Past(Names(n), sent[n], outcome[n], since[n], event)
    BY DEF PublishInv
  <2>2. who[n] \in Publishers /\ Names(n) = Range(SignalNames[who[n]])
    BY DEF PublishInv, OwnInv, Types, Names
  <2>3. Past(Names(n), sent[n], outcome[n], since[n], event')
    BY <1>3, <2>1, <2>2, NamesType, GrowingTable
  <2>4. \A other \in Signals : since[n][other] \subseteq With(event, other)
    BY DEF PublishInv
  <2> QED BY <1>3, <2>3, <2>4
<1>7. \A n : Names(n)' = Names(n)
  BY <1>4 DEF Names
<1> QED BY <1>4, <1>5, <1>6, <1>7 DEF PublishInv

LEMMA StartStep ==
  ASSUME PublishInv, OwnInv', NEW p \in Publishers, StartPublish(p)
  PROVE  PublishInv'
<1> DEFINE new == calls + 1
           from == [signal \in Signals |-> With(event, signal)]
           names == Range(SignalNames[p])
<1>0. OwnInv /\ Types
  BY DEF PublishInv, OwnInv
<1>1. /\ run' = [run EXCEPT ![p] = Opened(p)] /\ calls' = new
      /\ who' = Append(who, p) /\ outcome' = [outcome EXCEPT ![new] = "open"]
      /\ since' = [since EXCEPT ![new] = from] /\ sent' = sent /\ event' = event
  BY DEF StartPublish, Opened
<1>2. calls \in Nat /\ new \in Calls /\ \A n \in 1..calls : n \in Calls /\ n # new
  BY <1>0, LimitsAssumption DEF StartPublish, Types, Calls
<1>3. since'[new] = from /\ outcome'[new] = "open" /\ sent'[new] = << >>
  BY <1>0, <1>1, <1>2 DEF Types, OwnInv, Owned
<1>4. \A n \in 1..calls : since'[n] = since[n] /\ outcome'[n] = outcome[n] /\ sent'[n] = sent[n]
  BY <1>0, <1>1, <1>2 DEF Types
<1>5. who'[new] = p /\ \A n \in 1..calls : who'[n] = who[n]
  BY <1>0, <1>1 DEF Types
<1>6. Underway(Opened(p), names, << >>, from, event)
  <2>1. \A signal \in Signals : With(NoEvents, signal) = {}
    BY DEF With, NoEvents
  <2>2. Hit(NoEvents) = {}
    BY <2>1 DEF Hit
  <2> QED BY <2>1, <2>2, OpenedFields DEF Underway, Loads
<1>7. ASSUME NEW q \in Publishers, run'[q].pc # "idle"
      PROVE  Underway(run'[q], Range(SignalNames[q]), sent'[run'[q].call], since'[run'[q].call], event)
  <2>1. CASE q = p
    <3>1. run'[q] = Opened(p) /\ run'[q].call = new
      BY <1>0, <1>1, <2>1, OpenedFields DEF Types
    <3> HIDE DEF new, from
    <3> QED BY <1>3, <1>6, <2>1, <3>1
  <2>2. CASE q # p
    <3>1. run'[q] = run[q]
      BY <1>0, <1>1, <2>2 DEF Types
    <3>2. run[q].call \in 1..calls
      BY <1>0, <1>7, <3>1, OwnNames
    <3> QED BY <1>4, <1>7, <3>1, <3>2 DEF PublishInv
  <2> QED BY <2>1, <2>2
<1>8. ASSUME NEW n \in 1..calls'
      PROVE  /\ Past(Names(n)', sent'[n], outcome'[n], since'[n], event)
             /\ \A signal \in Signals : since'[n][signal] \subseteq With(event, signal)
  <2>1. CASE n = new
    <3>1. \A signal \in Signals : from[signal] = With(event, signal)
      OBVIOUS
    <3>2. Past(Names(n)', << >>, "open", from, event)
      BY DEF Past
    <3> HIDE DEF new, from
    <3> QED BY <1>3, <2>1, <3>1, <3>2
  <2>2. CASE n \in 1..calls
    <3>1. Names(n)' = Names(n)
      BY <1>5, <2>2 DEF Names
    <3> QED BY <1>4, <2>2, <3>1 DEF PublishInv
  <2> QED BY <1>1, <1>2, <2>1, <2>2
<1> QED BY <1>1, <1>7, <1>8 DEF PublishInv

\* What the head of a list leaves to its rest.
LEMMA RangeOfRest ==
  ASSUME NEW S, NEW list \in Seq(S), list # << >>
  PROVE  Range(list) = {Head(list)} \cup Range(Tail(list))
<1>1. /\ Len(list) \in Nat \ {0} /\ Head(list) = list[1]
      /\ DOMAIN list = 1..Len(list) /\ DOMAIN Tail(list) = 1..(Len(list) - 1)
      /\ \A n \in 1..(Len(list) - 1) : Tail(list)[n] = list[n + 1]
  BY HeadTailProperties, EmptySeq, LenProperties
<1>2. ASSUME NEW n \in DOMAIN list, n # 1
      PROVE  list[n] \in Range(Tail(list))
  <2>1. n - 1 \in DOMAIN Tail(list) /\ list[n] = Tail(list)[n - 1]
    BY <1>1, <1>2
  <2> QED BY <2>1 DEF Range
<1>3. ASSUME NEW n \in DOMAIN Tail(list)
      PROVE  Tail(list)[n] \in Range(list)
  <2>1. n + 1 \in DOMAIN list /\ Tail(list)[n] = list[n + 1]
    BY <1>1
  <2> QED BY <2>1 DEF Range
<1>4. Head(list) \in Range(list)
  BY <1>1 DEF Range
<1>5. Range(Tail(list)) \subseteq Range(list)
  BY <1>3 DEF Range
<1>6. Range(list) \subseteq {Head(list)} \cup Range(Tail(list))
  BY <1>1, <1>2 DEF Range
<1> QED BY <1>4, <1>5, <1>6

LEMMA LoadingStep ==
  ASSUME PublishInv, OwnInv', NEW p \in Publishers, LoadEvents(p)
  PROVE  PublishInv'
<1> DEFINE c == run[p]
           names == Range(SignalNames[p])
           s == sent[c.call]
           from == since[c.call]
           signal == Head(c.names)
<1>0. OwnInv /\ Types
  BY DEF PublishInv, OwnInv
<1>1. /\ c \in CallType /\ c.pc = "load" /\ c.names # << >>
      /\ run' = [run EXCEPT ![p] = Loaded(c, event)]
      /\ UNCHANGED <<event, sent, since, who, outcome, calls>>
  BY <1>0, LoadStep
<1>2. /\ Loaded(c, event).pc = "load" /\ Loaded(c, event).call = c.call
      /\ Loaded(c, event).names = Tail(c.names)
      /\ Loaded(c, event).loaded = [c.loaded EXCEPT ![signal] = event[signal]]
  BY <1>0, <1>1, LoadedFields DEF Types
<1>3. Loads(c, names, s, from, event)
  BY <1>1 DEF PublishInv, Underway
<1>4. c.names \in Seq(Signals) /\ c.loaded \in EventTable /\ signal \in Signals
  BY <1>1, HeadTailProperties DEF CallType
<1>5. Range(c.names) = {signal} \cup Range(Tail(c.names))
  BY <1>1, <1>4, RangeOfRest
<1>6. \A other \in Signals :
         With(Loaded(c, event).loaded, other) =
            IF other = signal THEN With(event, other) ELSE With(c.loaded, other)
  BY <1>2, <1>4 DEF With, EventTable
<1>7. \A other \in Signals : from[other] \subseteq With(event, other)
  BY <1>0, <1>1, OwnNames DEF PublishInv
<1>8. names \subseteq Signals
  BY NamesType
<1>9. Hit(Loaded(c, event).loaded) \subseteq names
  <2>1. \A other \in Signals : With(Loaded(c, event).loaded, other) # {} =>
           other = signal \/ With(c.loaded, other) # {}
    BY <1>6
  <2>2. signal \in names
    BY <1>3, <1>5 DEF Loads
  <2> QED BY <1>3, <2>1, <2>2 DEF Loads, Hit
<1> HIDE DEF c, names, s, from, signal
<1>10. Loads(Loaded(c, event), names, s, from, event)
  <2>1. Range(Tail(c.names)) \subseteq names
    BY <1>3, <1>5 DEF Loads
  <2>2. \A other \in Signals : With(Loaded(c, event).loaded, other) \subseteq With(event, other)
    BY <1>3, <1>6 DEF Loads
  <2>3. \A other \in names : other \in Range(Tail(c.names)) \/
           from[other] \subseteq With(Loaded(c, event).loaded, other)
    BY <1>3, <1>5, <1>6, <1>7, <1>8 DEF Loads
  <2> QED BY <1>2, <1>3, <1>9, <2>1, <2>2, <2>3 DEF Loads
<1>11. Underway(Loaded(c, event), names, s, from, event)
  BY <1>2, <1>10 DEF Underway
<1>12. Past(names, s, outcome[c.call], from, event)
  BY <1>0, <1>1, OwnNames DEF PublishInv, c, names, s, from
<1>13. /\ run[p].pc # "idle" /\ Loaded(c, event).call = run[p].call
       /\ run' = [run EXCEPT ![p] = Loaded(c, event)]
  BY <1>1, <1>2 DEF c
<1> QED BY <1>1, <1>11, <1>12, <1>13, PublishOne DEF c, names, s, from

LEMMA NothingToLoad == Range(<< >>) = {}
  BY DEF Range

\* The call is over and says no more than that it has ended.
LEMMA OverStep ==
  ASSUME PublishInv, OwnInv', NEW p \in Publishers, run[p].pc # "idle",
         NEW how \in {"skipped", "killed"}, EndCall(p, how),
         UNCHANGED <<event, sent, since, who, calls>>,
         how = "skipped" => run[p].pc = "load" /\ run[p].names = << >> /\ Hit(run[p].loaded) = {}
  PROVE  PublishInv'
<1> DEFINE names == Range(SignalNames[p])
           s == sent[run[p].call]
           from == since[run[p].call]
<1>0. OwnInv /\ Types /\ run[p].call \in Calls
  BY OwnNames DEF PublishInv, OwnInv
<1>1. /\ run' = [run EXCEPT ![p] = Idle] /\ outcome' = [outcome EXCEPT ![run[p].call] = how]
      /\ Idle.pc = "idle"
  BY DEF EndCall, Idle
<1>2. /\ outcome'[run[p].call] = how
      /\ \A n \in Calls : n # run[p].call => outcome'[n] = outcome[n]
  BY <1>0, <1>1 DEF Types
<1>3. Past(names, s, outcome[run[p].call], from, event)
  BY <1>0, OwnNames DEF PublishInv
<1>4. ASSUME how = "skipped"
      PROVE  s = << >> /\ \A signal \in names : from[signal] = {}
  <2>1. Loads(run[p], names, s, from, event) /\ run[p].names = << >> /\ Hit(run[p].loaded) = {}
    BY <1>4 DEF PublishInv, Underway
  <2>2. \A signal \in Signals : With(run[p].loaded, signal) = {}
    BY <2>1 DEF Hit
  <2> QED BY <2>1, <2>2, NothingToLoad, NamesType DEF Loads
<1>5. Past(names, s, how, from, event)
  BY <1>3, <1>4 DEF Past
<1> HIDE DEF names, s, from
<1> QED BY <1>1, <1>2, <1>5, PublishOne DEF names, s, from

LEMMA ChannelStep ==
  ASSUME PublishInv, OwnInv', NEW p \in Publishers, CallChannel(p)
  PROVE  PublishInv'
<1> DEFINE names == Range(SignalNames[p])
           s == sent[run[p].call]
           from == since[run[p].call]
<1>0. OwnInv /\ Types
  BY DEF PublishInv, OwnInv
<1>1. /\ run[p] \in CallType /\ run[p].pc = "load" /\ run[p].names = << >>
      /\ Hit(run[p].loaded) # {} /\ UNCHANGED <<event, sent, since, who, outcome, calls>>
  BY <1>0, CallStep
<1>2. PICK message \in [Hit(run[p].loaded) -> Embed] :
         /\ IsMessage(run[p].loaded, message) /\ message \in Message
         /\ run' = [run EXCEPT ![p] = Posting(run[p], message)]
  BY <1>0, CallStep
<1>3. Loads(run[p], names, s, from, event)
  BY <1>1 DEF PublishInv, Underway
<1>4. names \in SUBSET Signals
  BY NamesType
<1>5. \A signal \in names : from[signal] \subseteq With(run[p].loaded, signal)
  BY <1>1, <1>3, NothingToLoad DEF Loads
<1>6. Rests(message, names, run[p].loaded) /\ Tells(message, names, from)
  <2>1. Hit(run[p].loaded) \subseteq names
    BY <1>3 DEF Loads
  <2> HIDE DEF names, s, from
  <2> QED BY <1>1, <1>2, <1>4, <1>5, <2>1, MessageTells
<1>7. Rests(message, names, event)
  <2>1. \A signal \in Signals : With(run[p].loaded, signal) \subseteq With(event, signal)
    BY <1>3 DEF Loads
  <2> HIDE DEF names, s, from
  <2> QED BY <1>4, <1>6, <2>1, RestsOn
<1>8. /\ Posting(run[p], message).pc = "post" /\ Posting(run[p], message).call = run[p].call
      /\ Posting(run[p], message).message = message
  BY <1>1, <1>2, PostingFields
<1>9. Underway(Posting(run[p], message), names, s, from, event)
  <2>1. \A n \in DOMAIN s : s[n].reply = "5xx"
    BY <1>3 DEF Loads
  <2> QED BY <1>6, <1>7, <1>8, <2>1 DEF Underway, Posts
<1>10. Past(names, s, outcome[run[p].call], from, event)
  BY <1>0, <1>1, OwnNames DEF PublishInv
<1> HIDE DEF names, s, from
<1> QED BY <1>1, <1>2, <1>8, <1>9, <1>10, PublishOne DEF names, s, from

\* One more message after those answered 5xx.
LEMMA ShownAlso ==
  ASSUME NEW s \in Seq(Shown), \A n \in DOMAIN s : s[n].reply = "5xx",
         NEW message \in Message, NEW names, NEW from, NEW tbl,
         \A n \in DOMAIN s : Rests(s[n].message, names, tbl),
         Rests(message, names, tbl), Tells(message, names, from),
         NEW reply \in {"2xx", "5xx", "none"}
  PROVE  LET t == Append(s, [reply |-> reply, message |-> message])
         IN  /\ \A how : how # "skipped" => Past(names, t, how, from, tbl)
             /\ reply = "5xx" => \A n \in DOMAIN t : t[n].reply = "5xx"
<1> DEFINE e == [reply |-> reply, message |-> message]
           t == Append(s, e)
<1>1. e \in Shown /\ e.reply = reply /\ e.message = message
  BY DEF Shown
<1> HIDE DEF e
<1>2. /\ Len(s) \in Nat /\ DOMAIN s = 1..Len(s) /\ Len(t) = Len(s) + 1
      /\ DOMAIN t = 1..(Len(s) + 1) /\ t[Len(s) + 1] = e
      /\ \A n \in 1..Len(s) : t[n] = s[n]
  BY <1>1
<1> HIDE DEF t
<1>3. \A n \in DOMAIN t : (n \in DOMAIN s /\ t[n] = s[n]) \/ (n = Len(t) /\ t[n] = e)
  BY <1>2
<1>4. t # << >> /\ Last(t) = e
  BY <1>2 DEF Last
<1>5. \A n \in DOMAIN t : n < Len(t) => n \in DOMAIN s /\ t[n] = s[n]
  BY <1>2
<1>6. ASSUME NEW how, how # "skipped" PROVE Past(names, t, how, from, tbl)
  BY <1>1, <1>3, <1>4, <1>5, <1>6 DEF Past
<1>7. reply = "5xx" => \A n \in DOMAIN t : t[n].reply = "5xx"
  BY <1>1, <1>3
<1> QED BY <1>6, <1>7 DEF t, e

LEMMA PostingStep ==
  ASSUME PublishInv, OwnInv', NEW p \in Publishers, Post(p)
  PROVE  PublishInv'
<1> DEFINE names == Range(SignalNames[p])
           s == sent[run[p].call]
           from == since[run[p].call]
           t == sent'[run[p].call]
<1>0. OwnInv /\ Types
  BY DEF PublishInv, OwnInv
<1>1. /\ run[p] \in CallType /\ run[p].pc = "post" /\ UNCHANGED <<event, since, who, calls>>
      /\ run[p].call \in Calls
  BY <1>0, PostStep, OwnNames
<1>2. Posts(run[p], names, s, from, event)
  BY <1>1 DEF PublishInv, Underway
<1>3. Past(names, s, outcome[run[p].call], from, event)
  BY <1>0, <1>1, OwnNames DEF PublishInv
<1>4. outcome[run[p].call] = "open"
  BY <1>0, <1>1 DEF OwnInv, Owned
<1>5. /\ s \in Seq(Shown) /\ run[p].message \in Message
      /\ \A n \in DOMAIN s : s[n].reply = "5xx" /\ Rests(s[n].message, names, event)
      /\ Rests(run[p].message, names, event) /\ Tells(run[p].message, names, from)
  BY <1>0, <1>1, <1>2, <1>3 DEF Types, CallType, Posts, Past
<1>6. ASSUME NEW reply \in {"2xx", "5xx", "none"}, Show(p, reply)
      PROVE  /\ \A how : how # "skipped" => Past(names, t, how, from, event)
             /\ reply = "5xx" => \A n \in DOMAIN t : t[n].reply = "5xx"
  <2>1. t = Append(s, [reply |-> reply, message |-> run[p].message])
    BY <1>0, <1>1, <1>6 DEF Show, Types
  <2> HIDE DEF names, s, from, t
  <2> QED BY <1>5, <2>1, ShownAlso
<1>7. ASSUME UNCHANGED sent
      PROVE  /\ \A how : how \notin {"sent", "skipped"} => Past(names, t, how, from, event)
             /\ \A n \in DOMAIN t : t[n].reply = "5xx"
  BY <1>2, <1>3, <1>7 DEF Past, Posts
<1>8. \A n \in Calls : n # run[p].call => sent'[n] = sent[n] /\ outcome'[n] = outcome[n]
  BY <1>0, <1>1, PostStep DEF Types
<1>9. UNCHANGED sent \/ \E reply \in {"2xx", "5xx", "none"} : Show(p, reply)
  BY <1>0, PostStep DEF Show
<1> HIDE DEF names, s, from, t
<1>10. CASE /\ run' = [run EXCEPT ![p] = Idle]
            /\ \/ outcome' = [outcome EXCEPT ![run[p].call] = "raised"]
               \/ outcome' = [outcome EXCEPT ![run[p].call] = "sent"] /\ Show(p, "2xx")
  <2>1. outcome'[run[p].call] = "raised" \/ (outcome'[run[p].call] = "sent" /\ Show(p, "2xx"))
    BY <1>0, <1>1, <1>10 DEF Types
  <2>2. Past(names, t, outcome'[run[p].call], from, event)
    BY <1>6, <1>7, <1>9, <2>1
  <2>3. Idle.pc = "idle"
    BY DEF Idle
  <2> QED BY <1>1, <1>8, <1>10, <2>2, <2>3, PublishOne DEF names, s, from, t
<1>11. CASE /\ run' = [run EXCEPT ![p] = Again(run[p])] /\ UNCHANGED outcome
            /\ run[p].made + 1 < MaxAttempts
            /\ UNCHANGED sent \/ Show(p, "5xx")
  <2>1. Past(names, t, outcome'[run[p].call], from, event)
    BY <1>4, <1>6, <1>7, <1>11
  <2>2. /\ Again(run[p]).pc = "post" /\ Again(run[p]).call = run[p].call
        /\ Again(run[p]).message = run[p].message
    BY <1>1, <1>11, AgainFields
  <2>3. \A n \in DOMAIN t : t[n].reply = "5xx"
    BY <1>6, <1>7, <1>11
  <2>4. Underway(Again(run[p]), names, t, from, event)
    BY <1>5, <2>2, <2>3 DEF Underway, Posts
  <2> QED BY <1>1, <1>8, <1>11, <2>1, <2>2, <2>4, PublishOne DEF names, s, from, t
<1> QED BY <1>0, <1>10, <1>11, PostStep

LEMMA PublishStepInv ==
  ASSUME PublishInv, [Next]_vars
  PROVE  PublishInv'
<1>0. OwnInv'
  BY OwnStep DEF PublishInv
<1>1. ASSUME NEW p \in Publishers, SkipEmpty(p) \/ Killed(p) PROVE PublishInv'
  BY <1>0, <1>1, OverStep DEF SkipEmpty, Killed
<1>2. CASE UNCHANGED vars
  <2>1. UNCHANGED <<event, run, sent, since, who, outcome, calls>>
    BY <1>2 DEF vars
  <2>2. \A n : Names(n)' = Names(n)
    BY <2>1 DEF Names
  <2> QED BY <1>0, <2>1, <2>2 DEF PublishInv
<1> QED BY <1>0, <1>1, <1>2, RecordStep, StartStep, LoadingStep, ChannelStep, PostingStep
        DEF Next, PublishStep

\* What holds of the calls that have a number holds of all.
LEMMA PastOfAll ==
  ASSUME PublishInv, NEW n \in Calls
  PROVE  \/ sent[n] = << >> /\ outcome[n] = "none"
         \/ Past(Names(n), sent[n], outcome[n], since[n], event)
<1>1. n > calls \/ n \in 1..calls
  BY LimitsAssumption DEF PublishInv, OwnInv, Types, Calls
<1> QED BY <1>1 DEF PublishInv, OwnInv, Owned

\* For any publishers, signals and answers: a message is shown again only after a
\* 5xx for one that was shown.
THEOREM RepeatsOnlyAfter5xxHolds == Spec => []RepeatsOnlyAfter5xx
<1>1. Init => PublishInv
  BY PublishInit
<1>2. PublishInv /\ [Next]_vars => PublishInv'
  BY PublishStepInv
<1>3. PublishInv => RepeatsOnlyAfter5xx
  BY PastOfAll DEF RepeatsOnlyAfter5xx, Past
<1> QED BY <1>1, <1>2, <1>3, PTL DEF Spec

\* No message without an embed, no embed without a stock, and no stock without an
\* event of a signal the call is told to notify.
THEOREM OnlyRecordedHolds == Spec => []OnlyRecorded
<1>1. Init => PublishInv
  BY PublishInit
<1>2. PublishInv /\ [Next]_vars => PublishInv'
  BY PublishStepInv
<1>3. PublishInv => OnlyRecorded
  BY PastOfAll DEF OnlyRecorded, Past, Rests
<1> QED BY <1>1, <1>2, <1>3, PTL DEF Spec

\* What a call returns is true of the channel: after `sent` every event from before
\* the call can be read off the last message, however many fields an embed has, and
\* after `skipped` there was none.
THEOREM OutcomeIsTrueHolds == Spec => []OutcomeIsTrue
<1>1. Init => PublishInv
  BY PublishInit
<1>2. PublishInv /\ [Next]_vars => PublishInv'
  BY PublishStepInv
<1>3. PublishInv => OutcomeIsTrue
  BY PastOfAll DEF OutcomeIsTrue, LastMessage, Past, Tells
<1> QED BY <1>1, <1>2, <1>3, PTL DEF Spec
=============================================================================
