---------------------------- MODULE SignalRules -----------------------------
(***************************************************************************)
(* The two signal rules, as pure functions of the rows one evaluation has  *)
(* fetched.  Every query and both rules group by stock, so the module      *)
(* follows one stock: a table is a function from calendar days to the      *)
(* day's row or NoRow.  Ratios are compared by cross-multiplication and a  *)
(* severity is the fraction <<numerator, denominator>>, before the         *)
(* rounding to four decimals.                                              *)
(***************************************************************************)
EXTENDS Integers, FiniteSets, FiniteSetsExt, Functions

CONSTANTS
    MaxDay,         \* bound: calendar days, 1 the first
    NoRow,          \* the table has no row for the day (weekend, holiday, gap)
    NoEvent,        \* the rule emits nothing, or no event is recorded
    SurgeWindow,    \* VolumeSurgeRedSignal.window_days, 20 in the code
    VolumeMultiple, \* volume_multiple, 2
    MinRedPerMille, \* min_red_bar_pct, 15 per mille
    MinClose,       \* min_close_price, 10
    ChaseWindow,    \* InstitutionalChaseWarningSignal.window_days, 5
    MinStreak,      \* min_institutional_days, 3
    MinGrowthPct    \* min_margin_growth_pct, 5 per cent

Days == 1..MaxDay

ASSUME RuleAssumption ==
    /\ {MaxDay, SurgeWindow, ChaseWindow, MinStreak} \subseteq Nat \ {0}
    /\ {VolumeMultiple, MinRedPerMille, MinClose, MinGrowthPct} \subseteq Nat

Dates(tbl) == {d \in Days : tbl[d] # NoRow}

\* the rows of a query with trade_date <= asOf AND trade_date >= lower
Fetched(tbl, lower, asOf) ==
    [d \in Days |-> IF lower <= d /\ d <= asOf THEN tbl[d] ELSE NoRow]

Window(signal) == IF signal = "volume_surge_red" THEN SurgeWindow ELSE ChaseWindow

FetchWindow(signal, tbl, asOf) == Fetched(tbl, asOf - Window(signal) * 3, asOf)
-----------------------------------------------------------------------------
(***************************************************************************)
(* volume_surge_red, over price rows [open, close, volume].                *)
(***************************************************************************)

\* variant with a fault: ROWS BETWEEN n PRECEDING AND CURRENT ROW
FrameOneMore(tbl, d, n) ==
    {e \in Dates(tbl) : e <= d /\ Cardinality({f \in Dates(tbl) : e < f /\ f <= d}) <= n}

\* ROWS BETWEEN n - 1 PRECEDING AND CURRENT ROW: up to n rows, fewer at the start
Frame(tbl, d, n) ==
    {e \in Dates(tbl) : e <= d /\ Cardinality({f \in Dates(tbl) : e < f /\ f <= d}) < n}

VolumeSum(tbl, frame) == SumFunctionOnSet([d \in frame |-> tbl[d].volume], frame)

IsRedBar(bar) ==
    /\ bar.close >= MinClose
    /\ bar.open > 0
    /\ (bar.close - bar.open) * 1000 >= bar.open * MinRedPerMille

\* volume / ma_volume, where ma_volume = VolumeSum / Cardinality(frame)
VolumeRatio(tbl, d, frame) == <<tbl[d].volume * Cardinality(frame), VolumeSum(tbl, frame)>>

\* variant with a fault: a mean of zero is not skipped
SurgeEventOfZero(prices, d) ==
    LET ratio == VolumeRatio(prices, d, Frame(prices, d, SurgeWindow))
    IN  IF /\ d \in Dates(prices)
           /\ IsRedBar(prices[d])
           /\ ratio[1] >= VolumeMultiple * ratio[2]
        THEN ratio ELSE NoEvent

SurgeEvent(prices, d) ==
    LET ratio == VolumeRatio(prices, d, Frame(prices, d, SurgeWindow))
    IN  IF /\ d \in Dates(prices)
           /\ IsRedBar(prices[d])
           /\ ratio[2] # 0
           /\ ratio[1] >= VolumeMultiple * ratio[2]
        THEN ratio ELSE NoEvent
-----------------------------------------------------------------------------
(***************************************************************************)
(* institutional_chase_warning, over total_net, margin_today_balance and   *)
(* the price rows.  Its look-backs walk calendar days.                     *)
(***************************************************************************)
LookbackDays == IF ChaseWindow \div 2 = 0 THEN 1 ELSE ChaseWindow \div 2

BuyingStreak(inst, d) ==
    LET near == Fetched(inst, d - ChaseWindow * 2 + 1, d)
        last == Frame(near, d, MinStreak)
    IN  /\ d \in Dates(inst)
        /\ Cardinality(last) = MinStreak
        /\ \A e \in last : inst[e] > 0

\* the first row found walking back from LookbackDays days before d
Earlier(tbl, d) ==
    LET reach == {e \in Dates(tbl) : d - LookbackDays * 4 < e /\ e <= d - LookbackDays}
    IN  IF reach = {} THEN {} ELSE {Max(reach)}

\* today's margin balance over the earlier one, if both are there and positive
MarginGrowth(margin, d) ==
    {<<margin[d], margin[e]>> : e \in {e \in Earlier(margin, d) :
        d \in Dates(margin) /\ margin[d] > 0 /\ margin[e] > 0}}

PriceUp(prices, d) ==
    /\ d \in Dates(prices)
    /\ prices[d].close > 0
    /\ \E e \in Earlier(prices, d) : prices[e].close > 0 /\ prices[d].close > prices[e].close

ChaseEvent(prices, inst, margin, d) ==
    LET grown == {g \in MarginGrowth(margin, d) : g[1] * 100 >= g[2] * (100 + MinGrowthPct)}
    IN  IF BuyingStreak(inst, d) /\ grown # {} /\ PriceUp(prices, d)
        THEN CHOOSE g \in grown : TRUE
        ELSE NoEvent

RuleEvent(signal, prices, inst, margin, d) ==
    IF signal = "volume_surge_red" THEN SurgeEvent(prices, d)
    ELSE ChaseEvent(prices, inst, margin, d)
=============================================================================
