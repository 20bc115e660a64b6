------------------------------- MODULE Trend -------------------------------
(***************************************************************************)
(* The ring of bins in which a script accumulates values over time         *)
(* (lib/slowpy/slowpy/trend.py).  A fill first brings the ring to its time *)
(* (_evolve) and clears the bins it passes; what is shown are the complete *)
(* bins before the current one.  clear() resets one bin only and flush()   *)
(* none, so that what is shown depends on the indexes alone.               *)
(*                                                                         *)
(* A time is in halves of a tick, and every fill has the weight one; the   *)
(* sums of values are kept next to the counts and are left out.  The       *)
(* bounds are FillTimes and MaxFills.                                      *)
(***************************************************************************)
EXTENDS Integers

CONSTANTS TrendBins, FillTimes, MaxFills, MaxTime,
          StartAt       \* when the trend starts, on the clock of FillTimes

ASSUME TrendAssumption ==
  /\ TrendBins \in Nat \ {0} /\ {MaxFills, MaxTime, StartAt} \subseteq Nat
  /\ FillTimes \subseteq 0 .. MaxTime

VARIABLES trCount,      \* the ring
          trCurrent,    \* current_index
          trFlushed,    \* start_index
          trFills,      \* the fills of each tick since the last clear()
          trInOrder,    \* they came in the order of their times, none before the start
          trLast        \* the latest time of them

trVars == <<trCount, trCurrent, trFlushed, trFills, trInOrder, trLast>>

Slot == 0 .. TrendBins - 1
Times == {t - StartAt : t \in FillTimes}
LastTick == MaxTime \div 2

TrendTypeOK ==
  /\ trCount \in [Slot -> 0 .. MaxFills] /\ trFills \in [0 .. LastTick -> 0 .. MaxFills]
  /\ {trCurrent, trFlushed} \subseteq 0 .. LastTick
  /\ trInOrder \in BOOLEAN /\ trLast \in Times \cup {0}

TrendInit ==
  /\ trCount = [k \in Slot |-> 0] /\ trCurrent = 0 /\ trFlushed = 0
  /\ trFills = [k \in 0 .. LastTick |-> 0] /\ trInOrder = TRUE /\ trLast = 0

\* int() cuts towards zero: the tick before the start belongs to the first bin.
IndexOf(t) == IF t >= 0 THEN t \div 2 ELSE -((-t) \div 2)

MutEvolved(i) ==
  [k \in Slot |-> IF \E j \in trCurrent + 1 .. i - 1 : j % TrendBins = k THEN 0 ELSE trCount[k]]

\* The ring after the bins up to index i have been entered.
Evolved(i) ==
  [k \in Slot |-> IF \E j \in trCurrent + 1 .. i : j % TrendBins = k THEN 0 ELSE trCount[k]]

\* A time before the start leaves the ring alone and counts in the current bin;
\* a time in an earlier bin makes that one the current one again.
Fill(t) ==
  LET i == IF IndexOf(t) < 0 THEN trCurrent ELSE IndexOf(t)
      tick == t \div 2
  IN /\ Evolved(i)[i % TrendBins] < MaxFills
     /\ tick \in DOMAIN trFills => trFills[tick] < MaxFills
     /\ trCurrent' = i
     /\ trCount' = [Evolved(i) EXCEPT ![i % TrendBins] = @ + 1]
     /\ trFills' = IF tick \in DOMAIN trFills THEN [trFills EXCEPT ![tick] = @ + 1] ELSE trFills
     /\ trInOrder' = (trInOrder /\ t >= trLast)
     /\ trLast' = IF t > trLast THEN t ELSE trLast
     /\ UNCHANGED trFlushed

Flush ==
  /\ trFlushed' = trCurrent
  /\ UNCHANGED <<trCount, trCurrent, trFills, trInOrder, trLast>>

\* clear(): the times that follow are relative to the start it sets.
Clear ==
  /\ trCurrent' = 0 /\ trFlushed' = 0 /\ trCount' = [trCount EXCEPT ![0] = 0]
  /\ trFills' = [k \in 0 .. LastTick |-> 0] /\ trInOrder' = TRUE /\ trLast' = 0

TrendNext == (\E t \in Times : Fill(t)) \/ Flush \/ Clear

TrendSpec == TrendInit /\ [][TrendNext]_trVars

-----------------------------------------------------------------------------
Least(a, b) == IF a < b THEN a ELSE b

\* to_json(): the indexes of the bins that are shown.
Shown == trCurrent - Least(trCurrent - trFlushed, TrendBins - 1) .. trCurrent - 1

\* timeseries(): the start of the series, in ticks.
SeriesStart == IF trCurrent < TrendBins THEN 0 ELSE trCurrent - TrendBins + 1

\* Of fills that come in the order of their times, what is shown of a tick are
\* the fills of that tick, although clear() leaves all bins but one as they are
\* and the ring goes round; and the points lie within the series they are in.
TrendShowsFills ==
  /\ trInOrder => \A i \in Shown : trCount[i % TrendBins] = trFills[i]
  /\ \A i \in Shown : i \in SeriesStart .. SeriesStart + TrendBins - 1
=============================================================================
