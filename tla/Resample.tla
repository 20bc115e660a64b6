------------------------------ MODULE Resample ------------------------------
(***************************************************************************)
(* Resampling of a time series into buckets of time                        *)
(* (app/server/sd_datasource.py, DataSource.resample() and reduce()), and  *)
(* what a table store hands to it (sd_datasource_TableStore.py,            *)
(* aio_get_timeseries()).                                                  *)
(* Times and values are integers; None and what float() does not take is   *)
(* NaN.  The interval is the one asked for: its automatic choice (the      *)
(* median of the distances) and the reducers that divide are left out.     *)
(*                                                                         *)
(* The state is a series, which grows by a point at a time.                *)
(***************************************************************************)
EXTENDS Integers, Sequences, FiniteSets, SequencesExt, FiniteSetsExt, Functions

CONSTANTS SeriesTimes, SeriesValues,   \* of the points
          MaxPoints,
          Lengths, Intervals,          \* what is asked for
          SeriesTo

ASSUME ResampleAssumption ==
  /\ SeriesTimes \subseteq Int /\ SeriesValues \subseteq Nat
  /\ Lengths \subseteq Nat /\ Intervals \subseteq Nat \ {0} /\ SeriesTo \in Int

VARIABLE rsSeries      \* points <<t, x>> in the order of time

NaN == -1        \* no value of a point is negative
Reducers == {"first", "last", "min", "max", "sum", "count"}

ResampleInit == rsSeries = << >>

AddPoint(t, x) ==
  /\ Len(rsSeries) < MaxPoints
  /\ rsSeries # << >> => Last(rsSeries)[1] <= t
  /\ rsSeries' = Append(rsSeries, <<t, x>>)

ResampleNext == \E t \in SeriesTimes, x \in SeriesValues \cup {NaN} : AddPoint(t, x)

ResampleSpec == ResampleInit /\ [][ResampleNext]_rsSeries

(***************************************************************************)
(* The code                                                                *)
(***************************************************************************)
Total(series, places) == FoldFunction(+, 0, [i \in places |-> series[i][2]])

\* reduce(), of the values that are no NaN at these places of a series.
Reduce(series, places, reducer) ==
  LET xx == {i \in places : series[i][2] # NaN}
      values == {series[i][2] : i \in xx}
  IN  CASE reducer = "count" -> Cardinality(xx)
        [] reducer # "count" /\ xx = {} -> NaN
        [] reducer = "first" /\ xx # {} -> series[Min(xx)][2]
        [] reducer = "last" /\ xx # {} -> series[Max(xx)][2]
        [] reducer = "min" /\ xx # {} -> Min(values)
        [] reducer = "max" /\ xx # {} -> Max(values)
        [] reducer = "sum" /\ xx # {} -> Total(series, xx)

\* Mutant: the length is rounded down.
MutBins(length, interval) == length \div interval

\* One more bucket, at the beginning, when the interval does not divide the length.
Bins(length, interval) ==
  length \div interval + (IF length % interval > 0 THEN 1 ELSE 0)

StartOf(length, to, interval) == to - Bins(length, interval) * interval

\* The places of the points of each bucket: the bucket of a point is the floor of
\* its distance from the start, and a point that is in none of them is passed over.
Buckets(series, length, to, interval) ==
  LET start == StartOf(length, to, interval)
  IN  [b \in 0 .. Bins(length, interval) - 1 |->
         {i \in DOMAIN series : (series[i][1] - start) \div interval = b}]

\* prior_data: the points before the first bucket go in front as they are, up
\* to the first that is not before it.
Prior(series, start) ==
  SubSeq(series, 1,
         Cardinality({i \in DOMAIN series : \A j \in 1 .. i : series[j][1] < start}))

\* What a table store fetches of a series: the points of the window, and, with
\* prior_data 1 when there are none and with 2 always, the last one before it.
Fetched(series, length, to, prior) ==
  LET earlier == Len(Prior(series, to - length))
      last == Len(Prior(series, to))
      more == earlier > 0 /\ (prior = 2 \/ (prior = 1 /\ earlier = last))
  IN  SubSeq(series, IF more THEN earlier ELSE earlier + 1, last)

\* Times are relative to the start, and doubled: a bucket stands at its middle.
Resampled(series, length, to, interval, reducer, prior) ==
  LET n == Bins(length, interval)
      start == StartOf(length, to, interval)
      before == IF prior THEN Prior(series, start) ELSE << >>
      buckets == Buckets(series, length, to, interval)
  IN  [t |-> [i \in DOMAIN before |-> 2 * (before[i][1] - start)]
               \o [k \in 1 .. n |-> interval * (2 * k - 1)],
       x |-> [i \in DOMAIN before |-> before[i][2]]
               \o [k \in 1 .. n |-> Reduce(series, buckets[k - 1], reducer)]]

(***************************************************************************)
(* Properties                                                              *)
(***************************************************************************)
\* The buckets cover the window, with less than one more in front.
WindowCovered(length, interval) ==
  LET start == StartOf(length, SeriesTo, interval)
  IN  start <= SeriesTo - length /\ start > SeriesTo - length - interval

\* The numbers of the points of an interval of time, by place.
Numbers(from, to) ==
  {i \in DOMAIN rsSeries : from <= rsSeries[i][1] /\ rsSeries[i][1] < to /\ rsSeries[i][2] # NaN}

\* x is what the reducer promises of the numbers at these places.
Says(reducer, x, places) ==
  \/ reducer = "count" /\ x = Cardinality(places)
  \/ reducer # "count" /\ places = {} /\ x = NaN
  \/ reducer = "sum" /\ places # {} /\ x = Total(rsSeries, places)
  \/ \E i \in places :
       /\ x = rsSeries[i][2]
       /\ \A j \in places : \/ reducer = "first" /\ i <= j
                            \/ reducer = "last" /\ j <= i
                            \/ reducer = "min" /\ x <= rsSeries[j][2]
                            \/ reducer = "max" /\ rsSeries[j][2] <= x

\* Each value is that of the numbers of its own interval of time, and each number
\* of the window is in exactly one of them.
PointsKept(length, interval) ==
  LET n == Bins(length, interval)
      start == StartOf(length, SeriesTo, interval)
      In(k) == Numbers(start + interval * (k - 1), start + interval * k)
  IN  /\ \A reducer \in Reducers :
           LET x == Resampled(rsSeries, length, SeriesTo, interval, reducer, FALSE).x
           IN  DOMAIN x = 1 .. n /\ \A k \in 1 .. n : Says(reducer, x[k], In(k))
      /\ \A i \in Numbers(start, SeriesTo) : Cardinality({k \in 1 .. n : i \in In(k)}) = 1

\* The place of the point before the window that is asked for, if there is one.
PriorPlaces(length, prior) ==
  LET earlier == {i \in DOMAIN rsSeries : rsSeries[i][1] < SeriesTo - length}
      window == {i \in DOMAIN rsSeries : rsSeries[i][1] < SeriesTo} \ earlier
  IN  {i \in earlier : (\A j \in earlier : j <= i) /\ (prior = 2 \/ window = {})}

\* Of what a table store has fetched, one point at most stands in front of the
\* buckets, as it is: the one asked for, when it is not in the first of them.
\* All are in the order of time.
PriorKept(length, interval, prior) ==
  LET fetched == Fetched(rsSeries, length, SeriesTo, prior)
      with == Resampled(fetched, length, SeriesTo, interval, "last", TRUE)
      start == StartOf(length, SeriesTo, interval)
      shown == {i \in PriorPlaces(length, prior) : rsSeries[i][1] < start}
  IN  /\ Len(with.t) = Len(with.x)
      /\ Len(with.x) = Cardinality(shown) + Bins(length, interval)
      /\ \A i \in shown : with.t[1] = 2 * (rsSeries[i][1] - start) /\ with.x[1] = rsSeries[i][2]
      /\ \A i, j \in DOMAIN with.t : i < j => with.t[i] <= with.t[j]

\* Resampling keeps what the window holds, wherever the points are relative to
\* the bounds of the buckets: the buckets are in the order of time and cover
\* the window; each number of it is in exactly one of them, and the count, the
\* sum, the first, last, smallest and largest values of a bucket are those of the
\* numbers of its interval of time.  With prior_data a table store shows the last
\* point before the window, and no other: if the window is empty (1) or always (2).
ResampleKeepsPoints ==
  \A length \in Lengths, interval \in Intervals :
    /\ WindowCovered(length, interval)
    /\ PointsKept(length, interval)
    /\ \A prior \in {1, 2} : PriorKept(length, interval, prior)
=============================================================================
