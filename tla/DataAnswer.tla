----------------------------- MODULE DataAnswer -----------------------------
(***************************************************************************)
(* The answer to GET /api/data for one channel.  Every component of the    *)
(* server that knows of the channel gives a response; the router of the    *)
(* Web framework merges them from the last to the first                    *)
(* (lib/slowlette/slowlette/router.py, response.py), and the task and mesh *)
(* components have responses of their own that merge in another way        *)
(* (app/server/sd_taskmodule.py, sd_mesh.py).                              *)
(*                                                                         *)
(* Times are in milliseconds, and the value of a point is the time it was  *)
(* taken at, so that a point whose time has been shifted shows.  An entry  *)
(* is what a data source answers for a channel: a start, and times         *)
(* relative to it, as a list or as one time; it always has both.           *)
(***************************************************************************)
EXTENDS Integers, Sequences, SequencesExt

CONSTANTS AnswerNow,                \* the time it is
          AnswerTo, AnswerAgo,      \* the ends asked for, and how long before now
          AnswerLength,
          StoreTimes, CacheTimes    \* when the points were taken

ASSUME DataAnswerAssumption ==
  /\ AnswerNow \in Nat /\ AnswerTo \subseteq Nat /\ AnswerAgo \subseteq Nat
  /\ AnswerLength \in Nat
  /\ StoreTimes \subseteq Nat /\ CacheTimes \subseteq Nat

VARIABLES daTo, daStores, daTask, daUser, daCache,   \* what the components have
          daList                                     \* response_list

daInputs == <<daTo, daStores, daTask, daUser, daCache>>
daVars == <<daInputs, daList>>

Null == -1         \* None, in a list of values
OneSecond == 1000

(***************************************************************************)
(* Entries and responses                                                   *)
(***************************************************************************)
Entry(kind, start, times, values) ==
  [kind |-> kind, start |-> start, t |-> [i \in DOMAIN times |-> times[i] - start], x |-> values]

Scalar(start, time) == Entry("scalar", start, <<time>>, <<time>>)

Increasing(s) == \A i \in 1 .. Len(s) - 1 : s[i] < s[i + 1]
Series(times) == {s \in UNION {[1 .. n -> times] : n \in 0 .. 2} : Increasing(s)}

\* A response: its status (0 is that of an empty one) and its content, which is
\* None or a dictionary with an entry for the channel, or without.
Response(status, is, entry) == [status |-> status, is |-> is, entry |-> entry]

\* A list of points, of which some have no value.
ListWith(start, s, nulls) ==
  Entry("list", start, s, [i \in DOMAIN s |-> IF i \in nulls THEN Null ELSE s[i]])

\* A bucket of a resampled series without a point has None for its value.
StoreEntries ==
  {ListWith(start, s, nulls) :
     start \in {0, AnswerNow - AnswerLength}, s \in Series(StoreTimes), nulls \in SUBSET {1, 2}}
    \cup {Scalar(start, t) : start \in {0, AnswerNow - AnswerLength}, t \in StoreTimes}

StoreResponses ==
  {Response(200, "dict", {e}) : e \in StoreEntries}
    \cup {Response(200, "dict", {}), Response(400, "none", {})}

\* The cached data, as it was emitted: one point, or a series whose last
\* values may be None.
CacheEntries ==
  {Scalar(0, t) : t \in CacheTimes}
    \cup {ListWith(0, s, nulls) :
             s \in {q \in Series(CacheTimes) : q # << >>}, nulls \in {{}, {2}, {1, 2}}}

\* A second data source is tried with a few responses only.
FewResponses ==
  {Response(200, "dict", {}), Response(400, "none", {}),
   Response(200, "dict", {Scalar(0, 0)})}

\* The window asked for: it ends at daTo, or, of no positive daTo, relative to now.
AnswerStart == (IF daTo > 0 THEN daTo ELSE AnswerNow + daTo) - AnswerLength

\* ... and holds the time it is, but for a second.
HoldsNow ==
  \/ daTo = 0
  \/ daTo > 0 /\ AnswerNow <= daTo + OneSecond /\ AnswerNow >= AnswerStart

\* The end of the window for the mesh, which reaches beyond now.
MeshTo == IF daTo > 0 THEN daTo ELSE daTo + AnswerNow + 3 * OneSecond

\* DataMergerResponse and CacheDataMergerResponse are empty until they merge.
TaskResponse == IF HoldsNow THEN Response(0, "none", {}) ELSE Response(200, "dict", {})

\* api_data() of the user modules: None when there are none.
UserResponse ==
  CASE daUser = "none" -> Response(200, "none", {})
    [] daUser = "value" /\ HoldsNow -> Response(200, "dict", {Scalar(AnswerStart, AnswerNow)})
    [] OTHER -> Response(200, "dict", {})

By(who, response) == [by |-> who, response |-> response]

\* Components are included in this order, and handlers run in it.
Responses ==
  <<By("router", Response(0, "none", {})), By("mesh", Response(0, "none", {})),
    By("user", UserResponse), By(IF HoldsNow THEN "task" ELSE "past", TaskResponse)>>
    \o [i \in DOMAIN daStores |-> By("store", daStores[i])]

DataAnswerInit ==
  /\ daTo \in AnswerTo \cup {0 - ago : ago \in AnswerAgo}
  /\ \/ daStores = << >>
     \/ \E r \in StoreResponses : daStores = <<r>>
     \/ \E r, s \in FewResponses : daStores = <<r, s>>
  /\ daTask \in BOOLEAN
  /\ daUser \in {"none", "no value", "value"}
  /\ daCache \in {{}} \cup {{e} : e \in CacheEntries}
  /\ daList = Responses

(***************************************************************************)
(* Merging                                                                 *)
(***************************************************************************)
\* merge_content() and deep_update(): the entry that is merged in has all of
\* the fields, so that it takes the place of the one there was.
MergeContent(a, b) ==
  CASE b.is = "none" -> a
    [] b.is = "dict" /\ b.entry = {} -> Response(a.status, "dict", a.entry)
    [] OTHER -> Response(a.status, "dict", b.entry)

\* merge_response(): the larger status code wins.
MergeResponse(a, b) ==
  CASE a.status < b.status -> b
    [] a.status = b.status -> MergeContent(a, b)
    [] OTHER -> a

\* A point goes after the others when it is newer by more than margin.
MutAddNewer(e, time, margin) ==
  IF e.t = << >> \/ Last(e.t) < time - margin
  THEN [e EXCEPT !.kind = "list", !.t = Append(@, time - e.start), !.x = Append(@, time)]
  ELSE e

AddNewer(e, time, margin) ==
  IF e.t = << >> \/ e.start + Last(e.t) < time - margin
  THEN [e EXCEPT !.kind = "list", !.t = Append(@, time - e.start), !.x = Append(@, time)]
  ELSE e

\* The response that is merged has got what there is to add: what both mergers
\* end with, the own content being None and the own status 0.
Added(b, entry) ==
  MergeResponse(Response(0, "none", {}),
    Response(IF entry # {} THEN 200 ELSE b.status, "dict", entry))

\* The current value of an exported variable, taken now.
TaskMerge(b) ==
  Added(b, CASE ~daTask -> b.entry
             [] daTask /\ b.entry = {} -> {Scalar(AnswerStart, AnswerNow)}
             [] OTHER -> {AddNewer(e, AnswerNow, 0) : e \in b.entry})

EntryTime(e) == e.start + Last(e.t)
InWindow(e) == MeshTo - AnswerLength <= EntryTime(e) /\ EntryTime(e) <= MeshTo

\* The last value of the cached entry that is not None, with its time.
Known(e) == {i \in DOMAIN e.x : e.x[i] # Null}
LastKnown(e) == e.start + e.t[CHOOSE i \in Known(e) : \A j \in Known(e) : j <= i]

MeshMerge(b) ==
  LET usable == {e \in daCache : InWindow(e)}
  IN  Added(b, CASE usable = {} -> b.entry
                 [] usable # {} /\ b.entry = {} -> usable
                 [] b.entry # {} /\ \E c \in usable : Known(c) = {} -> b.entry
                 [] OTHER -> UNION {{AddNewer(e, LastKnown(c), 1) : e \in b.entry} : c \in usable})

Merged(a, b) ==
  CASE a.by = "task" -> TaskMerge(b.response)
    [] a.by = "mesh" -> MeshMerge(b.response)
    [] OTHER -> MergeResponse(a.response, b.response)

\* merge_responses(): one turn of the loop.
MergeLast ==
  LET n == Len(daList)
  IN  /\ n > 1
      /\ daList' = Append(SubSeq(daList, 1, n - 2),
                          By(daList[n - 1].by, Merged(daList[n - 1], daList[n])))
      /\ UNCHANGED daInputs

DataAnswerSpec == DataAnswerInit /\ [][MergeLast]_daVars

(***************************************************************************)
(* Properties                                                              *)
(***************************************************************************)
Answered == Len(daList) = 1
Answer == daList[1].response

LastStored == daStores[Len(daStores)].entry
StoresWork == daStores # << >> /\ \A i \in DOMAIN daStores : daStores[i].status = 200

TrueSeries(e) ==
  /\ Len(e.t) = Len(e.x)
  /\ Increasing(e.t)
  /\ \A i \in DOMAIN e.t : e.x[i] # Null => e.x[i] = e.start + e.t[i]

\* What is newest among the cache (in the window) and, with a data source, the
\* variable of a task.
Newest == {LastKnown(c) : c \in {e \in daCache : InWindow(e) /\ Known(e) # {}}}
            \cup (IF daTask /\ HoldsNow /\ daStores # << >> THEN {AnswerNow} ELSE {})

\* The last data source has a series for the channel that ends with an empty
\* bucket, which is as new: the mergers look at the time of the last point, and not
\* for its value, and add nothing.
HidesNewer(time) ==
  /\ daStores # << >>
  /\ \E s \in LastStored : s.t # << >> /\ Last(s.x) = Null /\ EntryTime(s) >= time - 1

\* Whatever the components have, the answer is one series in the order of time
\* in which every point has kept its time; what the last data source has for
\* the channel is kept; and the answer ends with a point as new as what the
\* cache and the tasks know of, but for a millisecond, unless an empty bucket at
\* the end of what is stored hides it.
AnswerIsCurrent ==
  Answered =>
    /\ \A e \in Answer.entry : TrueSeries(e)
    /\ StoresWork => \A s \in LastStored : \E e \in Answer.entry :
         e.start = s.start /\ IsPrefix(s.t, e.t) /\ IsPrefix(s.x, e.x)
    /\ \A time \in Newest :
         \/ \E e \in Answer.entry : Known(e) # {} /\ LastKnown(e) >= time - 1
         \/ HidesNewer(time)

\* What the docstring of DataMergerResponse says: the current data of a task is
\* appended "only if the channel does not exist, or" is older.
TaskDataIsShown ==
  (Answered /\ daTask /\ HoldsNow) => Answer.entry # {}
=============================================================================
