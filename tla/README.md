# A TLA+ model of SlowDash

SlowDash is a server for slow-control dashboards. Browsers talk to it over a
Web-API and websockets; it reads time series from databases, runs the user's
control scripts ("user modules" and "slow-tasks"), and relays messages between
scripts, remote processes and browsers. It is written in Python on asyncio, with
threads for the user's code.

These modules model the parts of it where the order of steps decides. Four of
them are large: the message broker, the commands of a task, the life of a user
module's thread, and remote calls over the mesh. Twelve are smaller, one for each
place where a few lines of shared state meet threads, polls, clocks or late
messages. TLC checks all of them on small instances; TLAPS proves the safety of all
of them for every value of their constants.

Paths in this file are relative to the repository.

## Contents

1. Inventory of the system
2. What is modelled, and how the modules fit together
3. How state and actions correspond to the code
4. The runs: what each checks and shows, and its bounds
5. Fairness
6. The proofs
7. Where the code and what is said of it disagree
8. What is not modelled, and why
9. The plan

## 1. Inventory of the system

One asyncio event loop runs every HTTP and websocket handler of the server.
User code runs in threads: one thread for each user module, one more for each
command of a task. A handler keeps the loop until it suspends at an `await`, so
the questions are what another handler can do at that `await`, and what a thread
can do at any moment.

**Message broker** (`app/server/sd_slowmq.py`). State: three dictionaries,
`websockets`, `clients` and `subscribers`, keyed by a `client_id` and by topic
pattern. Operations: a connection's task accepts, registers, then serves
subscribe, unsubscribe and publish until the peer goes; then it cleans up. It is
used by browsers, by tasks and by remote processes (`control_AsyncSlowMQ.py`).
Hard: everything that happens while a publish waits for its sends; the failure of
one of them; ids that are given out again. Correct when the registry is exactly
the live connections, each message goes to those who subscribed at that moment, in
the publisher's order, and a slow or dead subscriber does not cost the others.

**Task modules** (`app/server/sd_taskmodule.py`). State of one module:
`command_thread`, `reentrant_command_thread_set`, exported nodes. Operations: a
command from `/api/control` in three flavours (plain, reentrant, awaited), stop,
load, status. The component around it forwards requests to many modules and
answers a long poll of their status. Hard: the check "is a command running" is
made before an `await`; `stop()` gives up on threads that do not end in 5
seconds. Correct when plain commands do not overlap, a running thread is
never forgotten, and every request is answered.

**User modules** (`app/server/sd_usermodule.py`). State of one module: the
thread, the stop event it shares with the handlers, the loaded script and its
callbacks. Operations: start, stop, a command, a request for data. The callbacks
of the script run on the thread's own event loop, or on the server's when the
script asks for it. Hard: coroutines posted from one loop to another with a
blocking wait; joins that time out; a stop during a slow load. Correct when a
stop is final, there is one thread at a time, and the server is never blocked for
good.

**Mesh** (`lib/slowpy/slowpy/mesh/mesh.py`). Publishing, subscribing and remote
procedure calls over any broker. State: the reply queue of each open call, by
correlation id; a table of functions; two handler tasks and one for each
subscription. Hard: late, lost and multiple replies; calls within calls, whose
handlers are serial; cancelling a handler that is in a user function.

**Brokers' clients** (`control_AsyncLocalPubsub.py`, `control_AsyncSlowMQ.py`,
and thin layers over NATS, MQTT, Redis, RabbitMQ). State: connections, the time of
the last attempt to connect. Hard: two publishers while the first connects;
messages that arrive in place of a reply.

**Mesh component of the server** (`app/server/sd_mesh.py`). State: websockets by
topic, the last value of each channel. It merges the cached values into what the
data sources answer. Hard: the merge must not lose or repeat points; older data
that arrive late.

**Control system and nodes** (`lib/slowpy/slowpy/control/system.py`, `node.py`).
State: one stop event for a whole process, the exported nodes and published
channels; of a node, its thread, the target and the running flag of a ramp, the
time of a press. Hard: all tasks of a server share the system, and all callers of a
node its children. Correct when a loop ends once its task is stopped, overlapping
ramps leave the device at the last target, and a published value does not undo
one that was set after it was read.

**HDL modules** (`control/hdl/hdl.py`): registers on a clock thread, with inputs
that other threads press or set. Correct when all registers change at once.

**Trends** (`lib/slowpy/slowpy/trend.py`): a ring of bins over time. Correct when
a bin shows the fills of its tick, although the ring is never cleared as a whole.

**Tasklets** (`mesh/tasklet.py`, `dash.py`): a process of its own that runs
callbacks at intervals and at times of the day, over a mesh.

**Console** (`app/server/sd_console.py`): the buffer between the output of user
threads and the browsers that poll it. Hard: the buffer is read, then cleared,
while threads write to it.

**Web framework** (`lib/slowlette`): a request is offered to every component, and
the responses of those that answer are merged (by status code, then lists
are appended and dictionaries merged). Pure functions, and the order of components.

**Data sources** (`app/server/sd_datasource*.py`, `sd_dataschema.py`,
`app/plugin/datasource_*.py`): schema strings, queries, and the resampling of a
series into buckets. Mostly pure; hard at the edges of buckets.

**Configuration, project, export, blobs, user HTML, miscellaneous routes**
(`app/server/sd_config.py`, `sd_project.py`, ...): files in, files out.

**Device control, stores, histograms, plotting, SCPI server, browser
application, examples**: sequential code, drivers and presentation.

`PROJECT.json` lists the same parts with their files, and the hazards with the
line where each one bites.

## 2. What is modelled, and how the modules fit together

| module | models | used by |
|---|---|---|
| `TopicMatch` | topic patterns: validation and matching, and the documented rules | `SlowMQ`, `PubSub`, `MCTopicMatch` |
| `PyDict` | the two dictionary operations | `SlowMQ`, `MeshRPC` |
| `SlowMQ` | the broker | `MCSlowMQ`, `SlowMQ_proofs` |
| `PubSub` | what a broker promises, without ids, dictionaries or tasks | `SlowMQ` (refinement) |
| `TaskCommand` | the commands and the stop of one task module | `MCTaskCommand`, `TaskCommand_proofs` |
| `UserModule` | start, stop and commands of one user module, with its thread | `MCUserModule`, `UserModule_proofs` |
| `MeshRPC` | remote calls over the mesh: calls, the two handlers, the stop | `MCMeshRPC`, `MeshRPC_proofs` |
| `RPC` | what remote calls promise, without queues, ids or messages | `MeshRPC` (refinement) |
| `Ramping` | setpoint, ramping and ramping status nodes, with overlapping calls | `MCParts`, `SlowpyParts_proofs` |
| `Console` | the buffers of stdout and stdin between scripts and browsers, the long poll | `MCParts`, `ServerParts_proofs` |
| `Tasklet` | the life of a tasklet and its tasks, the schedule over the times of a day | `MCParts`, `SlowpyParts_proofs` |
| `BrokerClient` | connecting and subscribing with each kind of broker, and what a lost connection leaves | `MCParts`, `SlowpyParts_proofs` |
| `RabbitRPC` | remote calls that share a reply queue of RabbitMQ | `MCParts`, `SlowpyParts_proofs` |
| `DataAnswer` | how the responses of all components become one answer of current data | `MCParts`, `ServerParts_proofs`, run `task_data` |
| `Resample` | the resampling and the reducers of a time series | `MCParts`, `ServerParts_proofs` |
| `CurrentData` | values that tasks publish and browsers emit, the cache and the variables | `MCParts`, `ServerParts_proofs` |
| `TaskStatus` | the long poll of the status of the tasks, with its revisions | `MCParts`, `ServerParts_proofs` |
| `NodeThread` | loops in threads of nodes, their own stop event and the shared one | `MCParts`, `SlowpyParts_proofs` |
| `HdlClock` | registers on a clock, and a oneshot button as their input | `MCParts`, `SlowpyParts_proofs` |
| `Trend` | the ring of bins of a trend | `MCParts`, `SlowpyParts_proofs` |
| `MCTopicMatch` | one pattern and topic after the other, as a state | `MCParts`, `SlowMQ_proofs` |
| `MCParts` | the twelve parts and the patterns in one run | `Parts.cfg`, `MCParts_proofs` |
| other `MC...` | constants, symmetry | the `.cfg` files |
| `SlowMQ_proofs`, `TaskCommand_proofs`, `UserModule_proofs`, `MeshRPC_proofs` | the theorems about the module of that name | |
| `SlowpyParts_proofs` | the theorems about the parts of the client library: `Ramping`, `NodeThread`, `Tasklet`, `HdlClock`, `RabbitRPC`, `BrokerClient`, `Trend` | `MCParts_proofs` |
| `ServerParts_proofs` | those about the parts of the server: `CurrentData`, `TaskStatus`, `DataAnswer`, `Resample`, `Console` | `MCParts_proofs` |
| `MCParts_proofs` | the theorems about the specification of all parts, as the run `parts` checks it | |
| `DataLemmas` | least and greatest elements, quotients and remainders, products | the proofs |

`TaskModule` is a subclass of `UserModule`. The two models meet at
`UserModule.stop()`, which `TaskModule.stop()` calls at its end: `TaskCommand` ends
where `UserModule`'s `StopCalled` begins.

`MeshRPC` is about what the two ends of a call do with messages that a broker
carries; it assumes less of a broker than `PubSub` promises (nothing of order, and any
message may be lost), as it runs over other brokers too.

The smaller parts do not act on each other: each has its variables under a prefix of
its own (`ramp`, `con`, `tl`, `bk`, `rpc`, `da`, `rs`, `cd`, `ts`, `nt`, `hd`, `tr`), and
`MCParts` checks them together. A behaviour there chooses a `part` at the start and makes
steps of that part only, while the others stay at an initial state. The graph is the
sum of the graphs of the parts, and an invariant of one part is checked in all of
its states. Where parts of the code meet, they are in one module: `CurrentData` has the
mesh component, the task component and `ControlSystem.aio_publish()`;
`DataAnswer` the data sources, the mesh, user module and task components and the
router that merges their responses; `NodeThread` the nodes and the stop
and load of the task modules.

## 3. How state and actions correspond to the code

An action is a stretch of a coroutine from one suspension to the next, or a
step of a user thread between two of its looks at shared state. Where the code
reads a variable again after an `await`, the action after the `await` reads it
again; where it relies on what it read before, a local variable carries it over.

**SlowMQ.** One asyncio task per connection runs `connect()`. `pc` says
where it is: before `accept()` (`new`), in `receive()`, in an `await` of sends,
about to see an exception (`raised`), `done` or `refused`. The sends of a publish
are tasks of their own, kept in `sends`; `Deliver`, `Lose` and `Fail` end one
and resume the task that waits for them when the last is done or the first has failed,
as `asyncio.gather` does. `RemoveClient` is the `finally` clause with the
`KeyError` of its log line. A request either does its work, or answers with an
error, or raises and so ends the connection; each is a disjunct. Message bodies
and client names are left out, `len(self.clients)` as the id is kept.

**TopicMatch.** `Walk` is the index loop of `topic_match`, from each index on, `Match` its
result from the first, `Valid` the validation. `MatchByRules` states the rules of the docstring independently.

**TaskCommand.** A request goes through `process_task_command()`: `Receive` is
everything up to the first join of an ended thread, `Joined` what follows it,
`Purged` one step of the loop that drops ended reentrant threads, `Launch` the end
that starts the function. `StopBegins`, `StopWaited`, `StopJoinedCommand` and
`StopJoinedReentrant` are the stretches of `stop()`: commands are served before the module
of the user's thread is initialized, and a `stop()` that finds it so sleeps for a second and
then reads `user_thread` again, which another `stop()` may have made None. The set of reentrant threads
is an object: a stop iterates over the one it found while commands change it, and
then replaces it. `sets` holds all of them and `cur` names the one in use. `Iterate`
is Python's iteration over a set, with the RuntimeError for a changed size.
`orderly` is a history variable (section 4).

**UserModule.** `StartCalled`, `StopCalled` and `CommandCalled` are the entries
of the handlers; each following action is one stretch. `main` names the handler
that blocks the server's loop in `future.result()`, and no other handler
moves until it has its result. A coroutine that a handler posts to the loop of
the thread runs when that loop next awaits (`Serves`), and never when the loop
has been closed before (`lost`). The thread goes through `clear`, `find`, `create`,
`exec`, `check`, `init`, `ready`, then `run` and `idle`/`loop`, and `ending`, `dead`;
a script is a record that says which callbacks it has and whether they are async.
`requested` and `halted` are history variables.

**MeshRPC.** A call is `aio_call_many()`: `Call` is everything up to the first
suspension, in the middle of publishing; `Sent` the return of `aio_publish()`, `Receive`
and `GiveUp` the rounds of its loop (`GiveUp` stands for the timeout and for the stop),
`Return` the removal of the queue, `CancelCall` a cancellation of the user's task.
The call handler goes through `Take`, `FunctionEnds`, `Reply`; `HandlerIdles` is a
`aio_get()` that found nothing for 0.1 seconds, `NextRound` the test of the
stop event. `HandlerFails`, `ReplyFails` and `ListenerFails` are the `except` clauses around
the loops of the two handlers: a message without headers, one whose body is no dictionary, a
reply that is no JSON or cannot be published end the task. A function may make a
call of its own (`Within`), and ends only when this one has (`Inner`). `TakeReply` is
a round of the reply handler. `Stop` is the loop of `aio_stop()`, which cancels a task
and waits for it; `Cancel` says where the CancelledError arrives: in the function,
whose calls end with it and whose handler goes on, or elsewhere in the handler, which
ends. `requests` and `answers` are the messages in the broker; a message is for one
mesh that has subscribed. `runs` is history.

**Ramping.** A call of `RampingNode.aio_set()` goes through `RampCallSet` (target,
flag), `RampStart` (the first reading) and the rounds of its loop: `RampStep`
computes the next value, `RampWrite` writes it through the setpoint node with its
limits, or the device refuses it, which ends the call (`RampWriteFails`); `RampWake` ends the sleep, `RampLeave` sees the flag or the stop.
`rampSuspends` tells a thread-safe device, whose reads and writes are awaited, from a
plain one. `RampStatusSet` is the status node, which stops the ramp.

**Console.** `PrintText` writes at the position of the StringIO (`Overwrite`), from a
thread; a drain is `Drain`, `DrainSeek`, `DrainTruncate`, `DrainEnd`, its four calls; a
read waits (`ConRead`, `MustWait`) until `ConNotify` or the timeout lets it go on (`ConAwake`).
`PostTell`, `PostSeekEnd`, `PostWrite` and `PostSeekBack` are the steps of a POST to stdin,
`ReadLine` those of the script.

**Tasklet.** `_start()` is the phases from `InitializeDone` to `CloseDone`; its main
tasks are of the kinds once, loop and schedule. `Tick` puts the clock on by a minute, or
by as many as a call blocks the loop or the clock is set. `After` computes the next
time of the schedule, over midnight.

**BrokerClient.** One subscriber of any of five kinds. `bkKind` selects the actions, the
two flags of the client and the subscription of the library are variables, `LinkLost` and
`LinkBack` the faults. A client of RabbitMQ makes its connection, channel, exchange and queue one
after the other (`RabbitConnect`, `RabbitChannel`, `RabbitExchange`, `RabbitDeclareQueue`;
`bkOpened` is what there is of the two in the middle), and the connection may be lost between any two
of them; only `queue.get()` and the `publish()` of a publisher that has its exchange close what
is there (`RabbitCloses`). A request of SlowMQ may be answered by what is no JSON
(`SlowMQReplyUnread`). The client libraries are external: those of Redis and NATS
reconnect by themselves.

**RabbitRPC.** The calls share one reply queue. `GetReply` takes its first
message, `SelectReply` compares the correlation id and keeps it or hands it back (`Requeue`).
`PublishFails` closes the connection under the other calls: a `get()` that is cancelled so raises,
or, when a stop is asked for, ends its call with an empty message.
The queue is in the broker, outside the repository, and is external.

**DataAnswer.** The initial state has what the components answer, `MergeLast` is one
round of the router, `MergeContent`, `TaskMerge` and `MeshMerge` the three ways to
merge. The value of a point is the time it was taken at, so that a wrong start or offset
shows. The entries of data sources are scalars and series with or without empty buckets, whose
value is None (`StoreEntries`). `HoldsNow` allows for the second that the code does. A second data
source is tried with three responses.

**Resample.** `AddPoint` makes a series grow; `Fetched` is what `aio_get_timeseries()` of the table stores
takes of it for a window, with the last point before it if that is asked for; `Resampled` is the loop of `resample()`,
`Buckets` the places of the points that it puts into each bucket, `Prior` the points that go
in front; `Reduce` is `reduce()` of the values at some places. NaN is a value of its own.

**CurrentData.** `PublishRead`, `PublishEmit` are the stretches of
`aio_publish()` in the thread of a task, `EmitOthers` is a POST to `/api/emit`,
`SetVariable` one round of the task component's loop, `Consumed` and `Broadcast` the rest of
the request. An emission is made once, and its name stands for its value.

**TaskStatus.** `Poll` is one look of a long poll at all modules, which has no
`await` in it; `Found` the revision it finds. `InputChanges` and `InputTouches` are the two steps of
the script's thread.

**NodeThread.** `StartEnters`, `StartAssigns`, `StartClears`, `StartRuns` are the
stretches of the node's `start()`, `StopEnters`, `StopJoins`, `StopForgets` those of its
`stop()`, in two threads at once. `LoopSees` is the test of both events by the loop. `StopScript`
sets the shared event, `LoadScript` of any task clears it.

**HdlClock.** A cycle is `InputRead` (in three steps when the button is read: the
oneshot node's `get()` reads, then restores), `ProcessSets` of each register in any order,
and `Output`. `PressBegins` and `PressEnds` are a press in another thread, `OtherSets` a set from
another thread, which the clock refuses at the next output.

**Trend.** `Fill` is `fill()` with `_evolve()`; `IndexOf` truncates to zero as `int()`
does; `Evolved` is the loop that clears the bins it passes.

## 4. The runs: what each checks and shows, and its bounds

Each property of a passing run has a mutant in `PROJECT.json`: a plausible bug
in one definition, kept in the module before it under a name like `X_Bug` or
`MutX`, with which TLC finds the property violated. `CHECK_DEADLOCK FALSE` is said everywhere: connections,
calls and scripts are finite in number, and when all are used up the model stops.

| run | instance | shows |
|---|---|---|
| `slowmq_registry` | 3 connections, 2 publications, one pattern, late joins, symmetry | `RegisteredIsLive`; `RegistryExact` until an id is reused; `InOrder` |
| `slowmq_delivery` | 2 connections, two overlapping patterns and an invalid one, 1 publication, one peer that may stop reading, the second may join after the first has left | `ImplementsPubSub`; publishers go on, and wait for nothing but a send of their own; departed peers are forgotten; the others are served |
| `slowmq_id_reuse` | 3 connections, late joins | violation: two live connections share an id |
| `task_command` | 2 plain, 2 reentrant, 1 awaited command, 2 stops, two calls under way at once | single-threaded, every thread known, nothing raised while the use is orderly; `ReentrantIsKnown` until the first stop in any use; every call ends, and a command joins only threads that have ended (`CommandsAndStopsEnd`) |
| `task_command_race` | 3 plain commands | violation: two plain commands run at once |
| `user_module` | 2 starts, 1 stop, 1 command, two scripts, two calls at once | while the use is orderly (`OrderlyUse`): one thread, halted `_run()`s, no failing start or stop; a stop is final in an orderly use, and in any use up to a second start (`StopIsFinalIfOrderlyOrOnce`); threads that are told to stop end, and so do handlers, which wait only for what can come (`UseEnds`) |
| `user_module_restart` | 2 starts | violation: a stop is not final after a restart |
| `user_module_async_halt` | 1 start, 1 stop | violation: the server stands still |
| `mesh_rpc` | 2 meshes of one name, a call for all replies whose function makes a call for one reply, one mesh that may be stopped | `QueuesExact`, `OwnReplies`, `ImplementsRPC`; every call and every function ends, and no call outlives the function that made it (`CallsAndFunctionsEnd`); a stop that the process was told of ends, and leaves no task running (`StopEndsOnRequest`) |
| `mesh_rpc_stop` | the same | violation: `aio_stop()` never ends |
| `parts` | the parts, below | below |
| `task_data` | data sources, caches and tasks with up to 2 points each | violation: without a data source the current data of tasks are not answered |

The run `parts` (`Parts.cfg`), with `PartsTypeOK` for the types of all parts:

| property | instance | shows |
|---|---|---|
| `RampEndsAtLastTarget` | 2 calls on a device of 5 levels, steps of 2, a limit of 3 | overlapping ramps on a plain device leave it at the target of the last |
| `ConsoleLosesNothing`, `PollersWoken` | 2 browsers, 3 texts, 2 commands, 2 lines | a text that is printed outside a drain is not lost, and given out once, and no command is skipped; whenever there is something for a browser that waits, a notification is on its way, and the browser is woken, though a thread prints between its decision and its wait |
| `ScheduleKept` | a day of 5 minutes, three lists of times | a scheduled callback is called at its next time unless something passes that minute |
| `SubscribersHeal` | each kind of broker, 2 losses, with a publisher beside it or not | a client that takes itself to be subscribed over a connection that is one hears; when the broker is back for good the subscriber receives again, unless its subscription was refused and left half made (MQTT: with a publisher on its client; RabbitMQ: unless it is `Stranded` with a dead connection that no call closes, and only the loss of a connection that is still being set up strands it) |
| `RepliesKept` | 2 calls, 3 replies | a reply to a call that waits is in the queue, or with a call that will hand it back |
| `AnswerIsCurrent` | entries of 0 to 2 points, two starts, two ends of the window | every point of an answer has its true time, what the last data source has is kept, and the newest value of the caches and tasks is there, unless an empty bucket at the end of what is stored is as new (section 7) |
| `ResampleKeepsPoints` | up to 3 points at 6 times, all reducers, lengths that the interval does not divide | the buckets cover the window; each of its points is in exactly one of them; counts, sums, and the first, last, least and greatest values over them are those of its points; of the earlier points a table store shows the last one and no other, if the window is empty or always, as asked |
| `SetValueStays` | 2 variables, 2 emissions, 1 browser | once nobody is setting a variable it has the value of the last emission for it, as long as these do not overlap |
| `LoopFollowsRules` | all patterns and topics of at most 4 tokens over two names, the two wildcards and a partial wildcard | the loop decides what the documented rules say |
| `ChangesAreShown` | 1 browser and 2 tasks, or 2 browsers and 1 task, 4 seconds | a browser that shows something else is answered, with the exceptions of section 7 |
| `LoopsEnd` | 2 scripts, one with a loop, 2 threads that start and stop it, 2 starts | a node knows the thread it runs, while the calls on it come one at a time; what a loop is told stays said until it has seen it; so a stopped task's loop ends unless another load clears the event, and a join ends |
| `CycleIsAtOnce` | 3 registers | the registers change at once; a press is read once |
| `TrendShowsFills` | 3 bins, 5 times on both sides of the start, 2 fills in a bin | each bin that is shown has the fills of its tick |

**Why the bounds are enough.** In the broker the interplay is of a publisher, a
subscriber and one that comes or goes: three connections. Two publications are the
least that can overtake each other. Reuse of an id needs two connections and a
third that comes late. Two patterns that match one topic make a client found
twice. In `TaskCommand` an ended thread and two commands that find it are needed for
the stale check, two stops for the second read of `command_thread`, two
reentrant threads for interfering purges; three calls at once (checked
while the model was made) show no further kind of failure. In `UserModule` a
restart needs two starts; a third thread would meet the same event.
In `MeshRPC` two meshes of one name give two replies to a call, a late reply after
the call, and a function that waits for the mesh that executes it or for the other
one; two calls of one mesh are the least whose replies can be mixed up.
In `slowmq_delivery` two connections cannot have one id: the second takes the id of the first after it has left.
In the parts, two actors are what the code has on both sides of each window (two ramps,
a poll and a printing thread, a command and a script, an emission and a publication);
two losses of a connection make a client heal twice; a step of 2 towards an odd target
and a limit below the top level reach both ways a ramp ends; five minutes hold the
three kinds of distance between scheduled times (one, several, over midnight);
intervals of 2, 3 and 7 in a length of 4 to 6 divide it, do not, and exceed it; 4 seconds
separate a change from the answers before and after it; the fill times lie before the
start, in one tick, in neighbouring ones and a whole ring apart.

**Orderly use.** `TaskCommand` and `UserModule` keep a history variable
`orderly`: true as long as no call came in while another was under way, no thread
outlived the join of a `stop()`, and (user modules) the script loaded within
`start()`'s 10 seconds. The code does not enforce any of this; one browser that waits
for its answers keeps to it. Properties named `...IfOrderly`, and `OrderlyUse`, hold under
it. The violations show that the condition is needed, and the others
(`ReentrantIsKnown`, `CommandsAndStopsEnd`, `UseEnds`, and
`StopIsFinalIfOrderlyOrOnce` up to the second start) hold without it.

`MaxAtOnce` bounds how many calls are under way at once; it is a bound of the
checking only, and the theorems hold for each value of it.

## 5. Fairness

- `SlowMQ`: the event loop resumes every task that can go on, and a send to a peer
  that reads comes to its end (weak fairness for each pair of task and receiver, so
  that no send waits for another). Nothing is assumed of a peer in `Slow`.
  `Disconnect` is strongly fair: what the peer had sent before it left is
  finite, so its task comes to the end of the stream.
- `TaskCommand`: handlers and stops resume when what they join has ended or timed
  out. Nothing is assumed of user functions: they may run for ever, and the
  liveness properties hold all the same.
- `UserModule`: handlers and the thread go on, and the user's callbacks return; a
  `_run()` with a `_halt()` is only assumed to return once it has been halted. A
  posted coroutine needs the loop at one of its awaits, which come and go: strong
  fairness.
- `MeshRPC`: the tasks go on at their timeouts, publishing comes to its end, and a
  user's function returns once the calls that it waits for have. There is no
  fairness for `Take` and `TakeReply`, so that every message may be lost, and none for
  starting a handler, a call or a stop.

- `MCParts` has fairness for the parts with a liveness property that needs it.
  Console: the notification that a thread has posted runs, a drain goes on, and a poll that
  was notified wakes up; nothing is assumed of printing or of browsers.
  BrokerClient: the server comes back (`LinkBack`), and the client and its library try
  again (`ClientStep`), as the loops over `aio_get()` do. NodeThread: `start()` and `stop()` of a
  node go on, and a loop comes to its test of the events (`LoopSees`), so user
  functions return. `ScheduleKept` is an action property and needs none.

## 6. The proofs

Seven modules `..._proofs` and `DataLemmas` are checked by TLAPS: about each of the four large
modules, about the parts of the client library and those of the server, and about the
specification `MCParts` in which the parts stand beside each other.

They use the `ASSUME`s of the modules and nothing else. These say of the constants: sets of
connections, calls and stops are finite and the kinds of requests disjoint; bounds are
naturals; which mesh calls which; a ramp changes by at least one level per second; a day has
a minute, and a list of times has one of its minutes; times, values and ends of windows
are numbers, and an interval is not zero; nodes with threads are of scripts; the name for nobody is
no name of a client.

**SlowMQ.** `TypeCorrect` is inductive by itself.
`RegisteredIsLiveAlways` and `RegistryExactAlways`: the conjunction `Registry` of the
two invariants is inductive relative to `TypeOK`. The first needs the second
neither in the code nor in the proof, but both are about the same clean-up, and are
carried through the actions together. The heart is `RemoveClientRegistry`: popping
the task's own id removes this task, and, when ids have never been given out
twice, no other; and `ConnectRegistry`: a new id that is not in `clients` is in
none of the three dictionaries. `IdsUniqueWithoutLateJoin`: when nobody connects
after a departure, the ids in use are exactly `0..len-1` (`Dense`), so
`len(self.clients)` is new. This is the condition under which the id scheme works, and
the run `slowmq_id_reuse` shows what happens without it.
`InOrderAlways`: `OrderInv` says that a send that is under way brings the last message
its task has published, so that what it delivers is not older than what the peer has.
`MatchFollowsRules`: `Agrees` states in closed form what the loop decides from an index
on. It obeys the rounds of the loop (`Rounds`), and only one function does (`OneWalk`: of two that
do, take the last index at which they differ; the round there goes by the next one).
`LoopAlwaysFollowsRules` says it of what `MCTopicMatch` enumerates, for any names and lengths.
`RefinementUntilReused`: every step of the broker up to the first id that is given out twice
is a step of `PubSub`, or changes nothing there, whoever joins late; so only equal ids, and not
late joins as such, break the promise. Its invariant `BrokerInv` joins `TypeOK`, `Registry`,
`OrderInv`, that no id was given out twice, and that only valid patterns are in the dictionary
(`ValidInv`); live ids differ (`OwnIds`), so that the subscriptions of an id are those of one
connection. `StaysReused` says that there is no way back. There is one lemma for each action
that `PubSub` sees, and `SameRules` carries the loop over to the rules by which `PubSub`
delivers. `Refinement` is the case without late joins, in which ids are never given out twice.
The formula `ImplementsUntilReused` itself is in no run: with three connections, which it
takes to give an id out twice, the step relation of `PubSub` is too slow to check on the graph of
`slowmq_registry`. With one pattern and one publication there TLC finds it true.
`NobodyWaitsForNothing`: a task that waits in `gather()` has a send of its own under way
(`AwaitsASend`, inductive with `TypeOK`); the end of the last or the failure of any ends the wait
(`EndWaits`). The liveness of publishers rests on it.

**TaskCommand.** `TypeCorrect` needs `CountInv`: the number of replaced sets is
the number of stops that are done, which bounds the index `cur`.
`ReentrantAlwaysKnown` holds for overlapping commands: `PurgeInv` says that what
the purges of all handlers have in their lists or are joining has ended, so that removing it
takes no running thread out of the set. It holds up to the first stop, and
`StepNoStopYet` says that there is no way back.
`RunningKnownWhenOrderly`, `OnePlainCommandWhenOrderly` and
`NothingCrashesWhenOrderly` follow from one invariant, `SerialInv`, that holds
while the use is orderly: one call at a time (`OneAtATime`), every started
thread is recorded or has ended (`RecordedStarted`), and the local variables of the
handler (`HandlerInv`) and of the stop (`StopperInv`) agree with the shared state.
`StepDisorder` says that a disorderly use stays so.
`CommandsJoinTheEnded` holds in any use: a thread that was looked at and had ended stays
ended until it is joined, since a thread in the module's books has begun and so does not
begin again (`JoinInv`). It is why `EveryCommandAnswered` needs no assumption on the functions.

**MeshRPC.** `TypeCorrect` and `QueuesExactAlways`: the type of a reply depends on
the queue being there when the call looks into it, so the two are proved together
as `TypeOK /\ QueuesInv`, where `QueuesInv` adds that the ids given out by a mesh differ
and are at most `rpc_count` (`IdsDistinct`). `OwnRepliesAlways`: every request, every
execution, every answer on its way and every entry of a queue belongs to the
call whose id it carries (`Addressed`); since ids are not used again, what is found in
a queue is an answer to the call that registered it, however late it is.
`Refinement`: `MeshRPC` implements `RPC`. In addition to the above it needs
`SingleInv`: a request on its way is for a mesh that has not executed the call, and each
execution that is over has at most one answer, on its way or in a queue or
received. `StepRefines` has one lemma for each action that is seen in `RPC`.
`NoCallIsOrphaned`: an open call that a function made has that function, of that call, running
on its mesh; it needs that a function ends only after its calls and that a cancellation ends both
(`StepOrphans`). `StoppedStaysQuiet`: `StopInv` says which of the two tasks a stop has seen
to the end at each of its points, so that when it is over neither runs.

**UserModule.** `TypeCorrect` is inductive with `FuncsInv`, which says that the
callbacks in use are those of a script. `OrderlyAlways`: `OrderlyInv` is, while the use is
orderly, the conjunction of `OneHandler` (one call is under way), `ThreadsInv` (a thread
that is alive is the recorded one, and the loops and callbacks that are found are its own),
`HandlersInv` (what each handler has in its local variables agrees with that, from the check for a thread
to the join) and `RequestedInv` (a thread that was told to stop has been halted where
it must be). `ThreadEffects` collects what any step of a thread changes, so that the eight
actions of threads share one argument. `StopFinalAlways` needs two reasons: in an orderly use
`OrderlyInv`, and otherwise `OnceInv`, which says that before the second start nobody can
clear the event after a stop has set it. `HandlersWaitForWhatComes`: a coroutine is posted only to a
loop that is there, since whoever keeps the main event loop is alone with it and finds the thread that
its check has found (`WaitInv`); a join is of a thread that was told to; and `OnceInv` once more.

The parts, of the client library first:

**Ramping.** `RampEnds`: the device ends at the last target, when that was not stopped, because there is always somebody
who sees to it (`RampInv`): a call that is about to start or to go on with the ramp, one
that has the target in its hands, or the device is there and nobody is about to write
anything else. On a plain device one call at most is between a reading and a writing
(`OneOnLoop`), which is what makes the others see the target it leaves; a call that has
begun has set a target (`TargetInv`).

**Tasklet.** `ScheduleIsKept` is an action property: a scheduled minute passes unserved only while
the task is behind, and none is served twice. `NextInv`: what the task sleeps for is the next minute of
its list, counted around midnight (`Ahead`), but for the one that is now and served; `ServedInv` is
about lists of one minute, whose next is the same minute a day later.

**NodeThread.** `ThreadAlwaysKnown` and `StopRequestsStand`: what each call of `start()` and `stop()`
has read of the node agrees with the thread that lives (`CallsOK`), as long as one call at a
time is inside (`OneCall`); so neither event is cleared between the request and the look of the
loop, but by the load of another task.

**HdlClock.** `HdlCycle`: `RegisterInv` says what each phase of a cycle leaves in the
registers (a process has set what its neighbour had when the inputs were latched, or has
not run yet), `ButtonInv` what the button shows of a press before and after it is read. Only
registers below `Depth` are read by others, for any `Depth`.

**RabbitRPC.** `RabbitReplies`: `HeldInv` says that a call has at most one reply in its hands, and only
before it has looked at the correlation id. That the queue has a first element (`FirstOfQueue`) is the
well-foundedness of the naturals.

**BrokerClient.** `BrokerSubscribedHears`: for each kind of broker, a client that takes itself to be
connected and subscribed, over a connection that is one, hears, unless a subscription was
refused. `SubscriberInv` adds that a client of Redis that has made its subscription stays connected
in its own eyes, as its library connects again without it. `StrandedOnlyByLoss`: no step of a client of
RabbitMQ leaves it with a dead connection that nobody will close, but the loss of that connection.

**Trend.** `TrendShows`: `FillsInv` says that, of fills in order, each slot of the ring has
the count of the newest tick that falls in it. Two ticks that are less than a ring apart are
in different slots (`OtherSlot`), so that the bins a fill clears on its way are no bins that
are shown.

And of the server:

**CurrentData.** `CurrentDataSet`: `OwnInv` says that what a task emits of its own variables has
nothing but these left to set, and so sets nothing; `MessageInv` that an emission of others that
still has a variable to set brings the value that was emitted for it last; `ValueInv`
that a variable that nobody is setting has that value.

**TaskStatus.** `TaskChangesShown`: the clock is ahead of every revision and change that was
noted (`TimeInv`), so that a later one is newer; a module that no thread is about to touch has
been touched since its last change (`TouchedInv`); what the only browser shows is what the polls
returned last (`AloneInv`).

**DataAnswer.** `AnswerAlwaysCurrent`: the response at each place of the list, once what comes
after it is merged in, is in a form that is known from what the components answered
(`Stage`): a series that begins with all that is stored (`Extends`), whose last point is as new as what was merged in, or
whose stored part ends with an empty bucket that is. There is one lemma for each merge: contents, the mesh and user modules, the tasks.

**Resample.** `BucketsCover`: for any length, interval and end the buckets cover the window, each
time in it is in exactly one bucket, and later times are in later buckets. `ResampleKeeps`: a
series stays in the order of time (`ResampleInv`), so that what is fetched is the window and at most the
point before it (`FetchedIs`), and that goes in front unchanged unless it is in the first bucket (`PriorIsKept`); each bucket has the places of the points of
its interval of time (`BucketIs`), and `reduce()` says of them what its name promises
(`ReduceSays`), of the least and greatest because a finite set of places has one (`LargestOf`). A sum
is the fold over these places in both: that each point is counted once is what is proved of it.

**Console.** `NothingLostInConsole`: a text printed at a quiet time is in the outputs or in the buffer
before the position, once and in the order of printing (`PrintedInv`), which needs that a
drain cuts nothing that it has not read but what came during it (`DrainInv`); no
command is skipped, as what is before the position that a POST goes back to has been read
(`PostInv`); and what came for a client since it waits has its own notification,
which a drain does not use up for another (`WaitInv`).

**All parts.** `PartsTypeCorrect`, `PartsKeepPromises` and `PartsKeepSchedule` say the same of `MCParts!Spec`,
which is what the run checks: each of its steps is a step or a stutter of each part, and what
the parts promise together is the conjunction of their invariants.

**Model-checked only.** Liveness, as fairness and ENABLED are out of the prover's reach:
`PublisherGoesOn`, `DeadPeerForgotten`, `OthersServed`, `CommandsAndStopsEnd`, `UseEnds`, `CallsAndFunctionsEnd`,
`StopEndsOnRequest`, `PollersWoken`, `SubscribersHeal`, `LoopsEnd`. The safety that their arguments rest
on is proved, and stands as a conjunct in the properties: `AwaitsASend` (`PublisherGoesOn`),
`JoinsTheEnded` (`CommandsAndStopsEnd`), `WaitsForWhatComes` and `EventStaysSet` (`UseEnds`),
`NoOrphans` (`CallsAndFunctionsEnd`), `StoppedIsQuiet` (`StopEndsOnRequest`), `SubscribedHears`
and `StrandedByLoss` (`SubscribersHeal`), `KnownThread` and `RequestsStand` (`LoopsEnd`); that of `PollersWoken` is
`NotificationPending`, which is one of `ConsoleLosesNothing`. Every other invariant and action property
of a passing run has its theorem.

## 7. Where the code and what is said of it disagree

Six runs of the kind "violation", each with its finding in `PROJECT.json`:
the reuse of broker ids (`sd_slowmq.py:61`), the stale check of the running command
(`sd_taskmodule.py:182`), the cleared stop event (`sd_usermodule.py:323`), the
blocking wait for an async `_halt()` (`sd_usermodule.py:358`), the cancellation that
a user function swallows (`mesh.py:409`), and the current data of tasks, which are
only merged into the answer of a data source and are not answered without one
(`sd_taskmodule.py:516`).

Seen while modelling, without a run of their own:

- An awaited command runs beside plain ones, as it is not recorded;
  `docs/ControlsScript.md:577` says otherwise.
- A `stop()` that has waited a second for the module to be initialized raises AttributeError when another has
  ended meanwhile (`sd_taskmodule.py:115`; `StopWaited`).
- A `stop()` whose join times out forgets the running command
  (`sd_taskmodule.py:129`), so that the next plain command is accepted beside it.
  `RunningIsKnownIfOrderly` excludes the case by `orderly`.
- Two overlapping purges remove the same thread: the second raises `KeyError`
  and its command is not run (`sd_taskmodule.py:186`).
- After `stop()` a command to a user module raises `AttributeError`, as
  `user_thread` is None while the callbacks remain (`sd_usermodule.py:460`).
- Two `start()`s of a user module that overlap at an `await` each make a thread, and the second assignment forgets
  the first (`sd_usermodule.py:324`); a `start()` during the join of a `stop()` has its thread forgotten when that returns
  (`sd_usermodule.py:373`). `OrderlyUse` excludes both by `orderly`.
- A stop during a slow load finds no `_halt()` yet, or that of the script loaded before, and the thread may then enter a
  `_run()` that nobody will halt (`Unhalted` in `UserModule`).
- `aio_start()` calls `aio_stop()` first, as if it could start again, but makes tasks
  of the coroutine objects of the first start, which have been awaited: RuntimeError
  (`mesh.py:150`). The model starts a mesh once.
- A call that times out returns None, which `aio_call()` takes for a dictionary:
  AttributeError (`mesh.py:187`).
- A message that raises in a handler or in a callback ends it for good (`mesh.py:340`,
  `:366`, `:385`). `HandlerFails`, `ReplyFails` and `ListenerFails` are in the model: calls still end, unanswered.
- A call that is cancelled leaves its queue in the table (`mesh.py:225`): `QueuesExact`
  says so.
- Loading any task clears the stop event that all tasks share (`sd_taskmodule.py:53`): a
  task that is being stopped goes on. `LoopsEnd` says so.
- A routine that ends is noticed by one poll only: when two browsers wait, the answer to one
  takes the news away from the other; and a change in the second of the revision that a
  browser has is not newer (`sd_taskmodule.py:570`, `sd_usermodule.py:399`). A command that ends by itself
  touches nothing, and the polls compare `is_running()` only.
- What a thread prints between the reading and the cutting of the buffer is lost
  (`sd_console.py:112`); `ConsoleLosesNothing` is about what is printed outside of a drain.
- An MQTT subscriber alone does not open its connection again, though a comment says that
  this "will cause retries" (`control_AsyncMQTT.py:124`): it needs a publisher beside it.
- A client of RabbitMQ whose connection is lost after `connect()` and before its queue is declared keeps the dead
  connection: `channel()` or the declaration fails, returns, and is not preceded by another `connect()`
  (`control_AsyncRabbitMQ.py:78`, `:102`), though the comments say "error, retry later" (`:189`, `:420`); and a publisher without
  an exchange returns before it can fail and close the connection (`:230`), which "will initiate reconnect-loop" (`:299`).
  `SubscribersHeal` excuses exactly this as `Stranded`.
- A web socket of SlowMQ whose request is answered by what is no JSON is taken to be subscribed
  (`control_AsyncSlowMQ.py:235`).
- An empty bucket at the end of a resampled series has a time but no value, and the mergers compare times: a cached or current
  value that is not newer than the middle of that bucket is not shown (`sd_mesh.py:213`, `sd_taskmodule.py:505`), though the docstrings
  say that the last data point is what it is compared with (`sd_mesh.py:169`, `sd_taskmodule.py:484`). `AnswerIsCurrent` names
  the case as `HidesNewer`.
- `resample()` puts all earlier points of what it is given in front, with either value of `prior_data`, where its docstring
  says "use prior if empty" and "always include one prior point" (`sd_datasource.py:51`, `:163`). The table stores, which
  call it, see to that before: they fetch one earlier point at most (`Fetched`), and `PriorKept` is of the two together.
  A prior point that lies in the first bucket, which may begin before the window, is counted in it.
- The buckets that an SQL server makes are not those of `resample()`: by FLOOR of the distance to the end, a point at the bound of two
  buckets goes to the earlier one, and one at the very start is in none (`sd_datasource_SQL.py:366`). Read, not checked.
- Two calls through RabbitMQ may hand each other's replies back without a pause
  (`control_AsyncRabbitMQ.py:467`); none is lost.
- A press of a oneshot node during a read may be restored without having been read, or
  leave the node at its value for good; `CycleIsAtOnce` excludes it by `hdMixed`. `aio_set()` of that node uses
  `self.node`, which it does not have (`node.py:787`).
- Ramps on a device whose reads and writes suspend may end on the way
  (`node.py:649`): a call that has reached the target stops the others.
- The list of contents waits for each Python script it finds; a file that is deleted
  meanwhile has no meta data any more: AttributeError, and no list (`sd_config.py:145`).

## 8. What is not modelled, and why

- Device drivers (`control_*.py` of instruments), data source plug-ins, data stores,
  plotting, exports, blobs and user HTML are sequential transfers between libraries, files
  and sockets, whose behaviour is in the databases and instruments; there is no state
  of their own whose order of steps could be wrong. The examples and applications are
  configurations of instruments, and the browser application is views of what the
  Web-API answers. These are most of the lines of the repository, which is why the definitions stand
  for a small share of them.
- Layers over the client libraries: `BrokerClient` has their connection and subscription;
  the libraries, the messages' formats and what Redis stores are external. A `publish()` that fails though
  the connection is one (an exchange deleted on the broker), which closes and makes all again, is left out, and so is in
  `RabbitRPC` the cancellation of a call in the middle of handing a reply back.
- Of the data sources: the SQL server's resampling, envelopes and the dispatch.
- Of the broker: client names and message bodies. Of a task module: the parsing of
  the command string and of its arguments (a request stands for one that
  parses), exported nodes. Of a user module: the routes of the
  component, dynamic contents, a script's own Web-API; `get_channels()` and
  `get_data()` take the path of `process_command()`.
- Of the mesh: callbacks of `on()` and a second `aio_start()`, which raises. Of tasklets: the `dash`
  client, intervals and delays. Of the Web framework: paths, arguments, middleware and
  the two server adapters. Of the control system: imports and node paths. Of the histograms and graphs:
  all, as they add into a list. Of trends: sums of values, which go beside the counts.
- The in-process broker, and the configuration files, which section 9 plans.
- Time: a timeout may come at any moment at which the code waits with one.

## 9. The plan

Done: the four large modules with their abstract specifications (`PubSub`, `RPC`), the twelve parts,
and proofs of the safety of all of them, that which the liveness properties rest on included.

Left, in this order:

1. `SlowMQ` composed with its client: what a connected publisher sends is what the broker
   receives, in order, over reconnections; a message in place of a reply.
2. The in-process broker (`control_AsyncLocalPubsub.py`) as a second implementation of
   `PubSub`; the callbacks of `on()` over it.
3. Configuration files: listing, reading and replacing one while a browser edits it.
