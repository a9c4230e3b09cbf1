# Formal models of magic-market-data-rs

TLA+ specifications of the stateful, concurrent parts of this workspace, the TLC
configurations that check them on small instances, and proofs, checked by TLAPS,
of what must hold for every value of the parameters. Line numbers are those of
the files under `src/crates`; `PROJECT.json` maps every definition to them.

## 1. The system

The workspace fetches Chinese market data from many providers, turns it into typed
contracts and serves it through a Rust API and a versioned gRPC service. On
Windows an *agent* process watches a local TDX terminal and streams what it sees
to the gRPC server, which relays it to subscribers. Most of the code is one-shot
I/O and data validation. State that outlives a call, and that several tasks or
threads share, is in few places:

| Component | State | Operations | Talks to | What is hard |
|---|---|---|---|---|
| **Event hub** (`magic-market-grpc-server/src/events.rs`) | under one mutex: terminal generation, latest sequence, replay buffer and its bytes, the single agent session, desired and applied watchlist, local sequence, telemetry; beside it a bounded broadcast channel | `connect_agent`, `publish`, `heartbeat`, `set_watchlist`, `disconnect_agent`, `publish_local`, `subscribe_from`, `replay_after`, `poll_next`, the `open_stream` task | agent (commands, events), subscribers, query path (`publish_local`) | what is sent after the mutex is released; sessions that overlap; eviction; lagging receivers; silent agents; errors between two steps |
| **Agent client** (`magic-market-tdx-agent/src/client.rs`, `main.rs`) | pending chunk and its position, acknowledged cursor, applied watchlist | session, forward, absorb a command, reconnect | event hub, monitor process | lost Acks, reconnects before the server has cleaned up, commands out of order |
| **Agent monitor** (`monitor.rs`, `config.rs`) | child process, its generation | start, read a line, stop | agent client | process exits, back-pressure |
| **Query path and HQ health** (`app.rs`) | permits, connected/degraded flags | `query_inner`, `note_hq_served`, `note_hq_connect_failure` | service, event hub | deadlines that abandon a blocking worker; two facts published in the wrong order |
| **Monitor service** (`magic-market-monitor-server/src/runtime.rs`, `output.rs`) | phase, identity of the candidate, snapshot worker, output queue | step, poll candidate, recheck identity, accept a snapshot, write | local terminal, reader of its output | answers that arrive in another phase, slow readers |
| **Anomaly rules** (`magic-market-monitor/src/price.rs`, `turnover.rs`, `replay.rs`) | per rule: warm-up, open episode, hysteresis, cooldown | one observation, session change, gap | monitor service | sequences of observations nobody wrote down |
| **Service facade** (`magic-market-service/src/lib.rs`) | races and routes in flight | realtime quote race, limit-pool route | providers | first answer against a late one |
| **Router** (`magic-market-router/src/router.rs`) | attempts of one request | ordered fallback | providers | which failures may fall back |
| **Request gate** (`magic-market-transport/src/gate.rs`) | time of the next slot | reserve | all HTTP providers | racing reservations |
| **TDX pool** (`magic-tdx-rs/src/net/pool.rs`) | idle transports, `active`, `total`, generation token | borrow, return, discard, push, close_all | TDX client and its heartbeat | accounting across a release of the mutex, `close_all` while guards are out |
| **TDX client** (`magic-tdx-rs/src/net/client.rs`) | `connected`, `last_server`, heartbeat worker, handle | request with retries, connect, disconnect, heartbeat | pool, servers | flag, pool and last server change in separate steps of several threads |
| **Other TDX clients** (`smart_client.rs`, `async_client.rs`, `direct_client.rs`, ...) | server ranking, connections | as above | TDX client | fallback between clients |
| **Local terminal supervisor** (`magic-tdx-local-rs`) | child process, admission | start, probe, stop | bridge DLL | process life cycle |
| Wire formats, core types, analysis, HTTP providers, composition, auth, configuration | none beyond a call | parse, validate, fetch | | data, not behaviour |

What makes each correct, component by component:

- *event hub*: the agent's events reach the channel in order, once, and none is
  dropped silently; a replay that is accepted is complete; one agent at a time,
  and its session is always given back; the agent always learns the watchlist
  that is wanted from it;
- *agent client*: every event is delivered once and in order, whatever the
  connection does; only contradictions, not delays, are fatal;
- *query path*: permits are returned with the work that held them; the channel's
  health agrees with its streak of failures;
- *monitor service*: nothing observed in one generation is analysed in another, a
  lost generation is not resumed, output is complete or the process fails;
- *rules*: an alarm compares the ends of one unbroken window; trigger and re-arm
  alternate, and resets cannot make alarms more frequent;
- *facade, router, gate*: exactly one answer, evidence of every attempt, requests
  never closer than the interval;
- *TDX pool and client*: counters are exact, closed or failed connections are
  never used again, a retry leaves the endpoint that failed, every call ends.

## 2. Modules

| Module | Models | Uses |
|---|---|---|
| `EventHub` | the event hub, the `open_stream` task, receivers | `AgentProtocol` |
| `EventHub_proofs` | types, sessions, replay window and replay | `EventHub` |
| `EventHubLanes_proofs` | the lanes of the broadcast channel | `EventHub_proofs` |
| `EventHubReaders_proofs` | what subscribers are given, agents told and acknowledged, and what is counted | `EventHubLanes_proofs` |
| `AgentProtocol` | the messages of an `OpenStream` call | |
| `TdxAgent` | the agent: session, kept frame, configurations, restarts of the monitor | `AgentProtocol` |
| `FrameDelivery` | abstract: what agent and hub together promise about frames | |
| `AgentHub` | agent and hub over a network that fails, with a server that restarts | `EventHub`, `TdxAgent`, `FrameDelivery` |
| `AgentHub_proofs` | its invariants; agent and hub implement `FrameDelivery` | `AgentHub`, `EventHub_proofs` |
| `TdxPool` | the connection pool, used in any order | |
| `TdxClient` | the blocking client and its heartbeat, composed with the pool | `TdxPool` |
| `TdxClient_proofs` | the invariants of pool and client; the client implements the pool's specification | `TdxClient` |
| `QuoteRace` | the realtime quote race and its detached threads | |
| `QueryPath` | `query_inner` and the health of the TDX channel, composed with the race | `QuoteRace` |
| `QueryPath_proofs` | both invariants; the query path implements the race's specification | `QueryPath` |
| `TdxMonitor` | the monitor process: scheduler, snapshot worker, writer | |
| `TdxMonitor_proofs` | its invariant | `TdxMonitor` |
| `AlarmEpisode` | abstract: what the receiver of alarms is promised | |
| `AnomalyRule` | the anomaly monitors | `AlarmEpisode` |
| `AnomalyRule_proofs` | its invariant; the rules implement `AlarmEpisode` | `AnomalyRule` |
| `MCEventHub`, `MCAgentHub`, `MCTdxClient`, `MCQueryPath`, `MCTdxMonitor`, `MCAnomalyRule` | instances for TLC | |

### EventHub

The variables up to `telemetry` are `HubState` (events.rs:38-56). `stream[s]` is
one call of `open_stream`: `greeting` and `configuring` lie between
`connect_agent` and the spawn of the session task (events.rs:957-973), `serving`
is its receive loop, `broadcasting` the moment between the release of the mutex in
`publish` and `live.send`, `closing` the way to `disconnect_agent`; `failed` is a
handler that returned an error before it spawned the task. `sent` is what the
broadcast channel carried; a receiver is a position in it, and
it has lagged when that position is older than the channel's capacity.

One critical section is one action. Work after the mutex is an action of its own
(`Broadcast`, `BroadcastLocal`, `SendHelloAck`, `SendConfiguration`,
`DisconnectAgent`), which is what makes the interleavings visible. The agent is
an environment: it may send any event or heartbeat, read its commands or not,
fall silent, or hang up.

Abstractions. Watchlists are model values; an envelope is its cursor and its
size; filters, payload validation and encodings are left out. The generation of
the local lane is 0. Those of agents are labels, for which numbers stand: like the code
(events.rs:217) the hub only compares them for equality, and a hello may name any of them,
one the hub has held before included. `since` is history: what the channel had carried when
the hub took up the generation it holds.
The Ack of a hello carries the cursor of the connection, which nothing can move
before it is sent. A heartbeat's critical section and the Ack that answers it are
one action: the Ack does not depend on anything another task can change in
between except the room in the queue, which only the hub's own sends fill. tokio
rounds a channel's capacity up to a power of two; `QueueCapacity` is the rounded
one. A replay without a cursor is accepted with whatever is retained (events.rs:518);
`ReplayComplete` is about replays with one.

### AgentProtocol, TdxAgent and AgentHub

`TdxAgent` is what `client.rs` does between two awaits: `pc` names the await
(`calling` the hello's Ack, `ready` the select, `event` and `beat` their Acks),
`pending` is the frame the agent keeps until the server has accepted it, `config`
a configuration absorbed while it waited. A frame is its number in the order the
monitor wrote them. `TakeFirstOfGeneration` is client.rs:176-181 and 250-253:
the frame of another monitor generation is kept over the change of label. The code takes
any label but the one it has, so the model takes any label of the process: the next one,
or an earlier one, which `TdxMonitor` shows the monitor can report (finding 4).
`RestartMonitor`, and a configuration, replace the process and lose what it had
not sent.

`AgentHub` gives the agent's and the hub's operations the same message: a call
carries at most one message of the agent the hub has not read (`uplink`; the
agent awaits an Ack before the next), and the hub's own queue of commands towards
the agent. The agent's end of a call is over when its connection is (`Ended`): a server that
is merely silent keeps `commands.message()` waiting for ever (client.rs:261-264 has no timeout), and
only the next heartbeat, whose Ack is awaited with one, notices it. Either end may lose the connection first: what was sent may then be
read or lost (`MessageLost`, `leftover`). `ServerRestarts` resets every hub
variable, as nothing is persisted. `log` is the history of the frames published
to the hub that runs now, `lapses` of how the hub came to forget its cursor.

The hub's actions are those of `EventHub`, word for word; only their inputs are
no longer arbitrary. A hello that was under way when the agent dropped its call may be
read after that of a later call, and takes the hub back to its generation; `HubConnects`
records the lapse.

Frames are all of size 1, and `Sizes` contains it (`UnitSize`): a frame the replay budget
has no room for is refused and the agent told to stop, which `EventHub` models.

### QuoteRace and QueryPath

`race[w]` is the stack of `execute_realtime_quote_race` run by worker `w`,
`thread[w][c]` the detached thread it created for a candidate, `gate[c]` the
compare-exchange flag of `RealtimeQuotePermit`. A thread outlives its race:
what it sends then is received by nobody. Claiming the gate and creating the
thread are two actions, as are the release of the permit and the send.

`QueryPath` adds the call (its unary permit), the worker (its blocking permit)
and `HqHealth`. `Deadline` and `Cancel` end a call whose worker goes on.
`call[w].stage = "degraded"` and `"recovered"` lie between the release of the health
mutex and the end of `publish_local`. The instant of the last degraded notice is
`cooling`. A worker's result is one of three outcomes: answered by TDX, a
connect failure of TDX, anything else.

### TdxMonitor

`monitor.pc` is the place of the scheduler in one cycle (`drain` the snapshot
result, `act`) or in its shutdown; `life`, `candidate`, `retry`, `gen`, `cycles`
and `failures` are fields of `Runtime`. `snapshot` is the worker and its channel
of one result, `windows` the generations of the samples in the analysers,
`outbox` what a step still has to emit, `queue` the bounded channel to the
writer. A terminal is an identity; that of a terminal that is gone never returns.
`past` is history: the last generation that ran and was lost, whether a new one is due,
and how many frames were emitted and are not written yet. The clock is read when the quotes
of a cycle arrive and once more before a snapshot is asked for (runtime.rs:859, 1007): either reading
may be that of a new session, which empties the windows.
Emitting blocks a step, not the model: `Emit` fails the process when the queue is full,
as `try_send` does.

### AnomalyRule

`rule[i]` is `InstrumentState` (price.rs:785-791) or its copy `DeltaState`
(turnover.rs), `known` the keys of the map. `process` is split into the ways
through it, in the order of its tests: each disjunct of `Process` is one. The
window is a set of observations because arrivals in it strictly increase.
`Pruned` says what `prune_for` keeps: an observation is dropped when one younger
than it is still old enough. A price is compared by its ratio (multiplied
out), a total by its difference. An overflow of the ratio is `MaxRatio`.

`now`, `seen` and `alarm` are history: the latest arrival, an instrument's arrivals
since its window was empty, and its last alarm. They are how the properties can say what
the code's own fields have forgotten, since a reset clears them.

The monitor process feeds arrivals that grow (runtime.rs:999-1006 bumps equal readings by
a millisecond), as lib.rs asks of callers. After a reset the rule itself would take
an arrival that goes back.

### TdxPool and TdxClient

`idle`, `active` and `total` are `PoolInner`. The generation token is compared
with `Arc::ptr_eq` only, and a transport keeps its token alive, so a token never
comes back: instead of tokens the model records, per transport, whether its token
is still the pool's (`current`). `lent` and `conn` describe the guard or the
reservation each thread has. `TdxPool` allows its operations in any order;
`TdxClient` uses each of them inside the step of a thread that calls it.

`thread[t].pc` is the point of a call where another thread can come between:
reading `last_server`, cloning the pool handle, borrowing, opening, using,
discarding, clearing `connected`, remembering the failed server, rotating,
`close_all` and `push` with the handle locked, setting `connected`, setting
`last_server`, the heartbeat's life-cycle mutex, the join. `heart` is the
heartbeat thread; it uses the pool directly, without the handle's mutex.

Abstractions. Which servers are eligible (custom list, primary list, blacklist)
is abstracted to the choice of any candidate the code does not exclude, or of
none. `is_open` may answer anything. A dial that fails changes nothing, so only
the one that succeeds is an action. Rate limiting, caches and the isolated mode
of the test support are left out. A thread calls again after its call has ended.

`failedOn` is the one history variable: the endpoints the current request of a
thread has failed on. Model state that is not read again (`target`, a finished
thread's variables, queue and client of a closed stream) is reset, which only
merges equal states.

## 3. Runs

| Run | Bounds | Shows |
|---|---|---|
| `sessions` | 2 streams, 2 generations, 3 events each, sizes 1, 2 and 4 (one fits no budget), buffer of 2 events and 3 bytes, 2 watchlists, 1 replacement, queue of 3 commands | types; the replay window is exact under both kinds of eviction; an accepted replay is complete; streams are exclusive; the desired watchlist is always on its way; the session always has an owner; a silent agent expires |
| `live` | 3 streams, 2 generations, 2 events each, 2 local publishers and 2 local events, 1 subscriber, channel of 2, queue of 2, 4 broadcasts | agent lane in order, stretch by stretch; all but the event in flight is broadcast; Acks never precede the broadcast; no silent gap; local numbers unique; telemetry balances |
| `leak` | queue of 1 command | finding 1 |
| `agent` | 4 streams (`FewCalls`), 3 generations of 2 frames, 2 revisions, 1 restart of the server | agent and hub implement `FrameDelivery`; their cursors contradict each other only after the hub forgot its own (a restart, an overtaken hello), their watchlists never; no configuration is lost; a dead server is noticed |
| `occupied` | the same, 2 streams | finding 3 |
| `pool` | 2 threads and the heartbeat, 2 servers, pool of 1, 2 attempts | types and attempts; exact counters; nothing closed or failed is lent again; idle queue bounded; no deadlock |
| `ends` | the same with 1 server | every call ends |
| `rotate` | pool of 2 | finding 2 |
| `query` | 3 calls on 3 unary and 2 blocking permits, 2 candidates, threshold 2 | gates and permits are held by exactly the work under way; no answer of a race is lost; a race fails only when all have been heard of; health agrees with its streak; no deadlock |
| `monitor` | 2 terminals, 3 generations, recheck after 2 cycles, budget of 2 restarts, queue of 3 | windows of one generation; a lost generation is not resumed; a new one is justified; a clean exit has written every frame emitted; a stop ends |
| `regress` | the same | finding 4 |
| `rules` | 2 instruments and a limit of 1, window 4, tolerance 1, cooldown 5, capacity 4, values 1 to 3, arrivals up to 11 apart by at most 2, both families | capacity and limits; what an alarm compares; overflow means dense sampling; alarms are episodes |

Why the bounds are enough. Two streams are needed for a session and its
successor, a third (`live`) for a generation that is left and taken up again, and two
generations for a reset with events retained and in flight;
three events overflow a buffer of two by count, and sizes 1 and 2 with three
bytes overflow it by bytes with one and with two evictions; a channel of two is
overrun by three messages, and four (`MaxBroadcasts`) hold a stretch of one
generation, one of another and one of the first again. `MaxGeneration`, `MaxSequence`, `MaxRevision` and
`MaxLocal` only bound counters; at the end of them the hub's
model stops, which is why its runs do not check deadlock. In `live`,
one generation holds an event of size 2 no buffer of one byte accepts, so that
refusals, and holes in the local lane, occur. For the client, two threads and the
heartbeat meet in every pair, a pool of one is full as soon as one of them
holds a guard, and two attempts are a first one and a retry. Its runs check
deadlock. `ends` has one server because temporal checking of two is too large:
there a retry finds no other server, while connect, heartbeat and disconnect
still contend for both locks. `IdleBounded` was also checked with a pool of two.

For agent and hub, two calls are one that fails and its successor; they are explored in
full. `FewCalls` admits a third and a fourth for an agent that goes over to another
generation of the same monitor and on the fourth is back in one of before, without
restarts, configurations and silence. Then a label is taken again, and a hello is overtaken by that
of a later generation. Three generations are the first, one begun by the monitor and one by a
configuration; two revisions are needed for a pending configuration that a newer one overtakes.
For the query path, a third call finds both blocking workers taken, and two
candidates are one that is busy and one that is not; the threshold of 2 is crossed
and reset. For the monitor, the budget of 2 is below `MaxFailures`, where the code's
counter saturates: that case is only proved. With window 4 and steps of 1 the capacity of
4 overflows, with steps of 2 it does not; arrivals up to 11 leave room for a
second alarm both after the cooldown of 5 and after a reset and a new warm-up of 4, so that
both terms of `Spacing` matter.

Symmetry (interchangeable streams, publishers, threads, calls, watchlists) is used
in the safety runs `live`, `pool` and `query`, never in a run with a temporal property.

### Fairness

The hub: the runtime runs every ready task, so handler, task and broadcast steps
are weakly fair; so is the deadline of a stream whose agent no longer sends.
Nothing is assumed of agents and subscribers, who may stop at any point.

The client: a thread's own steps are weakly fair because operating-system threads
are scheduled and every socket operation has a timeout. Acquiring a mutex is
strongly fair: a mutex another thread takes again and again is free infinitely
often, and its waiters are eventually served. `HeartStep` is weakly fair: the
heartbeat's wait is bounded and is cut short when it is told to stop.

Agent and hub: heartbeats tick (`AgentSends`), and an Ack is awaited no longer than
`command_timeout` (client.rs:699-715). The stage `calling` is left out, because
`open_stream` is awaited without a deadline (client.rs:205-222). Nothing is assumed
of the network or the server.

The monitor: the scheduler's thread runs, and a snapshot request times out. Nothing
is assumed of the terminal or of the reader of the output. The query path and the
rules have safety properties only and assume nothing.

### Mutants

Every property of a passing run has a mutation of the modelled code that
violates it (`PROJECT.json`): an eviction bound dropped, a deadline removed, a
counter reset by `close_all`, a returned transport's generation not compared, and
so on. They are kept beside the definitions they mutate, marked `Mutant`.

## 4. Proofs

The assumptions are the named `ASSUME`s of the modules (limits positive, sizes
positive, special values distinct, finitely many users); no bound on the number of
streams, publishers, subscribers, threads, servers, calls, candidates, terminals or
instruments is used.

**Event hub.** `TypeOK` is not inductive alone: the byte counter is a natural
only because it equals the bytes of the retained envelopes, and what is broadcast
is an envelope only because a broadcasting task holds one. The invariant
`IInv == TypeOK /\ SessionInv /\ ReplayWindow` closes the circle. `SessionInv`
says that session numbers are not reused, that a call attached to the hub holds the active one and
that a broadcasting task holds the newest event. The eviction loop is the least
number of dropped envelopes after which both bounds hold; that it exists, and is
less than the length of the log, rests on the check that one envelope
fits the byte budget. From `IInv` follow `TypeCorrect`, `WindowCorrect`,
`ReplayCorrect` and `OneAgent`.

**Lanes.** A generation may be held, left and held again, so what the channel carried is
counted from `since`: `LaneIInv` adds that since the hub took up its generation the channel
carried that generation only, exactly `1..latest` of it, or all but the newest while its task is
between mutex and channel (`Upcoming` is the number due next), and that every agent event on it
begins a stretch at 1 or follows the agent event before it. It needs `SessionInv`: a broadcast can be
late, yet no other session, and so no other generation, can begin before its task has
disconnected. From it follow `LaneCorrect` and `BroadcastCorrect`; the corresponding invariant
of the local numbers gives `LocalNumbersCorrect`. Nothing is assumed about the order of labels.

The hub's steps are proved to preserve `IInv` for hellos with any watchlist (`HubNext`):
`EventHub` bounds what its agents report, and the composition below does not need that bound.

**Pool.** `PoolInv == PoolTypeOK /\ Balanced /\ NoStaleIdle` is inductive for any
order of calls: the underflow branches are unreachable because whoever settles is
itself counted (`PoolInvariance`).

**Client.** `ClientInv` adds the local invariant, which says at which points of a call a
thread has a guard, a reservation or a target server, and `FailInv`: a failed transport is
with a thread about to discard it, or with the heartbeat, which either has not
emptied the pool yet or whose guard is then no longer current. So the heartbeat may
return it through the ordinary path (client.rs:763) and it is still closed:
`FailedStaysOut`. Every step of the client is a step of the pool or leaves it
alone (`ClientImplementsPool`), which carries `Balanced` and `NoStaleIdle` over. `RoomInv`
counts what may become idle (idle transports, and lent ones of the pool's generation)
together with the pushes whose `close_all` is done: a thread's, of which the handle admits
one, and the heartbeat's. That sum stays within `MaxSize + 1`, because a reservation is given
only while `total` leaves room and the heartbeat's failed guard is in `total` but not in the
sum; so `IdleBounded` holds of every pool with at least one place (`IdleCorrect`). `PoolConfig`
accepts a size of 0 too, and there the two pushes can exceed the bound.

`LockInv` says at which points of a call the handle and the life-cycle mutex are held, and that
the worker being joined has been told to stop. From it follows that no threads wait in a circle,
however many there are (`NeverCircular`): that is the part of `CallsEnd` about the locks
and the join, without the fairness that `CallsEnd` needs besides.

**Readers.** `ReadersIInv` adds to `LaneIInv`: what a subscriber was given is a
stretch of the channel that begins where it was accepted, at a cursor the next agent event
there follows, names or replaces by a 1 (`ReaderInv`, from which `NoSilentGap` follows because the lane itself has
no gap); a desired watchlist is applied, told or about to be sent, which needs that one is
always desired while an agent is attached (`ToldInv`); an Ack in a queue is of the
stream's own generation and an idle stream's queue is empty (`AckInv`); the counters are the numbers of
what they count, which needs that the sets are finite (`CountInv`).

`SessionHasOwner` is not an invariant: it is finding 1. `OwnerCorrect` says, for every capacity,
that this finding is the only exception: the session belongs to a task that will give it back,
or to a set-up that failed because its queue held as many ever newer replacements as it has room
for, but for one entry. `OwnerInv` says what can be in the queue of a call that is being set
up: at most one Ack or configuration, and replacements in the order of their revisions.

**Query path.** `RaceInv == RaceTypeOK /\ GateExact /\ Accounted /\ NotedPassed` is
inductive for the races by themselves, in an environment that may start one at any
time: `Accounted` is the books of a race, every candidate it passed being noted, at
work or in the channel. Every step of the query path is a step of the races or
leaves them alone (`QueryImplementsRace`). `QInv` adds the permits, counted as
cardinalities, and `Matched`: a worker is in a race if and only if one is under way.

**Monitor.** `MonInv` joins types and `WindowsOfOneGeneration` with `LifeInv` (what a
phase implies about candidate and retry), `SnapshotInv` (a job is of the
generation that runs or of one that is over), `PendingInv` (until something ends it for
good, the last candidate is still monitored or pending) and `ClosingInv` (while the writer
runs, what is emitted and not written is in the queue; nothing is left to emit once the
writer has been told to end). The hard case is a result that arrives late: it reaches the windows only
if its generation runs, and a generation that was lost never does again.

**Rules.** `RuleInv` says of each instrument that its window holds all arrivals since it
was last empty but some older than everything in it (`WindowOK`), that no total in it
exceeds the newest (`LevelOK`), and how far the rule is from its last alarm (`AlarmOK`): an armed
rule is past the spacing, a rule that warms up has only observations younger than the
alarm. The last is why a reset cannot speed up alarms: it forgets the cooldown, but the
edge of the window it warms up is younger than the alarm and at least a window old
when it arms. `EpisodesCorrect` concludes that the rules implement `AlarmEpisode`; `OverflowCorrect`
counts by an injection of what the pruned window keeps into the arrivals.

**Agent and hub.** Every step of `AgentHub` but a restart is a step of the hub or leaves
it alone (`StepOfHub`), so the hub's `IInv` is an invariant of the composition too
(`HubKeepsPromises`) and what relates the two sides is left to prove. `CoreInv` is about
frames and cursors:

- `AgentOK`: the kept frame is the next one after `accepted`, and only a kept frame was tried;
- `NetOK`: the types of network and log, and which queues of a call are empty at which stage;
- `LinkOK`: on the agent's own call, which cursor an Ack can carry and when the hub's cursor
  is the agent's;
- `LateOK`: an event the hub can still accept on a call the agent has dropped is the frame the
  agent keeps, and the next call is not connected yet;
- `CursorOK`: the hub's cursor is the agent's or the kept frame's, and the frames in `log` that
  were published since the agent began the stretch it is in are those up to it, unless the
  hub forgot;
- `TakenOK`: once the agent knows that the hub took up its generation, another one the hub has
  gone over to since is empty.

`LateOK` and the second half of `CursorOK` are why a generation has no gap and no
repetition: an Ack that was lost is made up for by the Ack of the next hello, which cannot
be given before the late event is read or lost, since the old call holds the session until
then. `TakenOK` is why an agent that goes over to another label, an old one included, finds no
cursor of another stretch under it. `FramesAreDelivered` follows action by action: every step of the composition is a
step of `FrameDelivery` or stutters.

`WatchInv` is about watchlists. `ConfigOK` relates every place one can be in (a hello, a
queue, what an ended call left, what the agent runs with or has absorbed, what the hub
desires): equal revisions carry equal lists, no agent knows a revision the hub has not, and
while the hub desires nothing no call of it is attached. `ArriveOK` says of the agent's call that
the desired watchlist is the agent's, in its queue, or the one still to be queued.
`ConfigurationsArrive` follows. So does `NeverContradicts`: each fate of the agent is
the failure of a check, and the two invariants show which checks cannot fail. No bound
on calls, generations, revisions or frames is used, and no fairness.

TLC checked `IInv /\ CoreInv /\ WatchInv` before it was proved: on two calls with the bounds of
`agent` (365,890 states), and on four calls with one frame and no replacement (16.5 million).
The last is why `lapses` exists: it reaches the overtaken hello of section 5, which
refutes the same properties when only a restart excuses the hub.

**Only model-checked.** The liveness properties `SilentAgentExpires`, `CallsEnd`,
`DeadServerNoticed` and `StopEnds`: fairness and `ENABLED` are beyond the prover. Each
invariant, action property and refinement that a passing run checks is also
stated by a theorem.

## 5. Findings

1. `leak` - `open_stream` registers the session and can then return an error
   before the task that would disconnect it exists (events.rs:957-973). With
   `--agent-command-capacity 1` the first agent that must be configured leaves the
   hub unusable for every later one, against the documented expiry.
2. `rotate` - the server remembered as failed is `last_server` after the failure
   (client.rs:884), not the one that failed. A client that was never connected
   retries on the server that has just failed, against BR-029.
3. `occupied` - an agent that reconnects while the hub still holds its old session
   is refused with `already_exists`, which it does not retry (client.rs:705-727): a
   lost connection ends the process, against BR-049.
4. `regress` - a snapshot result of an earlier generation is reported in a frame of
   that generation after frames of the new one (runtime.rs:894-900); the agent
   takes the change for a new generation and uses labels and cursors twice. Each
   frame still arrives once and in order (`agent`, `FramesDelivered`), and each stretch on the
   channel is in order (`AgentLaneInOrder`): it is the pair of label and cursor that no longer
   names one event.

Met while modelling, and not counted as findings because no document decides them:

- local events are numbered under the mutex and broadcast after it
  (events.rs:449-450): two publishers can swap them, and so can a degraded and a
  recovered notice (app.rs:386-418);
- `push` ignores `max_size` (pool.rs:124): `total` can exceed it, the idle queue by
  at most one;
- after a restart of the server the agent's hello contradicts the empty hub and the
  agent exits, as BR-049 says of sequence contradictions;
- a hello whose call was dropped can be read after the agent's next call has come and gone
  under a newer generation. Labels have no order (events.rs:217-223): the hub goes back to the old
  generation and forgets the cursor of the newer one. When it hears of that again, the agent exits
  as after a restart, or, if only the first frame was published and its Ack was lost,
  publishes that frame a second time. It takes four calls. BR-045
  (docs/business_rules.md:660-663) promises an ordered, generation-bound stream and does
  not say what a generation that returns means;
- a configuration pending at the connect can be queued behind a newer one
  (events.rs:967, 284-331); the agent then exits as `stale`;
- while no observation of a batch is valid, the candidate's identity is not
  rechecked (runtime.rs:484);
- a snapshot asked for before a session reset may enter the window of amounts that
  the reset emptied;
- an error of an analyser (a window overflow) ends the monitor process
  (analysis.rs:261-264, 376-379);
- timed-out queries count neither for nor against the health of the channel.

## 6. Not modelled

- *Filters and cursors of consumers* (events.rs:585): what a filter drops and what a
  consumer stores is outside the hub, whose modelled subscribers take every event.
- *Router*: one request tries its candidates on its own stack; no state outlives it.
- *Limit-pool route, admission checks and registration of the service*: sequential,
  or done before serving.
- *Request gate*: two slot times compared with the clock and slept for; its behaviour is
  that of the clock.
- *Other TDX clients*: rankings by measured latency over connections of their own.
  Of `TdxClient`, the choice of eligible servers, rate limiters, caches and isolation.
- *Local terminal supervisor, native bridge*: processes, sockets and a vendor DLL;
  `TdxMonitor` takes their outcomes as choices.
- *Replay log of the rules* (replay.rs): no crate of the workspace uses it.
- *Evidence notices and validation of queries, observability, authentication,
  configuration*: stateless.
- *Wire formats, value types, decimal analysis, composition, HTTP providers*: data
  without protocol state.
- *Liveness of the query path*: a provider may take as long as it likes; nothing in
  the code bounds a detached thread.
