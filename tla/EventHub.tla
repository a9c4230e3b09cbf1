------------------------------ MODULE EventHub ------------------------------
(***************************************************************************)
(* The event hub of the gRPC server (grpc-server/src/events.rs).           *)
(*                                                                         *)
(* One state record behind an async mutex holds the terminal generation,   *)
(* the exact sequence cursor, a replay buffer bounded in events and in     *)
(* bytes, the single agent session and the desired and applied watchlist.  *)
(* Everything published is also sent, AFTER the mutex is released, on a    *)
(* bounded broadcast channel that live subscribers read at their own pace. *)
(*                                                                         *)
(* A critical section of the code is one action here; what the code does   *)
(* outside the mutex (the broadcast, the try_sends on the agent's command  *)
(* queue) is an action of its own, so other tasks interleave with it.      *)
(* A call the hub refuses without changing anything is a stuttering step.  *)
(***************************************************************************)
EXTENDS AgentProtocol, Naturals, Sequences, FiniteSets

CONSTANTS
  Streams,          \* OpenStream calls, one per connection of an agent
  Publishers,       \* server tasks that call publish_local
  Subscribers,      \* Subscribe calls
  Sizes,            \* encoded lengths an event may have
  MaxReplayEvents,  \* --replay-max-events
  MaxReplayBytes,   \* --replay-max-bytes
  MaxSubscribers,   \* --max-subscribers
  QueueCapacity,    \* broadcast channel capacity
  CommandCapacity,  \* --agent-command-capacity
  MaxRevision,      \* bound: watchlist replacements
  MaxLocal          \* bound: server-originated events

\* EventHub::new refuses a zero limit; the byte budget is in encoded bytes.
ASSUME LimitsPositive ==
  /\ MaxReplayEvents \in Nat \ {0} /\ MaxReplayBytes \in Nat \ {0}
  /\ MaxSubscribers \in Nat \ {0}  /\ QueueCapacity \in Nat \ {0}
  /\ CommandCapacity \in Nat \ {0}

ASSUME BoundsNatural ==
  /\ MaxGeneration \in Nat /\ MaxSequence \in Nat
  /\ MaxRevision \in Nat   /\ MaxLocal \in Nat

\* An encoded envelope is never empty.
ASSUME SizesPositive == Sizes \subseteq Nat \ {0}

VARIABLES
  generation,     \* terminal generation, 0 while none was ever reported
  latest,         \* latest_sequence of that generation
  replay,         \* retained envelopes, oldest first
  replayBytes,    \* replay_bytes
  agentSession,   \* the active agent session, 0 for None
  nextSession,    \* next_session
  desired,        \* desired watchlist: [revision, list]
  applied,        \* watchlist the agent's last hello reported
  localSequence,  \* local_sequence
  telemetry,      \* connection, disconnection, publication, eviction counts
  stream,         \* per OpenStream call: where its task is
  client,         \* per OpenStream call: "up", "silent" or "gone"
  commands,       \* per OpenStream call: its bounded command queue
  localPending,   \* per publisher: recorded events not yet broadcast (0 or 1)
  sent,           \* everything the broadcast channel carried, oldest first
  since,          \* history: length of sent when the generation was taken up
  subscriber      \* per Subscribe call: its receiver

state == <<generation, latest, replay, replayBytes, agentSession, nextSession,
           desired, applied, localSequence, telemetry, since>>
vars == <<state, stream, client, commands, localPending, sent, subscriber>>

-----------------------------------------------------------------------------
(* Envelopes and cursors *)

\* Agent generations are labels: numbers stand for them, and nothing of the hub
\* depends on their order. The fixed label "server-internal" of the local lane
\* is 0, like "no generation".
Local == 0
Generations == 1..MaxGeneration

Envelope == [gen : Nat, seq : Nat, size : Sizes]
Cursor == [gen : Nat, seq : Nat]
CursorOf(event) == [gen |-> event.gen, seq |-> event.seq]
NoCursor == [gen |-> 0, seq |-> 0]

\* Stages of one OpenStream call: "greeting" and "configuring" lie between
\* connect_agent and the spawn of the session task; in "broadcasting" the task
\* has published under the mutex and has not sent on the channel yet.
Attached == {"greeting", "configuring", "serving", "broadcasting", "closing"}
Stages == {"idle", "closed", "failed"} \cup Attached

NoEvent == [gen |-> 0, seq |-> 0, size |-> 0]

\* try_send succeeds while the receiver exists and the queue has room.
CanSend(s) == client[s] # "gone" /\ Len(commands[s]) < CommandCapacity

-----------------------------------------------------------------------------
(* The replay buffer *)

\* Bytes held by a log: one cell per encoded byte of each envelope.
Cells(log) == UNION {{log[i].seq} \X (1..log[i].size) : i \in DOMAIN log}
Bytes(log) == Cardinality(Cells(log))

\* Mutant: only the event count is bounded.
FitsCountOnly(log, bytes, dropped) == Len(log) - dropped <= MaxReplayEvents

\* With `dropped` leading envelopes popped the loop condition is false.
Fits(log, bytes, dropped) ==
  /\ Len(log) - dropped <= MaxReplayEvents
  /\ bytes - Bytes(SubSeq(log, 1, dropped)) <= MaxReplayBytes

\* Envelopes the eviction loop pops: it stops as soon as both bounds hold.
Evicted(log, bytes) ==
  CHOOSE k \in 0..Len(log) :
    /\ Fits(log, bytes, k)
    /\ \A j \in 0..(k - 1) : ~ Fits(log, bytes, j)

\* Mutant: a cursor older than the window is not detected.
ReplayAcceptsOld(cursor) ==
  /\ generation # 0
  /\ cursor # NoCursor => cursor.gen = generation /\ cursor.seq <= latest

\* replay_after takes any replay without a cursor, and a cursor that is neither
\* ahead of the stream nor older than the retained window.
ReplayAccepts(cursor) ==
  /\ generation # 0
  /\ cursor # NoCursor => /\ cursor.gen = generation
                         /\ cursor.seq <= latest
                         /\ (replay # <<>> => cursor.seq + 1 >= Head(replay).seq)

\* The retained events it answers with: without a cursor all of them.
ReplayAfter(cursor) == {replay[i].seq : i \in {j \in DOMAIN replay : replay[j].seq > cursor.seq}}
-----------------------------------------------------------------------------
Init ==
  /\ generation = 0 /\ latest = 0 /\ replay = <<>> /\ replayBytes = 0
  /\ agentSession = 0 /\ nextSession = 1
  /\ desired = [revision |-> 0, list |-> NoWatchlist]
  /\ applied = [revision |-> 0, list |-> NoWatchlist]
  /\ localSequence = 0
  /\ telemetry = [connections |-> 0, disconnects |-> 0, published |-> 0, evictions |-> 0]
  /\ stream = [s \in Streams |-> [stage |-> "idle", session |-> 0, gen |-> 0,
                                  config |-> NoConfiguration, told |-> {},
                                  outgoing |-> NoEvent]]
  /\ client = [s \in Streams |-> "up"]
  /\ commands = [s \in Streams |-> <<>>]
  /\ localPending = [p \in Publishers |-> <<>>]
  /\ sent = <<>> /\ since = 0
  /\ subscriber = [c \in Subscribers |-> [stage |-> "none", start |-> 1, next |-> 1,
                                          after |-> NoCursor, delivered |-> <<>>]]

-----------------------------------------------------------------------------
(* OpenStream: the handler up to the spawn of the session task *)

\* Mutant: a second agent stream is not refused.
AnySession == TRUE

\* connect_agent lets one session exist at a time.
SessionFree == agentSession = 0

\* The agent's watchlist may be behind the server's, never ahead of it nor a
\* different list under the same revision; the first agent's list is adopted.
HelloAdmissible(hello) ==
  \/ desired.list = NoWatchlist
  \/ hello.revision < desired.revision
  \/ hello = desired

\* Mutant: a reconnecting agent is not configured.
NeverConfigure(hello, wanted) == NoConfiguration

\* The configuration a hello is answered with, if any.
PendingConfiguration(hello, wanted) == IF hello = wanted THEN NoConfiguration ELSE wanted

\* Mutant: clearing the buffer for a new generation is not counted.
ClearedUncounted(g) == 0

\* Envelopes a hello clears from the replay buffer.
Cleared(g) == IF g = generation THEN 0 ELSE Len(replay)

\* connect_agent. A generation the hub does not hold, new or held before,
\* replaces the old one and empties the replay buffer; the agent is to be
\* configured if it does not apply the desired watchlist. The bound is on
\* generations and on streams.
ConnectAgent(s, g, hello) ==
  /\ stream[s].stage = "idle" /\ client[s] = "up"
  /\ SessionFree
  /\ HelloAdmissible(hello)
  /\ IF g = generation
     THEN UNCHANGED <<generation, latest, replay, replayBytes, since>>
     ELSE /\ generation' = g /\ latest' = 0
          /\ replay' = <<>> /\ replayBytes' = 0
          /\ since' = Len(sent)
  /\ agentSession' = nextSession /\ nextSession' = nextSession + 1
  /\ desired' = IF desired.list = NoWatchlist THEN hello ELSE desired
  /\ applied' = hello
  /\ telemetry' = [telemetry EXCEPT
                     !.connections = @ + 1,
                     !.evictions = @ + Cleared(g)]
  /\ stream' = [stream EXCEPT ![s].stage = "greeting", ![s].session = nextSession,
                              ![s].gen = g,
                              ![s].config = PendingConfiguration(hello, desired')]
  /\ UNCHANGED <<localSequence, client, commands, localPending, sent, subscriber>>

\* The Ack of the hello, with the cursor connect_agent found: nothing moves it
\* before the session's first event. The receiver is still held by the handler, so the
\* queue is not drained yet: if it is full the call returns an error, and no
\* task is left that would disconnect the session.
SendHelloAck(s) ==
  /\ stream[s].stage = "greeting"
  /\ IF Len(commands[s]) < CommandCapacity
     THEN /\ commands' = [commands EXCEPT ![s] = Append(@, Ack(latest))]
          /\ stream' = [stream EXCEPT ![s].stage =
                          IF stream[s].config = NoConfiguration THEN "serving" ELSE "configuring"]
          /\ UNCHANGED client
     ELSE /\ stream' = [stream EXCEPT ![s].stage = "failed"]
          /\ client' = [client EXCEPT ![s] = "gone"]
          /\ UNCHANGED commands
  /\ UNCHANGED <<state, localPending, sent, subscriber>>

\* The pending configuration computed by connect_agent, sent after the Ack.
SendConfiguration(s) ==
  /\ stream[s].stage = "configuring"
  /\ IF Len(commands[s]) < CommandCapacity
     THEN /\ commands' = [commands EXCEPT ![s] = Append(@, Configure(stream[s].config))]
          /\ stream' = [stream EXCEPT ![s].stage = "serving", ![s].config = NoConfiguration,
                                      ![s].told = @ \cup {stream[s].config}]
          /\ UNCHANGED client
     ELSE /\ stream' = [stream EXCEPT ![s].stage = "failed"]
          /\ client' = [client EXCEPT ![s] = "gone"]
          /\ UNCHANGED commands
  /\ UNCHANGED <<state, localPending, sent, subscriber>>
-----------------------------------------------------------------------------
(* OpenStream: the session task. What a connection that broke had already  *)
(* delivered is still read.                                                *)

\* Mutant: a gap in the sequence is accepted.
PublishableGap(s, event) ==
  /\ event.size <= MaxReplayBytes /\ agentSession = stream[s].session
  /\ event.gen = generation /\ event.seq > latest

\* publish accepts the next event of the session's generation.
Publishable(s, event) ==
  /\ event.size <= MaxReplayBytes
  /\ agentSession = stream[s].session
  /\ event.gen = generation
  /\ event.seq = latest + 1

\* Mutant: the new envelope's bytes are not added.
BytesUncounted(event) == replayBytes

BytesWith(event) == replayBytes + event.size

\* publish, up to the release of the mutex: the cursor moves, the envelope is
\* retained and the oldest ones are evicted until both bounds hold.
Publish(s, event) ==
  /\ stream[s].stage = "serving" /\ client[s] # "silent"
  /\ Publishable(s, event)
  /\ LET log == Append(replay, event)
         bytes == BytesWith(event)
         dropped == Evicted(log, bytes)
     IN /\ replay' = SubSeq(log, dropped + 1, Len(log))
        /\ replayBytes' = bytes - Bytes(SubSeq(log, 1, dropped))
        /\ telemetry' = [telemetry EXCEPT !.published = @ + 1, !.evictions = @ + dropped]
  /\ latest' = event.seq
  /\ stream' = [stream EXCEPT ![s].stage = "broadcasting", ![s].outgoing = event]
  /\ UNCHANGED <<generation, agentSession, nextSession, desired, applied, localSequence, since,
                 client, commands, localPending, sent, subscriber>>

\* Mutant: the Ack is queued first, and a full queue skips the broadcast.
AckThenBroadcast(s) ==
  /\ stream[s].stage = "broadcasting"
  /\ IF CanSend(s)
     THEN /\ sent' = Append(sent, stream[s].outgoing)
          /\ commands' = [commands EXCEPT ![s] = Append(@, Ack(stream[s].outgoing.seq))]
          /\ stream' = [stream EXCEPT ![s].stage = "serving", ![s].outgoing = NoEvent]
     ELSE /\ stream' = [stream EXCEPT ![s].stage = "closing", ![s].outgoing = NoEvent]
          /\ UNCHANGED <<commands, sent>>
  /\ UNCHANGED <<state, client, localPending, subscriber>>

\* The rest of publish and of the loop body: live.send outside the mutex,
\* then the Ack; a full or closed command queue ends the session.
Broadcast(s) ==
  /\ stream[s].stage = "broadcasting"
  /\ sent' = Append(sent, stream[s].outgoing)
  /\ IF CanSend(s)
     THEN /\ commands' = [commands EXCEPT ![s] = Append(@, Ack(stream[s].outgoing.seq))]
          /\ stream' = [stream EXCEPT ![s].stage = "serving", ![s].outgoing = NoEvent]
     ELSE /\ stream' = [stream EXCEPT ![s].stage = "closing", ![s].outgoing = NoEvent]
          /\ UNCHANGED commands
  /\ UNCHANGED <<state, client, localPending, subscriber>>

\* heartbeat: the generation and the exact cursor are acknowledged.
Heartbeat(s, cursor) ==
  /\ stream[s].stage = "serving" /\ client[s] # "silent"
  /\ agentSession = stream[s].session
  /\ cursor = [gen |-> generation, seq |-> latest]
  /\ IF CanSend(s)
     THEN /\ commands' = [commands EXCEPT ![s] = Append(@, Ack(latest))]
          /\ UNCHANGED stream
     ELSE /\ stream' = [stream EXCEPT ![s].stage = "closing"]
          /\ UNCHANGED commands
  /\ UNCHANGED <<state, client, localPending, sent, subscriber>>

\* A message the hub refuses: Stop is queued if it can be, the loop ends.
Refuse(s) ==
  /\ stream[s].stage = "serving" /\ client[s] # "silent"
  /\ commands' = [commands EXCEPT ![s] = IF CanSend(s) THEN Append(@, Stop) ELSE @]
  /\ stream' = [stream EXCEPT ![s].stage = "closing"]
  /\ UNCHANGED <<state, client, localPending, sent, subscriber>>

\* Any event but the publishable ones is refused, and so is any heartbeat but
\* the exact one and any other message.
RefuseEvent(s, event) == ~ Publishable(s, event) /\ Refuse(s)
RefuseHeartbeat(s, cursor) == cursor # [gen |-> generation, seq |-> latest] /\ Refuse(s)

\* Mutant: the task ends without disconnecting its session.
EndWithoutDisconnect(s) ==
  /\ stream[s].stage = "serving"
  /\ stream' = [stream EXCEPT ![s].stage = "closed"]
  /\ UNCHANGED <<state, client, commands, localPending, sent, subscriber>>

\* Mutant: there is no heartbeat deadline.
EndOnHangup(s) ==
  /\ stream[s].stage = "serving" /\ client[s] = "gone"
  /\ stream' = [stream EXCEPT ![s].stage = "closing"]
  /\ UNCHANGED <<state, client, commands, localPending, sent, subscriber>>

\* The incoming stream ends, fails or passes the heartbeat deadline.
EndOfStream(s) ==
  /\ stream[s].stage = "serving"
  /\ stream' = [stream EXCEPT ![s].stage = "closing"]
  /\ UNCHANGED <<state, client, commands, localPending, sent, subscriber>>

\* disconnect_agent: only the session that is current is removed. The task
\* ends. What is left in the queue is still the agent's to read, but nothing
\* the agent does with it reaches the hub: queue and client are forgotten.
DisconnectAgent(s) ==
  /\ stream[s].stage = "closing"
  /\ stream' = [stream EXCEPT ![s].stage = "closed", ![s].told = {},
                              ![s].config = NoConfiguration]
  /\ commands' = [commands EXCEPT ![s] = <<>>]
  /\ client' = [client EXCEPT ![s] = "gone"]
  /\ IF agentSession = stream[s].session
     THEN /\ agentSession' = 0
          /\ telemetry' = [telemetry EXCEPT !.disconnects = @ + 1]
     ELSE UNCHANGED <<agentSession, telemetry>>
  /\ UNCHANGED <<generation, latest, replay, replayBytes, nextSession, desired, applied,
                 localSequence, since, localPending, sent, subscriber>>

\* set_watchlist: the command is queued first, the desired watchlist changes
\* only if that succeeded. An equal list and every error change nothing.
SetWatchlist(list) ==
  /\ agentSession # 0
  /\ list # desired.list
  /\ desired.revision < MaxRevision
  /\ \E s \in Streams :
       LET replacement == [revision |-> desired.revision + 1, list |-> list]
       IN /\ stream[s].session = agentSession
          /\ CanSend(s)
          /\ commands' = [commands EXCEPT ![s] = Append(@, Configure(replacement))]
          /\ stream' = [stream EXCEPT ![s].told = @ \cup {replacement}]
          /\ desired' = replacement
  /\ UNCHANGED <<generation, latest, replay, replayBytes, agentSession, nextSession,
                 applied, localSequence, telemetry, since, client, localPending, sent, subscriber>>
-----------------------------------------------------------------------------
(* publish_local: the server's own events *)

\* Mutant: the number is taken from what has been broadcast.
NextFromBroadcast == Cardinality({i \in DOMAIN sent : sent[i].gen = Local}) + 1

NextLocal == localSequence + 1

\* The bump is recorded before the envelope is validated and sized, so an
\* envelope that is refused leaves a hole in the local lane.
RecordLocal(p, size) ==
  /\ localPending[p] = <<>>
  /\ localSequence < MaxLocal
  /\ localSequence' = NextLocal
  /\ IF size <= MaxReplayBytes
     THEN /\ telemetry' = [telemetry EXCEPT !.published = @ + 1]
          /\ localPending' = [localPending EXCEPT ![p] =
               <<[gen |-> Local, seq |-> NextLocal, size |-> size]>>]
     ELSE UNCHANGED <<telemetry, localPending>>
  /\ UNCHANGED <<generation, latest, replay, replayBytes, agentSession, nextSession,
                 desired, applied, since, stream, client, commands, sent, subscriber>>

\* live.send after the mutex is released; nothing is retained for replay.
BroadcastLocal(p) ==
  /\ localPending[p] # <<>>
  /\ sent' = Append(sent, Head(localPending[p]))
  /\ localPending' = [localPending EXCEPT ![p] = <<>>]
  /\ UNCHANGED <<state, stream, client, commands, subscriber>>

-----------------------------------------------------------------------------
(* Subscribe and SubscriberStream *)

\* Receivers the channel counts: a terminated stream holds its own until it
\* is dropped.
Receivers == {c \in Subscribers : subscriber[c].stage \in {"open", "terminated"}}

\* Mutant: any cursor of the generation is good enough.
LiveCursorInGeneration(after) ==
  after = NoCursor \/ (generation # 0 /\ after.gen = generation /\ after.seq <= latest)

\* validate_live_cursor: a cursor must be exactly the current one.
LiveCursor(after) ==
  \/ after = NoCursor
  \/ generation # 0 /\ after = [gen |-> generation, seq |-> latest]

\* subscribe_from: the receiver sees what is sent from now on.
Subscribe(c, after) ==
  /\ subscriber[c].stage = "none"
  /\ Cardinality(Receivers) < MaxSubscribers
  /\ LiveCursor(after)
  /\ subscriber' = [subscriber EXCEPT ![c] =
       [stage |-> "open", start |-> Len(sent) + 1, next |-> Len(sent) + 1,
        after |-> after, delivered |-> <<>>]]
  /\ UNCHANGED <<state, stream, client, commands, localPending, sent>>

\* The slot the receiver is about to read has been overwritten.
Lagged(c) == Len(sent) - subscriber[c].next >= QueueCapacity

\* poll_next: the next envelope, or an error after which the stream is over.
Poll(c) ==
  /\ subscriber[c].stage = "open"
  /\ subscriber[c].next <= Len(sent)
  /\ IF Lagged(c)
     THEN subscriber' = [subscriber EXCEPT ![c].stage = "terminated"]
     ELSE subscriber' = [subscriber EXCEPT
            ![c].next = @ + 1,
            ![c].delivered = Append(@, CursorOf(sent[subscriber[c].next]))]
  /\ UNCHANGED <<state, stream, client, commands, localPending, sent>>

\* The transport drops the response stream, and with it the receiver.
Unsubscribe(c) ==
  /\ c \in Receivers
  /\ subscriber' = [subscriber EXCEPT ![c] =
       [stage |-> "none", start |-> 1, next |-> 1, after |-> NoCursor, delivered |-> <<>>]]
  /\ UNCHANGED <<state, stream, client, commands, localPending, sent>>

-----------------------------------------------------------------------------
(* The agent's end of an OpenStream call *)

\* The call was answered: its command queue is now the agent's to read.
Answered == {"serving", "broadcasting", "closing"}

\* The agent reads a command.
ReceiveCommand(s) ==
  /\ stream[s].stage \in Answered
  /\ client[s] = "up" /\ commands[s] # <<>>
  /\ commands' = [commands EXCEPT ![s] = Tail(@)]
  /\ UNCHANGED <<state, stream, client, localPending, sent, subscriber>>

\* The agent or the network stops without closing the connection.
FallSilent(s) ==
  /\ stream[s].stage \in Attached /\ client[s] = "up"
  /\ client' = [client EXCEPT ![s] = "silent"]
  /\ UNCHANGED <<state, stream, commands, localPending, sent, subscriber>>

\* The connection closes and the response stream is dropped; before the
\* handler has returned, the handler itself still holds the receiver.
Hangup(s) ==
  /\ stream[s].stage \in Answered /\ client[s] # "gone"
  /\ client' = [client EXCEPT ![s] = "gone"]
  /\ UNCHANGED <<state, stream, commands, localPending, sent, subscriber>>

-----------------------------------------------------------------------------
AgentEvents == [gen : Generations, seq : 1..MaxSequence, size : Sizes]
Cursors == [gen : Generations, seq : 0..MaxSequence]

\* Any label may follow any other: an agent that restarts, or whose monitor
\* reports a generation again, presents one the hub held before.
StreamStep(s) ==
  \/ \E g \in Generations, hello \in [revision : 0..MaxRevision, list : Watchlists] :
       ConnectAgent(s, g, hello)
  \/ SendHelloAck(s)
  \/ SendConfiguration(s)
  \/ \E event \in AgentEvents : Publish(s, event) \/ RefuseEvent(s, event)
  \/ \E cursor \in Cursors : Heartbeat(s, cursor) \/ RefuseHeartbeat(s, cursor)
  \/ Broadcast(s)
  \/ EndOfStream(s)
  \/ DisconnectAgent(s)

AgentStep(s) == ReceiveCommand(s) \/ FallSilent(s) \/ Hangup(s)

LocalStep(p) == (\E size \in Sizes : RecordLocal(p, size)) \/ BroadcastLocal(p)

SubscriberStep(c) ==
  \/ \E after \in Cursors \cup {NoCursor} : Subscribe(c, after)
  \/ Poll(c)
  \/ Unsubscribe(c)

Next ==
  \/ \E s \in Streams : StreamStep(s) \/ AgentStep(s)
  \/ \E list \in Watchlists : SetWatchlist(list)
  \/ \E p \in Publishers : LocalStep(p)
  \/ \E c \in Subscribers : SubscriberStep(c)

\* The runtime runs every ready task, and the deadline of a stream whose
\* agent sends nothing fires. Nothing is assumed of agents and subscribers.
Fairness ==
  /\ \A s \in Streams :
       /\ WF_vars(SendHelloAck(s)) /\ WF_vars(SendConfiguration(s))
       /\ WF_vars(Broadcast(s)) /\ WF_vars(DisconnectAgent(s))
       /\ WF_vars(client[s] # "up" /\ EndOfStream(s))
  /\ \A p \in Publishers : WF_vars(BroadcastLocal(p))

Spec == Init /\ [][Next]_vars /\ Fairness

-----------------------------------------------------------------------------
(* Properties *)

Telemetry == [connections : Nat, disconnects : Nat, published : Nat, evictions : Nat]
StreamRecord == [stage : Stages, session : Nat, gen : Nat, config : Watchlist,
                 told : SUBSET Watchlist, outgoing : Envelope \cup {NoEvent}]
SubscriberRecord == [stage : {"none", "open", "terminated"}, start : Nat \ {0},
                     next : Nat \ {0}, after : Cursor, delivered : Seq(Cursor)]

\* The types of the hub's state, of the tasks and of the channels.
TypeOK ==
  /\ generation \in 0..MaxGeneration /\ latest \in 0..MaxSequence
  /\ replay \in Seq(Envelope) /\ replayBytes \in Nat
  /\ agentSession \in Nat /\ nextSession \in Nat \ {0}
  /\ desired \in Watchlist /\ applied \in Watchlist
  /\ localSequence \in 0..MaxLocal
  /\ telemetry \in Telemetry
  /\ stream \in [Streams -> StreamRecord]
  /\ client \in [Streams -> {"up", "silent", "gone"}]
  /\ commands \in [Streams -> Seq(Command)]
  /\ localPending \in [Publishers -> Seq(Envelope)]
  /\ sent \in Seq(Envelope) /\ since \in Nat
  /\ subscriber \in [Subscribers -> SubscriberRecord]

\* The replay buffer is, in both bounds and with exact byte accounting, the
\* unbroken end of the current generation's stream, and it always holds the
\* newest event: the eviction loop of publish (events.rs:391) never empties it.
ReplayWindow ==
  /\ Len(replay) <= MaxReplayEvents
  /\ replayBytes <= MaxReplayBytes
  /\ replayBytes = Bytes(replay)
  /\ latest > 0 => replay # <<>>
  /\ Len(replay) <= latest
  /\ \A i \in DOMAIN replay :
       replay[i].gen = generation /\ replay[i].seq = latest - Len(replay) + i

\* A replay that is accepted returns every event after the cursor: one that
\* would miss an evicted event is refused as OUT_OF_RANGE (replay_after).
ReplayComplete ==
  \A n \in 0..latest :
    ReplayAccepts([gen |-> generation, seq |-> n])
      => ReplayAfter([gen |-> generation, seq |-> n]) = (n + 1)..latest

\* Positions of the channel that carry agent events.
AgentLane(first, last) == {i \in first..last : sent[i].gen # Local}

\* The cursor y is the successor of x.
Follows(x, y) == y.gen = x.gen /\ y.seq = x.seq + 1

\* Since the hub took up its generation the channel has carried that generation
\* and no other, each event once and after all its predecessors, although every
\* broadcast happens after the mutex is released and sessions come and go. Of
\* everything before, a generation only ever advances by one or begins at 1:
\* one the hub is taken back to is broadcast anew (connect_agent resets the
\* cursor), its cursors a second time.
AgentLaneInOrder ==
  /\ \A j \in AgentLane(since + 1, Len(sent)) :
       /\ sent[j].gen = generation
       /\ {sent[i].seq : i \in AgentLane(since + 1, j - 1)} = 1..(sent[j].seq - 1)
  /\ \A j \in AgentLane(1, Len(sent)) :
       \/ sent[j].seq = 1
       \/ \E i \in AgentLane(1, j - 1) :
            /\ Follows(sent[i], sent[j])
            /\ \A k \in AgentLane(1, j - 1) : k <= i

\* At most one event of the current generation is published and not broadcast
\* yet, and only by the task of the active session.
BroadcastCatchesUp ==
  {sent[i].seq : i \in AgentLane(since + 1, Len(sent))} =
    1..latest \ {stream[s].outgoing.seq : s \in {t \in Streams : stream[t].stage = "broadcasting"}}

\* An agent is acknowledged an event only after subscribers can see it, since
\* the hub took up the generation: not for an event of an earlier stretch.
AckedWasBroadcast ==
  \A s \in Streams : \A k \in DOMAIN commands[s] :
    commands[s][k].type = "ack" /\ commands[s][k].seq > 0
      => \E i \in AgentLane(since + 1, Len(sent)) :
           CursorOf(sent[i]) = [gen |-> stream[s].gen, seq |-> commands[s][k].seq]

\* What a subscriber receives of the agent lane has no gap: the first event is
\* the cursor's own (broadcast late) or its successor, then each is the
\* successor of the one before, unless the hub took up a generation and begins
\* it at 1. A subscriber that lost an event to the bounded channel receives
\* nothing more.
NoSilentGap ==
  \A c \in Receivers :
    LET got == subscriber[c].delivered
        after == subscriber[c].after
        lane == {i \in DOMAIN got : got[i].gen # Local}
    IN \A i \in lane :
         \/ got[i].seq = 1
         \/ /\ \A k \in lane : i <= k
            /\ after # NoCursor => got[i] = after \/ Follows(after, got[i])
         \/ \E k \in lane : /\ k < i /\ \A m \in lane : m < i => m <= k
                           /\ Follows(got[k], got[i])

\* One OpenStream call at a time is attached to the hub, from its hello until
\* its own task has disconnected it.
ExclusiveStream ==
  \A s, t \in Streams :
    stream[s].stage \in Attached /\ stream[t].stage \in Attached \cup {"failed"} => s = t

\* A watchlist the connected agent does not apply is one it has been sent or is
\* about to be sent: desired never changes without the command (set_watchlist),
\* and a hello never leaves a difference uncorrected (connect_agent).
DesiredIsTold ==
  \A s \in Streams : stream[s].stage \in Attached =>
    \/ applied = desired
    \/ desired \in stream[s].told
    \/ stream[s].stage \in {"greeting", "configuring"} /\ desired = stream[s].config

\* Two publishers never broadcast the same local sequence, and none is
\* broadcast that was not recorded.
LocalSequencesUnique ==
  \A i, j \in DOMAIN sent :
    sent[i].gen = Local =>
      /\ sent[i].seq <= localSequence
      /\ sent[j].gen = Local /\ sent[i].seq = sent[j].seq => i = j

\* The counters of GetListenerStatus agree: a connection is either over or the
\* active one, an event that was published is retained, evicted or local.
TelemetryBalances ==
  /\ telemetry.connections = telemetry.disconnects + (IF agentSession = 0 THEN 0 ELSE 1)
  /\ telemetry.published = Len(replay) + telemetry.evictions
       + Cardinality({i \in DOMAIN sent : sent[i].gen = Local})
       + Cardinality({p \in Publishers : localPending[p] # <<>>})

\* Whoever holds the agent session is a task that will give it back (the
\* documented expiry of every silent stream).
SessionHasOwner ==
  agentSession # 0 =>
    \E s \in Streams : stream[s].session = agentSession /\ stream[s].stage \in Attached

\* A session whose agent fell silent or hung up is removed, so that another
\* agent can connect.
SilentAgentExpires ==
  \A s \in Streams :
    (stream[s].stage \in Attached /\ client[s] # "up") ~> (stream[s].stage = "closed" /\ agentSession # stream[s].session)
=============================================================================
