------------------------------ MODULE AgentHub ------------------------------
(***************************************************************************)
(* The agent and the event hub, joined by OpenStream calls over a network  *)
(* that loses connections: either end may notice late, and what was under  *)
(* way is then read or lost.                                               *)
(*                                                                         *)
(* An agent that has dropped a call leaves the hub's end of it "up" until  *)
(* the transport tells (Hangup), or never does (FallSilent). The hub's     *)
(* actions are those of EventHub with their inputs taken from the network. *)
(***************************************************************************)
EXTENDS EventHub, TdxAgent

CONSTANT NoStream

ASSUME NoStreamDistinct == NoStream \notin Streams

\* Every frame here has an encoded length the replay buffer has room for: one
\* it has no room for is refused, and the agent told to stop.
ASSUME UnitSize == 1 \in Sizes

VARIABLES
  link,       \* the call the agent is on, or NoStream
  uplink,     \* per call: the agent's message the hub has not read (0 or 1)
  leftover,   \* per call: commands of an ended call still to be read
  log,        \* history: frames published to the hub that runs now
  lapses      \* history: how the hub came to forget its cursor

network == <<link, uplink, leftover>>
hub == vars
all == <<vars, agent, network, log, lapses>>

AHInit ==
  /\ Init /\ AgentInit
  /\ link = NoStream
  /\ uplink = [s \in Streams |-> <<>>]
  /\ leftover = [s \in Streams |-> <<>>]
  /\ log = <<>> /\ lapses = {}

\* The first message under way, if it is of this kind.
Under(s, kind) == uplink[s] # <<>> /\ Head(uplink[s]).type = kind

\* The hub reads the message.
Read(s) == uplink' = [uplink EXCEPT ![s] = <<>>]

-----------------------------------------------------------------------------
(* The agent *)

\* The call the agent is on, if its operation did not end it.
Follow == link' = IF agent'.pc \in {"offline", "exited"} THEN NoStream ELSE link

\* Calls not made so far. Which of them is made does not matter: any, but one.
Unused == {s \in Streams : stream[s].stage = "idle" /\ client[s] = "up" /\ uplink[s] = <<>>}

\* endpoint.connect and open_stream, the hello on its way. A connect that
\* fails changes nothing.
AgentDials(s) ==
  /\ Dial
  /\ s \in Unused /\ s = CHOOSE t \in Unused : TRUE
  /\ link' = s
  /\ uplink' = [uplink EXCEPT ![s] = <<Hello(agent.gen, agent.watch)>>]
  /\ UNCHANGED <<hub, leftover, log, lapses>>

\* The agent's operations that need no message.
AgentMoves ==
  /\ TakeFrame \/ TakeFirstOfGeneration \/ RestartMonitor
  /\ Follow
  /\ UNCHANGED <<hub, uplink, leftover, log, lapses>>

AgentSends ==
  /\ \/ SendFrame /\ uplink' = [uplink EXCEPT ![link] =
                       Append(@, Event(agent.gen, agent.pending, agent.released + 1))]
     \/ SendHeartbeat /\ uplink' = [uplink EXCEPT ![link] = Append(@, Beat(agent.gen, agent.accepted))]
  /\ UNCHANGED <<hub, link, leftover, log, lapses>>

\* Commands are read from the queue while the call lasts, then what it left.
AgentReads(s) ==
  /\ link = s
  /\ \/ /\ ReceiveCommand(s)
        /\ OnCommand(Head(commands[s]))
        /\ UNCHANGED leftover
     \/ /\ stream[s].stage = "closed" /\ leftover[s] # <<>>
        /\ OnCommand(Head(leftover[s]))
        /\ leftover' = [leftover EXCEPT ![s] = Tail(@)]
        /\ UNCHANGED hub
  /\ Follow
  /\ UNCHANGED <<uplink, log, lapses>>

\* The command stream can end: the connection closed, or the task did.
Ended(s) == client[s] = "gone"

\* CommandTimeout or a transport error. The select of an idle session has no
\* timeout: there the command stream must end, its commands read. A call that
\* fell silent never ends there.
AgentLosesSession(s) ==
  /\ link = s
  /\ agent.pc = "ready" => Ended(s) /\ leftover[s] = <<>>
  /\ LoseSession /\ Follow
  /\ UNCHANGED <<hub, uplink, leftover, log, lapses>>

-----------------------------------------------------------------------------
(* The hub *)

\* A hello that was under way while the agent went on to another generation
\* takes the hub, which had taken that up, back to the old one.
HubConnects(s) ==
  /\ Under(s, "hello")
  /\ ConnectAgent(s, Head(uplink[s]).gen, Head(uplink[s]).watch)
  /\ lapses' = IF generation = agent.gen /\ Head(uplink[s]).gen # generation
               THEN lapses \cup {"overtaken"} ELSE lapses
  /\ Read(s)
  /\ UNCHANGED <<agent, link, leftover, log>>

\* AlreadyExists and FailedPrecondition are not among the retryable codes.
Refusal(s) ==
  IF link = s
  THEN Exit(IF SessionFree THEN "watchlist" ELSE "occupied") /\ link' = NoStream
  ELSE UNCHANGED <<agent, link>>

HubRefusesHello(s) ==
  /\ Under(s, "hello") /\ client[s] = "up"
  /\ ~ (SessionFree /\ HelloAdmissible(Head(uplink[s]).watch))
  /\ Refusal(s)
  /\ Read(s)
  /\ UNCHANGED <<hub, leftover, log, lapses>>

\* The message of a call that is not up any more, or that the agent dropped,
\* may be lost.
MessageLost(s) ==
  /\ uplink[s] # <<>> /\ link # s
  /\ Read(s)
  /\ UNCHANGED <<hub, agent, link, leftover, log, lapses>>

HubReadsEvent(s) ==
  /\ Under(s, "event")
  /\ LET m == Head(uplink[s])
         event == [gen |-> m.gen, seq |-> m.seq, size |-> 1]
     IN \/ Publish(s, event) /\ log' = Append(log, [gen |-> m.gen, frame |-> m.frame])
        \/ RefuseEvent(s, event) /\ UNCHANGED log
  /\ Read(s)
  /\ UNCHANGED <<agent, link, leftover, lapses>>

HubReadsHeartbeat(s) ==
  /\ Under(s, "heartbeat")
  /\ LET cursor == [gen |-> Head(uplink[s]).gen, seq |-> Head(uplink[s]).seq]
     IN Heartbeat(s, cursor) \/ RefuseHeartbeat(s, cursor)
  /\ Read(s)
  /\ UNCHANGED <<agent, link, leftover, log, lapses>>

\* The rest of the handler and of the task, and operator requests.
HubMoves ==
  /\ \/ \E s \in Streams : SendHelloAck(s) \/ SendConfiguration(s) \/ Broadcast(s) \/ EndOfStream(s)
     \/ \E list \in Watchlists : SetWatchlist(list)
  /\ UNCHANGED <<agent, network, log, lapses>>

\* The task ends; what it queued can still be read if the transport is up.
HubDisconnects(s) ==
  /\ DisconnectAgent(s)
  /\ leftover' = [leftover EXCEPT ![s] = IF client[s] = "up" THEN commands[s] ELSE <<>>]
  /\ Read(s)
  /\ UNCHANGED <<agent, link, log, lapses>>

NetworkFails(s) ==
  /\ FallSilent(s) \/ Hangup(s)
  /\ UNCHANGED <<agent, network, log, lapses>>

\* The server's process is replaced. Nothing of the hub is persisted and every
\* call is dead; the bound is one restart.
ServerRestarts ==
  /\ "restarted" \notin lapses /\ lapses' = lapses \cup {"restarted"}
  /\ generation' = 0 /\ latest' = 0 /\ replay' = <<>> /\ replayBytes' = 0
  /\ agentSession' = 0 /\ nextSession' = 1
  /\ desired' = NoConfiguration /\ applied' = NoConfiguration
  /\ localSequence' = 0 /\ since' = 0
  /\ telemetry' = [connections |-> 0, disconnects |-> 0, published |-> 0, evictions |-> 0]
  /\ stream' = [s \in Streams |->
                  [stage |-> IF stream[s].stage = "idle" THEN "idle" ELSE "closed", session |-> 0,
                   gen |-> 0, config |-> NoConfiguration, told |-> {}, outgoing |-> NoEvent]]
  /\ client' = [s \in Streams |-> IF stream[s].stage = "idle" /\ link # s THEN client[s] ELSE "gone"]
  /\ commands' = [s \in Streams |-> <<>>]
  /\ localPending' = [p \in Publishers |-> <<>>]
  /\ sent' = <<>>
  /\ subscriber' = [c \in Subscribers |-> [stage |-> "none", start |-> 1, next |-> 1,
                                           after |-> NoCursor, delivered |-> <<>>]]
  /\ uplink' = [s \in Streams |-> <<>>]
  /\ leftover' = [s \in Streams |-> <<>>]
  /\ log' = <<>>
  /\ UNCHANGED <<agent, link>>

-----------------------------------------------------------------------------
AHNext ==
  \/ \E s \in Streams :
       \/ AgentDials(s) \/ AgentReads(s) \/ AgentLosesSession(s)
       \/ HubConnects(s) \/ HubRefusesHello(s) \/ MessageLost(s)
       \/ HubReadsEvent(s) \/ HubReadsHeartbeat(s) \/ HubDisconnects(s)
       \/ NetworkFails(s)
  \/ AgentMoves \/ AgentSends
  \/ HubMoves
  \/ ServerRestarts

\* Heartbeats tick and an Ack is awaited no longer than command_timeout. Neither
\* the response of open_stream nor the select has a deadline. Nothing is assumed
\* of the network.
AHFairness ==
  /\ WF_all(AgentSends)
  /\ \A s \in Streams : WF_all(agent.pc \in {"event", "beat"} /\ AgentLosesSession(s))

AHSpec == AHInit /\ [][AHNext]_all /\ AHFairness

-----------------------------------------------------------------------------
(* Properties *)

Delivery == INSTANCE FrameDelivery WITH
  gen <- agent.gen, base <- agent.released - agent.accepted, done <- agent.released,
  log <- log, forgetful <- lapses # {}

\* The frames of the monitor reach the hub as FrameDelivery promises.
FramesDelivered == Delivery!Spec

\* The two sides never contradict each other on watchlists and no command is
\* unexpected, whatever happens to the server; their cursors agree unless the
\* hub has forgotten its own: the checks of the agent for these never end it.
NoContradiction ==
  /\ agent.fate \notin {"watchlist", "contradictory", "acknowledgement", "stopped"}
  /\ lapses = {} => agent.fate # "sequence"

\* The agent that has nothing left to read on a call that was set up runs with
\* the desired watchlist, or is about to: no configuration is ever lost.
ConfigurationArrives ==
  \A s \in Streams :
    /\ link = s /\ stream[s].stage \in {"serving", "broadcasting"} /\ client[s] = "up"
    /\ \A k \in DOMAIN commands[s] : commands[s][k].type # "configure"
    => desired = Known

\* An agent in a session whose server, or the network to it, is gone leaves the
\* session, however quiet the monitor is: heartbeats detect what reading does not.
DeadServerNoticed ==
  \A s \in Streams :
    (link = s /\ agent.pc # "calling" /\ client[s] # "up") ~> link # s

\* BR-049: an agent whose connection failed reconnects.
ReconnectsAfterFailure == agent.fate # "occupied"
=============================================================================
