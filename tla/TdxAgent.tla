------------------------------ MODULE TdxAgent ------------------------------
(***************************************************************************)
(* The TDX agent (magic-market-tdx-agent): one monitor process after the   *)
(* other, whose frames it sends to the server one at a time, each kept     *)
(* until the server has accepted it, over one OpenStream call after the    *)
(* other.                                                                  *)
(*                                                                         *)
(* An operation is what the agent does between two awaits. What it says    *)
(* and what it is told is bound by the module that composes it with the    *)
(* server, AgentHub.                                                       *)
(***************************************************************************)
EXTENDS AgentProtocol

CONSTANT InitialWatchlist  \* --watchlist of the monitor's argument file

ASSUME InitialAdmissible == InitialWatchlist \in Watchlists

\* The label of the first monitor process is within the bound.
ASSUME FirstGeneration == MaxGeneration \in Nat \ {0}

VARIABLE agent

\* Why the agent's process may end: the call was refused because a session is
\* active ("occupied") or because of the watchlist ("watchlist"); a Configure
\* is older than what is known ("stale") or contradicts it ("contradictory");
\* the server's cursor is not the agent's ("sequence"); an Ack nobody waits
\* for ("acknowledgement"); a Stop ("stopped").
Fates == {"alive", "occupied", "watchlist", "stale", "contradictory",
          "sequence", "acknowledgement", "stopped"}

\* "calling": the hello is sent, its Ack awaited; "ready": in the select of the
\* session; "event", "beat": an Ack is awaited.
AgentRecord ==
  [pc : {"offline", "calling", "ready", "event", "beat", "exited"}, fate : Fates,
   gen : 1..MaxGeneration,      \* label of the hello
   first : 1..MaxGeneration,    \* label the process began with, "waiting"
   top : 1..MaxGeneration,      \* labels used so far: 1..top
   accepted : 0..MaxSequence,   \* accepted_sequence
   pending : 0..MaxSequence,    \* sequence of the frame kept for the server, or 0
   tried : BOOLEAN,             \* that frame was converted and sent before
   released : Nat,              \* frames the agent is through with, ever
   watch : Watchlist,           \* watchlist the monitor process runs with
   config : Watchlist]          \* configuration absorbed while waiting

AgentTypeOK == agent \in AgentRecord

AgentInit ==
  agent = [pc |-> "offline", fate |-> "alive", gen |-> 1, first |-> 1, top |-> 1,
           accepted |-> 0, pending |-> 0, tried |-> FALSE, released |-> 0,
           watch |-> [revision |-> 0, list |-> InitialWatchlist],
           config |-> NoConfiguration]

-----------------------------------------------------------------------------
(* What becomes of an agent *)

\* A fatal error: main returns.
Exit(reason) == agent' = [agent EXCEPT !.pc = "exited", !.fate = reason]

\* Mutant: a lost session forgets the frame it kept.
OfflineForgetting(a) ==
  [a EXCEPT !.pc = "offline", !.config = NoConfiguration, !.pending = 0, !.tried = FALSE,
            !.released = IF a.pending = 0 THEN @ ELSE @ + 1]

\* The session is over, the frame is kept: reconnect after the delay.
Offline(a) == [a EXCEPT !.pc = "offline", !.config = NoConfiguration]

\* The loop of main: the monitor process is replaced, with it its unsent
\* frames and the frame that was kept, under labels never used before.
NewProcess(a, w) ==
  [a EXCEPT !.pc = "offline", !.gen = a.top + 1, !.first = a.top + 1, !.top = a.top + 1,
            !.accepted = 0, !.pending = 0, !.tried = FALSE,
            !.released = IF a.pending = 0 THEN @ ELSE @ + 1,
            !.watch = w, !.config = NoConfiguration]

CanMint == agent.top < MaxGeneration

\* Mutant: the cursor counts the frames of all generations.
SettledAcrossGenerations(a) ==
  [a EXCEPT !.accepted = a.released + 1, !.pending = 0, !.tried = FALSE, !.released = @ + 1]

\* The server has accepted the frame that was kept.
Settled(a) ==
  [a EXCEPT !.accepted = a.pending, !.pending = 0, !.tried = FALSE, !.released = @ + 1]

\* After an Ack a configuration absorbed meanwhile is applied.
Resume(a) ==
  IF a.config = NoConfiguration THEN [a EXCEPT !.pc = "ready"] ELSE NewProcess(a, a.config)

-----------------------------------------------------------------------------
(* The session *)

Dial == agent.pc = "offline" /\ agent' = [agent EXCEPT !.pc = "calling"]

\* A retryable failure of the session: timeout, end of the stream, transport.
LoseSession ==
  /\ agent.pc \in {"calling", "ready", "event", "beat"}
  /\ agent' = Offline(agent)

\* frames.recv: a frame of the known generation, or without one.
TakeFrame ==
  /\ agent.pc = "ready" /\ agent.pending = 0 /\ agent.accepted < MaxSequence
  /\ agent' = [agent EXCEPT !.pending = agent.accepted + 1]

\* frames.recv: the first frame of another generation of the monitor, a new one
\* or one reported before, is kept, and the session is opened again under the
\* label that names it.
TakeFirstOfGeneration ==
  /\ agent.pc = "ready" /\ agent.pending = 0 /\ MaxSequence > 0
  /\ \E g \in ((agent.first + 1)..(agent.top + 1)) \ {agent.gen} :
       /\ g <= MaxGeneration
       /\ agent' = [agent EXCEPT !.pc = "offline", !.gen = g, !.accepted = 0, !.pending = 1,
                                 !.top = IF g = agent.top + 1 THEN g ELSE @]

\* The monitor's output ended, or a frame was malformed: a new process. A frame
\* that was sent before is not malformed.
RestartMonitor ==
  /\ agent.pc = "ready" /\ ~ agent.tried /\ CanMint
  /\ agent' = NewProcess(agent, agent.watch)

SendFrame ==
  /\ agent.pc = "ready" /\ agent.pending # 0
  /\ agent' = [agent EXCEPT !.pc = "event", !.tried = TRUE]

\* Mutant: an agent that has sent no frame sends no heartbeat.
SendHeartbeatAfterFrame ==
  /\ agent.pc = "ready" /\ agent.pending = 0 /\ agent.accepted > 0
  /\ agent' = [agent EXCEPT !.pc = "beat"]

SendHeartbeat ==
  /\ agent.pc = "ready" /\ agent.pending = 0
  /\ agent' = [agent EXCEPT !.pc = "beat"]

-----------------------------------------------------------------------------
(* Commands *)

\* Mutant: a frame whose Ack was lost is not recognised in the hello's Ack.
OnAckForgetful(n) ==
  CASE agent.pc = "event" /\ n = agent.pending -> agent' = Resume(Settled(agent))
    [] agent.pc = "calling" \/ (agent.pc = "beat" /\ n = agent.accepted) -> agent' = Resume(agent)
    [] OTHER -> Exit("sequence")

\* receive_initial_ack and the two loops that wait for an Ack. The Ack of a
\* hello may show that the Ack of the kept frame was lost.
OnAck(n) ==
  CASE agent.pc = "ready" -> Exit("acknowledgement")
    [] agent.pc \in {"calling", "event"} /\ agent.pending # 0 /\ n = agent.pending ->
         agent' = Resume(Settled(agent))
    [] agent.pc \in {"calling", "beat"} /\ n = agent.accepted -> agent' = Resume(agent)
    [] OTHER -> Exit("sequence")

\* absorb_configuration_value compares with the configuration absorbed last.
Known == IF agent.config = NoConfiguration THEN agent.watch ELSE agent.config

\* Mutant: a configuration that arrives while an Ack is awaited is dropped.
OnConfigureWhenReady(w) ==
  IF agent.pc = "ready" /\ w.revision > agent.watch.revision
  THEN agent' = NewProcess(agent, w)
  ELSE UNCHANGED agent

\* absorb_configuration_value; in the select a newer one is applied at once.
OnConfigure(w) ==
  CASE w.revision < Known.revision -> Exit("stale")
    [] w.revision = Known.revision -> IF w = Known THEN UNCHANGED agent ELSE Exit("contradictory")
    [] w.revision > Known.revision ->
         agent' = IF agent.pc = "ready" THEN NewProcess(agent, w) ELSE [agent EXCEPT !.config = w]

\* receive_command; the select reads commands only while no frame is kept.
OnCommand(cmd) ==
  /\ \/ agent.pc \in {"calling", "event", "beat"}
     \/ agent.pc = "ready" /\ agent.pending = 0
  /\ CASE cmd.type = "ack" -> OnAck(cmd.seq)
       [] cmd.type = "configure" -> OnConfigure([revision |-> cmd.revision, list |-> cmd.list])
       [] cmd.type = "stop" -> Exit("stopped")
  /\ agent'.top <= MaxGeneration
=============================================================================
