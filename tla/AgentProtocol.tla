--------------------------- MODULE AgentProtocol ---------------------------
(***************************************************************************)
(* What the server and the agent say to each other on an OpenStream call   *)
(* (TdxAgentService in market.proto), as far as behaviour depends on it.   *)
(*                                                                         *)
(* Numbers stand for generation labels: the server tells them apart and no *)
(* more. An Ack names the generation of its call's hello, always: left out.*)
(***************************************************************************)
EXTENDS Naturals

CONSTANTS
  Watchlists,       \* admissible watchlists (validate_monitor_watchlist)
  NoWatchlist,      \* the empty list the server starts with
  MaxGeneration,    \* bound: generation labels agents mint
  MaxSequence       \* bound: events of one generation

ASSUME NoWatchlistDistinct == NoWatchlist \notin Watchlists

Watchlist == [revision : Nat, list : Watchlists \cup {NoWatchlist}]
NoConfiguration == [revision |-> 0, list |-> NoWatchlist]

\* AgentCommand: server to agent.
Ack(sequence) == [type |-> "ack", seq |-> sequence]
Configure(w) == [type |-> "configure", revision |-> w.revision, list |-> w.list]
Stop == [type |-> "stop"]
Command == [type : {"ack"}, seq : Nat]
           \cup [type : {"configure"}, revision : Nat, list : Watchlists \cup {NoWatchlist}]
           \cup {Stop}

\* AgentMessage: agent to server. `frame` tells apart the monitor's frames: the
\* payload, which the server does not look at.
Hello(g, w) == [type |-> "hello", gen |-> g, watch |-> w]
Event(g, sequence, n) == [type |-> "event", gen |-> g, seq |-> sequence, frame |-> n]
Beat(g, sequence) == [type |-> "heartbeat", gen |-> g, seq |-> sequence]
Message == [type : {"hello"}, gen : Nat, watch : Watchlist]
           \cup [type : {"event"}, gen : Nat, seq : Nat, frame : Nat]
           \cup [type : {"heartbeat"}, gen : Nat, seq : Nat]
=============================================================================
