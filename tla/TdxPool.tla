------------------------------ MODULE TdxPool ------------------------------
(***************************************************************************)
(* The blocking connection pool of the TDX client (magic-tdx-rs            *)
(* src/net/pool.rs): idle transports, two counters and a generation token  *)
(* behind one mutex. A borrower that has to open a connection reserves its *)
(* place in the counters, releases the mutex for the network I/O and gives *)
(* the place back if the connection fails.                                 *)
(*                                                                         *)
(* A token is only ever compared with the pool's own, so a transport       *)
(* records whether it is still that one instead of the token. A critical   *)
(* section is one action; users may do them in any order here, TdxClient   *)
(* says in which order the client's threads do.                            *)
(***************************************************************************)
EXTENDS Naturals, Sequences, FiniteSets

CONSTANTS
  Users,     \* threads that hold a guard, one at a time each
  Servers,   \* endpoints
  NoServer,  \* no endpoint
  MaxSize    \* PoolConfig::max_size

ASSUME UsersFinite == IsFiniteSet(Users)
ASSUME MaxSizeNatural == MaxSize \in Nat
ASSUME NoServerDistinct == NoServer \notin Servers

VARIABLES
  idle,    \* idle transports, next to be lent first
  active,  \* the `active` counter
  total,   \* the `total` counter
  lent,    \* per user: no guard, a reservation being opened, a guard
  conn     \* per user: the transport of its reservation or guard

poolVars == <<idle, active, total, lent, conn>>

\* `current`: its generation is the pool's; `broken`: a request failed on it.
Transport == [server : Servers, current : BOOLEAN, broken : BOOLEAN]
NoTransport == [server |-> NoServer, current |-> FALSE, broken |-> FALSE]
Fresh(server) == [server |-> server, current |-> TRUE, broken |-> FALSE]

PoolInit ==
  /\ idle = <<>> /\ active = 0 /\ total = 0
  /\ lent = [u \in Users |-> "none"]
  /\ conn = [u \in Users |-> NoTransport]

-----------------------------------------------------------------------------
(* borrow and try_borrow *)

BorrowIdle(u) ==
  /\ lent[u] = "none" /\ idle # <<>>
  /\ idle' = Tail(idle)
  /\ active' = active + 1
  /\ lent' = [lent EXCEPT ![u] = "held"]
  /\ conn' = [conn EXCEPT ![u] = Head(idle)]
  /\ UNCHANGED total

\* Counted before the connection exists, with the generation of this moment.
Reserve(u, server) ==
  /\ lent[u] = "none" /\ idle = <<>>
  /\ total < MaxSize
  /\ total' = total + 1
  /\ active' = active + 1
  /\ lent' = [lent EXCEPT ![u] = "opening"]
  /\ conn' = [conn EXCEPT ![u] = Fresh(server)]
  /\ UNCHANGED idle

\* borrow fails and try_borrow answers None, neither changing anything.
Exhausted == idle = <<>> /\ total >= MaxSize

\* TCP connect and handshake succeed, without the mutex.
Opened(u) ==
  /\ lent[u] = "opening"
  /\ lent' = [lent EXCEPT ![u] = "held"]
  /\ UNCHANGED <<idle, active, total, conn>>

Forget(u) ==
  /\ lent' = [lent EXCEPT ![u] = "none"]
  /\ conn' = [conn EXCEPT ![u] = NoTransport]

\* The branch that only logs a failed accounting invariant.
Underflow == active = 0 \/ total = 0

ReleaseReservation(u) ==
  /\ lent[u] = "opening"
  /\ Forget(u)
  /\ IF Underflow
     THEN UNCHANGED <<active, total>>
     ELSE active' = active - 1 /\ total' = total - 1
  /\ UNCHANGED idle

-----------------------------------------------------------------------------
(* The end of a guard *)

\* Mutant: the generation of a returned transport is not compared.
ReusableIfOpen(u, open) == open /\ Len(idle) < MaxSize

\* What settle_return_state asks of a transport before it is lent again.
Reusable(u, open) == conn[u].current /\ open /\ Len(idle) < MaxSize

\* settle_return_state and what its callers do with the answer.
Settle(u, reusable) ==
  /\ Forget(u)
  /\ IF Underflow
     THEN UNCHANGED <<idle, active, total>>
     ELSE /\ active' = active - 1
          /\ IF reusable
             THEN idle' = Append(idle, conn[u]) /\ UNCHANGED total
             ELSE total' = total - 1 /\ UNCHANGED idle

\* Drop of the guard; `open` is what the socket answers (is_open).
Return(u, open) == lent[u] = "held" /\ Settle(u, Reusable(u, open))

\* discard of a guard whose transport failed.
Discard(u) == lent[u] = "held" /\ Settle(u, FALSE)

\* A send, a receive or a decompression fails on the transport.
UseFails(u) ==
  /\ lent[u] = "held"
  /\ conn' = [conn EXCEPT ![u].broken = TRUE]
  /\ UNCHANGED <<idle, active, total, lent>>

-----------------------------------------------------------------------------
(* Calls on the whole pool *)

\* Mutant: the counters start again from zero, lent transports or not.
CloseAllResetting ==
  /\ idle' = <<>> /\ total' = 0 /\ active' = 0
  /\ conn' = [u \in Users |-> [conn[u] EXCEPT !.current = FALSE]]
  /\ UNCHANGED lent

\* Mutant: a new generation, and idle transports are kept.
CloseAllKeepingIdle ==
  /\ idle' = [i \in DOMAIN idle |-> [idle[i] EXCEPT !.current = FALSE]]
  /\ conn' = [u \in Users |-> [conn[u] EXCEPT !.current = FALSE]]
  /\ UNCHANGED <<active, total, lent>>

\* close_all: a new generation; idle transports are closed, lent ones are not
\* touched but are no longer of the pool's generation.
CloseAll ==
  /\ idle' = <<>>
  /\ total' = total - Len(idle)
  /\ conn' = [u \in Users |-> [conn[u] EXCEPT !.current = FALSE]]
  /\ UNCHANGED <<active, lent>>

\* push: a connection opened elsewhere, whatever the pool already counts.
Push(server) ==
  /\ idle' = Append(idle, Fresh(server))
  /\ total' = total + 1
  /\ UNCHANGED <<active, lent, conn>>

PoolNext ==
  \/ \E u \in Users :
       \/ BorrowIdle(u) \/ Opened(u) \/ ReleaseReservation(u)
       \/ UseFails(u) \/ Discard(u)
       \/ \E server \in Servers : Reserve(u, server)
       \/ \E open \in BOOLEAN : Return(u, open)
  \/ CloseAll
  \/ \E server \in Servers : Push(server)

PoolSpec == PoolInit /\ [][PoolNext]_poolVars

-----------------------------------------------------------------------------
(* Properties *)

\* The types of the pool's fields and of its users' guards.
PoolTypeOK ==
  /\ idle \in Seq(Transport)
  /\ active \in Nat /\ total \in Nat
  /\ lent \in [Users -> {"none", "opening", "held"}]
  /\ conn \in [Users -> Transport \cup {NoTransport}]
  /\ \A u \in Users : lent[u] = "none" <=> conn[u] = NoTransport

\* total = idle + active, and active counts exactly the guards and the
\* reservations there are, whatever close_all, failures and late returns do:
\* the underflow branches of settle_return_state and release_reservation are
\* dead code, and no place of the pool is ever lost.
Balanced ==
  /\ total = Len(idle) + active
  /\ active = Cardinality({u \in Users : lent[u] # "none"})

\* close_all is final: a transport it closed, or one that was lent or being
\* opened while it ran, never waits to be lent again.
NoStaleIdle == \A i \in DOMAIN idle : idle[i].current
=============================================================================
