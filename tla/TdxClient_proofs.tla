-------------------------- MODULE TdxClient_proofs --------------------------
(***************************************************************************)
(* The pool's counters are exact for every number of users, servers and    *)
(* places, in whatever order they use it. Its invariant is the conjunction *)
(* of the types, of the balance and of the generations of idle transports: *)
(* with the balance no guard meets the underflow branches, and without     *)
(* them the balance holds.                                                 *)
(*                                                                         *)
(* The client uses the pool as TdxPool says, so the pool's theorems hold   *)
(* of it for every number of threads; and no transport on which anything   *)
(* failed is ever idle. That last fact has two reasons, one per user: a    *)
(* request discards such a transport before it does anything else, while   *)
(* the heartbeat still returns it, but only after close_all has taken it   *)
(* out of the pool's generation. The inductive invariant says both.        *)
(*                                                                         *)
(* A second invariant bounds what can become idle: whoever pushes without  *)
(* asking for room has emptied the pool before, and the heartbeat's failed *)
(* guard holds a place of the pool until after its push.                   *)
(***************************************************************************)
EXTENDS TdxClient, FiniteSetTheorems, TLAPS

-----------------------------------------------------------------------------
(* The pool *)

Busy == {u \in Users : lent[u] # "none"}

PoolInv == PoolTypeOK /\ Balanced /\ NoStaleIdle

\* A finite subset of the users: what Cardinality is asked about.
LEMMA BusyFinite == IsFiniteSet(Busy)
  BY UsersFinite, FS_Subset DEF Busy

\* A user that borrows or reserves is one more.
LEMMA OneMore ==
  ASSUME NEW u \in Users, lent[u] = "none", lent \in [Users -> {"none", "opening", "held"}],
         NEW place \in {"opening", "held"}, lent' = [lent EXCEPT ![u] = place]
  PROVE  Cardinality(Busy') = Cardinality(Busy) + 1
<1>1. Busy' = Busy \cup {u}
  BY DEF Busy
<1>2. u \notin Busy
  BY DEF Busy
<1> QED BY <1>1, <1>2, BusyFinite, FS_AddElement

\* A user whose guard or reservation ends is one less.
LEMMA OneLess ==
  ASSUME NEW u \in Users, lent[u] # "none", lent \in [Users -> {"none", "opening", "held"}],
         lent' = [lent EXCEPT ![u] = "none"]
  PROVE  Cardinality(Busy') = Cardinality(Busy) - 1
<1>1. Busy' = Busy \ {u}
  BY DEF Busy
<1>2. u \in Busy
  BY DEF Busy
<1> QED BY <1>1, <1>2, BusyFinite, FS_RemoveElement

\* Whoever holds a guard or a reservation is counted.
LEMMA BusyPositive ==
  ASSUME PoolTypeOK, Balanced, NEW u \in Users, lent[u] # "none"
  PROVE  active >= 1 /\ total >= 1 /\ ~ Underflow
<1>1. u \in Busy
  BY DEF Busy
<1>2. Cardinality(Busy) # 0
  BY <1>1, BusyFinite, FS_EmptySet
<1>3. active # 0
  BY <1>2 DEF Balanced, Busy
<1>4. active \in Nat /\ total \in Nat /\ Len(idle) \in Nat
  BY DEF PoolTypeOK
<1> QED BY <1>3, <1>4 DEF Balanced, Underflow

\* The empty pool.
LEMMA InitPool == PoolInit => PoolInv
<1> SUFFICES ASSUME PoolInit PROVE PoolInv
  OBVIOUS
<1>1. PoolTypeOK
  BY DEF PoolInit, PoolTypeOK
<1>2. {u \in Users : lent[u] # "none"} = {}
  BY DEF PoolInit
<1>3. Balanced
  BY <1>2, FS_EmptySet DEF PoolInit, Balanced
<1>4. NoStaleIdle
  BY DEF PoolInit, NoStaleIdle
<1> QED BY <1>1, <1>3, <1>4 DEF PoolInv

LEMMA BorrowPool ==
  ASSUME PoolInv, NEW u \in Users, BorrowIdle(u) \/ \E server \in Servers : Reserve(u, server)
  PROVE  PoolInv'
<1> USE DEF PoolInv
<1>1. CASE BorrowIdle(u)
  <2>1. idle # <<>> /\ idle \in Seq(Transport) /\ Len(idle) \in Nat /\ Len(idle) > 0
    BY <1>1 DEF BorrowIdle, PoolTypeOK
  <2>2. Head(idle) \in Transport /\ Tail(idle) \in Seq(Transport) /\ Len(Tail(idle)) = Len(idle) - 1
    BY <2>1
  <2>3. Head(idle) # NoTransport
    BY <2>2, NoServerDistinct DEF Transport, NoTransport
  <2>4. PoolTypeOK'
    BY <1>1, <2>2, <2>3 DEF BorrowIdle, PoolTypeOK
  <2>5. Cardinality(Busy') = Cardinality(Busy) + 1
    BY <1>1, OneMore DEF BorrowIdle, PoolTypeOK
  <2>6. Balanced'
    BY <1>1, <2>1, <2>2, <2>5 DEF BorrowIdle, Balanced, Busy, PoolTypeOK
  <2>7. \A i \in DOMAIN Tail(idle) : i + 1 \in DOMAIN idle /\ Tail(idle)[i] = idle[i + 1]
    BY <2>1
  <2>8. NoStaleIdle'
    BY <1>1, <2>7 DEF BorrowIdle, NoStaleIdle
  <2> QED BY <2>4, <2>6, <2>8
<1>2. CASE \E server \in Servers : Reserve(u, server)
  <2>1. PICK server \in Servers : Reserve(u, server)
    BY <1>2
  <2>2. Fresh(server) \in Transport /\ Fresh(server) # NoTransport
    BY NoServerDistinct DEF Fresh, Transport, NoTransport
  <2>3. PoolTypeOK'
    BY <2>1, <2>2 DEF Reserve, PoolTypeOK
  <2>4. Cardinality(Busy') = Cardinality(Busy) + 1
    BY <2>1, OneMore DEF Reserve, PoolTypeOK
  <2>5. Len(idle) \in Nat
    BY DEF PoolTypeOK
  <2>6. Balanced'
    BY <2>1, <2>4, <2>5 DEF Reserve, Balanced, Busy, PoolTypeOK
  <2>7. NoStaleIdle'
    BY <2>1 DEF Reserve, NoStaleIdle
  <2> QED BY <2>3, <2>6, <2>7
<1> QED BY <1>1, <1>2

LEMMA OpenPool ==
  ASSUME PoolInv, NEW u \in Users, Opened(u) \/ UseFails(u)
  PROVE  PoolInv'
<1> USE DEF PoolInv
<1>1. lent[u] # "none" /\ conn[u] \in Transport
  BY DEF Opened, UseFails, PoolTypeOK
<1>2. [conn[u] EXCEPT !.broken = TRUE] \in Transport
  BY <1>1 DEF Transport
<1>3. [conn[u] EXCEPT !.broken = TRUE] # NoTransport
  BY <1>2, NoServerDistinct DEF Transport, NoTransport
<1>4. PoolTypeOK'
  BY <1>1, <1>2, <1>3 DEF Opened, UseFails, PoolTypeOK
<1>5. {v \in Users : lent'[v] # "none"} = {v \in Users : lent[v] # "none"}
  BY DEF Opened, UseFails, PoolTypeOK
<1>6. Balanced'
  BY <1>5 DEF Opened, UseFails, Balanced
<1>7. NoStaleIdle'
  BY DEF Opened, UseFails, NoStaleIdle
<1> QED BY <1>4, <1>6, <1>7

LEMMA ReleasePool ==
  ASSUME PoolInv, NEW u \in Users, ReleaseReservation(u)
  PROVE  PoolInv'
<1> USE DEF PoolInv
<1>1. lent[u] # "none" /\ active \in Nat /\ total \in Nat /\ Len(idle) \in Nat
  BY DEF ReleaseReservation, PoolTypeOK
<1>2. active >= 1 /\ total >= 1 /\ ~ Underflow
  BY <1>1, BusyPositive
<1>3. active' = active - 1 /\ total' = total - 1 /\ idle' = idle
  BY <1>2 DEF ReleaseReservation
<1>4. PoolTypeOK'
  BY <1>1, <1>2, <1>3 DEF ReleaseReservation, Forget, PoolTypeOK
<1>5. Cardinality(Busy') = Cardinality(Busy) - 1
  BY <1>1, OneLess DEF ReleaseReservation, Forget, PoolTypeOK
<1>6. Balanced'
  BY <1>1, <1>3, <1>5 DEF Balanced, Busy
<1>7. NoStaleIdle'
  BY <1>3 DEF NoStaleIdle
<1> QED BY <1>4, <1>6, <1>7

\* The end of a guard, returned or discarded.
LEMMA SettlePool ==
  ASSUME PoolInv, NEW u \in Users, lent[u] = "held", NEW reusable \in BOOLEAN,
         Settle(u, reusable), reusable => conn[u].current
  PROVE  PoolInv'
<1> USE DEF PoolInv
<1>1. conn[u] \in Transport /\ active \in Nat /\ total \in Nat /\ Len(idle) \in Nat
  BY DEF PoolTypeOK
<1>2. active >= 1 /\ total >= 1 /\ ~ Underflow
  BY BusyPositive
<1>3. /\ active' = active - 1
      /\ IF reusable THEN idle' = Append(idle, conn[u]) /\ total' = total
                     ELSE total' = total - 1 /\ idle' = idle
  BY <1>2 DEF Settle
<1>4. idle' \in Seq(Transport) /\ Len(idle') = Len(idle) + (IF reusable THEN 1 ELSE 0)
  BY <1>1, <1>3 DEF PoolTypeOK
<1>5. PoolTypeOK'
  BY <1>1, <1>2, <1>3, <1>4 DEF Settle, Forget, PoolTypeOK
<1>6. Cardinality(Busy') = Cardinality(Busy) - 1
  BY OneLess DEF Settle, Forget, PoolTypeOK
<1>7. Balanced'
  BY <1>1, <1>3, <1>4, <1>6 DEF Balanced, Busy
<1>8. NoStaleIdle'
  <2>1. CASE reusable
    <3> SUFFICES ASSUME NEW i \in DOMAIN idle' PROVE idle'[i].current
      BY DEF NoStaleIdle
    <3>1. CASE i \in DOMAIN idle
      BY <1>3, <2>1, <3>1 DEF NoStaleIdle, PoolTypeOK
    <3>2. CASE i \notin DOMAIN idle
      BY <1>1, <1>3, <2>1, <3>2 DEF PoolTypeOK
    <3> QED BY <3>1, <3>2
  <2>2. CASE ~ reusable
    BY <1>3, <2>2 DEF NoStaleIdle
  <2> QED BY <2>1, <2>2
<1> QED BY <1>5, <1>7, <1>8

LEMMA CloseAllPool ==
  ASSUME PoolInv, CloseAll
  PROVE  PoolInv'
<1> USE DEF PoolInv
<1>1. active \in Nat /\ Len(idle) \in Nat /\ total' = active
  BY DEF PoolTypeOK, Balanced, CloseAll
<1>2. \A u \in Users : conn'[u] = [conn[u] EXCEPT !.current = FALSE]
  BY DEF CloseAll
<1>3. ASSUME NEW u \in Users
      PROVE  /\ conn'[u] \in Transport \cup {NoTransport}
             /\ conn'[u] = NoTransport <=> conn[u] = NoTransport
  <2>1. CASE conn[u] = NoTransport
    BY <1>2, <2>1 DEF NoTransport
  <2>2. CASE conn[u] \in Transport
    <3>1. conn'[u] \in Transport
      BY <1>2, <2>2 DEF Transport
    <3>2. conn'[u] # NoTransport /\ conn[u] # NoTransport
      BY <2>2, <3>1, NoServerDistinct DEF Transport, NoTransport
    <3> QED BY <3>1, <3>2
  <2> QED BY <2>1, <2>2 DEF PoolTypeOK
<1>4. PoolTypeOK'
  BY <1>1, <1>3 DEF CloseAll, PoolTypeOK
<1>5. Balanced'
  BY <1>1 DEF CloseAll, Balanced
<1>6. NoStaleIdle'
  BY DEF CloseAll, NoStaleIdle
<1> QED BY <1>4, <1>5, <1>6

LEMMA PushPool ==
  ASSUME PoolInv, NEW server \in Servers, Push(server)
  PROVE  PoolInv'
<1> USE DEF PoolInv
<1>1. Fresh(server) \in Transport /\ Fresh(server).current
  BY DEF Fresh, Transport
<1>2. Len(idle) \in Nat /\ idle' = Append(idle, Fresh(server)) /\ total' = total + 1
  BY DEF Push, PoolTypeOK
<1>3. Len(idle') = Len(idle) + 1 /\ idle' \in Seq(Transport)
  BY <1>1, <1>2 DEF PoolTypeOK
<1>4. PoolTypeOK'
  BY <1>2, <1>3 DEF Push, PoolTypeOK
<1>5. Balanced'
  BY <1>2, <1>3 DEF Push, Balanced, PoolTypeOK
<1>6. NoStaleIdle'
  BY <1>1, <1>2 DEF NoStaleIdle, PoolTypeOK
<1> QED BY <1>4, <1>5, <1>6

LEMMA NextPool ==
  ASSUME PoolInv, PoolNext
  PROVE  PoolInv'
<1>1. ASSUME NEW u \in Users, BorrowIdle(u) \/ \E server \in Servers : Reserve(u, server)
      PROVE  PoolInv'
  BY <1>1, BorrowPool
<1>2. ASSUME NEW u \in Users, Opened(u) \/ UseFails(u)
      PROVE  PoolInv'
  BY <1>2, OpenPool
<1>3. ASSUME NEW u \in Users, ReleaseReservation(u)
      PROVE  PoolInv'
  BY <1>3, ReleasePool
<1>4. ASSUME NEW u \in Users, Discard(u)
      PROVE  PoolInv'
  BY <1>4, SettlePool DEF Discard
<1>5. ASSUME NEW u \in Users, NEW open \in BOOLEAN, Return(u, open)
      PROVE  PoolInv'
  <2>1. Reusable(u, open) \in BOOLEAN /\ (Reusable(u, open) => conn[u].current)
    <3>1. conn[u] \in Transport
      BY <1>5 DEF Return, PoolInv, PoolTypeOK
    <3> QED BY <3>1 DEF Reusable, Transport
  <2> QED BY <1>5, <2>1, SettlePool DEF Return
<1>6. ASSUME CloseAll PROVE PoolInv'
  BY <1>6, CloseAllPool
<1>7. ASSUME NEW server \in Servers, Push(server) PROVE PoolInv'
  BY <1>7, PushPool
<1> QED BY <1>1, <1>2, <1>3, <1>4, <1>5, <1>6, <1>7 DEF PoolNext

\* Whatever order users call the pool in, its fields keep their types, its
\* counters are exact and no closed transport waits to be lent
\* (settle_return_state, release_reservation, close_all).
THEOREM PoolInvariance == PoolSpec => []PoolInv
<1>1. PoolInv /\ [PoolNext]_poolVars => PoolInv'
  <2> SUFFICES ASSUME PoolInv, [PoolNext]_poolVars PROVE PoolInv'
    OBVIOUS
  <2>1. CASE PoolNext
    BY <2>1, NextPool
  <2>2. CASE UNCHANGED poolVars
    BY <2>2 DEF poolVars, PoolInv, PoolTypeOK, Balanced, NoStaleIdle
  <2> QED BY <2>1, <2>2
<1> QED BY <1>1, InitPool, PTL DEF PoolSpec

-----------------------------------------------------------------------------
(* The client: local variables *)

\* What a thread's local variables hold where it is: an endpoint where one is
\* used, and an attempt left where a retry follows.
ThreadOK(r) ==
  /\ r.pc \in {"cloning", "borrowing", "closing", "pushing"} => r.target \in Servers
  /\ r.pc = "rotating" => r.attempt < MaxAttempts
  /\ r.call = "request" /\ r.pc \in {"closing", "pushing", "marking", "naming"}
       => r.attempt < MaxAttempts

HeartOK == heart.pc \in {"borrowing", "adding"} => heart.target \in Servers

LocalInv == ClientTypeOK /\ (\A t \in Threads : ThreadOK(thread[t])) /\ HeartOK

\* One thread's variables change.
LEMMA ThreadUpdate ==
  ASSUME LocalInv, NEW t \in Threads, NEW r \in ThreadRecord, ThreadOK(r),
         thread' = [thread EXCEPT ![t] = r]
  PROVE  /\ thread' \in [Threads -> ThreadRecord]
         /\ \A v \in Threads : ThreadOK(thread'[v])
  BY DEF LocalInv, ClientTypeOK

\* Goto keeps the other local variables.
LEMMA GotoUpdate ==
  ASSUME LocalInv, NEW t \in Threads, NEW pc \in Places, Goto(t, pc),
         ThreadOK([thread[t] EXCEPT !.pc = pc])
  PROVE  /\ thread' \in [Threads -> ThreadRecord]
         /\ \A v \in Threads : ThreadOK(thread'[v])
<1>1. thread[t] \in ThreadRecord
  BY DEF LocalInv, ClientTypeOK
<1>2. [thread[t] EXCEPT !.pc = pc] \in ThreadRecord
  BY <1>1 DEF ThreadRecord
<1>3. thread' = [thread EXCEPT ![t] = [thread[t] EXCEPT !.pc = pc]]
  BY DEF Goto
<1> QED BY <1>2, <1>3, ThreadUpdate

LEMMA FreeOK == Free \in ThreadRecord /\ ThreadOK(Free)
  BY AttemptsPositive DEF Free, Begin, ThreadRecord, ThreadOK, Places, Calls

LEMMA FinishUpdate ==
  ASSUME LocalInv, NEW t \in Threads, Finish(t)
  PROVE  /\ thread' \in [Threads -> ThreadRecord]
         /\ \A v \in Threads : ThreadOK(thread'[v])
         /\ failedOn' \in [Threads -> SUBSET Servers]
<1>1. failedOn' \in [Threads -> SUBSET Servers]
  BY DEF Finish, LocalInv, ClientTypeOK
<1> QED BY <1>1, FreeOK, ThreadUpdate DEF Finish

LEMMA WithoutTargetUpdate ==
  ASSUME LocalInv, NEW t \in Threads, NEW pc \in {"using", "opening", "missed", "locking"},
         GotoWithoutTarget(t, pc)
  PROVE  /\ thread' \in [Threads -> ThreadRecord]
         /\ \A v \in Threads : ThreadOK(thread'[v])
<1> DEFINE r == [thread[t] EXCEPT !.pc = pc, !.target = NoServer]
<1>1. thread[t] \in ThreadRecord
  BY DEF LocalInv, ClientTypeOK
<1>2. r \in ThreadRecord /\ ThreadOK(r)
  BY <1>1 DEF ThreadRecord, ThreadOK, Places
<1>3. thread' = [thread EXCEPT ![t] = r]
  BY <1>1 DEF GotoWithoutTarget, ThreadRecord
<1> HIDE DEF r
<1> QED BY <1>2, <1>3, ThreadUpdate

LEMMA RetryUpdate ==
  ASSUME LocalInv, NEW t \in Threads, thread[t].attempt < MaxAttempts, thread' = Retry(t)
  PROVE  /\ thread' \in [Threads -> ThreadRecord]
         /\ \A v \in Threads : ThreadOK(thread'[v])
<1> DEFINE r == [thread[t] EXCEPT !.pc = "asking", !.attempt = thread[t].attempt + 1,
                                  !.target = NoServer]
<1>1. thread[t] \in ThreadRecord
  BY DEF LocalInv, ClientTypeOK
<1>2. thread[t].attempt + 1 \in 0..MaxAttempts
  BY <1>1, AttemptsPositive DEF ThreadRecord
<1>3. r \in ThreadRecord
  BY <1>1, <1>2 DEF ThreadRecord, Places
<1>4. r.pc = "asking"
  BY <1>1 DEF ThreadRecord
<1>5. thread' = [thread EXCEPT ![t] = r]
  BY <1>1 DEF Retry, ThreadRecord
<1> HIDE DEF r
<1>6. ThreadOK(r)
  BY <1>4 DEF ThreadOK
<1> QED BY <1>3, <1>5, <1>6, ThreadUpdate

\* The steps that only move a thread.
LEMMA MoveLocal ==
  ASSUME LocalInv, NEW t \in Threads,
         NEW pc \in Places \ {"cloning", "closing", "rotating", "borrowing", "pushing"},
         Goto(t, pc),
         pc \in {"marking", "naming"} => thread[t].pc \in {"pushing", "marking"}
  PROVE  /\ thread' \in [Threads -> ThreadRecord]
         /\ \A v \in Threads : ThreadOK(thread'[v])
<1>1. thread[t] \in ThreadRecord /\ ThreadOK(thread[t])
  BY DEF LocalInv, ClientTypeOK
<1>2. ThreadOK([thread[t] EXCEPT !.pc = pc])
  BY <1>1 DEF ThreadRecord, ThreadOK
<1> QED BY <1>2, GotoUpdate

LEMMA CurrentServerType == LocalInv => CurrentServer \in Servers
  BY PrimaryIsServer DEF LocalInv, ClientTypeOK, CurrentServer

LEMMA RequestLocal ==
  ASSUME LocalInv, NEW t \in Threads,
         Request(t) \/ AskServer(t) \/ CloneHandle(t) \/ Borrow(t) \/ Open(t)
  PROVE  /\ thread' \in [Threads -> ThreadRecord]
         /\ \A v \in Threads : ThreadOK(thread'[v])
<1>1. thread[t] \in ThreadRecord /\ ThreadOK(thread[t])
  BY DEF LocalInv, ClientTypeOK
<1>2. CASE Request(t)
  <2> DEFINE r == Begin("request", "asking", 1, NoServer)
  <2>1. r \in ThreadRecord /\ ThreadOK(r)
    BY AttemptsPositive DEF Begin, ThreadRecord, ThreadOK, Places, Calls
  <2>2. thread' = [thread EXCEPT ![t] = r]
    BY <1>2 DEF Request
  <2> HIDE DEF r
  <2> QED BY <2>1, <2>2, ThreadUpdate
<1>3. CASE AskServer(t)
  <2> DEFINE r == [thread[t] EXCEPT !.pc = "cloning", !.target = CurrentServer]
  <2>1. r \in ThreadRecord /\ ThreadOK(r)
    BY <1>1, CurrentServerType DEF ThreadRecord, ThreadOK, Places
  <2>2. thread' = [thread EXCEPT ![t] = r]
    BY <1>1, <1>3 DEF AskServer, ThreadRecord
  <2> HIDE DEF r
  <2> QED BY <2>1, <2>2, ThreadUpdate
<1>4. CASE CloneHandle(t)
  <2>1. ThreadOK([thread[t] EXCEPT !.pc = "borrowing"])
    BY <1>1, <1>4 DEF CloneHandle, At, ThreadRecord, ThreadOK
  <2> QED BY <1>4, <2>1, GotoUpdate DEF CloneHandle, Places
<1>5. CASE Borrow(t)
  BY <1>5, WithoutTargetUpdate DEF Borrow
<1>6. CASE Open(t)
  BY <1>6, MoveLocal DEF Open, Places
<1> QED BY <1>2, <1>3, <1>4, <1>5, <1>6

LEMMA FailureLocal ==
  ASSUME LocalInv, PoolTypeOK, NEW t \in Threads,
         Use(t) \/ DiscardFailed(t) \/ Flag(t) \/ Remember(t) \/ Rotate(t)
  PROVE  /\ thread' \in [Threads -> ThreadRecord]
         /\ \A v \in Threads : ThreadOK(thread'[v])
         /\ failedOn' \in [Threads -> SUBSET Servers]
<1>1. thread[t] \in ThreadRecord /\ ThreadOK(thread[t]) /\ failedOn \in [Threads -> SUBSET Servers]
  BY DEF LocalInv, ClientTypeOK
<1>2. CASE Use(t)
  <2>1. CASE Finish(t)
    BY <2>1, FinishUpdate
  <2>2. CASE /\ UseFails(t) /\ Goto(t, "discarding")
             /\ failedOn' = [failedOn EXCEPT ![t] = @ \cup {conn[t].server}]
    <3>1. conn[t].server \in Servers
      BY <2>2 DEF UseFails, PoolTypeOK, Transport, Threads
    <3>2. failedOn' \in [Threads -> SUBSET Servers]
      BY <1>1, <2>2, <3>1
    <3> QED BY <2>2, <3>2, MoveLocal DEF Places
  <2> QED BY <1>2, <2>1, <2>2 DEF Use
<1>3. CASE DiscardFailed(t)
  BY <1>1, <1>3, MoveLocal DEF DiscardFailed, Places
<1>4. CASE Flag(t)
  BY <1>1, <1>4, MoveLocal DEF Flag, Places
<1>5. CASE Remember(t)
  <2>1. CASE AutoRetry /\ thread[t].attempt < MaxAttempts
    <3> DEFINE r == [thread[t] EXCEPT !.pc = "rotating",
                                      !.failed = thread[t].failed \cup ({lastServer} \ {NoServer})]
    <3>1. lastServer \in Servers \cup {NoServer}
      BY DEF LocalInv, ClientTypeOK
    <3>2. thread[t].failed \cup ({lastServer} \ {NoServer}) \in SUBSET Servers
      BY <1>1, <3>1 DEF ThreadRecord
    <3>3. r \in ThreadRecord
      BY <1>1, <3>2 DEF ThreadRecord, Places
    <3>4. r.pc = "rotating" /\ r.attempt < MaxAttempts
      BY <1>1, <2>1 DEF ThreadRecord
    <3>5. thread' = [thread EXCEPT ![t] = r] /\ failedOn' = failedOn
      BY <1>1, <1>5, <2>1 DEF Remember, ThreadRecord
    <3> HIDE DEF r
    <3>6. ThreadOK(r)
      BY <3>4 DEF ThreadOK
    <3> QED BY <1>1, <3>3, <3>5, <3>6, ThreadUpdate
  <2>2. CASE ~ (AutoRetry /\ thread[t].attempt < MaxAttempts)
    BY <1>5, <2>2, FinishUpdate DEF Remember
  <2> QED BY <2>1, <2>2
<1>6. CASE Rotate(t)
  <2>1. thread[t].attempt < MaxAttempts /\ failedOn' = failedOn
    BY <1>1, <1>6 DEF Rotate, At, ThreadOK
  <2>2. CASE thread' = Retry(t)
    BY <1>1, <2>1, <2>2, RetryUpdate
  <2>3. ASSUME NEW server \in Servers,
               thread' = [thread EXCEPT ![t].pc = "closing", ![t].target = server]
        PROVE  /\ thread' \in [Threads -> ThreadRecord]
               /\ \A v \in Threads : ThreadOK(thread'[v])
    <3> DEFINE r == [thread[t] EXCEPT !.pc = "closing", !.target = server]
    <3>1. r \in ThreadRecord /\ ThreadOK(r)
      BY <1>1, <2>1 DEF ThreadRecord, ThreadOK, Places
    <3>2. thread' = [thread EXCEPT ![t] = r]
      BY <1>1, <2>3 DEF ThreadRecord
    <3> HIDE DEF r
    <3> QED BY <3>1, <3>2, ThreadUpdate
  <2> QED BY <1>1, <1>6, <2>1, <2>2, <2>3 DEF Rotate
<1> QED BY <1>2, <1>3, <1>4, <1>5, <1>6

LEMMA ConnectLocal ==
  ASSUME LocalInv, NEW t \in Threads,
         Connect(t) \/ CloseOld(t) \/ PushNew(t) \/ MarkConnected(t) \/ NameServer(t)
  PROVE  /\ thread' \in [Threads -> ThreadRecord]
         /\ \A v \in Threads : ThreadOK(thread'[v])
         /\ failedOn' \in [Threads -> SUBSET Servers]
<1>1. thread[t] \in ThreadRecord /\ ThreadOK(thread[t]) /\ failedOn \in [Threads -> SUBSET Servers]
  BY DEF LocalInv, ClientTypeOK
<1>2. CASE Connect(t)
  <2>1. PICK server \in Servers, call \in {"connect", "connect_to_any"} :
          thread' = [thread EXCEPT ![t] = Begin(call, "closing", 0, server)]
    BY <1>2 DEF Connect
  <2> DEFINE r == Begin(call, "closing", 0, server)
  <2>2. r \in ThreadRecord /\ ThreadOK(r)
    BY AttemptsPositive DEF Begin, ThreadRecord, ThreadOK, Places, Calls
  <2>3. thread' = [thread EXCEPT ![t] = r] /\ failedOn' = failedOn
    BY <1>2, <2>1 DEF Connect
  <2> HIDE DEF r
  <2> QED BY <1>1, <2>2, <2>3, ThreadUpdate
<1>3. CASE CloseOld(t)
  <2>1. ThreadOK([thread[t] EXCEPT !.pc = "pushing"])
    BY <1>1, <1>3 DEF CloseOld, At, ThreadRecord, ThreadOK
  <2> QED BY <1>1, <1>3, <2>1, GotoUpdate DEF CloseOld, Places
<1>4. CASE PushNew(t)
  BY <1>1, <1>4, MoveLocal DEF PushNew, At, Places
<1>5. CASE MarkConnected(t)
  BY <1>1, <1>5, MoveLocal DEF MarkConnected, At, Places
<1>6. CASE NameServer(t)
  <2>1. CASE thread[t].call = "request"
    <3>1. thread' = Retry(t) /\ failedOn' = failedOn
      BY <1>6, <2>1 DEF NameServer
    <3>2. thread[t].attempt < MaxAttempts
      BY <1>1, <1>6, <2>1 DEF NameServer, At, ThreadOK
    <3> QED BY <1>1, <3>1, <3>2, RetryUpdate
  <2>2. CASE thread[t].call = "connect"
    BY <1>1, <1>6, <2>2, WithoutTargetUpdate DEF NameServer
  <2>3. CASE thread[t].call \notin {"request", "connect"}
    BY <1>6, <2>3, FinishUpdate DEF NameServer
  <2> QED BY <2>1, <2>2, <2>3
<1> QED BY <1>2, <1>3, <1>4, <1>5, <1>6

LEMMA HeartbeatLocal ==
  ASSUME LocalInv, NEW t \in Threads,
         Disconnect(t) \/ LockLifecycle(t) \/ Join(t) \/ Empty(t) \/ Leave(t)
  PROVE  /\ thread' \in [Threads -> ThreadRecord]
         /\ \A v \in Threads : ThreadOK(thread'[v])
         /\ failedOn' \in [Threads -> SUBSET Servers]
<1>1. failedOn \in [Threads -> SUBSET Servers]
  BY DEF LocalInv, ClientTypeOK
<1>2. CASE Disconnect(t)
  <2> DEFINE r == Begin("disconnect", "locking", 0, NoServer)
  <2>1. r \in ThreadRecord /\ ThreadOK(r)
    BY AttemptsPositive DEF Begin, ThreadRecord, ThreadOK, Places, Calls
  <2>2. thread' = [thread EXCEPT ![t] = r] /\ failedOn' = failedOn
    BY <1>2 DEF Disconnect
  <2> HIDE DEF r
  <2> QED BY <1>1, <2>1, <2>2, ThreadUpdate
<1>3. CASE LockLifecycle(t)
  BY <1>1, <1>3, MoveLocal DEF LockLifecycle, Places
<1>4. CASE Join(t)
  <2>1. CASE Finish(t)
    BY <2>1, FinishUpdate
  <2>2. CASE Goto(t, "emptying") /\ failedOn' = failedOn
    BY <1>1, <2>2, MoveLocal DEF Places
  <2> QED BY <1>4, <2>1, <2>2 DEF Join
<1>5. CASE Empty(t)
  BY <1>1, <1>5, MoveLocal DEF Empty, Places
<1>6. CASE Leave(t)
  BY <1>6, FinishUpdate DEF Leave
<1> QED BY <1>2, <1>3, <1>4, <1>5, <1>6

LEMMA CallStart == \* Where failedOn is not touched.
  ASSUME NEW t \in Threads,
         Request(t) \/ AskServer(t) \/ CloneHandle(t) \/ Borrow(t) \/ Open(t)
  PROVE  failedOn' = failedOn
  BY DEF Request, AskServer, CloneHandle, Borrow, Open

Calling(t) ==
  \/ Request(t) \/ AskServer(t) \/ CloneHandle(t) \/ Borrow(t) \/ Open(t)
  \/ Use(t) \/ DiscardFailed(t) \/ Flag(t) \/ Remember(t) \/ Rotate(t)
  \/ Connect(t) \/ CloseOld(t) \/ PushNew(t) \/ MarkConnected(t) \/ NameServer(t)
  \/ Disconnect(t) \/ LockLifecycle(t) \/ Join(t) \/ Empty(t) \/ Leave(t)

\* A step of the client is one of a thread in a call or one of the heartbeat.
LEMMA NextSplit == Next => (\E t \in Threads : Calling(t)) \/ HeartStep
  BY DEF Next, Calling, CallStep, LockStep

\* What a thread's step does to the flags, the locks and the heartbeat.
LEMMA CallingShared ==
  ASSUME LocalInv, NEW t \in Threads, Calling(t)
  PROVE  /\ connected' \in BOOLEAN /\ stopping' \in BOOLEAN
         /\ lastServer' \in Servers \cup {NoServer}
         /\ handle' \in Threads \cup {Nobody} /\ lifecycle' \in Threads \cup {Nobody}
         /\ heart' = heart \/ heart' = [pc |-> "waiting", target |-> NoServer]
<1>1. /\ connected \in BOOLEAN /\ stopping \in BOOLEAN
      /\ lastServer \in Servers \cup {NoServer}
      /\ handle \in Threads \cup {Nobody} /\ lifecycle \in Threads \cup {Nobody}
      /\ thread[t].target \in Servers \cup {NoServer}
  BY DEF LocalInv, ClientTypeOK, ThreadRecord
<1>2. CASE Request(t) \/ AskServer(t) \/ CloneHandle(t) \/ Borrow(t) \/ Open(t)
             \/ Use(t) \/ DiscardFailed(t) \/ Remember(t) \/ Rotate(t) \/ Connect(t)
             \/ Disconnect(t) \/ Empty(t)
  BY <1>1, <1>2 DEF Request, AskServer, CloneHandle, Borrow, Open, Use, DiscardFailed, Remember,
                    Rotate, Connect, Disconnect, Empty
<1>3. CASE Flag(t) \/ CloseOld(t) \/ PushNew(t) \/ MarkConnected(t) \/ NameServer(t) \/ Leave(t)
  BY <1>1, <1>3 DEF Flag, CloseOld, PushNew, MarkConnected, NameServer, Leave
<1>4. CASE LockLifecycle(t) \/ Join(t)
  BY <1>1, <1>4 DEF LockLifecycle, Join, HeartAt, HeartGotoWithoutTarget
<1> QED BY <1>2, <1>3, <1>4 DEF Calling

LEMMA HeartLocal ==
  ASSUME LocalInv, HeartStep
  PROVE  /\ heart' \in HeartRecord /\ HeartOK'
         /\ connected' \in BOOLEAN /\ lastServer' \in Servers \cup {NoServer}
         /\ UNCHANGED <<handle, lifecycle, stopping, thread, failedOn>>
<1>1. /\ heart \in HeartRecord /\ connected \in BOOLEAN
      /\ lastServer \in Servers \cup {NoServer} /\ CurrentServer \in Servers
  BY CurrentServerType DEF LocalInv, ClientTypeOK
<1>2. ASSUME NEW pc \in HeartPlaces \ {"borrowing", "adding"}, HeartGoto(pc)
      PROVE  heart' \in HeartRecord /\ HeartOK'
  BY <1>1, <1>2 DEF HeartGoto, HeartRecord, HeartOK
<1>3. ASSUME NEW pc \in HeartPlaces \ {"borrowing", "adding"}, HeartGotoWithoutTarget(pc)
      PROVE  heart' \in HeartRecord /\ HeartOK'
  BY <1>3 DEF HeartGotoWithoutTarget, HeartRecord, HeartOK
<1>4. CASE HeartTick
  <2>1. CASE stopping
    BY <1>1, <1>3, <1>4, <2>1 DEF HeartTick, HeartPlaces, HeartUnchanged
  <2>2. CASE ~ stopping
    BY <1>1, <1>4, <2>2 DEF HeartTick, HeartPlaces, HeartRecord, HeartOK, HeartUnchanged
  <2> QED BY <2>1, <2>2
<1>5. CASE HeartSeek
  <2>1. ASSUME NEW server \in Servers, heart' = [pc |-> "adding", target |-> server]
        PROVE  heart' \in HeartRecord /\ HeartOK'
    BY <2>1 DEF HeartRecord, HeartPlaces, HeartOK
  <2> QED BY <1>1, <1>3, <1>5, <2>1 DEF HeartSeek, HeartPlaces, HeartUnchanged
<1>6. CASE HeartBorrow \/ HeartOpen \/ HeartCheck
  BY <1>1, <1>2, <1>3, <1>6 DEF HeartBorrow, HeartOpen, HeartCheck, HeartPlaces, HeartUnchanged
<1>7. CASE HeartDown \/ HeartClear \/ HeartAdd \/ HeartMark \/ HeartDrop
  BY <1>1, <1>2, <1>3, <1>7 DEF HeartDown, HeartClear, HeartAdd, HeartMark, HeartDrop,
                                HeartPlaces, HeartUnchanged
<1>8. CASE HeartName
  <2>1. heart.target \in Servers \cup {NoServer}
    BY <1>1 DEF HeartRecord
  <2> QED BY <1>1, <1>3, <1>8, <2>1 DEF HeartName, HeartPlaces, HeartUnchanged
<1> QED BY <1>4, <1>5, <1>6, <1>7, <1>8 DEF HeartStep

LEMMA NextLocal ==
  ASSUME LocalInv, PoolTypeOK, Next
  PROVE  LocalInv'
<1>1. ASSUME NEW t \in Threads, Calling(t)
      PROVE  LocalInv'
  <2>1. /\ thread' \in [Threads -> ThreadRecord]
        /\ \A v \in Threads : ThreadOK(thread'[v])
        /\ failedOn' \in [Threads -> SUBSET Servers]
    <3>1. CASE Request(t) \/ AskServer(t) \/ CloneHandle(t) \/ Borrow(t) \/ Open(t)
      BY <3>1, RequestLocal, CallStart DEF LocalInv, ClientTypeOK
    <3>2. CASE Use(t) \/ DiscardFailed(t) \/ Flag(t) \/ Remember(t) \/ Rotate(t)
      BY <3>2, FailureLocal
    <3>3. CASE Connect(t) \/ CloseOld(t) \/ PushNew(t) \/ MarkConnected(t) \/ NameServer(t)
      BY <3>3, ConnectLocal
    <3>4. CASE Disconnect(t) \/ LockLifecycle(t) \/ Join(t) \/ Empty(t) \/ Leave(t)
      BY <3>4, HeartbeatLocal
    <3> QED BY <1>1, <3>1, <3>2, <3>3, <3>4 DEF Calling
  <2>2. heart' \in HeartRecord /\ HeartOK'
    BY <1>1, CallingShared DEF LocalInv, ClientTypeOK, HeartRecord, HeartPlaces, HeartOK
  <2> QED BY <1>1, <2>1, <2>2, CallingShared DEF LocalInv, ClientTypeOK
<1>2. ASSUME HeartStep PROVE LocalInv'
  BY <1>2, HeartLocal DEF LocalInv, ClientTypeOK
<1> QED BY <1>1, <1>2, NextSplit

LEMMA InitLocal == Init => LocalInv
<1> SUFFICES ASSUME Init PROVE LocalInv
  OBVIOUS
<1>1. thread \in [Threads -> ThreadRecord] /\ \A t \in Threads : ThreadOK(thread[t])
  BY FreeOK DEF Init
<1>2. heart \in HeartRecord /\ HeartOK
  BY DEF Init, HeartRecord, HeartPlaces, HeartOK
<1> QED BY <1>1, <1>2 DEF Init, LocalInv, ClientTypeOK

\* Every step of the client is a step of the pool or none.
LEMMA ClientUsesPool ==
  ASSUME LocalInv, Next
  PROVE  PoolNext \/ UNCHANGED poolVars
<1>1. ASSUME NEW t \in Threads, Calling(t)
      PROVE  PoolNext \/ UNCHANGED poolVars
  <2>1. CASE Request(t) \/ AskServer(t) \/ CloneHandle(t) \/ Flag(t) \/ Remember(t)
               \/ Rotate(t) \/ Connect(t) \/ MarkConnected(t) \/ NameServer(t)
               \/ Disconnect(t) \/ LockLifecycle(t) \/ Join(t) \/ Leave(t)
    BY <2>1 DEF Request, AskServer, CloneHandle, Flag, Remember, Rotate, Connect,
                MarkConnected, NameServer, Disconnect, LockLifecycle, Join, Leave
  <2>2. CASE Borrow(t) \/ PushNew(t)
    <3>1. thread[t].target \in Servers
      BY <2>2 DEF Borrow, PushNew, At, LocalInv, ThreadOK
    <3> QED BY <2>2, <3>1 DEF Borrow, PushNew, PoolNext, Threads
  <2>3. CASE Open(t) \/ Use(t) \/ DiscardFailed(t) \/ CloseOld(t) \/ Empty(t)
    BY <2>3 DEF Open, Use, DiscardFailed, CloseOld, Empty, PoolNext, Threads
  <2> QED BY <1>1, <2>1, <2>2, <2>3 DEF Calling
<1>2. ASSUME HeartStep
      PROVE  PoolNext \/ UNCHANGED poolVars
  <2>1. CASE HeartTick \/ HeartDown \/ HeartSeek \/ HeartName \/ HeartMark
    BY <2>1 DEF HeartTick, HeartDown, HeartSeek, HeartName, HeartMark
  <2>2. CASE HeartBorrow \/ HeartAdd
    <3>1. heart.target \in Servers
      BY <2>2 DEF HeartBorrow, HeartAdd, HeartAt, LocalInv, HeartOK
    <3> QED BY <2>2, <3>1, HeartIsUser DEF HeartBorrow, HeartAdd, PoolNext
  <2>3. CASE HeartOpen \/ HeartCheck \/ HeartClear \/ HeartDrop
    BY <2>3, HeartIsUser DEF HeartOpen, HeartCheck, HeartClear, HeartDrop, PoolNext
  <2> QED BY <1>2, <2>1, <2>2, <2>3 DEF HeartStep
<1> QED BY <1>1, <1>2, NextSplit

-----------------------------------------------------------------------------
(* Failed transports *)

Mourning == {"seeking", "adding", "naming", "marking", "dropping"}

FailInv ==
  /\ FailedNeverIdle
  /\ \A t \in Threads : conn[t].broken => thread[t].pc = "discarding"
  /\ conn[Heart].broken =>
       \/ heart.pc \in {"down", "clearing"}
       \/ heart.pc \in Mourning /\ ~ conn[Heart].current

\* Lending a transport or a place brings no failed transport anywhere.
LEMMA LendClean ==
  ASSUME PoolTypeOK, FailedNeverIdle, NEW u \in Users, NEW server,
         BorrowIdle(u) \/ Reserve(u, server) \/ Opened(u) \/ ReleaseReservation(u)
  PROVE  /\ FailedNeverIdle'
         /\ conn'[u].broken => conn[u].broken
         /\ \A v \in Users \ {u} : conn'[v] = conn[v]
<1>1. conn = [v \in Users |-> conn[v]] /\ idle \in Seq(Transport)
  BY DEF PoolTypeOK
<1>2. CASE BorrowIdle(u)
  <2>1. \A i \in DOMAIN Tail(idle) : i + 1 \in DOMAIN idle /\ Tail(idle)[i] = idle[i + 1]
    BY <1>1, <1>2 DEF BorrowIdle
  <2>2. FailedNeverIdle'
    BY <1>2, <2>1 DEF BorrowIdle, FailedNeverIdle
  <2>3. Head(idle) = idle[1] /\ 1 \in DOMAIN idle
    BY <1>1, <1>2 DEF BorrowIdle
  <2> QED BY <1>1, <1>2, <2>2, <2>3 DEF BorrowIdle, FailedNeverIdle
<1>3. CASE Reserve(u, server)
  BY <1>1, <1>3 DEF Reserve, FailedNeverIdle, Fresh
<1>4. CASE Opened(u) \/ ReleaseReservation(u)
  BY <1>1, <1>4 DEF Opened, ReleaseReservation, Forget, FailedNeverIdle, NoTransport
<1> QED BY <1>2, <1>3, <1>4

\* The end of a guard whose transport is not failed, or not reused.
LEMMA SettleClean ==
  ASSUME PoolTypeOK, FailedNeverIdle, NEW u \in Users, NEW reusable \in BOOLEAN,
         Settle(u, reusable), reusable => ~ conn[u].broken
  PROVE  /\ FailedNeverIdle'
         /\ ~ conn'[u].broken
         /\ \A v \in Users \ {u} : conn'[v] = conn[v]
<1>1. conn = [v \in Users |-> conn[v]] /\ idle \in Seq(Transport)
  BY DEF PoolTypeOK
<1>2. ~ conn'[u].broken /\ \A v \in Users \ {u} : conn'[v] = conn[v]
  BY <1>1 DEF Settle, Forget, NoTransport
<1>3. idle' = idle \/ (reusable /\ idle' = Append(idle, conn[u]))
  BY DEF Settle
<1>4. CASE idle' = idle
  BY <1>2, <1>4 DEF FailedNeverIdle
<1>5. CASE reusable /\ idle' = Append(idle, conn[u])
  <2>1. \A i \in DOMAIN idle' : (i \in DOMAIN idle /\ idle'[i] = idle[i]) \/ idle'[i] = conn[u]
    BY <1>1, <1>5
  <2> QED BY <1>2, <1>5, <2>1 DEF FailedNeverIdle
<1> QED BY <1>3, <1>4, <1>5

\* close_all brings none either, and leaves nothing of the pool's generation.
LEMMA CloseAllClean ==
  ASSUME PoolTypeOK, CloseAll
  PROVE  /\ FailedNeverIdle'
         /\ \A v \in Users : conn'[v].broken = conn[v].broken /\ ~ conn'[v].current
<1>1. \A v \in Users : conn[v] \in Transport \cup {NoTransport}
  BY DEF PoolTypeOK
<1>2. FailedNeverIdle'
  BY DEF CloseAll, FailedNeverIdle
<1>3. ASSUME NEW v \in Users
      PROVE  conn'[v].broken = conn[v].broken /\ ~ conn'[v].current
  BY <1>1 DEF CloseAll, Transport, NoTransport
<1> QED BY <1>2, <1>3

\* A pushed transport is new.
LEMMA PushClean ==
  ASSUME PoolTypeOK, FailedNeverIdle, NEW server, Push(server)
  PROVE  FailedNeverIdle' /\ conn' = conn
<1>1. idle \in Seq(Transport)
  BY DEF PoolTypeOK
<1>2. \A i \in DOMAIN idle' : (i \in DOMAIN idle /\ idle'[i] = idle[i]) \/ idle'[i] = Fresh(server)
  BY <1>1 DEF Push
<1>3. FailedNeverIdle'
  BY <1>2 DEF FailedNeverIdle, Fresh
<1> QED BY <1>3 DEF Push

\* A thread changes its own local variables only.
LEMMA OthersKeep ==
  ASSUME LocalInv, NEW t \in Threads, Calling(t), NEW v \in Threads \ {t}
  PROVE  thread'[v] = thread[v]
<1>1. thread = [w \in Threads |-> thread[w]]
  BY DEF LocalInv, ClientTypeOK
<1>2. CASE Request(t) \/ AskServer(t) \/ CloneHandle(t) \/ Borrow(t) \/ Open(t) \/ Use(t)
             \/ DiscardFailed(t) \/ Flag(t)
  BY <1>1, <1>2 DEF Request, AskServer, CloneHandle, Borrow, Open, Use, DiscardFailed, Flag,
                    Goto, GotoWithoutTarget, Finish
<1>3. CASE Remember(t) \/ Rotate(t) \/ Connect(t) \/ CloseOld(t) \/ PushNew(t)
             \/ MarkConnected(t)
  BY <1>1, <1>3 DEF Remember, Rotate, Retry, Connect, CloseOld, PushNew, MarkConnected,
                    Goto, Finish
<1>4. CASE NameServer(t)
  <2>1. thread' = Retry(t) \/ GotoWithoutTarget(t, "locking") \/ Finish(t)
    BY <1>4 DEF NameServer
  <2> QED BY <1>1, <2>1 DEF Retry, GotoWithoutTarget, Finish
<1>5. CASE Disconnect(t) \/ LockLifecycle(t) \/ Join(t) \/ Empty(t) \/ Leave(t)
  BY <1>1, <1>5 DEF Disconnect, LockLifecycle, Join, Empty, Leave, Goto, Finish
<1> QED BY <1>2, <1>3, <1>4, <1>5 DEF Calling

\* What a thread's step does to the transports.
LEMMA CallingClean ==
  ASSUME LocalInv, PoolTypeOK, FailInv, NEW t \in Threads, Calling(t)
  PROVE  /\ FailedNeverIdle'
         /\ conn'[t].broken => thread'[t].pc = "discarding"
         /\ \A v \in Users \ {t} : /\ conn'[v].broken => conn[v].broken
                                   /\ ~ conn[v].current => ~ conn'[v].current
<1>1. thread = [w \in Threads |-> thread[w]] /\ thread[t] \in ThreadRecord /\ t \in Users
  BY DEF LocalInv, ClientTypeOK, Threads
<1>2. conn[t].broken => thread[t].pc = "discarding"
  BY DEF FailInv
<1>3. CASE Request(t) \/ AskServer(t) \/ CloneHandle(t) \/ Flag(t) \/ Remember(t)
             \/ Rotate(t) \/ Connect(t) \/ MarkConnected(t) \/ NameServer(t)
             \/ Disconnect(t) \/ LockLifecycle(t) \/ Join(t) \/ Leave(t)
  <2>1. UNCHANGED poolVars
    BY <1>3 DEF Request, AskServer, CloneHandle, Flag, Remember, Rotate, Connect,
                MarkConnected, NameServer, Disconnect, LockLifecycle, Join, Leave
  <2>2. thread[t].pc # "discarding"
    BY <1>3 DEF Request, AskServer, CloneHandle, Flag, Remember, Rotate, Connect, At,
                MarkConnected, NameServer, Disconnect, LockLifecycle, Join, Leave
  <2> QED BY <1>2, <2>1, <2>2 DEF poolVars, FailInv, FailedNeverIdle
<1>4. CASE Borrow(t) \/ Open(t)
  <2>1. thread[t].pc # "discarding"
    BY <1>4 DEF Borrow, Open, At
  <2>2. CASE UNCHANGED poolVars
    BY <1>2, <2>1, <2>2 DEF poolVars, FailInv, FailedNeverIdle
  <2>3. CASE \/ BorrowIdle(t) \/ Reserve(t, thread[t].target)
             \/ Opened(t) \/ ReleaseReservation(t)
    BY <1>1, <1>2, <2>1, <2>3, LendClean DEF FailInv
  <2> QED BY <1>4, <2>2, <2>3 DEF Borrow, Open
<1>5. CASE Use(t)
  <2>1. ~ conn[t].broken
    BY <1>2, <1>5 DEF Use, At
  <2>2. ASSUME NEW open \in BOOLEAN, Return(t, open)
        PROVE  /\ FailedNeverIdle' /\ ~ conn'[t].broken
               /\ \A v \in Users \ {t} : conn'[v] = conn[v]
    <3>1. Reusable(t, open) \in BOOLEAN
      BY <1>1 DEF Reusable, PoolTypeOK, Transport, NoTransport
    <3> QED BY <1>1, <2>1, <2>2, <3>1, SettleClean DEF Return, FailInv
  <2>3. CASE UseFails(t) /\ Goto(t, "discarding")
    <3>1. thread'[t].pc = "discarding"
      BY <1>1, <2>3 DEF Goto, ThreadRecord
    <3>2. \A v \in Users \ {t} : conn'[v] = conn[v]
      BY <2>3 DEF UseFails, PoolTypeOK
    <3> QED BY <2>3, <3>1, <3>2 DEF UseFails, FailInv, FailedNeverIdle
  <2> QED BY <1>5, <2>2, <2>3 DEF Use
<1>6. CASE DiscardFailed(t)
  BY <1>1, <1>6, SettleClean DEF DiscardFailed, Discard, FailInv
<1>7. CASE CloseOld(t) \/ PushNew(t) \/ Empty(t)
  <2>1. thread[t].pc # "discarding"
    BY <1>7 DEF CloseOld, PushNew, Empty, At
  <2>2. ~ conn[t].broken /\ FailedNeverIdle
    BY <1>2, <2>1 DEF FailInv
  <2>3. CASE CloseAll
    <3>1. FailedNeverIdle' /\ \A v \in Users : conn'[v].broken = conn[v].broken /\ ~ conn'[v].current
      BY <2>3, CloseAllClean
    <3> QED BY <1>1, <2>2, <3>1
  <2>4. CASE Push(thread[t].target)
    <3>1. FailedNeverIdle' /\ conn' = conn
      BY <2>2, <2>4, PushClean
    <3> QED BY <1>1, <2>2, <3>1
  <2> QED BY <1>7, <2>3, <2>4 DEF CloseOld, PushNew, Empty
<1> QED BY <1>3, <1>4, <1>5, <1>6, <1>7 DEF Calling

LEMMA CallingFail ==
  ASSUME LocalInv, PoolTypeOK, FailInv, NEW t \in Threads, Calling(t)
  PROVE  FailInv'
<1>1. heart' = heart \/ heart.pc = "off"
  <2>1. CASE Join(t)
    BY <2>1 DEF Join, HeartAt
  <2>2. CASE ~ Join(t)
    BY <2>2 DEF Calling, Request, AskServer, CloneHandle, Borrow, Open, Use, DiscardFailed,
                Flag, Remember, Rotate, Connect, CloseOld, PushNew, MarkConnected,
                NameServer, Disconnect, LockLifecycle, Empty, Leave
  <2> QED BY <2>1, <2>2
<1>2. Heart \in Users \ {t} /\ Threads \subseteq Users
  BY HeartIsUser DEF Threads
<1>3. /\ FailedNeverIdle'
      /\ conn'[t].broken => thread'[t].pc = "discarding"
      /\ \A v \in Users \ {t} : /\ conn'[v].broken => conn[v].broken
                                /\ ~ conn[v].current => ~ conn'[v].current
  BY CallingClean
<1>4. ASSUME NEW v \in Threads
      PROVE  conn'[v].broken => thread'[v].pc = "discarding"
  <2>1. CASE v = t
    BY <1>3, <2>1
  <2>2. CASE v # t
    <3>1. thread'[v] = thread[v]
      BY <2>2, OthersKeep
    <3>2. conn[v].broken => thread[v].pc = "discarding"
      BY DEF FailInv
    <3>3. v \in Users \ {t}
      BY <1>2, <2>2
    <3>4. conn'[v].broken => conn[v].broken
      BY <1>3, <3>3
    <3> QED BY <3>1, <3>2, <3>4
  <2> QED BY <2>1, <2>2
<1>5. conn'[Heart].broken =>
       \/ heart'.pc \in {"down", "clearing"}
       \/ heart'.pc \in Mourning /\ ~ conn'[Heart].current
  <2>1. /\ conn'[Heart].broken => conn[Heart].broken
        /\ ~ conn[Heart].current => ~ conn'[Heart].current
    BY <1>2, <1>3
  <2>2. conn[Heart].broken =>
         \/ heart.pc \in {"down", "clearing"}
         \/ heart.pc \in Mourning /\ ~ conn[Heart].current
    BY DEF FailInv
  <2>3. conn[Heart].broken => heart' = heart
    BY <1>1, <2>2 DEF Mourning
  <2> QED BY <2>1, <2>2, <2>3
<1> QED BY <1>3, <1>4, <1>5 DEF FailInv

LEMMA HeartFail ==
  ASSUME LocalInv, PoolTypeOK, FailInv, HeartStep
  PROVE  FailInv'
<1>1. heart \in HeartRecord /\ thread' = thread /\ Heart \in Users
      /\ \A t \in Threads : t \in Users \ {Heart}
  BY HeartIsUser, HeartLocal DEF LocalInv, ClientTypeOK, Threads
<1>2. CASE HeartTick \/ HeartDown \/ HeartSeek \/ HeartName \/ HeartMark
  <2>1. UNCHANGED poolVars
    BY <1>2 DEF HeartTick, HeartDown, HeartSeek, HeartName, HeartMark
  <2>2. conn[Heart].broken =>
          \/ heart'.pc \in {"down", "clearing"}
          \/ heart'.pc \in Mourning /\ ~ conn[Heart].current
    BY <1>1, <1>2 DEF HeartTick, HeartDown, HeartSeek, HeartName, HeartMark, HeartAt, HeartGoto,
                      HeartGotoWithoutTarget, HeartRecord, FailInv, Mourning
  <2> QED BY <1>1, <2>1, <2>2 DEF poolVars, FailInv, FailedNeverIdle
<1>3. CASE HeartBorrow \/ HeartOpen
  <2>1. ~ conn[Heart].broken
    BY <1>3 DEF HeartBorrow, HeartOpen, HeartAt, FailInv, Mourning
  <2>2. CASE UNCHANGED poolVars
    BY <1>1, <2>1, <2>2 DEF poolVars, FailInv, FailedNeverIdle
  <2>3. CASE \/ BorrowIdle(Heart) \/ Reserve(Heart, heart.target)
             \/ Opened(Heart) \/ ReleaseReservation(Heart)
    BY <1>1, <2>1, <2>3, LendClean DEF FailInv
  <2> QED BY <1>3, <2>2, <2>3 DEF HeartBorrow, HeartOpen
<1>4. ASSUME NEW open \in BOOLEAN, Return(Heart, open),
             conn[Heart].broken => ~ conn[Heart].current
      PROVE  FailInv'
  <2>1. Reusable(Heart, open) \in BOOLEAN /\ (Reusable(Heart, open) => ~ conn[Heart].broken)
    BY <1>1, <1>4 DEF Reusable, PoolTypeOK, Transport, NoTransport
  <2> QED BY <1>1, <1>4, <2>1, SettleClean DEF Return, FailInv
<1>5. CASE HeartCheck
  <2>1. ~ conn[Heart].broken
    BY <1>5 DEF HeartCheck, HeartAt, FailInv, Mourning
  <2>2. CASE UseFails(Heart) /\ HeartGoto("down")
    <3>1. heart'.pc = "down"
      BY <1>1, <2>2 DEF HeartGoto, HeartRecord
    <3>2. \A v \in Users \ {Heart} : conn'[v] = conn[v]
      BY <2>2 DEF UseFails, PoolTypeOK
    <3>3. FailedNeverIdle'
      BY <2>2 DEF UseFails, FailInv, FailedNeverIdle
    <3> QED BY <1>1, <3>1, <3>2, <3>3 DEF FailInv
  <2> QED BY <1>4, <1>5, <2>1, <2>2 DEF HeartCheck
<1>6. CASE HeartDrop
  BY <1>4, <1>6 DEF HeartDrop, HeartAt, FailInv
<1>7. CASE HeartClear
  <2>1. heart'.pc = "seeking"
    BY <1>1, <1>7 DEF HeartClear, HeartGoto, HeartRecord
  <2>2. FailedNeverIdle' /\ \A v \in Users : conn'[v].broken = conn[v].broken /\ ~ conn'[v].current
    BY <1>7, CloseAllClean DEF HeartClear
  <2>3. \A t \in Threads : conn[t].broken => thread[t].pc = "discarding"
    BY DEF FailInv
  <2>4. \A t \in Threads : conn'[t].broken => thread'[t].pc = "discarding"
    BY <1>1, <2>2, <2>3
  <2> QED BY <1>1, <2>1, <2>2, <2>4 DEF FailInv, Mourning
<1>8. CASE HeartAdd
  <2>1. heart'.pc = "naming" /\ heart.pc = "adding"
    BY <1>1, <1>8 DEF HeartAdd, HeartAt, HeartGoto, HeartRecord
  <2>2. FailedNeverIdle' /\ conn' = conn
    BY <1>8, PushClean DEF HeartAdd, FailInv
  <2>3. /\ \A t \in Threads : conn[t].broken => thread[t].pc = "discarding"
        /\ conn[Heart].broken => ~ conn[Heart].current
    BY <2>1 DEF FailInv
  <2> QED BY <1>1, <2>1, <2>2, <2>3 DEF FailInv, Mourning
<1> QED BY <1>2, <1>3, <1>5, <1>6, <1>7, <1>8 DEF HeartStep

-----------------------------------------------------------------------------
(* The idle queue *)

\* What may still become idle: the transports of the pool's generation that
\* are lent or being opened.
Reusables == {u \in Users : conn[u].current}
Valid == Len(idle) + Cardinality(Reusables)

\* Pushes to come whose close_all is done: a thread's and the heartbeat's.
PushDue == IF handle = Nobody THEN 0 ELSE 1
AddDue == IF heart.pc \in {"seeking", "adding"} THEN 1 ELSE 0

\* A pushing thread has the handle, so there is one; a heartbeat that is about
\* to push has a guard that is counted although its transport is not reused.
DueInv ==
  /\ \A t \in Threads : thread[t].pc = "pushing" => handle = t
  /\ heart.pc \in {"checking", "down", "clearing", "seeking", "adding"} => lent[Heart] # "none"
  /\ heart.pc \in {"seeking", "adding"} => ~ conn[Heart].current

RoomInv == DueInv /\ Valid + PushDue + AddDue <= MaxSize + 1

\* Sets of users that differ by at most one.
LEMMA UserSets ==
  ASSUME NEW S \in SUBSET Users, NEW T \in SUBSET Users, NEW x
  PROVE  /\ Cardinality(S) \in Nat /\ Cardinality(T) \in Nat
         /\ T \subseteq S => Cardinality(T) <= Cardinality(S)
         /\ T \subseteq S \cup {x} => Cardinality(T) <= Cardinality(S) + 1
         /\ x \in S /\ T \subseteq S \ {x} => Cardinality(T) <= Cardinality(S) - 1
<1>1. IsFiniteSet(S) /\ IsFiniteSet(T)
  BY UsersFinite, FS_Subset
<1>2. Cardinality(S) \in Nat /\ Cardinality(T) \in Nat
  BY <1>1, FS_CardinalityType
<1>3. T \subseteq S => Cardinality(T) <= Cardinality(S)
  BY <1>1, FS_Subset
<1>4. ASSUME T \subseteq S \cup {x} PROVE Cardinality(T) <= Cardinality(S) + 1
  <2>1. IsFiniteSet(S \cup {x})
        /\ Cardinality(S \cup {x}) = IF x \in S THEN Cardinality(S) ELSE Cardinality(S) + 1
    BY <1>1, FS_AddElement
  <2>2. Cardinality(T) <= Cardinality(S \cup {x})
    BY <1>4, <2>1, FS_Subset
  <2> QED BY <1>2, <2>1, <2>2
<1>5. ASSUME x \in S, T \subseteq S \ {x} PROVE Cardinality(T) <= Cardinality(S) - 1
  <2>1. IsFiniteSet(S \ {x}) /\ Cardinality(S \ {x}) = Cardinality(S) - 1
    BY <1>1, <1>5, FS_RemoveElement
  <2>2. Cardinality(T) <= Cardinality(S \ {x})
    BY <1>5, <2>1, FS_Subset
  <2> QED BY <2>1, <2>2
<1> QED BY <1>2, <1>3, <1>4, <1>5

LEMMA ValidType ==
  ASSUME PoolTypeOK
  PROVE  /\ Reusables \in SUBSET Busy /\ Busy \in SUBSET Users
         /\ Cardinality(Reusables) \in Nat /\ Len(idle) \in Nat /\ Valid \in Nat
<1>1. Reusables \in SUBSET Busy /\ Busy \in SUBSET Users
  BY DEF PoolTypeOK, Reusables, Busy, NoTransport
<1>2. Cardinality(Reusables) \in Nat
  BY <1>1, UserSets
<1>3. Len(idle) \in Nat
  BY DEF PoolTypeOK
<1> QED BY <1>1, <1>2, <1>3 DEF Valid

LEMMA ValidTypeNext == PoolTypeOK' => Valid' \in Nat
<1> SUFFICES ASSUME PoolTypeOK' PROVE Valid' \in Nat
  OBVIOUS
<1>1. Reusables' \in SUBSET Users
  BY DEF Reusables
<1>2. Cardinality(Reusables') \in Nat
  BY <1>1, UserSets
<1>3. Len(idle') \in Nat
  BY DEF PoolTypeOK
<1> QED BY <1>2, <1>3 DEF Valid

\* The arithmetic of a step: v is what may become idle, p and a the pushes due.
LEMMA RoomSum ==
  ASSUME NEW m \in Nat, NEW v \in Nat, NEW v1 \in Nat,
         NEW p \in {0, 1}, NEW p1 \in {0, 1}, NEW a \in {0, 1}, NEW a1 \in {0, 1},
         v + p + a <= m + 1,
         \/ v1 <= v /\ p1 = p /\ a1 <= a
         \/ v1 = 0 /\ m > 0
         \/ v1 <= m /\ (a1 = 1 => v1 <= m - 1)
         \/ v1 = v + 1 /\ p = 1 /\ p1 = 0 /\ a1 <= a
         \/ v1 = v + 1 /\ a = 1 /\ a1 = 0 /\ p1 = p
  PROVE  v1 + p1 + a1 <= m + 1
<1>1. CASE v1 <= v /\ p1 = p /\ a1 <= a
  <2>1. a = 1 \/ a1 = 0
    BY <1>1
  <2> QED BY <1>1, <2>1
<1>2. CASE v1 = 0 /\ m > 0
  BY <1>2
<1>3. CASE v1 <= m /\ (a1 = 1 => v1 <= m - 1)
  BY <1>3
<1>4. CASE v1 = v + 1 /\ p = 1 /\ p1 = 0 /\ a1 <= a
  <2>1. a = 1 \/ a1 = 0
    BY <1>4
  <2> QED BY <1>4, <2>1
<1>5. CASE v1 = v + 1 /\ a = 1 /\ a1 = 0 /\ p1 = p
  BY <1>5
<1> QED BY <1>1, <1>2, <1>3, <1>4, <1>5

\* The same of the pool and its pushes.
LEMMA RoomKept ==
  ASSUME MaxSize \in Nat, Valid \in Nat, Valid' \in Nat, PushDue \in {0, 1}, PushDue' \in {0, 1},
         AddDue \in {0, 1}, AddDue' \in {0, 1}, Valid + PushDue + AddDue <= MaxSize + 1,
         \/ Valid' <= Valid /\ PushDue' = PushDue /\ AddDue' <= AddDue
         \/ Valid' = 0 /\ MaxSize > 0
         \/ Valid' <= MaxSize /\ (AddDue' = 1 => Valid' <= MaxSize - 1)
         \/ Valid' = Valid + 1 /\ PushDue = 1 /\ PushDue' = 0 /\ AddDue' <= AddDue
         \/ Valid' = Valid + 1 /\ AddDue = 1 /\ AddDue' = 0 /\ PushDue' = PushDue
  PROVE  Valid' + PushDue' + AddDue' <= MaxSize + 1
<1>1. PICK v \in Nat, w \in Nat, p \in {0, 1}, q \in {0, 1}, a \in {0, 1}, b \in {0, 1} :
        v = Valid /\ w = Valid' /\ p = PushDue /\ q = PushDue' /\ a = AddDue /\ b = AddDue'
  OBVIOUS
<1>2. v + p + a <= MaxSize + 1
  BY <1>1
<1>3. \/ w <= v /\ q = p /\ b <= a
      \/ w = 0 /\ MaxSize > 0
      \/ w <= MaxSize /\ (b = 1 => w <= MaxSize - 1)
      \/ w = v + 1 /\ p = 1 /\ q = 0 /\ b <= a
      \/ w = v + 1 /\ a = 1 /\ b = 0 /\ q = p
  BY <1>1
<1>4. w + q + b <= MaxSize + 1
  BY <1>2, <1>3, RoomSum
<1> QED BY <1>1, <1>4

\* A user that is lent an idle transport takes it out of the queue.
LEMMA BorrowRoom ==
  ASSUME PoolInv, NEW u \in Users, BorrowIdle(u)
  PROVE  Valid' <= Valid
<1>1. PoolTypeOK
  BY DEF PoolInv
<1>2. idle \in Seq(Transport) /\ idle # <<>> /\ conn = [v \in Users |-> conn[v]]
  BY <1>1 DEF PoolTypeOK, BorrowIdle
<1>3. Len(idle') = Len(idle) - 1
  BY <1>2 DEF BorrowIdle
<1>4. Reusables' \in SUBSET Users /\ Reusables' \subseteq Reusables \cup {u}
  BY <1>2 DEF BorrowIdle, Reusables
<1>5. /\ Cardinality(Reusables') <= Cardinality(Reusables) + 1
      /\ Cardinality(Reusables') \in Nat
  BY <1>1, <1>4, ValidType, UserSets
<1> QED BY <1>1, <1>3, <1>5, ValidType DEF Valid

\* A reservation is given only while the counters leave room, and a lent
\* transport that is not reused takes a place of its own.
LEMMA ReserveRoom ==
  ASSUME PoolInv, PoolInv', NEW u \in Users, NEW server \in Servers, Reserve(u, server)
  PROVE  /\ Valid' <= MaxSize
         /\ \A v \in Users : lent'[v] # "none" /\ ~ conn'[v].current => Valid' <= MaxSize - 1
<1>1. PoolTypeOK /\ PoolTypeOK' /\ Balanced'
  BY DEF PoolInv
<1>2. idle' = <<>> /\ total' <= MaxSize /\ Len(idle') = 0
  BY <1>1, MaxSizeNatural DEF Reserve, PoolTypeOK
<1>3. Cardinality(Busy') = total'
  BY <1>1, <1>2 DEF Balanced, Busy, PoolTypeOK
<1>4. /\ Reusables' \in SUBSET Users /\ Busy' \in SUBSET Users /\ Reusables' \subseteq Busy'
  BY <1>1 DEF PoolTypeOK, Reusables, Busy, NoTransport
<1>5. /\ Cardinality(Reusables') \in Nat /\ Cardinality(Busy') \in Nat
      /\ Cardinality(Reusables') <= Cardinality(Busy')
  BY <1>4, UserSets
<1>6. Valid' = Cardinality(Reusables')
  BY <1>2, <1>5 DEF Valid
<1>7. ASSUME NEW v \in Users, lent'[v] # "none", ~ conn'[v].current
      PROVE  Valid' <= MaxSize - 1
  <2>1. v \in Busy' /\ Reusables' \subseteq Busy' \ {v}
    BY <1>4, <1>7 DEF Busy, Reusables
  <2>2. Cardinality(Reusables') <= Cardinality(Busy') - 1
    BY <1>4, <2>1, UserSets
  <2> QED BY <1>2, <1>3, <1>5, <1>6, <2>2, MaxSizeNatural
<1> QED BY <1>2, <1>3, <1>5, <1>6, <1>7, MaxSizeNatural

\* Nothing becomes reusable when a connection is open, fails or is given up.
LEMMA OpenRoom ==
  ASSUME PoolInv, NEW u \in Users, Opened(u) \/ UseFails(u) \/ ReleaseReservation(u)
  PROVE  Valid' <= Valid
<1>1. PoolTypeOK
  BY DEF PoolInv
<1>2. idle' = idle
  BY DEF Opened, UseFails, ReleaseReservation
<1>3. Reusables' \in SUBSET Reusables
  <2>1. conn = [v \in Users |-> conn[v]]
    BY <1>1 DEF PoolTypeOK
  <2>2. CASE Opened(u)
    BY <2>2 DEF Opened, Reusables
  <2>3. CASE ReleaseReservation(u)
    BY <2>1, <2>3 DEF ReleaseReservation, Forget, NoTransport, Reusables
  <2>4. CASE UseFails(u)
    <3>1. conn[u] \in Transport
      BY <1>1, <2>4 DEF UseFails, PoolTypeOK
    <3>2. conn' = [conn EXCEPT ![u] = [conn[u] EXCEPT !.broken = TRUE]]
      BY <2>4 DEF UseFails
    <3>3. \A v \in Users : conn'[v].current = conn[v].current
      BY <2>1, <3>1, <3>2 DEF Transport
    <3> QED BY <3>3 DEF Reusables
  <2> QED BY <2>2, <2>3, <2>4
<1>4. Reusables \in SUBSET Users
  BY DEF Reusables
<1>5. Cardinality(Reusables') <= Cardinality(Reusables) /\ Cardinality(Reusables') \in Nat
  BY <1>3, <1>4, UserSets
<1> QED BY <1>1, <1>2, <1>5, ValidType DEF Valid

\* A returned transport moves from its guard to the queue, or is closed.
LEMMA SettleRoom ==
  ASSUME PoolInv, NEW u \in Users, lent[u] = "held", NEW reusable \in BOOLEAN,
         Settle(u, reusable), reusable => conn[u].current
  PROVE  Valid' <= Valid
<1>1. PoolTypeOK /\ Balanced
  BY DEF PoolInv
<1>2. ~ Underflow
  BY <1>1, BusyPositive
<1>3. conn = [v \in Users |-> conn[v]] /\ conn[u] \in Transport /\ idle \in Seq(Transport)
  BY <1>1 DEF PoolTypeOK
<1>4. Reusables' = Reusables \ {u} /\ Reusables \in SUBSET Users
  BY <1>3 DEF Settle, Forget, NoTransport, Reusables
<1>5. CASE reusable
  <2>1. u \in Reusables
    BY <1>5 DEF Reusables
  <2>2. Len(idle') = Len(idle) + 1
    BY <1>2, <1>3, <1>5 DEF Settle
  <2>3. Cardinality(Reusables') <= Cardinality(Reusables) - 1 /\ Cardinality(Reusables') \in Nat
    BY <1>4, <2>1, UserSets
  <2> QED BY <1>1, <2>2, <2>3, ValidType DEF Valid
<1>6. CASE ~ reusable
  <2>1. idle' = idle
    BY <1>2, <1>6 DEF Settle
  <2>2. Cardinality(Reusables') <= Cardinality(Reusables) /\ Cardinality(Reusables') \in Nat
    BY <1>4, UserSets
  <2> QED BY <1>1, <2>1, <2>2, ValidType DEF Valid
<1> QED BY <1>5, <1>6

LEMMA CloseAllRoom ==
  ASSUME PoolTypeOK, CloseAll
  PROVE  Valid' = 0
<1>1. \A v \in Users : ~ conn'[v].current
  BY CloseAllClean
<1>2. Reusables' = {} /\ idle' = <<>>
  BY <1>1 DEF CloseAll, Reusables
<1> QED BY <1>2, FS_EmptySet DEF Valid

LEMMA PushRoom ==
  ASSUME PoolTypeOK, NEW server, Push(server)
  PROVE  Valid' = Valid + 1
<1>1. Len(idle') = Len(idle) + 1 /\ Reusables' = Reusables
  BY DEF Push, PoolTypeOK, Reusables
<1> QED BY <1>1, ValidType DEF Valid

\* A thread leaves other users' guards alone, and the heartbeat where it is
\* unless it starts it.
LEMMA CallingDue ==
  ASSUME LocalInv, PoolTypeOK, FailInv, DueInv, NEW t \in Threads, Calling(t)
  PROVE  /\ DueInv' /\ AddDue' <= AddDue
         /\ \A v \in Users \ {t} : lent'[v] = lent[v]
<1>1. heart' = heart \/ heart' = [pc |-> "waiting", target |-> NoServer]
  BY CallingShared
<1>2. Heart \in Users \ {t} /\ Threads \subseteq Users
  BY HeartIsUser DEF Threads
<1>3. \A v \in Users \ {t} : lent'[v] = lent[v]
  <2>1. lent = [v \in Users |-> lent[v]]
    BY DEF PoolTypeOK
  <2>2. CASE Borrow(t) \/ Open(t) \/ Use(t) \/ DiscardFailed(t)
    BY <2>1, <2>2 DEF Borrow, Open, Use, DiscardFailed, BorrowIdle, Reserve, Opened, poolVars,
                      ReleaseReservation, Return, UseFails, Discard, Settle, Forget
  <2>3. CASE CloseOld(t) \/ PushNew(t) \/ Empty(t)
    BY <2>3 DEF CloseOld, PushNew, Empty, CloseAll, Push
  <2>4. CASE Request(t) \/ AskServer(t) \/ CloneHandle(t) \/ Flag(t) \/ Remember(t)
               \/ Rotate(t) \/ Connect(t) \/ MarkConnected(t) \/ NameServer(t)
               \/ Disconnect(t) \/ LockLifecycle(t) \/ Join(t) \/ Leave(t)
    BY <2>4 DEF Request, AskServer, CloneHandle, Flag, Remember, Rotate, Connect, poolVars,
                MarkConnected, NameServer, Disconnect, LockLifecycle, Join, Leave
  <2> QED BY <2>2, <2>3, <2>4 DEF Calling
<1>4. lent'[Heart] = lent[Heart] /\ (~ conn[Heart].current => ~ conn'[Heart].current)
  BY <1>2, <1>3, CallingClean
<1>5. ASSUME NEW v \in Threads, thread'[v].pc = "pushing"
      PROVE  handle' = v
  <2>1. thread = [w \in Threads |-> thread[w]] /\ \A w \in Threads : thread[w] \in ThreadRecord
    BY DEF LocalInv, ClientTypeOK
  <2>2. CASE v = t
    <3>1. CASE CloseOld(t)
      BY <2>2, <3>1 DEF CloseOld
    <3>2. CASE Request(t) \/ AskServer(t) \/ CloneHandle(t) \/ Borrow(t) \/ Open(t) \/ Use(t)
      BY <1>5, <2>1, <2>2, <3>2 DEF Request, AskServer, CloneHandle, Borrow, Open, Use, Begin,
                        Goto, GotoWithoutTarget, Finish, Free, ThreadRecord
    <3>3. CASE DiscardFailed(t) \/ Flag(t) \/ Remember(t) \/ Connect(t)
      BY <1>5, <2>1, <2>2, <3>3 DEF DiscardFailed, Flag, Remember, Connect, Begin,
                        Goto, Finish, Free, ThreadRecord
    <3>4. CASE Rotate(t)
      <4>1. CASE thread' = Retry(t)
        <5>1. thread'[t].pc = "asking"
          BY <2>1, <4>1 DEF Retry, ThreadRecord
        <5> QED BY <1>5, <2>2, <5>1
      <4>2. ASSUME NEW server \in Servers,
                   thread' = [thread EXCEPT ![t].pc = "closing", ![t].target = server]
            PROVE  handle' = v
        <5>1. thread'[t].pc = "closing"
          BY <2>1, <4>2 DEF ThreadRecord
        <5> QED BY <1>5, <2>2, <5>1
      <4> QED BY <3>4, <4>1, <4>2 DEF Rotate
    <3>5. CASE PushNew(t) \/ MarkConnected(t) \/ Disconnect(t) \/ LockLifecycle(t) \/ Join(t)
               \/ Empty(t) \/ Leave(t)
      BY <1>5, <2>1, <2>2, <3>5 DEF PushNew, MarkConnected, Disconnect, LockLifecycle, Join,
                        Empty, Leave, Begin, Goto, Finish, Free, ThreadRecord
    <3>6. CASE NameServer(t)
      <4>1. thread' = Retry(t) \/ GotoWithoutTarget(t, "locking") \/ Finish(t)
        BY <3>6 DEF NameServer
      <4> QED BY <1>5, <2>1, <2>2, <4>1 DEF Retry, GotoWithoutTarget, Finish, Free, Begin, ThreadRecord
    <3> QED BY <3>1, <3>2, <3>3, <3>4, <3>5, <3>6 DEF Calling
  <2>3. CASE v # t
    <3>1. handle = v
      BY <1>5, <2>3, OthersKeep DEF DueInv
    <3>2. ~ CloseOld(t) /\ ~ PushNew(t)
      BY <2>3, <3>1, NobodyDistinct DEF CloseOld, PushNew, At, DueInv, Threads
    <3>3. handle' = handle
      BY <3>2 DEF Calling, Request, AskServer, CloneHandle, Borrow, Open, Use, DiscardFailed,
                  Flag, Remember, Rotate, Connect, MarkConnected, NameServer, Disconnect,
                  LockLifecycle, Join, Empty, Leave
    <3> QED BY <3>1, <3>3
  <2> QED BY <2>2, <2>3
<1>6. DueInv' /\ AddDue' <= AddDue
  BY <1>1, <1>4, <1>5 DEF DueInv, AddDue
<1> QED BY <1>3, <1>6

LEMMA CallingRoom ==
  ASSUME LocalInv, PoolInv, PoolInv', FailInv, RoomInv, MaxSize > 0, NEW t \in Threads, Calling(t)
  PROVE  RoomInv'
<1>1. PoolTypeOK /\ PoolTypeOK' /\ DueInv /\ Valid + PushDue + AddDue <= MaxSize + 1
  BY DEF PoolInv, RoomInv
<1>2. /\ DueInv' /\ AddDue' <= AddDue
      /\ \A v \in Users \ {t} : lent'[v] = lent[v]
  BY <1>1, CallingDue
<1>3. /\ Valid \in Nat /\ Valid' \in Nat /\ MaxSize \in Nat /\ t \in Users
      /\ PushDue \in {0, 1} /\ PushDue' \in {0, 1} /\ AddDue \in {0, 1} /\ AddDue' \in {0, 1}
  BY <1>1, ValidType, ValidTypeNext, MaxSizeNatural DEF PushDue, AddDue, Threads
<1>4. ASSUME Valid' <= Valid, handle' = handle
      PROVE  RoomInv'
  <2>1. PushDue' = PushDue
    BY <1>4 DEF PushDue
  <2>2. Valid' + PushDue' + AddDue' <= MaxSize + 1
    BY <1>1, <1>2, <1>3, <1>4, <2>1, RoomKept
  <2> QED BY <1>2, <2>2 DEF RoomInv
<1>5. ASSUME CloseAll PROVE RoomInv'
  <2>1. Valid' = 0
    BY <1>1, <1>5, CloseAllRoom
  <2>2. Valid' + PushDue' + AddDue' <= MaxSize + 1
    BY <1>1, <1>3, <2>1, RoomKept
  <2> QED BY <1>2, <2>2 DEF RoomInv
<1>6. CASE Request(t) \/ AskServer(t) \/ CloneHandle(t) \/ Flag(t) \/ Remember(t)
             \/ Rotate(t) \/ Connect(t) \/ MarkConnected(t) \/ NameServer(t)
             \/ Disconnect(t) \/ LockLifecycle(t) \/ Join(t) \/ Leave(t)
  <2>1. UNCHANGED poolVars /\ handle' = handle
    BY <1>6 DEF Request, AskServer, CloneHandle, Flag, Remember, Rotate, Connect,
                MarkConnected, NameServer, Disconnect, LockLifecycle, Join, Leave
  <2>2. Valid' = Valid
    BY <2>1 DEF poolVars, Valid, Reusables
  <2> QED BY <1>3, <1>4, <2>1, <2>2
<1>7. CASE Borrow(t)
  <2>1. handle' = handle /\ heart' = heart
    BY <1>7 DEF Borrow
  <2>2. CASE UNCHANGED poolVars
    <3>1. Valid' = Valid
      BY <2>2 DEF poolVars, Valid, Reusables
    <3> QED BY <1>3, <1>4, <2>1, <3>1
  <2>3. CASE BorrowIdle(t)
    BY <1>3, <1>4, <2>1, <2>3, BorrowRoom
  <2>4. CASE Reserve(t, thread[t].target)
    <3>1. thread[t].target \in Servers
      BY <1>7 DEF Borrow, At, LocalInv, ThreadOK
    <3>2. /\ Valid' <= MaxSize
          /\ \A v \in Users : lent'[v] # "none" /\ ~ conn'[v].current => Valid' <= MaxSize - 1
      BY <1>3, <2>4, <3>1, ReserveRoom
    <3>3. AddDue' = 1 => Valid' <= MaxSize - 1
      BY <1>2, <3>2, HeartIsUser DEF AddDue, DueInv
    <3>4. Valid' + PushDue' + AddDue' <= MaxSize + 1
      BY <1>1, <1>3, <3>2, <3>3, RoomKept
    <3> QED BY <1>2, <3>4 DEF RoomInv
  <2> QED BY <1>7, <2>2, <2>3, <2>4 DEF Borrow
<1>8. CASE Open(t) \/ Use(t) \/ DiscardFailed(t)
  <2>1. handle' = handle
    BY <1>8 DEF Open, Use, DiscardFailed
  <2>2. CASE Opened(t) \/ UseFails(t) \/ ReleaseReservation(t)
    BY <1>3, <1>4, <2>1, <2>2, OpenRoom
  <2>3. ASSUME NEW open \in BOOLEAN, Return(t, open) PROVE RoomInv'
    <3>1. Reusable(t, open) \in BOOLEAN /\ (Reusable(t, open) => conn[t].current)
      BY <1>1, <1>3 DEF Reusable, PoolTypeOK, Transport, NoTransport
    <3> QED BY <1>3, <1>4, <2>1, <2>3, <3>1, SettleRoom DEF Return
  <2>4. CASE Discard(t)
    BY <1>3, <1>4, <2>1, <2>4, SettleRoom DEF Discard
  <2> QED BY <1>8, <2>2, <2>3, <2>4 DEF Open, Use, DiscardFailed
<1>9. CASE CloseOld(t) \/ Empty(t)
  BY <1>5, <1>9 DEF CloseOld, Empty
<1>10. CASE PushNew(t)
  <2>1. Valid' = Valid + 1
    BY <1>1, <1>10, PushRoom DEF PushNew
  <2>2. PushDue = 1 /\ PushDue' = 0
    BY <1>1, <1>10, NobodyDistinct DEF PushNew, At, DueInv, PushDue, Threads
  <2>3. Valid' + PushDue' + AddDue' <= MaxSize + 1
    BY <1>1, <1>2, <1>3, <2>1, <2>2, RoomKept
  <2> QED BY <1>2, <2>3 DEF RoomInv
<1> QED BY <1>6, <1>7, <1>8, <1>9, <1>10 DEF Calling

LEMMA HeartRoom ==
  ASSUME LocalInv, PoolInv, PoolInv', RoomInv, MaxSize > 0, HeartStep
  PROVE  RoomInv'
<1>1. /\ PoolTypeOK /\ PoolTypeOK' /\ DueInv /\ Valid + PushDue + AddDue <= MaxSize + 1
      /\ heart \in HeartRecord /\ Heart \in Users
  BY HeartIsUser DEF PoolInv, RoomInv, LocalInv, ClientTypeOK
<1>2. /\ handle' = handle /\ thread' = thread /\ PushDue' = PushDue
      /\ \A t \in Threads : thread'[t].pc = "pushing" => handle' = t
  BY <1>1, HeartLocal DEF PushDue, DueInv
<1>3. /\ Valid \in Nat /\ Valid' \in Nat /\ MaxSize \in Nat
      /\ PushDue \in {0, 1} /\ PushDue' \in {0, 1} /\ AddDue \in {0, 1} /\ AddDue' \in {0, 1}
  BY <1>1, ValidType, ValidTypeNext, MaxSizeNatural DEF PushDue, AddDue
<1>4. ASSUME heart'.pc \in {"off", "waiting", "borrowing", "opening", "marking", "naming", "dropping"},
             Valid' <= Valid
      PROVE  RoomInv'
  <2>1. AddDue' = 0 /\ DueInv'
    BY <1>2, <1>4 DEF AddDue, DueInv
  <2>2. AddDue' <= AddDue
    BY <1>3, <2>1
  <2>3. Valid' + PushDue' + AddDue' <= MaxSize + 1
    BY <1>1, <1>2, <1>3, <1>4, <2>2, RoomKept
  <2> QED BY <2>1, <2>3 DEF RoomInv
<1>5. ASSUME heart'.pc \in {"checking", "down", "clearing"}, lent'[Heart] # "none", Valid' <= Valid
      PROVE  RoomInv'
  <2>1. AddDue' = 0 /\ DueInv'
    BY <1>2, <1>5 DEF AddDue, DueInv
  <2>2. AddDue' <= AddDue
    BY <1>3, <2>1
  <2>3. Valid' + PushDue' + AddDue' <= MaxSize + 1
    BY <1>1, <1>2, <1>3, <1>5, <2>2, RoomKept
  <2> QED BY <2>1, <2>3 DEF RoomInv
<1>6. ASSUME NEW open \in BOOLEAN, Return(Heart, open) PROVE Valid' <= Valid
  <2>1. Reusable(Heart, open) \in BOOLEAN /\ (Reusable(Heart, open) => conn[Heart].current)
    BY <1>1 DEF Reusable, PoolTypeOK, Transport, NoTransport
  <2> QED BY <1>1, <1>6, <2>1, SettleRoom DEF Return
<1>7. CASE HeartTick \/ HeartDown \/ HeartName \/ HeartMark
  <2>1. UNCHANGED poolVars
    BY <1>7 DEF HeartTick, HeartDown, HeartName, HeartMark
  <2>2. Valid' <= Valid
    BY <1>3, <2>1 DEF poolVars, Valid, Reusables
  <2>3. CASE HeartTick \/ HeartName \/ HeartMark
    BY <1>1, <1>4, <2>2, <2>3 DEF HeartTick, HeartName, HeartMark, HeartGoto, HeartGotoWithoutTarget,
                                  HeartRecord
  <2>4. CASE HeartDown
    BY <1>1, <1>5, <2>1, <2>2, <2>4 DEF HeartDown, HeartAt, HeartGoto, HeartRecord, DueInv, poolVars
  <2> QED BY <1>7, <2>3, <2>4
<1>8. CASE HeartBorrow
  <2>1. CASE Exhausted /\ HeartGotoWithoutTarget("waiting") /\ UNCHANGED poolVars
    <3>1. Valid' <= Valid
      BY <1>3, <2>1 DEF poolVars, Valid, Reusables
    <3> QED BY <1>4, <2>1, <3>1 DEF HeartGotoWithoutTarget
  <2>2. CASE BorrowIdle(Heart) /\ HeartGoto("checking")
    BY <1>1, <1>5, <2>2, BorrowRoom DEF HeartGoto, HeartRecord, BorrowIdle, PoolTypeOK
  <2>3. CASE Reserve(Heart, heart.target) /\ HeartGoto("opening")
    <3>1. heart.target \in Servers
      BY <1>8 DEF HeartBorrow, HeartAt, LocalInv, HeartOK
    <3>2. Valid' <= MaxSize
      BY <1>1, <2>3, <3>1, ReserveRoom
    <3>3. heart'.pc = "opening"
      BY <1>1, <2>3 DEF HeartGoto, HeartRecord
    <3>4. AddDue' = 0 /\ DueInv'
      BY <1>2, <3>3 DEF AddDue, DueInv
    <3>5. Valid' <= MaxSize /\ (AddDue' = 1 => Valid' <= MaxSize - 1)
      BY <3>2, <3>4
    <3>6. Valid' + PushDue' + AddDue' <= MaxSize + 1
      BY <1>1, <1>3, <3>5, RoomKept
    <3> QED BY <3>4, <3>6 DEF RoomInv
  <2> QED BY <1>8, <2>1, <2>2, <2>3 DEF HeartBorrow
<1>9. CASE HeartOpen
  <2>1. CASE Opened(Heart) /\ HeartGoto("checking")
    BY <1>1, <1>5, <2>1, OpenRoom DEF HeartGoto, HeartRecord, Opened, PoolTypeOK
  <2>2. CASE ReleaseReservation(Heart) /\ HeartGotoWithoutTarget("waiting")
    BY <1>1, <1>4, <2>2, OpenRoom DEF HeartGotoWithoutTarget
  <2> QED BY <1>9, <2>1, <2>2 DEF HeartOpen
<1>10. CASE HeartCheck
  <2>1. CASE UseFails(Heart) /\ HeartGoto("down")
    BY <1>1, <1>5, <2>1, OpenRoom DEF HeartGoto, HeartRecord, UseFails
  <2>2. CASE (\E open \in BOOLEAN : Return(Heart, open)) /\ HeartGotoWithoutTarget("waiting")
    BY <1>4, <1>6, <2>2 DEF HeartGotoWithoutTarget
  <2> QED BY <1>10, <2>1, <2>2 DEF HeartCheck
<1>11. CASE HeartClear
  <2>1. Valid' = 0
    BY <1>1, <1>11, CloseAllRoom DEF HeartClear
  <2>2. /\ ~ conn'[Heart].current /\ lent'[Heart] # "none" /\ heart'.pc = "seeking"
    BY <1>1, <1>11, CloseAllClean DEF HeartClear, CloseAll, HeartAt, HeartGoto, HeartRecord, DueInv
  <2>3. DueInv'
    BY <1>2, <2>2 DEF DueInv
  <2>4. Valid' + PushDue' + AddDue' <= MaxSize + 1
    BY <1>1, <1>3, <2>1, RoomKept
  <2> QED BY <2>3, <2>4 DEF RoomInv
<1>12. CASE HeartSeek
  <2>1. UNCHANGED poolVars /\ heart.pc = "seeking"
    BY <1>12 DEF HeartSeek, HeartAt
  <2>2. Valid' <= Valid
    BY <1>3, <2>1 DEF poolVars, Valid, Reusables
  <2>3. CASE heart'.pc = "dropping"
    BY <1>4, <2>2, <2>3
  <2>4. CASE heart'.pc = "adding"
    <3>1. AddDue' = AddDue /\ DueInv'
      BY <1>1, <1>2, <2>1, <2>4 DEF AddDue, DueInv, poolVars
    <3>2. AddDue' <= AddDue
      BY <1>3, <3>1
    <3>3. Valid' + PushDue' + AddDue' <= MaxSize + 1
      BY <1>1, <1>2, <1>3, <2>2, <3>2, RoomKept
    <3> QED BY <3>1, <3>3 DEF RoomInv
  <2> QED BY <1>12, <2>3, <2>4 DEF HeartSeek, HeartGotoWithoutTarget
<1>13. CASE HeartAdd
  <2>1. Valid' = Valid + 1
    BY <1>1, <1>13, PushRoom DEF HeartAdd
  <2>2. AddDue = 1 /\ AddDue' = 0 /\ DueInv'
    BY <1>1, <1>2, <1>13 DEF HeartAdd, HeartAt, HeartGoto, HeartRecord, AddDue, DueInv
  <2>3. Valid' + PushDue' + AddDue' <= MaxSize + 1
    BY <1>1, <1>2, <1>3, <2>1, <2>2, RoomKept
  <2> QED BY <2>2, <2>3 DEF RoomInv
<1>14. CASE HeartDrop
  BY <1>4, <1>6, <1>14 DEF HeartDrop, HeartGotoWithoutTarget
<1> QED BY <1>7, <1>8, <1>9, <1>10, <1>11, <1>12, <1>13, <1>14 DEF HeartStep

-----------------------------------------------------------------------------
(* The client: who waits for whom *)

\* The two mutexes are held where the code holds them, and whoever has the
\* heartbeat's has told the worker it joins to stop: concurrent connects never
\* stop one worker and join another (client.rs:647-649).
LockInv ==
  /\ \A t \in Threads : At(t, "pushing") <=> handle = t
  /\ \A t \in Threads : At(t, "joining") <=> lifecycle = t
  /\ lifecycle # Nobody => HeartAt("off") \/ stopping

\* The thread is in a call whose next step needs a lock another thread has, or
\* the end of the heartbeat.
Waiting(t) ==
  \/ At(t, "cloning") /\ handle # Nobody
  \/ At(t, "closing") /\ handle # Nobody
  \/ At(t, "emptying") /\ handle # Nobody
  \/ At(t, "locking") /\ lifecycle # Nobody
  \/ At(t, "joining") /\ (~ HeartAt("off") \/ (thread[t].call = "connect" /\ handle # Nobody))

\* A thread that waits does so, in the end, for the heartbeat, which waits for
\* nobody and is told to stop, or for another thread that can go on.
NoCircularWait ==
  \A t \in Threads : Waiting(t) =>
    \/ stopping /\ ~ HeartAt("off")
    \/ \E v \in Threads \ {t} : ~ At(v, "free") /\ ~ Waiting(v)

LEMMA InitLock == Init => LockInv
BY NobodyDistinct DEF Init, LockInv, At, Free, Begin, Threads

\* The steps that take or release no lock leave every thread outside the
\* places where one is held.
LEMMA ElsewhereLock ==
  ASSUME LocalInv, LockInv, NEW t \in Threads, Calling(t),
         UNCHANGED <<handle, lifecycle, stopping, heart>>,
         thread[t].pc \notin {"pushing", "joining"}, thread'[t].pc \notin {"pushing", "joining"}
  PROVE  LockInv'
<1>1. \A v \in Threads \ {t} : thread'[v] = thread[v]
  BY OthersKeep
<1> QED BY <1>1 DEF LockInv, At, HeartAt

LEMMA CallingLock ==
  ASSUME LocalInv, LockInv, NEW t \in Threads, Calling(t)
  PROVE  LockInv'
<1>1. thread = [w \in Threads |-> thread[w]] /\ \A w \in Threads : thread[w] \in ThreadRecord
  BY DEF LocalInv, ClientTypeOK
<1>2. \A v \in Threads \ {t} : thread'[v] = thread[v]
  BY OthersKeep
<1>3. t # Nobody
  BY NobodyDistinct DEF Threads
<1>4. CASE Request(t) \/ AskServer(t) \/ CloneHandle(t) \/ Borrow(t) \/ Open(t) \/ Use(t)
  BY <1>1, <1>4, ElsewhereLock DEF Request, AskServer, CloneHandle, Borrow, Open, Use, At, Begin,
                    Goto, GotoWithoutTarget, Finish, Free, ThreadRecord
<1>5. CASE DiscardFailed(t) \/ Flag(t) \/ Remember(t) \/ Connect(t)
  BY <1>1, <1>5, ElsewhereLock DEF DiscardFailed, Flag, Remember, Connect, At, Begin,
                    Goto, Finish, Free, ThreadRecord
<1>6. CASE Rotate(t)
  <2>1. ASSUME thread' = Retry(t) PROVE thread'[t].pc = "asking"
    BY <1>1, <2>1 DEF Retry, ThreadRecord
  <2>2. ASSUME NEW server \in Servers,
               thread' = [thread EXCEPT ![t].pc = "closing", ![t].target = server]
        PROVE  thread'[t].pc = "closing"
    BY <1>1, <2>2 DEF ThreadRecord
  <2> QED BY <1>6, <2>1, <2>2, ElsewhereLock DEF Rotate, At
<1>7. CASE MarkConnected(t) \/ Disconnect(t) \/ Empty(t) \/ Leave(t)
  BY <1>1, <1>7, ElsewhereLock DEF MarkConnected, Disconnect, Empty, Leave, At, Begin,
                    Goto, Finish, Free, ThreadRecord
<1>8. CASE NameServer(t)
  <2>1. thread' = Retry(t) \/ GotoWithoutTarget(t, "locking") \/ Finish(t)
    BY <1>8 DEF NameServer
  <2>2. thread'[t].pc \in {"asking", "locking", "free"}
    BY <1>1, <2>1 DEF Retry, GotoWithoutTarget, Finish, Free, Begin, ThreadRecord
  <2> QED BY <1>8, <2>2, ElsewhereLock DEF NameServer, At
<1>9. CASE CloseOld(t)
  <2>1. /\ handle = Nobody /\ handle' = t /\ thread[t].pc = "closing" /\ thread'[t].pc = "pushing"
        /\ UNCHANGED <<lifecycle, stopping, heart>>
    BY <1>1, <1>9 DEF CloseOld, At, Goto, ThreadRecord
  <2>2. \A v \in Threads : v # Nobody
    BY NobodyDistinct DEF Threads
  <2>3. \A v \in Threads : thread'[v].pc = "pushing" <=> handle' = v
    BY <1>2, <2>1, <2>2 DEF LockInv, At
  <2>4. \A v \in Threads : thread'[v].pc = "joining" <=> lifecycle' = v
    BY <1>2, <2>1 DEF LockInv, At
  <2> QED BY <2>1, <2>3, <2>4 DEF LockInv, At, HeartAt
<1>10. CASE PushNew(t)
  <2>1. /\ handle = t /\ handle' = Nobody /\ thread[t].pc = "pushing" /\ thread'[t].pc = "marking"
        /\ UNCHANGED <<lifecycle, stopping, heart>>
    BY <1>1, <1>10 DEF PushNew, At, Goto, ThreadRecord, LockInv
  <2> QED BY <1>2, <1>3, <2>1, NobodyDistinct DEF LockInv, At, HeartAt, Threads
<1>11. CASE LockLifecycle(t)
  <2>1. /\ lifecycle = Nobody /\ lifecycle' = t
        /\ thread[t].pc = "locking" /\ thread'[t].pc = "joining"
        /\ stopping' = ~ HeartAt("off") /\ UNCHANGED <<handle, heart>>
    BY <1>1, <1>11 DEF LockLifecycle, At, Goto, ThreadRecord
  <2>2. \A v \in Threads : v # Nobody
    BY NobodyDistinct DEF Threads
  <2>3. \A v \in Threads : thread'[v].pc = "pushing" <=> handle' = v
    BY <1>2, <2>1 DEF LockInv, At
  <2>4. \A v \in Threads : thread'[v].pc = "joining" <=> lifecycle' = v
    BY <1>2, <2>1, <2>2 DEF LockInv, At
  <2>5. heart'.pc = "off" \/ stopping'
    <3>1. CASE heart.pc = "off"
      BY <2>1, <3>1
    <3>2. CASE heart.pc # "off"
      BY <2>1, <3>2 DEF HeartAt
    <3> QED BY <3>1, <3>2
  <2> QED BY <2>3, <2>4, <2>5 DEF LockInv, At, HeartAt
<1>12. CASE Join(t)
  <2>1. /\ lifecycle = t /\ lifecycle' = Nobody /\ thread[t].pc = "joining"
        /\ thread'[t].pc \in {"free", "emptying"} /\ handle' = handle
    BY <1>1, <1>12 DEF Join, At, Goto, Finish, Free, Begin, ThreadRecord, LockInv
  <2> QED BY <1>2, <1>3, <2>1, NobodyDistinct DEF LockInv, At, HeartAt, Threads
<1> QED BY <1>4, <1>5, <1>6, <1>7, <1>8, <1>9, <1>10, <1>11, <1>12 DEF Calling

\* The heartbeat takes no lock, and a worker that has ended is not the one that
\* runs on.
LEMMA HeartLock ==
  ASSUME LocalInv, LockInv, HeartStep
  PROVE  LockInv'
<1>1. UNCHANGED <<handle, lifecycle, stopping, thread>>
  BY HeartLocal
<1>2. ~ HeartAt("off")
  BY DEF HeartStep, HeartAt, HeartTick, HeartBorrow, HeartOpen, HeartCheck, HeartDown, HeartClear,
         HeartSeek, HeartAdd, HeartName, HeartMark, HeartDrop
<1> QED BY <1>1, <1>2 DEF LockInv, At

\* What the locks say, a waiting thread's partner follows from.
LEMMA LockOrder == LocalInv /\ LockInv => NoCircularWait
<1> SUFFICES ASSUME LocalInv, LockInv, NEW t \in Threads, Waiting(t), ~ (stopping /\ ~ HeartAt("off"))
             PROVE  \E v \in Threads \ {t} : ~ At(v, "free") /\ ~ Waiting(v)
  BY DEF NoCircularWait
<1>1. handle \in Threads \cup {Nobody} /\ lifecycle \in Threads \cup {Nobody}
  BY DEF LocalInv, ClientTypeOK
<1>2. ASSUME handle # Nobody PROVE /\ handle \in Threads \ {t}
                                   /\ ~ At(handle, "free") /\ ~ Waiting(handle)
  BY <1>1, <1>2 DEF LockInv, At, Waiting
<1>3. CASE handle # Nobody
  BY <1>2, <1>3
<1>4. CASE handle = Nobody
  <2>1. At(t, "locking") /\ lifecycle # Nobody
    <3>1. ~ At(t, "joining") \/ HeartAt("off")
      BY <1>1, NobodyDistinct DEF LockInv, Threads
    <3> QED BY <1>4, <3>1 DEF Waiting
  <2>2. lifecycle \in Threads \ {t} /\ At(lifecycle, "joining") /\ HeartAt("off")
    BY <1>1, <2>1 DEF LockInv, At
  <2> QED BY <1>4, <2>2 DEF At, Waiting
<1> QED BY <1>3, <1>4

-----------------------------------------------------------------------------
ClientInv == PoolInv /\ LocalInv /\ FailInv

\* The inductive invariant of the client.
THEOREM ClientInvariance == Spec => []ClientInv
<1>1. Init => ClientInv
  <2> SUFFICES ASSUME Init PROVE ClientInv
    OBVIOUS
  <2>1. FailInv
    BY HeartIsUser DEF Init, PoolInit, FailInv, FailedNeverIdle, NoTransport, Threads
  <2> QED BY <2>1, InitPool, InitLocal DEF Init, ClientInv
<1>2. ClientInv /\ [Next]_vars => ClientInv'
  <2> SUFFICES ASSUME ClientInv, [Next]_vars PROVE ClientInv'
    OBVIOUS
  <2>1. CASE Next
    <3>1. PoolInv /\ LocalInv /\ FailInv /\ PoolTypeOK
      BY DEF ClientInv, PoolInv
    <3>2. PoolInv'
      BY <2>1, <3>1, ClientUsesPool, NextPool
         DEF poolVars, PoolInv, PoolTypeOK, Balanced, NoStaleIdle
    <3>3. LocalInv'
      BY <2>1, <3>1, NextLocal
    <3>4. FailInv'
      BY <2>1, <3>1, NextSplit, CallingFail, HeartFail
    <3> QED BY <3>2, <3>3, <3>4 DEF ClientInv
  <2>2. CASE UNCHANGED vars
    BY <2>2 DEF vars, poolVars, clientVars, ClientInv, PoolInv, PoolTypeOK, Balanced, NoStaleIdle,
                LocalInv, ClientTypeOK, HeartOK, ThreadOK, FailInv, FailedNeverIdle
  <2> QED BY <2>1, <2>2
<1> QED BY <1>1, <1>2, PTL DEF Spec

\* Every behaviour of the client uses the pool as its specification allows.
THEOREM ClientImplementsPool == Spec => PoolSpec
<1>1. Init => PoolInit
  BY DEF Init
<1>2. ClientInv /\ [Next]_vars => [PoolNext]_poolVars
  BY ClientUsesPool DEF ClientInv, vars, poolVars
<1> QED BY <1>1, <1>2, ClientInvariance, PTL DEF Spec, PoolSpec

\* The client's state keeps its types; no request makes more attempts than
\* RETRY_INTERVALS allows.
THEOREM ClientTypeCorrect == Spec => []TypeOK
<1>1. ClientInv => TypeOK
  BY DEF ClientInv, PoolInv, LocalInv, TypeOK
<1> QED BY <1>1, ClientInvariance, PTL

\* For every number of threads, total = idle + active and active counts the
\* guards and reservations there are (settle_return_state).
THEOREM BalanceCorrect == Spec => []Balanced
<1>1. ClientInv => Balanced
  BY DEF ClientInv, PoolInv
<1> QED BY <1>1, ClientInvariance, PTL

\* A transport that close_all found lent or being opened is never idle again.
THEOREM ClosedStaysClosed == Spec => []NoStaleIdle
<1>1. ClientInv => NoStaleIdle
  BY DEF ClientInv, PoolInv
<1> QED BY <1>1, ClientInvariance, PTL

\* A transport a request or a heartbeat failed on is never idle again, though
\* the heartbeat returns it like any other (client.rs:715-765).
THEOREM FailedStaysOut == Spec => []FailedNeverIdle
<1>1. ClientInv => FailedNeverIdle
  BY DEF ClientInv, FailInv
<1> QED BY <1>1, ClientInvariance, PTL

\* However many threads request, connect and disconnect at once, a thread that
\* waits for a lock or for the worker it joins (client.rs:649-661) never waits
\* in a circle.
THEOREM NeverCircular == Spec => []NoCircularWait
<1>1. Init => LockInv
  BY InitLock
<1>2. ClientInv /\ LockInv /\ [Next]_vars => LockInv'
  <2>1. CASE UNCHANGED vars
    BY <2>1 DEF vars, clientVars, LockInv, At, HeartAt
  <2> QED BY <2>1, NextSplit, CallingLock, HeartLock DEF ClientInv
<1>3. ClientInv /\ LockInv => NoCircularWait
  BY LockOrder DEF ClientInv
<1> QED BY <1>1, <1>2, <1>3, ClientInvariance, PTL DEF Spec

\* The queue of idle connections never exceeds the pool by more than one,
\* though push asks for no room (pool.rs:125), for every number of threads and
\* every pool that has a place at all.
THEOREM IdleCorrect ==
  ASSUME MaxSize > 0
  PROVE  Spec => []IdleBounded
<1>1. Init => RoomInv
  <2> SUFFICES ASSUME Init PROVE RoomInv
    OBVIOUS
  <2>1. DueInv /\ PushDue = 0 /\ AddDue = 0
    BY DEF Init, DueInv, PushDue, AddDue, Free, Begin
  <2>2. Reusables = {} /\ idle = <<>>
    BY DEF Init, PoolInit, Reusables, NoTransport
  <2>3. Valid = 0
    BY <2>2, FS_EmptySet DEF Valid
  <2> QED BY <2>1, <2>3, MaxSizeNatural DEF RoomInv
<1>2. ClientInv /\ ClientInv' /\ RoomInv /\ [Next]_vars => RoomInv'
  <2> SUFFICES ASSUME ClientInv, ClientInv', RoomInv, [Next]_vars PROVE RoomInv'
    OBVIOUS
  <2>1. LocalInv /\ FailInv /\ PoolInv /\ PoolInv'
    BY DEF ClientInv
  <2>2. CASE Next
    BY <2>1, <2>2, NextSplit, CallingRoom, HeartRoom
  <2>3. CASE UNCHANGED vars
    BY <2>3 DEF vars, poolVars, clientVars, RoomInv, DueInv, Valid, Reusables, PushDue, AddDue
  <2> QED BY <2>2, <2>3
<1>3. ClientInv /\ RoomInv => IdleBounded
  <2> SUFFICES ASSUME ClientInv, RoomInv PROVE IdleBounded
    OBVIOUS
  <2>1. Cardinality(Reusables) \in Nat /\ Len(idle) \in Nat
    BY ValidType DEF ClientInv, PoolInv
  <2> QED BY <2>1, MaxSizeNatural DEF RoomInv, Valid, PushDue, AddDue, IdleBounded
<1> QED BY <1>1, <1>2, <1>3, ClientInvariance, PTL DEF Spec
=============================================================================
