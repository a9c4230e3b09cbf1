----------------------------- MODULE TdxClient -----------------------------
(***************************************************************************)
(* The blocking TDX client (magic-tdx-rs src/net/client.rs): application   *)
(* threads that request, connect and disconnect, the heartbeat thread, and *)
(* the connection pool, the `connected` flag and `last_server` they share. *)
(*                                                                         *)
(* Nothing but the pool's own mutex makes two of these accesses one step:  *)
(* a thread reads last_server, borrows, fails, discards, marks the client  *)
(* disconnected, remembers the failed server and reconnects in steps other *)
(* threads come between.                                                   *)
(***************************************************************************)
EXTENDS TdxPool

CONSTANTS
  Heart,        \* the heartbeat thread, a user of the pool like the others
  Nobody,       \* holder of a free lock
  Primary,      \* PRIMARY_SERVERS[0]
  AutoRetry,    \* auto_retry
  MaxAttempts   \* 1 + Len(RETRY_INTERVALS)

Threads == Users \ {Heart}

ASSUME HeartIsUser == Heart \in Users
ASSUME NobodyDistinct == Nobody \notin Users
ASSUME PrimaryIsServer == Primary \in Servers
ASSUME AutoRetryBoolean == AutoRetry \in BOOLEAN
ASSUME AttemptsPositive == MaxAttempts \in Nat \ {0}

VARIABLES
  connected,   \* the connected flag
  lastServer,  \* last_server
  handle,      \* holder of the mutex around the pool handle
  lifecycle,   \* holder of the heartbeat lifecycle mutex
  stopping,    \* the stop flag of the running heartbeat worker
  heart,       \* the heartbeat thread: where it is, and its current_server
  thread,      \* per thread: where it is in which call, and its local variables
  failedOn     \* history, per thread: endpoints its request has failed on

clientVars == <<connected, lastServer, handle, lifecycle, stopping, heart, thread, failedOn>>
vars == <<poolVars, clientVars>>

Places == {"free", "asking", "cloning", "borrowing", "opening", "using", "discarding",
           "flagging", "missed", "rotating", "closing", "pushing", "marking", "naming",
           "locking", "joining", "emptying", "leaving"}
Calls == {"none", "request", "connect", "connect_to_any", "disconnect"}

\* The local variables of a thread whose call begins, and of one in no call.
Begin(call, pc, attempt, target) ==
  [pc |-> pc, call |-> call, attempt |-> attempt, failed |-> {}, target |-> target]
Free == Begin("none", "free", 0, NoServer)

At(t, pc) == thread[t].pc = pc
Goto(t, pc) == thread' = [thread EXCEPT ![t].pc = pc]
Finish(t) == thread' = [thread EXCEPT ![t] = Free] /\ failedOn' = [failedOn EXCEPT ![t] = {}]
HeartAt(pc) == heart.pc = pc
HeartGoto(pc) == heart' = [heart EXCEPT !.pc = pc]

\* A local variable that is not read again goes back to NoServer.
GotoWithoutTarget(t, pc) == thread' = [thread EXCEPT ![t].pc = pc, ![t].target = NoServer]
HeartGotoWithoutTarget(pc) == heart' = [pc |-> pc, target |-> NoServer]

\* The endpoint a new connection would be opened to.
CurrentServer == IF lastServer = NoServer THEN Primary ELSE lastServer

Init ==
  /\ PoolInit
  /\ connected = FALSE /\ lastServer = NoServer
  /\ handle = Nobody /\ lifecycle = Nobody
  /\ stopping = FALSE
  /\ heart = [pc |-> "off", target |-> NoServer]
  /\ thread = [t \in Threads |-> Free]
  /\ failedOn = [t \in Threads |-> {}]

-----------------------------------------------------------------------------
(* send_and_recv_limited and try_send_and_recv *)

Request(t) ==
  /\ At(t, "free")
  /\ connected \/ AutoRetry
  /\ thread' = [thread EXCEPT ![t] = Begin("request", "asking", 1, NoServer)]
  /\ UNCHANGED <<poolVars, connected, lastServer, handle, lifecycle, stopping, heart, failedOn>>

AskServer(t) ==
  /\ At(t, "asking")
  /\ thread' = [thread EXCEPT ![t].pc = "cloning", ![t].target = CurrentServer]
  /\ UNCHANGED <<poolVars, connected, lastServer, handle, lifecycle, stopping, heart, failedOn>>

\* The pool handle is cloned under its mutex, which is then released.
CloneHandle(t) ==
  /\ At(t, "cloning") /\ handle = Nobody
  /\ Goto(t, "borrowing")
  /\ UNCHANGED <<poolVars, connected, lastServer, handle, lifecycle, stopping, heart, failedOn>>

\* A full pool is a failed attempt like any other.
Borrow(t) ==
  /\ At(t, "borrowing")
  /\ \/ BorrowIdle(t) /\ GotoWithoutTarget(t, "using")
     \/ Reserve(t, thread[t].target) /\ GotoWithoutTarget(t, "opening")
     \/ Exhausted /\ GotoWithoutTarget(t, "missed") /\ UNCHANGED poolVars
  /\ UNCHANGED <<connected, lastServer, handle, lifecycle, stopping, heart, failedOn>>

Open(t) ==
  /\ At(t, "opening")
  /\ \/ Opened(t) /\ Goto(t, "using")
     \/ ReleaseReservation(t) /\ Goto(t, "missed")
  /\ UNCHANGED <<connected, lastServer, handle, lifecycle, stopping, heart, failedOn>>

\* The request is answered and the guard dropped, or it fails.
Use(t) ==
  /\ At(t, "using")
  /\ \/ (\E open \in BOOLEAN : Return(t, open)) /\ Finish(t)
     \/ /\ UseFails(t) /\ Goto(t, "discarding")
        /\ failedOn' = [failedOn EXCEPT ![t] = @ \cup {conn[t].server}]
  /\ UNCHANGED <<connected, lastServer, handle, lifecycle, stopping, heart>>

DiscardFailed(t) ==
  /\ At(t, "discarding")
  /\ Discard(t)
  /\ Goto(t, "flagging")
  /\ UNCHANGED <<connected, lastServer, handle, lifecycle, stopping, heart, failedOn>>

Flag(t) ==
  /\ At(t, "flagging")
  /\ connected' = FALSE
  /\ Goto(t, "missed")
  /\ UNCHANGED <<poolVars, lastServer, handle, lifecycle, stopping, heart, failedOn>>

\* Mutant: one attempt too many.
RememberOnceMore(t) ==
  /\ At(t, "missed")
  /\ IF AutoRetry /\ thread[t].attempt <= MaxAttempts
     THEN /\ thread' = [thread EXCEPT ![t].pc = "rotating",
                                      ![t].failed = @ \cup ({lastServer} \ {NoServer})]
          /\ UNCHANGED failedOn
     ELSE Finish(t)
  /\ UNCHANGED <<poolVars, connected, lastServer, handle, lifecycle, stopping, heart>>

\* remember_last_server: what last_server is now, not what the attempt used.
Remember(t) ==
  /\ At(t, "missed")
  /\ IF AutoRetry /\ thread[t].attempt < MaxAttempts
     THEN /\ thread' = [thread EXCEPT ![t].pc = "rotating",
                                      ![t].failed = @ \cup ({lastServer} \ {NoServer})]
          /\ UNCHANGED failedOn
     ELSE Finish(t)
  /\ UNCHANGED <<poolVars, connected, lastServer, handle, lifecycle, stopping, heart>>

\* Mutant: the attempt is not counted.
RetryUncounted(t) == [thread EXCEPT ![t].pc = "asking", ![t].target = NoServer]

Retry(t) == [thread EXCEPT ![t].pc = "asking", ![t].attempt = @ + 1, ![t].target = NoServer]

\* reconnect_to_another_server: the candidates are dialled in turn, the first
\* that answers is connected to; or none does.
Rotate(t) ==
  /\ At(t, "rotating")
  /\ \/ \E server \in Servers \ (thread[t].failed \cup {lastServer}) :
          thread' = [thread EXCEPT ![t].pc = "closing", ![t].target = server]
     \/ thread' = Retry(t)
  /\ UNCHANGED <<poolVars, connected, lastServer, handle, lifecycle, stopping, heart, failedOn>>

-----------------------------------------------------------------------------
(* connect_internal, once the connection has been dialled *)

Connect(t) ==
  /\ At(t, "free")
  /\ \E server \in Servers, call \in {"connect", "connect_to_any"} :
       /\ call = "connect_to_any" => ~ connected
       /\ thread' = [thread EXCEPT ![t] = Begin(call, "closing", 0, server)]
  /\ UNCHANGED <<poolVars, connected, lastServer, handle, lifecycle, stopping, heart, failedOn>>

\* The handle is locked until the new connection has been pushed.
CloseOld(t) ==
  /\ At(t, "closing") /\ handle = Nobody
  /\ handle' = t
  /\ CloseAll
  /\ Goto(t, "pushing")
  /\ UNCHANGED <<connected, lastServer, lifecycle, stopping, heart, failedOn>>

PushNew(t) ==
  /\ At(t, "pushing")
  /\ Push(thread[t].target)
  /\ handle' = Nobody
  /\ Goto(t, "marking")
  /\ UNCHANGED <<connected, lastServer, lifecycle, stopping, heart, failedOn>>

MarkConnected(t) ==
  /\ At(t, "marking")
  /\ connected' = TRUE
  /\ Goto(t, "naming")
  /\ UNCHANGED <<poolVars, lastServer, handle, lifecycle, stopping, heart, failedOn>>

\* last_server is set; a reconnecting request tries again, connect goes on to
\* start the heartbeat.
NameServer(t) ==
  /\ At(t, "naming")
  /\ lastServer' = thread[t].target
  /\ CASE thread[t].call = "request" -> thread' = Retry(t) /\ UNCHANGED failedOn
       [] thread[t].call = "connect" -> GotoWithoutTarget(t, "locking") /\ UNCHANGED failedOn
       [] OTHER -> Finish(t)
  /\ UNCHANGED <<poolVars, connected, handle, lifecycle, stopping, heart>>

-----------------------------------------------------------------------------
(* start_heartbeat, stop_heartbeat, disconnect *)

Disconnect(t) ==
  /\ At(t, "free")
  /\ thread' = [thread EXCEPT ![t] = Begin("disconnect", "locking", 0, NoServer)]
  /\ UNCHANGED <<poolVars, connected, lastServer, handle, lifecycle, stopping, heart, failedOn>>

LockLifecycle(t) ==
  /\ At(t, "locking") /\ lifecycle = Nobody
  /\ lifecycle' = t
  /\ stopping' = ~ HeartAt("off")
  /\ Goto(t, "joining")
  /\ UNCHANGED <<poolVars, connected, lastServer, handle, heart, failedOn>>

\* The previous worker has been joined. start_heartbeat clones the pool handle
\* for a new one and marks the client connected before it releases the mutex.
Join(t) ==
  /\ At(t, "joining") /\ HeartAt("off")
  /\ thread[t].call = "connect" => handle = Nobody
  /\ stopping' = FALSE
  /\ lifecycle' = Nobody
  /\ IF thread[t].call = "connect"
     THEN /\ HeartGotoWithoutTarget("waiting")
          /\ connected' = TRUE
          /\ Finish(t)
     ELSE /\ Goto(t, "emptying")
          /\ UNCHANGED <<heart, connected, failedOn>>
  /\ UNCHANGED <<poolVars, lastServer, handle>>

Empty(t) ==
  /\ At(t, "emptying") /\ handle = Nobody
  /\ CloseAll
  /\ Goto(t, "leaving")
  /\ UNCHANGED <<connected, lastServer, handle, lifecycle, stopping, heart, failedOn>>

Leave(t) ==
  /\ At(t, "leaving")
  /\ connected' = FALSE
  /\ Finish(t)
  /\ UNCHANGED <<poolVars, lastServer, handle, lifecycle, stopping, heart>>

-----------------------------------------------------------------------------
(* The heartbeat thread *)

HeartUnchanged == UNCHANGED <<handle, lifecycle, stopping, thread, failedOn>>

\* The end of a wait: the worker stops, or reads last_server.
HeartTick ==
  /\ HeartAt("waiting")
  /\ IF stopping THEN HeartGotoWithoutTarget("off")
                 ELSE heart' = [pc |-> "borrowing", target |-> CurrentServer]
  /\ HeartUnchanged /\ UNCHANGED <<poolVars, connected, lastServer>>

HeartBorrow ==
  /\ HeartAt("borrowing")
  /\ \/ BorrowIdle(Heart) /\ HeartGoto("checking")
     \/ Reserve(Heart, heart.target) /\ HeartGoto("opening")
     \/ Exhausted /\ HeartGotoWithoutTarget("waiting") /\ UNCHANGED poolVars
  /\ HeartUnchanged /\ UNCHANGED <<connected, lastServer>>

HeartOpen ==
  /\ HeartAt("opening")
  /\ \/ Opened(Heart) /\ HeartGoto("checking")
     \/ ReleaseReservation(Heart) /\ HeartGotoWithoutTarget("waiting")
  /\ HeartUnchanged /\ UNCHANGED <<connected, lastServer>>

HeartCheck ==
  /\ HeartAt("checking")
  /\ \/ (\E open \in BOOLEAN : Return(Heart, open)) /\ HeartGotoWithoutTarget("waiting")
     \/ UseFails(Heart) /\ HeartGoto("down")
  /\ HeartUnchanged /\ UNCHANGED <<connected, lastServer>>

HeartDown ==
  /\ HeartAt("down")
  /\ connected' = FALSE
  /\ HeartGoto("clearing")
  /\ HeartUnchanged /\ UNCHANGED <<poolVars, lastServer>>

\* Mutant: the heartbeat leaves the pool as it is.
HeartKeep ==
  /\ HeartAt("clearing")
  /\ HeartGoto("seeking")
  /\ HeartUnchanged /\ UNCHANGED <<poolVars, connected, lastServer>>

\* The failed guard is still lent: close_all is what keeps it out of the pool.
HeartClear ==
  /\ HeartAt("clearing")
  /\ CloseAll
  /\ HeartGoto("seeking")
  /\ HeartUnchanged /\ UNCHANGED <<connected, lastServer>>

\* The first other primary server that answers, or none.
HeartSeek ==
  /\ HeartAt("seeking")
  /\ \/ \E server \in Servers \ {heart.target} :
          heart' = [pc |-> "adding", target |-> server]
     \/ HeartGotoWithoutTarget("dropping")
  /\ HeartUnchanged /\ UNCHANGED <<poolVars, connected, lastServer>>

HeartAdd ==
  /\ HeartAt("adding")
  /\ Push(heart.target)
  /\ HeartGoto("naming")
  /\ HeartUnchanged /\ UNCHANGED <<connected, lastServer>>

HeartName ==
  /\ HeartAt("naming")
  /\ lastServer' = heart.target
  /\ HeartGotoWithoutTarget("marking")
  /\ HeartUnchanged /\ UNCHANGED <<poolVars, connected>>

HeartMark ==
  /\ HeartAt("marking")
  /\ connected' = TRUE
  /\ HeartGoto("dropping")
  /\ HeartUnchanged /\ UNCHANGED <<poolVars, lastServer>>

\* The guard of the failed heartbeat goes out of scope.
HeartDrop ==
  /\ HeartAt("dropping")
  /\ \E open \in BOOLEAN : Return(Heart, open)
  /\ HeartGotoWithoutTarget("waiting")
  /\ HeartUnchanged /\ UNCHANGED <<connected, lastServer>>

-----------------------------------------------------------------------------
\* The steps of a call, apart from those that wait for a lock.
CallStep(t) ==
  \/ AskServer(t) \/ Borrow(t) \/ Open(t) \/ Use(t) \/ DiscardFailed(t) \/ Flag(t)
  \/ Remember(t) \/ Rotate(t) \/ PushNew(t) \/ MarkConnected(t) \/ NameServer(t)
  \/ Leave(t)

LockStep(t) == CloneHandle(t) \/ CloseOld(t) \/ LockLifecycle(t) \/ Join(t) \/ Empty(t)

HeartStep ==
  \/ HeartTick \/ HeartBorrow \/ HeartOpen \/ HeartCheck \/ HeartDown \/ HeartClear
  \/ HeartSeek \/ HeartAdd \/ HeartName \/ HeartMark \/ HeartDrop

Next ==
  \/ \E t \in Threads : Request(t) \/ Connect(t) \/ Disconnect(t) \/ CallStep(t) \/ LockStep(t)
  \/ HeartStep

\* Threads run, network calls end (every socket has a timeout), and a thread
\* that waits for a mutex that is free again and again gets it.
Fairness ==
  /\ \A t \in Threads : WF_vars(CallStep(t)) /\ SF_vars(LockStep(t))
  /\ WF_vars(HeartStep)

Spec == Init /\ [][Next]_vars /\ Fairness

-----------------------------------------------------------------------------
(* Properties *)

HeartPlaces == {"off", "waiting", "borrowing", "opening", "checking", "down", "clearing",
                "seeking", "adding", "naming", "marking", "dropping"}
HeartRecord == [pc : HeartPlaces, target : Servers \cup {NoServer}]
ThreadRecord == [pc : Places, call : Calls, attempt : 0..MaxAttempts,
                 failed : SUBSET Servers, target : Servers \cup {NoServer}]

ClientTypeOK ==
  /\ connected \in BOOLEAN /\ stopping \in BOOLEAN
  /\ lastServer \in Servers \cup {NoServer}
  /\ handle \in Threads \cup {Nobody} /\ lifecycle \in Threads \cup {Nobody}
  /\ heart \in HeartRecord
  /\ thread \in [Threads -> ThreadRecord]
  /\ failedOn \in [Threads -> SUBSET Servers]

\* The types of the pool, of the client's state and of its threads' local
\* variables; no request makes more than MaxAttempts attempts.
TypeOK == PoolTypeOK /\ ClientTypeOK

\* A transport a request or a heartbeat failed on is never in the idle pool:
\* requests discard it, the heartbeat empties the pool before it lets go.
FailedNeverIdle == \A i \in DOMAIN idle : ~ idle[i].broken

\* push asks for no room (pool.rs:125), yet the queue of idle connections does
\* not grow: every push follows a close_all of the same thread, and when a
\* heartbeat's and a connect's meet, the heartbeat's guard takes a place.
IdleBounded == Len(idle) <= MaxSize + 1

\* The next attempt of a request goes to an endpoint it has not failed on (the
\* rotation that BR-029 and the comment above the retry promise).
RotatesAway ==
  \A t \in Threads :
    At(t, "closing") /\ thread[t].call = "request" => thread[t].target \notin failedOn[t]

\* Every call ends, whatever the others do: no cycle of the pool handle, the
\* lifecycle mutex and the join of the heartbeat thread, no endless retry.
CallsEnd == \A t \in Threads : ~ At(t, "free") ~> At(t, "free")
=============================================================================
