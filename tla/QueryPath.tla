----------------------------- MODULE QueryPath -----------------------------
(***************************************************************************)
(* A gRPC query (app.rs, query_inner): its call holds a unary permit while *)
(* it is served, its worker, a blocking thread, a blocking permit until    *)
(* the service returns, be it after the deadline. The outcomes of served   *)
(* calls feed the health of the TDX quote channel (HqHealth), whose        *)
(* changes are published on the hub's local lane.                          *)
(*                                                                         *)
(* The service is asked for a race (QuoteRace) or for one registration. A  *)
(* call may be made again when nothing of the last one is left.            *)
(***************************************************************************)
EXTENDS QuoteRace

CONSTANTS
  Unary, Blocking,  \* unary_concurrency, blocking_concurrency
  Tdx,              \* the candidate whose provider is "Tdx"
  Threshold         \* HQ_DEGRADED_FAILURE_THRESHOLD

ASSUME LimitsPositive == Unary \in Nat \ {0} /\ Blocking \in Nat \ {0} /\ Threshold \in Nat \ {0}
ASSUME TdxIsCandidate == Tdx \in Providers

VARIABLES
  call,      \* the request's future: its stage and what its worker returned
  worker,    \* the blocking thread of the call
  unary, blocking,  \* available permits of the two semaphores
  health     \* HqHealth

queryVars == <<call, worker, unary, blocking, health>>
vars == <<raceVars, queryVars>>

\* "tdx": an answer by that provider; "connect": Unavailable with one of the
\* TDX signatures; "other": another provider's answer or any other error, such
\* as the ProviderRouteFailure or InvalidRequest of a race.
Outcomes == {"tdx", "connect", "other"}

\* "admitted": unary permit held; "waiting": for the worker or the deadline;
\* "degraded", "recovered": in publish_local with that notice.
CallRecord == [stage : {"idle", "admitted", "waiting", "degraded", "recovered"},
               reply : Outcomes \union {"none"}]

Idle == [stage |-> "idle", reply |-> "none"]

\* The streak is counted up to Threshold. "cooling": the last degraded notice
\* is younger than the cooldown.
Health == [failures : 0..Threshold, degraded : BOOLEAN, cooling : BOOLEAN]

TypeOK ==
  /\ RaceTypeOK
  /\ call \in [Workers -> CallRecord]
  /\ worker \in [Workers -> {"none", "race", "direct"}]
  /\ unary \in 0..Unary /\ blocking \in 0..Blocking
  /\ health \in Health

Init ==
  /\ RaceInit
  /\ call = [w \in Workers |-> Idle]
  /\ worker = [w \in Workers |-> "none"]
  /\ unary = Unary /\ blocking = Blocking
  /\ health = [failures |-> 0, degraded |-> FALSE, cooling |-> FALSE]

-----------------------------------------------------------------------------
(* Admission *)

\* unary.try_acquire_owned; a call refused here has touched nothing.
Admit(w) ==
  /\ call[w] = Idle /\ worker[w] = "none" /\ Quiet(w)
  /\ unary > 0 /\ unary' = unary - 1
  /\ call' = [call EXCEPT ![w].stage = "admitted"]
  /\ UNCHANGED <<raceVars, worker, blocking, health>>

\* The call returns or is dropped, and with it its unary permit.
Leave(w) ==
  /\ call' = [call EXCEPT ![w] = Idle]
  /\ unary' = unary + 1

\* blocking.try_acquire_owned and spawn_blocking.
Begin(w) ==
  /\ call[w].stage = "admitted" /\ blocking > 0
  /\ blocking' = blocking - 1
  /\ call' = [call EXCEPT ![w].stage = "waiting"]
  /\ \/ worker' = [worker EXCEPT ![w] = "race"] /\ StartRace(w)
     \/ worker' = [worker EXCEPT ![w] = "direct"] /\ UNCHANGED raceVars
  /\ UNCHANGED <<unary, health>>

\* "blocking concurrency is exhausted"
Reject(w) ==
  /\ call[w].stage = "admitted" /\ blocking = 0
  /\ Leave(w)
  /\ UNCHANGED <<raceVars, worker, blocking, health>>

-----------------------------------------------------------------------------
(* The worker *)

\* gateway.execute has returned: the closure's permit is dropped, and the
\* result is for the call, if it still waits.
Return(w, outcome) ==
  /\ worker' = [worker EXCEPT ![w] = "none"]
  /\ blocking' = blocking + 1
  /\ call' = IF call[w].stage = "waiting" THEN [call EXCEPT ![w].reply = outcome] ELSE call
  /\ UNCHANGED <<unary, health>>

\* execute_registration, also of a provider that a race finds busy.
ReturnDirect(w) ==
  /\ worker[w] = "direct"
  /\ \E outcome \in Outcomes : Return(w, outcome)
  /\ UNCHANGED raceVars

ReturnRace(w) ==
  \/ \E c \in Providers : Wins(w, c) /\ Return(w, IF c = Tdx THEN "tdx" ELSE "other")
  \/ Fails(w) /\ Return(w, "other")

\* What the service does without the call noticing.
InService(w) == RaceStep(w) /\ UNCHANGED queryVars

InThread(w, c) == ThreadStep(w, c) /\ UNCHANGED queryVars

-----------------------------------------------------------------------------
(* The call *)

\* Mutant: the permit of the worker is released with the call.
DeadlineReleasingBoth(w) ==
  /\ call[w].stage = "waiting" /\ call[w].reply = "none"
  /\ Leave(w)
  /\ blocking' = blocking + 1
  /\ UNCHANGED <<raceVars, worker, health>>

\* blocking_deadline: what the worker will return is not looked at.
Deadline(w) ==
  /\ call[w].stage = "waiting" /\ call[w].reply = "none"
  /\ Leave(w)
  /\ UNCHANGED <<raceVars, worker, blocking, health>>

\* The client cancels: the future is dropped where it awaits.
Cancel(w) ==
  /\ call[w].stage \in {"waiting", "degraded", "recovered"}
  /\ Leave(w)
  /\ UNCHANGED <<raceVars, worker, blocking, health>>

\* note_hq_connect_failure, up to publish_local.
NoteFailure(w) ==
  /\ call[w].stage = "waiting" /\ call[w].reply = "connect"
  /\ LET failures == IF health.failures < Threshold THEN health.failures + 1 ELSE Threshold
         entered == ~ health.degraded /\ failures = Threshold
         emit == entered /\ ~ health.cooling
     IN /\ health' = [failures |-> failures, degraded |-> health.degraded \/ entered,
                      cooling |-> health.cooling \/ emit]
        /\ IF emit THEN call' = [call EXCEPT ![w].stage = "degraded"] /\ UNCHANGED unary
           ELSE Leave(w)
  /\ UNCHANGED <<raceVars, worker, blocking>>

\* Mutant: the streak is reset on recovery only.
NoteServedLate(w) ==
  /\ call[w].stage = "waiting" /\ call[w].reply = "tdx"
  /\ IF health.degraded
     THEN /\ health' = [health EXCEPT !.degraded = FALSE]
          /\ call' = [call EXCEPT ![w].stage = "recovered"] /\ UNCHANGED unary
     ELSE Leave(w) /\ UNCHANGED health
  /\ UNCHANGED <<raceVars, worker, blocking>>

\* note_hq_served, up to publish_local.
NoteServed(w) ==
  /\ call[w].stage = "waiting" /\ call[w].reply = "tdx"
  /\ health' = [health EXCEPT !.failures = 0, !.degraded = FALSE]
  /\ IF health.degraded THEN call' = [call EXCEPT ![w].stage = "recovered"] /\ UNCHANGED unary
     ELSE Leave(w)
  /\ UNCHANGED <<raceVars, worker, blocking>>

\* Outcomes that say nothing about TDX.
Pass(w) ==
  /\ call[w].stage = "waiting" /\ call[w].reply = "other"
  /\ Leave(w)
  /\ UNCHANGED <<raceVars, worker, blocking, health>>

\* publish_local returns.
Published(w) ==
  /\ call[w].stage \in {"degraded", "recovered"}
  /\ Leave(w)
  /\ UNCHANGED <<raceVars, worker, blocking, health>>

\* HQ_DEGRADED_EMIT_COOLDOWN has passed since the last degraded notice.
CooldownEnds ==
  /\ health.cooling
  /\ health' = [health EXCEPT !.cooling = FALSE]
  /\ UNCHANGED <<raceVars, call, worker, unary, blocking>>

-----------------------------------------------------------------------------
Next ==
  \/ \E w \in Workers :
       \/ Admit(w) \/ Begin(w) \/ Reject(w) \/ ReturnDirect(w) \/ ReturnRace(w)
       \/ Deadline(w) \/ Cancel(w) \/ NoteFailure(w) \/ NoteServed(w) \/ Pass(w) \/ Published(w)
       \/ InService(w)
       \/ \E c \in Providers : InThread(w, c)
  \/ CooldownEnds

Spec == Init /\ [][Next]_vars

-----------------------------------------------------------------------------
(* Properties *)

\* The comment in query_inner: abandoned work remains bounded. No permit is
\* lost or returned twice, whether a call ends by its answer, its deadline or
\* its client, and the blocking permit goes with the worker.
PermitsBalance ==
  /\ unary + Cardinality({w \in Workers : call[w] # Idle}) = Unary
  /\ blocking + Cardinality({w \in Workers : worker[w] # "none"}) = Blocking

\* The channel is degraded exactly while the streak of connect failures has
\* reached the threshold with no TDX answer since, whichever calls race.
HealthAgrees == health.degraded <=> health.failures = Threshold
=============================================================================
