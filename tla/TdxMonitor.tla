----------------------------- MODULE TdxMonitor -----------------------------
(***************************************************************************)
(* The monitor process (magic-market-monitor-server): the scheduler, which *)
(* discovers a terminal, polls it and analyses what it gets, a worker that *)
(* fetches one snapshot at a time, and the writer of the framed output.    *)
(*                                                                         *)
(* A terminal is an identity (process, session, creation time): one that   *)
(* is gone never comes back. A member of outbox or queue stands for the    *)
(* frames of one generation that a step emits in a row, 0 for frames that  *)
(* carry none; the session resets are a choice wherever the clock is read. *)
(***************************************************************************)
EXTENDS Naturals, Sequences, FiniteSets

CONSTANTS
  Terminals, NoTerminal,
  RecheckCycles,     \* --identity-recheck-cycles
  RestartBudget,     \* --restart-budget
  MaxFailures,       \* u32::MAX, where the counter saturates and no budget ends
  OutputCapacity,    \* --stdout-queue-capacity
  MaxGeneration      \* bound of the model (u64 in the code)

ASSUME NoTerminalDistinct == NoTerminal \notin Terminals
ASSUME MonitorLimits ==
  /\ RecheckCycles \in Nat \ {0} /\ OutputCapacity \in Nat \ {0}
  /\ MaxGeneration \in Nat /\ MaxFailures \in Nat /\ RestartBudget \in 0..MaxFailures

VARIABLES
  terminal,  \* external: the terminal on this host, and those that are gone
  monitor,   \* the scheduler
  snapshot,  \* the snapshot worker
  windows,   \* generations of the samples in the analysers' windows
  outbox,    \* what the current step has still to emit
  queue,     \* the channel to the writer
  writer,    \* "up", or "failed"
  past       \* history

vars == <<terminal, monitor, snapshot, windows, outbox, queue, writer, past>>

Candidate == Terminals \union {NoTerminal}
Generations == 0..MaxGeneration

Monitor ==
  [pc : {"drain", "act", "stopping", "joined", "closing", "exited"},
   ok : BOOLEAN,                       \* run() has met no error
   life : {"waiting", "candidate", "running"},
   candidate : Candidate,              \* of the lifecycle
   retry : Candidate,                  \* retry_candidate
   gen : Generations,
   validated : Generations,            \* watchlist_validated_generation, or 0
   cycles : 0..RecheckCycles,          \* since the last identity check was due
   failures : 0..MaxFailures]          \* consecutive_failures

Snapshot == [stage : {"idle", "polling", "fetched"}, gen : Generations]

TypeOK ==
  /\ terminal \in [now : Candidate, gone : SUBSET Terminals]
  /\ monitor \in Monitor
  /\ snapshot \in Snapshot
  /\ windows \in [fast : SUBSET Generations, amount : SUBSET Generations]
  /\ outbox \in Seq(Generations)
  /\ queue \in Seq(Generations) /\ Len(queue) <= OutputCapacity
  /\ writer \in {"up", "failed"}
  /\ past \in [ended : Generations, due : BOOLEAN, last : Candidate, unwritten : Nat]

NoWindows == [fast |-> {}, amount |-> {}]

Init ==
  /\ terminal = [now |-> NoTerminal, gone |-> {}]
  /\ monitor = [pc |-> "drain", ok |-> TRUE, life |-> "waiting", candidate |-> NoTerminal,
                retry |-> NoTerminal, gen |-> 0, validated |-> 0, cycles |-> 0, failures |-> 0]
  /\ snapshot = [stage |-> "idle", gen |-> 0]
  /\ windows = NoWindows
  /\ outbox = <<>> /\ queue = <<>> /\ writer = "up"
  /\ past = [ended |-> 0, due |-> TRUE, last |-> NoTerminal, unwritten |-> 0]

-----------------------------------------------------------------------------
(* The terminal *)

TerminalStarts ==
  /\ terminal.now = NoTerminal
  /\ \E t \in Terminals \ terminal.gone : terminal' = [terminal EXCEPT !.now = t]
  /\ UNCHANGED <<monitor, snapshot, windows, outbox, queue, writer, past>>

TerminalStops ==
  /\ terminal.now # NoTerminal
  /\ terminal' = [now |-> NoTerminal, gone |-> terminal.gone \union {terminal.now}]
  /\ UNCHANGED <<monitor, snapshot, windows, outbox, queue, writer, past>>

-----------------------------------------------------------------------------
(* Lifecycle *)

\* Mutant: a lost Running keeps its candidate pending, like a lost Candidate.
RetryOfAny(m, transient) == IF transient THEN m.candidate ELSE NoTerminal

\* Mutant: no candidate is kept pending.
RetryNone(m, transient) == NoTerminal

Retry(m, transient) ==
  IF transient /\ m.life = "candidate" THEN m.candidate ELSE NoTerminal

\* reset_to_waiting: the windows are reset by the caller.
ToWaiting(m, transient) ==
  [m EXCEPT !.life = "waiting", !.candidate = NoTerminal, !.retry = Retry(m, transient),
            !.cycles = 0, !.validated = 0]

\* fail_to_waiting, with its restart budget.
Failed(m, transient) ==
  LET failures == IF m.failures < MaxFailures THEN m.failures + 1 ELSE m.failures
  IN [ToWaiting(m, transient) EXCEPT
        !.failures = failures,
        !.pc = IF RestartBudget # MaxFailures /\ failures > RestartBudget
               THEN "stopping" ELSE "drain"]

\* same_candidate of poll_candidate.
Same(m, c) == IF m.life = "waiting" THEN m.retry = c ELSE m.candidate = c

\* The first part of poll_candidate: the pending generation, or a new one.
Adopt(m, c) ==
  IF Same(m, c)
  THEN IF m.life = "waiting"
       THEN [m EXCEPT !.life = "candidate", !.candidate = c, !.retry = NoTerminal] ELSE m
  ELSE [m EXCEPT !.life = "candidate", !.candidate = c, !.retry = NoTerminal,
                 !.gen = @ + 1, !.validated = 0, !.cycles = 0]

\* running_poll_cycles, as far as is_multiple_of tells.
Cycle(m) == IF m.cycles = RecheckCycles THEN 1 ELSE m.cycles + 1

\* What the history keeps of a step that leads to n, having adopted c: the last
\* generation that lost Running, and whether something has happened since the
\* last new generation that ends a pending one. Emit and Write count the frames
\* that were emitted and are not written.
Passed(n, c, ends) ==
  LET lost == monitor.life = "running" /\ (n.life = "waiting" \/ n.gen # monitor.gen)
  IN past' = [past EXCEPT !.ended = IF lost THEN monitor.gen ELSE @,
                          !.due = ends \/ lost \/ (n.gen = monitor.gen /\ @),
                          !.last = IF c = NoTerminal THEN @ ELSE c]

-----------------------------------------------------------------------------
(* Snapshots *)

\* try_submit: one job in flight, from submission until its result is read.
Submit(g) == snapshot.stage = "idle" /\ snapshot' = [stage |-> "polling", gen |-> g]

\* Mutant: the results channel has no place: sending waits for the scheduler.
FetchRendezvous ==
  /\ snapshot.stage = "polling" /\ monitor.pc = "drain"
  /\ snapshot' = [snapshot EXCEPT !.stage = "fetched"]
  /\ UNCHANGED <<terminal, monitor, windows, outbox, queue, writer, past>>

\* The worker's poll returns; its result has a place in the channel.
Fetch ==
  /\ snapshot.stage = "polling"
  /\ snapshot' = [snapshot EXCEPT !.stage = "fetched"]
  /\ UNCHANGED <<terminal, monitor, windows, outbox, queue, writer, past>>

\* Mutant: a late result is not recognised.
StaleNever == FALSE

Stale == snapshot.gen # monitor.gen \/ monitor.life = "waiting"

\* drain_snapshot_result. A result that is stale is reported with the
\* generation of its job; a failed or invalid one resets the amount window.
Drain ==
  /\ monitor.pc = "drain" /\ outbox = <<>>
  /\ monitor' = [monitor EXCEPT !.pc = "act"]
  /\ IF snapshot.stage = "fetched"
     THEN /\ snapshot' = [stage |-> "idle", gen |-> 0]
          /\ \/ Stale /\ outbox' = <<snapshot.gen>> /\ UNCHANGED windows
             \/ /\ ~ Stale /\ outbox' = <<monitor.gen>>
                /\ \E amount \in {{}, windows.amount \union {snapshot.gen}} :
                     windows' = [windows EXCEPT !.amount = amount]
     ELSE UNCHANGED <<snapshot, windows, outbox>>
  /\ UNCHANGED <<terminal, queue, writer, past>>

-----------------------------------------------------------------------------
(* The step *)

Acting == monitor.pc = "act" /\ outbox = <<>>

RecheckDue == monitor.life = "running" /\ monitor.cycles = RecheckCycles

\* Discovery finds the terminal, rejects what it finds, or fails.
Discovers(c) == c = terminal.now /\ c # NoTerminal

\* Discovery without a candidate. Only a failure, or the loss of what ran, is
\* counted against the budget.
NoCandidate ==
  /\ Acting /\ (monitor.life = "waiting" \/ RecheckDue)
  /\ \/ monitor.life = "waiting" /\ monitor' = [ToWaiting(monitor, FALSE) EXCEPT !.pc = "drain"]
     \/ monitor' = Failed(monitor, FALSE)
  /\ windows' = IF monitor.life = "waiting" THEN windows ELSE NoWindows
  /\ outbox' = IF monitor.life = "waiting" THEN <<0>> ELSE <<monitor.gen>>
  /\ Passed(monitor', NoTerminal, TRUE)
  /\ UNCHANGED <<terminal, snapshot, queue, writer>>

\* poll_candidate fails: the watchlist, validated once in a generation and
\* before anything else, or the batch. "transient": the same candidate may
\* answer a retry. All three take the state m before the call, what the step
\* has emitted and the windows it has left.
PollFails(m, c, box) ==
  LET n == Adopt(m, c)
  IN \E transient \in BOOLEAN :
       /\ terminal.now = NoTerminal => transient
       /\ monitor' = Failed(n, transient)
       /\ windows' = NoWindows
       /\ outbox' = box \o <<n.gen>>
       /\ Passed(monitor', c, ~ transient)
       /\ UNCHANGED snapshot

\* No observation of the batch is valid: the candidate is polled again.
PollInvalid(m, c, box, kept) ==
  LET n == Adopt(m, c)
  IN /\ monitor' = [n EXCEPT !.pc = "drain", !.validated = n.gen, !.cycles = Cycle(n), !.failures = 0]
     /\ outbox' = box \o <<n.gen>>
     /\ windows' \in {kept, NoWindows}
     /\ Passed(monitor', c, FALSE)
     /\ UNCHANGED snapshot

\* At least one is: the monitor runs. Before it submits a snapshot it reads the
\* clock once more, which may reset the windows with the samples just taken.
PollValid(m, c, box, kept) ==
  LET n == Adopt(m, c)
  IN /\ monitor' = [n EXCEPT !.pc = "drain", !.life = "running", !.validated = n.gen,
                             !.cycles = Cycle(n), !.failures = 0]
     /\ outbox' = box \o <<n.gen>>
     /\ LET sampled == {[kept EXCEPT !.fast = @ \union {n.gen}], [fast |-> {n.gen}, amount |-> {}]}
        IN \/ windows' \in sampled /\ UNCHANGED snapshot
           \/ windows' \in sampled \union {NoWindows} /\ Submit(n.gen)
     /\ Passed(monitor', c, FALSE)

Poll(m, c, box, kept) ==
  /\ Adopt(m, c).gen <= MaxGeneration
  /\ \/ PollFails(m, c, box)
     \/ terminal.now # NoTerminal /\ (PollInvalid(m, c, box, kept) \/ PollValid(m, c, box, kept))

\* The terminal of the lifecycle is polled without another look at it.
PollAgain ==
  /\ Acting /\ monitor.life # "waiting" /\ ~ RecheckDue
  /\ Poll(monitor, monitor.candidate, <<>>, windows)
  /\ UNCHANGED <<terminal, queue, writer>>

PollDiscovered ==
  /\ Acting /\ monitor.life = "waiting"
  /\ \E c \in Terminals : Discovers(c) /\ Poll(monitor, c, <<>>, windows)
  /\ UNCHANGED <<terminal, queue, writer>>

\* recheck_identity finds another terminal.
Replaced(c) == Poll([monitor EXCEPT !.life = "waiting"], c, <<monitor.gen>>, NoWindows)

Recheck ==
  /\ Acting /\ RecheckDue
  /\ \E c \in Terminals :
       /\ Discovers(c)
       /\ IF c = monitor.candidate THEN Poll(monitor, c, <<>>, windows) ELSE Replaced(c)
  /\ UNCHANGED <<terminal, queue, writer>>

-----------------------------------------------------------------------------
(* Output *)

\* Mutant: the queue to the writer has no bound.
EmitUnbounded ==
  /\ outbox # <<>> /\ monitor.pc # "exited"
  /\ queue' = Append(queue, Head(outbox)) /\ outbox' = Tail(outbox)
  /\ past' = [past EXCEPT !.unwritten = @ + 1]
  /\ UNCHANGED <<terminal, monitor, snapshot, windows, writer>>

\* Mutant: a frame the queue has no place for is dropped.
EmitDropping ==
  /\ outbox # <<>> /\ monitor.pc # "exited"
  /\ queue' = IF Len(queue) < OutputCapacity THEN Append(queue, Head(outbox)) ELSE queue
  /\ outbox' = Tail(outbox)
  /\ past' = [past EXCEPT !.unwritten = @ + 1]
  /\ UNCHANGED <<terminal, monitor, snapshot, windows, writer>>

\* BoundedEventWriter::emit. A full queue or a failed writer is an error: the
\* step and the loop of run() are over.
Emit ==
  /\ outbox # <<>> /\ monitor.pc # "exited"
  /\ IF writer = "up" /\ Len(queue) < OutputCapacity
     THEN queue' = Append(queue, Head(outbox)) /\ outbox' = Tail(outbox) /\ UNCHANGED monitor
     ELSE /\ outbox' = <<>>
          /\ monitor' = [monitor EXCEPT !.ok = FALSE,
                           !.pc = IF @ \in {"drain", "act"} THEN "stopping" ELSE @]
          /\ UNCHANGED queue
  /\ past' = [past EXCEPT !.unwritten = @ + 1]
  /\ UNCHANGED <<terminal, snapshot, windows, writer>>

\* writer_loop: a frame is written and flushed.
Write ==
  /\ writer = "up" /\ queue # <<>>
  /\ queue' = Tail(queue)
  /\ past' = [past EXCEPT !.unwritten = @ - 1]
  /\ UNCHANGED <<terminal, monitor, snapshot, windows, outbox, writer>>

\* The reader of stdout is gone: the writer ends, and the queue with it.
WriterFails ==
  /\ writer = "up" /\ writer' = "failed" /\ queue' = <<>>
  /\ UNCHANGED <<terminal, monitor, snapshot, windows, outbox, past>>

-----------------------------------------------------------------------------
(* Shutdown *)

\* SnapshotWorker::shutdown joins the worker: it is done with its job.
JoinSnapshot ==
  /\ monitor.pc = "stopping" /\ outbox = <<>>
  /\ snapshot.stage # "polling"
  /\ monitor' = [monitor EXCEPT !.pc = "joined"]
  /\ outbox' = <<0>>
  /\ UNCHANGED <<terminal, snapshot, windows, queue, writer, past>>

\* BoundedEventWriter::shutdown: the Shutdown command needs a place, too.
ShutdownOutput ==
  /\ monitor.pc = "joined" /\ outbox = <<>>
  /\ monitor' = IF writer = "up" /\ Len(queue) = OutputCapacity
                THEN [monitor EXCEPT !.pc = "exited", !.ok = FALSE]
                ELSE [monitor EXCEPT !.pc = "closing"]
  /\ UNCHANGED <<terminal, snapshot, windows, outbox, queue, writer, past>>

\* The writer has ended; or shutdown_timeout has passed first.
Exit ==
  /\ monitor.pc = "closing"
  /\ \E ended \in BOOLEAN :
       /\ ended => writer = "failed" \/ queue = <<>>
       /\ monitor' = [monitor EXCEPT !.pc = "exited", !.ok = @ /\ ended /\ writer = "up"]
  /\ UNCHANGED <<terminal, snapshot, windows, outbox, queue, writer, past>>

-----------------------------------------------------------------------------
Scheduler == \/ Drain \/ NoCandidate \/ PollAgain \/ PollDiscovered \/ Recheck
             \/ Emit \/ JoinSnapshot \/ ShutdownOutput \/ Exit

Next == TerminalStarts \/ TerminalStops \/ Scheduler \/ Fetch \/ Write \/ WriterFails

\* The scheduler never blocks but in the join; a snapshot request times out.
\* Nothing is assumed of the terminal and of the reader of the output.
Fairness == WF_vars(Scheduler) /\ WF_vars(Fetch)

Spec == Init /\ [][Next]_vars /\ Fairness

-----------------------------------------------------------------------------
(* Properties *)

\* BR-044: the windows of the analysers never mix generations, and are empty
\* while nothing is monitored, however late a snapshot arrives.
WindowsOfOneGeneration ==
  windows.fast \union windows.amount \subseteq
    IF monitor.life = "running" THEN {monitor.gen} ELSE {}

\* business_rules.md: a generation whose loopback was lost after it ran is not resumed, so its
\* sequences, which begin again, never repeat a pair (generation, sequence).
LostIsNotResumed ==
  monitor.life # "waiting" \/ monitor.retry # NoTerminal => monitor.gen > past.ended

\* business_rules.md: retrying the unchanged pending candidate does not take a new generation;
\* losing a running one, its absence, replacement or permanent failure does.
GenerationJustified ==
  [][monitor'.gen # monitor.gen => past.due \/ past'.last # past.last]_vars

\* A process that ends without an error has written every frame it ever emitted:
\* none was dropped on the way, and the shutdown has waited for the writer.
CleanExitWroteAll ==
  monitor.pc = "exited" /\ monitor.ok => past.unwritten = 0 /\ outbox = <<>>

\* Once it is to stop, the process ends: joining the snapshot worker never
\* deadlocks with a result nobody reads, and a reader that does not read cannot
\* hold it either.
StopEnds == monitor.pc = "stopping" ~> monitor.pc = "exited"

\* A consumer sees a generation end when another begins: the frames on their
\* way out never go back to an earlier generation.
GenerationsInOrder ==
  LET pipe == queue \o outbox
  IN \A i, j \in DOMAIN pipe : i < j /\ pipe[j] # 0 => pipe[i] <= pipe[j]
=============================================================================
