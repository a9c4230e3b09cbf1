-------------------------- MODULE TdxMonitor_proofs --------------------------
(***************************************************************************)
(* Proofs about TdxMonitor: its types and all its safety properties, for   *)
(* any number of terminals, any queue and any budget.                      *)
(***************************************************************************)
EXTENDS TdxMonitor, TLAPS

\* What the lifecycle says of its fields: only a waiting monitor keeps a
\* candidate pending, and what is monitored or pending was not lost running.
LifeInv ==
  /\ monitor.life # "waiting" => monitor.candidate # NoTerminal /\ monitor.retry = NoTerminal
  /\ past.ended <= monitor.gen
  /\ LostIsNotResumed

\* A job of the snapshot worker is for what runs, or for a generation that is
\* over: a Candidate is never taken for the Running it was submitted by.
SnapshotInv ==
  snapshot.stage # "idle" =>
    \/ snapshot.gen <= past.ended
    \/ monitor.life = "running" /\ snapshot.gen = monitor.gen

\* While nothing has ended the generation, the last candidate is still the one
\* that is monitored or pending.
PendingInv ==
  ~ past.due => IF monitor.life = "waiting" THEN monitor.retry = past.last /\ past.last # NoTerminal
                ELSE monitor.candidate = past.last

\* Nothing is left to emit once the writer has been told to end. While the
\* writer writes, what is in the queue was emitted, and nothing else that is not
\* written as long as no error was met.
ClosingInv ==
  /\ monitor.pc \in {"closing", "exited"} => outbox = <<>>
  /\ writer = "up" => past.unwritten >= Len(queue)
  /\ monitor.ok /\ writer = "up" => past.unwritten = Len(queue)
  /\ CleanExitWroteAll

MonInv == TypeOK /\ LifeInv /\ SnapshotInv /\ WindowsOfOneGeneration /\ PendingInv /\ ClosingInv

Windows == [fast : SUBSET Generations, amount : SUBSET Generations]
Past == [ended : Generations, due : BOOLEAN, last : Candidate, unwritten : Nat]

-----------------------------------------------------------------------------
(* The lifecycle *)

\* Adopt: the candidate is c, in the generation of m if it is the same one.
LEMMA AdoptFacts ==
  ASSUME NEW m \in Monitor, NEW c \in Candidate, Adopt(m, c).gen <= MaxGeneration,
         m.life # "waiting" => m.retry = NoTerminal
  PROVE  /\ Adopt(m, c) \in Monitor
         /\ Adopt(m, c).life = IF m.life = "running" /\ Same(m, c) THEN "running" ELSE "candidate"
         /\ Adopt(m, c).candidate = c
         /\ Adopt(m, c).retry = NoTerminal
         /\ Adopt(m, c).gen = IF Same(m, c) THEN m.gen ELSE m.gen + 1
         /\ Adopt(m, c).pc = m.pc
         /\ Adopt(m, c).ok = m.ok
<1>1. NoTerminal \in Candidate
  BY DEF Candidate
<1>2. m.gen \in Nat
  BY MonitorLimits DEF Monitor, Generations
<1>3. CASE ~ Same(m, c)
  <2>1. Adopt(m, c) = [m EXCEPT !.life = "candidate", !.candidate = c, !.retry = NoTerminal,
                                !.gen = @ + 1, !.validated = 0, !.cycles = 0]
    BY <1>3 DEF Adopt
  <2>2. m.gen + 1 \in Generations
    <3>1. Adopt(m, c).gen = m.gen + 1
      BY <2>1 DEF Monitor
    <3> QED
      BY <3>1, <1>2, MonitorLimits DEF Generations
  <2>3. 0 \in Generations /\ 0 \in 0..RecheckCycles
    BY MonitorLimits DEF Generations
  <2> DEFINE g == m.gen + 1
  <2>4. Adopt(m, c) = [m EXCEPT !.life = "candidate", !.candidate = c, !.retry = NoTerminal,
                                !.gen = g, !.validated = 0, !.cycles = 0]
    BY <2>1
  <2> HIDE DEF g
  <2>5. g \in Generations
    BY <2>2 DEF g
  <2>6. Adopt(m, c) \in Monitor
    BY <1>1, <2>3, <2>4, <2>5 DEF Monitor
  <2>7. /\ Adopt(m, c).life = "candidate" /\ Adopt(m, c).candidate = c
        /\ Adopt(m, c).retry = NoTerminal /\ Adopt(m, c).gen = g
        /\ Adopt(m, c).pc = m.pc /\ Adopt(m, c).ok = m.ok
    BY <2>4 DEF Monitor
  <2> QED
    BY <1>3, <2>6, <2>7 DEF g
<1>4. CASE Same(m, c) /\ m.life = "waiting"
  <2>1. Adopt(m, c) = [m EXCEPT !.life = "candidate", !.candidate = c, !.retry = NoTerminal]
    BY <1>4 DEF Adopt
  <2> QED
    BY <1>1, <1>4, <2>1 DEF Monitor
<1>5. CASE Same(m, c) /\ m.life # "waiting"
  <2>1. Adopt(m, c) = m
    BY <1>5 DEF Adopt
  <2>2. m.candidate = c
    BY <1>5 DEF Same
  <2>3. m.life \in {"waiting", "candidate", "running"}
    BY DEF Monitor
  <2> QED
    BY <1>5, <2>1, <2>2, <2>3
<1> QED
  BY <1>3, <1>4, <1>5

\* A monitor that goes back to waiting keeps its generation.
LEMMA WaitingFacts ==
  ASSUME NEW m \in Monitor, NEW transient \in BOOLEAN
  PROVE  /\ ToWaiting(m, transient) \in Monitor
         /\ ToWaiting(m, transient).life = "waiting"
         /\ ToWaiting(m, transient).candidate = NoTerminal
         /\ ToWaiting(m, transient).retry = Retry(m, transient)
         /\ ToWaiting(m, transient).gen = m.gen
         /\ ToWaiting(m, transient).ok = m.ok
<1>1. NoTerminal \in Candidate /\ Retry(m, transient) \in Candidate
  BY DEF Candidate, Retry, Monitor
<1>2. 0 \in Generations /\ 0 \in 0..RecheckCycles
  BY MonitorLimits DEF Generations
<1> QED
  BY <1>1, <1>2 DEF ToWaiting, Monitor

LEMMA FailedFacts ==
  ASSUME NEW m \in Monitor, NEW transient \in BOOLEAN
  PROVE  /\ Failed(m, transient) \in Monitor
         /\ Failed(m, transient).life = "waiting"
         /\ Failed(m, transient).candidate = NoTerminal
         /\ Failed(m, transient).retry = Retry(m, transient)
         /\ Failed(m, transient).gen = m.gen
         /\ Failed(m, transient).ok = m.ok
         /\ Failed(m, transient).pc \in {"stopping", "drain"}
<1> DEFINE w == ToWaiting(m, transient)
           failures == IF m.failures < MaxFailures THEN m.failures + 1 ELSE m.failures
           pc == IF RestartBudget # MaxFailures /\ failures > RestartBudget THEN "stopping" ELSE "drain"
<1>1. failures \in 0..MaxFailures
  BY MonitorLimits DEF Monitor
<1>2. pc \in {"stopping", "drain"}
  OBVIOUS
<1>3. Failed(m, transient) = [w EXCEPT !.failures = failures, !.pc = pc]
  BY DEF Failed
<1>4. w \in Monitor /\ w.life = "waiting" /\ w.candidate = NoTerminal
      /\ w.retry = Retry(m, transient) /\ w.gen = m.gen /\ w.ok = m.ok
  BY WaitingFacts
<1> HIDE DEF w, failures, pc
<1> QED
  BY <1>1, <1>2, <1>3, <1>4 DEF Monitor

\* m runs, and is polled for its own terminal.
Stays(m, c) == m.life = "running" /\ Same(m, c)

\* What a poll does to the lifecycle: "ends" says that it fails for good.
LEMMA PollFacts ==
  ASSUME NEW m \in Monitor, NEW c \in Candidate, NEW box, NEW kept,
         m.life # "waiting" => m.retry = NoTerminal,
         Poll(m, c, box, kept)
  PROVE  /\ monitor' \in Monitor
         /\ monitor'.gen = IF Same(m, c) THEN m.gen ELSE m.gen + 1
         /\ monitor'.ok = m.ok
         /\ monitor'.pc \in {"stopping", "drain"}
         /\ outbox' = box \o <<monitor'.gen>>
         /\ \E ends \in BOOLEAN :
              /\ Passed(monitor', c, ends)
              /\ \/ /\ monitor'.life = "waiting" /\ windows' = NoWindows /\ UNCHANGED snapshot
                    /\ monitor'.retry = IF ~ ends /\ ~ Stays(m, c) THEN c ELSE NoTerminal
                 \/ /\ monitor'.life \in {"candidate", "running"} /\ ends = FALSE
                    /\ monitor'.candidate = c /\ monitor'.retry = NoTerminal
                    /\ \/ /\ monitor'.life = IF Stays(m, c) THEN "running" ELSE "candidate"
                          /\ windows' \in {kept, NoWindows} /\ UNCHANGED snapshot
                       \/ /\ monitor'.life = "running"
                          /\ windows' \in {[kept EXCEPT !.fast = @ \union {monitor'.gen}],
                                           [fast |-> {monitor'.gen}, amount |-> {}], NoWindows}
                          /\ UNCHANGED snapshot \/ Submit(monitor'.gen)
<1> DEFINE n == Adopt(m, c)
           cycles == Cycle(n)
<1>1. n.gen <= MaxGeneration
  BY DEF Poll
<1>2. /\ n \in Monitor
      /\ n.life = IF Stays(m, c) THEN "running" ELSE "candidate"
      /\ n.candidate = c /\ n.retry = NoTerminal
      /\ n.gen = IF Same(m, c) THEN m.gen ELSE m.gen + 1
      /\ n.ok = m.ok
  BY <1>1, AdoptFacts DEF Stays
<1>3. cycles \in 0..RecheckCycles
  <2>1. n.cycles \in 0..RecheckCycles
    BY <1>2 DEF Monitor
  <2> QED
    BY <2>1, MonitorLimits DEF Cycle
<1>4. 0 \in 0..MaxFailures /\ n.gen \in Generations
  BY <1>2, MonitorLimits DEF Monitor
<1>5. CASE PollFails(m, c, box)
  <2>1. PICK transient \in BOOLEAN :
          /\ monitor' = Failed(n, transient) /\ windows' = NoWindows
          /\ outbox' = box \o <<n.gen>> /\ Passed(monitor', c, ~ transient) /\ UNCHANGED snapshot
    BY <1>5 DEF PollFails
  <2>2. /\ monitor' \in Monitor /\ monitor'.life = "waiting"
        /\ monitor'.retry = Retry(n, transient) /\ monitor'.gen = n.gen
        /\ monitor'.ok = n.ok /\ monitor'.pc \in {"stopping", "drain"}
    BY <2>1, <1>2, FailedFacts
  <2>3. monitor'.retry = IF transient /\ ~ Stays(m, c) THEN c ELSE NoTerminal
    BY <2>2, <1>2 DEF Retry
  <2> DEFINE ends == ~ transient
  <2>4. ends \in BOOLEAN /\ Passed(monitor', c, ends)
        /\ monitor'.retry = IF ~ ends /\ ~ Stays(m, c) THEN c ELSE NoTerminal
    BY <2>1, <2>3
  <2> HIDE DEF n, ends
  <2> QED
    BY <2>1, <2>2, <2>4, <1>2
<1>6. CASE PollInvalid(m, c, box, kept)
  <2>1. monitor' = [n EXCEPT !.pc = "drain", !.validated = n.gen, !.cycles = cycles, !.failures = 0]
    BY <1>6 DEF PollInvalid
  <2>2. outbox' = box \o <<n.gen>> /\ windows' \in {kept, NoWindows} /\ Passed(monitor', c, FALSE)
        /\ UNCHANGED snapshot
    BY <1>6 DEF PollInvalid
  <2> HIDE DEF n, cycles
  <2>3. /\ monitor' \in Monitor /\ monitor'.life = n.life /\ monitor'.candidate = n.candidate
        /\ monitor'.retry = n.retry /\ monitor'.gen = n.gen /\ monitor'.ok = n.ok
        /\ monitor'.pc = "drain"
    BY <2>1, <1>2, <1>3, <1>4 DEF Monitor
  <2> QED
    BY <2>2, <2>3, <1>2
<1>7. CASE PollValid(m, c, box, kept)
  <2>1. monitor' = [n EXCEPT !.pc = "drain", !.life = "running", !.validated = n.gen,
                             !.cycles = cycles, !.failures = 0]
    BY <1>7 DEF PollValid
  <2>2. /\ outbox' = box \o <<n.gen>> /\ Passed(monitor', c, FALSE)
        /\ UNCHANGED snapshot \/ Submit(n.gen)
        /\ windows' \in {[kept EXCEPT !.fast = @ \union {n.gen}], [fast |-> {n.gen}, amount |-> {}],
                         NoWindows}
    BY <1>7 DEF PollValid
  <2> HIDE DEF n, cycles
  <2>3. /\ monitor' \in Monitor /\ monitor'.life = "running" /\ monitor'.candidate = n.candidate
        /\ monitor'.retry = n.retry /\ monitor'.gen = n.gen /\ monitor'.ok = n.ok
        /\ monitor'.pc = "drain"
    BY <2>1, <1>2, <1>3, <1>4 DEF Monitor
  <2> QED
    BY <2>2, <2>3, <1>2
<1> QED
  BY <1>5, <1>6, <1>7 DEF Poll

-----------------------------------------------------------------------------
(* The invariant *)

LEMMA PassedFacts ==
  ASSUME TypeOK, NEW n \in Monitor, NEW c \in Candidate, NEW ends \in BOOLEAN, Passed(n, c, ends)
  PROVE  LET lost == monitor.life = "running" /\ (n.life = "waiting" \/ n.gen # monitor.gen)
         IN /\ past' \in Past
            /\ past'.ended = IF lost THEN monitor.gen ELSE past.ended
            /\ past'.due = (ends \/ lost \/ (n.gen = monitor.gen /\ past.due))
            /\ past'.last = IF c = NoTerminal THEN past.last ELSE c
            /\ past'.unwritten = past.unwritten
<1> DEFINE lost == monitor.life = "running" /\ (n.life = "waiting" \/ n.gen # monitor.gen)
           ended == IF lost THEN monitor.gen ELSE past.ended
           due == ends \/ lost \/ (n.gen = monitor.gen /\ past.due)
           last == IF c = NoTerminal THEN past.last ELSE c
<1>1. past \in Past /\ monitor.gen \in Generations
  BY DEF TypeOK, Past, Monitor
<1>2. past' = [past EXCEPT !.ended = ended, !.due = due, !.last = last]
  BY <1>1 DEF Passed, Past
<1>3. ended \in Generations /\ due \in BOOLEAN /\ last \in Candidate
  BY <1>1 DEF Past
<1> HIDE DEF ended, due, last
<1>4. past' \in Past /\ past'.ended = ended /\ past'.due = due /\ past'.last = last
      /\ past'.unwritten = past.unwritten
  BY <1>1, <1>2, <1>3 DEF Past
<1> QED
  BY <1>4 DEF ended, due, last

LEMMA InitMonInv == Init => MonInv
<1> SUFFICES ASSUME Init PROVE MonInv
  OBVIOUS
<1>1. 0 \in Generations /\ 0 \in 0..RecheckCycles /\ 0 \in 0..MaxFailures
  BY MonitorLimits DEF Generations
<1>2. NoTerminal \in Candidate
  BY DEF Candidate
<1>3. TypeOK
  <2>1. monitor \in Monitor
    BY <1>1, <1>2 DEF Init, Monitor
  <2>2. snapshot \in Snapshot
    BY <1>1 DEF Init, Snapshot
  <2>3. queue \in Seq(Generations) /\ Len(queue) <= OutputCapacity /\ outbox \in Seq(Generations)
    BY MonitorLimits DEF Init
  <2> QED
    BY <1>1, <1>2, <2>1, <2>2, <2>3 DEF Init, TypeOK, NoWindows
<1>4. LifeInv /\ SnapshotInv /\ WindowsOfOneGeneration /\ PendingInv /\ ClosingInv
  BY DEF Init, LifeInv, SnapshotInv, WindowsOfOneGeneration, PendingInv, ClosingInv,
         LostIsNotResumed, CleanExitWroteAll, NoWindows
<1> QED
  BY <1>3, <1>4 DEF MonInv

\* Of a poll from a state m that has the generation of the monitor: m is the
\* monitor, or what recheck_identity makes of it.
LEMMA PollPreserves ==
  ASSUME MonInv, Acting, NEW m \in Monitor, NEW c \in Terminals,
         NEW box \in Seq(Generations), NEW kept \in Windows,
         \/ m = monitor /\ kept = windows /\ (monitor.life # "waiting" => monitor.candidate = c)
         \/ /\ m = [monitor EXCEPT !.life = "waiting"] /\ kept = NoWindows
            /\ monitor.life = "running" /\ monitor.candidate # c,
         Poll(m, c, box, kept),
         UNCHANGED <<terminal, queue, writer>>
  PROVE  MonInv' /\ (monitor'.gen # monitor.gen => past.due \/ past'.last # past.last)
<1>1. c \in Candidate /\ c # NoTerminal
  BY NoTerminalDistinct DEF Candidate
<1>2. TypeOK
  BY DEF MonInv
<1>3. /\ m.gen = monitor.gen /\ m.retry = monitor.retry /\ m.ok = monitor.ok
      /\ m.life # "waiting" => m.retry = NoTerminal
      /\ m.life = "running" => m = monitor
  BY <1>2 DEF TypeOK, Monitor, MonInv, LifeInv
<1>4. monitor.gen \in Nat /\ past.ended \in Nat /\ monitor.life \in {"waiting", "candidate", "running"}
  BY <1>2 DEF TypeOK, Monitor, Generations
<1> DEFINE same == Same(m, c)
           stays == Stays(m, c)
<1>5. /\ \/ ~ same
         \/ monitor.life # "waiting" /\ monitor.candidate = c /\ m = monitor
         \/ monitor.life = "waiting" /\ monitor.retry = c /\ m = monitor
      /\ \/ same
         \/ monitor.life = "waiting" /\ monitor.retry # c
         \/ monitor.life = "running" /\ monitor.candidate # c
      /\ stays <=> monitor.life = "running" /\ same
  <2>1. CASE m = monitor /\ (monitor.life # "waiting" => monitor.candidate = c)
    BY <2>1 DEF Same, Stays
  <2>2. CASE /\ m = [monitor EXCEPT !.life = "waiting"]
             /\ monitor.life = "running" /\ monitor.candidate # c
    <3>1. m.life = "waiting" /\ m.retry = NoTerminal
      BY <2>2, <1>2 DEF TypeOK, Monitor, MonInv, LifeInv
    <3>2. ~ same
      BY <3>1, <1>1 DEF Same
    <3> QED
      BY <3>1, <3>2, <2>2 DEF Stays
  <2> QED
    BY <2>1, <2>2
<1>6. /\ monitor' \in Monitor
      /\ monitor'.gen = IF same THEN m.gen ELSE m.gen + 1
      /\ monitor'.ok = m.ok
      /\ monitor'.pc \in {"stopping", "drain"}
      /\ outbox' = box \o <<monitor'.gen>>
  BY <1>1, <1>3, PollFacts
<1>8. PICK ends \in BOOLEAN :
        /\ Passed(monitor', c, ends)
        /\ \/ /\ monitor'.life = "waiting" /\ windows' = NoWindows /\ UNCHANGED snapshot
              /\ monitor'.retry = IF ~ ends /\ ~ stays THEN c ELSE NoTerminal
           \/ /\ monitor'.life \in {"candidate", "running"} /\ ends = FALSE
              /\ monitor'.candidate = c /\ monitor'.retry = NoTerminal
              /\ \/ /\ monitor'.life = IF stays THEN "running" ELSE "candidate"
                    /\ windows' \in {kept, NoWindows} /\ UNCHANGED snapshot
                 \/ /\ monitor'.life = "running"
                    /\ windows' \in {[kept EXCEPT !.fast = @ \union {monitor'.gen}],
                                     [fast |-> {monitor'.gen}, amount |-> {}], NoWindows}
                    /\ UNCHANGED snapshot \/ Submit(monitor'.gen)
  BY <1>1, <1>3, PollFacts
<1> HIDE DEF same, stays
<1>9. /\ past'.ended = IF monitor.life = "running" /\ (monitor'.life = "waiting" \/ monitor'.gen # monitor.gen)
                       THEN monitor.gen ELSE past.ended
      /\ past'.due = (\/ ends
                      \/ monitor.life = "running" /\ (monitor'.life = "waiting" \/ monitor'.gen # monitor.gen)
                      \/ monitor'.gen = monitor.gen /\ past.due)
      /\ past'.last = c
      /\ past'.unwritten = past.unwritten
  BY <1>8, <1>1, <1>2, <1>6, PassedFacts
<1>10. monitor'.gen \in Generations
  BY <1>6 DEF Monitor
<1>11. windows' \in Windows
  BY <1>8, <1>10 DEF Windows, NoWindows
<1>12. snapshot' \in Snapshot
  <2>1. snapshot \in Snapshot
    BY <1>2 DEF TypeOK
  <2>2. CASE UNCHANGED snapshot
    BY <2>1, <2>2
  <2>3. CASE Submit(monitor'.gen)
    BY <2>1, <2>3, <1>10 DEF Submit, Snapshot
  <2> QED
    BY <2>2, <2>3, <1>8
<1>13. TypeOK'
  <2>1. outbox' \in Seq(Generations)
    BY <1>6, <1>10
  <2>2. past' \in Past
    BY <1>2, <1>6, <1>1, <1>8, PassedFacts
  <2> QED
    BY <1>2, <1>6, <1>11, <1>12, <2>1, <2>2 DEF TypeOK, Windows, Past
<1>14. LifeInv'
  BY <1>1, <1>3, <1>4, <1>5, <1>6, <1>8, <1>9 DEF MonInv, LifeInv, LostIsNotResumed
<1>15. SnapshotInv'
  <2>1. CASE UNCHANGED snapshot
    <3>1. snapshot.gen \in Nat
      BY <1>2 DEF TypeOK, Snapshot, Generations
    <3>2. SnapshotInv
      BY DEF MonInv
    <3>3. past.ended <= past'.ended
      BY <1>4, <1>9 DEF MonInv, LifeInv
    <3>4. monitor.life = "running" => \/ past'.ended = monitor.gen
                                      \/ monitor'.life # "waiting" /\ monitor'.gen = monitor.gen
      BY <1>9
    <3>5. monitor.life = "running" /\ monitor'.life # "waiting" /\ monitor'.gen = monitor.gen
            => monitor'.life = "running"
      BY <1>3, <1>4, <1>5, <1>6, <1>8
    <3>6. past'.ended \in Nat
      BY <1>4, <1>9
    <3> QED
      BY <2>1, <3>1, <3>2, <3>3, <3>4, <3>5, <3>6, <1>4 DEF SnapshotInv
  <2>2. CASE monitor'.life = "running" /\ Submit(monitor'.gen) /\ ~ UNCHANGED snapshot
    <3>1. snapshot' = [stage |-> "polling", gen |-> monitor'.gen]
      BY <2>2 DEF Submit
    <3> QED
      BY <2>2, <3>1 DEF SnapshotInv
  <2> QED
    BY <2>1, <2>2, <1>8
<1>16. WindowsOfOneGeneration'
  <2>1. kept.fast \union kept.amount \subseteq IF stays THEN {monitor'.gen} ELSE {}
    <3>1. CASE stays
      BY <3>1, <1>3, <1>5, <1>6 DEF MonInv, WindowsOfOneGeneration
    <3>2. CASE ~ stays
      BY <3>2, <1>3, <1>5, <1>6 DEF MonInv, WindowsOfOneGeneration, NoWindows
    <3> QED
      BY <3>1, <3>2
  <2>2. CASE windows' = NoWindows
    BY <2>2 DEF NoWindows, WindowsOfOneGeneration
  <2>3. CASE windows' = kept /\ (stays => monitor'.life = "running")
    <3>1. windows'.fast \union windows'.amount \subseteq IF stays THEN {monitor'.gen} ELSE {}
      BY <2>1, <2>3
    <3> QED
      BY <2>3, <3>1 DEF WindowsOfOneGeneration
  <2>4. CASE monitor'.life = "running" /\ windows' = [kept EXCEPT !.fast = @ \union {monitor'.gen}]
    <3>1. windows'.fast = kept.fast \union {monitor'.gen} /\ windows'.amount = kept.amount
      BY <2>4 DEF Windows
    <3>2. kept.fast \union kept.amount \subseteq {monitor'.gen}
      BY <2>1
    <3> QED
      BY <2>4, <3>1, <3>2 DEF WindowsOfOneGeneration
  <2>5. CASE monitor'.life = "running" /\ windows' = [fast |-> {monitor'.gen}, amount |-> {}]
    BY <2>5 DEF WindowsOfOneGeneration
  <2> QED
    BY <2>2, <2>3, <2>4, <2>5, <1>8
<1>17. PendingInv'
  BY <1>1, <1>3, <1>4, <1>5, <1>6, <1>8, <1>9 DEF MonInv, LifeInv, PendingInv
<1>18. ClosingInv'
  BY <1>3, <1>6, <1>9 DEF MonInv, ClosingInv, CleanExitWroteAll
<1>19. monitor'.gen # monitor.gen => past.due \/ past'.last # past.last
  BY <1>1, <1>3, <1>4, <1>5, <1>6, <1>9 DEF MonInv, LifeInv, PendingInv
<1> QED
  BY <1>13, <1>14, <1>15, <1>16, <1>17, <1>18, <1>19 DEF MonInv

\* Discovery without a candidate.
LEMMA NoCandidatePreserves ==
  ASSUME MonInv, NoCandidate
  PROVE  MonInv' /\ monitor'.gen = monitor.gen
<1>1. TypeOK /\ monitor \in Monitor
  BY DEF MonInv, TypeOK
<1>2. monitor.gen \in Generations /\ monitor.gen \in Nat /\ past.ended \in Nat /\ 0 \in Generations
      /\ NoTerminal \in Candidate
  BY <1>1, MonitorLimits DEF TypeOK, Monitor, Generations, Candidate
<1>3. Retry(monitor, FALSE) = NoTerminal
  BY DEF Retry
<1>4. /\ monitor' \in Monitor /\ monitor'.life = "waiting" /\ monitor'.retry = NoTerminal
      /\ monitor'.gen = monitor.gen /\ monitor'.ok = monitor.ok
      /\ monitor'.pc \in {"stopping", "drain"}
  <2>1. CASE monitor' = Failed(monitor, FALSE)
    BY <2>1, <1>1, <1>3, FailedFacts
  <2>2. CASE monitor' = [ToWaiting(monitor, FALSE) EXCEPT !.pc = "drain"]
    <3> DEFINE w == ToWaiting(monitor, FALSE)
    <3>1. w \in Monitor /\ w.life = "waiting" /\ w.retry = NoTerminal /\ w.gen = monitor.gen
          /\ w.ok = monitor.ok
      BY <1>1, <1>3, WaitingFacts
    <3> HIDE DEF w
    <3>2. monitor' = [w EXCEPT !.pc = "drain"]
      BY <2>2 DEF w
    <3> QED
      BY <3>1, <3>2 DEF Monitor
  <2> QED
    BY <2>1, <2>2 DEF NoCandidate
<1>5. windows' = NoWindows /\ outbox' \in Seq(Generations) /\ UNCHANGED <<terminal, snapshot, queue, writer>>
  <2>1. monitor.life = "waiting" => windows = NoWindows
    BY <1>1 DEF MonInv, WindowsOfOneGeneration, TypeOK, NoWindows
  <2> QED
    BY <2>1, <1>2 DEF NoCandidate
<1>6. Passed(monitor', NoTerminal, TRUE)
  BY DEF NoCandidate
<1>7. /\ past'.ended = IF monitor.life = "running" THEN monitor.gen ELSE past.ended
      /\ past'.due = TRUE /\ past'.unwritten = past.unwritten
  BY <1>1, <1>2, <1>4, <1>6, PassedFacts
<1>8. TypeOK'
  <2>1. past' \in Past
    BY <1>1, <1>2, <1>4, <1>6, PassedFacts
  <2> QED
    BY <1>1, <1>4, <1>5, <2>1 DEF TypeOK, NoWindows, Past
<1>9. LifeInv' /\ WindowsOfOneGeneration' /\ PendingInv' /\ ClosingInv'
  BY <1>2, <1>4, <1>5, <1>7 DEF MonInv, LifeInv, LostIsNotResumed, WindowsOfOneGeneration, NoWindows,
                             PendingInv, ClosingInv, CleanExitWroteAll
<1>10. SnapshotInv'
  <2>1. snapshot.gen \in Nat
    BY <1>1 DEF TypeOK, Snapshot, Generations
  <2> QED
    BY <2>1, <1>2, <1>5, <1>7 DEF MonInv, LifeInv, SnapshotInv
<1> QED
  BY <1>4, <1>8, <1>9, <1>10 DEF MonInv

\* Every poll of the scheduler is one of PollPreserves.
LEMMA StepPreserves ==
  ASSUME MonInv, PollAgain \/ PollDiscovered \/ Recheck
  PROVE  MonInv' /\ (monitor'.gen # monitor.gen => past.due \/ past'.last # past.last)
<1>1. /\ monitor \in Monitor /\ windows \in Windows /\ <<>> \in Seq(Generations)
      /\ <<monitor.gen>> \in Seq(Generations) /\ NoWindows \in Windows
      /\ monitor.candidate \in Candidate
  BY DEF MonInv, TypeOK, Windows, NoWindows, Monitor
<1>2. CASE PollAgain
  <2>1. monitor.candidate \in Terminals
    BY <1>1, <1>2 DEF PollAgain, MonInv, LifeInv, Candidate
  <2>2. /\ Acting /\ monitor.life # "waiting" /\ UNCHANGED <<terminal, queue, writer>>
        /\ Poll(monitor, monitor.candidate, <<>>, windows)
    BY <1>2 DEF PollAgain
  <2> QED
    BY <1>1, <2>1, <2>2, PollPreserves
<1>3. CASE PollDiscovered
  <2>1. PICK c \in Terminals : Poll(monitor, c, <<>>, windows)
    BY <1>3 DEF PollDiscovered
  <2>2. Acting /\ monitor.life = "waiting" /\ UNCHANGED <<terminal, queue, writer>>
    BY <1>3 DEF PollDiscovered
  <2> QED
    BY <1>1, <2>1, <2>2, PollPreserves
<1>4. CASE Recheck
  <2>1. PICK c \in Terminals :
          IF c = monitor.candidate THEN Poll(monitor, c, <<>>, windows) ELSE Replaced(c)
    BY <1>4 DEF Recheck
  <2>2. Acting /\ monitor.life = "running" /\ UNCHANGED <<terminal, queue, writer>>
    BY <1>4 DEF Recheck, RecheckDue
  <2>3. CASE c = monitor.candidate
    BY <1>1, <2>1, <2>2, <2>3, PollPreserves
  <2>4. CASE c # monitor.candidate
    <3> DEFINE m == [monitor EXCEPT !.life = "waiting"]
    <3>1. m \in Monitor
      BY <1>1 DEF Monitor
    <3>2. Poll(m, c, <<monitor.gen>>, NoWindows)
      BY <2>1, <2>4 DEF Replaced
    <3> QED
      BY <1>1, <2>2, <2>4, <3>1, <3>2, PollPreserves
  <2> QED
    BY <2>3, <2>4
<1> QED
  BY <1>2, <1>3, <1>4

LEMMA DrainPreserves ==
  ASSUME MonInv, Drain
  PROVE  MonInv' /\ monitor'.gen = monitor.gen
<1>1. TypeOK /\ monitor \in Monitor
  BY DEF MonInv, TypeOK
<1>2. /\ monitor' \in Monitor /\ monitor' = [monitor EXCEPT !.pc = "act"]
      /\ monitor'.gen = monitor.gen /\ monitor'.life = monitor.life /\ monitor'.pc = "act"
      /\ monitor'.candidate = monitor.candidate /\ monitor'.retry = monitor.retry
  BY <1>1 DEF Drain, Monitor
<1>3. UNCHANGED <<terminal, queue, writer, past>>
  BY DEF Drain
<1>4. monitor.gen \in Generations /\ snapshot.gen \in Generations /\ 0 \in Generations
      /\ monitor.gen \in Nat /\ past.ended \in Nat
  BY <1>1, MonitorLimits DEF TypeOK, Monitor, Snapshot, Generations
<1>5. LifeInv' /\ PendingInv' /\ ClosingInv'
  BY <1>2, <1>3 DEF MonInv, LifeInv, LostIsNotResumed, PendingInv, ClosingInv, CleanExitWroteAll
<1>6. CASE snapshot.stage = "fetched"
  <2>1. snapshot' = [stage |-> "idle", gen |-> 0]
    BY <1>6 DEF Drain
  <2>2. SnapshotInv' /\ snapshot' \in Snapshot
    BY <2>1, <1>4 DEF SnapshotInv, Snapshot
  <2>3. CASE Stale /\ outbox' = <<snapshot.gen>> /\ UNCHANGED windows
    <3>1. TypeOK'
      BY <1>1, <1>2, <1>3, <1>4, <2>2, <2>3 DEF TypeOK
    <3>2. WindowsOfOneGeneration'
      BY <1>2, <2>3 DEF MonInv, WindowsOfOneGeneration
    <3> QED
      BY <1>2, <1>5, <2>2, <3>1, <3>2 DEF MonInv
  <2>4. CASE /\ ~ Stale /\ outbox' = <<monitor.gen>>
             /\ \E amount \in {{}, windows.amount \union {snapshot.gen}} :
                  windows' = [windows EXCEPT !.amount = amount]
    <3>1. PICK amount \in {{}, windows.amount \union {snapshot.gen}} :
            windows' = [windows EXCEPT !.amount = amount]
      BY <2>4
    <3>2. windows' \in Windows /\ windows'.fast = windows.fast /\ windows'.amount = amount
      BY <3>1, <1>1, <1>4 DEF TypeOK, Windows
    <3>3. TypeOK'
      BY <1>1, <1>2, <1>3, <1>4, <2>2, <2>4, <3>2 DEF TypeOK, Windows
    <3>4. monitor.life = "running" /\ snapshot.gen = monitor.gen
      BY <1>6, <2>4, <1>4 DEF MonInv, LifeInv, LostIsNotResumed, SnapshotInv, Stale
    <3>5. WindowsOfOneGeneration'
      BY <1>2, <3>2, <3>4 DEF MonInv, WindowsOfOneGeneration
    <3> QED
      BY <1>2, <1>5, <2>2, <3>3, <3>5 DEF MonInv
  <2> QED
    BY <1>6, <2>3, <2>4 DEF Drain
<1>7. CASE snapshot.stage # "fetched"
  <2>1. UNCHANGED <<snapshot, windows, outbox>>
    BY <1>7 DEF Drain
  <2>2. TypeOK'
    BY <1>1, <1>2, <1>3, <2>1 DEF TypeOK
  <2>3. SnapshotInv' /\ WindowsOfOneGeneration'
    BY <1>2, <1>3, <2>1 DEF MonInv, SnapshotInv, WindowsOfOneGeneration
  <2> QED
    BY <1>2, <1>5, <2>2, <2>3 DEF MonInv
<1> QED
  BY <1>6, <1>7

\* A queue of frames stays one when its head is taken or a frame is put behind it.
LEMMA FrameQueues ==
  ASSUME NEW box \in Seq(Generations), NEW pipe \in Seq(Generations)
  PROVE  /\ box # <<>> => /\ Head(box) \in Generations /\ Tail(box) \in Seq(Generations)
                          /\ Append(pipe, Head(box)) \in Seq(Generations)
                          /\ Len(Append(pipe, Head(box))) = Len(pipe) + 1
         /\ pipe # <<>> => Tail(pipe) \in Seq(Generations) /\ Len(Tail(pipe)) = Len(pipe) - 1
         /\ Len(pipe) \in Nat
<1> QED
  OBVIOUS

\* The steps of the output, of the snapshot worker and of the terminal, and the
\* shutdown: they leave the lifecycle alone.
LEMMA OutputPreserves ==
  ASSUME MonInv, Emit \/ Write \/ WriterFails \/ JoinSnapshot \/ ShutdownOutput \/ Exit
  PROVE  MonInv' /\ monitor'.gen = monitor.gen
<1>1. TypeOK /\ monitor \in Monitor
  BY DEF MonInv, TypeOK
<1>2. /\ outbox \in Seq(Generations) /\ queue \in Seq(Generations) /\ Len(queue) <= OutputCapacity
      /\ 0 \in Generations /\ <<0>> \in Seq(Generations) /\ <<>> \in Seq(Generations)
      /\ Len(<<>>) <= OutputCapacity /\ OutputCapacity \in Nat
  BY <1>1, MonitorLimits DEF TypeOK, Generations
<1>3. /\ UNCHANGED <<terminal, snapshot, windows>>
      /\ past' = past \/ past' = [past EXCEPT !.unwritten = @ + 1]
           \/ past' = [past EXCEPT !.unwritten = @ - 1]
  BY DEF Emit, Write, WriterFails, JoinSnapshot, ShutdownOutput, Exit
<1>4. SUFFICES /\ monitor' \in Monitor
               /\ monitor'.life = monitor.life /\ monitor'.gen = monitor.gen
               /\ monitor'.candidate = monitor.candidate /\ monitor'.retry = monitor.retry
               /\ outbox' \in Seq(Generations)
               /\ queue' \in Seq(Generations) /\ Len(queue') <= OutputCapacity
               /\ writer' \in {"up", "failed"}
               /\ past'.unwritten \in Nat
               /\ ClosingInv'
  <2>0. past' \in Past /\ past'.ended = past.ended /\ past'.due = past.due /\ past'.last = past.last
    BY <1>1, <1>3, <1>4 DEF TypeOK, Past
  <2>1. TypeOK'
    BY <1>1, <1>3, <1>4, <2>0 DEF TypeOK, Past
  <2>2. LifeInv' /\ SnapshotInv' /\ WindowsOfOneGeneration' /\ PendingInv'
    BY <1>3, <1>4, <2>0 DEF MonInv, LifeInv, LostIsNotResumed, SnapshotInv, WindowsOfOneGeneration, PendingInv
  <2> QED
    BY <1>4, <2>1, <2>2 DEF MonInv
<1>5. ClosingInv /\ writer \in {"up", "failed"}
  BY <1>1 DEF MonInv, TypeOK
<1> DEFINE u == past.unwritten
           Counted(k) == past' = [past EXCEPT !.unwritten = k]
<1>12. u \in Nat /\ Len(queue) \in Nat
       /\ \A k : Counted(k) => past'.unwritten = k
  BY <1>1, <1>2 DEF TypeOK
<1>6. CASE Emit
  <2>1. CASE writer = "up" /\ Len(queue) < OutputCapacity
    <3>1. outbox # <<>> /\ monitor.pc # "exited" /\ queue' = Append(queue, Head(outbox))
          /\ outbox' = Tail(outbox) /\ UNCHANGED <<monitor, writer>> /\ Counted(u + 1)
      BY <1>6, <2>1 DEF Emit
    <3>2. monitor.pc # "closing"
      BY <3>1, <1>5 DEF ClosingInv
    <3> QED
      BY <1>1, <1>2, <1>5, <1>12, <2>1, <3>1, <3>2, FrameQueues DEF ClosingInv, CleanExitWroteAll
  <2>2. CASE ~ (writer = "up" /\ Len(queue) < OutputCapacity)
    <3>1. /\ outbox' = <<>> /\ UNCHANGED <<queue, writer>> /\ monitor.pc # "exited"
          /\ monitor' = [monitor EXCEPT !.ok = FALSE,
                           !.pc = IF @ \in {"drain", "act"} THEN "stopping" ELSE @]
          /\ Counted(u + 1)
      BY <1>6, <2>2 DEF Emit
    <3>2. /\ monitor' \in Monitor /\ monitor'.ok = FALSE
          /\ monitor'.life = monitor.life /\ monitor'.gen = monitor.gen
          /\ monitor'.candidate = monitor.candidate /\ monitor'.retry = monitor.retry
      BY <1>1, <3>1 DEF Monitor
    <3> QED
      BY <1>2, <1>5, <1>12, <3>1, <3>2 DEF ClosingInv, CleanExitWroteAll
  <2> QED
    BY <2>1, <2>2
<1>7. CASE Write
  <2>1. /\ queue # <<>> /\ queue' = Tail(queue) /\ UNCHANGED <<monitor, outbox, writer>>
        /\ writer = "up" /\ Counted(u - 1)
    BY <1>7 DEF Write
  <2>2. queue' \in Seq(Generations) /\ Len(queue') = Len(queue) - 1 /\ Len(queue') \in Nat
    BY <1>2, <2>1, FrameQueues
  <2>3. past'.unwritten = u - 1
    BY <1>12, <2>1
  <2>4. ClosingInv' /\ past'.unwritten \in Nat
    BY <2>1, <2>2, <2>3, <1>5, <1>12 DEF ClosingInv, CleanExitWroteAll
  <2> QED
    BY <1>1, <1>2, <1>5, <2>1, <2>2, <2>4
<1>8. CASE WriterFails
  <2>1. queue' = <<>> /\ writer' = "failed" /\ UNCHANGED <<monitor, outbox, past>>
    BY <1>8 DEF WriterFails
  <2> QED
    BY <1>1, <1>2, <1>5, <1>12, <2>1 DEF ClosingInv, CleanExitWroteAll
<1>9. CASE JoinSnapshot
  <2>1. monitor' = [monitor EXCEPT !.pc = "joined"] /\ outbox' = <<0>> /\ UNCHANGED <<queue, writer, past>>
    BY <1>9 DEF JoinSnapshot
  <2>2. /\ monitor' \in Monitor /\ monitor'.pc = "joined" /\ monitor'.ok = monitor.ok
        /\ monitor'.life = monitor.life /\ monitor'.gen = monitor.gen
        /\ monitor'.candidate = monitor.candidate /\ monitor'.retry = monitor.retry
    BY <1>1, <2>1 DEF Monitor
  <2> QED
    BY <1>2, <1>5, <1>12, <2>1, <2>2 DEF ClosingInv, CleanExitWroteAll
<1>10. CASE ShutdownOutput
  <2>1. outbox = <<>> /\ UNCHANGED <<outbox, queue, writer, past>>
        /\ monitor' \in {[monitor EXCEPT !.pc = "exited", !.ok = FALSE], [monitor EXCEPT !.pc = "closing"]}
    BY <1>10 DEF ShutdownOutput
  <2>2. /\ monitor' \in Monitor /\ (monitor'.pc = "exited" => monitor'.ok = FALSE)
        /\ monitor'.ok => monitor.ok
        /\ monitor'.life = monitor.life /\ monitor'.gen = monitor.gen
        /\ monitor'.candidate = monitor.candidate /\ monitor'.retry = monitor.retry
    BY <1>1, <2>1 DEF Monitor
  <2> QED
    BY <1>2, <1>5, <1>12, <2>1, <2>2 DEF ClosingInv, CleanExitWroteAll
<1>11. CASE Exit
  <2>1. PICK ended \in BOOLEAN :
          /\ ended => writer = "failed" \/ queue = <<>>
          /\ monitor' = [monitor EXCEPT !.pc = "exited", !.ok = @ /\ ended /\ writer = "up"]
    BY <1>11 DEF Exit
  <2>2. monitor.pc = "closing" /\ UNCHANGED <<outbox, queue, writer, past>>
    BY <1>11 DEF Exit
  <2>3. outbox = <<>>
    BY <2>2, <1>5 DEF ClosingInv
  <2>4. /\ monitor' \in Monitor /\ (monitor'.ok => ended /\ writer = "up" /\ monitor.ok)
        /\ monitor'.life = monitor.life /\ monitor'.gen = monitor.gen
        /\ monitor'.candidate = monitor.candidate /\ monitor'.retry = monitor.retry
    BY <1>1, <2>1 DEF Monitor
  <2>5. ClosingInv'
    BY <1>5, <1>12, <2>1, <2>2, <2>3, <2>4 DEF ClosingInv, CleanExitWroteAll
  <2> QED
    BY <1>2, <1>5, <1>12, <2>2, <2>4, <2>5
<1> QED
  BY <1>6, <1>7, <1>8, <1>9, <1>10, <1>11

LEMMA EnvironmentPreserves ==
  ASSUME MonInv, TerminalStarts \/ TerminalStops \/ Fetch
  PROVE  MonInv' /\ monitor'.gen = monitor.gen
<1>1. TypeOK
  BY DEF MonInv
<1>2. UNCHANGED <<monitor, windows, outbox, queue, writer, past>>
  BY DEF TerminalStarts, TerminalStops, Fetch
<1>3. terminal' \in [now : Candidate, gone : SUBSET Terminals]
  BY <1>1 DEF TerminalStarts, TerminalStops, Fetch, TypeOK, Candidate
<1>4. /\ snapshot' \in Snapshot /\ snapshot'.gen = snapshot.gen
      /\ snapshot'.stage # "idle" => snapshot.stage # "idle"
  BY <1>1 DEF TerminalStarts, TerminalStops, Fetch, TypeOK, Snapshot
<1>5. TypeOK'
  BY <1>1, <1>2, <1>3, <1>4 DEF TypeOK
<1>6. LifeInv' /\ SnapshotInv' /\ WindowsOfOneGeneration' /\ PendingInv' /\ ClosingInv'
  BY <1>2, <1>4 DEF MonInv, LifeInv, LostIsNotResumed, SnapshotInv, WindowsOfOneGeneration,
                    PendingInv, ClosingInv, CleanExitWroteAll
<1> QED
  BY <1>2, <1>5, <1>6 DEF MonInv

\* GenerationJustified, as a property of a step.
JustifiedStep == monitor'.gen # monitor.gen => past.due \/ past'.last # past.last

LEMMA NextMonInv ==
  ASSUME MonInv, [Next]_vars
  PROVE  MonInv' /\ JustifiedStep
<1>1. CASE UNCHANGED vars
  BY <1>1 DEF vars, MonInv, TypeOK, LifeInv, LostIsNotResumed, SnapshotInv, WindowsOfOneGeneration,
              PendingInv, ClosingInv, CleanExitWroteAll, JustifiedStep
<1>2. CASE TerminalStarts \/ TerminalStops \/ Fetch
  BY <1>2, EnvironmentPreserves DEF JustifiedStep
<1>3. CASE Emit \/ Write \/ WriterFails \/ JoinSnapshot \/ ShutdownOutput \/ Exit
  BY <1>3, OutputPreserves DEF JustifiedStep
<1>4. CASE Drain
  BY <1>4, DrainPreserves DEF JustifiedStep
<1>5. CASE NoCandidate
  BY <1>5, NoCandidatePreserves DEF JustifiedStep
<1>6. CASE PollAgain \/ PollDiscovered \/ Recheck
  BY <1>6, StepPreserves DEF JustifiedStep
<1> QED
  BY <1>1, <1>2, <1>3, <1>4, <1>5, <1>6 DEF Next, Scheduler

-----------------------------------------------------------------------------
(* Theorems *)

\* The inductive invariant of the monitor process.
THEOREM MonitorInvariance == Spec => []MonInv
<1>1. Init => MonInv
  BY InitMonInv
<1>2. MonInv /\ [Next]_vars => MonInv'
  BY NextMonInv
<1> QED
  BY <1>1, <1>2, PTL DEF Spec

\* The scheduler, the worker, the queue and the writer keep their types: no
\* counter leaves its range, and the queue its bound.
THEOREM MonitorTypes == Spec => []TypeOK
<1>1. MonInv => TypeOK
  BY DEF MonInv
<1> QED
  BY <1>1, MonitorInvariance, PTL

\* The windows of the analysers hold samples of one generation only, for every
\* interleaving of the snapshot worker with losses and replacements.
THEOREM WindowsCorrect == Spec => []WindowsOfOneGeneration
<1>1. MonInv => WindowsOfOneGeneration
  BY DEF MonInv
<1> QED
  BY <1>1, MonitorInvariance, PTL

\* A generation that has run and was lost is never monitored or pending again.
THEOREM LostCorrect == Spec => []LostIsNotResumed
<1>1. MonInv => LostIsNotResumed
  BY DEF MonInv, LifeInv
<1> QED
  BY <1>1, MonitorInvariance, PTL

\* A process that ends without an error has written every frame it emitted.
THEOREM CleanExitCorrect == Spec => []CleanExitWroteAll
<1>1. MonInv => CleanExitWroteAll
  BY DEF MonInv, ClosingInv
<1> QED
  BY <1>1, MonitorInvariance, PTL

\* No generation begins without a reason: another terminal, or something that
\* ended the one before.
THEOREM GenerationCorrect == Spec => GenerationJustified
<1>1. MonInv /\ [Next]_vars => [JustifiedStep]_vars
  BY NextMonInv
<1>2. Spec => [][JustifiedStep]_vars
  BY <1>1, MonitorInvariance, PTL DEF Spec
<1> QED
  BY <1>2 DEF GenerationJustified, JustifiedStep
=============================================================================
