------------------------------ MODULE QuoteRace ------------------------------
(***************************************************************************)
(* The realtime quote race of magic-market-service: an unpinned request is *)
(* put to every candidate at once, each by a detached thread; the first    *)
(* answer with records wins. A candidate serves one thread at a time,      *)
(* whichever race it belongs to: its gate is realtime_quote_in_flight.     *)
(*                                                                         *)
(* A race is run by a worker, and its threads may outlive it. QueryPath    *)
(* says when a worker starts one.                                          *)
(***************************************************************************)
EXTENDS Naturals, Sequences, FiniteSets

CONSTANTS
  Workers,     \* who may run a race
  Candidates   \* number of eligible registrations, in registration order

ASSUME CandidatesAssumption == Candidates \in Nat \ {0}
ASSUME WorkersFinite == IsFiniteSet(Workers)

VARIABLES
  race,     \* per worker
  thread,   \* per worker and candidate
  gate      \* per candidate: a thread holds its RealtimeQuotePermit

raceVars == <<race, thread, gate>>

Providers == 1..Candidates

\* What the registration returns: Ok with records, or anything else, for which
\* an attempt is noted: Ok without records, an error, a panic (it is caught).
Results == {"records", "rejected"}

Message == [from : Providers, result : Results]

Race ==
  [stage : {"off", "claiming", "spawning", "receiving"},
   index : Providers,                     \* candidate of the loop
   running : 0..Candidates,               \* answers still to be received
   noted : SUBSET Providers,              \* attempts[index] is set
   mail : Seq(Message)]                   \* the mpsc channel

NoRace == [stage |-> "off", index |-> 1, running |-> 0,
           noted |-> {}, mail |-> <<>>]

\* "working": holds the permit; a result: the permit is dropped, to be sent.
Thread == {"none", "working"} \union Results

RaceTypeOK ==
  /\ race \in [Workers -> Race]
  /\ thread \in [Workers -> [Providers -> Thread]]
  /\ gate \in [Providers -> BOOLEAN]

RaceInit ==
  /\ race = [w \in Workers |-> NoRace]
  /\ thread = [w \in Workers |-> [c \in Providers |-> "none"]]
  /\ gate = [c \in Providers |-> FALSE]

\* No thread of an earlier race of this worker is left.
Quiet(w) == \A c \in Providers : thread[w][c] = "none"

StartRace(w) ==
  /\ race[w].stage = "off" /\ Quiet(w)
  /\ race' = [race EXCEPT ![w] = [NoRace EXCEPT !.stage = "claiming"]]
  /\ UNCHANGED <<thread, gate>>

-----------------------------------------------------------------------------
(* The loop over the candidates *)

\* Mutant: the loop runs one past the last candidate.
AdvancedPast(q) == IF q.index > Candidates THEN [q EXCEPT !.stage = "receiving"]
                   ELSE [q EXCEPT !.stage = "claiming", !.index = @ + 1]

\* The loop goes on, or is over and the sender is dropped.
Advanced(q) == IF q.index = Candidates THEN [q EXCEPT !.stage = "receiving"]
               ELSE [q EXCEPT !.stage = "claiming", !.index = @ + 1]

Noted(q, c) == [q EXCEPT !.noted = @ \union {c}]

\* compare_exchange on the gate of the candidate.
Claim(w) ==
  /\ race[w].stage = "claiming"
  /\ LET c == race[w].index
     IN \/ /\ gate[c]
           /\ race' = [race EXCEPT ![w] = Advanced(Noted(@, c))]
           /\ UNCHANGED gate
        \/ /\ ~ gate[c]
           /\ gate' = [gate EXCEPT ![c] = TRUE]
           /\ race' = [race EXCEPT ![w].stage = "spawning"]
  /\ UNCHANGED thread

Spawn(w) ==
  /\ race[w].stage = "spawning"
  /\ thread' = [thread EXCEPT ![w][race[w].index] = "working"]
  /\ LET q == [Advanced(race[w]) EXCEPT !.running = @ + 1] IN race' = [race EXCEPT ![w] = q]
  /\ UNCHANGED gate

\* Mutant: the gate stays taken when the thread cannot be created.
SpawnFailsKeepingGate(w) ==
  /\ race[w].stage = "spawning"
  /\ race' = [race EXCEPT ![w] = Advanced(Noted(@, @.index))]
  /\ UNCHANGED <<thread, gate>>

SpawnFails(w) ==
  /\ race[w].stage = "spawning"
  /\ gate' = [gate EXCEPT ![race[w].index] = FALSE]
  /\ race' = [race EXCEPT ![w] = Advanced(Noted(@, @.index))]
  /\ UNCHANGED thread

-----------------------------------------------------------------------------
(* The threads *)

\* Mutant: a panic ends the thread without a message.
AnswerUncaught(w, c) ==
  /\ thread[w][c] = "working"
  /\ \E result \in Results \union {"none"} : thread' = [thread EXCEPT ![w][c] = result]
  /\ gate' = [gate EXCEPT ![c] = FALSE]
  /\ UNCHANGED race

\* execute_registration returns or panics; the permit is dropped.
Answer(w, c) ==
  /\ thread[w][c] = "working"
  /\ \E result \in Results : thread' = [thread EXCEPT ![w][c] = result]
  /\ gate' = [gate EXCEPT ![c] = FALSE]
  /\ UNCHANGED race

\* worker_sender.send; nobody receives it if the race is over.
Send(w, c) ==
  /\ thread[w][c] \in Results
  /\ race' = IF race[w].stage = "off" THEN race
             ELSE [race EXCEPT ![w].mail = Append(@, [from |-> c, result |-> thread[w][c]])]
  /\ thread' = [thread EXCEPT ![w][c] = "none"]
  /\ UNCHANGED gate

-----------------------------------------------------------------------------
(* The answers *)

CanReceive(w) == race[w].stage = "receiving" /\ race[w].running > 0 /\ race[w].mail # <<>>

\* The first answer with records is returned; the receiver is dropped.
Wins(w, c) ==
  /\ CanReceive(w)
  /\ Head(race[w].mail) = [from |-> c, result |-> "records"]
  /\ race' = [race EXCEPT ![w] = NoRace]
  /\ UNCHANGED <<thread, gate>>

Rejects(w) ==
  /\ CanReceive(w)
  /\ LET m == Head(race[w].mail)
         q == [Noted(race[w], m.from) EXCEPT !.mail = Tail(@), !.running = @ - 1]
     IN m.result = "rejected" /\ race' = [race EXCEPT ![w] = q]
  /\ UNCHANGED <<thread, gate>>

\* Mutant: the loop over the answers is one short.
ExhaustedEarly(w) == race[w].stage = "receiving" /\ race[w].running <= 1

Exhausted(w) == race[w].stage = "receiving" /\ race[w].running = 0

\* ProviderRouteFailure, or the InvalidRequest all candidates agree on.
Fails(w) ==
  /\ Exhausted(w)
  /\ race' = [race EXCEPT ![w] = NoRace]
  /\ UNCHANGED <<thread, gate>>

-----------------------------------------------------------------------------
\* The steps a race takes by itself, and those of its threads.
RaceStep(w) == Claim(w) \/ Spawn(w) \/ SpawnFails(w) \/ Rejects(w)

ThreadStep(w, c) == Answer(w, c) \/ Send(w, c)

RaceEnds(w) == (\E c \in Providers : Wins(w, c)) \/ Fails(w)

RaceNext == \E w \in Workers : \/ StartRace(w) \/ RaceStep(w) \/ RaceEnds(w)
                               \/ \E c \in Providers : ThreadStep(w, c)

RaceSpec == RaceInit /\ [][RaceNext]_raceVars

-----------------------------------------------------------------------------
(* Properties *)

\* Who holds the gate of the candidate: a thread at work, or a worker that is
\* about to create one.
Holders(c) == {w \in Workers : \/ thread[w][c] = "working"
                               \/ race[w].stage = "spawning" /\ race[w].index = c}

\* BR-063: a candidate permits at most one detached attempt at a time, however
\* many races were abandoned, and it is busy exactly as long as that one works.
GateExact ==
  \A c \in Providers : /\ gate[c] <=> Holders(c) # {}
                       /\ \A v, w \in Holders(c) : v = w

\* The messages of the candidate that the race has not received.
Unread(w, c) == {k \in DOMAIN race[w].mail : race[w].mail[k].from = c}

\* The candidates the loop has passed.
Passed(w) == IF race[w].stage = "receiving" THEN Providers ELSE 1..(race[w].index - 1)

\* A race has every candidate it passed in exactly one place: noted, at work or
\* in the channel. It waits for as many answers as will come, so it neither
\* hangs nor gives up while one is under way; and a candidate whose answer can
\* be observed does not look busy because of it.
Accounted ==
  \A w \in Workers : race[w].stage # "off" =>
    /\ \A c \in Passed(w) :
         IF c \in race[w].noted \/ thread[w][c] # "none"
         THEN Unread(w, c) = {} /\ ~ (c \in race[w].noted /\ thread[w][c] # "none")
         ELSE \E k \in DOMAIN race[w].mail : Unread(w, c) = {k}
    /\ \A c \in Providers \ Passed(w) : thread[w][c] = "none" /\ Unread(w, c) = {}
    /\ race[w].running = Cardinality(Passed(w) \ race[w].noted)

\* BR-063: a race ends with the first answer that has records, and without one
\* only after every candidate was busy, could not be asked or has answered.
FailsWhenExhausted ==
  [][\A w \in Workers : race[w].stage = "receiving" /\ race'[w].stage = "off" =>
       \/ race[w].mail # <<>> /\ Head(race[w].mail).result = "records"
       \/ race[w].noted = Providers]_raceVars
=============================================================================
