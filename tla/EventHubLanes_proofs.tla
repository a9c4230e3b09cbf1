------------------------ MODULE EventHubLanes_proofs ------------------------
(***************************************************************************)
(* Proofs about what the live channel of EventHub carries: the agent lane  *)
(* in order although it is broadcast after the mutex is released, and the  *)
(* local lane without a repeated number.                                   *)
(***************************************************************************)
EXTENDS EventHub_proofs

-----------------------------------------------------------------------------
(* The agent lane *)

\* The number the next agent event on the channel bears: that of the event a
\* task is about to broadcast, or the one the hub would publish next.
Upcoming == IF \E s \in Streams : stream[s].stage = "broadcasting" THEN latest ELSE latest + 1

\* Since the generation was taken up the channel has carried it up to the
\* upcoming number, and the last agent event it carried precedes that number,
\* unless the generation is about to begin.
LaneInv ==
  /\ since \in 0..Len(sent)
  /\ {sent[i].seq : i \in AgentLane(since + 1, Len(sent))} = 1..(Upcoming - 1)
  /\ \A j \in AgentLane(since + 1, Len(sent)) : sent[j].gen = generation
  /\ \/ Upcoming = 1
     \/ \E j \in AgentLane(1, Len(sent)) :
          /\ \A k \in AgentLane(1, Len(sent)) : k <= j
          /\ sent[j].gen = generation /\ sent[j].seq + 1 = Upcoming
  /\ AgentLaneInOrder

\* Events of server tasks are on the local lane.
PendingIsLocal == \A p \in Publishers : localPending[p] # <<>> => Head(localPending[p]).gen = Local

\* Agent events of a log between two positions, and the numbers they bear from
\* a position on.
LaneOf(log, first, last) == {i \in first..last : log[i].gen # Local}
SeqsOf(log, first) == {log[i].seq : i \in LaneOf(log, first, Len(log))}

LEMMA LaneAppend ==
  ASSUME NEW log \in Seq(Envelope), NEW e \in Envelope, NEW first \in Nat \ {0}
  PROVE  /\ \A last \in Nat : last <= Len(log) =>
              LaneOf(Append(log, e), first, last) = LaneOf(log, first, last)
         /\ first <= Len(log) + 1 =>
              LaneOf(Append(log, e), first, Len(log) + 1)
                = LaneOf(log, first, Len(log)) \cup (IF e.gen = Local THEN {} ELSE {Len(log) + 1})
<1> DEFINE more == Append(log, e)
           n == Len(log)
<1>1. more[n + 1] = e /\ n \in Nat /\ \A i \in 1..n : more[i] = log[i]
  OBVIOUS
<1> HIDE DEF more, n
<1>2. ASSUME NEW last \in Nat, last <= n PROVE LaneOf(more, first, last) = LaneOf(log, first, last)
  <2>1. first..last \subseteq 1..n  BY <1>1, <1>2
  <2>2. QED  BY <1>1, <2>1 DEF LaneOf
<1>3. ASSUME first <= n + 1
      PROVE  LaneOf(more, first, n + 1)
               = LaneOf(log, first, n) \cup (IF e.gen = Local THEN {} ELSE {n + 1})
  <2>1. first..(n + 1) = (first..n) \cup {n + 1} /\ first..n \subseteq 1..n  BY <1>1, <1>3
  <2>2. QED  BY <1>1, <2>1 DEF LaneOf
<1>4. QED  BY <1>2, <1>3 DEF more, n

LEMMA SeqsOfAppend ==
  ASSUME NEW log \in Seq(Envelope), NEW e \in Envelope, NEW first \in 1..(Len(log) + 1)
  PROVE  SeqsOf(Append(log, e), first)
           = SeqsOf(log, first) \cup (IF e.gen = Local THEN {} ELSE {e.seq})
<1> DEFINE more == Append(log, e)
           n == Len(log)
           old == LaneOf(log, first, n)
<1>1. /\ more[n + 1] = e /\ n \in Nat /\ \A i \in 1..n : more[i] = log[i]
      /\ Len(more) = n + 1 /\ first \in Nat \ {0} /\ first <= n + 1
  OBVIOUS
<1>2. LaneOf(more, first, n + 1) = old \cup (IF e.gen = Local THEN {} ELSE {n + 1})
  BY <1>1, LaneAppend
<1> HIDE DEF more, n
<1>3. \A i \in old : more[i] = log[i]  BY <1>1 DEF LaneOf
<1>4. {more[i].seq : i \in LaneOf(more, first, n + 1)}
        = {log[i].seq : i \in old} \cup (IF e.gen = Local THEN {} ELSE {e.seq})
  BY <1>1, <1>2, <1>3
<1>5. SeqsOf(more, first) = SeqsOf(log, first) \cup (IF e.gen = Local THEN {} ELSE {e.seq})
  BY <1>1, <1>4 DEF SeqsOf, n
<1>6. QED  BY <1>5 DEF more

\* The two halves of the order, position by position.
RunAt(log, from, g, j) ==
  /\ log[j].gen = g
  /\ {log[i].seq : i \in LaneOf(log, from + 1, j - 1)} = 1..(log[j].seq - 1)
StepAt(log, j) ==
  \/ log[j].seq = 1
  \/ \E i \in LaneOf(log, 1, j - 1) :
       Follows(log[i], log[j]) /\ \A k \in LaneOf(log, 1, j - 1) : k <= i

LEMMA OrderByPosition ==
  AgentLaneInOrder <=> /\ \A j \in LaneOf(sent, since + 1, Len(sent)) : RunAt(sent, since, generation, j)
                       /\ \A j \in LaneOf(sent, 1, Len(sent)) : StepAt(sent, j)
BY DEF AgentLaneInOrder, AgentLane, LaneOf, RunAt, StepAt

LEMMA OrderPrefix ==
  ASSUME NEW log \in Seq(Envelope), NEW e \in Envelope, NEW from \in Nat, NEW g,
         NEW j \in 1..Len(log)
  PROVE  /\ RunAt(log, from, g, j) => RunAt(Append(log, e), from, g, j)
         /\ StepAt(log, j) => StepAt(Append(log, e), j)
<1> DEFINE more == Append(log, e)
<1>1. /\ \A i \in 1..Len(log) : more[i] = log[i]
      /\ Len(log) \in Nat /\ j - 1 \in Nat /\ j - 1 <= Len(log) /\ from + 1 \in Nat \ {0}
  OBVIOUS
<1>2. /\ LaneOf(more, from + 1, j - 1) = LaneOf(log, from + 1, j - 1)
      /\ LaneOf(more, 1, j - 1) = LaneOf(log, 1, j - 1)
  BY <1>1, LaneAppend
<1> HIDE DEF more
<1>3. /\ \A i \in LaneOf(log, from + 1, j - 1) : more[i] = log[i]
      /\ \A i \in LaneOf(log, 1, j - 1) : more[i] = log[i]
      /\ more[j] = log[j]
  BY <1>1 DEF LaneOf
<1>4. RunAt(log, from, g, j) => RunAt(more, from, g, j)
  BY <1>2, <1>3 DEF RunAt
<1>5. StepAt(log, j) => StepAt(more, j)
  BY <1>2, <1>3 DEF StepAt
<1>6. QED  BY <1>4, <1>5 DEF more

\* An event that bears the upcoming number may be sent.
LEMMA OrderEnd ==
  ASSUME NEW log \in Seq(Envelope), NEW e \in Envelope, NEW from \in 0..Len(log)
  PROVE  /\ SeqsOf(log, from + 1) = 1..(e.seq - 1)
              => RunAt(Append(log, e), from, e.gen, Len(log) + 1)
         /\ (\/ e.seq = 1
             \/ \E i \in LaneOf(log, 1, Len(log)) :
                  Follows(log[i], e) /\ \A k \in LaneOf(log, 1, Len(log)) : k <= i)
              => StepAt(Append(log, e), Len(log) + 1)
<1> DEFINE more == Append(log, e)
           n == Len(log)
<1>1. /\ more[n + 1] = e /\ n \in Nat /\ (n + 1) - 1 = n /\ from + 1 \in Nat \ {0}
      /\ \A i \in 1..n : more[i] = log[i]
  OBVIOUS
<1>2. /\ LaneOf(more, from + 1, n) = LaneOf(log, from + 1, n)
      /\ LaneOf(more, 1, n) = LaneOf(log, 1, n)
  BY <1>1, LaneAppend
<1> HIDE DEF more, n
<1>3. /\ \A i \in LaneOf(log, from + 1, n) : more[i] = log[i]
      /\ \A i \in LaneOf(log, 1, n) : more[i] = log[i]
  BY <1>1 DEF LaneOf
<1>4. SeqsOf(log, from + 1) = 1..(e.seq - 1) => RunAt(more, from, e.gen, n + 1)
  BY <1>1, <1>2, <1>3 DEF RunAt, SeqsOf, n
<1>5. ASSUME \/ e.seq = 1
             \/ \E i \in LaneOf(log, 1, n) :
                  Follows(log[i], e) /\ \A k \in LaneOf(log, 1, n) : k <= i
      PROVE  StepAt(more, n + 1)
  <2>1. CASE e.seq = 1  BY <1>1, <2>1 DEF StepAt
  <2>2. ASSUME NEW i \in LaneOf(log, 1, n), Follows(log[i], e), \A k \in LaneOf(log, 1, n) : k <= i
        PROVE  StepAt(more, n + 1)
    <3>1. i \in LaneOf(more, 1, (n + 1) - 1) /\ LaneOf(more, 1, (n + 1) - 1) = LaneOf(log, 1, n)
      BY <1>1, <1>2
    <3>2. Follows(more[i], more[n + 1])  BY <1>1, <1>3, <2>2
    <3>3. QED  BY <2>2, <3>1, <3>2 DEF StepAt
  <2>3. QED  BY <1>5, <2>1, <2>2
<1>6. QED  BY <1>4, <1>5 DEF more, n

LEMMA LaneUnchanged ==
  ASSUME LaneInv, UNCHANGED <<sent, since, generation>>, Upcoming' = Upcoming
  PROVE  LaneInv'
BY DEF LaneInv, AgentLaneInOrder, AgentLane

\* A broadcast of the upcoming number, or of a local event, keeps the order.
LEMMA LaneExtended ==
  ASSUME LaneInv, sent \in Seq(Envelope), NEW e \in Envelope, sent' = Append(sent, e),
         latest \in Nat, UNCHANGED <<since, generation>>,
         \/ e.gen = Local /\ Upcoming' = Upcoming
         \/ /\ e.gen = generation /\ e.gen # Local /\ e.seq = Upcoming
            /\ Upcoming # 0 /\ Upcoming' = Upcoming + 1
  PROVE  LaneInv'
<1> DEFINE n == Len(sent)
           old == LaneOf(sent, 1, n)
<1>1. /\ n \in Nat /\ Len(sent') = n + 1 /\ sent'[n + 1] = e /\ \A i \in 1..n : sent'[i] = sent[i]
      /\ since \in 0..n /\ since \in Nat /\ since + 1 \in Nat \ {0} /\ since + 1 <= n + 1
      /\ since + 1 \in 1..(n + 1) /\ Upcoming \in Nat
  BY DEF LaneInv, Upcoming
<1>2. /\ LaneOf(sent', 1, n + 1) = old \cup (IF e.gen = Local THEN {} ELSE {n + 1})
      /\ LaneOf(sent', since + 1, n + 1)
           = LaneOf(sent, since + 1, n) \cup (IF e.gen = Local THEN {} ELSE {n + 1})
  BY <1>1, LaneAppend
<1>3. /\ SeqsOf(sent', since + 1) = SeqsOf(sent, since + 1) \cup (IF e.gen = Local THEN {} ELSE {e.seq})
      /\ SeqsOf(sent, since + 1) = 1..(Upcoming - 1)
  <2>1. SeqsOf(sent, since + 1) = 1..(Upcoming - 1)
    BY DEF LaneInv, AgentLane, SeqsOf, LaneOf
  <2>2. QED  BY <1>1, <2>1, SeqsOfAppend
<1>4. SeqsOf(sent', since' + 1) = 1..(Upcoming' - 1)
  <2>1. (1..(Upcoming - 1)) \cup {Upcoming} = 1..Upcoming \/ Upcoming = 0  BY <1>1
  <2>2. CASE e.gen = Local /\ Upcoming' = Upcoming  BY <1>3, <2>2
  <2>3. CASE e.gen # Local /\ e.seq = Upcoming /\ Upcoming # 0 /\ Upcoming' = Upcoming + 1
    <3>1. SeqsOf(sent', since' + 1) = 1..Upcoming  BY <1>3, <2>1, <2>3
    <3>2. Upcoming' - 1 = Upcoming  BY <1>1, <2>3
    <3>3. QED  BY <3>1, <3>2
  <2>4. QED  BY <2>2, <2>3
<1>5. \A j \in LaneOf(sent', since' + 1, n + 1) : RunAt(sent', since', generation', j)
  <2>1. ASSUME NEW j \in LaneOf(sent, since + 1, n) PROVE RunAt(sent', since, generation, j)
    <3>1. j \in 1..n /\ RunAt(sent, since, generation, j)
      BY <1>1, <2>1, OrderByPosition DEF LaneInv, LaneOf
    <3>2. QED  BY <1>1, <3>1, OrderPrefix
  <2>2. CASE e.gen = Local  BY <1>2, <2>1, <2>2
  <2>3. CASE e.gen # Local
    <3>1. RunAt(sent', since, generation, n + 1)
      BY <1>1, <1>3, <2>3, OrderEnd
    <3>2. QED  BY <1>2, <2>1, <2>3, <3>1
  <2>4. QED  BY <2>2, <2>3
<1>6. \A j \in LaneOf(sent', 1, n + 1) : StepAt(sent', j)
  <2>1. ASSUME NEW j \in old PROVE StepAt(sent', j)
    <3>1. j \in 1..n /\ StepAt(sent, j)
      BY <2>1, OrderByPosition DEF LaneInv, LaneOf
    <3>2. QED  BY <1>1, <3>1, OrderPrefix
  <2>2. CASE e.gen = Local  BY <1>2, <2>1, <2>2
  <2>3. CASE e.gen # Local
    <3>1. \/ e.seq = 1
          \/ \E j \in old : (\A k \in old : k <= j) /\ sent[j].gen = generation /\ sent[j].seq + 1 = e.seq
      BY <2>3 DEF LaneInv, AgentLane, LaneOf
    <3>2. \/ e.seq = 1
          \/ \E j \in old : Follows(sent[j], e) /\ \A k \in old : k <= j
      BY <2>3, <3>1 DEF Follows
    <3>3. StepAt(sent', n + 1)  BY <1>1, <3>2, OrderEnd
    <3>4. QED  BY <1>2, <2>1, <2>3, <3>3
  <2>4. QED  BY <2>2, <2>3
<1>7. AgentLaneInOrder'
  BY <1>1, <1>5, <1>6 DEF AgentLaneInOrder, AgentLane, LaneOf, RunAt, StepAt
<1>8. \/ Upcoming' = 1
      \/ \E j \in LaneOf(sent', 1, n + 1) :
           /\ \A k \in LaneOf(sent', 1, n + 1) : k <= j
           /\ sent'[j].gen = generation' /\ sent'[j].seq + 1 = Upcoming'
  <2>1. CASE e.gen = Local
    <3>1. \A i \in old : sent'[i] = sent[i]  BY <1>1 DEF LaneOf
    <3>2. QED  BY <1>2, <2>1, <3>1 DEF LaneInv, AgentLane, LaneOf
  <2>2. CASE e.gen # Local
    <3>1. \A k \in LaneOf(sent', 1, n + 1) : k <= n + 1  BY <1>1 DEF LaneOf
    <3>2. n + 1 \in LaneOf(sent', 1, n + 1)  BY <1>2, <2>2
    <3>3. QED  BY <1>1, <2>2, <3>1, <3>2
  <2>3. QED  BY <2>1, <2>2
<1>9. since' \in 0..Len(sent')  BY <1>1
<1>10. \A j \in LaneOf(sent', since' + 1, n + 1) : sent'[j].gen = generation'  BY <1>5 DEF RunAt
<1>11. QED  BY <1>1, <1>4, <1>7, <1>8, <1>9, <1>10 DEF LaneInv, AgentLane, LaneOf, SeqsOf

\* What a step does to the lane: nothing, another generation is taken up, or the
\* channel carries one event more, local or with the upcoming number.
LaneStep ==
  \/ UNCHANGED <<sent, since, generation>> /\ Upcoming' = Upcoming
  \/ sent' = sent /\ since' = Len(sent) /\ Upcoming' = 1
  \/ \E e \in Envelope :
       /\ sent' = Append(sent, e) /\ UNCHANGED <<since, generation>>
       /\ \/ e.gen = Local /\ Upcoming' = Upcoming
          \/ /\ e.gen = generation /\ e.gen # Local /\ e.seq = Upcoming
             /\ Upcoming # 0 /\ Upcoming' = Upcoming + 1

LEMMA LaneSteps ==
  ASSUME TypeOK, SessionInv, PendingIsLocal, TypeOK', SessionInv', [Next]_vars
  PROVE  LaneStep
<1>0. /\ stream \in [Streams -> StreamRecord] /\ stream' \in [Streams -> StreamRecord]
      /\ sent \in Seq(Envelope) /\ Len(sent) \in Nat /\ latest \in Nat
  BY BoundsNatural DEF TypeOK
<1>1. ASSUME NEW s \in Streams, NEW g \in Generations, NEW hello, ConnectAgent(s, g, hello)
      PROVE  LaneStep
  <2>1. /\ \A t \in Streams : stream[t].stage # "broadcasting"
        /\ \A t \in Streams : stream'[t].stage # "broadcasting"
    BY <1>0, <1>1 DEF ConnectAgent, StreamRecord, SessionFree, SessionInv, Attached
  <2>2. CASE g = generation
    BY <1>1, <2>1, <2>2 DEF ConnectAgent, Upcoming, LaneStep
  <2>3. CASE g # generation
    <3>1. latest' = 0 /\ sent' = sent /\ since' = Len(sent)
      BY <1>1, <2>3 DEF ConnectAgent
    <3>2. Upcoming' = 1  BY <2>1, <3>1 DEF Upcoming
    <3>3. QED  BY <3>1, <3>2 DEF LaneStep
  <2>4. QED  BY <2>2, <2>3
<1>2. ASSUME NEW s \in Streams, NEW event \in AgentEvents, Publish(s, event) PROVE LaneStep
  <2>1. /\ UNCHANGED <<sent, since, generation>> /\ latest' = latest + 1
        /\ stream'[s].stage = "broadcasting" /\ stream[s].stage = "serving"
        /\ agentSession = stream[s].session
    BY <1>0, <1>2 DEF Publish, Publishable, StreamRecord
  <2>2. \A t \in Streams : stream[t].stage # "broadcasting"
    BY <2>1 DEF SessionInv, Attached
  <2>3. Upcoming' = Upcoming  BY <2>1, <2>2 DEF Upcoming
  <2>4. QED  BY <2>1, <2>3 DEF LaneStep
<1>3. ASSUME NEW s \in Streams, Broadcast(s) PROVE LaneStep
  <2> DEFINE e == stream[s].outgoing
  <2>1. /\ sent' = Append(sent, e) /\ UNCHANGED <<generation, latest, since>>
        /\ stream[s].stage = "broadcasting" /\ stream'[s].stage # "broadcasting"
        /\ \A t \in Streams \ {s} : stream'[t] = stream[t]
    BY <1>0, <1>3 DEF Broadcast, StreamRecord, state
  <2>2. /\ e \in Envelope /\ e.gen = generation /\ e.seq = latest /\ generation # 0 /\ latest # 0
        /\ stream[s].session = agentSession
    BY <2>1 DEF SessionInv, Attached
  <2>3. \A t \in Streams : stream'[t].stage # "broadcasting"
    BY <2>1, <2>2 DEF SessionInv, Attached
  <2>4. Upcoming = latest /\ Upcoming' = latest + 1  BY <2>1, <2>3 DEF Upcoming
  <2> HIDE DEF e
  <2>5. QED  BY <2>1, <2>2, <2>4 DEF LaneStep, Local
<1>4. ASSUME NEW p \in Publishers, BroadcastLocal(p) PROVE LaneStep
  <2> DEFINE e == Head(localPending[p])
  <2>1. /\ sent' = Append(sent, e) /\ UNCHANGED <<generation, latest, stream, since>>
        /\ e \in Envelope /\ e.gen = Local
    BY <1>4, HeadTailProperties DEF BroadcastLocal, TypeOK, state, PendingIsLocal
  <2> HIDE DEF e
  <2>2. Upcoming' = Upcoming  BY <2>1 DEF Upcoming
  <2>3. QED  BY <2>1, <2>2 DEF LaneStep
<1>5. ASSUME NEW s \in Streams,
             SendHelloAck(s) \/ SendConfiguration(s) \/ EndOfStream(s) \/ Refuse(s)
               \/ DisconnectAgent(s) \/ (\E cursor \in Cursors : Heartbeat(s, cursor))
      PROVE  LaneStep
  <2>1. /\ stream[s].stage # "broadcasting" /\ stream'[s].stage # "broadcasting"
        /\ \A t \in Streams \ {s} : stream'[t] = stream[t]
        /\ UNCHANGED <<sent, since, generation, latest>>
    <3>1. CASE SendHelloAck(s) \/ SendConfiguration(s)
      BY <1>0, <3>1 DEF SendHelloAck, SendConfiguration, state, StreamRecord
    <3>2. CASE EndOfStream(s) \/ Refuse(s)
      BY <1>0, <3>2 DEF EndOfStream, Refuse, state, StreamRecord
    <3>3. CASE DisconnectAgent(s)
      BY <1>0, <3>3 DEF DisconnectAgent, StreamRecord
    <3>4. CASE \E cursor \in Cursors : Heartbeat(s, cursor)
      BY <1>0, <3>4 DEF Heartbeat, state, StreamRecord
    <3> QED BY <1>5, <3>1, <3>2, <3>3, <3>4
  <2>2. Upcoming' = Upcoming  BY <2>1 DEF Upcoming
  <2>3. QED  BY <2>1, <2>2 DEF LaneStep
<1>6. ASSUME NEW list \in Watchlists, SetWatchlist(list) PROVE LaneStep
  <2>1. /\ \A t \in Streams : stream'[t].stage = stream[t].stage
        /\ UNCHANGED <<sent, since, generation, latest>>
    BY <1>0, <1>6 DEF SetWatchlist, StreamRecord
  <2>2. QED  BY <2>1 DEF Upcoming, LaneStep
<1>7. CASE UNCHANGED <<sent, stream, since, generation, latest>>
  BY <1>7 DEF Upcoming, LaneStep
<1>8. ASSUME NEW s \in Streams, AgentStep(s) PROVE LaneStep
  BY <1>7, <1>8 DEF AgentStep, ReceiveCommand, FallSilent, Hangup, state
<1>9. ASSUME NEW p \in Publishers, NEW size \in Sizes, RecordLocal(p, size) PROVE LaneStep
  BY <1>7, <1>9 DEF RecordLocal
<1>10. ASSUME NEW c \in Subscribers, SubscriberStep(c) PROVE LaneStep
  BY <1>7, <1>10 DEF SubscriberStep, Subscribe, Poll, Unsubscribe, state
<1>11. CASE UNCHANGED vars  BY <1>7, <1>11 DEF vars, state
<1>12. QED
  BY <1>1, <1>2, <1>3, <1>4, <1>5, <1>6, <1>8, <1>9, <1>10, <1>11
     DEF Next, StreamStep, LocalStep, RefuseEvent, RefuseHeartbeat

LEMMA NextLane == TypeOK /\ LaneInv /\ LaneStep => LaneInv'
<1> SUFFICES ASSUME TypeOK, LaneInv, LaneStep PROVE LaneInv'
  OBVIOUS
<1>0. sent \in Seq(Envelope) /\ Len(sent) \in Nat /\ latest \in Nat
  BY BoundsNatural DEF TypeOK
<1>1. CASE UNCHANGED <<sent, since, generation>> /\ Upcoming' = Upcoming
  BY <1>1, LaneUnchanged
<1>2. CASE sent' = sent /\ since' = Len(sent) /\ Upcoming' = 1
  <2>1. AgentLane(since + 1, Len(sent))' = {}
    <3>1. (Len(sent) + 1)..Len(sent) = {}  BY <1>0
    <3>2. QED  BY <1>2, <3>1 DEF AgentLane
  <2>2. 1..(Upcoming' - 1) = {}  BY <1>2
  <2>3. AgentLaneInOrder'
    <3>1. \A j \in LaneOf(sent, 1, Len(sent)) : StepAt(sent, j)  BY OrderByPosition DEF LaneInv
    <3>2. QED  BY <1>2, <2>1, <3>1 DEF AgentLaneInOrder, AgentLane, LaneOf, StepAt
  <2>4. since' \in 0..Len(sent')  BY <1>0, <1>2
  <2>5. QED  BY <1>2, <2>1, <2>2, <2>3, <2>4 DEF LaneInv
<1>3. ASSUME NEW e \in Envelope,
             sent' = Append(sent, e) /\ UNCHANGED <<since, generation>>,
             \/ e.gen = Local /\ Upcoming' = Upcoming
             \/ /\ e.gen = generation /\ e.gen # Local /\ e.seq = Upcoming
                /\ Upcoming # 0 /\ Upcoming' = Upcoming + 1
      PROVE  LaneInv'
  BY <1>0, <1>3, LaneExtended
<1>4. QED  BY <1>1, <1>2, <1>3 DEF LaneStep

-----------------------------------------------------------------------------
(* The local lane *)

\* Numbers are handed out under the mutex: those in flight differ from each
\* other and from the ones broadcast, and none exceeds the counter.
LocalInv ==
  /\ \A p \in Publishers : localPending[p] # <<>> =>
       /\ Head(localPending[p]).gen = Local
       /\ Head(localPending[p]).seq <= localSequence
       /\ \A i \in DOMAIN sent : sent[i].gen = Local => sent[i].seq # Head(localPending[p]).seq
       /\ \A q \in Publishers : localPending[q] # <<>> /\ q # p
            => Head(localPending[q]).seq # Head(localPending[p]).seq
  /\ \A i, j \in DOMAIN sent : sent[i].gen = Local =>
       /\ sent[i].seq <= localSequence
       /\ sent[j].gen = Local /\ sent[i].seq = sent[j].seq => i = j

LEMMA NextLocalInv == TypeOK /\ SessionInv /\ LocalInv /\ [Next]_vars => LocalInv'
<1> SUFFICES ASSUME TypeOK, SessionInv, LocalInv, [Next]_vars PROVE LocalInv'  OBVIOUS
<1>0. /\ sent \in Seq(Envelope) /\ localSequence \in Nat
      /\ DOMAIN sent = 1..Len(sent) /\ Len(sent) \in Nat
      /\ \A i \in DOMAIN sent : sent[i].seq \in Nat
      /\ localPending \in [Publishers -> Seq(Envelope)]
  <2>1. sent \in Seq(Envelope) /\ DOMAIN sent = 1..Len(sent)  BY DEF TypeOK
  <2>2. \A i \in 1..Len(sent) : sent[i] \in Envelope  BY <2>1, ElementOfSeq
  <2>3. \A e \in Envelope : e.seq \in Nat  BY DEF Envelope
  <2>4. QED  BY <2>1, <2>2, <2>3, BoundsNatural DEF TypeOK
<1>1. ASSUME NEW p \in Publishers, NEW size \in Sizes, RecordLocal(p, size) PROVE LocalInv'
  <2>1. /\ localSequence' = localSequence + 1 /\ sent' = sent /\ localPending[p] = <<>>
        /\ \A q \in Publishers \ {p} : localPending'[q] = localPending[q]
    BY <1>0, <1>1 DEF RecordLocal, NextLocal
  <2>2. \/ localPending'[p] = <<>>
        \/ /\ localPending'[p] # <<>> /\ Head(localPending'[p]).gen = Local
           /\ Head(localPending'[p]).seq = localSequence + 1
    BY <1>0, <1>1 DEF RecordLocal, NextLocal
  <2>3. \A q \in Publishers : localPending[q] # <<>> => Head(localPending[q]).seq \in Nat
    <3>1. \A q \in Publishers : localPending[q] # <<>> => Head(localPending[q]) \in Envelope
      BY <1>0, HeadTailProperties
    <3>2. QED  BY <3>1 DEF Envelope
  <2>4. \A i, j \in DOMAIN sent' : sent'[i].gen = Local =>
          /\ sent'[i].seq <= localSequence'
          /\ sent'[j].gen = Local /\ sent'[i].seq = sent'[j].seq => i = j
    BY <1>0, <2>1 DEF LocalInv
  <2>5. ASSUME NEW q \in Publishers, localPending'[q] # <<>>
        PROVE  /\ Head(localPending'[q]).gen = Local
               /\ Head(localPending'[q]).seq <= localSequence'
               /\ \A i \in DOMAIN sent' : sent'[i].gen = Local => sent'[i].seq # Head(localPending'[q]).seq
               /\ \A r \in Publishers : localPending'[r] # <<>> /\ r # q
                    => Head(localPending'[r]).seq # Head(localPending'[q]).seq
    <3>1. \A i \in DOMAIN sent : sent[i].gen = Local => sent[i].seq <= localSequence
      BY DEF LocalInv
    <3>2. \A r \in Publishers : localPending[r] # <<>> =>
            /\ Head(localPending[r]).gen = Local
            /\ Head(localPending[r]).seq <= localSequence
            /\ \A i \in DOMAIN sent : sent[i].gen = Local => sent[i].seq # Head(localPending[r]).seq
      BY DEF LocalInv
    <3>3. CASE q = p
      <4>1. Head(localPending'[q]).gen = Local /\ Head(localPending'[q]).seq = localSequence + 1
        BY <2>2, <2>5, <3>3
      <4>2. \A i \in DOMAIN sent' : sent'[i].gen = Local => sent'[i].seq # localSequence + 1
        BY <1>0, <2>1, <3>1
      <4>3. ASSUME NEW r \in Publishers, localPending'[r] # <<>>, r # q
            PROVE  Head(localPending'[r]).seq # localSequence + 1
        <5>1. localPending'[r] = localPending[r]  BY <2>1, <3>3, <4>3
        <5>2. Head(localPending[r]).seq <= localSequence /\ Head(localPending[r]).seq \in Nat
          BY <2>3, <3>2, <4>3, <5>1
        <5>3. QED  BY <1>0, <5>1, <5>2
      <4>4. QED  BY <1>0, <2>1, <4>1, <4>2, <4>3
    <3>4. CASE q # p
      <4>1. localPending'[q] = localPending[q] /\ localPending[q] # <<>>
        BY <2>1, <2>5, <3>4
      <4>2. Head(localPending[q]).seq \in Nat /\ Head(localPending[q]).seq <= localSequence
        BY <2>3, <3>2, <4>1
      <4>3. ASSUME NEW r \in Publishers, localPending'[r] # <<>>, r # q
            PROVE  Head(localPending'[r]).seq # Head(localPending[q]).seq
        <5>1. CASE r = p  BY <1>0, <2>2, <4>2, <4>3, <5>1
        <5>2. CASE r # p
          <6>1. localPending'[r] = localPending[r]  BY <2>1, <5>2
          <6>2. QED  BY <4>1, <4>3, <6>1 DEF LocalInv
        <5>3. QED  BY <5>1, <5>2
      <4>4. /\ Head(localPending[q]).gen = Local
            /\ \A i \in DOMAIN sent : sent[i].gen = Local => sent[i].seq # Head(localPending[q]).seq
        BY <3>2, <4>1
      <4>5. Head(localPending[q]).seq <= localSequence'  BY <1>0, <2>1, <4>2
      <4>6. QED  BY <2>1, <4>1, <4>3, <4>4, <4>5
    <3>5. QED  BY <3>3, <3>4
  <2>6. QED  BY <2>4, <2>5 DEF LocalInv
<1>2. ASSUME NEW p \in Publishers, BroadcastLocal(p) PROVE LocalInv'
  <2> DEFINE e == Head(localPending[p])
  <2>1. /\ sent' = Append(sent, e) /\ localSequence' = localSequence
        /\ localPending[p] # <<>> /\ localPending'[p] = <<>>
        /\ \A q \in Publishers \ {p} : localPending'[q] = localPending[q]
    BY <1>0, <1>2 DEF BroadcastLocal, state
  <2>2. e.gen = Local /\ e.seq <= localSequence
        /\ \A i \in DOMAIN sent : sent[i].gen = Local => sent[i].seq # e.seq
    BY <2>1 DEF LocalInv
  <2>3. \A q \in Publishers \ {p} : localPending[q] # <<>> => Head(localPending[q]).seq # e.seq
    BY <2>1 DEF LocalInv
  <2> HIDE DEF e
  <2>4. /\ DOMAIN sent' = 1..(Len(sent) + 1) /\ sent'[Len(sent) + 1] = e
        /\ \A i \in DOMAIN sent : sent'[i] = sent[i]
    BY <1>0, <2>1
  <2>5. \A i \in DOMAIN sent' : i \in DOMAIN sent \/ i = Len(sent) + 1  BY <1>0, <2>4
  <2>6. QED  BY <2>1, <2>2, <2>3, <2>4, <2>5 DEF LocalInv
<1>3. ASSUME NEW s \in Streams, Broadcast(s) PROVE LocalInv'
  <2> DEFINE e == stream[s].outgoing
  <2>1. /\ sent' = Append(sent, e) /\ localSequence' = localSequence /\ localPending' = localPending
        /\ e.gen # Local
    BY <1>3 DEF Broadcast, SessionInv, state, Local
  <2> HIDE DEF e
  <2>2. /\ DOMAIN sent' = 1..(Len(sent) + 1) /\ sent'[Len(sent) + 1] = e
        /\ \A i \in DOMAIN sent : sent'[i] = sent[i]
    BY <1>0, <2>1
  <2>3. \A i \in DOMAIN sent' : i \in DOMAIN sent \/ i = Len(sent) + 1  BY <1>0, <2>2
  <2>4. QED  BY <2>1, <2>2, <2>3 DEF LocalInv
<1>4. CASE UNCHANGED <<sent, localPending, localSequence>>
  BY <1>4 DEF LocalInv
<1>5. ASSUME NEW s \in Streams,
             (\E g \in Generations, hello \in [revision : 0..MaxRevision, list : Watchlists] :
                ConnectAgent(s, g, hello))
               \/ SendHelloAck(s) \/ SendConfiguration(s) \/ EndOfStream(s) \/ Refuse(s)
               \/ DisconnectAgent(s) \/ (\E cursor \in Cursors : Heartbeat(s, cursor))
               \/ (\E event \in AgentEvents : Publish(s, event))
      PROVE  LocalInv'
  BY <1>4, <1>5 DEF ConnectAgent, SendHelloAck, SendConfiguration, EndOfStream, Refuse,
     DisconnectAgent, Heartbeat, Publish, state
<1>6. ASSUME NEW s \in Streams, AgentStep(s) PROVE LocalInv'
  BY <1>4, <1>6 DEF AgentStep, ReceiveCommand, FallSilent, Hangup, state
<1>7. ASSUME NEW c \in Subscribers, SubscriberStep(c) PROVE LocalInv'
  BY <1>4, <1>7 DEF SubscriberStep, Subscribe, Poll, Unsubscribe, state
<1>8. ASSUME NEW list \in Watchlists, SetWatchlist(list) PROVE LocalInv'
  BY <1>4, <1>8 DEF SetWatchlist
<1>9. CASE UNCHANGED vars  BY <1>4, <1>9 DEF vars, state
<1>10. QED
  BY <1>1, <1>2, <1>3, <1>5, <1>6, <1>7, <1>8, <1>9
     DEF Next, StreamStep, LocalStep, RefuseEvent, RefuseHeartbeat

-----------------------------------------------------------------------------
(* The theorems *)

LaneIInv == IInv /\ LaneInv /\ LocalInv

LEMMA InitLane == Init => LaneInv /\ LocalInv
<1> SUFFICES ASSUME Init PROVE LaneInv /\ LocalInv  OBVIOUS
<1>1. Upcoming = 1 /\ sent = <<>> /\ since = 0  BY DEF Init, Upcoming
<1>2. AgentLane(1, Len(sent)) = {} /\ Len(sent) = 0  BY <1>1 DEF AgentLane
<1>3. LaneInv  BY <1>1, <1>2 DEF LaneInv, AgentLaneInOrder
<1>4. LocalInv  BY DEF Init, LocalInv
<1>5. QED  BY <1>3, <1>4

LEMMA NextLaneIInv == LaneIInv /\ [Next]_vars => LaneIInv'
<1> SUFFICES ASSUME LaneIInv, [Next]_vars PROVE LaneIInv'  OBVIOUS
<1>1. TypeOK' /\ SessionInv' /\ ReplayWindow'
  BY HubStep DEF LaneIInv, IInv, HubNext
<1>2. PendingIsLocal  BY DEF LaneIInv, LocalInv, PendingIsLocal
<1>3. LaneInv'  BY <1>1, <1>2, LaneSteps, NextLane DEF LaneIInv, IInv
<1>4. LocalInv'  BY NextLocalInv DEF LaneIInv, IInv
<1>5. QED  BY <1>1, <1>3, <1>4 DEF LaneIInv, IInv

THEOREM LaneInvariance == Spec => []LaneIInv
<1>1. Init => LaneIInv  BY InitType, InitSession, InitLane DEF LaneIInv, IInv
<1>2. QED  BY <1>1, NextLaneIInv, PTL DEF Spec

\* The channel carries the generation the hub holds without gap, repetition or
\* reordering since it was taken up, and in all it ever carried a generation
\* advances by one or begins at 1, whatever tasks interleave after the mutex and
\* whichever generation, new or held before, a hello presents.
THEOREM LaneCorrect == Spec => []AgentLaneInOrder
<1>1. LaneIInv => AgentLaneInOrder  BY DEF LaneIInv, LaneInv
<1>2. QED  BY <1>1, LaneInvariance, PTL

LEMMA LaneCatchesUp == LaneIInv => BroadcastCatchesUp
<1> SUFFICES ASSUME LaneIInv PROVE BroadcastCatchesUp  OBVIOUS
<1> DEFINE late == {stream[s].outgoing.seq : s \in {t \in Streams : stream[t].stage = "broadcasting"}}
<1>1. latest \in Nat  BY BoundsNatural DEF LaneIInv, IInv, TypeOK
<1>2. 1..(Upcoming - 1) = 1..latest \ late
  <2>1. CASE \E s \in Streams : stream[s].stage = "broadcasting"
    <3>1. late = {latest}  BY <2>1 DEF LaneIInv, IInv, SessionInv
    <3>2. QED  BY <1>1, <2>1, <3>1 DEF Upcoming
  <2>2. CASE ~ \E s \in Streams : stream[s].stage = "broadcasting"
    <3>1. late = {}  BY <2>2
    <3>2. QED  BY <1>1, <2>2, <3>1 DEF Upcoming
  <2>3. QED  BY <2>1, <2>2
<1>3. QED  BY <1>2 DEF LaneIInv, LaneInv, BroadcastCatchesUp

\* What is published and not broadcast, since the generation was taken up, is
\* the one event of the task that holds the session.
THEOREM BroadcastCorrect == Spec => []BroadcastCatchesUp
BY LaneInvariance, LaneCatchesUp, PTL

\* Concurrent publish_local calls never broadcast one number twice.
THEOREM LocalNumbersCorrect == Spec => []LocalSequencesUnique
<1>1. LaneIInv => LocalSequencesUnique  BY DEF LaneIInv, LocalInv, LocalSequencesUnique
<1>2. QED  BY <1>1, LaneInvariance, PTL
=============================================================================
