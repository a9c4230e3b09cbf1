----------------------- MODULE EventHubReaders_proofs -----------------------
(***************************************************************************)
(* Proofs about what others see of the hub: the events a subscriber gets,  *)
(* the acknowledgements and the watchlist an agent gets, and the counters  *)
(* of the listener status.                                                 *)
(***************************************************************************)
EXTENDS EventHubLanes_proofs

-----------------------------------------------------------------------------
(* The channel *)

\* Every event of the channel has a number, and a local event is the only one
\* without a generation.
LEMMA SentTyped ==
  TypeOK => /\ sent \in Seq(Envelope) /\ DOMAIN sent = 1..Len(sent) /\ Len(sent) \in Nat
            /\ \A i \in 1..Len(sent) : sent[i].gen \in Nat /\ sent[i].seq \in Nat
<1> SUFFICES ASSUME TypeOK
             PROVE  /\ sent \in Seq(Envelope) /\ DOMAIN sent = 1..Len(sent) /\ Len(sent) \in Nat
                    /\ \A i \in 1..Len(sent) : sent[i].gen \in Nat /\ sent[i].seq \in Nat
  OBVIOUS
<1>1. sent \in Seq(Envelope) /\ DOMAIN sent = 1..Len(sent) /\ Len(sent) \in Nat  BY DEF TypeOK
<1>2. \A i \in 1..Len(sent) : sent[i] \in Envelope  BY <1>1, ElementOfSeq
<1>3. \A e \in Envelope : e.gen \in Nat /\ e.seq \in Nat  BY DEF Envelope
<1>4. QED  BY <1>1, <1>2, <1>3

-----------------------------------------------------------------------------
(* The receiver of a subscriber *)

\* What was delivered is a stretch of the channel.
Delivered(r) ==
  /\ r.start <= r.next /\ r.next <= Len(sent) + 1
  /\ Len(r.delivered) = r.next - r.start
  /\ \A i \in 1..(r.next - r.start) : r.delivered[i] = CursorOf(sent[r.start - 1 + i])

\* Agent events the channel carries from the place of a receiver on.
Rest(r) == LaneOf(sent, r.start, Len(sent))

\* A cursor that was accepted is the newest of the hub. Until the channel
\* carries another agent event the upcoming number is the cursor's own or the
\* next, or the hub has taken up a generation; then that event bears it.
Anchored(r) ==
  r.after # NoCursor =>
    \/ /\ Rest(r) = {}
       /\ \/ Upcoming = 1
          \/ generation = r.after.gen /\ Upcoming \in {r.after.seq, r.after.seq + 1}
    \/ \E b \in Rest(r) :
         /\ \A k \in Rest(r) : b <= k
         /\ \/ sent[b].seq = 1
            \/ CursorOf(sent[b]) = r.after
            \/ Follows(r.after, CursorOf(sent[b]))

ReaderInv == \A c \in Subscribers : Delivered(subscriber[c]) /\ Anchored(subscriber[c])

LEMMA InitReader == Init => ReaderInv
BY DEF Init, ReaderInv, Delivered, Anchored

\* Receivers keep their place while the channel grows.
LEMMA ReaderWhileSent ==
  ASSUME TypeOK, LaneStep, NEW r \in SubscriberRecord, Delivered(r), Anchored(r)
  PROVE  Delivered(r)' /\ Anchored(r)'
<1>0. /\ r.start \in Nat \ {0} /\ r.next \in Nat \ {0} /\ r.after \in Cursor
      /\ r.delivered \in Seq(Cursor)
      /\ r.after = [gen |-> r.after.gen, seq |-> r.after.seq]
      /\ r.after.gen \in Nat /\ r.after.seq \in Nat
  <2>1. r.after \in Cursor  BY DEF SubscriberRecord
  <2>2. QED  BY <2>1 DEF SubscriberRecord, Cursor
<1>1. /\ sent \in Seq(Envelope) /\ DOMAIN sent = 1..Len(sent) /\ Len(sent) \in Nat
      /\ r.start <= Len(sent) + 1
  BY <1>0, SentTyped DEF Delivered
<1>2. CASE UNCHANGED <<sent, since, generation>> /\ Upcoming' = Upcoming
  BY <1>2 DEF Delivered, Anchored, Rest
<1>3. CASE sent' = sent /\ since' = Len(sent) /\ Upcoming' = 1
  BY <1>3 DEF Delivered, Anchored, Rest
<1>4. ASSUME NEW e \in Envelope,
             sent' = Append(sent, e) /\ UNCHANGED <<since, generation>>,
             \/ e.gen = Local /\ Upcoming' = Upcoming
             \/ /\ e.gen = generation /\ e.gen # Local /\ e.seq = Upcoming
                /\ Upcoming # 0 /\ Upcoming' = Upcoming + 1
      PROVE  Delivered(r)' /\ Anchored(r)'
  <2>1. /\ Len(sent') = Len(sent) + 1 /\ sent'[Len(sent) + 1] = e
        /\ \A i \in 1..Len(sent) : sent'[i] = sent[i]
    BY <1>1, <1>4
  <2>2. Delivered(r)'
    <3>1. \A i \in 1..(r.next - r.start) : r.start - 1 + i \in 1..Len(sent)
      BY <1>0, <1>1 DEF Delivered
    <3>2. \A i \in 1..(r.next - r.start) : r.delivered[i] = CursorOf(sent'[r.start - 1 + i])
      BY <2>1, <3>1 DEF Delivered
    <3>3. r.next <= Len(sent') + 1  BY <1>0, <1>1, <2>1 DEF Delivered
    <3>4. QED  BY <3>2, <3>3 DEF Delivered
  <2>3. /\ Rest(r)' = Rest(r) \cup (IF e.gen = Local THEN {} ELSE {Len(sent) + 1})
        /\ \A i \in Rest(r) : i <= Len(sent) + 1 /\ sent'[i] = sent[i]
    <3>1. LaneOf(sent', r.start, Len(sent) + 1)
            = LaneOf(sent, r.start, Len(sent)) \cup (IF e.gen = Local THEN {} ELSE {Len(sent) + 1})
      BY <1>0, <1>1, <1>4, LaneAppend
    <3>2. \A i \in LaneOf(sent, r.start, Len(sent)) : i \in 1..Len(sent)
      BY <1>0, <1>1 DEF LaneOf
    <3>3. QED  BY <1>1, <2>1, <3>1, <3>2 DEF Rest
  <2>4. Anchored(r)'
    <3>1. CASE r.after = NoCursor  BY <3>1 DEF Anchored
    <3>2. CASE /\ Rest(r) = {}
               /\ \/ Upcoming = 1
                  \/ generation = r.after.gen /\ Upcoming \in {r.after.seq, r.after.seq + 1}
      <4>1. CASE e.gen = Local /\ Upcoming' = Upcoming
        <5>1. Rest(r)' = {}  BY <2>3, <3>2, <4>1
        <5>2. QED  BY <1>4, <3>2, <4>1, <5>1 DEF Anchored
      <4>2. CASE e.gen = generation /\ e.gen # Local /\ e.seq = Upcoming
        <5>1. Rest(r)' = {Len(sent) + 1}  BY <2>3, <3>2, <4>2
        <5>2. \/ e.seq = 1 \/ CursorOf(e) = r.after \/ Follows(r.after, CursorOf(e))
          BY <1>0, <3>2, <4>2 DEF CursorOf, Follows
        <5>3. Len(sent) + 1 <= Len(sent) + 1  BY <1>1
        <5>4. QED  BY <2>1, <5>1, <5>2, <5>3 DEF Anchored
      <4>3. QED  BY <1>4, <4>1, <4>2
    <3>3. ASSUME NEW b \in Rest(r), \A k \in Rest(r) : b <= k,
                 \/ sent[b].seq = 1
                 \/ CursorOf(sent[b]) = r.after
                 \/ Follows(r.after, CursorOf(sent[b]))
          PROVE  Anchored(r)'
      <4>1. b \in Rest(r)' /\ sent'[b] = sent[b] /\ \A k \in Rest(r)' : b <= k
        BY <2>3, <3>3
      <4>2. QED  BY <3>3, <4>1 DEF Anchored
    <3>4. QED  BY <3>1, <3>2, <3>3 DEF Anchored
  <2>5. QED  BY <2>2, <2>4
<1>5. QED  BY <1>2, <1>3, <1>4 DEF LaneStep

\* A new subscriber starts where the hub is.
LEMMA SubscribeAnchors ==
  ASSUME TypeOK, NEW r \in SubscriberRecord, r.start = Len(sent) + 1, LiveCursor(r.after)
  PROVE  Anchored(r)
<1>1. SUFFICES ASSUME r.after # NoCursor PROVE Anchored(r)  BY DEF Anchored
<1>2. r.after.gen = generation /\ r.after.seq = latest
  BY <1>1 DEF LiveCursor
<1>3. Rest(r) = {}
  <2>1. (Len(sent) + 1)..Len(sent) = {}  BY SentTyped
  <2>2. QED  BY <2>1 DEF Rest, LaneOf
<1>4. QED  BY <1>2, <1>3 DEF Anchored, Upcoming

LEMMA NextReader == TypeOK /\ TypeOK' /\ LaneStep /\ ReaderInv /\ [Next]_vars => ReaderInv'
<1> SUFFICES ASSUME TypeOK, TypeOK', LaneStep, ReaderInv, [Next]_vars PROVE ReaderInv'
  OBVIOUS
<1>0. subscriber \in [Subscribers -> SubscriberRecord] /\ subscriber' \in [Subscribers -> SubscriberRecord]
  BY DEF TypeOK
<1>2. ASSUME NEW c \in Subscribers, NEW r \in SubscriberRecord, r = subscriber'[c]
      PROVE  Delivered(r)' /\ Anchored(r)'
  <2>0. /\ r.start \in Nat \ {0} /\ r.next \in Nat \ {0} /\ r.delivered \in Seq(Cursor)
        /\ sent \in Seq(Envelope) /\ Len(sent) \in Nat
    BY <1>2, SentTyped DEF SubscriberRecord
  <2>1. CASE UNCHANGED subscriber[c]
    BY <1>2, <2>1, ReaderWhileSent DEF ReaderInv
  <2>2. ASSUME NEW d \in Subscribers, NEW after \in Cursors \cup {NoCursor}, Subscribe(d, after), d = c
        PROVE  Delivered(r)' /\ Anchored(r)'
    <3>1. /\ r.start = Len(sent) + 1 /\ r.next = Len(sent) + 1 /\ r.after = after
          /\ r.delivered = <<>> /\ LiveCursor(after) /\ UNCHANGED <<sent, generation, latest, stream>>
      BY <1>0, <1>2, <2>2 DEF Subscribe, state
    <3>2. Anchored(r)  BY <3>1, SubscribeAnchors
    <3>3. Delivered(r)'  BY <2>0, <3>1 DEF Delivered
    <3>4. QED  BY <3>1, <3>2, <3>3 DEF Anchored, Rest, Upcoming
  <2>3. ASSUME NEW d \in Subscribers, Poll(d), d = c
        PROVE  Delivered(r)' /\ Anchored(r)'
    <3>1. PICK q \in SubscriberRecord : q = subscriber[c]  BY <1>0
    <3>2. Delivered(q) /\ Anchored(q)  BY <3>1 DEF ReaderInv
    <3>3. /\ r.start = q.start /\ r.after = q.after /\ UNCHANGED <<sent, generation, latest, stream>>
          /\ q.next <= Len(sent)
          /\ \/ r.next = q.next /\ r.delivered = q.delivered
             \/ r.next = q.next + 1 /\ r.delivered = Append(q.delivered, CursorOf(sent[q.next]))
      <4>1. Poll(c) /\ UNCHANGED <<sent, generation, latest, stream>> /\ q.next <= Len(sent)
        BY <2>3, <3>1 DEF Poll, state
      <4>2. DOMAIN subscriber = Subscribers /\ DOMAIN q = {"stage", "start", "next", "after", "delivered"}
        BY <1>0, <3>1 DEF SubscriberRecord
      <4>3. CASE subscriber' = [subscriber EXCEPT ![c].stage = "terminated"]
        <5>1. r = [q EXCEPT !.stage = "terminated"]  BY <1>2, <3>1, <4>2, <4>3
        <5>2. r.next = q.next /\ r.delivered = q.delivered /\ r.start = q.start /\ r.after = q.after
          BY <4>2, <5>1
        <5>3. QED  BY <4>1, <5>2
      <4>4. CASE subscriber' = [subscriber EXCEPT
                   ![c].next = @ + 1,
                   ![c].delivered = Append(@, CursorOf(sent[subscriber[c].next]))]
        <5>1. r = [q EXCEPT !.next = @ + 1, !.delivered = Append(@, CursorOf(sent[q.next]))]
          BY <1>2, <3>1, <4>2, <4>4
        <5>2. /\ r.next = q.next + 1 /\ r.delivered = Append(q.delivered, CursorOf(sent[q.next]))
              /\ r.start = q.start /\ r.after = q.after
          BY <4>2, <5>1
        <5>3. QED  BY <4>1, <5>2
      <4>5. QED  BY <4>1, <4>3, <4>4 DEF Poll
    <3>4. /\ q.start \in Nat \ {0} /\ q.next \in Nat \ {0} /\ q.delivered \in Seq(Cursor)
      BY <3>1 DEF SubscriberRecord
    <3>5. Delivered(r)
      <4>1. CASE r.next = q.next /\ r.delivered = q.delivered
        BY <3>2, <3>3, <4>1 DEF Delivered
      <4>2. CASE r.next = q.next + 1 /\ r.delivered = Append(q.delivered, CursorOf(sent[q.next]))
        <5>1. Len(q.delivered) = q.next - q.start /\ q.start <= q.next  BY <3>2 DEF Delivered
        <5>2. Len(r.delivered) = r.next - r.start /\ r.start <= r.next /\ r.next <= Len(sent) + 1
          BY <2>0, <3>3, <3>4, <4>2, <5>1
        <5>3. r.delivered[q.next - q.start + 1] = CursorOf(sent[q.next])
          BY <3>4, <4>2, <5>1
        <5>4. \A i \in 1..(q.next - q.start) : r.delivered[i] = q.delivered[i]
          BY <3>4, <4>2, <5>1
        <5>5. \A i \in 1..(q.next - q.start) : r.delivered[i] = CursorOf(sent[q.start - 1 + i])
          BY <3>2, <5>4 DEF Delivered
        <5>6. q.start - 1 + (q.next - q.start + 1) = q.next  BY <3>4
        <5>7. \A i \in 1..(r.next - r.start) : i \in 1..(q.next - q.start) \/ i = q.next - q.start + 1
          BY <3>3, <3>4, <4>2
        <5>8. \A i \in 1..(r.next - r.start) : r.delivered[i] = CursorOf(sent[r.start - 1 + i])
          BY <3>3, <5>3, <5>5, <5>6, <5>7
        <5>9. QED  BY <5>2, <5>8 DEF Delivered
      <4>3. QED  BY <3>3, <4>1, <4>2
    <3>6. Anchored(r)  BY <3>2, <3>3 DEF Anchored, Rest
    <3>7. QED  BY <3>3, <3>5, <3>6 DEF Delivered, Anchored, Rest, Upcoming
  <2>4. ASSUME NEW d \in Subscribers, Unsubscribe(d), d = c
        PROVE  Delivered(r)' /\ Anchored(r)'
    <3>1. r.start = 1 /\ r.next = 1 /\ r.after = NoCursor /\ r.delivered = <<>> /\ sent' = sent
      BY <1>0, <1>2, <2>4 DEF Unsubscribe
    <3>2. Delivered(r)'  BY <2>0, <3>1 DEF Delivered
    <3>3. Anchored(r)'  BY <3>1 DEF Anchored
    <3>4. QED  BY <3>2, <3>3
  <2>5. ASSUME NEW d \in Subscribers, SubscriberStep(d), d # c PROVE UNCHANGED subscriber[c]
    BY <1>0, <2>5 DEF SubscriberStep, Subscribe, Poll, Unsubscribe
  <2>6. ASSUME NEW s \in Streams, StreamStep(s) \/ AgentStep(s) PROVE UNCHANGED subscriber
    BY <2>6 DEF StreamStep, RefuseEvent, RefuseHeartbeat, ConnectAgent, SendHelloAck,
       SendConfiguration, EndOfStream, Refuse, DisconnectAgent, Heartbeat, Publish, Broadcast,
       AgentStep, ReceiveCommand, FallSilent, Hangup
  <2>7. ASSUME NEW p \in Publishers, LocalStep(p) PROVE UNCHANGED subscriber
    BY <2>7 DEF LocalStep, RecordLocal, BroadcastLocal
  <2>8. ASSUME NEW list \in Watchlists, SetWatchlist(list) PROVE UNCHANGED subscriber
    BY <2>8 DEF SetWatchlist
  <2>9. CASE UNCHANGED vars  BY <2>1, <2>9 DEF vars
  <2>10. QED
    BY <2>1, <2>2, <2>3, <2>4, <2>5, <2>6, <2>7, <2>8, <2>9 DEF Next, SubscriberStep
<1>3. ASSUME NEW c \in Subscribers PROVE Delivered(subscriber[c])' /\ Anchored(subscriber[c])'
  <2>1. PICK r \in SubscriberRecord : r = subscriber'[c]  BY <1>0
  <2>2. Delivered(r)' /\ Anchored(r)'  BY <1>2, <2>1
  <2>3. QED  BY <2>1, <2>2 DEF Delivered, Anchored, Rest
<1>4. QED  BY <1>3 DEF ReaderInv

-----------------------------------------------------------------------------
(* From places on the channel to what a subscriber sees *)

\* Of two agent events with none between them the second begins its generation
\* or follows the first.
LEMMA Successive ==
  ASSUME TypeOK, AgentLaneInOrder,
         NEW a \in DOMAIN sent, NEW b \in DOMAIN sent, a < b,
         sent[a].gen # Local, sent[b].gen # Local,
         \A m \in DOMAIN sent : a < m /\ m < b => sent[m].gen = Local
  PROVE  sent[b].seq = 1 \/ Follows(CursorOf(sent[a]), CursorOf(sent[b]))
<1>1. DOMAIN sent = 1..Len(sent) /\ Len(sent) \in Nat  BY SentTyped
<1>2. b \in AgentLane(1, Len(sent)) /\ a \in AgentLane(1, b - 1)  BY <1>1 DEF AgentLane
<1>3. SUFFICES ASSUME sent[b].seq # 1 PROVE Follows(CursorOf(sent[a]), CursorOf(sent[b]))
  OBVIOUS
<1>4. PICK i \in AgentLane(1, b - 1) :
        Follows(sent[i], sent[b]) /\ \A k \in AgentLane(1, b - 1) : k <= i
  BY <1>2, <1>3 DEF AgentLaneInOrder
<1>5. i = a  BY <1>1, <1>2, <1>4 DEF AgentLane
<1>6. QED  BY <1>4, <1>5 DEF Follows, CursorOf

\* The first agent event after the place of an accepted cursor is the cursor's
\* own or follows it, or it begins its generation.
LEMMA FirstAfterCursor ==
  ASSUME TypeOK, NEW r \in SubscriberRecord, Anchored(r), r.after # NoCursor,
         NEW b \in r.start..Len(sent), sent[b].gen # Local,
         \A m \in r.start..(b - 1) : sent[m].gen = Local
  PROVE  \/ sent[b].seq = 1
         \/ CursorOf(sent[b]) = r.after
         \/ Follows(r.after, CursorOf(sent[b]))
<1>1. r.start \in Nat /\ Len(sent) \in Nat  BY SentTyped DEF SubscriberRecord
<1>2. b \in Rest(r)  BY DEF Rest, LaneOf
<1>3. PICK a \in Rest(r) :
        /\ \A k \in Rest(r) : a <= k
        /\ \/ sent[a].seq = 1
           \/ CursorOf(sent[a]) = r.after
           \/ Follows(r.after, CursorOf(sent[a]))
  BY <1>2 DEF Anchored
<1>4. a <= b /\ a \in r.start..Len(sent) /\ sent[a].gen # Local  BY <1>2, <1>3 DEF Rest, LaneOf
<1>5. a = b  BY <1>1, <1>4
<1>6. QED  BY <1>3, <1>5

\* What was delivered has no gap.
GapFree(r) ==
  LET lane == {k \in DOMAIN r.delivered : r.delivered[k].gen # Local}
  IN \A i \in lane :
       \/ r.delivered[i].seq = 1
       \/ /\ \A k \in lane : i <= k
          /\ r.after # NoCursor => r.delivered[i] = r.after \/ Follows(r.after, r.delivered[i])
       \/ \E k \in lane : /\ k < i /\ \A m \in lane : m < i => m <= k
                         /\ Follows(r.delivered[k], r.delivered[i])

LEMMA ReaderGapFree ==
  ASSUME TypeOK, AgentLaneInOrder, NEW r \in SubscriberRecord, Delivered(r), Anchored(r)
  PROVE  GapFree(r)
<1> DEFINE got == r.delivered
           lane == {k \in DOMAIN got : got[k].gen # Local}
           place(k) == r.start - 1 + k
<1>0. /\ DOMAIN sent = 1..Len(sent) /\ Len(sent) \in Nat
      /\ r.start \in Nat \ {0} /\ r.next \in Nat \ {0} /\ r.delivered \in Seq(Cursor)
  BY SentTyped DEF SubscriberRecord
<1>1. /\ DOMAIN got = 1..(r.next - r.start)
      /\ r.start <= r.next /\ r.next <= Len(sent) + 1
      /\ \A k \in DOMAIN got : got[k] = CursorOf(sent[place(k)]) /\ got[k].gen = sent[place(k)].gen
  <2>1. DOMAIN got = 1..(r.next - r.start)  BY <1>0 DEF Delivered
  <2>2. QED  BY <2>1 DEF Delivered, CursorOf
<1>2. \A k \in DOMAIN got : k \in Nat \ {0} /\ place(k) \in DOMAIN sent /\ place(k) \in r.start..Len(sent)
  BY <1>0, <1>1
<1>3. SUFFICES ASSUME NEW i \in lane, got[i].seq # 1
               PROVE  \/ /\ \A k \in lane : i <= k
                         /\ r.after # NoCursor => got[i] = r.after \/ Follows(r.after, got[i])
                      \/ \E k \in lane : /\ k < i /\ \A m \in lane : m < i => m <= k
                                        /\ Follows(got[k], got[i])
  BY DEF GapFree
<1>4. /\ i \in DOMAIN got /\ got[i].gen # Local
      /\ i \in Nat \ {0} /\ i <= r.next - r.start /\ place(i) = r.start - 1 + i
  BY <1>0, <1>1
<1>5. CASE \A k \in lane : i <= k
  <2>1. ASSUME r.after # NoCursor PROVE got[i] = r.after \/ Follows(r.after, got[i])
    <3>1. ASSUME NEW m \in r.start..(place(i) - 1) PROVE sent[m].gen = Local
      <4>0. m - r.start + 1 \in Nat \ {0} /\ m - r.start + 1 < i /\ r.start - 1 + (m - r.start + 1) = m
        <5>1. m \in Int /\ r.start \in Int /\ i \in Int /\ r.start <= m /\ m <= r.start - 1 + i - 1
          BY <1>0, <1>4
        <5>2. QED  BY <5>1
      <4>1. /\ m - r.start + 1 \in DOMAIN got /\ m - r.start + 1 < i
            /\ place(m - r.start + 1) = m
        <5>1. m - r.start + 1 <= r.next - r.start  BY <1>0, <1>4, <4>0
        <5>2. QED  BY <1>1, <4>0, <5>1
      <4>2. m - r.start + 1 \notin lane  BY <1>2, <1>4, <1>5, <4>1
      <4>3. got[m - r.start + 1].gen = Local  BY <4>1, <4>2
      <4>4. QED  BY <1>1, <4>1, <4>3
    <3>2. /\ sent[place(i)].gen # Local /\ got[i] = CursorOf(sent[place(i)])
          /\ sent[place(i)].seq # 1
      BY <1>1, <1>3, <1>4 DEF CursorOf
    <3>3. place(i) \in r.start..Len(sent)  BY <1>2, <1>4
    <3> HIDE DEF place
    <3>4. QED  BY <2>1, <3>1, <3>2, <3>3, FirstAfterCursor
  <2>2. QED  BY <1>5, <2>1
<1>6. CASE ~ \A k \in lane : i <= k
  <2> DEFINE T == {d \in 0..i : d # 0 /\ i - d \in lane}
  <2>1. T # {}
    <3>1. PICK k \in lane : ~ i <= k  BY <1>6
    <3>2. k \in DOMAIN got /\ k \in Nat /\ i \in Nat  BY <1>2, <1>4
    <3>3. i - k \in 0..i /\ i - k # 0 /\ i - (i - k) = k  BY <3>1, <3>2
    <3>4. QED  BY <3>1, <3>3
  <2>2. i \in Nat /\ T \in SUBSET (0..i)  BY <1>2, <1>4
  <2>3. PICK d \in T : \A x \in T : d <= x
    <3> HIDE DEF T
    <3> QED  BY <2>1, <2>2, LeastNatural
  <2>4. PICK k \in lane : k = i - d  OBVIOUS
  <2>5. k \in DOMAIN got /\ got[k].gen # Local /\ k < i /\ k \in Nat  BY <1>2, <2>2, <2>3, <2>4
  <2>6. ASSUME NEW m \in lane, m < i PROVE m <= k
    <3>1. m \in Nat  BY <1>2
    <3>2. i - m \in 0..i /\ i - m # 0 /\ i - (i - m) = m  BY <2>2, <2>6, <3>1
    <3>3. i - m \in T  BY <3>2
    <3>4. d <= i - m /\ d \in Nat  BY <2>3, <3>3
    <3>5. QED  BY <2>2, <2>4, <3>1, <3>4
  <2>7. ASSUME NEW m \in DOMAIN sent, place(k) < m, m < place(i) PROVE sent[m].gen = Local
    <3>0. /\ m - r.start + 1 \in Nat \ {0} /\ m - r.start + 1 < i /\ k < m - r.start + 1
          /\ r.start - 1 + (m - r.start + 1) = m
      <4>1. m \in Int /\ r.start \in Int /\ i \in Int /\ k \in Nat
            /\ r.start - 1 + k < m /\ m < r.start - 1 + i
        BY <1>0, <1>4, <2>5, <2>7
      <4>2. QED  BY <4>1
    <3>1. /\ m - r.start + 1 \in DOMAIN got /\ m - r.start + 1 < i /\ k < m - r.start + 1
          /\ place(m - r.start + 1) = m
      <4>1. m - r.start + 1 <= r.next - r.start  BY <1>0, <1>4, <3>0
      <4>2. QED  BY <1>1, <3>0, <4>1
    <3>2. m - r.start + 1 \notin lane  BY <2>5, <2>6, <3>0
    <3>3. got[m - r.start + 1].gen = Local  BY <3>1, <3>2
    <3>4. QED  BY <1>1, <3>1, <3>3
  <2>8. /\ place(k) \in DOMAIN sent /\ place(i) \in DOMAIN sent /\ place(k) < place(i)
        /\ sent[place(k)].gen # Local /\ sent[place(i)].gen # Local
        /\ got[k] = CursorOf(sent[place(k)]) /\ got[i] = CursorOf(sent[place(i)])
        /\ sent[place(i)].seq # 1
    <3>1. place(k) \in DOMAIN sent /\ place(i) \in DOMAIN sent  BY <1>2, <1>4, <2>5
    <3>2. place(k) < place(i)  BY <1>0, <1>4, <2>5
    <3>3. QED  BY <1>1, <1>3, <1>4, <2>5, <3>1, <3>2 DEF CursorOf
  <2>9. Follows(got[k], got[i])
    <3> HIDE DEF place
    <3> QED  BY <2>7, <2>8, Successive
  <2>10. QED  BY <2>5, <2>6, <2>9
<1>7. QED  BY <1>5, <1>6

LEMMA ReaderNoGap == TypeOK /\ AgentLaneInOrder /\ ReaderInv => NoSilentGap
<1> SUFFICES ASSUME TypeOK, AgentLaneInOrder, ReaderInv PROVE NoSilentGap  OBVIOUS
<1>1. ASSUME NEW c \in Subscribers PROVE GapFree(subscriber[c])
  <2>1. subscriber[c] \in SubscriberRecord  BY DEF TypeOK
  <2>2. Delivered(subscriber[c]) /\ Anchored(subscriber[c])  BY DEF ReaderInv
  <2>3. QED  BY <2>1, <2>2, ReaderGapFree
<1>2. QED  BY <1>1 DEF NoSilentGap, GapFree, Receivers

-----------------------------------------------------------------------------
(* The watchlist of the agent *)

\* While an agent is attached the server wants a watchlist: no configuration
\* that is still to be sent is the empty one that stands for none.
ToldInv ==
  /\ DesiredIsTold
  /\ \A s \in Streams : stream[s].stage \in Attached => desired.list # NoWatchlist

LEMMA InitTold == Init => ToldInv
BY DEF Init, ToldInv, DesiredIsTold, Attached

\* A step of one task that sets no configuration and forgets nothing the agent
\* was told.
LEMMA ToldKept ==
  ASSUME ToldInv, UNCHANGED <<desired, applied>>, NEW s \in Streams,
         \A t \in Streams \ {s} : stream'[t] = stream[t],
         \/ stream'[s].stage \notin Attached
         \/ /\ stream[s].stage \in Attached \ {"greeting", "configuring"}
            /\ stream[s].told \subseteq stream'[s].told
  PROVE  ToldInv'
<1>1. ASSUME NEW t \in Streams, stream'[t].stage \in Attached
      PROVE  /\ desired'.list # NoWatchlist
             /\ \/ applied' = desired'
                \/ desired' \in stream'[t].told
                \/ stream'[t].stage \in {"greeting", "configuring"} /\ desired' = stream'[t].config
  <2>1. CASE t = s  BY <1>1, <2>1 DEF ToldInv, DesiredIsTold
  <2>2. CASE t # s
    <3>1. stream'[t] = stream[t]  BY <2>2
    <3>2. QED  BY <1>1, <3>1 DEF ToldInv, DesiredIsTold
  <2>3. QED  BY <2>1, <2>2
<1>2. QED  BY <1>1 DEF ToldInv, DesiredIsTold

LEMMA NextTold == TypeOK /\ TypeOK' /\ SessionInv /\ ToldInv /\ [Next]_vars => ToldInv'
<1> SUFFICES ASSUME TypeOK, TypeOK', SessionInv, ToldInv, [Next]_vars PROVE ToldInv'  OBVIOUS
<1>0. /\ stream \in [Streams -> StreamRecord] /\ stream' \in [Streams -> StreamRecord]
      /\ agentSession \in Nat
  BY DEF TypeOK
<1>1. ASSUME NEW s \in Streams, NEW g \in Generations,
             NEW hello \in [revision : 0..MaxRevision, list : Watchlists], ConnectAgent(s, g, hello)
      PROVE  ToldInv'
  <2>1. /\ agentSession = 0 /\ applied' = hello
        /\ desired' = IF desired.list = NoWatchlist THEN hello ELSE desired
        /\ \A t \in Streams \ {s} : stream'[t] = stream[t]
        /\ stream'[s].stage = "greeting"
        /\ stream'[s].config = PendingConfiguration(hello, desired')
    BY <1>0, <1>1 DEF ConnectAgent, SessionFree, StreamRecord
  <2>2. \A t \in Streams : stream[t].stage \notin Attached
    BY <2>1 DEF SessionInv, Attached
  <2>3. hello.list # NoWatchlist  BY NoWatchlistDistinct
  <2>4. desired'.list # NoWatchlist  BY <2>1, <2>3
  <2>5. applied' = desired' \/ desired' = stream'[s].config
    BY <2>1 DEF PendingConfiguration
  <2>6. \A t \in Streams : stream'[t].stage \in Attached => t = s  BY <2>1, <2>2
  <2>7. QED  BY <2>1, <2>4, <2>5, <2>6 DEF ToldInv, DesiredIsTold
<1>2. ASSUME NEW s \in Streams, SendHelloAck(s) PROVE ToldInv'
  <2>1. /\ stream[s].stage = "greeting" /\ UNCHANGED <<desired, applied>>
        /\ \A t \in Streams \ {s} : stream'[t] = stream[t]
        /\ stream'[s].told = stream[s].told /\ stream'[s].config = stream[s].config
        /\ \/ stream'[s].stage = "failed"
           \/ stream'[s].stage = "serving" /\ stream[s].config = NoConfiguration
           \/ stream'[s].stage = "configuring"
    BY <1>0, <1>2 DEF SendHelloAck, state, StreamRecord
  <2>2. desired.list # NoWatchlist /\ stream[s].stage \in Attached
    BY <2>1 DEF ToldInv, Attached
  <2>3. desired # NoConfiguration  BY <2>2 DEF NoConfiguration
  <2>4. \/ applied = desired \/ desired \in stream[s].told \/ desired = stream[s].config
    BY <2>2 DEF ToldInv, DesiredIsTold
  <2>5. ASSUME NEW t \in Streams, stream'[t].stage \in Attached
        PROVE  \/ applied' = desired'
               \/ desired' \in stream'[t].told
               \/ stream'[t].stage \in {"greeting", "configuring"} /\ desired' = stream'[t].config
    <3>1. CASE t = s  BY <2>1, <2>3, <2>4, <2>5, <3>1 DEF Attached
    <3>2. CASE t # s
      <4>1. stream'[t] = stream[t]  BY <2>1, <3>2
      <4>2. QED  BY <2>1, <2>5, <4>1 DEF ToldInv, DesiredIsTold
    <3>3. QED  BY <3>1, <3>2
  <2>6. QED  BY <2>1, <2>2, <2>5 DEF ToldInv, DesiredIsTold
<1>3. ASSUME NEW s \in Streams, SendConfiguration(s) PROVE ToldInv'
  <2>1. stream[s].stage = "configuring" /\ UNCHANGED <<desired, applied>>
    BY <1>3 DEF SendConfiguration, state
  <2>2. CASE stream' = [stream EXCEPT ![s].stage = "serving", ![s].config = NoConfiguration,
                                      ![s].told = @ \cup {stream[s].config}]
    <3>1. /\ \A t \in Streams \ {s} : stream'[t] = stream[t]
          /\ stream'[s].told = stream[s].told \cup {stream[s].config}
      BY <1>0, <2>2 DEF StreamRecord
    <3>2. stream[s].stage \in Attached  BY <2>1 DEF Attached
    <3>3. applied = desired \/ desired \in stream'[s].told
      BY <3>1, <3>2 DEF ToldInv, DesiredIsTold
    <3>4. desired.list # NoWatchlist  BY <3>2 DEF ToldInv
    <3>5. ASSUME NEW t \in Streams, stream'[t].stage \in Attached
          PROVE  \/ applied' = desired'
                 \/ desired' \in stream'[t].told
                 \/ stream'[t].stage \in {"greeting", "configuring"} /\ desired' = stream'[t].config
      <4>1. CASE t = s  BY <2>1, <3>3, <4>1
      <4>2. CASE t # s
        <5>1. stream'[t] = stream[t]  BY <3>1, <4>2
        <5>2. QED  BY <2>1, <3>5, <5>1 DEF ToldInv, DesiredIsTold
      <4>3. QED  BY <4>1, <4>2
    <3>6. QED  BY <2>1, <3>4, <3>5 DEF ToldInv, DesiredIsTold
  <2>3. CASE stream' = [stream EXCEPT ![s].stage = "failed"]
    <3>1. /\ \A t \in Streams \ {s} : stream'[t] = stream[t]
          /\ stream'[s].stage \notin Attached
      BY <1>0, <2>3 DEF StreamRecord, Attached
    <3>2. QED  BY <2>1, <3>1, ToldKept
  <2>4. QED  BY <1>3, <2>2, <2>3 DEF SendConfiguration
<1>4. ASSUME NEW s \in Streams,
             (\E event \in AgentEvents : Publish(s, event)) \/ Broadcast(s) \/ EndOfStream(s)
               \/ Refuse(s) \/ (\E cursor \in Cursors : Heartbeat(s, cursor)) \/ DisconnectAgent(s)
      PROVE  ToldInv'
  <2>1. CASE stream' = stream /\ UNCHANGED <<desired, applied>>
    BY <2>1 DEF ToldInv, DesiredIsTold
  <2>2. CASE ~ (stream' = stream /\ UNCHANGED <<desired, applied>>)
    <3>1. /\ UNCHANGED <<desired, applied>>
          /\ \A t \in Streams \ {s} : stream'[t] = stream[t]
          /\ \/ stream'[s].stage \notin Attached
             \/ /\ stream[s].stage \in Attached \ {"greeting", "configuring"}
                /\ stream[s].told \subseteq stream'[s].told
      <4>1. CASE \E event \in AgentEvents : Publish(s, event)
        <5>1. PICK event \in AgentEvents :
                /\ stream[s].stage = "serving" /\ UNCHANGED <<desired, applied>>
                /\ stream' = [stream EXCEPT ![s].stage = "broadcasting", ![s].outgoing = event]
          BY <4>1 DEF Publish
        <5>2. /\ \A t \in Streams \ {s} : stream'[t] = stream[t]
              /\ stream'[s].told = stream[s].told
          BY <1>0, <5>1 DEF StreamRecord
        <5>3. QED  BY <5>1, <5>2 DEF Attached
      <4>2. CASE Broadcast(s)
        <5>1. /\ stream[s].stage = "broadcasting" /\ UNCHANGED <<desired, applied>>
              /\ \/ stream' = [stream EXCEPT ![s].stage = "serving", ![s].outgoing = NoEvent]
                 \/ stream' = [stream EXCEPT ![s].stage = "closing", ![s].outgoing = NoEvent]
          BY <4>2 DEF Broadcast, state
        <5>2. /\ \A t \in Streams \ {s} : stream'[t] = stream[t]
              /\ stream'[s].told = stream[s].told
          BY <1>0, <5>1 DEF StreamRecord
        <5>3. QED  BY <5>1, <5>2 DEF Attached
      <4>3. CASE EndOfStream(s) \/ Refuse(s)
        <5>1. /\ stream[s].stage = "serving" /\ UNCHANGED <<desired, applied>>
              /\ stream' = [stream EXCEPT ![s].stage = "closing"]
          BY <4>3 DEF EndOfStream, Refuse, state
        <5>2. /\ \A t \in Streams \ {s} : stream'[t] = stream[t]
              /\ stream'[s].told = stream[s].told
          BY <1>0, <5>1 DEF StreamRecord
        <5>3. QED  BY <5>1, <5>2 DEF Attached
      <4>4. CASE \E cursor \in Cursors : Heartbeat(s, cursor)
        BY <1>0, <2>2, <4>4 DEF Heartbeat, StreamRecord, Attached, state
      <4>5. CASE DisconnectAgent(s)
        <5>1. /\ UNCHANGED <<desired, applied>>
              /\ stream' = [stream EXCEPT ![s].stage = "closed", ![s].told = {},
                                          ![s].config = NoConfiguration]
          BY <4>5 DEF DisconnectAgent
        <5>2. /\ \A t \in Streams \ {s} : stream'[t] = stream[t]
              /\ stream'[s].stage = "closed"
          BY <1>0, <5>1 DEF StreamRecord
        <5>3. QED  BY <5>1, <5>2 DEF Attached
      <4>6. QED  BY <1>4, <4>1, <4>2, <4>3, <4>4, <4>5
    <3>2. QED  BY <3>1, ToldKept
  <2>3. QED  BY <2>1, <2>2
<1>5. ASSUME NEW list \in Watchlists, SetWatchlist(list) PROVE ToldInv'
  <2> DEFINE wanted == [revision |-> desired.revision + 1, list |-> list]
  <2>1. PICK s \in Streams :
          /\ stream[s].session = agentSession /\ agentSession # 0
          /\ stream' = [stream EXCEPT ![s].told = @ \cup {wanted}]
          /\ desired' = wanted
    BY <1>5 DEF SetWatchlist
  <2>2. /\ desired' \in stream'[s].told /\ desired'.list = list
        /\ \A t \in Streams \ {s} : stream'[t] = stream[t]
        /\ stream'[s].stage = stream[s].stage
    BY <1>0, <2>1 DEF StreamRecord
  <2>3. list # NoWatchlist  BY NoWatchlistDistinct
  <2>4. ASSUME NEW t \in Streams, stream'[t].stage \in Attached PROVE t = s
    <3>1. stream[t].stage \in Attached  BY <2>2, <2>4
    <3>2. stream[t].session = agentSession  BY <3>1 DEF SessionInv
    <3>3. QED  BY <2>1, <3>2 DEF SessionInv
  <2>5. QED  BY <2>2, <2>3, <2>4 DEF ToldInv, DesiredIsTold
<1>6. CASE UNCHANGED <<stream, desired, applied>>
  BY <1>6 DEF ToldInv, DesiredIsTold
<1>7. ASSUME NEW s \in Streams, AgentStep(s) PROVE ToldInv'
  BY <1>6, <1>7 DEF AgentStep, ReceiveCommand, FallSilent, Hangup, state
<1>8. ASSUME NEW p \in Publishers, LocalStep(p) PROVE ToldInv'
  BY <1>6, <1>8 DEF LocalStep, RecordLocal, BroadcastLocal, state
<1>9. ASSUME NEW c \in Subscribers, SubscriberStep(c) PROVE ToldInv'
  BY <1>6, <1>9 DEF SubscriberStep, Subscribe, Poll, Unsubscribe, state
<1>10. CASE UNCHANGED vars  BY <1>6, <1>10 DEF vars, state
<1>11. QED
  BY <1>1, <1>2, <1>3, <1>4, <1>5, <1>7, <1>8, <1>9, <1>10
     DEF Next, StreamStep, RefuseEvent, RefuseHeartbeat

-----------------------------------------------------------------------------
(* Acknowledgements *)

\* The session belongs to a call that is attached, or failed to be set up.
SessionHeld == agentSession # 0 => \E s \in Streams : stream[s].stage \in Attached \cup {"failed"}

\* An attached call speaks for the hub's generation, and the queue of a call
\* that is not answered yet, or over, is empty.
AckInv ==
  /\ AckedWasBroadcast
  /\ \A s \in Streams : stream[s].stage \in Attached => stream[s].gen = generation /\ generation # 0
  /\ \A s \in Streams : stream[s].stage \in {"idle", "closed"} => commands[s] = <<>>

LEMMA InitAck == Init => AckInv
BY DEF Init, AckInv, AckedWasBroadcast, Attached

\* From a position on the channel has carried this event.
Carried(log, from, g, n) ==
  \E i \in LaneOf(log, from + 1, Len(log)) : CursorOf(log[i]) = [gen |-> g, seq |-> n]

\* A queue is emptied, or, under the generation the hub held before, kept, read
\* or extended by a command that acknowledges at most what the channel carries.
QueueStep(t) ==
  \/ commands'[t] = <<>>
  \/ /\ stream'[t].gen = stream[t].gen /\ since' = since
     /\ \/ commands'[t] = commands[t]
        \/ commands[t] # <<>> /\ commands'[t] = Tail(commands[t])
        \/ \E c \in Command :
             /\ commands'[t] = Append(commands[t], c)
             /\ c.type = "ack" /\ c.seq > 0 => Carried(sent', since, stream[t].gen, c.seq)

LEMMA CarriedGrows ==
  ASSUME TypeOK, LaneInv, LaneStep, since' = since, NEW g, NEW n, Carried(sent, since, g, n)
  PROVE  Carried(sent', since, g, n)
<1>1. CASE sent' = sent  BY <1>1
<1>2. ASSUME NEW e \in Envelope, sent' = Append(sent, e) PROVE Carried(sent', since, g, n)
  <2>1. PICK i \in LaneOf(sent, since + 1, Len(sent)) : CursorOf(sent[i]) = [gen |-> g, seq |-> n]
    BY DEF Carried
  <2>2. sent \in Seq(Envelope) /\ Len(sent) \in Nat /\ since \in Nat  BY DEF TypeOK
  <2>3. i \in LaneOf(sent', since + 1, Len(sent')) /\ sent'[i] = sent[i]
    BY <1>2, <2>2 DEF LaneOf
  <2>4. QED  BY <2>1, <2>3 DEF Carried
<1>3. QED  BY <1>1, <1>2 DEF LaneStep

LEMMA QueuesStayBacked ==
  ASSUME TypeOK, LaneInv, LaneStep, AckedWasBroadcast, \A t \in Streams : QueueStep(t)
  PROVE  AckedWasBroadcast'
<1> SUFFICES ASSUME NEW t \in Streams, NEW k \in DOMAIN commands'[t],
                    commands'[t][k].type = "ack", commands'[t][k].seq > 0
             PROVE  Carried(sent', since', stream'[t].gen, commands'[t][k].seq)
  BY DEF AckedWasBroadcast, Carried, AgentLane, LaneOf
<1>0. commands[t] \in Seq(Command)  BY DEF TypeOK
<1>1. \A j \in DOMAIN commands[t] : commands[t][j].type = "ack" /\ commands[t][j].seq > 0
        => Carried(sent, since, stream[t].gen, commands[t][j].seq)
  BY DEF AckedWasBroadcast, Carried, AgentLane, LaneOf
<1>2. CASE commands'[t] = <<>>  BY <1>2
<1>3. ASSUME stream'[t].gen = stream[t].gen, since' = since, NEW j \in DOMAIN commands[t],
             commands'[t][k] = commands[t][j]
      PROVE  Carried(sent', since', stream'[t].gen, commands'[t][k].seq)
  <2>1. PICK g, n : g = stream[t].gen /\ n = commands[t][j].seq  OBVIOUS
  <2>2. Carried(sent, since, g, n)  BY <1>1, <1>3, <2>1
  <2>3. Carried(sent', since, g, n)  BY <1>3, <2>2, CarriedGrows
  <2>4. QED  BY <1>3, <2>1, <2>3
<1>4. CASE stream'[t].gen = stream[t].gen /\ since' = since /\ commands'[t] = commands[t]
  BY <1>3, <1>4
<1>5. CASE /\ stream'[t].gen = stream[t].gen /\ since' = since
           /\ commands[t] # <<>> /\ commands'[t] = Tail(commands[t])
  <2>1. k + 1 \in DOMAIN commands[t] /\ commands'[t][k] = commands[t][k + 1]  BY <1>0, <1>5
  <2>2. QED  BY <1>3, <1>5, <2>1
<1>6. ASSUME stream'[t].gen = stream[t].gen, since' = since, NEW c \in Command,
             commands'[t] = Append(commands[t], c),
             c.type = "ack" /\ c.seq > 0 => Carried(sent', since, stream[t].gen, c.seq)
      PROVE  Carried(sent', since', stream'[t].gen, commands'[t][k].seq)
  <2>1. k \in 1..(Len(commands[t]) + 1) /\ Len(commands[t]) \in Nat  BY <1>0, <1>6
  <2>2. CASE k = Len(commands[t]) + 1
    <3>1. commands'[t][k] = c  BY <1>0, <1>6, <2>2
    <3>2. QED  BY <1>6, <3>1
  <2>3. CASE k \in 1..Len(commands[t])
    <3>1. k \in DOMAIN commands[t] /\ commands'[t][k] = commands[t][k]  BY <1>0, <1>6, <2>3
    <3>2. QED  BY <1>3, <1>6, <3>1
  <2>4. QED  BY <2>1, <2>2, <2>3
<1>7. QED  BY <1>2, <1>4, <1>5, <1>6 DEF QueueStep

\* What a task acknowledges outside a broadcast, the hub's cursor, is on the
\* channel: its own broadcast was the last step that could be missing.
LEMMA CursorCarried ==
  ASSUME TypeOK, SessionInv, LaneInv, AckInv, NEW s \in Streams,
         stream[s].stage \in Attached, stream[s].stage # "broadcasting", latest > 0
  PROVE  Carried(sent, since, stream[s].gen, latest)
<1>0. latest \in Nat  BY BoundsNatural DEF TypeOK
<1>1. stream[s].gen = generation  BY DEF AckInv
<1>2. ASSUME NEW t \in Streams, stream[t].stage = "broadcasting" PROVE FALSE
  <2>1. stream[t].stage \in Attached  BY <1>2 DEF Attached
  <2>2. stream[t].session = stream[s].session /\ stream[s].session # 0
    BY <2>1 DEF SessionInv, Attached
  <2>3. QED  BY <1>2, <2>2 DEF SessionInv
<1>3. Upcoming - 1 = latest  BY <1>0, <1>2 DEF Upcoming
<1>4. latest \in {sent[i].seq : i \in AgentLane(since + 1, Len(sent))}  BY <1>0, <1>3 DEF LaneInv
<1>5. PICK i \in AgentLane(since + 1, Len(sent)) : sent[i].seq = latest  BY <1>4
<1>6. sent[i].gen = generation  BY DEF LaneInv
<1>7. QED  BY <1>1, <1>5, <1>6 DEF Carried, CursorOf, AgentLane, LaneOf

\* The step of one task that neither attaches it nor moves the generation.
LEMMA AckOfTask ==
  ASSUME TypeOK, LaneInv, LaneStep, AckInv, NEW s \in Streams,
         generation' = generation, since' = since,
         \A t \in Streams \ {s} : stream'[t] = stream[t] /\ commands'[t] = commands[t],
         stream'[s].gen = stream[s].gen,
         stream'[s].stage \in {"idle", "closed"} => commands'[s] = <<>>,
         stream'[s].stage \in Attached => stream[s].stage \in Attached,
         QueueStep(s)
  PROVE  AckInv'
<1>1. \A t \in Streams : QueueStep(t)  BY DEF QueueStep
<1>2. AckedWasBroadcast'  BY <1>1, QueuesStayBacked DEF AckInv
<1>3. ASSUME NEW t \in Streams
      PROVE  /\ stream'[t].stage \in Attached => stream'[t].gen = generation' /\ generation' # 0
             /\ stream'[t].stage \in {"idle", "closed"} => commands'[t] = <<>>
  <2>1. CASE t = s  BY <2>1 DEF AckInv
  <2>2. CASE t # s
    <3>1. stream'[t] = stream[t] /\ commands'[t] = commands[t]  BY <2>2
    <3>2. QED  BY <3>1 DEF AckInv
  <2>3. QED  BY <2>1, <2>2
<1>4. QED  BY <1>2, <1>3 DEF AckInv

LEMMA AckCommands ==
  /\ \A n \in Nat : Ack(n) \in Command /\ Ack(n).type = "ack" /\ Ack(n).seq = n
  /\ \A w \in Watchlist : Configure(w) \in Command /\ Configure(w).type = "configure"
  /\ Stop \in Command /\ Stop.type = "stop"
BY DEF Ack, Configure, Stop, Command, Watchlist

LEMMA NextAck ==
  TypeOK /\ TypeOK' /\ SessionInv /\ SessionHeld /\ LaneInv /\ LaneStep /\ AckInv /\ [Next]_vars
    => AckInv'
<1> SUFFICES ASSUME TypeOK, TypeOK', SessionInv, SessionHeld, LaneInv, LaneStep, AckInv, [Next]_vars
             PROVE  AckInv'
  OBVIOUS
<1>0. /\ stream \in [Streams -> StreamRecord] /\ stream' \in [Streams -> StreamRecord]
      /\ commands \in [Streams -> Seq(Command)] /\ latest \in Nat /\ desired \in Watchlist
      /\ sent \in Seq(Envelope)
  BY BoundsNatural DEF TypeOK
<1>1. ASSUME NEW s \in Streams, NEW g \in Generations, NEW hello, ConnectAgent(s, g, hello)
      PROVE  AckInv'
  <2>1. /\ agentSession = 0 /\ commands' = commands /\ stream[s].stage = "idle"
        /\ \A t \in Streams \ {s} : stream'[t] = stream[t]
        /\ stream'[s].stage = "greeting" /\ stream'[s].gen = g /\ generation' = g
    BY <1>0, <1>1 DEF ConnectAgent, SessionFree, StreamRecord
  <2>2. \A t \in Streams : stream[t].stage \notin Attached
    BY <2>1 DEF SessionInv, Attached
  <2>3. g # 0  BY DEF Generations
  <2>4. \A t \in Streams : stream[t].stage \in {"idle", "closed"}
    BY <1>0, <2>1, <2>2 DEF SessionInv, Stages, StreamRecord
  <2>5. \A t \in Streams : commands'[t] = <<>>  BY <2>1, <2>4 DEF AckInv
  <2>6. AckedWasBroadcast'  BY <2>5 DEF AckedWasBroadcast
  <2>7. ASSUME NEW t \in Streams
        PROVE  /\ stream'[t].stage \in Attached => stream'[t].gen = generation' /\ generation' # 0
               /\ stream'[t].stage \in {"idle", "closed"} => commands'[t] = <<>>
    <3>1. CASE t = s  BY <2>1, <2>3, <2>5, <3>1
    <3>2. CASE t # s  BY <2>1, <2>2, <2>5, <3>2
    <3>3. QED  BY <3>1, <3>2
  <2>8. QED  BY <2>6, <2>7 DEF AckInv
<1>2. ASSUME NEW s \in Streams, SendHelloAck(s) PROVE AckInv'
  <2>1. /\ stream[s].stage = "greeting" /\ UNCHANGED <<generation, since, sent>>
        /\ \A t \in Streams \ {s} : stream'[t] = stream[t] /\ commands'[t] = commands[t]
        /\ stream'[s].gen = stream[s].gen /\ stream'[s].stage \notin {"idle", "closed"}
        /\ commands'[s] = commands[s] \/ commands'[s] = Append(commands[s], Ack(latest))
    BY <1>0, <1>2 DEF SendHelloAck, state, StreamRecord
  <2>2. stream[s].stage \in Attached  BY <2>1 DEF Attached
  <2>3. latest > 0 => Carried(sent', since, stream[s].gen, latest)  BY <2>1, <2>2, CursorCarried
  <2>4. QueueStep(s)  BY <1>0, <2>1, <2>3, AckCommands DEF QueueStep
  <2>5. QED  BY <2>1, <2>2, <2>4, AckOfTask
<1>3. ASSUME NEW s \in Streams, SendConfiguration(s) PROVE AckInv'
  <2>1. stream[s].stage = "configuring" /\ UNCHANGED <<generation, since>> /\ stream[s].config \in Watchlist
    BY <1>0, <1>3 DEF SendConfiguration, state, StreamRecord
  <2>2. stream[s].stage \in Attached  BY <2>1 DEF Attached
  <2>3. CASE /\ commands' = [commands EXCEPT ![s] = Append(@, Configure(stream[s].config))]
             /\ stream' = [stream EXCEPT ![s].stage = "serving", ![s].config = NoConfiguration,
                                         ![s].told = @ \cup {stream[s].config}]
    <3>1. /\ \A t \in Streams \ {s} : stream'[t] = stream[t] /\ commands'[t] = commands[t]
          /\ stream'[s].gen = stream[s].gen /\ stream'[s].stage \notin {"idle", "closed"}
          /\ commands'[s] = Append(commands[s], Configure(stream[s].config))
      BY <1>0, <2>3 DEF StreamRecord
    <3>2. QueueStep(s)  BY <2>1, <3>1, AckCommands DEF QueueStep
    <3>3. QED  BY <2>1, <2>2, <3>1, <3>2, AckOfTask
  <2>4. CASE stream' = [stream EXCEPT ![s].stage = "failed"] /\ UNCHANGED commands
    <3>1. /\ \A t \in Streams \ {s} : stream'[t] = stream[t] /\ commands'[t] = commands[t]
          /\ stream'[s].gen = stream[s].gen /\ stream'[s].stage \notin {"idle", "closed"}
      BY <1>0, <2>4 DEF StreamRecord
    <3>2. QueueStep(s)  BY <2>1, <2>4, <3>1 DEF QueueStep
    <3>3. QED  BY <2>1, <2>2, <3>1, <3>2, AckOfTask
  <2>5. QED  BY <1>3, <2>3, <2>4 DEF SendConfiguration
<1>4. ASSUME NEW s \in Streams, NEW event \in AgentEvents, Publish(s, event) PROVE AckInv'
  <2>1. /\ stream[s].stage = "serving" /\ UNCHANGED <<generation, since, commands>>
        /\ \A t \in Streams \ {s} : stream'[t] = stream[t]
        /\ stream'[s].gen = stream[s].gen /\ stream'[s].stage \notin {"idle", "closed"}
    BY <1>0, <1>4 DEF Publish, StreamRecord
  <2>2. stream[s].stage \in Attached  BY <2>1 DEF Attached
  <2>3. QueueStep(s)  BY <2>1 DEF QueueStep
  <2>4. QED  BY <2>1, <2>2, <2>3, AckOfTask
<1>5. ASSUME NEW s \in Streams, Broadcast(s) PROVE AckInv'
  <2>1. /\ stream[s].stage = "broadcasting" /\ UNCHANGED <<generation, since>>
        /\ sent' = Append(sent, stream[s].outgoing)
        /\ \A t \in Streams \ {s} : stream'[t] = stream[t] /\ commands'[t] = commands[t]
        /\ stream'[s].gen = stream[s].gen /\ stream'[s].stage \notin {"idle", "closed"}
        /\ \/ commands'[s] = commands[s]
           \/ commands'[s] = Append(commands[s], Ack(stream[s].outgoing.seq))
    BY <1>0, <1>5 DEF Broadcast, state, StreamRecord
  <2>2. stream[s].stage \in Attached  BY <2>1 DEF Attached
  <2>3. /\ stream[s].outgoing \in Envelope /\ stream[s].outgoing.seq = latest
        /\ stream[s].outgoing.gen = stream[s].gen
    BY <2>1, <2>2 DEF SessionInv, AckInv
  <2>4. Carried(sent', since, stream[s].gen, latest)
    <3>1. Len(sent') = Len(sent) + 1 /\ sent'[Len(sent) + 1] = stream[s].outgoing
      BY <1>0, <2>1, <2>3
    <3>2. Len(sent) \in Nat /\ since \in 0..Len(sent)  BY <1>0 DEF LaneInv
    <3>3. stream[s].outgoing.gen # Local  BY <2>2, <2>3 DEF AckInv, Local
    <3>4. Len(sent) + 1 \in LaneOf(sent', since + 1, Len(sent'))  BY <3>1, <3>2, <3>3 DEF LaneOf
    <3>5. QED  BY <2>3, <3>1, <3>4 DEF Carried, CursorOf
  <2>5. QueueStep(s)  BY <1>0, <2>1, <2>3, <2>4, AckCommands DEF QueueStep
  <2>6. QED  BY <2>1, <2>2, <2>5, AckOfTask
<1>6. ASSUME NEW s \in Streams, NEW cursor \in Cursors, Heartbeat(s, cursor) PROVE AckInv'
  <2>1. /\ stream[s].stage = "serving" /\ UNCHANGED <<generation, since, sent>>
        /\ \A t \in Streams \ {s} : stream'[t] = stream[t] /\ commands'[t] = commands[t]
        /\ stream'[s].gen = stream[s].gen /\ stream'[s].stage \notin {"idle", "closed"}
        /\ commands'[s] = commands[s] \/ commands'[s] = Append(commands[s], Ack(latest))
    BY <1>0, <1>6 DEF Heartbeat, state, StreamRecord
  <2>2. stream[s].stage \in Attached  BY <2>1 DEF Attached
  <2>3. latest > 0 => Carried(sent', since, stream[s].gen, latest)  BY <2>1, <2>2, CursorCarried
  <2>4. QueueStep(s)  BY <1>0, <2>1, <2>3, AckCommands DEF QueueStep
  <2>5. QED  BY <2>1, <2>2, <2>4, AckOfTask
<1>7. ASSUME NEW s \in Streams, Refuse(s) PROVE AckInv'
  <2>1. /\ stream[s].stage = "serving" /\ UNCHANGED <<generation, since>>
        /\ \A t \in Streams \ {s} : stream'[t] = stream[t] /\ commands'[t] = commands[t]
        /\ stream'[s].gen = stream[s].gen /\ stream'[s].stage \notin {"idle", "closed"}
        /\ commands'[s] = commands[s] \/ commands'[s] = Append(commands[s], Stop)
    BY <1>0, <1>7 DEF Refuse, state, StreamRecord
  <2>2. stream[s].stage \in Attached  BY <2>1 DEF Attached
  <2>3. QueueStep(s)  BY <2>1, AckCommands DEF QueueStep
  <2>4. QED  BY <2>1, <2>2, <2>3, AckOfTask
<1>8. ASSUME NEW s \in Streams, EndOfStream(s) \/ DisconnectAgent(s) PROVE AckInv'
  <2>1. /\ stream[s].stage \in {"serving", "closing"} /\ UNCHANGED <<generation, since>>
        /\ \A t \in Streams \ {s} : stream'[t] = stream[t] /\ commands'[t] = commands[t]
        /\ stream'[s].gen = stream[s].gen
        /\ \/ commands'[s] = commands[s] /\ stream'[s].stage = "closing"
           \/ commands'[s] = <<>>
    <3>1. CASE EndOfStream(s)  BY <1>0, <3>1 DEF EndOfStream, state, StreamRecord
    <3>2. CASE DisconnectAgent(s)  BY <1>0, <3>2 DEF DisconnectAgent, state, StreamRecord
    <3>3. QED  BY <1>8, <3>1, <3>2
  <2>2. stream[s].stage \in Attached  BY <2>1 DEF Attached
  <2>3. QueueStep(s)  BY <2>1 DEF QueueStep
  <2>4. QED  BY <2>1, <2>2, <2>3, AckOfTask
<1>9. ASSUME NEW list \in Watchlists, SetWatchlist(list) PROVE AckInv'
  <2>1. PICK s \in Streams :
          /\ stream[s].session = agentSession /\ agentSession # 0
          /\ stream' = [stream EXCEPT ![s].told =
                          @ \cup {[revision |-> desired.revision + 1, list |-> list]}]
          /\ commands' = [commands EXCEPT ![s] =
                          Append(@, Configure([revision |-> desired.revision + 1, list |-> list]))]
    BY <1>9 DEF SetWatchlist
  <2>2. UNCHANGED <<generation, since>>  BY <1>9 DEF SetWatchlist
  <2>3. [revision |-> desired.revision + 1, list |-> list] \in Watchlist
    BY <1>0 DEF Watchlist
  <2>4. /\ \A t \in Streams \ {s} : stream'[t] = stream[t] /\ commands'[t] = commands[t]
        /\ stream'[s].gen = stream[s].gen /\ stream'[s].stage = stream[s].stage
        /\ commands'[s] =
             Append(commands[s], Configure([revision |-> desired.revision + 1, list |-> list]))
    BY <1>0, <2>1 DEF StreamRecord
  <2>5. stream[s].stage \notin {"idle", "closed"}
    <3>1. PICK t \in Streams : stream[t].stage \in Attached \cup {"failed"}
      BY <2>1 DEF SessionHeld
    <3>2. stream[t].session = stream[s].session /\ stream[s].session # 0
      BY <2>1, <3>1 DEF SessionInv
    <3>3. s = t  BY <3>2 DEF SessionInv
    <3>4. QED  BY <3>1, <3>3 DEF Attached
  <2>6. QueueStep(s)  BY <2>2, <2>3, <2>4, AckCommands DEF QueueStep
  <2>7. QED  BY <2>2, <2>4, <2>5, <2>6, AckOfTask
<1>10. ASSUME NEW s \in Streams, AgentStep(s) PROVE AckInv'
  <2>1. /\ UNCHANGED <<stream, generation, since>>
        /\ \A t \in Streams \ {s} : commands'[t] = commands[t]
        /\ \/ commands'[s] = commands[s]
           \/ /\ commands[s] # <<>> /\ commands'[s] = Tail(commands[s])
              /\ stream[s].stage \in Answered
    BY <1>0, <1>10 DEF AgentStep, ReceiveCommand, FallSilent, Hangup, state
  <2>2. CASE commands' = commands
    <3>1. \A t \in Streams : QueueStep(t)  BY <2>1, <2>2 DEF QueueStep
    <3>2. AckedWasBroadcast'  BY <3>1, QueuesStayBacked DEF AckInv
    <3>3. QED  BY <2>1, <2>2, <3>2 DEF AckInv
  <2>3. CASE commands' # commands
    <3>1. stream[s].stage \notin {"idle", "closed"} /\ commands[s] # <<>> /\ commands'[s] = Tail(commands[s])
      <4>1. DOMAIN commands = Streams /\ DOMAIN commands' = Streams  BY DEF TypeOK
      <4>2. commands'[s] # commands[s]
        <5>1. commands' \in [Streams -> Seq(Command)]  BY DEF TypeOK
        <5>2. QED  BY <1>0, <2>1, <2>3, <5>1
      <4>3. QED  BY <2>1, <4>2 DEF Answered
    <3>2. QueueStep(s)  BY <2>1, <3>1 DEF QueueStep
    <3>3. QED  BY <2>1, <3>1, <3>2, AckOfTask
  <2>4. QED  BY <2>2, <2>3
<1>11. CASE UNCHANGED <<stream, commands, generation, since>>
  <2>1. \A t \in Streams : QueueStep(t)  BY <1>11 DEF QueueStep
  <2>2. AckedWasBroadcast'  BY <2>1, QueuesStayBacked DEF AckInv
  <2>3. QED  BY <1>11, <2>2 DEF AckInv
<1>12. ASSUME NEW p \in Publishers, LocalStep(p) PROVE AckInv'
  BY <1>11, <1>12 DEF LocalStep, RecordLocal, BroadcastLocal, state
<1>13. ASSUME NEW c \in Subscribers, SubscriberStep(c) PROVE AckInv'
  BY <1>11, <1>13 DEF SubscriberStep, Subscribe, Poll, Unsubscribe, state
<1>14. CASE UNCHANGED vars  BY <1>11, <1>14 DEF vars, state
<1>15. QED
  BY <1>1, <1>2, <1>3, <1>4, <1>5, <1>6, <1>7, <1>8, <1>9, <1>10, <1>12, <1>13, <1>14
     DEF Next, StreamStep, RefuseEvent, RefuseHeartbeat

-----------------------------------------------------------------------------
(* The counters of the listener status *)

Waiting == {p \in Publishers : localPending[p] # <<>>}
LocalPlaces(log) == {i \in DOMAIN log : log[i].gen = Local}

\* The two balances, and that finitely many publishers are between their
\* critical section and their broadcast.
CountInv ==
  /\ telemetry.connections = telemetry.disconnects + (IF agentSession = 0 THEN 0 ELSE 1)
  /\ IsFiniteSet(Waiting)
  /\ telemetry.published = Len(replay) + telemetry.evictions
       + Cardinality(LocalPlaces(sent)) + Cardinality(Waiting)

LEMMA InitCount == Init => CountInv
<1> SUFFICES ASSUME Init PROVE CountInv  OBVIOUS
<1>1. Waiting = {} /\ LocalPlaces(sent) = {} /\ Len(replay) = 0
  BY DEF Init, Waiting, LocalPlaces
<1>2. /\ telemetry.connections = 0 /\ telemetry.disconnects = 0 /\ telemetry.published = 0
      /\ telemetry.evictions = 0 /\ agentSession = 0
  BY DEF Init
<1>3. IsFiniteSet(Waiting) /\ Cardinality(Waiting) = 0 /\ Cardinality(LocalPlaces(sent)) = 0
  BY <1>1, FS_EmptySet
<1>4. QED  BY <1>1, <1>2, <1>3 DEF CountInv

LEMMA PlacesFinite ==
  ASSUME NEW log \in Seq(Envelope)
  PROVE  IsFiniteSet(LocalPlaces(log)) /\ Cardinality(LocalPlaces(log)) \in Nat
<1>1. DOMAIN log = 1..Len(log) /\ Len(log) \in Nat  OBVIOUS
<1>2. IsFiniteSet(1..Len(log))  BY <1>1, OneTo
<1>3. LocalPlaces(log) \subseteq 1..Len(log)  BY <1>1 DEF LocalPlaces
<1>4. QED  BY <1>2, <1>3, FS_Subset, FS_CardinalityType

LEMMA PlacesAppend ==
  ASSUME NEW log \in Seq(Envelope), NEW e \in Envelope
  PROVE  Cardinality(LocalPlaces(Append(log, e)))
           = Cardinality(LocalPlaces(log)) + (IF e.gen = Local THEN 1 ELSE 0)
<1> DEFINE more == Append(log, e)
           n == Len(log) + 1
<1>1. /\ DOMAIN more = 1..n /\ more[n] = e /\ DOMAIN log = 1..(n - 1) /\ n \in Nat \ {0}
      /\ \A i \in 1..(n - 1) : more[i] = log[i]
  OBVIOUS
<1>2. IsFiniteSet(LocalPlaces(log)) /\ Cardinality(LocalPlaces(log)) \in Nat  BY PlacesFinite
<1> HIDE DEF more, n
<1>3. 1..n = 1..(n - 1) \cup {n} /\ n \notin 1..(n - 1)  BY <1>1
<1>4. n \notin LocalPlaces(log)  BY <1>1, <1>3 DEF LocalPlaces
<1>5. CASE e.gen = Local
  <2>1. LocalPlaces(more) = LocalPlaces(log) \cup {n}  BY <1>1, <1>3, <1>5 DEF LocalPlaces
  <2>2. Cardinality(LocalPlaces(more)) = Cardinality(LocalPlaces(log)) + 1
    BY <1>2, <1>4, <2>1, FS_AddElement
  <2>3. QED  BY <1>5, <2>2 DEF more
<1>6. CASE e.gen # Local
  <2>1. LocalPlaces(more) = LocalPlaces(log)  BY <1>1, <1>3, <1>6 DEF LocalPlaces
  <2>2. QED  BY <1>2, <1>6, <2>1 DEF more
<1>7. QED  BY <1>5, <1>6

\* The eviction loop drops what it counts.
LEMMA PublishCounts ==
  ASSUME TypeOK, ReplayWindow, NEW s \in Streams, NEW event \in AgentEvents, Publish(s, event)
  PROVE  /\ telemetry'.published = telemetry.published + 1
         /\ telemetry'.connections = telemetry.connections
         /\ telemetry'.disconnects = telemetry.disconnects
         /\ Len(replay') + telemetry'.evictions = Len(replay) + telemetry.evictions + 1
<1> DEFINE dropped == Evicted(Append(replay, event), BytesWith(event))
<1>1. dropped \in Nat /\ Len(replay') = Len(replay) + 1 - dropped  BY PublishWindow
<1>2. telemetry' = [telemetry EXCEPT !.published = @ + 1, !.evictions = @ + dropped]
  BY DEF Publish
<1>3. telemetry \in Telemetry /\ Len(replay) \in Nat  BY DEF TypeOK
<1> HIDE DEF dropped
<1>4. /\ telemetry'.published = telemetry.published + 1
      /\ telemetry'.evictions = telemetry.evictions + dropped
      /\ telemetry'.connections = telemetry.connections
      /\ telemetry'.disconnects = telemetry.disconnects
      /\ telemetry.evictions \in Nat
  BY <1>2, <1>3 DEF Telemetry
<1>5. QED  BY <1>1, <1>3, <1>4

LEMMA NextCount ==
  TypeOK /\ SessionInv /\ ReplayWindow /\ LocalInv /\ CountInv /\ [Next]_vars => CountInv'
<1> SUFFICES ASSUME TypeOK, SessionInv, ReplayWindow, LocalInv, CountInv, [Next]_vars
             PROVE  CountInv'
  OBVIOUS
<1>0. /\ telemetry \in Telemetry /\ Len(replay) \in Nat /\ sent \in Seq(Envelope)
      /\ agentSession \in Nat /\ nextSession \in Nat \ {0}
      /\ stream \in [Streams -> StreamRecord]
      /\ localPending \in [Publishers -> Seq(Envelope)]
  BY DEF TypeOK
<1>a. /\ telemetry.connections \in Nat /\ telemetry.disconnects \in Nat
      /\ telemetry.published \in Nat /\ telemetry.evictions \in Nat
  BY <1>0 DEF Telemetry
<1>b. /\ IsFiniteSet(Waiting) /\ Cardinality(Waiting) \in Nat
      /\ Cardinality(LocalPlaces(sent)) \in Nat
  BY <1>0, PlacesFinite, FS_CardinalityType DEF CountInv
<1>1. ASSUME NEW s \in Streams, NEW g \in Generations, NEW hello, ConnectAgent(s, g, hello)
      PROVE  CountInv'
  <2>1. /\ agentSession = 0 /\ agentSession' = nextSession /\ UNCHANGED <<localPending, sent>>
        /\ telemetry' = [telemetry EXCEPT !.connections = @ + 1, !.evictions = @ + Cleared(g)]
    BY <1>1 DEF ConnectAgent, SessionFree
  <2>2. Cleared(g) \in Nat /\ Len(replay') = Len(replay) - Cleared(g)
    <3>1. CASE g = generation
      BY <1>0, <1>1, <3>1 DEF ConnectAgent, Cleared
    <3>2. CASE g # generation
      <4>1. replay' = <<>> /\ Cleared(g) = Len(replay)  BY <1>1, <3>2 DEF ConnectAgent, Cleared
      <4>2. QED  BY <1>0, <4>1
    <3>3. QED  BY <3>1, <3>2
  <2>3. /\ telemetry'.connections = telemetry.connections + 1
        /\ telemetry'.evictions = telemetry.evictions + Cleared(g)
        /\ telemetry'.disconnects = telemetry.disconnects
        /\ telemetry'.published = telemetry.published
    BY <1>0, <2>1 DEF Telemetry
  <2>4. Waiting' = Waiting /\ LocalPlaces(sent)' = LocalPlaces(sent)
    BY <2>1 DEF Waiting, LocalPlaces
  <2>5. telemetry'.connections = telemetry'.disconnects + (IF agentSession' = 0 THEN 0 ELSE 1)
    BY <1>0, <1>a, <2>1, <2>3 DEF CountInv
  <2>6. Len(replay') + telemetry'.evictions = Len(replay) + telemetry.evictions
    BY <1>0, <1>a, <2>2, <2>3
  <2>7. QED  BY <2>3, <2>4, <2>5, <2>6 DEF CountInv
<1>2. ASSUME NEW s \in Streams, NEW event \in AgentEvents, Publish(s, event) PROVE CountInv'
  <2>1. UNCHANGED <<agentSession, localPending, sent>>  BY <1>2 DEF Publish
  <2>2. Waiting' = Waiting /\ LocalPlaces(sent)' = LocalPlaces(sent)
    BY <2>1 DEF Waiting, LocalPlaces
  <2>3. /\ telemetry'.published = telemetry.published + 1
        /\ telemetry'.connections = telemetry.connections
        /\ telemetry'.disconnects = telemetry.disconnects
        /\ Len(replay') + telemetry'.evictions = Len(replay) + telemetry.evictions + 1
    BY <1>2, PublishCounts
  <2>4. telemetry'.published = Len(replay') + telemetry'.evictions
          + Cardinality(LocalPlaces(sent)) + Cardinality(Waiting)
    BY <1>0, <1>a, <1>b, <2>3 DEF CountInv
  <2>5. QED  BY <2>1, <2>2, <2>3, <2>4 DEF CountInv
<1>3. ASSUME NEW s \in Streams, DisconnectAgent(s) PROVE CountInv'
  <2>1. /\ stream[s].stage = "closing" /\ UNCHANGED <<replay, localPending, sent>>
        /\ IF agentSession = stream[s].session
           THEN /\ agentSession' = 0
                /\ telemetry' = [telemetry EXCEPT !.disconnects = @ + 1]
           ELSE UNCHANGED <<agentSession, telemetry>>
    BY <1>3 DEF DisconnectAgent
  <2>2. agentSession = stream[s].session /\ agentSession # 0
    BY <2>1 DEF SessionInv, Attached
  <2>3. /\ telemetry'.disconnects = telemetry.disconnects + 1
        /\ telemetry'.connections = telemetry.connections
        /\ telemetry'.published = telemetry.published
        /\ telemetry'.evictions = telemetry.evictions
        /\ agentSession' = 0
    BY <1>0, <2>1, <2>2 DEF Telemetry
  <2>4. Waiting' = Waiting /\ LocalPlaces(sent)' = LocalPlaces(sent)
    BY <2>1 DEF Waiting, LocalPlaces
  <2>5. telemetry'.connections = telemetry'.disconnects + (IF agentSession' = 0 THEN 0 ELSE 1)
    BY <1>a, <2>2, <2>3 DEF CountInv
  <2>6. QED  BY <2>1, <2>3, <2>4, <2>5 DEF CountInv
<1>4. ASSUME NEW p \in Publishers, NEW size \in Sizes, RecordLocal(p, size) PROVE CountInv'
  <2>1. /\ UNCHANGED <<agentSession, replay, sent>> /\ localPending[p] = <<>>
        /\ \A q \in Publishers \ {p} : localPending'[q] = localPending[q]
    BY <1>0, <1>4 DEF RecordLocal
  <2>2. CASE UNCHANGED <<telemetry, localPending>>
    BY <2>1, <2>2 DEF CountInv, Waiting, LocalPlaces
  <2>3. CASE /\ telemetry' = [telemetry EXCEPT !.published = @ + 1]
             /\ localPending' = [localPending EXCEPT ![p] =
                  <<[gen |-> Local, seq |-> NextLocal, size |-> size]>>]
    <3>1. localPending'[p] # <<>>  BY <1>0, <2>3
    <3>2. Waiting' = Waiting \cup {p} /\ p \notin Waiting  BY <2>1, <3>1 DEF Waiting
    <3>3. IsFiniteSet(Waiting') /\ Cardinality(Waiting') = Cardinality(Waiting) + 1
      BY <1>b, <3>2, FS_AddElement
    <3>4. /\ telemetry'.published = telemetry.published + 1
          /\ telemetry'.connections = telemetry.connections
          /\ telemetry'.disconnects = telemetry.disconnects
          /\ telemetry'.evictions = telemetry.evictions
      BY <1>0, <2>3 DEF Telemetry
    <3>5. LocalPlaces(sent)' = LocalPlaces(sent)  BY <2>1 DEF LocalPlaces
    <3>6. telemetry'.published = Len(replay) + telemetry'.evictions
            + Cardinality(LocalPlaces(sent)) + Cardinality(Waiting')
      BY <1>0, <1>a, <1>b, <3>3, <3>4 DEF CountInv
    <3>7. QED  BY <2>1, <3>3, <3>4, <3>5, <3>6 DEF CountInv
  <2>4. QED  BY <1>4, <2>2, <2>3 DEF RecordLocal
<1>5. ASSUME NEW p \in Publishers, BroadcastLocal(p) PROVE CountInv'
  <2> DEFINE e == Head(localPending[p])
  <2>1. /\ localPending[p] # <<>> /\ localPending'[p] = <<>> /\ sent' = Append(sent, e)
        /\ UNCHANGED <<agentSession, replay, telemetry>>
        /\ \A q \in Publishers \ {p} : localPending'[q] = localPending[q]
    BY <1>0, <1>5 DEF BroadcastLocal, state
  <2>2. e \in Envelope /\ e.gen = Local  BY <1>0, <2>1, HeadTailProperties DEF LocalInv
  <2> HIDE DEF e
  <2>3. Waiting' = Waiting \ {p} /\ p \in Waiting  BY <2>1 DEF Waiting
  <2>4. IsFiniteSet(Waiting') /\ Cardinality(Waiting') = Cardinality(Waiting) - 1
    BY <1>b, <2>3, FS_RemoveElement
  <2>5. Cardinality(LocalPlaces(sent')) = Cardinality(LocalPlaces(sent)) + 1
    BY <1>0, <2>1, <2>2, PlacesAppend
  <2>6. telemetry.published = Len(replay) + telemetry.evictions
          + Cardinality(LocalPlaces(sent')) + Cardinality(Waiting')
    <3>1. telemetry.published = Len(replay) + telemetry.evictions
            + Cardinality(LocalPlaces(sent)) + Cardinality(Waiting)
      BY <1>a DEF CountInv
    <3>2. /\ Cardinality(LocalPlaces(sent)) \in Nat /\ Cardinality(Waiting) \in Nat
          /\ Len(replay) + telemetry.evictions \in Int
      BY <1>0, <1>b, FS_CardinalityType DEF Telemetry
    <3>3. QED  BY <2>4, <2>5, <3>1, <3>2
  <2>7. QED  BY <2>1, <2>4, <2>6 DEF CountInv
<1>6. ASSUME NEW s \in Streams, Broadcast(s) PROVE CountInv'
  <2>1. /\ stream[s].stage = "broadcasting" /\ sent' = Append(sent, stream[s].outgoing)
        /\ UNCHANGED <<agentSession, replay, telemetry, localPending>>
    BY <1>6 DEF Broadcast, state
  <2>2. stream[s].outgoing \in Envelope /\ stream[s].outgoing.gen # Local
    BY <2>1 DEF SessionInv, Local
  <2>3. Cardinality(LocalPlaces(sent')) = Cardinality(LocalPlaces(sent))
    BY <1>0, <1>b, <2>1, <2>2, PlacesAppend
  <2>4. Waiting' = Waiting  BY <2>1 DEF Waiting
  <2>5. QED  BY <2>1, <2>3, <2>4 DEF CountInv
<1>7. CASE UNCHANGED <<agentSession, replay, telemetry, localPending, sent>>
  BY <1>7 DEF CountInv, Waiting, LocalPlaces
<1>8. ASSUME NEW s \in Streams,
             SendHelloAck(s) \/ SendConfiguration(s) \/ EndOfStream(s) \/ Refuse(s)
               \/ (\E cursor \in Cursors : Heartbeat(s, cursor)) \/ AgentStep(s)
      PROVE  CountInv'
  BY <1>7, <1>8 DEF SendHelloAck, SendConfiguration, EndOfStream, Refuse, Heartbeat,
     AgentStep, ReceiveCommand, FallSilent, Hangup, state
<1>9. ASSUME NEW c \in Subscribers, SubscriberStep(c) PROVE CountInv'
  BY <1>7, <1>9 DEF SubscriberStep, Subscribe, Poll, Unsubscribe, state
<1>10. ASSUME NEW list \in Watchlists, SetWatchlist(list) PROVE CountInv'
  BY <1>7, <1>10 DEF SetWatchlist
<1>11. CASE UNCHANGED vars  BY <1>7, <1>11 DEF vars, state
<1>12. QED
  BY <1>1, <1>2, <1>3, <1>4, <1>5, <1>6, <1>8, <1>9, <1>10, <1>11
     DEF Next, StreamStep, LocalStep, RefuseEvent, RefuseHeartbeat

-----------------------------------------------------------------------------
(* The owner of the agent session *)

\* Positions of a queue that hold a replacement an operator asked for.
Replacements(queue) == {i \in DOMAIN queue : queue[i].type = "configure"}

\* Replacements are queued in the order of their revisions, up to one.
InOrderUpTo(queue, revision) ==
  \A i \in Replacements(queue) :
    /\ queue[i].revision <= revision
    /\ \A j \in Replacements(queue) : j < i => queue[j].revision < queue[i].revision

\* While the handler holds the receiver the queue gets nothing but the hello's
\* Ack and replacements, which fill it if the set-up fails.
OwnerInv ==
  /\ SessionHeld
  /\ \A s \in Streams :
       /\ stream[s].stage \in {"greeting", "configuring", "failed"} =>
            InOrderUpTo(commands[s], desired.revision)
       /\ stream[s].stage = "greeting" => DOMAIN commands[s] = Replacements(commands[s])
       /\ stream[s].stage \in {"configuring", "failed"} =>
            \A i, j \in DOMAIN commands[s] \ Replacements(commands[s]) : i = j
       /\ stream[s].stage = "failed" => Len(commands[s]) >= CommandCapacity /\ client[s] = "gone"

LEMMA InitOwner == Init => OwnerInv
BY DEF Init, OwnerInv, SessionHeld

\* The step of one attached task that stays attached and needs no more of its
\* queue.
LEMMA OwnerOfTask ==
  ASSUME OwnerInv, NEW s \in Streams, desired' = desired, agentSession' = agentSession,
         \A t \in Streams \ {s} : stream'[t] = stream[t] /\ commands'[t] = commands[t] /\ client'[t] = client[t],
         stream'[s].stage \in {"serving", "broadcasting", "closing"}
  PROVE  OwnerInv'
<1>1. SessionHeld'  BY DEF SessionHeld, Attached
<1>2. QED  BY <1>1 DEF OwnerInv

\* A queue that gets one replacement more, of the next revision.
LEMMA ReplacementQueued ==
  ASSUME NEW queue \in Seq(Command), NEW revision \in Nat, NEW w \in Watchlist, w.revision = revision + 1
  PROVE  /\ Replacements(Append(queue, Configure(w))) = Replacements(queue) \cup {Len(queue) + 1}
         /\ DOMAIN Append(queue, Configure(w)) = DOMAIN queue \cup {Len(queue) + 1}
         /\ InOrderUpTo(queue, revision) => InOrderUpTo(Append(queue, Configure(w)), revision + 1)
<1> DEFINE more == Append(queue, Configure(w))
           n == Len(queue)
<1>1. /\ DOMAIN more = (1..n) \cup {n + 1} /\ DOMAIN queue = 1..n /\ n \in Nat
      /\ more[n + 1] = Configure(w) /\ \A i \in 1..n : more[i] = queue[i]
  BY AckCommands
<1>2. Configure(w).type = "configure" /\ Configure(w).revision = revision + 1  BY DEF Configure
<1>3. \A i \in Replacements(queue) : i \in 1..n /\ queue[i].revision \in Nat
  <2>1. \A i \in 1..n : queue[i] \in Command  BY ElementOfSeq
  <2>2. \A c \in Command : c.type = "configure" => c.revision \in Nat  BY DEF Command, Stop
  <2>3. QED  BY <1>1, <2>1, <2>2 DEF Replacements
<1> HIDE DEF more, n
<1>4. Replacements(more) = Replacements(queue) \cup {n + 1}  BY <1>1, <1>2 DEF Replacements
<1>5. ASSUME InOrderUpTo(queue, revision) PROVE InOrderUpTo(more, revision + 1)
  <2>1. SUFFICES ASSUME NEW i \in Replacements(more)
                 PROVE  /\ more[i].revision <= revision + 1
                        /\ \A j \in Replacements(more) : j < i => more[j].revision < more[i].revision
    BY DEF InOrderUpTo
  <2>2. \A j \in Replacements(queue) : more[j] = queue[j] /\ queue[j].revision <= revision
    BY <1>1, <1>3, <1>5 DEF InOrderUpTo
  <2>3. CASE i = n + 1
    <3>1. more[i].revision = revision + 1  BY <1>1, <1>2, <2>3
    <3>2. \A j \in Replacements(more) : j < i => j \in Replacements(queue)  BY <1>1, <1>4, <2>3
    <3>3. QED  BY <1>3, <2>2, <3>1, <3>2
  <2>4. CASE i \in Replacements(queue)
    <3>1. \A j \in Replacements(more) : j < i => j \in Replacements(queue)  BY <1>1, <1>3, <1>4, <2>4
    <3>2. \A j \in Replacements(queue) : j < i => queue[j].revision < queue[i].revision
      BY <1>5, <2>4 DEF InOrderUpTo
    <3>3. QED  BY <1>3, <2>2, <2>4, <3>1, <3>2
  <2>5. QED  BY <1>4, <2>3, <2>4
<1>6. QED  BY <1>1, <1>4, <1>5 DEF more, n

\* A queue that gets the hello's Ack.
LEMMA AckQueued ==
  ASSUME NEW queue \in Seq(Command), NEW n \in Nat, NEW revision
  PROVE  /\ Replacements(Append(queue, Ack(n))) = Replacements(queue)
         /\ DOMAIN Append(queue, Ack(n)) = DOMAIN queue \cup {Len(queue) + 1}
         /\ InOrderUpTo(queue, revision) => InOrderUpTo(Append(queue, Ack(n)), revision)
<1> DEFINE more == Append(queue, Ack(n))
<1>1. /\ DOMAIN more = (1..Len(queue)) \cup {Len(queue) + 1} /\ DOMAIN queue = 1..Len(queue)
      /\ Len(queue) \in Nat
      /\ more[Len(queue) + 1] = Ack(n) /\ \A i \in 1..Len(queue) : more[i] = queue[i]
  BY AckCommands
<1>2. Ack(n).type # "configure"  BY DEF Ack
<1> HIDE DEF more
<1>3. Replacements(more) = Replacements(queue)  BY <1>1, <1>2 DEF Replacements
<1>4. \A i \in Replacements(queue) : more[i] = queue[i]  BY <1>1 DEF Replacements
<1>5. InOrderUpTo(queue, revision) => InOrderUpTo(more, revision)  BY <1>3, <1>4 DEF InOrderUpTo
<1>6. QED  BY <1>1, <1>3, <1>5 DEF more

LEMMA NextOwner ==
  TypeOK /\ TypeOK' /\ SessionInv /\ AckInv /\ OwnerInv /\ [Next]_vars => OwnerInv'
<1> SUFFICES ASSUME TypeOK, TypeOK', SessionInv, AckInv, OwnerInv, [Next]_vars PROVE OwnerInv'
  OBVIOUS
<1>0. /\ stream \in [Streams -> StreamRecord] /\ stream' \in [Streams -> StreamRecord]
      /\ commands \in [Streams -> Seq(Command)] /\ desired \in Watchlist
      /\ client \in [Streams -> {"up", "silent", "gone"}]
      /\ CommandCapacity \in Nat /\ latest \in Nat /\ desired.revision \in Nat
  <2>1. desired \in Watchlist  BY DEF TypeOK
  <2>2. desired.revision \in Nat  BY <2>1 DEF Watchlist
  <2>3. QED  BY <2>1, <2>2, BoundsNatural, LimitsPositive DEF TypeOK
<1>a. \A t \in Streams : commands[t] \in Seq(Command) /\ Len(commands[t]) \in Nat  BY <1>0
<1>1. ASSUME NEW s \in Streams, NEW g \in Generations,
             NEW hello \in [revision : 0..MaxRevision, list : Watchlists],
             ConnectAgent(s, g, hello)
      PROVE  OwnerInv'
  <2>1. /\ agentSession = 0 /\ commands' = commands /\ stream[s].stage = "idle"
        /\ \A t \in Streams \ {s} : stream'[t] = stream[t]
        /\ stream'[s].stage = "greeting"
    BY <1>0, <1>1 DEF ConnectAgent, SessionFree, StreamRecord
  <2>2. \A t \in Streams : stream[t].stage \notin Attached \cup {"failed"}
    BY <2>1 DEF SessionInv, Attached
  <2>3. commands'[s] = <<>>  BY <2>1 DEF AckInv
  <2>4. \A t \in Streams \ {s} : stream'[t].stage \notin {"greeting", "configuring", "failed"}
    BY <2>1, <2>2 DEF Attached
  <2>5. DOMAIN commands'[s] = {} /\ Replacements(commands'[s]) = {}  BY <2>3 DEF Replacements
  <2>6. SessionHeld'  BY <2>1 DEF SessionHeld, Attached
  <2>7. QED  BY <2>1, <2>4, <2>5, <2>6 DEF OwnerInv, InOrderUpTo
<1>2. ASSUME NEW s \in Streams, SendHelloAck(s) PROVE OwnerInv'
  <2>1. /\ stream[s].stage = "greeting" /\ desired' = desired /\ agentSession' = agentSession
        /\ InOrderUpTo(commands[s], desired.revision)
        /\ DOMAIN commands[s] = Replacements(commands[s])
    BY <1>2 DEF SendHelloAck, OwnerInv, state
  <2>2. CASE Len(commands[s]) < CommandCapacity
    <3>1. /\ \A t \in Streams \ {s} : stream'[t] = stream[t] /\ commands'[t] = commands[t]
          /\ stream'[s].stage \in {"serving", "configuring"} /\ client' = client
          /\ commands'[s] = Append(commands[s], Ack(latest))
      BY <1>0, <1>2, <2>2 DEF SendHelloAck, state, StreamRecord
    <3>2. /\ InOrderUpTo(commands'[s], desired'.revision)
          /\ \A i, j \in DOMAIN commands'[s] \ Replacements(commands'[s]) : i = j
      BY <1>0, <1>a, <2>1, <3>1, AckQueued
    <3>3. SessionHeld'  BY <3>1 DEF SessionHeld, Attached
    <3>4. QED  BY <2>1, <3>1, <3>2, <3>3 DEF OwnerInv
  <2>3. CASE ~ (Len(commands[s]) < CommandCapacity)
    <3>1. /\ \A t \in Streams \ {s} : stream'[t] = stream[t] /\ client'[t] = client[t]
          /\ stream'[s].stage = "failed" /\ client'[s] = "gone" /\ commands' = commands
      BY <1>0, <1>2, <2>3 DEF SendHelloAck, StreamRecord
    <3>2. Len(commands[s]) >= CommandCapacity  BY <1>0, <1>a, <2>3
    <3>3. SessionHeld'  BY <3>1 DEF SessionHeld
    <3>4. QED  BY <2>1, <3>1, <3>2, <3>3 DEF OwnerInv
  <2>4. QED  BY <2>2, <2>3
<1>3. ASSUME NEW s \in Streams, SendConfiguration(s) PROVE OwnerInv'
  <2>1. /\ stream[s].stage = "configuring" /\ desired' = desired /\ agentSession' = agentSession
        /\ InOrderUpTo(commands[s], desired.revision)
        /\ \A i, j \in DOMAIN commands[s] \ Replacements(commands[s]) : i = j
    BY <1>3 DEF SendConfiguration, OwnerInv, state
  <2>2. CASE Len(commands[s]) < CommandCapacity
    <3>1. /\ \A t \in Streams \ {s} : stream'[t] = stream[t] /\ commands'[t] = commands[t] /\ client'[t] = client[t]
          /\ stream'[s].stage = "serving"
      BY <1>0, <1>3, <2>2 DEF SendConfiguration, state, StreamRecord
    <3>2. QED  BY <2>1, <3>1, OwnerOfTask
  <2>3. CASE ~ (Len(commands[s]) < CommandCapacity)
    <3>1. /\ \A t \in Streams \ {s} : stream'[t] = stream[t] /\ client'[t] = client[t]
          /\ stream'[s].stage = "failed" /\ client'[s] = "gone" /\ commands' = commands
      BY <1>0, <1>3, <2>3 DEF SendConfiguration, StreamRecord
    <3>2. Len(commands[s]) >= CommandCapacity  BY <1>0, <1>a, <2>3
    <3>3. SessionHeld'  BY <3>1 DEF SessionHeld
    <3>4. QED  BY <2>1, <3>1, <3>2, <3>3 DEF OwnerInv
  <2>4. QED  BY <2>2, <2>3
<1>4. ASSUME NEW s \in Streams, NEW event \in AgentEvents, Publish(s, event) PROVE OwnerInv'
  <2>1. /\ stream'[s].stage = "broadcasting" /\ UNCHANGED <<desired, agentSession, commands, client>>
        /\ \A t \in Streams \ {s} : stream'[t] = stream[t]
    BY <1>0, <1>4 DEF Publish, StreamRecord
  <2>2. QED  BY <2>1, OwnerOfTask
<1>5. ASSUME NEW s \in Streams,
             Broadcast(s) \/ Refuse(s) \/ EndOfStream(s) \/ (\E cursor \in Cursors : Heartbeat(s, cursor))
      PROVE  OwnerInv'
  <2>1. /\ stream'[s].stage \in {"serving", "closing"} /\ UNCHANGED <<desired, agentSession, client>>
        /\ \A t \in Streams \ {s} : stream'[t] = stream[t] /\ commands'[t] = commands[t]
    BY <1>0, <1>5 DEF Broadcast, Refuse, EndOfStream, Heartbeat, state, StreamRecord
  <2>2. QED  BY <2>1, OwnerOfTask
<1>6. ASSUME NEW s \in Streams, DisconnectAgent(s) PROVE OwnerInv'
  <2>1. /\ stream[s].stage = "closing" /\ stream'[s].stage = "closed"
        /\ \A t \in Streams \ {s} : stream'[t] = stream[t] /\ commands'[t] = commands[t] /\ client'[t] = client[t]
        /\ desired' = desired
    BY <1>0, <1>6 DEF DisconnectAgent, StreamRecord
  <2>2. agentSession = stream[s].session  BY <2>1 DEF SessionInv, Attached
  <2>3. agentSession' = 0  BY <1>6, <2>2 DEF DisconnectAgent
  <2>4. QED  BY <2>1, <2>3 DEF OwnerInv, SessionHeld
<1>7. ASSUME NEW list \in Watchlists, SetWatchlist(list) PROVE OwnerInv'
  <2> DEFINE replacement == [revision |-> desired.revision + 1, list |-> list]
  <2>1. PICK s \in Streams :
          /\ client[s] # "gone"
          /\ commands' = [commands EXCEPT ![s] = Append(@, Configure(replacement))]
          /\ stream' = [stream EXCEPT ![s].told = @ \cup {replacement}]
          /\ desired' = replacement
    BY <1>7 DEF SetWatchlist, CanSend
  <2>2. /\ agentSession' = agentSession /\ client' = client
        /\ replacement \in Watchlist /\ replacement.revision = desired.revision + 1
        /\ desired'.revision = desired.revision + 1
    BY <1>0, <1>7, <2>1 DEF SetWatchlist, Watchlist
  <2>3. /\ \A t \in Streams : stream'[t].stage = stream[t].stage
        /\ \A t \in Streams \ {s} : commands'[t] = commands[t]
        /\ commands'[s] = Append(commands[s], Configure(replacement))
    BY <1>0, <2>1 DEF StreamRecord
  <2> HIDE DEF replacement
  <2>4. SessionHeld'  BY <2>2, <2>3 DEF OwnerInv, SessionHeld
  <2>5. stream[s].stage # "failed"  BY <2>1 DEF OwnerInv
  <2>6. ASSUME NEW t \in Streams, t # s, InOrderUpTo(commands[t], desired.revision)
        PROVE  InOrderUpTo(commands'[t], desired'.revision)
    <3>1. \A i \in Replacements(commands[t]) :
            commands[t][i].revision \in Nat /\ commands[t][i].revision <= desired.revision
      <4>1. \A i \in DOMAIN commands[t] : commands[t][i] \in Command  BY <1>a, ElementOfSeq
      <4>2. \A c \in Command : c.type = "configure" => c.revision \in Nat  BY DEF Command, Stop
      <4>3. QED  BY <2>6, <4>1, <4>2 DEF InOrderUpTo, Replacements
    <3>2. \A i \in Replacements(commands[t]) : commands[t][i].revision <= desired'.revision
      BY <1>0, <2>2, <3>1
    <3>3. commands'[t] = commands[t]  BY <2>3, <2>6
    <3>4. QED  BY <2>6, <3>2, <3>3 DEF InOrderUpTo
  <2>7. /\ Replacements(commands'[s]) = Replacements(commands[s]) \cup {Len(commands[s]) + 1}
        /\ DOMAIN commands'[s] = DOMAIN commands[s] \cup {Len(commands[s]) + 1}
        /\ InOrderUpTo(commands[s], desired.revision) => InOrderUpTo(commands'[s], desired'.revision)
    BY <1>0, <1>a, <2>2, <2>3, ReplacementQueued
  <2>8. ASSUME NEW t \in Streams
        PROVE  /\ stream'[t].stage \in {"greeting", "configuring", "failed"} =>
                    InOrderUpTo(commands'[t], desired'.revision)
               /\ stream'[t].stage = "greeting" => DOMAIN commands'[t] = Replacements(commands'[t])
               /\ stream'[t].stage \in {"configuring", "failed"} =>
                    \A i, j \in DOMAIN commands'[t] \ Replacements(commands'[t]) : i = j
               /\ stream'[t].stage = "failed" => Len(commands'[t]) >= CommandCapacity /\ client'[t] = "gone"
    <3>1. CASE t = s  BY <2>3, <2>5, <2>7, <3>1 DEF OwnerInv
    <3>2. CASE t # s  BY <2>2, <2>3, <2>6, <3>2 DEF OwnerInv
    <3>3. QED  BY <3>1, <3>2
  <2>9. QED  BY <2>4, <2>8 DEF OwnerInv
<1>8. ASSUME NEW s \in Streams, AgentStep(s) PROVE OwnerInv'
  <2>1. /\ UNCHANGED <<desired, agentSession, stream>>
        /\ \A t \in Streams : commands'[t] = commands[t] \/ stream[t].stage \in Answered
        /\ \A t \in Streams : client'[t] = client[t] \/ stream[t].stage # "failed"
    BY <1>0, <1>8 DEF AgentStep, ReceiveCommand, FallSilent, Hangup, state, Attached, Answered
  <2>2. QED  BY <2>1 DEF OwnerInv, SessionHeld, Answered
<1>9. CASE UNCHANGED <<desired, agentSession, stream, commands, client>>
  BY <1>9 DEF OwnerInv, SessionHeld
<1>10. ASSUME NEW c \in Subscribers, SubscriberStep(c) PROVE OwnerInv'
  BY <1>9, <1>10 DEF SubscriberStep, Subscribe, Poll, Unsubscribe, state
<1>11. ASSUME NEW p \in Publishers, LocalStep(p) PROVE OwnerInv'
  BY <1>9, <1>11 DEF LocalStep, RecordLocal, BroadcastLocal, state
<1>12. CASE UNCHANGED vars  BY <1>9, <1>12 DEF vars, state
<1>13. QED
  BY <1>1, <1>2, <1>3, <1>4, <1>5, <1>6, <1>7, <1>8, <1>10, <1>11, <1>12
     DEF Next, StreamStep, RefuseEvent, RefuseHeartbeat

-----------------------------------------------------------------------------
(* The theorems *)

ReadersIInv == LaneIInv /\ ReaderInv /\ ToldInv /\ AckInv /\ OwnerInv /\ CountInv

\* What subscribers hold, what agents were told and acknowledged, who owns the
\* session and what was counted: one invariant, for every number of them and
\* every limit.
THEOREM ReadersInvariance == Spec => []ReadersIInv
<1>1. Init => ReadersIInv
  BY InitType, InitSession, InitLane, InitReader, InitTold, InitAck, InitOwner, InitCount
     DEF ReadersIInv, LaneIInv, IInv
<1>2. ReadersIInv /\ [Next]_vars => ReadersIInv'
  <2> SUFFICES ASSUME ReadersIInv, [Next]_vars PROVE ReadersIInv'  OBVIOUS
  <2>1. /\ TypeOK /\ SessionInv /\ ReplayWindow /\ LaneInv /\ LocalInv
        /\ ReaderInv /\ ToldInv /\ AckInv /\ OwnerInv /\ CountInv
    BY DEF ReadersIInv, LaneIInv, IInv
  <2>2. LaneIInv' /\ TypeOK' /\ SessionInv'  BY NextLaneIInv DEF ReadersIInv, LaneIInv, IInv
  <2>3. PendingIsLocal /\ SessionHeld  BY <2>1 DEF LocalInv, PendingIsLocal, OwnerInv
  <2>4. LaneStep  BY <2>1, <2>2, <2>3, LaneSteps
  <2>5. ReaderInv'  BY <2>1, <2>2, <2>4, NextReader
  <2>6. ToldInv'  BY <2>1, <2>2, NextTold
  <2>7. AckInv'  BY <2>1, <2>2, <2>3, <2>4, NextAck
  <2>8. OwnerInv'  BY <2>1, <2>2, NextOwner
  <2>9. CountInv'  BY <2>1, NextCount
  <2>10. QED  BY <2>2, <2>5, <2>6, <2>7, <2>8, <2>9 DEF ReadersIInv
<1>3. QED  BY <1>1, <1>2, PTL DEF Spec

\* A subscriber never misses an event of the agent lane without its stream
\* ending or its generation being taken over: not at the cursor it resumes
\* from, and not between two events.
THEOREM GapCorrect == Spec => []NoSilentGap
<1>1. ReadersIInv => NoSilentGap
  BY ReaderNoGap DEF ReadersIInv, LaneIInv, IInv, LaneInv
<1>2. QED  BY <1>1, ReadersInvariance, PTL

\* A watchlist the connected agent does not apply is one it was sent or is
\* about to be sent.
THEOREM ToldCorrect == Spec => []DesiredIsTold
<1>1. ReadersIInv => DesiredIsTold  BY DEF ReadersIInv, ToldInv
<1>2. QED  BY <1>1, ReadersInvariance, PTL

\* Subscribers can see what an agent has been acknowledged, since the hub took
\* up its generation.
THEOREM AckCorrect == Spec => []AckedWasBroadcast
<1>1. ReadersIInv => AckedWasBroadcast  BY DEF ReadersIInv, AckInv
<1>2. QED  BY <1>1, ReadersInvariance, PTL

\* The counters of the listener status agree with the state.
THEOREM StatusCorrect == Spec => []TelemetryBalances
<1>1. ReadersIInv => TelemetryBalances
  BY DEF ReadersIInv, CountInv, TelemetryBalances, Waiting, LocalPlaces
<1>2. QED  BY <1>1, ReadersInvariance, PTL

\* A set-up that failed found its queue full, with as many different
\* replacements of the watchlist in it as it holds, but for the hello's Ack.
SetupCrowdedOut ==
  \E s \in Streams :
    /\ stream[s].stage = "failed" /\ stream[s].session = agentSession
    /\ Len(commands[s]) >= CommandCapacity
    /\ \A i, j \in DOMAIN commands[s] \ Replacements(commands[s]) : i = j
    /\ \A i, j \in Replacements(commands[s]) :
         j < i => commands[s][j].revision < commands[s][i].revision

\* The agent session belongs to a task that will give it back, in every server:
\* the one way to lose the owner is that operators replace the watchlist, within
\* one set-up, so often that the agent's command queue is full of replacements
\* but for one entry (open_stream returns without a disconnect, events.rs:966 and
\* events.rs:972).
THEOREM OwnerCorrect == Spec => [](SessionHasOwner \/ SetupCrowdedOut)
<1>1. ReadersIInv => SessionHasOwner \/ SetupCrowdedOut
  <2> SUFFICES ASSUME ReadersIInv, agentSession # 0, ~ SetupCrowdedOut
               PROVE  \E s \in Streams : stream[s].session = agentSession /\ stream[s].stage \in Attached
    BY DEF SessionHasOwner
  <2>1. PICK s \in Streams : stream[s].stage \in Attached \cup {"failed"}
    BY DEF ReadersIInv, OwnerInv, SessionHeld
  <2>2. stream[s].session = agentSession
    BY <2>1 DEF ReadersIInv, LaneIInv, IInv, SessionInv
  <2>3. stream[s].stage # "failed"
    BY <2>2 DEF SetupCrowdedOut, ReadersIInv, OwnerInv, InOrderUpTo
  <2>4. QED  BY <2>1, <2>2, <2>3
<1>2. QED  BY <1>1, ReadersInvariance, PTL
=============================================================================
