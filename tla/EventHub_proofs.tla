--------------------------- MODULE EventHub_proofs ---------------------------
(***************************************************************************)
(* Proofs about EventHub, for every number of streams, publishers and      *)
(* subscribers and every limit.                                            *)
(***************************************************************************)
EXTENDS EventHub, TLAPS, FiniteSetTheorems, SequenceTheorems, WellFoundedInduction

-----------------------------------------------------------------------------
(* Arithmetic and sequences *)

\* A non-empty set of bounded naturals has a least element: where the eviction
\* loop stops.
LEMMA LeastNatural ==
  ASSUME NEW n \in Nat, NEW T \in SUBSET (0..n), T # {}
  PROVE  \E m \in T : \A k \in T : m <= k
<1> DEFINE S == 0..n
           F == {0..k : k \in T}
<1>1. IsFiniteSet(S)  BY FS_Interval
<1>2. IsWellFoundedOn(StrictSubsetOrdering(S), FiniteSubsetsOf(S))
  BY <1>1, FS_StrictSubsetOrderingWellFounded
<1>3. F \subseteq FiniteSubsetsOf(S)
  BY <1>1, FS_FiniteSubsetsOfFinite
<1>4. F # {}  OBVIOUS
<1>5. PICK x \in F : \A y \in F : ~ (<<y, x>> \in StrictSubsetOrdering(S))
  <2> HIDE DEF F
  <2> QED BY <1>2, <1>3, <1>4, WFMin
<1>6. PICK m \in T : x = 0..m  OBVIOUS
<1>7. ASSUME NEW k \in T, k < m PROVE FALSE
  <2>1. /\ (0..k) \in F /\ (0..k) \subseteq (0..m)
        /\ m \notin 0..k /\ m \in 0..m
    BY <1>7
  <2>2. <<0..k, 0..m>> \in StrictSubsetOrdering(S)
    BY <2>1 DEF StrictSubsetOrdering
  <2>3. QED BY <1>5, <1>6, <2>1, <2>2
<1>8. QED BY <1>7

LEMMA OneTo ==
  ASSUME NEW n \in Nat
  PROVE  IsFiniteSet(1..n) /\ Cardinality(1..n) = n
<1>1. 1 \in Int /\ n \in Int  OBVIOUS
<1>2. IsFiniteSet(1..n) /\ Cardinality(1..n) = IF 1 > n THEN 0 ELSE n - 1 + 1
  BY <1>1, FS_Interval
<1>3. (IF 1 > n THEN 0 ELSE n - 1 + 1) = n  OBVIOUS
<1>4. QED BY <1>2, <1>3

LEMMA DisjointUnion ==
  ASSUME NEW S, NEW T, IsFiniteSet(S), IsFiniteSet(T), S \cap T = {}
  PROVE  Cardinality(S \cup T) = Cardinality(S) + Cardinality(T)
<1>1. Cardinality(S) \in Nat /\ Cardinality(T) \in Nat  BY FS_CardinalityType
<1>2. Cardinality(S \cap T) = 0  BY FS_EmptySet
<1>3. Cardinality(S \cup T) = Cardinality(S) + Cardinality(T) - Cardinality(S \cap T)
  BY FS_Union
<1>4. QED BY <1>1, <1>2, <1>3

LEMMA SizeIsNat == \A e \in Envelope : e.size \in Nat /\ e.seq \in Nat
BY SizesPositive DEF Envelope

\* The bytes of a log are a natural number.
LEMMA BytesFinite ==
  ASSUME NEW log \in Seq(Envelope)
  PROVE  IsFiniteSet(Cells(log)) /\ Bytes(log) \in Nat
<1> DEFINE cell(i) == {log[i].seq} \X (1..log[i].size)
           T == {cell(i) : i \in DOMAIN log}
<1>1. DOMAIN log = 1..Len(log) /\ Len(log) \in Nat  OBVIOUS
<1>2. IsFiniteSet(T)
  <2>1. [i \in 1..Len(log) |-> cell(i)] \in Surjection(1..Len(log), T)
    BY <1>1 DEF Surjection
  <2>2. QED BY <1>1, <2>1, FS_Surjection, FS_Interval
<1>3. ASSUME NEW c \in T PROVE IsFiniteSet(c)
  <2>1. PICK i \in DOMAIN log : c = cell(i)  OBVIOUS
  <2>2. log[i] \in Envelope  BY <1>1, ElementOfSeq
  <2>3. log[i].size \in Nat  BY <2>2, SizeIsNat
  <2>4. IsFiniteSet({log[i].seq})  BY FS_Singleton
  <2>5. IsFiniteSet(1..log[i].size)  BY <2>3, OneTo
  <2>6. QED BY <2>1, <2>4, <2>5, FS_Product
<1>4. IsFiniteSet(UNION T)  BY <1>2, <1>3, FS_UNION
<1>5. QED BY <1>4, FS_CardinalityType DEF Cells, Bytes

\* Cutting a log whose sequence numbers differ cuts its bytes in two parts.
LEMMA BytesSplit ==
  ASSUME NEW log \in Seq(Envelope), NEW k \in 0..Len(log),
         \A i, j \in DOMAIN log : i # j => log[i].seq # log[j].seq
  PROVE  Bytes(log) = Bytes(SubSeq(log, 1, k)) + Bytes(SubSeq(log, k + 1, Len(log)))
<1> DEFINE a == SubSeq(log, 1, k)
           b == SubSeq(log, k + 1, Len(log))
<1>1. /\ a \in Seq(Envelope) /\ Len(a) = k
      /\ \A i \in 1..k : a[i] = log[i]
  OBVIOUS
<1>2. /\ b \in Seq(Envelope) /\ Len(b) = Len(log) - k
      /\ \A i \in 1..(Len(log) - k) : b[i] = log[i + k]
  OBVIOUS
<1>3. Cells(log) = Cells(a) \cup Cells(b)
  <2> HIDE DEF a, b
  <2>1. ASSUME NEW c \in Cells(log) PROVE c \in Cells(a) \cup Cells(b)
    <3>1. PICK i \in 1..Len(log) : c \in {log[i].seq} \X (1..log[i].size)
      BY DEF Cells
    <3>2. CASE i <= k  BY <1>1, <3>1, <3>2 DEF Cells
    <3>3. CASE i > k
      <4>1. i - k \in 1..(Len(log) - k) /\ (i - k) + k = i  BY <3>3
      <4>2. b[i - k] = log[i]  BY <1>2, <4>1
      <4>3. QED BY <1>2, <3>1, <4>1, <4>2 DEF Cells
    <3>4. QED BY <3>2, <3>3
  <2>2. Cells(a) \subseteq Cells(log)  BY <1>1 DEF Cells
  <2>3. Cells(b) \subseteq Cells(log)
    <3>1. ASSUME NEW c \in Cells(b) PROVE c \in Cells(log)
      <4>1. PICK i \in 1..Len(b) : c \in {b[i].seq} \X (1..b[i].size)
        BY <1>2 DEF Cells
      <4>2. i + k \in 1..Len(log) /\ b[i] = log[i + k]  BY <1>2
      <4>3. QED BY <4>1, <4>2 DEF Cells
    <3>2. QED BY <3>1
  <2>4. QED BY <2>1, <2>2, <2>3
<1>4. Cells(a) \cap Cells(b) = {}
  <2> SUFFICES ASSUME NEW c \in Cells(a), c \in Cells(b) PROVE FALSE
    OBVIOUS
  <2> HIDE DEF a, b
  <2>1. PICK i \in 1..Len(a) : c \in {a[i].seq} \X (1..a[i].size)  BY <1>1 DEF Cells
  <2>2. PICK j \in 1..Len(b) : c \in {b[j].seq} \X (1..b[j].size)  BY <1>2 DEF Cells
  <2>3. a[i].seq = b[j].seq  BY <2>1, <2>2
  <2>4. log[i].seq = log[j + k].seq  BY <1>1, <1>2, <2>3
  <2>5. i # j + k /\ i \in DOMAIN log /\ j + k \in DOMAIN log  BY <1>1, <1>2
  <2>6. QED BY <2>4, <2>5
<1>5. IsFiniteSet(Cells(a)) /\ IsFiniteSet(Cells(b))
  BY <1>1, <1>2, BytesFinite
<1>6. Cardinality(Cells(log)) = Cardinality(Cells(a)) + Cardinality(Cells(b))
  BY <1>3, <1>4, <1>5, DisjointUnion
<1>7. QED BY <1>6 DEF Bytes

LEMMA BytesEmpty == Bytes(<<>>) = 0
<1>1. Cells(<<>>) = {}  BY DEF Cells
<1>2. QED BY <1>1, FS_EmptySet DEF Bytes

\* A log of one envelope holds that envelope's bytes.
LEMMA BytesOne ==
  ASSUME NEW log \in Seq(Envelope), Len(log) = 1
  PROVE  Bytes(log) = log[1].size
<1>1. DOMAIN log = {1} /\ log[1] \in Envelope
  OBVIOUS
<1>2. log[1].size \in Nat
  BY <1>1, SizeIsNat
<1>3. Cells(log) = {log[1].seq} \X (1..log[1].size)
  BY <1>1 DEF Cells
<1>4. IsFiniteSet({log[1].seq}) /\ Cardinality({log[1].seq}) = 1
  BY FS_Singleton
<1>5. IsFiniteSet(1..log[1].size) /\ Cardinality(1..log[1].size) = log[1].size
  BY <1>2, OneTo
<1>6. Cardinality({log[1].seq} \X (1..log[1].size)) = 1 * log[1].size
  <2> DEFINE A == {log[1].seq}
             B == 1..log[1].size
  <2>1. Cardinality(A \X B) = Cardinality(A) * Cardinality(B)
    <3> HIDE DEF A, B
    <3> SUFFICES ASSUME IsFiniteSet(A), IsFiniteSet(B)
                 PROVE  Cardinality(A \X B) = Cardinality(A) * Cardinality(B)
      BY <1>4, <1>5 DEF A, B
    <3> QED BY FS_Product
  <2>2. Cardinality(A) = 1 /\ Cardinality(B) = log[1].size
    BY <1>4, <1>5
  <2> HIDE DEF A, B
  <2>3. Cardinality(A \X B) = 1 * log[1].size
    BY <2>1, <2>2, Zenon
  <2> QED BY <2>3 DEF A, B
<1>7. QED BY <1>2, <1>3, <1>6 DEF Bytes

\* The eviction loop stops before the newest envelope, with both bounds met.
LEMMA EvictedFits ==
  ASSUME NEW log \in Seq(Envelope), Len(log) > 0,
         \A i, j \in DOMAIN log : i # j => log[i].seq # log[j].seq,
         log[Len(log)].size <= MaxReplayBytes
  PROVE  /\ Evicted(log, Bytes(log)) \in 0..(Len(log) - 1)
         /\ Fits(log, Bytes(log), Evicted(log, Bytes(log)))
<1> DEFINE n == Len(log)
           bytes == Bytes(log)
           T == {k \in 0..n : Fits(log, bytes, k)}
<1>1. n - 1 \in T
  <2> DEFINE last == SubSeq(log, n, n)
             front == SubSeq(log, 1, n - 1)
  <2>1. /\ last \in Seq(Envelope) /\ Len(last) = 1 /\ last[1] = log[n]
        /\ front \in Seq(Envelope)
    OBVIOUS
  <2>2. n - 1 \in 0..n /\ (n - 1) + 1 = n  OBVIOUS
  <2>3. bytes = Bytes(front) + Bytes(last)  BY <2>2, BytesSplit
  <2>4. Bytes(front) \in Nat /\ Bytes(last) = log[n].size
    <3> HIDE DEF last, front
    <3> QED BY <2>1, BytesFinite, BytesOne
  <2>5. log[n].size \in Nat  BY ElementOfSeq, SizeIsNat
  <2>6. bytes - Bytes(front) <= MaxReplayBytes
    <3> HIDE DEF last, front, bytes
    <3> QED BY <2>3, <2>4, <2>5
  <2>7. n - (n - 1) <= MaxReplayEvents  BY LimitsPositive
  <2>8. QED BY <2>2, <2>6, <2>7 DEF Fits
<1>2. PICK m \in T : \A k \in T : m <= k
  <2>1. n \in Nat /\ T \in SUBSET (0..n) /\ T # {}  BY <1>1
  <2> HIDE DEF T
  <2> QED BY <2>1, LeastNatural
<1>3. /\ m \in 0..n /\ Fits(log, bytes, m)
      /\ \A j \in 0..(m - 1) : ~ Fits(log, bytes, j)
  BY <1>2
<1>4. /\ Evicted(log, bytes) \in 0..n
      /\ Fits(log, bytes, Evicted(log, bytes))
      /\ \A j \in 0..(Evicted(log, bytes) - 1) : ~ Fits(log, bytes, j)
  <2> HIDE DEF bytes
  <2> QED BY <1>3 DEF Evicted
<1>5. Evicted(log, bytes) <= n - 1
  <2> SUFFICES ASSUME Evicted(log, bytes) = n PROVE FALSE  BY <1>4
  <2> QED BY <1>1, <1>4
<1>6. QED BY <1>4, <1>5

-----------------------------------------------------------------------------
(* Updates that keep the types *)

LEMMA AppendAt ==
  ASSUME NEW S, NEW T, NEW f \in [S -> Seq(T)], NEW s \in S, NEW x \in T
  PROVE  [f EXCEPT ![s] = Append(@, x)] \in [S -> Seq(T)]
OBVIOUS

\* The updates of a stream record: its stage, alone or with other fields.
LEMMA StageUpdate ==
  ASSUME stream \in [Streams -> StreamRecord], NEW s \in Streams, NEW x \in Stages
  PROVE  /\ [stream EXCEPT ![s].stage = x] \in [Streams -> StreamRecord]
         /\ \A e \in Envelope \cup {NoEvent} :
              [stream EXCEPT ![s].stage = x, ![s].outgoing = e] \in [Streams -> StreamRecord]
BY DEF StreamRecord

LEMMA SessionUpdate ==
  ASSUME stream \in [Streams -> StreamRecord], NEW s \in Streams, NEW x \in Stages,
         NEW k \in Nat, NEW g \in Nat, NEW w \in Watchlist
  PROVE  [stream EXCEPT ![s].stage = x, ![s].session = k, ![s].gen = g, ![s].config = w]
           \in [Streams -> StreamRecord]
<1>1. [stream[s] EXCEPT !.stage = x, !.session = k, !.gen = g, !.config = w] \in StreamRecord
  BY DEF StreamRecord
<1>2. [stream EXCEPT ![s].stage = x, ![s].session = k, ![s].gen = g, ![s].config = w] =
        [stream EXCEPT ![s] =
           [stream[s] EXCEPT !.stage = x, !.session = k, !.gen = g, !.config = w]]
  OBVIOUS
<1>3. \A r \in StreamRecord : [stream EXCEPT ![s] = r] \in [Streams -> StreamRecord]
  OBVIOUS
<1> QED BY <1>1, <1>2, <1>3, Zenon

LEMMA ConfigUpdate ==
  ASSUME stream \in [Streams -> StreamRecord], NEW s \in Streams, NEW x \in Stages,
         NEW w \in Watchlist, NEW told \in SUBSET Watchlist
  PROVE  /\ [stream EXCEPT ![s].stage = x, ![s].config = w, ![s].told = told]
              \in [Streams -> StreamRecord]
         /\ [stream EXCEPT ![s].stage = x, ![s].told = told, ![s].config = w]
              \in [Streams -> StreamRecord]
<1>1. \A r \in StreamRecord : [stream EXCEPT ![s] = r] \in [Streams -> StreamRecord]
  OBVIOUS
<1>2. /\ [stream[s] EXCEPT !.stage = x, !.config = w, !.told = told] \in StreamRecord
      /\ [stream[s] EXCEPT !.stage = x, !.told = told, !.config = w] \in StreamRecord
  BY DEF StreamRecord
<1>3. [stream EXCEPT ![s].stage = x, ![s].config = w, ![s].told = told] =
        [stream EXCEPT ![s] = [stream[s] EXCEPT !.stage = x, !.config = w, !.told = told]]
  OBVIOUS
<1>4. [stream EXCEPT ![s].stage = x, ![s].told = told, ![s].config = w] =
        [stream EXCEPT ![s] = [stream[s] EXCEPT !.stage = x, !.told = told, !.config = w]]
  OBVIOUS
<1> QED BY <1>1, <1>2, <1>3, <1>4, Zenon

LEMMA CounterUpdate ==
  ASSUME telemetry \in Telemetry, NEW k \in Nat
  PROVE  /\ [telemetry EXCEPT !.connections = @ + 1, !.evictions = @ + k] \in Telemetry
         /\ [telemetry EXCEPT !.published = @ + 1, !.evictions = @ + k] \in Telemetry
         /\ [telemetry EXCEPT !.published = @ + 1] \in Telemetry
         /\ [telemetry EXCEPT !.disconnects = @ + 1] \in Telemetry
<1> DEFINE connections == telemetry.connections + 1
           published == telemetry.published + 1
           evictions == telemetry.evictions + k
<1>1. connections \in Nat /\ published \in Nat /\ evictions \in Nat  BY DEF Telemetry
<1>2. \A m, n \in Nat :
        /\ [telemetry EXCEPT !.connections = m, !.evictions = n] \in Telemetry
        /\ [telemetry EXCEPT !.published = m, !.evictions = n] \in Telemetry
  BY DEF Telemetry
<1>3. [telemetry EXCEPT !.published = @ + 1] \in Telemetry  BY DEF Telemetry
<1>4. [telemetry EXCEPT !.disconnects = @ + 1] \in Telemetry  BY DEF Telemetry
<1>5. QED  BY <1>1, <1>2, <1>3, <1>4

\* The updates of a receiver that was polled.
LEMMA PollUpdate ==
  ASSUME subscriber \in [Subscribers -> SubscriberRecord], NEW c \in Subscribers,
         NEW x \in Cursor
  PROVE  /\ [subscriber EXCEPT ![c].stage = "terminated"] \in [Subscribers -> SubscriberRecord]
         /\ [subscriber EXCEPT ![c].next = @ + 1, ![c].delivered = Append(@, x)]
              \in [Subscribers -> SubscriberRecord]
<1>1. [subscriber EXCEPT ![c].stage = "terminated"] \in [Subscribers -> SubscriberRecord]
  BY DEF SubscriberRecord
<1>2. /\ subscriber[c].next + 1 \in Nat \ {0}
      /\ Append(subscriber[c].delivered, x) \in Seq(Cursor)
  BY DEF SubscriberRecord
<1>3. \A n \in Nat \ {0}, d \in Seq(Cursor) :
        [subscriber EXCEPT ![c].next = n, ![c].delivered = d] \in [Subscribers -> SubscriberRecord]
  BY DEF SubscriberRecord
<1>4. QED  BY <1>1, <1>2, <1>3

-----------------------------------------------------------------------------
(* Types and the replay window *)

LEMMA InitType == Init => TypeOK /\ ReplayWindow
<1> SUFFICES ASSUME Init PROVE TypeOK /\ ReplayWindow  OBVIOUS
<1>1. TypeOK
  BY BoundsNatural DEF Init, TypeOK, Telemetry, StreamRecord, SubscriberRecord, Watchlist,
     NoConfiguration, Stages, NoEvent, NoCursor, Cursor
<1>2. Bytes(<<>>) = 0  BY BytesEmpty
<1>3. ReplayWindow
  BY <1>2, LimitsPositive DEF Init, ReplayWindow
<1>4. QED BY <1>1, <1>3

\* The log publish works on before it evicts: the window and the new event.
LEMMA PublishWindow ==
  ASSUME TypeOK, ReplayWindow, NEW s \in Streams, NEW event \in AgentEvents, Publish(s, event)
  PROVE  /\ ReplayWindow'
         /\ replay' \in Seq(Envelope) /\ replayBytes' \in Nat
         /\ Evicted(Append(replay, event), BytesWith(event)) \in Nat
         /\ Len(replay') = Len(replay) + 1 - Evicted(Append(replay, event), BytesWith(event))
<1> DEFINE log == Append(replay, event)
           n == Len(log)
           dropped == Evicted(log, BytesWith(event))
<1>1. /\ event \in Envelope /\ event.gen = generation /\ event.seq = latest + 1
      /\ event.size <= MaxReplayBytes /\ event.size \in Nat
  BY SizesPositive, BoundsNatural
     DEF Publish, Publishable, AgentEvents, Envelope, Generations
<1>2. /\ latest \in Nat /\ replay \in Seq(Envelope) /\ Len(replay) \in Nat
      /\ replayBytes = Bytes(replay) /\ latest' = event.seq
      /\ replay' = SubSeq(log, dropped + 1, n)
      /\ replayBytes' = BytesWith(event) - Bytes(SubSeq(log, 1, dropped))
      /\ generation' = generation
  BY BoundsNatural DEF TypeOK, ReplayWindow, Publish
<1>3. /\ log \in Seq(Envelope) /\ n = Len(replay) + 1 /\ n \in Nat /\ log[n] = event
      /\ \A i \in 1..Len(replay) : log[i] = replay[i]
  BY <1>1, <1>2
<1>4. \A i \in DOMAIN log : log[i].gen = generation /\ log[i].seq = latest + 1 - n + i
  <2>1. DOMAIN log = 1..n  BY <1>3
  <2>2. \A i \in 1..Len(replay) : replay[i].gen = generation /\ replay[i].seq = latest - Len(replay) + i
    BY <1>2 DEF ReplayWindow
  <2> HIDE DEF log, n
  <2>3. QED BY <1>1, <1>2, <1>3, <2>1, <2>2
<1>5. \A i, j \in DOMAIN log : i # j => log[i].seq # log[j].seq
  <2>1. DOMAIN log = 1..n  BY <1>3
  <2> HIDE DEF log, n
  <2>2. QED BY <1>2, <1>3, <1>4, <2>1
<1>6. BytesWith(event) = Bytes(log)
  <2> DEFINE front == SubSeq(log, 1, Len(replay))
             last == SubSeq(log, Len(replay) + 1, n)
  <2>1. Len(replay) \in 0..Len(log) /\ Len(log) = n  BY <1>2, <1>3
  <2>2. Bytes(log) = Bytes(front) + Bytes(last)
    <3> HIDE DEF log
    <3> QED BY <1>3, <1>5, <2>1, BytesSplit
  <2>3. front = replay
    <3> HIDE DEF log
    <3>1. /\ front \in Seq(Envelope) /\ Len(front) = Len(replay)
          /\ \A i \in 1..Len(replay) : front[i] = log[i]
      BY <1>2, <1>3, <2>1
    <3> HIDE DEF front
    <3>2. QED BY <1>2, <1>3, <3>1, SeqEqual
  <2>4. last \in Seq(Envelope) /\ Len(last) = 1 /\ last[1] = event
    <3> HIDE DEF log
    <3> QED BY <1>2, <1>3, <2>1
  <2>5. Bytes(last) = event.size
    <3> HIDE DEF last
    <3> QED BY <2>4, BytesOne
  <2> HIDE DEF front, last, log
  <2>6. QED BY <1>2, <2>2, <2>3, <2>5 DEF BytesWith
<1>7. dropped \in 0..(n - 1) /\ Fits(log, Bytes(log), dropped)
  <2>1. n > 0 /\ log[Len(log)].size <= MaxReplayBytes  BY <1>1, <1>2, <1>3
  <2> HIDE DEF log
  <2>2. QED BY <1>3, <1>5, <1>6, <2>1, EvictedFits
<1>8. /\ replay' \in Seq(Envelope) /\ Len(replay') = n - dropped
      /\ \A i \in 1..(n - dropped) : replay'[i] = log[i + dropped]
  <2> HIDE DEF log, dropped
  <2> QED BY <1>2, <1>3, <1>7
<1>9. replayBytes' = Bytes(replay') /\ replayBytes' \in Nat
  <2>1. dropped \in 0..Len(log)  BY <1>2, <1>3, <1>7
  <2> HIDE DEF log, dropped
  <2>2. Bytes(log) = Bytes(SubSeq(log, 1, dropped)) + Bytes(replay')
    BY <1>2, <1>3, <1>5, <2>1, BytesSplit
  <2>3. SubSeq(log, 1, dropped) \in Seq(Envelope)
    BY <1>3, <2>1
  <2>4. Bytes(SubSeq(log, 1, dropped)) \in Nat /\ Bytes(replay') \in Nat
    BY <1>8, <2>3, BytesFinite
  <2>5. QED BY <1>2, <1>6, <2>2, <2>4
<1>10. Len(replay') <= MaxReplayEvents /\ replayBytes' <= MaxReplayBytes
  <2> HIDE DEF log, dropped
  <2> QED BY <1>2, <1>6, <1>7, <1>8 DEF Fits
<1>11. \A i \in DOMAIN replay' :
         replay'[i].gen = generation' /\ replay'[i].seq = latest' - Len(replay') + i
  <2>1. DOMAIN replay' = 1..(n - dropped) /\ dropped \in Nat /\ n \in Nat /\ dropped < n
    <3> HIDE DEF log, dropped, n
    <3> QED BY <1>3, <1>7, <1>8
  <2>2. DOMAIN log = 1..n  BY <1>3
  <2> HIDE DEF log, dropped, n
  <2>3. SUFFICES ASSUME NEW i \in 1..(n - dropped)
                 PROVE  replay'[i].gen = generation' /\ replay'[i].seq = latest' - Len(replay') + i
    BY <2>1
  <2>4. i + dropped \in 1..n  BY <2>1
  <2>5. log[i + dropped].gen = generation /\ log[i + dropped].seq = latest + 1 - n + (i + dropped)
    BY <1>4, <2>2, <2>4
  <2>6. QED BY <1>1, <1>2, <1>8, <2>1, <2>5
<1>12. Len(replay') <= latest' /\ replay' # <<>>
  <2>1. Len(replay) <= latest  BY DEF ReplayWindow
  <2>2. Len(replay') \in Nat /\ Len(replay') <= n /\ Len(replay') # 0
    <3> HIDE DEF log, dropped, n
    <3> QED BY <1>3, <1>7, <1>8
  <2>3. n <= latest' /\ latest' \in Nat
    <3> HIDE DEF log
    <3> QED BY <1>1, <1>2, <1>3, <2>1
  <2>4. Len(<<>>) = 0  OBVIOUS
  <2> HIDE DEF n
  <2>5. QED BY <1>3, <2>2, <2>3, <2>4
<1>13. ReplayWindow'
  BY <1>9, <1>10, <1>11, <1>12 DEF ReplayWindow
<1>14. dropped \in Nat /\ Len(replay') = Len(replay) + 1 - dropped
  <2> HIDE DEF log, dropped, n
  <2> QED BY <1>3, <1>7, <1>8
<1>15. QED BY <1>8, <1>9, <1>13, <1>14

-----------------------------------------------------------------------------
(* Sessions *)

\* Session numbers are never reused, the calls attached to the hub hold the
\* active one, and a task about to broadcast holds the newest event. A call
\* that a process of the server that is gone had ended has number 0, too.
SessionInv ==
  /\ agentSession < nextSession
  /\ \A s \in Streams :
       /\ stream[s].session < nextSession
       /\ stream[s].stage = "idle" => stream[s].session = 0
       /\ stream[s].stage \in Attached \cup {"failed"} =>
            stream[s].session = agentSession /\ stream[s].session # 0
       /\ stream[s].stage = "broadcasting" =>
            /\ stream[s].outgoing \in Envelope
            /\ stream[s].outgoing.gen = generation /\ stream[s].outgoing.seq = latest
            /\ generation # 0 /\ latest # 0
  /\ \A s, t \in Streams :
       stream[s].session = stream[t].session /\ stream[s].session # 0 => s = t

\* The steps of the hub whatever watchlist a hello reports: Next takes it from a
\* bounded set. The invariants hold of these, too.
AnyHello ==
  \E s \in Streams, g \in Generations, hello \in Watchlist : ConnectAgent(s, g, hello)

HubNext == Next \/ AnyHello

LEMMA InitSession == Init => SessionInv
BY DEF Init, SessionInv, Attached

LEMMA SessionExclusive == SessionInv => ExclusiveStream
BY DEF SessionInv, ExclusiveStream, Attached

\* The hellos of the bound are watchlists.
LEMMA HelloType == [revision : 0..MaxRevision, list : Watchlists] \subseteq Watchlist
BY BoundsNatural DEF Watchlist

\* Every step keeps the types; publish is the only one whose values come from
\* the eviction loop (PublishWindow).
LEMMA NextType == TypeOK /\ SessionInv /\ ReplayWindow /\ [HubNext]_vars => TypeOK'
<1> SUFFICES ASSUME TypeOK, SessionInv, ReplayWindow, [HubNext]_vars PROVE TypeOK'  OBVIOUS
<1>0. /\ stream \in [Streams -> StreamRecord] /\ commands \in [Streams -> Seq(Command)]
      /\ telemetry \in Telemetry /\ subscriber \in [Subscribers -> SubscriberRecord]
      /\ sent \in Seq(Envelope) /\ agentSession \in Nat
  BY DEF TypeOK
<1>1. ASSUME NEW s \in Streams, NEW g \in Generations, NEW hello \in Watchlist,
             ConnectAgent(s, g, hello)
      PROVE  TypeOK'
  <2>1. g \in Nat /\ g \in 0..MaxGeneration
    BY BoundsNatural DEF Generations
  <2>2. desired' \in Watchlist /\ applied' \in Watchlist
    BY <1>1, <2>1 DEF ConnectAgent, TypeOK
  <2>3. PendingConfiguration(hello, desired') \in Watchlist
    BY <2>2 DEF PendingConfiguration, NoConfiguration, Watchlist
  <2>4. /\ generation' \in 0..MaxGeneration /\ latest' \in 0..MaxSequence
        /\ replay' \in Seq(Envelope) /\ replayBytes' \in Nat
    <3>1. CASE g = generation  BY <1>1, <3>1 DEF ConnectAgent, TypeOK
    <3>2. CASE g # generation
      <4>1. generation' = g /\ latest' = 0 /\ replay' = <<>> /\ replayBytes' = 0
        BY <1>1, <3>2 DEF ConnectAgent
      <4>2. 0 \in 0..MaxSequence /\ <<>> \in Seq(Envelope)  BY BoundsNatural
      <4>3. QED  BY <2>1, <4>1, <4>2
    <3>3. QED  BY <3>1, <3>2
  <2>5. Cleared(g) \in Nat
    BY DEF Cleared, TypeOK
  <2>6. telemetry' \in Telemetry
    <3>1. telemetry' = [telemetry EXCEPT !.connections = @ + 1, !.evictions = @ + Cleared(g)]
      BY <1>1 DEF ConnectAgent
    <3>2. QED  BY <1>0, <2>5, <3>1, CounterUpdate
  <2>7. stream' \in [Streams -> StreamRecord]
    <3>1. "greeting" \in Stages  BY DEF Stages, Attached
    <3>2. stream \in [Streams -> StreamRecord] /\ nextSession \in Nat  BY DEF TypeOK
    <3>3. stream' = [stream EXCEPT ![s].stage = "greeting", ![s].session = nextSession,
                                   ![s].gen = g, ![s].config = PendingConfiguration(hello, desired')]
      BY <1>1 DEF ConnectAgent
    <3>4. QED  BY <2>1, <2>3, <3>1, <3>2, <3>3, SessionUpdate
  <2>8. since' \in Nat
    BY <1>1 DEF ConnectAgent, TypeOK
  <2>9. QED
    BY <1>1, <2>2, <2>4, <2>6, <2>7, <2>8 DEF ConnectAgent, TypeOK
<1>2. ASSUME NEW s \in Streams, SendHelloAck(s) PROVE TypeOK'
  <2>1. Ack(latest) \in Command  BY BoundsNatural DEF TypeOK, Command, Ack
  <2>2. commands' \in [Streams -> Seq(Command)]
    <3>1. [commands EXCEPT ![s] = Append(@, Ack(latest))] \in [Streams -> Seq(Command)]
      BY <1>0, <2>1, AppendAt
    <3>2. \/ commands' = [commands EXCEPT ![s] = Append(@, Ack(latest))]
          \/ commands' = commands
      BY <1>2 DEF SendHelloAck
    <3>3. QED  BY <1>0, <3>1, <3>2
  <2>3. {"failed", "serving", "configuring"} \subseteq Stages  BY DEF Stages, Attached
  <2>4. stream' \in [Streams -> StreamRecord]
    <3>1. \E x \in {"failed", "serving", "configuring"} : stream' = [stream EXCEPT ![s].stage = x]
      BY <1>2 DEF SendHelloAck
    <3>2. \A x \in {"failed", "serving", "configuring"} :
            [stream EXCEPT ![s].stage = x] \in [Streams -> StreamRecord]
      BY <1>0, <2>3, StageUpdate
    <3>3. QED  BY <3>1, <3>2
  <2>5. client' \in [Streams -> {"up", "silent", "gone"}]  BY <1>2 DEF SendHelloAck, TypeOK
  <2>6. QED  BY <1>2, <2>2, <2>4, <2>5 DEF SendHelloAck, TypeOK, state
<1>3. ASSUME NEW s \in Streams, SendConfiguration(s) PROVE TypeOK'
  <2>1. stream[s].config \in Watchlist /\ stream[s].told \in SUBSET Watchlist
    BY DEF TypeOK, StreamRecord
  <2>2. Configure(stream[s].config) \in Command  BY <2>1 DEF Command, Configure, Watchlist
  <2>3. commands' \in [Streams -> Seq(Command)]
    <3>1. [commands EXCEPT ![s] = Append(@, Configure(stream[s].config))] \in [Streams -> Seq(Command)]
      BY <1>0, <2>2, AppendAt
    <3>2. \/ commands' = [commands EXCEPT ![s] = Append(@, Configure(stream[s].config))]
          \/ commands' = commands
      BY <1>3 DEF SendConfiguration
    <3>3. QED  BY <1>0, <3>1, <3>2
  <2>4. NoConfiguration \in Watchlist  BY DEF NoConfiguration, Watchlist
  <2>5. {"failed", "serving"} \subseteq Stages  BY DEF Stages, Attached
  <2>6. stream[s].told \cup {stream[s].config} \in SUBSET Watchlist  BY <2>1
  <2>7. stream' \in [Streams -> StreamRecord]
    <3>1. \/ stream' = [stream EXCEPT ![s].stage = "serving", ![s].config = NoConfiguration,
                                      ![s].told = stream[s].told \cup {stream[s].config}]
          \/ stream' = [stream EXCEPT ![s].stage = "failed"]
      BY <1>3 DEF SendConfiguration
    <3>2. [stream EXCEPT ![s].stage = "serving", ![s].config = NoConfiguration,
                         ![s].told = stream[s].told \cup {stream[s].config}]
            \in [Streams -> StreamRecord]
      BY <1>0, <2>4, <2>5, <2>6, ConfigUpdate
    <3>3. [stream EXCEPT ![s].stage = "failed"] \in [Streams -> StreamRecord]
      BY <1>0, <2>5, StageUpdate
    <3>4. QED  BY <3>1, <3>2, <3>3
  <2>8. client' \in [Streams -> {"up", "silent", "gone"}]  BY <1>3 DEF SendConfiguration, TypeOK
  <2>9. QED  BY <1>3, <2>3, <2>7, <2>8 DEF SendConfiguration, TypeOK, state
<1>4. ASSUME NEW s \in Streams, NEW event \in AgentEvents, Publish(s, event) PROVE TypeOK'
  <2>1. /\ replay' \in Seq(Envelope) /\ replayBytes' \in Nat
        /\ Evicted(Append(replay, event), BytesWith(event)) \in Nat
    BY <1>4, PublishWindow
  <2>2. event \in Envelope /\ event.seq \in 0..MaxSequence
    BY BoundsNatural DEF AgentEvents, Envelope, Generations
  <2>3. stream' \in [Streams -> StreamRecord]
    <3>1. "broadcasting" \in Stages  BY DEF Stages, Attached
    <3>2. QED  BY <1>4, <2>2, <3>1, StageUpdate DEF Publish, TypeOK
  <2>4. telemetry' \in Telemetry
    <3> DEFINE k == Evicted(Append(replay, event), BytesWith(event))
    <3>1. telemetry' = [telemetry EXCEPT !.published = @ + 1, !.evictions = @ + k]
      BY <1>4 DEF Publish
    <3>2. k \in Nat  BY <2>1
    <3> HIDE DEF k
    <3>3. QED  BY <1>0, <3>1, <3>2, CounterUpdate
  <2>5. QED  BY <1>4, <2>1, <2>2, <2>3, <2>4 DEF Publish, TypeOK
<1>5. ASSUME NEW s \in Streams, Broadcast(s) PROVE TypeOK'
  <2>1. stream[s].outgoing \in Envelope  BY <1>5 DEF Broadcast, SessionInv
  <2>2. sent' \in Seq(Envelope)  BY <1>5, <2>1 DEF Broadcast, TypeOK
  <2>3. Ack(stream[s].outgoing.seq) \in Command  BY <2>1 DEF Command, Ack, Envelope
  <2>4. commands' \in [Streams -> Seq(Command)]
    <3>1. [commands EXCEPT ![s] = Append(@, Ack(stream[s].outgoing.seq))] \in [Streams -> Seq(Command)]
      BY <1>0, <2>3, AppendAt
    <3>2. \/ commands' = [commands EXCEPT ![s] = Append(@, Ack(stream[s].outgoing.seq))]
          \/ commands' = commands
      BY <1>5 DEF Broadcast
    <3>3. QED  BY <1>0, <3>1, <3>2
  <2>5. {"serving", "closing"} \subseteq Stages  BY DEF Stages, Attached
  <2>6. stream' \in [Streams -> StreamRecord]
    <3>1. \E x \in {"serving", "closing"} :
            stream' = [stream EXCEPT ![s].stage = x, ![s].outgoing = NoEvent]
      BY <1>5 DEF Broadcast
    <3>2. \A x \in {"serving", "closing"} :
            [stream EXCEPT ![s].stage = x, ![s].outgoing = NoEvent] \in [Streams -> StreamRecord]
      BY <1>0, <2>5, StageUpdate
    <3>3. QED  BY <3>1, <3>2
  <2>7. QED  BY <1>5, <2>2, <2>4, <2>6 DEF Broadcast, TypeOK, state
<1>6. ASSUME NEW s \in Streams, NEW cursor \in Cursors, Heartbeat(s, cursor) PROVE TypeOK'
  <2>1. Ack(latest) \in Command  BY BoundsNatural DEF TypeOK, Command, Ack
  <2>2. commands' \in [Streams -> Seq(Command)]
    <3>1. [commands EXCEPT ![s] = Append(@, Ack(latest))] \in [Streams -> Seq(Command)]
      BY <1>0, <2>1, AppendAt
    <3>2. \/ commands' = [commands EXCEPT ![s] = Append(@, Ack(latest))]
          \/ commands' = commands
      BY <1>6 DEF Heartbeat
    <3>3. QED  BY <1>0, <3>1, <3>2
  <2>3. "closing" \in Stages  BY DEF Stages, Attached
  <2>4. stream' \in [Streams -> StreamRecord]
    <3>1. stream' = stream \/ stream' = [stream EXCEPT ![s].stage = "closing"]
      BY <1>6 DEF Heartbeat
    <3>2. [stream EXCEPT ![s].stage = "closing"] \in [Streams -> StreamRecord]
      BY <1>0, <2>3, StageUpdate
    <3>3. QED  BY <1>0, <3>1, <3>2
  <2>5. QED  BY <1>6, <2>2, <2>4 DEF Heartbeat, TypeOK, state
<1>7. ASSUME NEW s \in Streams, Refuse(s) PROVE TypeOK'
  <2>1. Stop \in Command  BY DEF Command
  <2>2. commands' \in [Streams -> Seq(Command)]
    <3>1. [commands EXCEPT ![s] = Append(@, Stop)] \in [Streams -> Seq(Command)]
      BY <2>1, AppendAt DEF TypeOK
    <3>2. [commands EXCEPT ![s] = @] \in [Streams -> Seq(Command)]  BY DEF TypeOK
    <3>3. QED  BY <1>7, <3>1, <3>2 DEF Refuse
  <2>3. "closing" \in Stages  BY DEF Stages, Attached
  <2>4. stream' \in [Streams -> StreamRecord]  BY <1>7, <2>3, <1>0, StageUpdate DEF Refuse
  <2>5. QED  BY <1>7, <2>2, <2>4 DEF Refuse, TypeOK, state
<1>8. ASSUME NEW s \in Streams, EndOfStream(s) PROVE TypeOK'
  <2>1. "closing" \in Stages  BY DEF Stages, Attached
  <2>2. stream' \in [Streams -> StreamRecord]  BY <1>8, <2>1, <1>0, StageUpdate DEF EndOfStream
  <2>3. QED  BY <1>8, <2>2 DEF EndOfStream, TypeOK, state
<1>9. ASSUME NEW s \in Streams, DisconnectAgent(s) PROVE TypeOK'
  <2>1. NoConfiguration \in Watchlist /\ "closed" \in Stages /\ {} \in SUBSET Watchlist
    BY DEF NoConfiguration, Watchlist, Stages
  <2>2. stream' \in [Streams -> StreamRecord]
    BY <1>9, <2>1, <1>0, ConfigUpdate DEF DisconnectAgent
  <2>3. commands' \in [Streams -> Seq(Command)] /\ client' \in [Streams -> {"up", "silent", "gone"}]
    BY <1>9 DEF DisconnectAgent, TypeOK
  <2>4. agentSession' \in Nat /\ telemetry' \in Telemetry
    <3> DEFINE counted == [telemetry EXCEPT !.disconnects = @ + 1]
    <3>1. \/ agentSession' = 0 /\ telemetry' = counted
          \/ UNCHANGED <<agentSession, telemetry>>
      BY <1>9 DEF DisconnectAgent
    <3>2. counted \in Telemetry  BY <1>0, CounterUpdate
    <3> HIDE DEF counted
    <3>3. QED  BY <1>0, <3>1, <3>2
  <2>5. UNCHANGED <<generation, latest, replay, replayBytes, nextSession, desired, applied,
                    localSequence, since, localPending, sent, subscriber>>
    BY <1>9 DEF DisconnectAgent
  <2>6. QED  BY <2>2, <2>3, <2>4, <2>5 DEF TypeOK
<1>10. ASSUME NEW list \in Watchlists, SetWatchlist(list) PROVE TypeOK'
  <2> DEFINE replacement == [revision |-> desired.revision + 1, list |-> list]
  <2>1. replacement \in Watchlist  BY DEF TypeOK, Watchlist
  <2>2. Configure(replacement) \in Command  BY <2>1 DEF Command, Configure, Watchlist
  <2>3. PICK s \in Streams :
          /\ commands' = [commands EXCEPT ![s] = Append(@, Configure(replacement))]
          /\ stream' = [stream EXCEPT ![s].told = @ \cup {replacement}]
          /\ desired' = replacement
    BY <1>10 DEF SetWatchlist
  <2> HIDE DEF replacement
  <2>4. commands' \in [Streams -> Seq(Command)]  BY <2>2, <2>3, AppendAt DEF TypeOK
  <2>5. stream' \in [Streams -> StreamRecord]  BY <2>1, <2>3 DEF TypeOK, StreamRecord
  <2>6. QED  BY <1>10, <2>1, <2>3, <2>4, <2>5 DEF SetWatchlist, TypeOK
<1>11. ASSUME NEW p \in Publishers, NEW size \in Sizes, RecordLocal(p, size) PROVE TypeOK'
  <2> DEFINE envelope == [gen |-> Local, seq |-> NextLocal, size |-> size]
  <2>1. localSequence' \in 0..MaxLocal  BY <1>11, BoundsNatural DEF RecordLocal, TypeOK, NextLocal
  <2>2. envelope \in Envelope
    BY BoundsNatural DEF TypeOK, NextLocal, Envelope, Local
  <2> HIDE DEF envelope
  <2>3. <<envelope>> \in Seq(Envelope)  BY <2>2
  <2>4. localPending' \in [Publishers -> Seq(Envelope)]
    BY <1>11, <2>3 DEF RecordLocal, TypeOK, envelope
  <2>5. telemetry' \in Telemetry
    <3>1. telemetry' = telemetry \/ telemetry' = [telemetry EXCEPT !.published = @ + 1]
      BY <1>11 DEF RecordLocal
    <3>2. QED  BY <1>0, <3>1, CounterUpdate
  <2>6. QED  BY <1>11, <2>1, <2>4, <2>5 DEF RecordLocal, TypeOK
<1>12. ASSUME NEW p \in Publishers, BroadcastLocal(p) PROVE TypeOK'
  <2>1. Head(localPending[p]) \in Envelope  BY <1>12, HeadTailProperties DEF BroadcastLocal, TypeOK
  <2>2. sent' \in Seq(Envelope)  BY <1>12, <2>1 DEF BroadcastLocal, TypeOK
  <2>3. localPending' \in [Publishers -> Seq(Envelope)]  BY <1>12 DEF BroadcastLocal, TypeOK
  <2>4. QED  BY <1>12, <2>2, <2>3 DEF BroadcastLocal, TypeOK, state
<1>13. ASSUME NEW c \in Subscribers, NEW after \in Cursors \cup {NoCursor}, Subscribe(c, after)
       PROVE TypeOK'
  <2>1. after \in Cursor  BY BoundsNatural DEF Cursors, Cursor, NoCursor, Generations
  <2>2. Len(sent) + 1 \in Nat \ {0}  BY DEF TypeOK
  <2>3. subscriber' \in [Subscribers -> SubscriberRecord]
    BY <1>13, <2>1, <2>2 DEF Subscribe, TypeOK, SubscriberRecord
  <2>4. QED  BY <1>13, <2>3 DEF Subscribe, TypeOK, state
<1>14. ASSUME NEW c \in Subscribers, Poll(c) PROVE TypeOK'
  <2>1. sent[subscriber[c].next] \in Envelope
    <3>1. subscriber[c].next \in 1..Len(sent)
      BY <1>14 DEF Poll, TypeOK, SubscriberRecord
    <3>2. QED  BY <3>1, ElementOfSeq DEF TypeOK
  <2>2. CursorOf(sent[subscriber[c].next]) \in Cursor  BY <2>1 DEF CursorOf, Cursor, Envelope
  <2>3. subscriber' \in [Subscribers -> SubscriberRecord]
    <3>1. \/ subscriber' = [subscriber EXCEPT ![c].stage = "terminated"]
          \/ subscriber' = [subscriber EXCEPT
               ![c].next = @ + 1,
               ![c].delivered = Append(@, CursorOf(sent[subscriber[c].next]))]
      BY <1>14 DEF Poll
    <3>2. [subscriber EXCEPT ![c].stage = "terminated"] \in [Subscribers -> SubscriberRecord]
      BY <1>0, <2>2, PollUpdate
    <3>3. [subscriber EXCEPT ![c].next = @ + 1,
                             ![c].delivered = Append(@, CursorOf(sent[subscriber[c].next]))]
            \in [Subscribers -> SubscriberRecord]
      BY <1>0, <2>2, PollUpdate
    <3>4. QED  BY <3>1, <3>2, <3>3
  <2>4. QED  BY <1>14, <2>3 DEF Poll, TypeOK, state
<1>15. ASSUME NEW c \in Subscribers, Unsubscribe(c) PROVE TypeOK'
  <2>1. subscriber' \in [Subscribers -> SubscriberRecord]
    BY <1>15 DEF Unsubscribe, TypeOK, SubscriberRecord, Cursor, NoCursor
  <2>2. QED  BY <1>15, <2>1 DEF Unsubscribe, TypeOK, state
<1>16. ASSUME NEW s \in Streams, AgentStep(s) PROVE TypeOK'
  <2>1. commands' \in [Streams -> Seq(Command)]
    <3>1. CASE ReceiveCommand(s)
      <4>1. Tail(commands[s]) \in Seq(Command)
        BY <3>1, HeadTailProperties DEF ReceiveCommand, TypeOK
      <4>2. QED  BY <3>1, <4>1 DEF ReceiveCommand, TypeOK
    <3>2. QED  BY <1>16, <3>1 DEF AgentStep, FallSilent, Hangup, TypeOK
  <2>2. client' \in [Streams -> {"up", "silent", "gone"}]
    BY <1>16 DEF AgentStep, ReceiveCommand, FallSilent, Hangup, TypeOK
  <2>3. QED  BY <1>16, <2>1, <2>2 DEF AgentStep, ReceiveCommand, FallSilent, Hangup, TypeOK, state
<1>17. CASE UNCHANGED vars
  BY <1>17 DEF vars, state, TypeOK
<1>18. QED
  BY <1>1, <1>2, <1>3, <1>4, <1>5, <1>6, <1>7, <1>8, <1>9, <1>10, <1>11, <1>12, <1>13, <1>14,
     <1>15, <1>16, <1>17, HelloType
     DEF HubNext, AnyHello, Next, StreamStep, LocalStep, SubscriberStep, RefuseEvent,
         RefuseHeartbeat

\* A step of the task of s that changes neither its session nor the hub's, and
\* does not begin a broadcast, keeps the session invariant.
LEMMA StageOnly ==
  ASSUME TypeOK, SessionInv, NEW s \in Streams,
         stream' \in [Streams -> StreamRecord],
         \A t \in Streams \ {s} : stream'[t] = stream[t],
         stream'[s].session = stream[s].session,
         stream[s].stage \in Attached, stream'[s].stage \in (Attached \ {"broadcasting"}) \cup {"failed"},
         UNCHANGED <<agentSession, nextSession, generation, latest>>
  PROVE  SessionInv'
<1>1. \A t \in Streams : stream'[t].session = stream[t].session  OBVIOUS
<1>2. stream[s].session # 0 /\ stream'[s].stage # "idle"  BY DEF SessionInv, Attached
<1>3. QED  BY <1>1, <1>2 DEF SessionInv

LEMMA NextSessionInv == TypeOK /\ SessionInv /\ TypeOK' /\ [HubNext]_vars => SessionInv'
<1> SUFFICES ASSUME TypeOK, SessionInv, TypeOK', [HubNext]_vars PROVE SessionInv'  OBVIOUS
<1>0. /\ stream \in [Streams -> StreamRecord] /\ stream' \in [Streams -> StreamRecord]
      /\ agentSession \in Nat /\ nextSession \in Nat \ {0}
      /\ \A s \in Streams : stream[s].session \in Nat
  BY DEF TypeOK, StreamRecord
<1>1. ASSUME NEW s \in Streams, NEW g \in Generations, NEW hello, ConnectAgent(s, g, hello)
      PROVE  SessionInv'
  <2>1. /\ stream'[s].stage = "greeting" /\ stream'[s].session = nextSession
        /\ \A t \in Streams \ {s} : stream'[t] = stream[t]
        /\ agentSession' = nextSession /\ nextSession' = nextSession + 1
        /\ agentSession = 0
    BY <1>0, <1>1 DEF ConnectAgent, StreamRecord, SessionFree
  <2>2. \A t \in Streams : stream[t].stage \notin Attached \cup {"failed"}
    BY <2>1 DEF SessionInv, Attached
  <2>3. \A t \in Streams \ {s} : stream'[t].stage \notin Attached \cup {"failed"}
    BY <2>1, <2>2
  <2>4. "broadcasting" \in Attached /\ "greeting" \in Attached  BY DEF Attached
  <2>5. \A t \in Streams : stream[t].session < nextSession
    BY DEF SessionInv
  <2>6. QED  BY <1>0, <2>1, <2>3, <2>4, <2>5 DEF SessionInv
<1>2. ASSUME NEW s \in Streams, NEW event \in AgentEvents, Publish(s, event) PROVE SessionInv'
  <2>1. /\ stream'[s].stage = "broadcasting" /\ stream'[s].session = stream[s].session
        /\ stream'[s].outgoing = event /\ stream[s].stage = "serving"
        /\ \A t \in Streams \ {s} : stream'[t] = stream[t]
        /\ UNCHANGED <<agentSession, nextSession, generation>> /\ latest' = event.seq
        /\ agentSession = stream[s].session /\ event.gen = generation
        /\ generation # 0 /\ event.seq # 0
    BY <1>0, BoundsNatural, <1>2 DEF Publish, Publishable, StreamRecord, AgentEvents, Generations
  <2>2. event \in Envelope  BY BoundsNatural DEF AgentEvents, Envelope, Generations
  <2>3. \A t \in Streams \ {s} : stream[t].stage # "broadcasting"
    BY <2>1 DEF SessionInv, Attached
  <2>4. QED  BY <2>1, <2>2, <2>3 DEF SessionInv, Attached
<1>3. ASSUME NEW s \in Streams,
             SendHelloAck(s) \/ SendConfiguration(s) \/ Broadcast(s) \/ EndOfStream(s)
               \/ Refuse(s) \/ (\E cursor \in Cursors : Heartbeat(s, cursor)),
             stream' # stream
      PROVE  SessionInv'
  <2>1. /\ \A t \in Streams \ {s} : stream'[t] = stream[t]
        /\ stream'[s].session = stream[s].session
        /\ stream[s].stage \in Attached
        /\ stream'[s].stage \in (Attached \ {"broadcasting"}) \cup {"failed"}
        /\ UNCHANGED <<agentSession, nextSession, generation, latest>>
    <3>1. CASE SendHelloAck(s)
      BY <1>0, <1>3, <3>1 DEF SendHelloAck, state, StreamRecord, Attached
    <3>2. CASE SendConfiguration(s)
      <4>1. stream[s].stage = "configuring" /\ UNCHANGED state
        BY <3>2 DEF SendConfiguration
      <4>2. CASE stream' = [stream EXCEPT ![s].stage = "serving", ![s].config = NoConfiguration,
                                          ![s].told = @ \cup {stream[s].config}]
        BY <1>0, <4>1, <4>2 DEF state, StreamRecord, Attached
      <4>3. CASE stream' = [stream EXCEPT ![s].stage = "failed"]
        BY <1>0, <4>1, <4>3 DEF state, StreamRecord, Attached
      <4> QED BY <3>2, <4>2, <4>3 DEF SendConfiguration
    <3>3. CASE Broadcast(s)
      BY <1>0, <1>3, <3>3 DEF Broadcast, state, StreamRecord, Attached
    <3>4. CASE EndOfStream(s) \/ Refuse(s)
      BY <1>0, <1>3, <3>4 DEF EndOfStream, Refuse, state, StreamRecord, Attached
    <3>5. CASE \E cursor \in Cursors : Heartbeat(s, cursor)
      BY <1>0, <1>3, <3>5 DEF Heartbeat, state, StreamRecord, Attached
    <3> QED BY <1>3, <3>1, <3>2, <3>3, <3>4, <3>5
  <2>2. QED  BY <1>0, <2>1, StageOnly
<1>4. ASSUME NEW s \in Streams, DisconnectAgent(s) PROVE SessionInv'
  <2>1. /\ stream'[s].stage = "closed" /\ stream'[s].session = stream[s].session
        /\ stream[s].stage = "closing"
        /\ \A t \in Streams \ {s} : stream'[t] = stream[t]
        /\ UNCHANGED <<nextSession, generation, latest>>
        /\ agentSession' = IF agentSession = stream[s].session THEN 0 ELSE agentSession
    BY <1>0, <1>4 DEF DisconnectAgent, StreamRecord
  <2>2. \A t \in Streams \ {s} : stream[t].stage \notin Attached \cup {"failed"}
    BY <2>1 DEF SessionInv, Attached
  <2>3. QED  BY <1>0, <2>1, <2>2 DEF SessionInv, Attached
<1>5. ASSUME NEW list \in Watchlists, SetWatchlist(list) PROVE SessionInv'
  <2>1. /\ \A t \in Streams : /\ stream'[t].stage = stream[t].stage
                              /\ stream'[t].session = stream[t].session
                              /\ stream'[t].outgoing = stream[t].outgoing
        /\ UNCHANGED <<agentSession, nextSession, generation, latest>>
    BY <1>0, <1>5 DEF SetWatchlist, StreamRecord
  <2>2. QED  BY <2>1 DEF SessionInv
<1>6. CASE UNCHANGED <<stream, agentSession, nextSession, generation, latest>>
  BY <1>6 DEF SessionInv
<1>7. QED
  <2>1. ASSUME NEW p \in Publishers, LocalStep(p) PROVE SessionInv'
    BY <1>6, <2>1 DEF LocalStep, RecordLocal, BroadcastLocal, state
  <2>2. ASSUME NEW c \in Subscribers, SubscriberStep(c) PROVE SessionInv'
    BY <1>6, <2>2 DEF SubscriberStep, Subscribe, Poll, Unsubscribe, state
  <2>3. ASSUME NEW s \in Streams, AgentStep(s) PROVE SessionInv'
    BY <1>6, <2>3 DEF AgentStep, ReceiveCommand, FallSilent, Hangup, state
  <2>4. ASSUME NEW s \in Streams,
               SendHelloAck(s) \/ SendConfiguration(s) \/ Broadcast(s) \/ EndOfStream(s)
                 \/ Refuse(s) \/ (\E cursor \in Cursors : Heartbeat(s, cursor))
        PROVE  SessionInv'
    <3>1. CASE stream' = stream
      BY <1>6, <2>4, <3>1 DEF SendHelloAck, SendConfiguration, Broadcast, EndOfStream, Refuse,
         Heartbeat, state
    <3>2. QED  BY <1>3, <2>4, <3>1
  <2>5. CASE UNCHANGED vars  BY <1>6, <2>5 DEF vars, state
  <2>6. QED
    BY <1>1, <1>2, <1>4, <1>5, <2>1, <2>2, <2>3, <2>4, <2>5
       DEF HubNext, AnyHello, Next, StreamStep, RefuseEvent, RefuseHeartbeat

-----------------------------------------------------------------------------
(* The theorems *)

\* A step that is neither a hello nor a publication leaves the window alone; a
\* hello leaves it alone or empties it.
LEMMA NextWindow == TypeOK /\ ReplayWindow /\ [HubNext]_vars => ReplayWindow'
<1> SUFFICES ASSUME TypeOK, ReplayWindow, [HubNext]_vars PROVE ReplayWindow'  OBVIOUS
<1>1. CASE UNCHANGED <<generation, latest, replay, replayBytes>>
  BY <1>1 DEF ReplayWindow, Bytes, Cells
<1>2. ASSUME NEW s \in Streams, NEW g \in Generations, NEW hello, ConnectAgent(s, g, hello)
      PROVE  ReplayWindow'
  <2>1. CASE g = generation  BY <1>1, <1>2, <2>1 DEF ConnectAgent
  <2>2. CASE g # generation
    <3>1. generation' = g /\ latest' = 0 /\ replay' = <<>> /\ replayBytes' = 0
      BY <1>2, <2>2 DEF ConnectAgent
    <3>2. Bytes(replay') = 0  BY <3>1, BytesEmpty
    <3>3. Len(replay') = 0 /\ DOMAIN replay' = {}  BY <3>1
    <3>4. QED  BY <3>1, <3>2, <3>3, LimitsPositive DEF ReplayWindow
  <2>3. QED  BY <2>1, <2>2
<1>3. ASSUME NEW s \in Streams, NEW event \in AgentEvents, Publish(s, event)
      PROVE  ReplayWindow'
  BY <1>3, PublishWindow
<1>4. ASSUME NEW s \in Streams,
             SendHelloAck(s) \/ SendConfiguration(s) \/ Broadcast(s) \/ EndOfStream(s)
               \/ Refuse(s) \/ DisconnectAgent(s) \/ (\E cursor \in Cursors : Heartbeat(s, cursor))
      PROVE  ReplayWindow'
  BY <1>1, <1>4 DEF SendHelloAck, SendConfiguration, Broadcast, EndOfStream, Refuse,
     DisconnectAgent, Heartbeat, state
<1>5. ASSUME NEW s \in Streams, AgentStep(s) PROVE ReplayWindow'
  BY <1>1, <1>5 DEF AgentStep, ReceiveCommand, FallSilent, Hangup, state
<1>6. ASSUME NEW p \in Publishers, LocalStep(p) PROVE ReplayWindow'
  BY <1>1, <1>6 DEF LocalStep, RecordLocal, BroadcastLocal, state
<1>7. ASSUME NEW c \in Subscribers, SubscriberStep(c) PROVE ReplayWindow'
  BY <1>1, <1>7 DEF SubscriberStep, Subscribe, Poll, Unsubscribe, state
<1>8. ASSUME NEW list \in Watchlists, SetWatchlist(list) PROVE ReplayWindow'
  BY <1>1, <1>8 DEF SetWatchlist
<1>9. CASE UNCHANGED vars  BY <1>1, <1>9 DEF vars, state
<1>10. QED
  BY <1>2, <1>3, <1>4, <1>5, <1>6, <1>7, <1>8, <1>9
     DEF HubNext, AnyHello, Next, StreamStep, RefuseEvent, RefuseHeartbeat

\* The inductive invariant: types, sessions and the window support each other.
\* Types need the session invariant (what is broadcast is an envelope) and the
\* window (its bytes are counted exactly, so the difference is a natural).
IInv == TypeOK /\ SessionInv /\ ReplayWindow

LEMMA HubStep == IInv /\ [HubNext]_vars => IInv'
BY NextType, NextSessionInv, NextWindow DEF IInv

THEOREM Invariance == Spec => []IInv
<1>1. Init => IInv  BY InitType, InitSession DEF IInv
<1>2. IInv /\ [Next]_vars => IInv'
  BY HubStep DEF IInv, HubNext
<1>3. QED  BY <1>1, <1>2, PTL DEF Spec

\* Types, for every number of streams, publishers and subscribers and all limits.
THEOREM TypeCorrect == Spec => []TypeOK
BY Invariance, PTL DEF IInv

\* The eviction loop of publish keeps, within both bounds and with exact byte
\* accounting, an unbroken end of the stream that holds the newest event.
THEOREM WindowCorrect == Spec => []ReplayWindow
BY Invariance, PTL DEF IInv

\* connect_agent and disconnect_agent let one OpenStream call be attached.
THEOREM OneAgent == Spec => []ExclusiveStream
BY Invariance, SessionExclusive, PTL DEF IInv

\* A cursor that replay_after accepts is answered with every later event.
LEMMA WindowComplete == TypeOK /\ ReplayWindow => ReplayComplete
<1> SUFFICES ASSUME TypeOK, ReplayWindow, NEW n \in 0..latest,
                    ReplayAccepts([gen |-> generation, seq |-> n])
             PROVE  ReplayAfter([gen |-> generation, seq |-> n]) = (n + 1)..latest
  BY DEF ReplayComplete
<1> DEFINE len == Len(replay)
<1>1. /\ latest \in Nat /\ len \in Nat /\ DOMAIN replay = 1..len /\ len <= latest
      /\ \A i \in 1..len : replay[i].seq = latest - len + i
      /\ latest > 0 => len > 0
      /\ len > 0 => replay # <<>> /\ Head(replay) = replay[1]
  BY BoundsNatural DEF TypeOK, ReplayWindow
<1>2. len > 0 => n + 1 >= latest - len + 1
  <2>1. generation # 0 /\ [gen |-> generation, seq |-> n] # NoCursor
    BY DEF ReplayAccepts, NoCursor
  <2>2. len > 0 => n + 1 >= Head(replay).seq  BY <1>1, <2>1 DEF ReplayAccepts
  <2>3. QED  BY <1>1, <2>2
<1>3. ReplayAfter([gen |-> generation, seq |-> n])
        = {replay[i].seq : i \in {j \in 1..len : replay[j].seq > n}}
  BY <1>1 DEF ReplayAfter
<1> HIDE DEF len
<1>4. ASSUME NEW m \in (n + 1)..latest
      PROVE  m \in {replay[i].seq : i \in {j \in 1..len : replay[j].seq > n}}
  <2>1. m - (latest - len) \in 1..len  BY <1>1, <1>2
  <2>2. replay[m - (latest - len)].seq = m  BY <1>1, <2>1
  <2>3. QED  BY <2>1, <2>2
<1>5. ASSUME NEW i \in 1..len, replay[i].seq > n
      PROVE  replay[i].seq \in (n + 1)..latest
  BY <1>1, <1>5
<1>6. QED  BY <1>3, <1>4, <1>5

\* No accepted replay misses an event, whatever was evicted.
THEOREM ReplayCorrect == Spec => []ReplayComplete
BY Invariance, WindowComplete, PTL DEF IInv
=============================================================================
