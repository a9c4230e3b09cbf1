-------------------------- MODULE QueryPath_proofs --------------------------
(***************************************************************************)
(* Proofs about QuoteRace and QueryPath, for any number of calls,          *)
(* candidates and permits: what the race promises in any environment, that *)
(* QueryPath is one, and the accounting of permits and health.             *)
(***************************************************************************)
EXTENDS QueryPath, FiniteSetTheorems, TLAPS

\* Only candidates the loop has passed are noted.
NotedPassed == \A w \in Workers : race[w].stage # "off" => race[w].noted \subseteq Passed(w)

RaceInv == RaceTypeOK /\ GateExact /\ Accounted /\ NotedPassed

-----------------------------------------------------------------------------
(* The channel *)

\* Places of the messages of c in a channel.
From(mail, c) == {k \in DOMAIN mail : mail[k].from = c}

LEMMA FromAppend ==
  ASSUME NEW mail \in Seq(Message), NEW msg \in Message, NEW c
  PROVE  From(Append(mail, msg), c) = IF msg.from = c THEN From(mail, c) \union {Len(mail) + 1}
                                      ELSE From(mail, c)
<1> DEFINE longer == Append(mail, msg)
<1>1. /\ DOMAIN mail = 1..Len(mail) /\ DOMAIN longer = 1..(Len(mail) + 1) /\ Len(mail) \in Nat
      /\ \A k \in 1..Len(mail) : longer[k] = mail[k]
      /\ longer[Len(mail) + 1] = msg
  OBVIOUS
<1> HIDE DEF longer
<1>2. From(longer, c) = IF msg.from = c THEN From(mail, c) \union {Len(mail) + 1} ELSE From(mail, c)
  BY <1>1 DEF From
<1> QED
  BY <1>2 DEF longer

LEMMA FromTail ==
  ASSUME NEW mail \in Seq(Message), mail # <<>>, NEW c
  PROVE  /\ Tail(mail) \in Seq(Message) /\ Head(mail) \in Message
         /\ 1 \in From(mail, c) <=> Head(mail).from = c
         /\ \A k \in Nat : k \in From(Tail(mail), c) <=> k # 0 /\ k + 1 \in From(mail, c)
         /\ From(Tail(mail), c) \subseteq Nat
<1> DEFINE rest == Tail(mail)
<1>1. /\ DOMAIN mail = 1..Len(mail) /\ Len(mail) \in Nat \ {0}
      /\ rest \in Seq(Message) /\ DOMAIN rest = 1..(Len(mail) - 1)
      /\ \A k \in 1..(Len(mail) - 1) : rest[k] = mail[k + 1]
      /\ Head(mail) = mail[1] /\ mail[1] \in Message
  OBVIOUS
<1> HIDE DEF rest
<1>2. /\ 1 \in From(mail, c) <=> Head(mail).from = c
      /\ \A k \in Nat : k \in From(rest, c) <=> k # 0 /\ k + 1 \in From(mail, c)
      /\ From(rest, c) \subseteq Nat
  BY <1>1 DEF From
<1> QED
  BY <1>1, <1>2 DEF rest

-----------------------------------------------------------------------------
(* The race *)

\* What Advanced does: the candidate is passed.
LEMMA AdvancedFacts ==
  ASSUME NEW q \in Race
  PROVE  /\ Advanced(q) \in Race /\ Advanced(q).running = q.running
         /\ Advanced(q).noted = q.noted /\ Advanced(q).mail = q.mail
         /\ Advanced(q).stage = IF q.index = Candidates THEN "receiving" ELSE "claiming"
         /\ q.index # Candidates => Advanced(q).index = q.index + 1
<1>1. q.index \in 1..Candidates /\ Candidates \in Nat
  BY CandidatesAssumption DEF Race, Providers
<1>2. CASE q.index = Candidates
  BY <1>2 DEF Advanced, Race
<1>3. CASE q.index # Candidates
  <2> DEFINE i == q.index + 1
  <2>1. i \in Providers
    BY <1>1, <1>3 DEF Providers
  <2>2. Advanced(q) = [q EXCEPT !.stage = "claiming", !.index = i]
    BY <1>3 DEF Advanced
  <2> HIDE DEF i
  <2>3. Advanced(q) \in Race /\ Advanced(q).running = q.running
        /\ Advanced(q).noted = q.noted /\ Advanced(q).mail = q.mail
        /\ Advanced(q).stage = "claiming" /\ Advanced(q).index = i
    BY <2>1, <2>2 DEF Race
  <2> QED
    BY <1>3, <2>3 DEF i
<1> QED
  BY <1>2, <1>3

LEMMA NotedFacts ==
  ASSUME NEW q \in Race, NEW c \in Providers
  PROVE  /\ Noted(q, c) \in Race /\ Noted(q, c).noted = q.noted \union {c}
         /\ Noted(q, c).stage = q.stage /\ Noted(q, c).index = q.index
         /\ Noted(q, c).running = q.running /\ Noted(q, c).mail = q.mail
<1> QED
  BY DEF Noted, Race

-----------------------------------------------------------------------------
(* The books of one race *)

PassedOf(q) == IF q.stage = "receiving" THEN Providers ELSE 1..(q.index - 1)

\* Accounted and NotedPassed, of one race q and its threads th.
Books(q, th) ==
  q.stage # "off" =>
    /\ q.noted \subseteq PassedOf(q)
    /\ \A c \in PassedOf(q) :
         IF c \in q.noted \/ th[c] # "none"
         THEN From(q.mail, c) = {} /\ ~ (c \in q.noted /\ th[c] # "none")
         ELSE \E k \in DOMAIN q.mail : From(q.mail, c) = {k}
    /\ \A c \in Providers \ PassedOf(q) : th[c] = "none" /\ From(q.mail, c) = {}
    /\ q.running = Cardinality(PassedOf(q) \ q.noted)

LEMMA BooksAreAccounts ==
  Accounted /\ NotedPassed <=> \A w \in Workers : Books(race[w], thread[w])
<1> QED
  BY DEF Accounted, NotedPassed, Books, PassedOf, Passed, Unread, From

LEMMA CandidatesFinite ==
  ASSUME NEW S \in SUBSET Providers
  PROVE  IsFiniteSet(S) /\ Cardinality(S) \in 0..Candidates
<1>1. IsFiniteSet(Providers) /\ Cardinality(Providers) = Candidates
  BY FS_Interval, CandidatesAssumption DEF Providers
<1>2. IsFiniteSet(S) /\ Cardinality(S) <= Candidates
  BY <1>1, FS_Subset
<1>3. Cardinality(S) \in Nat
  BY <1>2, FS_CardinalityType
<1> QED
  BY <1>2, <1>3, CandidatesAssumption

LEMMA PassedIsCandidates ==
  ASSUME NEW q \in Race
  PROVE  /\ PassedOf(q) \subseteq Providers
         /\ q.stage # "receiving" => q.index \in Providers \ PassedOf(q)
<1> QED
  BY CandidatesAssumption DEF Race, PassedOf, Providers

\* A race whose loop goes on has passed one candidate more.
LEMMA PassedOneMore ==
  ASSUME NEW q \in Race, q.stage \in {"claiming", "spawning"}, NEW r, NEW i \in Providers,
         r.stage = (IF i = Candidates THEN "receiving" ELSE "claiming"),
         i # Candidates => r.index = i + 1, i = q.index
  PROVE  PassedOf(r) = PassedOf(q) \union {i}
<1> QED
  BY CandidatesAssumption DEF Race, PassedOf, Providers

\* The candidate is noted: it was busy, or its thread could not be created.
LEMMA PassNoted ==
  ASSUME NEW q \in Race, NEW th \in [Providers -> Thread], Books(q, th),
         q.stage \in {"claiming", "spawning"}
  PROVE  /\ Advanced(Noted(q, q.index)) \in Race
         /\ Advanced(Noted(q, q.index)).stage \in {"claiming", "receiving"}
         /\ Books(Advanced(Noted(q, q.index)), th)
<1> DEFINE i == q.index
           n == Noted(q, i)
           r == Advanced(n)
<1>1. i \in Providers
  BY DEF Race
<1>2. n \in Race /\ n.noted = q.noted \union {i} /\ n.index = i /\ n.running = q.running /\ n.mail = q.mail
  BY <1>1, NotedFacts
<1>3. /\ r \in Race /\ r.running = q.running /\ r.noted = q.noted \union {i} /\ r.mail = q.mail
      /\ r.stage = (IF i = Candidates THEN "receiving" ELSE "claiming")
      /\ i # Candidates => r.index = i + 1
  BY <1>2, AdvancedFacts
<1>4. PassedOf(q) \subseteq Providers /\ i \notin PassedOf(q)
  BY PassedIsCandidates
<1> HIDE DEF n, r
<1>5. PassedOf(r) = PassedOf(q) \union {i}
  BY <1>1, <1>3, PassedOneMore
<1> HIDE DEF i
<1>6. PassedOf(r) \ r.noted = PassedOf(q) \ q.noted
  BY <1>3, <1>4, <1>5
<1>7. Books(r, th)
  BY <1>1, <1>3, <1>4, <1>5, <1>6 DEF Books
<1>8. r.stage \in {"claiming", "receiving"}
  BY <1>3
<1> QED
  BY <1>3, <1>7, <1>8 DEF r, n, i

\* A thread is created for it.
LEMMA PassSpawned ==
  ASSUME NEW q \in Race, NEW th \in [Providers -> Thread], Books(q, th), q.stage = "spawning"
  PROVE  /\ [Advanced(q) EXCEPT !.running = @ + 1] \in Race
         /\ [Advanced(q) EXCEPT !.running = @ + 1].stage \in {"claiming", "receiving"}
         /\ Books([Advanced(q) EXCEPT !.running = @ + 1], [th EXCEPT ![q.index] = "working"])
<1> DEFINE i == q.index
           a == Advanced(q)
           running == a.running + 1
           r == [a EXCEPT !.running = running]
           uh == [th EXCEPT ![i] = "working"]
<1>1. i \in Providers
  BY DEF Race
<1>2. /\ a \in Race /\ a.running = q.running /\ a.noted = q.noted /\ a.mail = q.mail
      /\ a.stage = (IF i = Candidates THEN "receiving" ELSE "claiming")
      /\ i # Candidates => a.index = i + 1
  BY AdvancedFacts
<1>3. PassedOf(q) \subseteq Providers /\ i \notin PassedOf(q)
  BY PassedIsCandidates
<1> HIDE DEF a
<1>4. PassedOf(a) = PassedOf(q) \union {i}
  BY <1>1, <1>2, PassedOneMore
<1>5. q.noted \subseteq PassedOf(q) /\ q.running = Cardinality(PassedOf(q) \ q.noted)
  BY DEF Books
<1> HIDE DEF i
<1>6. running = Cardinality(PassedOf(a) \ q.noted) /\ running \in 0..Candidates
  <2> DEFINE S == PassedOf(q) \ q.noted
  <2>1. IsFiniteSet(S) /\ i \notin S /\ PassedOf(a) \ q.noted = S \union {i}
    BY <1>3, <1>4, <1>5, CandidatesFinite
  <2>2. Cardinality(S \union {i}) = Cardinality(S) + 1
    BY <2>1, FS_AddElement
  <2>3. S \union {i} \in SUBSET Providers
    BY <1>1, <1>3
  <2>4. Cardinality(S \union {i}) \in 0..Candidates
    BY <2>3, CandidatesFinite
  <2> QED
    BY <2>1, <2>2, <2>4, <1>2, <1>5
<1> HIDE DEF running
<1>7. /\ r \in Race /\ r.running = running /\ r.noted = q.noted /\ r.mail = q.mail
      /\ r.stage = a.stage /\ r.index = a.index
  BY <1>2, <1>6 DEF Race
<1>8. uh \in [Providers -> Thread] /\ uh[i] = "working" /\ \A c \in Providers : c # i => uh[c] = th[c]
  BY <1>1 DEF Thread
<1> HIDE DEF r, uh
<1>9. PassedOf(r) = PassedOf(q) \union {i}
  BY <1>4, <1>7 DEF PassedOf
<1>10. i \notin q.noted /\ From(q.mail, i) = {} /\ running = Cardinality(PassedOf(r) \ q.noted)
  BY <1>1, <1>3, <1>4, <1>5, <1>6, <1>9 DEF Books
<1>11. \A c \in PassedOf(q) : c \in Providers /\ c # i
  BY <1>3
<1>12. Books(r, uh)
  <2>1. r.noted \subseteq PassedOf(r) /\ r.running = Cardinality(PassedOf(r) \ r.noted)
    BY <1>5, <1>7, <1>9, <1>10
  <2>2. ASSUME NEW c \in PassedOf(r)
        PROVE  IF c \in r.noted \/ uh[c] # "none"
               THEN From(r.mail, c) = {} /\ ~ (c \in r.noted /\ uh[c] # "none")
               ELSE \E k \in DOMAIN r.mail : From(r.mail, c) = {k}
    <3>1. CASE c = i
      BY <3>1, <1>7, <1>8, <1>10
    <3>2. CASE c # i
      BY <3>2, <1>7, <1>8, <1>9, <1>11 DEF Books
    <3> QED
      BY <3>1, <3>2
  <2>3. ASSUME NEW c \in Providers \ PassedOf(r)
        PROVE  uh[c] = "none" /\ From(r.mail, c) = {}
    BY <1>7, <1>8, <1>9 DEF Books
  <2> QED
    BY <2>1, <2>2, <2>3 DEF Books
<1>13. r.stage \in {"claiming", "receiving"}
  BY <1>2, <1>7
<1> QED
  BY <1>7, <1>12, <1>13 DEF r, uh, running, a, i

\* A message of a thread of the race, whose stage is "none" from now on.
LEMMA SendBooks ==
  ASSUME NEW q \in Race, NEW th \in [Providers -> Thread], Books(q, th), NEW c \in Providers,
         th[c] \in Results, q.stage # "off"
  PROVE  /\ [q EXCEPT !.mail = Append(@, [from |-> c, result |-> th[c]])] \in Race
         /\ Books([q EXCEPT !.mail = Append(@, [from |-> c, result |-> th[c]])], [th EXCEPT ![c] = "none"])
<1> DEFINE msg == [from |-> c, result |-> th[c]]
           mail == Append(q.mail, msg)
           r == [q EXCEPT !.mail = mail]
           uh == [th EXCEPT ![c] = "none"]
<1>1. msg \in Message /\ q.mail \in Seq(Message) /\ msg.from = c
  BY DEF Message, Race
<1> HIDE DEF msg
<1>2. /\ mail \in Seq(Message) /\ DOMAIN mail = 1..(Len(q.mail) + 1)
      /\ DOMAIN q.mail = 1..Len(q.mail) /\ Len(q.mail) \in Nat
  BY <1>1
<1>3. \A d : From(mail, d) = IF d = c THEN From(q.mail, d) \union {Len(q.mail) + 1} ELSE From(q.mail, d)
  BY <1>1, FromAppend
<1> HIDE DEF mail
<1>4. /\ r \in Race /\ r.stage = q.stage /\ r.index = q.index /\ r.running = q.running
      /\ r.noted = q.noted /\ r.mail = mail
  BY <1>2 DEF Race
<1>5. uh[c] = "none" /\ \A d \in Providers : d # c => uh[d] = th[d]
  OBVIOUS
<1>6. th[c] # "none"
  BY DEF Results
<1> HIDE DEF r, uh
<1>7. PassedOf(r) = PassedOf(q) /\ PassedOf(q) \subseteq Providers
  BY <1>4, PassedIsCandidates DEF PassedOf
<1>8. c \in PassedOf(q) /\ c \notin q.noted /\ From(q.mail, c) = {}
  BY <1>6, <1>7 DEF Books
<1>9. Books(r, uh)
  <2>1. r.noted \subseteq PassedOf(r) /\ r.running = Cardinality(PassedOf(r) \ r.noted)
    BY <1>4, <1>7 DEF Books
  <2>2. ASSUME NEW d \in PassedOf(r)
        PROVE  IF d \in r.noted \/ uh[d] # "none"
               THEN From(r.mail, d) = {} /\ ~ (d \in r.noted /\ uh[d] # "none")
               ELSE \E k \in DOMAIN r.mail : From(r.mail, d) = {k}
    <3>1. CASE d = c
      <4>1. From(r.mail, d) = {Len(q.mail) + 1} /\ Len(q.mail) + 1 \in DOMAIN r.mail
        BY <3>1, <1>2, <1>3, <1>4, <1>8
      <4> QED
        BY <3>1, <4>1, <1>4, <1>5, <1>8
    <3>2. CASE d # c
      <4>1. From(r.mail, d) = From(q.mail, d) /\ uh[d] = th[d] /\ DOMAIN q.mail \subseteq DOMAIN r.mail
        BY <3>2, <1>2, <1>3, <1>4, <1>5, <1>7
      <4> QED
        BY <4>1, <1>4, <1>7 DEF Books
    <3> QED
      BY <3>1, <3>2
  <2>3. ASSUME NEW d \in Providers \ PassedOf(r)
        PROVE  uh[d] = "none" /\ From(r.mail, d) = {}
    BY <1>3, <1>4, <1>5, <1>7, <1>8 DEF Books
  <2> QED
    BY <2>1, <2>2, <2>3 DEF Books
<1> QED
  BY <1>4, <1>9 DEF r, uh, mail, msg

\* A thread gets its result; the message follows.
LEMMA AnswerBooks ==
  ASSUME NEW q \in Race, NEW th \in [Providers -> Thread], Books(q, th), NEW c \in Providers,
         th[c] = "working", NEW result \in Results
  PROVE  Books(q, [th EXCEPT ![c] = result])
<1> DEFINE uh == [th EXCEPT ![c] = result]
<1>1. uh[c] = result /\ result # "none" /\ \A d \in Providers : d # c => uh[d] = th[d]
  BY DEF Results
<1> HIDE DEF uh
<1>2. PassedOf(q) \subseteq Providers
  BY PassedIsCandidates
<1>3. \A d \in Providers : uh[d] = "none" <=> th[d] = "none"
  BY <1>1
<1>4. Books(q, uh)
  BY <1>2, <1>3 DEF Books
<1> QED
  BY <1>4 DEF uh

\* The race reads a result without records.
LEMMA RejectBooks ==
  ASSUME NEW q \in Race, NEW th \in [Providers -> Thread], Books(q, th),
         q.stage = "receiving", q.mail # <<>>
  PROVE  LET r == [Noted(q, Head(q.mail).from) EXCEPT !.mail = Tail(@), !.running = @ - 1]
         IN r \in Race /\ r.stage = "receiving" /\ Books(r, th)
<1> DEFINE c == Head(q.mail).from
           n == Noted(q, c)
           rest == Tail(q.mail)
           running == q.running - 1
           r == [n EXCEPT !.mail = rest, !.running = running]
<1>1. /\ q.mail \in Seq(Message) /\ Head(q.mail) \in Message /\ rest \in Seq(Message)
      /\ DOMAIN q.mail = 1..Len(q.mail) /\ DOMAIN rest = 1..(Len(q.mail) - 1) /\ Len(q.mail) \in Nat \ {0}
  BY DEF Race
<1>2. c \in Providers
  BY <1>1 DEF Message
<1>3. /\ \A d : 1 \in From(q.mail, d) <=> c = d
      /\ \A d : \A k \in Nat : k \in From(rest, d) <=> k # 0 /\ k + 1 \in From(q.mail, d)
      /\ \A d : From(rest, d) \subseteq Nat
  BY <1>1, FromTail
<1>4. n \in Race /\ n.noted = q.noted \union {c} /\ n.stage = q.stage /\ n.index = q.index
      /\ n.running = q.running /\ n.mail = q.mail
  BY <1>2, NotedFacts
<1>12. [Noted(q, Head(q.mail).from) EXCEPT !.mail = Tail(@), !.running = @ - 1] = r
  BY <1>4
<1> HIDE DEF c
<1>5. PassedOf(q) = Providers /\ q.running = Cardinality(Providers \ q.noted)
  BY DEF PassedOf, Books
<1>6. c \notin q.noted /\ th[c] = "none" /\ From(q.mail, c) = {1}
  BY <1>2, <1>3, <1>5 DEF Books
<1>7. running = Cardinality(Providers \ (q.noted \union {c})) /\ running \in 0..Candidates
  <2> DEFINE S == Providers \ q.noted
  <2>1. IsFiniteSet(S) /\ c \in S /\ S \ {c} = Providers \ (q.noted \union {c}) /\ S \ {c} \in SUBSET Providers
        /\ S \in SUBSET Providers
    BY <1>2, <1>6, CandidatesFinite
  <2>2. Cardinality(S \ {c}) = Cardinality(S) - 1
    BY <2>1, FS_RemoveElement
  <2>3. Cardinality(S \ {c}) \in 0..Candidates
    BY <2>1, CandidatesFinite
  <2> QED
    BY <2>1, <2>2, <2>3, <1>5
<1> HIDE DEF n, rest, running
<1>8. /\ r \in Race /\ r.stage = "receiving" /\ r.running = running
      /\ r.noted = q.noted \union {c} /\ r.mail = rest
  BY <1>1, <1>4, <1>7 DEF Race
<1> HIDE DEF r
<1>9. PassedOf(r) = Providers
  BY <1>8 DEF PassedOf
<1>10. ASSUME NEW d \in Providers
       PROVE  IF d \in r.noted \/ th[d] # "none"
              THEN From(r.mail, d) = {} /\ ~ (d \in r.noted /\ th[d] # "none")
              ELSE \E k \in DOMAIN r.mail : From(r.mail, d) = {k}
  <2>1. CASE d = c
    <3>1. From(rest, c) = {}
      BY <1>3, <1>6
    <3> QED
      BY <2>1, <3>1, <1>6, <1>8
  <2>2. CASE d # c /\ (d \in q.noted \/ th[d] # "none")
    <3>1. From(q.mail, d) = {} /\ ~ (d \in q.noted /\ th[d] # "none")
      BY <2>2, <1>5 DEF Books
    <3>2. From(rest, d) = {}
      BY <3>1, <1>3
    <3> QED
      BY <2>2, <3>1, <3>2, <1>8
  <2>3. CASE d # c /\ ~ (d \in q.noted \/ th[d] # "none")
    <3>1. PICK k \in DOMAIN q.mail : From(q.mail, d) = {k}
      BY <2>3, <1>5 DEF Books
    <3>2. k # 1 /\ k - 1 \in DOMAIN rest
      BY <2>3, <3>1, <1>1, <1>3
    <3>3. k \in Nat /\ \A j \in Nat : j \in From(rest, d) <=> j # 0 /\ j + 1 = k
      BY <3>1, <1>1, <1>3
    <3>4. From(rest, d) = {k - 1}
      BY <3>2, <3>3, <1>1, <1>3
    <3> QED
      BY <2>3, <3>2, <3>4, <1>8
  <2> QED
    BY <2>1, <2>2, <2>3
<1>11. Books(r, th)
  <2>1. r.noted \subseteq Providers /\ r.running = Cardinality(Providers \ r.noted)
    BY <1>2, <1>7, <1>8 DEF Race
  <2> QED
    BY <1>9, <1>10, <2>1 DEF Books
<1> QED
  BY <1>8, <1>11, <1>12

-----------------------------------------------------------------------------
(* The steps of all races *)

\* One race and its threads change; the gates are as they were, or the gate of
\* one candidate changes hands.
LEMMA OneRace ==
  ASSUME RaceInv, NEW w \in Workers, NEW q \in Race, NEW th \in [Providers -> Thread],
         race' = [race EXCEPT ![w] = q], thread' = [thread EXCEPT ![w] = th], Books(q, th)
  PROVE  /\ race' \in [Workers -> Race] /\ thread' \in [Workers -> [Providers -> Thread]]
         /\ race'[w] = q /\ thread'[w] = th
         /\ \A v \in Workers : v # w => race'[v] = race[v] /\ thread'[v] = thread[v]
         /\ Accounted' /\ NotedPassed'
<1>1. race \in [Workers -> Race] /\ thread \in [Workers -> [Providers -> Thread]]
  BY DEF RaceInv, RaceTypeOK
<1>2. /\ race' \in [Workers -> Race] /\ thread' \in [Workers -> [Providers -> Thread]]
      /\ race'[w] = q /\ thread'[w] = th
      /\ \A v \in Workers : v # w => race'[v] = race[v] /\ thread'[v] = thread[v]
  BY <1>1
<1>3. \A v \in Workers : Books(race[v], thread[v])
  BY BooksAreAccounts DEF RaceInv
<1>4. \A v \in Workers : Books(race'[v], thread'[v])
  BY <1>2, <1>3
<1>5. Accounted' /\ NotedPassed'
  BY <1>4 DEF Accounted, NotedPassed, Books, PassedOf, Passed, Unread, From
<1> QED
  BY <1>2, <1>5

\* Nobody else's holding changes.
LEMMA HoldersOfOthers ==
  ASSUME NEW w \in Workers, NEW c \in Providers,
         \A v \in Workers : v # w => race'[v] = race[v] /\ thread'[v] = thread[v],
         w \in Holders(c)' <=> w \in Holders(c)
  PROVE  Holders(c)' = Holders(c)
<1> QED
  BY DEF Holders

LEMMA StartRaceInv ==
  ASSUME RaceInv, NEW w \in Workers, StartRace(w)
  PROVE  RaceInv'
<1> DEFINE q == [NoRace EXCEPT !.stage = "claiming"]
<1>1. race \in [Workers -> Race] /\ thread \in [Workers -> [Providers -> Thread]]
      /\ gate \in [Providers -> BOOLEAN]
  BY DEF RaceInv, RaceTypeOK
<1>2. 1 \in Providers /\ 0 \in 0..Candidates
  BY CandidatesAssumption DEF Providers
<1>3. q \in Race /\ q.stage = "claiming" /\ q.index = 1 /\ q.noted = {} /\ q.mail = <<>> /\ q.running = 0
  <2>1. <<>> \in Seq(Message)
    OBVIOUS
  <2>2. NoRace \in Race /\ NoRace.index = 1 /\ NoRace.noted = {} /\ NoRace.mail = <<>> /\ NoRace.running = 0
    BY <1>2, <2>1 DEF NoRace, Race
  <2> QED
    BY <2>2 DEF Race
<1>4. race' = [race EXCEPT ![w] = q] /\ UNCHANGED <<thread, gate>>
  BY DEF StartRace
<1>5. \A c \in Providers : thread[w][c] = "none"
  BY DEF StartRace, Quiet
<1> HIDE DEF q
<1>6. Books(q, thread[w])
  <2>1. PassedOf(q) = {}
    BY <1>3 DEF PassedOf
  <2>2. \A c \in Providers : From(q.mail, c) = {}
    BY <1>3 DEF From
  <2>3. Cardinality(PassedOf(q) \ q.noted) = 0
    BY <2>1, <1>3, FS_EmptySet
  <2> QED
    BY <1>3, <1>5, <2>1, <2>2, <2>3 DEF Books
<1>7. thread[w] \in [Providers -> Thread] /\ thread' = [thread EXCEPT ![w] = thread[w]]
  BY <1>1, <1>4
<1>8. /\ race' \in [Workers -> Race] /\ thread' \in [Workers -> [Providers -> Thread]]
      /\ race'[w] = q /\ thread'[w] = thread[w]
      /\ \A v \in Workers : v # w => race'[v] = race[v] /\ thread'[v] = thread[v]
      /\ Accounted' /\ NotedPassed'
  BY <1>3, <1>4, <1>6, <1>7, OneRace
<1>9. \A c \in Providers : Holders(c)' = Holders(c)
  BY <1>3, <1>5, <1>8, HoldersOfOthers DEF Holders, StartRace
<1>10. GateExact'
  BY <1>4, <1>9 DEF GateExact, RaceInv
<1> QED
  BY <1>1, <1>4, <1>8, <1>10 DEF RaceInv, RaceTypeOK

\* A race that ends or reads an answer: it was receiving, and holds no gate.
LEMMA ReceivingInv ==
  ASSUME RaceInv, NEW w \in Workers, NEW q \in Race, race[w].stage = "receiving",
         race' = [race EXCEPT ![w] = q], q.stage # "spawning",
         Books(q, thread[w]), UNCHANGED <<thread, gate>>
  PROVE  RaceInv'
<1>1. race \in [Workers -> Race] /\ thread \in [Workers -> [Providers -> Thread]]
      /\ gate \in [Providers -> BOOLEAN]
  BY DEF RaceInv, RaceTypeOK
<1>2. thread[w] \in [Providers -> Thread] /\ thread' = [thread EXCEPT ![w] = thread[w]]
  BY <1>1
<1>3. /\ race' \in [Workers -> Race] /\ thread' \in [Workers -> [Providers -> Thread]]
      /\ race'[w] = q /\ thread'[w] = thread[w]
      /\ \A v \in Workers : v # w => race'[v] = race[v] /\ thread'[v] = thread[v]
      /\ Accounted' /\ NotedPassed'
  BY <1>2, OneRace
<1>4. \A c \in Providers : Holders(c)' = Holders(c)
  BY <1>3, HoldersOfOthers DEF Holders
<1>5. GateExact'
  BY <1>4 DEF GateExact, RaceInv
<1> QED
  BY <1>1, <1>3, <1>5 DEF RaceInv, RaceTypeOK

LEMMA EndsInv ==
  ASSUME RaceInv, NEW w \in Workers, RaceEnds(w) \/ Rejects(w)
  PROVE  RaceInv'
<1>1. race[w] \in Race /\ thread[w] \in [Providers -> Thread] /\ Books(race[w], thread[w])
  BY BooksAreAccounts DEF RaceInv, RaceTypeOK
<1>2. CASE RaceEnds(w)
  <2>1. NoRace \in Race /\ NoRace.stage = "off"
    BY CandidatesAssumption DEF NoRace, Race, Providers
  <2>2. race[w].stage = "receiving" /\ race' = [race EXCEPT ![w] = NoRace] /\ UNCHANGED <<thread, gate>>
    BY <1>2 DEF RaceEnds, Wins, CanReceive, Fails, Exhausted
  <2>3. Books(NoRace, thread[w])
    BY <2>1 DEF Books
  <2> QED
    BY <2>1, <2>2, <2>3, ReceivingInv
<1>3. CASE Rejects(w)
  <2> DEFINE q == [Noted(race[w], Head(race[w].mail).from) EXCEPT !.mail = Tail(@), !.running = @ - 1]
  <2>1. race[w].stage = "receiving" /\ race[w].mail # <<>> /\ UNCHANGED <<thread, gate>>
    BY <1>3 DEF Rejects, CanReceive
  <2>2. race' = [race EXCEPT ![w] = q]
    BY <1>3 DEF Rejects
  <2>3. q \in Race /\ q.stage = "receiving" /\ Books(q, thread[w])
    BY <1>1, <2>1, RejectBooks
  <2> HIDE DEF q
  <2> QED
    BY <2>1, <2>2, <2>3, ReceivingInv
<1> QED
  BY <1>2, <1>3

LEMMA ClaimInv ==
  ASSUME RaceInv, NEW w \in Workers, Claim(w)
  PROVE  RaceInv'
<1>1. race \in [Workers -> Race] /\ thread \in [Workers -> [Providers -> Thread]]
      /\ gate \in [Providers -> BOOLEAN]
  BY DEF RaceInv, RaceTypeOK
<1>2. /\ race[w] \in Race /\ thread[w] \in [Providers -> Thread] /\ Books(race[w], thread[w])
      /\ thread' = [thread EXCEPT ![w] = thread[w]] /\ thread' = thread
  BY <1>1, BooksAreAccounts DEF RaceInv, Claim
<1>3. PICK c \in Providers : c = race[w].index /\ race[w].stage = "claiming"
  BY <1>2 DEF Race, Claim
<1>4. GateExact
  BY DEF RaceInv
<1>5. CASE gate[c]
  <2> DEFINE q == Advanced(Noted(race[w], race[w].index))
  <2>1. race' = [race EXCEPT ![w] = q] /\ UNCHANGED gate
    BY <1>3, <1>5 DEF Claim
  <2>2. q \in Race /\ q.stage \in {"claiming", "receiving"} /\ Books(q, thread[w])
    BY <1>2, <1>3, PassNoted
  <2> HIDE DEF q
  <2>3. /\ race' \in [Workers -> Race] /\ thread' \in [Workers -> [Providers -> Thread]]
        /\ race'[w] = q /\ thread'[w] = thread[w]
        /\ \A v \in Workers : v # w => race'[v] = race[v] /\ thread'[v] = thread[v]
        /\ Accounted' /\ NotedPassed'
    BY <1>2, <2>1, <2>2, OneRace
  <2>4. \A d \in Providers : Holders(d)' = Holders(d)
    BY <1>3, <2>2, <2>3, HoldersOfOthers DEF Holders
  <2>5. GateExact'
    BY <1>4, <2>1, <2>4 DEF GateExact
  <2> QED
    BY <1>1, <2>1, <2>3, <2>5 DEF RaceInv, RaceTypeOK
<1>6. CASE ~ gate[c]
  <2> DEFINE q == [race[w] EXCEPT !.stage = "spawning"]
  <2>1. race' = [race EXCEPT ![w] = q] /\ gate' = [gate EXCEPT ![c] = TRUE]
    BY <1>3, <1>6 DEF Claim
  <2>2. /\ q \in Race /\ q.stage = "spawning" /\ q.index = c /\ q.noted = race[w].noted
        /\ q.mail = race[w].mail /\ q.running = race[w].running
    BY <1>2, <1>3 DEF Race
  <2> HIDE DEF q
  <2>3. Books(q, thread[w])
    <3>1. PassedOf(q) = PassedOf(race[w])
      BY <1>3, <2>2 DEF PassedOf
    <3> QED
      BY <1>2, <1>3, <2>2, <3>1 DEF Books
  <2>4. /\ race' \in [Workers -> Race] /\ thread' \in [Workers -> [Providers -> Thread]]
        /\ race'[w] = q /\ thread'[w] = thread[w]
        /\ \A v \in Workers : v # w => race'[v] = race[v] /\ thread'[v] = thread[v]
        /\ Accounted' /\ NotedPassed'
    BY <1>2, <2>1, <2>2, <2>3, OneRace
  <2>5. Holders(c) = {}
    BY <1>1, <1>3, <1>4, <1>6 DEF GateExact
  <2>6. Holders(c)' = {w}
    BY <2>2, <2>4, <2>5, <1>3 DEF Holders
  <2>7. \A d \in Providers \ {c} : Holders(d)' = Holders(d)
    BY <1>3, <2>2, <2>4, HoldersOfOthers DEF Holders
  <2>8. GateExact'
    <3>1. gate'[c] = TRUE /\ \A d \in Providers \ {c} : gate'[d] = gate[d]
      BY <1>1, <1>3, <2>1
    <3>2. ASSUME NEW d \in Providers \ {c}
          PROVE  (gate'[d] <=> Holders(d)' # {}) /\ \A u, v \in Holders(d)' : u = v
      BY <1>4, <2>7, <3>1 DEF GateExact
    <3>3. (gate'[c] <=> Holders(c)' # {}) /\ \A u, v \in Holders(c)' : u = v
      BY <2>6, <3>1
    <3> QED
      BY <3>2, <3>3 DEF GateExact
  <2>9. gate' \in [Providers -> BOOLEAN]
    BY <1>1, <2>1
  <2> QED
    BY <2>4, <2>8, <2>9 DEF RaceInv, RaceTypeOK
<1> QED
  BY <1>5, <1>6

\* The gate that was claimed goes to the new thread.
LEMMA SpawnInv ==
  ASSUME RaceInv, NEW w \in Workers, Spawn(w)
  PROVE  RaceInv'
<1> DEFINE c == race[w].index
           q == [Advanced(race[w]) EXCEPT !.running = @ + 1]
           th == [thread[w] EXCEPT ![c] = "working"]
<1>1. race \in [Workers -> Race] /\ thread \in [Workers -> [Providers -> Thread]]
      /\ gate \in [Providers -> BOOLEAN]
  BY DEF RaceInv, RaceTypeOK
<1>2. race[w] \in Race /\ thread[w] \in [Providers -> Thread] /\ Books(race[w], thread[w])
  BY <1>1, BooksAreAccounts DEF RaceInv
<1>3. c \in Providers /\ race[w].stage = "spawning"
  BY <1>2 DEF Race, Spawn
<1>4. race' = [race EXCEPT ![w] = q] /\ thread' = [thread EXCEPT ![w] = th] /\ UNCHANGED gate
  BY <1>1 DEF Spawn
<1>5. q \in Race /\ q.stage \in {"claiming", "receiving"} /\ Books(q, th)
  BY <1>2, <1>3, PassSpawned
<1>6. th \in [Providers -> Thread] /\ th[c] = "working" /\ \A d \in Providers : d # c => th[d] = thread[w][d]
  BY <1>2, <1>3 DEF Thread
<1> HIDE DEF q, th
<1>7. /\ race' \in [Workers -> Race] /\ thread' \in [Workers -> [Providers -> Thread]]
      /\ race'[w] = q /\ thread'[w] = th
      /\ \A v \in Workers : v # w => race'[v] = race[v] /\ thread'[v] = thread[v]
      /\ Accounted' /\ NotedPassed'
  BY <1>4, <1>5, <1>6, OneRace
<1>8. \A d \in Providers : Holders(d)' = Holders(d)
  <2>1. ASSUME NEW d \in Providers PROVE w \in Holders(d)' <=> w \in Holders(d)
    BY <1>3, <1>5, <1>6, <1>7 DEF Holders
  <2> QED
    BY <1>7, <2>1, HoldersOfOthers
<1>9. GateExact'
  BY <1>4, <1>8 DEF GateExact, RaceInv
<1> QED
  BY <1>1, <1>4, <1>7, <1>9 DEF RaceInv, RaceTypeOK

\* The only holder of the gate lets go of it.
LEMMA GateFreed ==
  ASSUME RaceInv, NEW w \in Workers, NEW c \in Providers,
         \A v \in Workers : v # w => race'[v] = race[v] /\ thread'[v] = thread[v],
         w \in Holders(c), w \notin Holders(c)',
         \A d \in Providers \ {c} : w \in Holders(d)' <=> w \in Holders(d),
         gate' = [gate EXCEPT ![c] = FALSE]
  PROVE  GateExact' /\ gate' \in [Providers -> BOOLEAN]
<1>1. gate \in [Providers -> BOOLEAN] /\ GateExact
  BY DEF RaceInv, RaceTypeOK
<1>2. \A v \in Holders(c) : v = w
  BY <1>1 DEF GateExact
<1>3. Holders(c)' = {}
  BY <1>2 DEF Holders
<1>4. \A d \in Providers \ {c} : Holders(d)' = Holders(d)
  BY HoldersOfOthers
<1> QED
  BY <1>1, <1>3, <1>4 DEF GateExact

LEMMA SpawnFailsInv ==
  ASSUME RaceInv, NEW w \in Workers, SpawnFails(w)
  PROVE  RaceInv'
<1> DEFINE q == Advanced(Noted(race[w], race[w].index))
<1>1. race \in [Workers -> Race] /\ thread \in [Workers -> [Providers -> Thread]]
  BY DEF RaceInv, RaceTypeOK
<1>2. /\ race[w] \in Race /\ thread[w] \in [Providers -> Thread] /\ Books(race[w], thread[w])
      /\ thread' = [thread EXCEPT ![w] = thread[w]] /\ thread' = thread
  BY <1>1, BooksAreAccounts DEF RaceInv, SpawnFails
<1>3. PICK c \in Providers : c = race[w].index /\ race[w].stage = "spawning"
  BY <1>2 DEF Race, SpawnFails
<1>4. race' = [race EXCEPT ![w] = q] /\ gate' = [gate EXCEPT ![c] = FALSE]
  BY <1>3 DEF SpawnFails
<1>5. q \in Race /\ q.stage \in {"claiming", "receiving"} /\ Books(q, thread[w])
  BY <1>2, <1>3, PassNoted
<1>6. thread[w][c] = "none"
  BY <1>2, <1>3, PassedIsCandidates DEF Books
<1> HIDE DEF q
<1>7. /\ race' \in [Workers -> Race] /\ thread' \in [Workers -> [Providers -> Thread]]
      /\ race'[w] = q /\ thread'[w] = thread[w]
      /\ \A v \in Workers : v # w => race'[v] = race[v] /\ thread'[v] = thread[v]
      /\ Accounted' /\ NotedPassed'
  BY <1>2, <1>4, <1>5, OneRace
<1>8. w \in Holders(c) /\ w \notin Holders(c)'
      /\ \A d \in Providers \ {c} : w \in Holders(d)' <=> w \in Holders(d)
  BY <1>3, <1>5, <1>6, <1>7 DEF Holders
<1>9. GateExact' /\ gate' \in [Providers -> BOOLEAN]
  BY <1>3, <1>4, <1>7, <1>8, GateFreed
<1> QED
  BY <1>7, <1>9 DEF RaceInv, RaceTypeOK

LEMMA AnswerInv ==
  ASSUME RaceInv, NEW w \in Workers, NEW c \in Providers, Answer(w, c)
  PROVE  RaceInv'
<1>1. race \in [Workers -> Race] /\ thread \in [Workers -> [Providers -> Thread]]
  BY DEF RaceInv, RaceTypeOK
<1>2. /\ race[w] \in Race /\ thread[w] \in [Providers -> Thread] /\ Books(race[w], thread[w])
      /\ race' = [race EXCEPT ![w] = race[w]] /\ race' = race
  BY <1>1, BooksAreAccounts DEF RaceInv, Answer
<1>3. PICK result \in Results : thread' = [thread EXCEPT ![w][c] = result]
  BY DEF Answer
<1> DEFINE th == [thread[w] EXCEPT ![c] = result]
<1>4. thread' = [thread EXCEPT ![w] = th] /\ gate' = [gate EXCEPT ![c] = FALSE] /\ thread[w][c] = "working"
  BY <1>1, <1>3 DEF Answer
<1>5. Books(race[w], th)
  BY <1>2, <1>4, AnswerBooks
<1>6. th \in [Providers -> Thread] /\ th[c] # "working" /\ \A d \in Providers : d # c => th[d] = thread[w][d]
  BY <1>2 DEF Thread, Results
<1> HIDE DEF th
<1>7. /\ race' \in [Workers -> Race] /\ thread' \in [Workers -> [Providers -> Thread]]
      /\ race'[w] = race[w] /\ thread'[w] = th
      /\ \A v \in Workers : v # w => race'[v] = race[v] /\ thread'[v] = thread[v]
      /\ Accounted' /\ NotedPassed'
  BY <1>2, <1>4, <1>5, <1>6, OneRace
<1>8. ~ (race[w].stage = "spawning" /\ race[w].index = c)
  BY <1>2, <1>4, PassedIsCandidates DEF Books
<1>9. w \in Holders(c) /\ w \notin Holders(c)'
      /\ \A d \in Providers \ {c} : w \in Holders(d)' <=> w \in Holders(d)
  BY <1>4, <1>6, <1>7, <1>8 DEF Holders
<1>10. GateExact' /\ gate' \in [Providers -> BOOLEAN]
  BY <1>4, <1>7, <1>9, GateFreed
<1> QED
  BY <1>7, <1>10 DEF RaceInv, RaceTypeOK

LEMMA SendInv ==
  ASSUME RaceInv, NEW w \in Workers, NEW c \in Providers, Send(w, c)
  PROVE  RaceInv'
<1> DEFINE th == [thread[w] EXCEPT ![c] = "none"]
           longer == [race[w] EXCEPT !.mail = Append(@, [from |-> c, result |-> thread[w][c]])]
           q == IF race[w].stage = "off" THEN race[w] ELSE longer
<1>1. race \in [Workers -> Race] /\ thread \in [Workers -> [Providers -> Thread]]
      /\ gate \in [Providers -> BOOLEAN]
  BY DEF RaceInv, RaceTypeOK
<1>2. race[w] \in Race /\ thread[w] \in [Providers -> Thread] /\ Books(race[w], thread[w])
  BY <1>1, BooksAreAccounts DEF RaceInv
<1>3. thread' = [thread EXCEPT ![w] = th] /\ UNCHANGED gate /\ thread[w][c] \in Results
  BY <1>1 DEF Send
<1>4. race' = [race EXCEPT ![w] = q]
  BY <1>1 DEF Send
<1>5. th \in [Providers -> Thread] /\ th[c] = "none" /\ \A d \in Providers : d # c => th[d] = thread[w][d]
  BY <1>2 DEF Thread
<1>6. q \in Race /\ Books(q, th) /\ q.stage = race[w].stage /\ q.index = race[w].index
  <2>1. CASE race[w].stage = "off"
    BY <2>1, <1>2 DEF Books
  <2>2. CASE race[w].stage # "off"
    <3>1. longer \in Race /\ Books(longer, th)
      BY <2>2, <1>2, <1>3, SendBooks
    <3>2. longer.stage = race[w].stage /\ longer.index = race[w].index
      BY <1>2 DEF Race
    <3> QED
      BY <2>2, <3>1, <3>2
  <2> QED
    BY <2>1, <2>2
<1> HIDE DEF th, q, longer
<1>7. /\ race' \in [Workers -> Race] /\ thread' \in [Workers -> [Providers -> Thread]]
      /\ race'[w] = q /\ thread'[w] = th
      /\ \A v \in Workers : v # w => race'[v] = race[v] /\ thread'[v] = thread[v]
      /\ Accounted' /\ NotedPassed'
  BY <1>3, <1>4, <1>5, <1>6, OneRace
<1>8. \A d \in Providers : Holders(d)' = Holders(d)
  <2>1. ASSUME NEW d \in Providers PROVE w \in Holders(d)' <=> w \in Holders(d)
    BY <1>3, <1>5, <1>6, <1>7 DEF Holders, Results
  <2> QED
    BY <1>7, <2>1, HoldersOfOthers
<1>9. GateExact'
  BY <1>3, <1>8 DEF GateExact, RaceInv
<1> QED
  BY <1>1, <1>3, <1>7, <1>9 DEF RaceInv, RaceTypeOK

LEMMA RaceInitInv == RaceInit => RaceInv
<1> SUFFICES ASSUME RaceInit PROVE RaceInv
  OBVIOUS
<1>1. NoRace \in Race /\ NoRace.stage = "off"
  <2>1. 1 \in Providers /\ 0 \in 0..Candidates /\ <<>> \in Seq(Message)
    BY CandidatesAssumption DEF Providers
  <2> QED
    BY <2>1 DEF NoRace, Race
<1>2. RaceTypeOK
  BY <1>1 DEF RaceInit, RaceTypeOK, Thread
<1>3. \A w \in Workers : race[w].stage = "off" /\ \A c \in Providers : thread[w][c] = "none"
  BY <1>1 DEF RaceInit
<1>4. \A c \in Providers : gate[c] = FALSE /\ Holders(c) = {}
  BY <1>3 DEF RaceInit, Holders
<1>5. GateExact /\ Accounted /\ NotedPassed
  BY <1>3, <1>4 DEF GateExact, Accounted, NotedPassed
<1> QED
  BY <1>2, <1>5 DEF RaceInv

LEMMA RaceNextInv == RaceInv /\ [RaceNext]_raceVars => RaceInv'
<1> SUFFICES ASSUME RaceInv, [RaceNext]_raceVars PROVE RaceInv'
  OBVIOUS
<1>1. CASE UNCHANGED raceVars
  <2>1. race' = race /\ thread' = thread /\ gate' = gate
    BY <1>1 DEF raceVars
  <2>2. RaceTypeOK'
    BY <2>1 DEF RaceInv, RaceTypeOK
  <2>3. GateExact'
    BY <2>1 DEF RaceInv, GateExact, Holders
  <2>4. Accounted' <=> Accounted
    BY <2>1 DEF Accounted, Passed, Unread
  <2>5. NotedPassed' <=> NotedPassed
    BY <2>1 DEF NotedPassed, Passed
  <2> QED
    BY <2>2, <2>3, <2>4, <2>5 DEF RaceInv
<1>2. CASE RaceNext
  <2>1. PICK w \in Workers : \/ StartRace(w) \/ RaceStep(w) \/ RaceEnds(w)
                            \/ \E c \in Providers : ThreadStep(w, c)
    BY <1>2 DEF RaceNext
  <2>2. CASE StartRace(w)
    BY <2>2, StartRaceInv
  <2>3. CASE RaceStep(w)
    BY <2>3, ClaimInv, SpawnInv, SpawnFailsInv, EndsInv DEF RaceStep
  <2>4. CASE RaceEnds(w)
    BY <2>4, EndsInv
  <2>5. CASE \E c \in Providers : ThreadStep(w, c)
    BY <2>5, AnswerInv, SendInv DEF ThreadStep
  <2> QED
    BY <2>1, <2>2, <2>3, <2>4, <2>5
<1> QED
  BY <1>1, <1>2

\* FailsWhenExhausted, as a property of a step.
ExhaustedStep ==
  \A w \in Workers : race[w].stage = "receiving" /\ race'[w].stage = "off" =>
    \/ race[w].mail # <<>> /\ Head(race[w].mail).result = "records"
    \/ race[w].noted = Providers

\* Only the worker's own step changes its stage.
LEMMA StageOfOthers ==
  ASSUME RaceInv, NEW w \in Workers, NEW v \in Workers, v # w,
         StartRace(w) \/ RaceStep(w) \/ RaceEnds(w) \/ \E c \in Providers : ThreadStep(w, c)
  PROVE  race'[v] = race[v]
<1>1. race \in [Workers -> Race]
  BY DEF RaceInv, RaceTypeOK
<1> QED
  BY <1>1 DEF StartRace, RaceStep, RaceEnds, ThreadStep, Claim, Spawn, SpawnFails, Rejects, Wins, Fails,
              Answer, Send

LEMMA ThreadKeepsStage ==
  ASSUME RaceInv, NEW w \in Workers, NEW c \in Providers, ThreadStep(w, c)
  PROVE  race'[w].stage = race[w].stage
<1>1. race \in [Workers -> Race] /\ race[w] \in Race
  BY DEF RaceInv, RaceTypeOK
<1>2. CASE Answer(w, c)
  BY <1>2 DEF Answer
<1>3. CASE Send(w, c)
  BY <1>1, <1>3 DEF Send, Race
<1> QED
  BY <1>2, <1>3 DEF ThreadStep

\* The loop does not end the race.
LEMMA StepKeepsRace ==
  ASSUME RaceInv, NEW w \in Workers, Claim(w) \/ Spawn(w) \/ SpawnFails(w) \/ Rejects(w)
  PROVE  race[w].stage # "off" /\ race'[w].stage # "off"
<1>1. /\ race \in [Workers -> Race] /\ race[w] \in Race /\ race[w].index \in Providers
      /\ Books(race[w], thread[w]) /\ thread[w] \in [Providers -> Thread]
  BY BooksAreAccounts DEF RaceInv, RaceTypeOK, Race
<1>2. \A q \in Race : Advanced(q).stage # "off" /\ Advanced(q) \in Race
  BY AdvancedFacts
<1>3. CASE Claim(w)
  <2> DEFINE n == Noted(race[w], race[w].index)
  <2>1. n \in Race
    BY <1>1, NotedFacts
  <2> HIDE DEF n
  <2> DEFINE a == Advanced(n)
             s == [race[w] EXCEPT !.stage = "spawning"]
  <2>2. a.stage # "off" /\ s.stage = "spawning"
    BY <1>1, <1>2, <2>1 DEF Race
  <2>3. race' = [race EXCEPT ![w] = a] \/ race' = [race EXCEPT ![w] = s]
    BY <1>1, <1>3 DEF Claim, n
  <2> HIDE DEF a, s
  <2> QED
    BY <1>1, <1>3, <2>2, <2>3 DEF Claim
<1>4. CASE Spawn(w)
  <2> DEFINE a == Advanced(race[w])
             q == [a EXCEPT !.running = @ + 1]
  <2>1. a \in Race /\ a.stage # "off"
    BY <1>1, <1>2
  <2> HIDE DEF a
  <2>2. q.stage # "off" /\ race' = [race EXCEPT ![w] = q]
    BY <1>4, <2>1 DEF Spawn, Race, a
  <2> HIDE DEF q
  <2> QED
    BY <1>1, <1>4, <2>2 DEF Spawn
<1>5. CASE SpawnFails(w)
  <2> DEFINE n == Noted(race[w], race[w].index)
  <2>1. n \in Race
    BY <1>1, NotedFacts
  <2> HIDE DEF n
  <2> DEFINE a == Advanced(n)
  <2>2. a.stage # "off"
    BY <1>2, <2>1
  <2>3. race' = [race EXCEPT ![w] = a]
    BY <1>1, <1>5 DEF SpawnFails, n
  <2> HIDE DEF a
  <2> QED
    BY <1>1, <1>5, <2>2, <2>3 DEF SpawnFails
<1>6. CASE Rejects(w)
  <2> DEFINE q == [Noted(race[w], Head(race[w].mail).from) EXCEPT !.mail = Tail(@), !.running = @ - 1]
  <2>1. q.stage = "receiving"
    BY <1>1, <1>6, RejectBooks DEF Rejects, CanReceive
  <2>2. race' = [race EXCEPT ![w] = q]
    BY <1>6 DEF Rejects
  <2> HIDE DEF q
  <2> QED
    BY <1>1, <1>6, <2>1, <2>2 DEF Rejects, CanReceive
<1> QED
  BY <1>3, <1>4, <1>5, <1>6

LEMMA RaceNextExhausted == RaceInv /\ [RaceNext]_raceVars => ExhaustedStep
<1> SUFFICES ASSUME RaceInv, [RaceNext]_raceVars, NEW v \in Workers,
                    race[v].stage = "receiving", race'[v].stage = "off"
             PROVE  \/ race[v].mail # <<>> /\ Head(race[v].mail).result = "records"
                    \/ race[v].noted = Providers
  BY DEF ExhaustedStep
<1>1. race \in [Workers -> Race] /\ race[v] \in Race /\ race'[v] # race[v]
  BY DEF RaceInv, RaceTypeOK
<1>2. PICK w \in Workers : StartRace(w) \/ RaceStep(w) \/ RaceEnds(w) \/ \E c \in Providers : ThreadStep(w, c)
  BY <1>1 DEF RaceNext, raceVars
<1>3. w = v
  BY <1>1, <1>2, StageOfOthers
<1>4. ~ StartRace(v) /\ ~ RaceStep(v)
  BY StepKeepsRace DEF StartRace, RaceStep
<1>5. ~ \E c \in Providers : ThreadStep(v, c)
  BY ThreadKeepsStage
<1>6. RaceEnds(v)
  BY <1>2, <1>3, <1>4, <1>5
<1>7. CASE \E c \in Providers : Wins(v, c)
  BY <1>7 DEF Wins, CanReceive
<1>8. CASE Fails(v)
  <2>1. Cardinality(Providers \ race[v].noted) = 0
    BY <1>8, BooksAreAccounts DEF Fails, Exhausted, RaceInv, Books, PassedOf
  <2>2. IsFiniteSet(Providers \ race[v].noted)
    BY CandidatesFinite
  <2>3. Providers \ race[v].noted = {}
    BY <2>1, <2>2, FS_EmptySet
  <2> QED
    BY <1>1, <2>3 DEF Race
<1> QED
  BY <1>6, <1>7, <1>8 DEF RaceEnds

THEOREM RaceInvariance == RaceSpec => []RaceInv
<1> QED
  BY RaceInitInv, RaceNextInv, PTL DEF RaceSpec

LEMMA QueryStep == [Next]_vars => [RaceNext]_raceVars
<1> SUFFICES ASSUME [Next]_vars PROVE [RaceNext]_raceVars
  OBVIOUS
<1>1. CASE UNCHANGED vars
  BY <1>1 DEF vars, raceVars
<1>2. CASE CooldownEnds
  BY <1>2 DEF CooldownEnds
<1>3. ASSUME NEW w \in Workers,
             \/ Admit(w) \/ Begin(w) \/ Reject(w) \/ ReturnDirect(w) \/ ReturnRace(w)
             \/ Deadline(w) \/ Cancel(w) \/ NoteFailure(w) \/ NoteServed(w) \/ Pass(w) \/ Published(w)
             \/ InService(w) \/ \E c \in Providers : InThread(w, c)
      PROVE  [RaceNext]_raceVars
  <2>1. CASE \/ Admit(w) \/ Reject(w) \/ ReturnDirect(w) \/ Deadline(w) \/ Cancel(w)
             \/ NoteFailure(w) \/ NoteServed(w) \/ Pass(w) \/ Published(w)
    BY <2>1 DEF Admit, Reject, ReturnDirect, Deadline, Cancel, NoteFailure, NoteServed, Pass, Published
  <2>2. CASE Begin(w)
    BY <2>2 DEF Begin, RaceNext
  <2>3. CASE ReturnRace(w)
    BY <2>3 DEF ReturnRace, RaceNext, RaceEnds
  <2>4. CASE InService(w) \/ \E c \in Providers : InThread(w, c)
    BY <2>4 DEF InService, InThread, RaceNext
  <2> QED
    BY <1>3, <2>1, <2>2, <2>3, <2>4
<1> QED
  BY <1>1, <1>2, <1>3 DEF Next

\* Every step of a query is a step of a race, or of none: what races promise
\* in any environment they promise to queries.
THEOREM QueryImplementsRace == Spec => RaceSpec
<1>1. Init => RaceInit
  BY DEF Init
<1> QED
  BY <1>1, QueryStep, PTL DEF Spec, RaceSpec

THEOREM QueryRaceInvariance == Spec => []RaceInv
<1> QED
  BY QueryImplementsRace, RaceInvariance, PTL

\* BR-063: a candidate serves one detached thread at a time, and is busy
\* exactly as long as it does.
THEOREM GateCorrect == Spec => []GateExact
<1>1. RaceInv => GateExact
  BY DEF RaceInv
<1> QED
  BY <1>1, QueryRaceInvariance, PTL

\* No answer of a race is lost, counted twice or waited for in vain.
THEOREM AccountsCorrect == Spec => []Accounted
<1>1. RaceInv => Accounted
  BY DEF RaceInv
<1> QED
  BY <1>1, QueryRaceInvariance, PTL

\* A race fails only when no candidate can answer any more.
THEOREM ExhaustionCorrect == Spec => FailsWhenExhausted
<1>1. RaceInv /\ [RaceNext]_raceVars => [ExhaustedStep]_raceVars
  BY RaceNextExhausted
<1>2. RaceSpec => [][ExhaustedStep]_raceVars
  BY <1>1, RaceInvariance, PTL DEF RaceSpec
<1>3. RaceSpec => FailsWhenExhausted
  BY <1>2 DEF FailsWhenExhausted, ExhaustedStep
<1> QED
  BY <1>3, QueryImplementsRace, PTL

-----------------------------------------------------------------------------
(* The query path *)

\* The calls that hold a unary permit, the workers that hold a blocking one.
Callers == {w \in Workers : call[w] # Idle}

Busy == {w \in Workers : worker[w] # "none"}

CallInv == /\ call \in [Workers -> CallRecord] /\ unary \in 0..Unary
           /\ unary + Cardinality(Callers) = Unary

\* A call has no worker until it begins, so that Begin takes a permit for a
\* worker that held none; and a race is under way exactly while its worker is.
WorkInv == /\ worker \in [Workers -> {"none", "race", "direct"}] /\ blocking \in 0..Blocking
           /\ blocking + Cardinality(Busy) = Blocking

Matched == \A w \in Workers : /\ worker[w] = "race" <=> race[w].stage # "off"
                              /\ call[w].stage = "admitted" => worker[w] = "none"

HealthInv == health \in Health /\ HealthAgrees

QInv == RaceInv /\ CallInv /\ WorkInv /\ Matched /\ HealthInv

LEMMA OneMore ==
  ASSUME NEW F, F \subseteq Workers, NEW w \in Workers, w \notin F
  PROVE  Cardinality(F) \in Nat /\ Cardinality(F \union {w}) = Cardinality(F) + 1
<1>1. IsFiniteSet(F)
  BY WorkersFinite, FS_Subset
<1> QED
  BY <1>1, FS_AddElement, FS_CardinalityType

LEMMA CallersUnchanged ==
  ASSUME \A w \in Workers : call'[w] = Idle <=> call[w] = Idle
  PROVE  Callers' = Callers
<1> QED
  BY DEF Callers

\* A call that moves on keeps its permit.
LEMMA MovesOn ==
  ASSUME CallInv, NEW w \in Workers, NEW r \in CallRecord, call[w].stage # "idle", r.stage # "idle",
         call' = [call EXCEPT ![w] = r], UNCHANGED unary
  PROVE  CallInv'
<1>1. call' \in [Workers -> CallRecord]
  BY DEF CallInv
<1>2. \A v \in Workers : call'[v] = Idle <=> call[v] = Idle
  BY DEF CallInv, Idle
<1>3. Callers' = Callers
  BY <1>2, CallersUnchanged
<1> QED
  BY <1>1, <1>3 DEF CallInv

LEMMA LeaveInv ==
  ASSUME CallInv, NEW w \in Workers, call[w].stage # "idle", Leave(w)
  PROVE  CallInv' /\ call'[w] = Idle /\ \A v \in Workers : v # w => call'[v] = call[v]
<1>1. Idle \in CallRecord
  BY DEF Idle, CallRecord
<1>2. call' \in [Workers -> CallRecord] /\ call'[w] = Idle /\ call[w] # Idle
      /\ \A v \in Workers : v # w => call'[v] = call[v]
  BY <1>1 DEF CallInv, Leave, Idle
<1>3. Cardinality(Callers') \in Nat /\ Cardinality(Callers) = Cardinality(Callers') + 1
  <2>1. Callers' \subseteq Workers /\ w \notin Callers' /\ Callers = Callers' \union {w}
    BY <1>2 DEF Callers
  <2> QED
    BY <2>1, OneMore
<1>4. unary' \in 0..Unary /\ unary' + Cardinality(Callers') = Unary
  BY <1>3, LimitsPositive DEF CallInv, Leave
<1> QED
  BY <1>2, <1>4 DEF CallInv

LEMMA ReturnInv ==
  ASSUME CallInv, WorkInv, NEW w \in Workers, NEW outcome \in Outcomes, worker[w] # "none", Return(w, outcome)
  PROVE  /\ CallInv' /\ WorkInv' /\ worker'[w] = "none" /\ call'[w].stage = call[w].stage
         /\ \A v \in Workers : v # w => worker'[v] = worker[v] /\ call'[v] = call[v]
<1>1. /\ worker' \in [Workers -> {"none", "race", "direct"}] /\ worker'[w] = "none"
      /\ \A v \in Workers : v # w => worker'[v] = worker[v]
  BY DEF WorkInv, Return
<1>2. Cardinality(Busy') \in Nat /\ Cardinality(Busy) = Cardinality(Busy') + 1
  <2>1. Busy' \subseteq Workers /\ w \notin Busy' /\ Busy = Busy' \union {w}
    BY <1>1 DEF Busy
  <2> QED
    BY <2>1, OneMore
<1>3. blocking' \in 0..Blocking /\ blocking' + Cardinality(Busy') = Blocking
  BY <1>2, LimitsPositive DEF WorkInv, Return
<1>4. WorkInv'
  BY <1>1, <1>3 DEF WorkInv
<1>5. CASE call[w].stage = "waiting"
  <2> DEFINE r == [call[w] EXCEPT !.reply = outcome]
  <2>1. call[w] \in CallRecord
    BY DEF CallInv
  <2>2. r \in CallRecord /\ r.stage = "waiting"
    BY <2>1, <1>5 DEF CallRecord
  <2>3. call' = [call EXCEPT ![w] = r] /\ UNCHANGED unary
    BY <1>5 DEF Return, CallInv
  <2> HIDE DEF r
  <2>4. CallInv'
    BY <1>5, <2>2, <2>3, MovesOn
  <2>5. call'[w] = r /\ \A v \in Workers : v # w => call'[v] = call[v]
    BY <2>3 DEF CallInv
  <2> QED
    BY <1>1, <1>4, <1>5, <2>2, <2>4, <2>5
<1>6. CASE call[w].stage # "waiting"
  <2>1. call' = call /\ unary' = unary
    BY <1>6 DEF Return
  <2>2. Callers' = Callers
    BY <2>1, CallersUnchanged
  <2> QED
    BY <1>1, <1>4, <2>1, <2>2 DEF CallInv
<1> QED
  BY <1>5, <1>6

\* A call that leaves, its worker left alone.
LEMMA LeavesInv ==
  ASSUME QInv, NEW w \in Workers, call[w].stage # "idle", Leave(w),
         UNCHANGED <<raceVars, worker, blocking>>
  PROVE  CallInv' /\ WorkInv' /\ Matched'
<1>1. /\ CallInv' /\ call'[w] = Idle
      /\ \A v \in Workers : v # w => call'[v] = call[v]
  BY LeaveInv DEF QInv
<1>2. worker' = worker /\ race' = race /\ blocking' = blocking
  BY DEF raceVars
<1>3. WorkInv'
  BY <1>2 DEF QInv, WorkInv, Busy
<1>4. ASSUME NEW v \in Workers
      PROVE  /\ worker'[v] = "race" <=> race'[v].stage # "off"
             /\ call'[v].stage = "admitted" => worker'[v] = "none"
  BY <1>1, <1>2 DEF QInv, Matched, Idle
<1> QED
  BY <1>1, <1>3, <1>4 DEF Matched

\* A call that moves on, its worker left alone.
LEMMA MovesInv ==
  ASSUME QInv, NEW w \in Workers, NEW r \in CallRecord, call[w].stage # "idle",
         r.stage \notin {"idle", "admitted"}, call' = [call EXCEPT ![w] = r],
         UNCHANGED <<raceVars, worker, unary, blocking>>
  PROVE  CallInv' /\ WorkInv' /\ Matched'
<1>1. CallInv'
  BY MovesOn DEF QInv
<1>2. call'[w] = r /\ \A v \in Workers : v # w => call'[v] = call[v]
  BY DEF QInv, CallInv
<1>3. worker' = worker /\ race' = race /\ blocking' = blocking
  BY DEF raceVars
<1>4. WorkInv'
  BY <1>3 DEF QInv, WorkInv, Busy
<1>5. ASSUME NEW v \in Workers
      PROVE  /\ worker'[v] = "race" <=> race'[v].stage # "off"
             /\ call'[v].stage = "admitted" => worker'[v] = "none"
  BY <1>2, <1>3 DEF QInv, Matched
<1> QED
  BY <1>1, <1>4, <1>5 DEF Matched

LEMMA AdmitInv ==
  ASSUME QInv, NEW w \in Workers, Admit(w)
  PROVE  CallInv' /\ WorkInv' /\ Matched'
<1> DEFINE r == [call[w] EXCEPT !.stage = "admitted"]
<1>1. call[w] \in CallRecord /\ call[w] = Idle /\ call' = [call EXCEPT ![w] = r]
  BY DEF QInv, CallInv, Admit
<1>2. r \in CallRecord /\ r # Idle
  BY <1>1 DEF CallRecord, Idle
<1> HIDE DEF r
<1>3. /\ call' \in [Workers -> CallRecord] /\ call'[w] = r
      /\ \A v \in Workers : v # w => call'[v] = call[v]
  BY <1>1, <1>2 DEF QInv, CallInv
<1>4. Cardinality(Callers) \in Nat /\ Cardinality(Callers') = Cardinality(Callers) + 1
  <2>1. Callers \subseteq Workers /\ w \notin Callers /\ Callers' = Callers \union {w}
    BY <1>1, <1>2, <1>3 DEF Callers
  <2> QED
    BY <2>1, OneMore
<1>5. CallInv'
  BY <1>3, <1>4, LimitsPositive DEF QInv, CallInv, Admit
<1>6. worker' = worker /\ race' = race /\ blocking' = blocking /\ worker[w] = "none"
  BY DEF Admit, raceVars
<1>7. WorkInv'
  BY <1>6 DEF QInv, WorkInv, Busy
<1>8. ASSUME NEW v \in Workers
      PROVE  /\ worker'[v] = "race" <=> race'[v].stage # "off"
             /\ call'[v].stage = "admitted" => worker'[v] = "none"
  BY <1>3, <1>6 DEF QInv, Matched
<1> QED
  BY <1>5, <1>7, <1>8 DEF Matched

LEMMA BeginInv ==
  ASSUME QInv, NEW w \in Workers, Begin(w)
  PROVE  CallInv' /\ WorkInv' /\ Matched'
<1> DEFINE r == [call[w] EXCEPT !.stage = "waiting"]
<1>1. call[w] \in CallRecord /\ call[w].stage = "admitted" /\ call' = [call EXCEPT ![w] = r]
      /\ race \in [Workers -> Race]
  BY DEF QInv, CallInv, RaceInv, RaceTypeOK, Begin
<1>2. r \in CallRecord /\ r.stage = "waiting"
  BY <1>1 DEF CallRecord
<1> HIDE DEF r
<1>3. call'[w] = r /\ \A v \in Workers : v # w => call'[v] = call[v]
  BY <1>1 DEF QInv, CallInv
<1>4. CallInv'
  BY <1>1, <1>2, MovesOn DEF QInv, Begin
<1>5. worker[w] = "none"
  BY <1>1 DEF QInv, Matched
<1>6. PICK kind \in {"race", "direct"} : /\ worker' = [worker EXCEPT ![w] = kind]
                                       /\ IF kind = "race" THEN StartRace(w) ELSE UNCHANGED raceVars
  BY DEF Begin
<1>7. /\ worker' \in [Workers -> {"none", "race", "direct"}] /\ worker'[w] = kind
      /\ \A v \in Workers : v # w => worker'[v] = worker[v]
  BY <1>6 DEF QInv, WorkInv
<1>8. Cardinality(Busy) \in Nat /\ Cardinality(Busy') = Cardinality(Busy) + 1
  <2>1. Busy \subseteq Workers /\ w \notin Busy /\ Busy' = Busy \union {w}
    BY <1>5, <1>7 DEF Busy
  <2> QED
    BY <2>1, OneMore
<1>9. WorkInv'
  BY <1>7, <1>8, LimitsPositive DEF QInv, WorkInv, Begin
<1>10. /\ race'[w].stage # "off" <=> kind = "race"
       /\ \A v \in Workers : v # w => race'[v] = race[v]
  <2>1. CASE kind = "race"
    <3> DEFINE q == [NoRace EXCEPT !.stage = "claiming"]
    <3>1. q.stage = "claiming" /\ race' = [race EXCEPT ![w] = q]
      BY <1>6, <2>1 DEF StartRace, NoRace
    <3> HIDE DEF q
    <3> QED
      BY <1>1, <2>1, <3>1
  <2>2. CASE kind # "race"
    <3>1. race' = race /\ race[w].stage = "off"
      BY <1>5, <1>6, <2>2 DEF raceVars, QInv, Matched
    <3> QED
      BY <2>2, <3>1
  <2> QED
    BY <2>1, <2>2
<1>11. ASSUME NEW v \in Workers
       PROVE  /\ worker'[v] = "race" <=> race'[v].stage # "off"
              /\ call'[v].stage = "admitted" => worker'[v] = "none"
  <2>1. CASE v = w
    BY <2>1, <1>2, <1>3, <1>7, <1>10
  <2>2. CASE v # w
    BY <2>2, <1>3, <1>7, <1>10 DEF QInv, Matched
  <2> QED
    BY <2>1, <2>2
<1> QED
  BY <1>4, <1>9, <1>11 DEF Matched

LEMMA ReturnDirectInv ==
  ASSUME QInv, NEW w \in Workers, ReturnDirect(w)
  PROVE  CallInv' /\ WorkInv' /\ Matched'
<1>1. PICK outcome \in Outcomes : Return(w, outcome)
  BY DEF ReturnDirect
<1>2. worker[w] = "direct" /\ race' = race
  BY DEF ReturnDirect, raceVars
<1>3. /\ CallInv' /\ WorkInv' /\ worker'[w] = "none" /\ call'[w].stage = call[w].stage
      /\ \A v \in Workers : v # w => worker'[v] = worker[v] /\ call'[v] = call[v]
  BY <1>1, <1>2, ReturnInv DEF QInv
<1>4. ASSUME NEW v \in Workers
      PROVE  /\ worker'[v] = "race" <=> race'[v].stage # "off"
             /\ call'[v].stage = "admitted" => worker'[v] = "none"
  BY <1>2, <1>3 DEF QInv, Matched
<1> QED
  BY <1>3, <1>4 DEF Matched

LEMMA ReturnRaceInv ==
  ASSUME QInv, NEW w \in Workers, ReturnRace(w)
  PROVE  CallInv' /\ WorkInv' /\ Matched'
<1>1. PICK outcome \in Outcomes : Return(w, outcome)
  BY DEF ReturnRace, Outcomes
<1>2. race[w].stage = "receiving" /\ race' = [race EXCEPT ![w] = NoRace] /\ race \in [Workers -> Race]
  BY DEF ReturnRace, Wins, CanReceive, Fails, Exhausted, QInv, RaceInv, RaceTypeOK
<1>3. /\ race'[w].stage = "off" /\ worker[w] = "race"
      /\ \A v \in Workers : v # w => race'[v] = race[v]
  BY <1>2 DEF NoRace, QInv, Matched
<1>4. /\ CallInv' /\ WorkInv' /\ worker'[w] = "none" /\ call'[w].stage = call[w].stage
      /\ \A v \in Workers : v # w => worker'[v] = worker[v] /\ call'[v] = call[v]
  BY <1>1, <1>3, ReturnInv DEF QInv
<1>5. ASSUME NEW v \in Workers
      PROVE  /\ worker'[v] = "race" <=> race'[v].stage # "off"
             /\ call'[v].stage = "admitted" => worker'[v] = "none"
  BY <1>3, <1>4 DEF QInv, Matched
<1> QED
  BY <1>4, <1>5 DEF Matched

\* Steps within the service leave every race in its worker's hands.
LEMMA ServiceInv ==
  ASSUME QInv, NEW w \in Workers, InService(w) \/ \E c \in Providers : InThread(w, c)
  PROVE  CallInv' /\ WorkInv' /\ Matched'
<1>1. /\ call' = call /\ worker' = worker /\ unary' = unary /\ blocking' = blocking
      /\ RaceStep(w) \/ \E c \in Providers : ThreadStep(w, c)
  BY DEF InService, InThread, queryVars
<1>2. CallInv' /\ WorkInv'
  BY <1>1 DEF QInv, CallInv, Callers, WorkInv, Busy
<1>3. race \in [Workers -> Race] /\ race[w] \in Race /\ RaceInv
  BY DEF QInv, RaceInv, RaceTypeOK
<1>4. ASSUME NEW v \in Workers PROVE race'[v].stage # "off" <=> race[v].stage # "off"
  <2>1. CASE v # w
    BY <2>1, <1>1, <1>3, StageOfOthers
  <2>2. CASE v = w
    <3>1. CASE Claim(w) \/ Spawn(w) \/ SpawnFails(w) \/ Rejects(w)
      BY <2>2, <3>1, <1>3, StepKeepsRace
    <3>2. ASSUME NEW c \in Providers, ThreadStep(w, c) PROVE race'[w].stage = race[w].stage
      BY <3>2, <1>3, ThreadKeepsStage
    <3> QED
      BY <1>1, <2>2, <3>1, <3>2 DEF RaceStep
  <2> QED
    BY <2>1, <2>2
<1>5. ASSUME NEW v \in Workers
      PROVE  /\ worker'[v] = "race" <=> race'[v].stage # "off"
             /\ call'[v].stage = "admitted" => worker'[v] = "none"
  BY <1>1, <1>4 DEF QInv, Matched
<1> QED
  BY <1>2, <1>5 DEF Matched

LEMMA NotedHealthInv ==
  ASSUME HealthInv, NEW w \in Workers, NoteFailure(w) \/ NoteServed(w)
  PROVE  HealthInv'
<1>1. health \in Health /\ Threshold \in Nat \ {0} /\ (health.degraded <=> health.failures = Threshold)
  BY LimitsPositive DEF HealthInv, HealthAgrees
<1>2. CASE NoteFailure(w)
  <2> DEFINE failures == IF health.failures < Threshold THEN health.failures + 1 ELSE Threshold
             entered == ~ health.degraded /\ failures = Threshold
             emit == entered /\ ~ health.cooling
             degraded == health.degraded \/ entered
             cooling == health.cooling \/ emit
  <2>1. health' = [failures |-> failures, degraded |-> degraded, cooling |-> cooling]
    BY <1>2 DEF NoteFailure
  <2>2. failures \in 0..Threshold /\ (degraded <=> failures = Threshold)
    BY <1>1 DEF Health
  <2>3. degraded \in BOOLEAN /\ cooling \in BOOLEAN
    BY <1>1 DEF Health
  <2> HIDE DEF failures, degraded, cooling
  <2>4. health' \in Health
    BY <2>1, <2>2, <2>3 DEF Health
  <2>5. health'.degraded = degraded /\ health'.failures = failures
    BY <2>1
  <2> QED
    BY <2>2, <2>4, <2>5 DEF HealthInv, HealthAgrees
<1>3. CASE NoteServed(w)
  <2>1. health' = [health EXCEPT !.failures = 0, !.degraded = FALSE]
    BY <1>3 DEF NoteServed
  <2>2. health' = [failures |-> 0, degraded |-> FALSE, cooling |-> health.cooling]
    BY <1>1, <2>1 DEF Health
  <2>3. health.cooling \in BOOLEAN /\ 0 \in 0..Threshold
    BY <1>1 DEF Health
  <2>4. health' \in Health
    BY <2>2, <2>3 DEF Health
  <2>5. health'.degraded = FALSE /\ health'.failures = 0
    BY <2>2
  <2> QED
    BY <1>1, <2>4, <2>5 DEF HealthInv, HealthAgrees
<1> QED
  BY <1>2, <1>3

\* The steps that note an outcome.
LEMMA NotedInv ==
  ASSUME QInv, NEW w \in Workers, NoteFailure(w) \/ NoteServed(w)
  PROVE  CallInv' /\ WorkInv' /\ Matched'
<1> DEFINE d == [call[w] EXCEPT !.stage = "degraded"]
           r == [call[w] EXCEPT !.stage = "recovered"]
<1>1. call[w] \in CallRecord /\ call[w].stage # "idle" /\ UNCHANGED <<raceVars, worker, blocking>>
  BY DEF QInv, CallInv, NoteFailure, NoteServed
<1>2. /\ d \in CallRecord /\ d.stage = "degraded"
      /\ r \in CallRecord /\ r.stage = "recovered"
  BY <1>1 DEF CallRecord
<1>3. Leave(w) \/ (UNCHANGED unary /\ (call' = [call EXCEPT ![w] = d] \/ call' = [call EXCEPT ![w] = r]))
  BY <1>1 DEF NoteFailure, NoteServed, QInv, CallInv
<1> HIDE DEF d, r
<1>4. CASE Leave(w)
  BY <1>1, <1>4, LeavesInv
<1>5. CASE UNCHANGED unary /\ call' = [call EXCEPT ![w] = d]
  BY <1>1, <1>2, <1>5, MovesInv
<1>6. CASE UNCHANGED unary /\ call' = [call EXCEPT ![w] = r]
  BY <1>1, <1>2, <1>6, MovesInv
<1> QED
  BY <1>3, <1>4, <1>5, <1>6

LEMMA QueryInitInv == Init => QInv
<1> SUFFICES ASSUME Init PROVE QInv
  OBVIOUS
<1>1. RaceInv
  BY RaceInitInv DEF Init
<1>2. Idle \in CallRecord /\ Idle.stage = "idle"
  BY DEF Idle, CallRecord
<1>3. Callers = {} /\ Busy = {}
  BY DEF Init, Callers, Busy
<1>4. CallInv /\ WorkInv
  BY <1>2, <1>3, FS_EmptySet, LimitsPositive DEF Init, CallInv, WorkInv
<1>5. \A w \in Workers : race[w].stage = "off" /\ call[w].stage = "idle" /\ worker[w] = "none"
  BY <1>2 DEF Init, RaceInit, NoRace
<1>6. Matched
  BY <1>5 DEF Matched
<1>7. HealthInv
  BY LimitsPositive DEF Init, HealthInv, Health, HealthAgrees
<1> QED
  BY <1>1, <1>4, <1>6, <1>7 DEF QInv

LEMMA QueryNextInv == QInv /\ [Next]_vars => QInv'
<1> SUFFICES ASSUME QInv, [Next]_vars PROVE QInv'
  OBVIOUS
<1>1. RaceInv'
  BY QueryStep, RaceNextInv DEF QInv
<1>2. CASE UNCHANGED vars
  <2>1. /\ call' = call /\ worker' = worker /\ unary' = unary /\ blocking' = blocking
        /\ health' = health /\ race' = race
    BY <1>2 DEF vars, raceVars, queryVars
  <2>2. CallInv' /\ WorkInv'
    BY <2>1 DEF QInv, CallInv, Callers, WorkInv, Busy
  <2>3. Matched' /\ HealthInv'
    BY <2>1 DEF QInv, Matched, HealthInv, HealthAgrees
  <2> QED
    BY <1>1, <2>2, <2>3 DEF QInv
<1>3. CASE CooldownEnds
  <2>1. /\ call' = call /\ worker' = worker /\ unary' = unary /\ blocking' = blocking /\ race' = race
    BY <1>3 DEF CooldownEnds, raceVars
  <2>2. CallInv' /\ WorkInv' /\ Matched'
    BY <2>1 DEF QInv, CallInv, Callers, WorkInv, Busy, Matched
  <2>3. HealthInv'
    <3>1. health \in Health /\ health' = [health EXCEPT !.cooling = FALSE]
      BY <1>3 DEF CooldownEnds, QInv, HealthInv
    <3>2. health' \in Health /\ health'.degraded = health.degraded /\ health'.failures = health.failures
      BY <3>1 DEF Health
    <3> QED
      BY <3>2 DEF QInv, HealthInv, HealthAgrees
  <2> QED
    BY <1>1, <2>2, <2>3 DEF QInv
<1>4. ASSUME NEW w \in Workers,
             \/ Admit(w) \/ Begin(w) \/ Reject(w) \/ ReturnDirect(w) \/ ReturnRace(w)
             \/ Deadline(w) \/ Cancel(w) \/ NoteFailure(w) \/ NoteServed(w) \/ Pass(w) \/ Published(w)
             \/ InService(w) \/ \E c \in Providers : InThread(w, c)
      PROVE  QInv'
  <2>1. CASE Reject(w) \/ Deadline(w) \/ Cancel(w) \/ Pass(w) \/ Published(w)
    <3>1. /\ call[w].stage # "idle" /\ Leave(w) /\ UNCHANGED <<raceVars, worker, blocking>>
          /\ health' = health
      BY <2>1 DEF Reject, Deadline, Cancel, Pass, Published
    <3>2. CallInv' /\ WorkInv' /\ Matched'
      BY <3>1, LeavesInv
    <3> QED
      BY <1>1, <3>1, <3>2 DEF QInv, HealthInv, HealthAgrees
  <2>2. CASE NoteFailure(w) \/ NoteServed(w)
    BY <1>1, <2>2, NotedInv, NotedHealthInv DEF QInv
  <2>3. CASE \/ Admit(w) \/ Begin(w) \/ ReturnDirect(w) \/ ReturnRace(w)
             \/ InService(w) \/ \E c \in Providers : InThread(w, c)
    <3>1. health' = health
      BY <2>3 DEF Admit, Begin, ReturnDirect, ReturnRace, Return, InService, InThread, queryVars
    <3>2. CallInv' /\ WorkInv' /\ Matched'
      BY <2>3, AdmitInv, BeginInv, ReturnDirectInv, ReturnRaceInv, ServiceInv
    <3> QED
      BY <1>1, <3>1, <3>2 DEF QInv, HealthInv, HealthAgrees
  <2> QED
    BY <1>4, <2>1, <2>2, <2>3
<1> QED
  BY <1>2, <1>3, <1>4 DEF Next

THEOREM QueryInvariance == Spec => []QInv
<1> QED
  BY QueryInitInv, QueryNextInv, PTL DEF Spec

\* Every variable of the query path has its type.
THEOREM TypeCorrect == Spec => []TypeOK
<1>1. QInv => TypeOK
  BY DEF QInv, RaceInv, CallInv, WorkInv, HealthInv, TypeOK
<1> QED
  BY <1>1, QueryInvariance, PTL

\* No permit is lost or returned twice, however calls and workers end: work
\* that calls abandoned stays within blocking_concurrency.
THEOREM PermitsCorrect == Spec => []PermitsBalance
<1>1. QInv => PermitsBalance
  BY DEF QInv, CallInv, WorkInv, PermitsBalance, Callers, Busy
<1> QED
  BY <1>1, QueryInvariance, PTL

\* The channel is degraded exactly while the streak is at the threshold.
THEOREM HealthCorrect == Spec => []HealthAgrees
<1>1. QInv => HealthAgrees
  BY DEF QInv, HealthInv
<1> QED
  BY <1>1, QueryInvariance, PTL
=============================================================================
