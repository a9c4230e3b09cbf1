--------------------------- MODULE AgentHub_proofs ---------------------------
(***************************************************************************)
(* The agent and the hub, joined by any number of calls over a network     *)
(* that loses connections and messages, with one restart of the server.    *)
(***************************************************************************)
EXTENDS AgentHub, EventHub_proofs

-----------------------------------------------------------------------------
(* Queues of commands *)

\* What a queue holds: sequences of Acks, and configurations.
AckOf(q) == {q[i].seq : i \in {k \in DOMAIN q : q[k].type = "ack"}}
Named(c) == [revision |-> c.revision, list |-> c.list]
Confs(q) == {Named(q[i]) : i \in {k \in DOMAIN q : q[k].type = "configure"}}

OneAck(q) == \A i, j \in DOMAIN q : q[i].type = "ack" /\ q[j].type = "ack" => i = j
StopFree(q) == \A i \in DOMAIN q : q[i].type # "stop"

LEMMA QueueEmpty ==
  /\ AckOf(<<>>) = {} /\ Confs(<<>>) = {} /\ OneAck(<<>>) /\ StopFree(<<>>)
BY DEF AckOf, Confs, OneAck, StopFree

LEMMA AppendIndex ==
  ASSUME NEW S, NEW q \in Seq(S), NEW c \in S
  PROVE  /\ DOMAIN q = 1..Len(q) /\ DOMAIN Append(q, c) = 1..(Len(q) + 1)
         /\ Append(q, c)[Len(q) + 1] = c /\ Len(q) \in Nat
         /\ \A i \in 1..Len(q) : Append(q, c)[i] = q[i]
OBVIOUS

LEMMA QueueAck ==
  ASSUME NEW q \in Seq(Command), NEW n \in Nat
  PROVE  LET r == Append(q, Ack(n)) IN
         /\ AckOf(r) = AckOf(q) \cup {n} /\ Confs(r) = Confs(q)
         /\ AckOf(q) = {} => OneAck(r)
         /\ StopFree(q) => StopFree(r)
<1> DEFINE r == Append(q, Ack(n))
<1>1. Ack(n) \in Command /\ Ack(n).type = "ack" /\ Ack(n).seq = n
  BY DEF Command, Ack
<1>2. /\ DOMAIN q = 1..Len(q) /\ DOMAIN r = 1..(Len(q) + 1)
      /\ r[Len(q) + 1] = Ack(n) /\ Len(q) \in Nat
      /\ \A i \in 1..Len(q) : r[i] = q[i]
  BY <1>1, AppendIndex
<1> HIDE DEF r
<1>3. AckOf(r) = AckOf(q) \cup {n}
  BY <1>1, <1>2 DEF AckOf
<1>4. Confs(r) = Confs(q)
  BY <1>1, <1>2 DEF Confs
<1>5. AckOf(q) = {} => OneAck(r)
  <2>1. AckOf(q) = {} => \A i \in 1..Len(q) : q[i].type # "ack"
    BY <1>2 DEF AckOf
  <2>2. QED  BY <1>2, <2>1 DEF OneAck
<1>6. StopFree(q) => StopFree(r)
  BY <1>1, <1>2 DEF StopFree
<1>7. QED  BY <1>3, <1>4, <1>5, <1>6 DEF r

LEMMA QueueConfigure ==
  ASSUME NEW q \in Seq(Command), NEW w \in Watchlist
  PROVE  LET r == Append(q, Configure(w)) IN
         /\ AckOf(r) = AckOf(q) /\ Confs(r) = Confs(q) \cup {w}
         /\ OneAck(q) => OneAck(r)
         /\ StopFree(q) => StopFree(r)
<1> DEFINE r == Append(q, Configure(w))
<1>1. Configure(w) \in Command /\ Configure(w).type = "configure" /\ Named(Configure(w)) = w
  BY DEF Command, Configure, Watchlist, Named
<1>2. /\ DOMAIN q = 1..Len(q) /\ DOMAIN r = 1..(Len(q) + 1)
      /\ r[Len(q) + 1] = Configure(w) /\ Len(q) \in Nat
      /\ \A i \in 1..Len(q) : r[i] = q[i]
  BY <1>1, AppendIndex
<1> HIDE DEF r
<1>3. AckOf(r) = AckOf(q)
  BY <1>1, <1>2 DEF AckOf
<1>4. Confs(r) = Confs(q) \cup {w}
  BY <1>1, <1>2 DEF Confs
<1>5. OneAck(q) => OneAck(r)
  BY <1>1, <1>2 DEF OneAck
<1>6. StopFree(q) => StopFree(r)
  BY <1>1, <1>2 DEF StopFree
<1>7. QED  BY <1>3, <1>4, <1>5, <1>6 DEF r

LEMMA QueueRead ==
  ASSUME NEW q \in Seq(Command), q # <<>>
  PROVE  /\ Head(q) \in Command /\ Tail(q) \in Seq(Command)
         /\ AckOf(Tail(q)) \subseteq AckOf(q) /\ Confs(Tail(q)) \subseteq Confs(q)
         /\ OneAck(q) => OneAck(Tail(q))
         /\ StopFree(q) => StopFree(Tail(q)) /\ Head(q).type # "stop"
         /\ Head(q).type = "ack" =>
              /\ Head(q).seq \in AckOf(q) /\ Confs(Tail(q)) = Confs(q)
              /\ OneAck(q) => AckOf(Tail(q)) = {}
         /\ Head(q).type = "configure" => Confs(q) = Confs(Tail(q)) \cup {Named(Head(q))}
<1> DEFINE r == Tail(q)
           h == Head(q)
<1>1. /\ h \in Command /\ r \in Seq(Command) /\ h = q[1] /\ Len(q) \in Nat
      /\ DOMAIN q = 1..Len(q) /\ Len(q) > 0 /\ DOMAIN r = 1..(Len(q) - 1)
      /\ \A i \in 1..(Len(q) - 1) : r[i] = q[i + 1]
  BY HeadTailProperties
<1>2. \A i \in 2..Len(q) : i - 1 \in 1..(Len(q) - 1) /\ q[i] = r[i - 1]
  BY <1>1
<1> HIDE DEF r, h
<1>0. \A i \in DOMAIN r : i + 1 \in DOMAIN q /\ r[i] = q[i + 1]
  BY <1>1
<1>3. AckOf(r) \subseteq AckOf(q) /\ Confs(r) \subseteq Confs(q)
  <2>1. AckOf(r) \subseteq AckOf(q)  BY <1>0 DEF AckOf
  <2>2. Confs(r) \subseteq Confs(q)  BY <1>0 DEF Confs
  <2>3. QED  BY <2>1, <2>2
<1>4. OneAck(q) => OneAck(r)
  <2> SUFFICES ASSUME OneAck(q), NEW i \in DOMAIN r, NEW j \in DOMAIN r,
                      r[i].type = "ack", r[j].type = "ack"
               PROVE  i = j
    BY DEF OneAck
  <2>1. i + 1 = j + 1  BY <1>0 DEF OneAck
  <2>2. QED  BY <1>1, <2>1
<1>5. StopFree(q) => StopFree(r) /\ h.type # "stop"
  <2>1. 1 \in DOMAIN q  BY <1>1
  <2>2. QED  BY <1>0, <1>1, <2>1 DEF StopFree
<1>6. ASSUME h.type = "ack"
      PROVE  /\ h.seq \in AckOf(q) /\ Confs(r) = Confs(q)
             /\ OneAck(q) => AckOf(r) = {}
  <2>1. h.seq \in AckOf(q)  BY <1>1, <1>6 DEF AckOf
  <2>2. Confs(q) \subseteq Confs(r)
    <3>1. ASSUME NEW i \in 1..Len(q), q[i].type = "configure" PROVE Named(q[i]) \in Confs(r)
      <4>1. i \in 2..Len(q)  BY <1>1, <1>6, <3>1
      <4>2. i - 1 \in DOMAIN r /\ q[i] = r[i - 1]  BY <1>1, <1>2, <4>1
      <4>3. QED  BY <3>1, <4>2 DEF Confs
    <3>2. QED  BY <1>1, <3>1 DEF Confs
  <2>3. ASSUME OneAck(q), NEW i \in 1..(Len(q) - 1), r[i].type = "ack" PROVE FALSE
    <3>1. i + 1 \in DOMAIN q /\ 1 \in DOMAIN q /\ i + 1 # 1  BY <1>1
    <3>2. q[i + 1].type = "ack" /\ q[1].type = "ack"  BY <1>1, <1>6, <2>3
    <3>3. QED  BY <2>3, <3>1, <3>2 DEF OneAck
  <2>4. QED  BY <1>1, <1>3, <2>1, <2>2, <2>3 DEF AckOf
<1>7. ASSUME h.type = "configure" PROVE Confs(q) = Confs(r) \cup {Named(h)}
  <2>1. Named(h) \in Confs(q)  BY <1>1, <1>7 DEF Confs
  <2>2. ASSUME NEW i \in 1..Len(q), q[i].type = "configure", i # 1 PROVE Named(q[i]) \in Confs(r)
    <3>1. i \in 2..Len(q)  BY <2>2
    <3>2. i - 1 \in DOMAIN r /\ q[i] = r[i - 1]  BY <1>1, <1>2, <3>1
    <3>3. QED  BY <2>2, <3>2 DEF Confs
  <2>3. Confs(q) \subseteq Confs(r) \cup {Named(h)}
    BY <1>1, <2>2 DEF Confs
  <2>4. QED  BY <1>3, <2>1, <2>3
<1>8. QED  BY <1>1, <1>3, <1>4, <1>5, <1>6, <1>7 DEF r, h

-----------------------------------------------------------------------------
(* The agent *)

\* What the agent's fields say of each other: the frame it keeps is the next
\* of its generation, an absorbed configuration exists only while an Ack is
\* awaited, and a frame awaits an Ack only after it was sent.
AgentOK ==
  /\ agent \in AgentRecord
  /\ agent.gen <= agent.top
  /\ agent.pending \in {0, agent.accepted + 1}
  /\ agent.pending = 0 => ~ agent.tried
  /\ agent.accepted <= agent.released
  /\ agent.fate = "alive" <=> agent.pc # "exited"
  /\ agent.pc \in {"offline", "ready"} => agent.config = NoConfiguration
  /\ agent.pc = "event" => agent.tried /\ agent.pending # 0
  /\ agent.pc = "beat" => agent.pending = 0

LEMMA InitAgent == AgentInit => AgentOK
BY BoundsNatural, FirstGeneration, InitialAdmissible
   DEF AgentInit, AgentOK, AgentRecord, Fates, Watchlist, NoConfiguration

\* A new monitor process with an empty cursor.
LEMMA ProcessKeeps ==
  ASSUME NEW a \in AgentRecord, NEW w \in Watchlist, a.gen <= a.top, a.top < MaxGeneration,
         a.fate = "alive",
         agent' = NewProcess(a, w)
  PROVE  /\ AgentOK' /\ agent'.gen # a.gen /\ agent'.pc = "offline"
         /\ agent'.released = IF a.pending = 0 THEN a.released ELSE a.released + 1
         /\ agent'.accepted = 0 /\ agent'.pending = 0 /\ ~ agent'.tried
         /\ agent'.watch = w /\ agent'.config = NoConfiguration /\ agent'.fate = "alive"
<1>1. /\ a.top + 1 \in 1..MaxGeneration /\ a.released + 1 \in Nat /\ 0 \in 0..MaxSequence
      /\ a.top + 1 # a.gen
      /\ NoConfiguration \in Watchlist
  BY BoundsNatural, FirstGeneration DEF AgentRecord, NoConfiguration, Watchlist
<1> DEFINE kept == IF a.pending = 0 THEN a.released ELSE a.released + 1
           r == [a EXCEPT !.pc = "offline", !.gen = a.top + 1, !.first = a.top + 1,
                          !.top = a.top + 1, !.accepted = 0, !.pending = 0, !.tried = FALSE, !.released = kept, !.watch = w,
                          !.config = NoConfiguration]
<1>2. kept \in Nat  BY <1>1 DEF AgentRecord
<1>3. agent' = r  BY DEF NewProcess
<1> HIDE DEF kept
<1>4. /\ r.pc = "offline" /\ r.gen = a.top + 1 /\ r.top = a.top + 1 /\ r.accepted = 0 /\ r.pending = 0 /\ r.tried = FALSE
      /\ r.released = kept /\ r.watch = w /\ r.config = NoConfiguration /\ r.fate = a.fate
  BY DEF AgentRecord
<1>5. r \in AgentRecord
  BY <1>1, <1>2 DEF AgentRecord
<1> HIDE DEF r
<1>6. AgentOK'
  BY <1>1, <1>2, <1>3, <1>4, <1>5 DEF AgentOK
<1>7. QED  BY <1>1, <1>3, <1>4, <1>6 DEF kept

LEMMA ProcessLabels ==
  ASSUME NEW a \in AgentRecord, NEW w
  PROVE  NewProcess(a, w).top = a.top + 1
BY DEF NewProcess, AgentRecord

\* The accepted frame is let go of.
LEMMA SettledIs ==
  ASSUME AgentOK, agent.pending # 0, NEW a, a = Settled(agent)
  PROVE  /\ a \in AgentRecord /\ a.pc = agent.pc /\ a.fate = agent.fate /\ a.gen = agent.gen
         /\ a.top = agent.top
         /\ a.accepted = agent.pending /\ a.pending = 0 /\ ~ a.tried
         /\ a.released = agent.released + 1 /\ a.watch = agent.watch /\ a.config = agent.config
<1> DEFINE r == [agent EXCEPT !.accepted = agent.pending, !.pending = 0, !.tried = FALSE,
                              !.released = agent.released + 1]
<1>1. a = r  BY DEF Settled
<1>2. /\ agent \in AgentRecord /\ agent.pending \in 0..MaxSequence /\ 0 \in 0..MaxSequence
      /\ agent.released + 1 \in Nat
  BY BoundsNatural DEF AgentOK, AgentRecord
<1>3. /\ r.accepted = agent.pending /\ r.pending = 0 /\ r.tried = FALSE
      /\ r.released = agent.released + 1 /\ r.pc = agent.pc /\ r.fate = agent.fate
      /\ r.gen = agent.gen /\ r.top = agent.top /\ r.watch = agent.watch /\ r.config = agent.config
  BY <1>2 DEF AgentRecord
<1>4. r \in AgentRecord  BY <1>2 DEF AgentRecord
<1>5. QED  BY <1>1, <1>3, <1>4

\* What an Ack can do to the agent, apart from ending it.
ReadyAgain(a) ==
  /\ a.config = NoConfiguration /\ agent' = [a EXCEPT !.pc = "ready"]
Replaced(a, w) == agent' = NewProcess(a, w) /\ a.top < MaxGeneration

LEMMA NamedType == \A c \in Command : c.type = "configure" => Named(c) \in Watchlist
BY DEF Command, Stop, Named, Watchlist

LEMMA CommandCases ==
  ASSUME AgentOK, NEW cmd \in Command, OnCommand(cmd)
  PROVE  /\ agent.pc \in {"calling", "ready", "event", "beat"}
         /\ cmd.type \in {"ack", "configure", "stop"}
         /\ cmd.type = "stop" => Exit("stopped")
         /\ cmd.type = "ack" =>
              \/ agent.pc = "ready" /\ Exit("acknowledgement")
              \/ /\ agent.pc \in {"calling", "event"} /\ agent.pending # 0 /\ cmd.seq = agent.pending
                 /\ \/ ReadyAgain(Settled(agent))
                    \/ agent.config # NoConfiguration /\ Replaced(Settled(agent), agent.config)
              \/ /\ agent.pc \in {"calling", "beat"} /\ cmd.seq = agent.accepted
                 /\ \/ ReadyAgain(agent)
                    \/ agent.config # NoConfiguration /\ Replaced(agent, agent.config)
              \/ /\ Exit("sequence")
                 /\ agent.pc \in {"calling", "event", "beat"}
                 /\ agent.pc = "event" => cmd.seq # agent.pending
                 /\ agent.pc = "beat" => cmd.seq # agent.accepted
                 /\ agent.pc = "calling" => /\ cmd.seq # agent.accepted
                                            /\ agent.pending = 0 \/ cmd.seq # agent.pending
         /\ cmd.type = "configure" =>
              \/ Named(cmd).revision < Known.revision /\ Exit("stale")
              \/ Named(cmd).revision = Known.revision /\ Named(cmd) # Known /\ Exit("contradictory")
              \/ Named(cmd) = Known /\ UNCHANGED agent
              \/ /\ Named(cmd).revision > Known.revision
                 /\ \/ agent.pc = "ready" /\ Replaced(agent, Named(cmd))
                    \/ /\ agent.pc \in {"calling", "event", "beat"}
                       /\ agent' = [agent EXCEPT !.config = Named(cmd)]
<1>1. /\ agent.pc \in {"calling", "ready", "event", "beat"}
      /\ cmd.type \in {"ack", "configure", "stop"}
  BY DEF OnCommand, Command, Stop
<1>2. CASE cmd.type = "stop"  BY <1>1, <1>2 DEF OnCommand
<1>3. CASE cmd.type = "configure"
  <2>1. OnConfigure(Named(cmd)) /\ agent'.top <= MaxGeneration
    BY <1>3 DEF OnCommand, Named
  <2>2. Known \in Watchlist /\ Named(cmd) \in Watchlist
    BY <1>3, NamedType DEF Known, AgentOK, AgentRecord
  <2>3. Named(cmd).revision \in Nat /\ Known.revision \in Nat
    <3>1. \A x \in Watchlist : x.revision \in Nat  BY DEF Watchlist
    <3>2. QED  BY <2>2, <3>1
  <2>4. CASE Named(cmd).revision < Known.revision
    <3>0. ~ (Named(cmd).revision = Known.revision) /\ ~ (Named(cmd).revision > Known.revision)
      BY <2>3, <2>4
    <3>1. Exit("stale")  BY <2>1, <2>4, <3>0, Zenon DEF OnConfigure
    <3>2. QED  BY <1>1, <1>3, <2>4, <3>1
  <2>5. CASE Named(cmd).revision = Known.revision
    <3>0. ~ (Named(cmd).revision < Known.revision) /\ ~ (Named(cmd).revision > Known.revision)
      BY <2>3, <2>5
    <3>1. IF Named(cmd) = Known THEN UNCHANGED agent ELSE Exit("contradictory")
      BY <2>1, <2>5, <3>0, Zenon DEF OnConfigure
    <3>2. QED  BY <1>1, <1>3, <2>5, <3>1
  <2>6. CASE Named(cmd).revision > Known.revision
    <3>1. agent' = IF agent.pc = "ready" THEN NewProcess(agent, Named(cmd))
                                         ELSE [agent EXCEPT !.config = Named(cmd)]
      BY <2>1, <2>3, <2>6 DEF OnConfigure
    <3>2. NewProcess(agent, Named(cmd)).top = agent.top + 1 /\ agent.top \in Nat
      BY ProcessLabels DEF AgentOK, AgentRecord
    <3>3. agent.pc = "ready" => Replaced(agent, Named(cmd))
      BY <2>1, <3>1, <3>2, FirstGeneration DEF Replaced
    <3>4. QED  BY <1>1, <1>3, <2>6, <3>1, <3>3
  <2>7. QED  BY <2>3, <2>4, <2>5, <2>6
<1>4. CASE cmd.type = "ack"
  <2>1. OnAck(cmd.seq) /\ agent'.top <= MaxGeneration
    BY <1>4 DEF OnCommand
  <2>2. ASSUME NEW a \in AgentRecord, agent' = Resume(a), a.config = agent.config
        PROVE  ReadyAgain(a) \/ (agent.config # NoConfiguration /\ Replaced(a, agent.config))
    <3>1. NewProcess(a, a.config).top = a.top + 1 /\ a.top \in Nat
      BY ProcessLabels DEF AgentRecord
    <3>2. QED  BY <2>1, <2>2, <3>1, FirstGeneration DEF Resume, ReadyAgain, Replaced
  <2>3. /\ agent \in AgentRecord
        /\ agent.pending # 0 =>
             Settled(agent) \in AgentRecord /\ Settled(agent).config = agent.config
    BY SettledIs DEF AgentOK
  <2>4. agent.pending # 0 => agent.pending # agent.accepted
    BY BoundsNatural DEF AgentOK, AgentRecord
  <2>5. CASE agent.pc = "ready"
    <3>1. Exit("acknowledgement")  BY <2>1, <2>5 DEF OnAck
    <3>2. QED  BY <1>1, <1>4, <2>5, <3>1
  <2>6. CASE agent.pc \in {"calling", "event"} /\ agent.pending # 0 /\ cmd.seq = agent.pending
    <3>1. agent' = Resume(Settled(agent))  BY <2>1, <2>4, <2>6 DEF OnAck
    <3>2. QED  BY <1>1, <1>4, <2>2, <2>3, <2>6, <3>1
  <2>7. CASE agent.pc \in {"calling", "beat"} /\ cmd.seq = agent.accepted
    <3>1. agent' = Resume(agent)  BY <2>1, <2>4, <2>7 DEF OnAck
    <3>2. QED  BY <1>1, <1>4, <2>2, <2>3, <2>7, <3>1
  <2>8. CASE ~ (agent.pc \in {"calling", "event"} /\ agent.pending # 0 /\ cmd.seq = agent.pending)
             /\ ~ (agent.pc \in {"calling", "beat"} /\ cmd.seq = agent.accepted)
             /\ agent.pc # "ready"
    <3>1. Exit("sequence")  BY <2>1, <2>8 DEF OnAck
    <3>2. agent.pc = "event" => agent.pending # 0  BY DEF AgentOK
    <3>3. QED  BY <1>1, <1>4, <2>8, <3>1, <3>2
  <2>9. QED  BY <2>5, <2>6, <2>7, <2>8
<1>5. QED  BY <1>1, <1>2, <1>3, <1>4

-----------------------------------------------------------------------------
(* What each operation of the agent does *)

\* The operation changes neither the cursor nor the frame that is kept.
Steady ==
  /\ agent'.gen = agent.gen /\ agent'.accepted = agent.accepted
  /\ agent'.pending = agent.pending /\ agent'.released = agent.released
  /\ agent'.watch = agent.watch

LEMMA ExitIs ==
  ASSUME AgentOK, NEW r \in Fates \ {"alive"}, Exit(r)
  PROVE  /\ AgentOK' /\ Steady /\ agent'.tried = agent.tried
         /\ agent'.pc = "exited" /\ agent'.fate = r /\ agent'.config = agent.config
BY DEF AgentOK, Exit, AgentRecord, Steady

LEMMA DialIs ==
  ASSUME AgentOK, Dial
  PROVE  /\ AgentOK' /\ Steady /\ agent'.tried = agent.tried /\ agent'.fate = agent.fate
         /\ agent.pc = "offline" /\ agent'.pc = "calling" /\ agent'.config = NoConfiguration
BY DEF AgentOK, Dial, AgentRecord, Steady

LEMMA LoseIs ==
  ASSUME AgentOK, LoseSession
  PROVE  /\ AgentOK' /\ Steady /\ agent'.tried = agent.tried /\ agent'.fate = agent.fate
         /\ agent.pc \in {"calling", "ready", "event", "beat"}
         /\ agent'.pc = "offline" /\ agent'.config = NoConfiguration
<1>1. NoConfiguration \in Watchlist  BY DEF NoConfiguration, Watchlist
<1>2. QED  BY <1>1 DEF AgentOK, LoseSession, Offline, AgentRecord, Steady

LEMMA SendIs ==
  ASSUME AgentOK, SendFrame \/ SendHeartbeat
  PROVE  /\ AgentOK' /\ Steady /\ agent'.fate = agent.fate
         /\ agent.pc = "ready" /\ agent'.config = NoConfiguration
         /\ SendFrame => agent.pending # 0 /\ agent'.pc = "event" /\ agent'.tried
         /\ SendHeartbeat => agent.pending = 0 /\ agent'.pc = "beat" /\ ~ agent'.tried
<1>1. CASE SendFrame
  BY <1>1 DEF AgentOK, SendFrame, SendHeartbeat, AgentRecord, Steady
<1>2. CASE SendHeartbeat
  BY <1>2 DEF AgentOK, SendFrame, SendHeartbeat, AgentRecord, Steady
<1>3. QED  BY <1>1, <1>2

LEMMA TakeIs ==
  ASSUME AgentOK, TakeFrame
  PROVE  /\ AgentOK' /\ agent'.fate = agent.fate
         /\ agent.pc = "ready" /\ agent'.pc = "ready" /\ agent'.config = NoConfiguration
         /\ agent.pending = 0 /\ agent'.pending = agent.accepted + 1 /\ agent'.gen = agent.gen
         /\ agent'.accepted = agent.accepted /\ agent'.released = agent.released
         /\ agent'.watch = agent.watch
<1>1. agent.accepted + 1 \in 0..MaxSequence
  BY BoundsNatural DEF AgentOK, TakeFrame, AgentRecord
<1>2. QED  BY <1>1 DEF AgentOK, TakeFrame, AgentRecord

LEMMA TakeFirstIs ==
  ASSUME AgentOK, TakeFirstOfGeneration
  PROVE  /\ AgentOK' /\ agent'.fate = agent.fate
         /\ agent.pc = "ready" /\ agent'.pc = "offline" /\ agent'.config = NoConfiguration
         /\ agent'.gen # agent.gen /\ agent'.accepted = 0 /\ agent'.released = agent.released
         /\ agent.pending = 0 /\ agent'.watch = agent.watch
<1>1. PICK g \in ((agent.first + 1)..(agent.top + 1)) \ {agent.gen} :
        /\ g <= MaxGeneration
        /\ agent' = [agent EXCEPT !.pc = "offline", !.gen = g, !.accepted = 0, !.pending = 1,
                                  !.top = IF g = agent.top + 1 THEN g ELSE agent.top]
  BY DEF TakeFirstOfGeneration
<1>2. /\ agent \in AgentRecord /\ agent.pending = 0 /\ agent.config = NoConfiguration
      /\ agent.pc = "ready" /\ agent.fate = "alive" /\ ~ agent.tried /\ agent.released \in Nat
      /\ agent.first \in 1..MaxGeneration /\ agent.top \in 1..MaxGeneration /\ MaxGeneration \in Nat
      /\ 0 \in 0..MaxSequence /\ 1 \in 0..MaxSequence
  BY BoundsNatural, FirstGeneration DEF AgentOK, TakeFirstOfGeneration, AgentRecord
<1>3. PICK t : t = IF g = agent.top + 1 THEN g ELSE agent.top  OBVIOUS
<1>4. g \in 1..MaxGeneration /\ t \in 1..MaxGeneration /\ g <= t  BY <1>1, <1>2, <1>3
<1> DEFINE r == [agent EXCEPT !.pc = "offline", !.gen = g, !.accepted = 0, !.pending = 1, !.top = t]
<1>5. agent' = r  BY <1>1, <1>3
<1>6. r \in AgentRecord  BY <1>2, <1>4 DEF AgentRecord
<1>7. /\ r.pc = "offline" /\ r.gen = g /\ r.top = t /\ r.accepted = 0 /\ r.pending = 1
      /\ r.tried = agent.tried /\ r.released = agent.released /\ r.fate = agent.fate
      /\ r.watch = agent.watch /\ r.config = agent.config
  BY <1>2 DEF AgentRecord
<1> HIDE DEF r
<1>8. AgentOK'  BY <1>2, <1>4, <1>5, <1>6, <1>7 DEF AgentOK
<1>9. QED  BY <1>1, <1>2, <1>5, <1>7, <1>8

LEMMA RestartIs ==
  ASSUME AgentOK, RestartMonitor
  PROVE  agent.pc = "ready" /\ agent.fate = "alive" /\ Replaced(agent, agent.watch)
BY DEF AgentOK, RestartMonitor, Replaced, CanMint

LEMMA ReadyIs ==
  ASSUME AgentOK, ReadyAgain(agent), agent.pc \in {"calling", "beat"}
  PROVE  /\ AgentOK' /\ Steady /\ agent'.fate = agent.fate
         /\ agent'.pc = "ready" /\ agent'.config = agent.config /\ agent.config = NoConfiguration
BY DEF AgentOK, ReadyAgain, AgentRecord, Steady

LEMMA SettledReadyIs ==
  ASSUME AgentOK, agent.pending # 0, ReadyAgain(Settled(agent)), agent.pc \in {"calling", "event"}
  PROVE  /\ AgentOK' /\ agent'.fate = agent.fate
         /\ agent'.pc = "ready" /\ agent'.config = agent.config /\ agent.config = NoConfiguration
         /\ agent'.gen = agent.gen /\ agent'.accepted = agent.pending
         /\ agent'.pending = 0 /\ agent'.released = agent.released + 1
         /\ agent'.watch = agent.watch
<1>1. PICK a : a = Settled(agent)  OBVIOUS
<1>2. /\ a \in AgentRecord /\ a.pc = agent.pc /\ a.fate = agent.fate /\ a.gen = agent.gen
      /\ a.accepted = agent.pending /\ a.pending = 0 /\ ~ a.tried
      /\ a.released = agent.released + 1 /\ a.watch = agent.watch /\ a.config = agent.config
      /\ a.top = agent.top /\ agent.gen <= agent.top
  BY <1>1, SettledIs DEF AgentOK
<1>3. agent' = [a EXCEPT !.pc = "ready"] /\ a.config = NoConfiguration
  BY <1>1 DEF ReadyAgain
<1>4. agent.pending = agent.accepted + 1 /\ agent.accepted \in Nat /\ agent.released \in Nat
      /\ agent.accepted <= agent.released /\ agent.fate = "alive"
  BY BoundsNatural DEF AgentOK, AgentRecord
<1>5. QED  BY <1>2, <1>3, <1>4 DEF AgentOK, AgentRecord

LEMMA AbsorbIs ==
  ASSUME AgentOK, NEW w \in Watchlist, agent' = [agent EXCEPT !.config = w],
         agent.pc \in {"calling", "event", "beat"}
  PROVE  /\ AgentOK' /\ Steady /\ agent'.tried = agent.tried
         /\ agent'.pc = agent.pc /\ agent'.fate = agent.fate /\ agent'.config = w
BY DEF AgentOK, AgentRecord, Steady

LEMMA ReplacedIs ==
  ASSUME AgentOK, NEW w \in Watchlist, agent.fate = "alive", Replaced(agent, w)
  PROVE  /\ AgentOK' /\ agent'.fate = "alive" /\ agent'.gen # agent.gen
         /\ agent'.pc = "offline" /\ agent'.config = NoConfiguration /\ agent'.watch = w
         /\ agent'.accepted = 0 /\ agent'.pending = 0
         /\ agent'.released = IF agent.pending = 0 THEN agent.released ELSE agent.released + 1
BY ProcessKeeps DEF Replaced, AgentOK

LEMMA SettledReplacedIs ==
  ASSUME AgentOK, NEW w \in Watchlist, agent.fate = "alive", agent.pending # 0,
         Replaced(Settled(agent), w)
  PROVE  /\ AgentOK' /\ agent'.fate = "alive" /\ agent'.gen # agent.gen
         /\ agent'.pc = "offline" /\ agent'.config = NoConfiguration /\ agent'.watch = w
         /\ agent'.accepted = 0 /\ agent'.pending = 0
         /\ agent'.released = agent.released + 1
<1>1. PICK a : a = Settled(agent)  OBVIOUS
<1>2. /\ a \in AgentRecord /\ a.fate = agent.fate /\ a.gen = agent.gen /\ a.pending = 0
      /\ a.released = agent.released + 1 /\ a.top = agent.top /\ agent.gen <= agent.top
  BY <1>1, SettledIs DEF AgentOK
<1>3. a.top < MaxGeneration /\ agent' = NewProcess(a, w)  BY <1>1 DEF Replaced
<1>4. QED  BY <1>2, <1>3, ProcessKeeps

-----------------------------------------------------------------------------
(* The hub, seen from the agent: the stage of each call, its commands and    *)
(* the cursor.                                                               *)

\* Only the call s is touched.
Others(s) == \A t \in Streams \ {s} : stream'[t] = stream[t] /\ commands'[t] = commands[t]
SameCursor == generation' = generation /\ latest' = latest

LEMMA HelloIs ==
  ASSUME TypeOK, NEW s \in Streams, NEW g, NEW hello, ConnectAgent(s, g, hello)
  PROVE  /\ stream[s].stage = "idle" /\ agentSession = 0 /\ HelloAdmissible(hello)
         /\ generation' = g /\ latest' = (IF g = generation THEN latest ELSE 0)
         /\ desired' = IF desired.list = NoWatchlist THEN hello ELSE desired
         /\ Others(s) /\ commands' = commands
         /\ stream'[s].stage = "greeting"
         /\ stream'[s].config = PendingConfiguration(hello, desired')
BY DEF TypeOK, ConnectAgent, SessionFree, Others, StreamRecord

LEMMA AckSentIs ==
  ASSUME TypeOK, NEW s \in Streams, SendHelloAck(s)
  PROVE  /\ SameCursor /\ desired' = desired /\ Others(s) /\ stream[s].stage = "greeting"
         /\ stream'[s].config = stream[s].config
         /\ \/ stream'[s].stage = "failed"
            \/ /\ commands'[s] = Append(commands[s], Ack(latest))
               /\ stream'[s].stage = IF stream[s].config = NoConfiguration THEN "serving" ELSE "configuring"
<1>1. UNCHANGED state /\ stream[s].stage = "greeting"  BY DEF SendHelloAck
<1>2. SameCursor /\ desired' = desired  BY <1>1 DEF state, SameCursor
<1>3. CASE Len(commands[s]) < CommandCapacity
  BY <1>1, <1>2, <1>3 DEF SendHelloAck, TypeOK, StreamRecord, Others
<1>4. CASE ~ (Len(commands[s]) < CommandCapacity)
  BY <1>1, <1>2, <1>4 DEF SendHelloAck, TypeOK, StreamRecord, Others
<1>5. QED  BY <1>3, <1>4

LEMMA ConfigurationSentIs ==
  ASSUME TypeOK, NEW s \in Streams, SendConfiguration(s)
  PROVE  /\ SameCursor /\ desired' = desired /\ Others(s) /\ stream[s].stage = "configuring"
         /\ stream[s].config \in Watchlist
         /\ \/ stream'[s].stage = "failed" /\ stream'[s].config = stream[s].config
            \/ /\ commands'[s] = Append(commands[s], Configure(stream[s].config))
               /\ stream'[s].stage = "serving" /\ stream'[s].config = NoConfiguration
<1>1. /\ UNCHANGED state /\ stream[s].stage = "configuring" /\ stream[s].config \in Watchlist
  BY DEF SendConfiguration, TypeOK, StreamRecord
<1>2. SameCursor /\ desired' = desired  BY <1>1 DEF state, SameCursor
<1>3. CASE Len(commands[s]) < CommandCapacity
  <2>1. /\ commands' = [commands EXCEPT ![s] = Append(@, Configure(stream[s].config))]
        /\ stream' = [stream EXCEPT ![s].stage = "serving", ![s].config = NoConfiguration,
                                    ![s].told = stream[s].told \cup {stream[s].config}]
    BY <1>3 DEF SendConfiguration
  <2>2. QED  BY <1>1, <1>2, <2>1 DEF TypeOK, StreamRecord, Others
<1>4. CASE ~ (Len(commands[s]) < CommandCapacity)
  BY <1>1, <1>2, <1>4 DEF SendConfiguration, TypeOK, StreamRecord, Others
<1>5. QED  BY <1>3, <1>4

LEMMA PublishIs ==
  ASSUME TypeOK, NEW s \in Streams, NEW event, Publish(s, event)
  PROVE  /\ stream[s].stage = "serving" /\ event.gen = generation /\ event.seq = latest + 1
         /\ generation' = generation /\ latest' = event.seq /\ desired' = desired
         /\ commands' = commands /\ Others(s)
         /\ stream'[s].stage = "broadcasting" /\ stream'[s].config = stream[s].config
BY DEF TypeOK, Publish, Publishable, Others, StreamRecord

LEMMA BroadcastIs ==
  ASSUME TypeOK, NEW s \in Streams, Broadcast(s)
  PROVE  /\ SameCursor /\ desired' = desired /\ Others(s) /\ stream[s].stage = "broadcasting"
         /\ stream'[s].config = stream[s].config
         /\ \/ stream'[s].stage = "closing" /\ commands'[s] = commands[s]
            \/ /\ commands'[s] = Append(commands[s], Ack(stream[s].outgoing.seq))
               /\ stream'[s].stage = "serving"
<1>1. UNCHANGED state /\ stream[s].stage = "broadcasting"  BY DEF Broadcast
<1>2. SameCursor /\ desired' = desired  BY <1>1 DEF state, SameCursor
<1>3. QED  BY <1>1, <1>2 DEF Broadcast, TypeOK, StreamRecord, Others

LEMMA HeartbeatIs ==
  ASSUME TypeOK, NEW s \in Streams, NEW cursor, Heartbeat(s, cursor)
  PROVE  /\ SameCursor /\ desired' = desired /\ Others(s) /\ stream[s].stage = "serving"
         /\ cursor = [gen |-> generation, seq |-> latest]
         /\ stream'[s].config = stream[s].config
         /\ \/ stream'[s].stage = "closing" /\ commands'[s] = commands[s]
            \/ /\ commands'[s] = Append(commands[s], Ack(latest))
               /\ stream'[s].stage = "serving"
<1>1. UNCHANGED state /\ stream[s].stage = "serving" /\ cursor = [gen |-> generation, seq |-> latest]
  BY DEF Heartbeat
<1>2. SameCursor /\ desired' = desired  BY <1>1 DEF state, SameCursor
<1>3. QED  BY <1>1, <1>2 DEF Heartbeat, TypeOK, StreamRecord, Others

LEMMA RefuseIs ==
  ASSUME TypeOK, NEW s \in Streams, Refuse(s)
  PROVE  /\ SameCursor /\ desired' = desired /\ Others(s) /\ stream[s].stage = "serving"
         /\ stream'[s].stage = "closing" /\ stream'[s].config = stream[s].config
<1>1. UNCHANGED state /\ stream[s].stage = "serving"  BY DEF Refuse
<1>2. SameCursor /\ desired' = desired  BY <1>1 DEF state, SameCursor
<1>3. QED  BY <1>1, <1>2 DEF Refuse, TypeOK, StreamRecord, Others

LEMMA EndIs ==
  ASSUME TypeOK, NEW s \in Streams, EndOfStream(s)
  PROVE  /\ SameCursor /\ desired' = desired /\ Others(s) /\ stream[s].stage = "serving"
         /\ stream'[s].stage = "closing" /\ stream'[s].config = stream[s].config
         /\ commands' = commands
<1>1. UNCHANGED state /\ stream[s].stage = "serving"  BY DEF EndOfStream
<1>2. SameCursor /\ desired' = desired  BY <1>1 DEF state, SameCursor
<1>3. QED  BY <1>1, <1>2 DEF EndOfStream, TypeOK, StreamRecord, Others

LEMMA DisconnectIs ==
  ASSUME TypeOK, NEW s \in Streams, DisconnectAgent(s)
  PROVE  /\ SameCursor /\ desired' = desired /\ Others(s) /\ stream[s].stage = "closing"
         /\ stream'[s].stage = "closed" /\ stream'[s].config = NoConfiguration
BY DEF DisconnectAgent, TypeOK, StreamRecord, Others, SameCursor

LEMMA SetIs ==
  ASSUME TypeOK, NEW list \in Watchlists, SetWatchlist(list)
  PROVE  \E s \in Streams, w \in Watchlist :
           /\ w.list = list /\ w.revision = desired.revision + 1
           /\ agentSession # 0 /\ stream[s].session = agentSession
           /\ SameCursor /\ desired' = w
           /\ \A t \in Streams : /\ stream'[t].stage = stream[t].stage
                                 /\ stream'[t].config = stream[t].config
           /\ commands'[s] = Append(commands[s], Configure(w))
           /\ \A t \in Streams \ {s} : commands'[t] = commands[t]
<1> DEFINE w == [revision |-> desired.revision + 1, list |-> list]
<1>1. w \in Watchlist  BY DEF TypeOK, Watchlist
<1>2. PICK s \in Streams :
        /\ stream[s].session = agentSession
        /\ commands' = [commands EXCEPT ![s] = Append(@, Configure(w))]
        /\ stream' = [stream EXCEPT ![s].told = @ \cup {w}]
        /\ desired' = w
  BY DEF SetWatchlist
<1>3. agentSession # 0 /\ SameCursor  BY DEF SetWatchlist, SameCursor
<1>4. w.list = list /\ w.revision = desired.revision + 1  OBVIOUS
<1> HIDE DEF w
<1>5. /\ \A t \in Streams : /\ stream'[t].stage = stream[t].stage
                            /\ stream'[t].config = stream[t].config
      /\ commands'[s] = Append(commands[s], Configure(w))
      /\ \A t \in Streams \ {s} : commands'[t] = commands[t]
  BY <1>2 DEF TypeOK, StreamRecord
<1>6. QED  BY <1>1, <1>2, <1>3, <1>4, <1>5

LEMMA ReceiveIs ==
  ASSUME TypeOK, NEW s \in Streams, ReceiveCommand(s)
  PROVE  /\ SameCursor /\ desired' = desired /\ stream' = stream
         /\ stream[s].stage \in {"serving", "broadcasting", "closing"}
         /\ commands[s] # <<>> /\ commands'[s] = Tail(commands[s])
         /\ \A t \in Streams \ {s} : commands'[t] = commands[t]
BY DEF ReceiveCommand, Answered, TypeOK, SameCursor, state

LEMMA FailIs ==
  ASSUME NEW s \in Streams, FallSilent(s) \/ Hangup(s)
  PROVE  /\ SameCursor /\ desired' = desired /\ stream' = stream /\ commands' = commands
BY DEF FallSilent, Hangup, SameCursor, state

-----------------------------------------------------------------------------
(* The invariant *)

\* The agent's messages, with the bounds that make them inputs of the hub.
Msg == [type : {"hello"}, gen : Generations, watch : Watchlist]
       \cup [type : {"event"}, gen : Generations, seq : 1..MaxSequence, frame : Nat]
       \cup [type : {"heartbeat"}, gen : Generations, seq : 0..MaxSequence]

\* The network: at most one message of the agent is under way on a call, and
\* what a call left is there only once it has ended.
NetOK ==
  /\ link \in Streams \cup {NoStream}
  /\ link = NoStream <=> agent.pc \in {"offline", "exited"}
  /\ uplink \in [Streams -> {<<>>} \cup {<<m>> : m \in Msg}]
  /\ leftover \in [Streams -> Seq(Command)]
  /\ log \in Seq([gen : Nat, frame : Nat])
  /\ \A s \in Streams :
       /\ stream[s].stage = "idle" => commands[s] = <<>>
       /\ stream[s].stage # "closed" => leftover[s] = <<>>

\* The commands of a call the agent has still to read.
Inbox(s) == IF stream[s].stage \in Attached THEN commands[s] ELSE leftover[s]

\* The cursor the hub has for the agent's generation.
Held == IF generation = agent.gen THEN latest ELSE 0

\* The call the agent is on: while it awaits an Ack at most one is under way,
\* while it does not there is none and nothing of the agent's is under way; and
\* the hub's cursor is the agent's until an event is published.
OnLink(s) ==
  /\ Under(s, "hello") => Head(uplink[s]).gen = agent.gen
  /\ stream[s].stage \in {"idle", "greeting", "configuring"} =>
       agent.pc = "calling" /\ agent.config = NoConfiguration
  /\ stream[s].stage = "greeting" => AckOf(commands[s]) = {}
  /\ stream[s].stage = "broadcasting" =>
       agent.pc = "event" /\ uplink[s] = <<>> /\ AckOf(commands[s]) = {} /\ latest = agent.pending
  /\ stream[s].stage \in Attached => generation = agent.gen
  /\ stream[s].stage \in Attached
       /\ (agent.pc \in {"ready", "beat"} \/ (agent.pc = "event" /\ uplink[s] # <<>>))
         => latest = agent.accepted
  /\ OneAck(Inbox(s)) /\ StopFree(Inbox(s))
  /\ uplink[s] # <<>> => AckOf(Inbox(s)) = {}
  /\ agent.pc = "ready" => uplink[s] = <<>> /\ AckOf(Inbox(s)) = {}
  /\ uplink[s] # <<>> /\ stream[s].stage # "idle" =>
       \/ agent.pc = "event" /\ uplink[s] = <<Event(agent.gen, agent.pending, agent.released + 1)>>
       \/ agent.pc = "beat" /\ uplink[s] = <<Beat(agent.gen, agent.accepted)>>

\* An Ack under way to the agent names the hub's cursor, or one the hub has
\* forgotten since, and what the agent waits for.
AckAt(s, n) ==
  /\ stream[s].stage \in Attached => n = latest
  /\ Held = n \/ (lapses # {} /\ Held = 0)
  /\ agent.pc = "event" => n = agent.pending
  /\ agent.pc = "beat" => n = agent.accepted
  /\ agent.pending # 0 /\ n = agent.pending =>
       \E k \in DOMAIN log : log[k] = [gen |-> agent.gen, frame |-> agent.released + 1]

LinkOK == link # NoStream => OnLink(link) /\ \A n \in AckOf(Inbox(link)) : AckAt(link, n)

\* An event under way on a call the agent has dropped is the frame it keeps,
\* and nothing else it has sent can be read before the hub is through with it.
LateAt(s) ==
  /\ stream[s].stage # "broadcasting"
  /\ agent.pc \in {"offline", "calling", "exited"}
  /\ link # NoStream => stream[link].stage = "idle"
  /\ uplink[s] = <<Event(agent.gen, agent.pending, agent.released + 1)>>
  /\ agent.pending # 0 /\ agent.tried

LateOK ==
  \A s \in Streams : s # link /\ stream[s].stage \in Attached /\ Under(s, "event") => LateAt(s)

\* The frames of the agent's generation that were published since it began.
Begun == agent.released - agent.accepted
Frames == {log[k].frame : k \in {i \in DOMAIN log : log[i].gen = agent.gen /\ log[i].frame > Begun}}

\* The hub's cursor is the agent's or one ahead, by the frame that is kept and
\* was sent; what is published is what the cursor says, or it was forgotten.
\* No frame was published that the agent has not taken.
CursorOK ==
  /\ Held > 0 =>
       /\ Held = agent.accepted \/ (agent.pending # 0 /\ agent.tried /\ Held = agent.pending)
       /\ Frames = (Begun + 1)..(Begun + Held)
  /\ lapses = {} /\ Held = 0 => agent.accepted = 0 /\ Frames = {}
  /\ \/ Frames = {}
     \/ Frames = (Begun + 1)..agent.released
     \/ agent.pending # 0 /\ Frames = (Begun + 1)..(agent.released + 1)
  /\ \A i \in DOMAIN log :
       log[i].frame <= agent.released \/ (agent.pending # 0 /\ log[i].frame = agent.released + 1)

\* The agent knows, or is about to read, that the hub took its generation up.
Greeted == agent.pc \in {"ready", "event", "beat"} \/ (link # NoStream /\ AckOf(Inbox(link)) # {})

\* A generation the hub has gone over to since then, late, is empty: going on to
\* it, whatever its label, the agent finds no cursor of another stretch.
TakenOK == Greeted /\ generation # agent.gen => latest = 0

CoreInv == AgentOK /\ NetOK /\ LinkOK /\ LateOK /\ CursorOK /\ TakenOK

-----------------------------------------------------------------------------
(* Frame conditions *)

LEMMA AgentTypes ==
  AgentOK => /\ agent.gen \in Nat /\ agent.gen >= 1 /\ agent.accepted \in Nat /\ agent.pending \in Nat
             /\ agent.released \in Nat /\ agent.accepted <= agent.released
             /\ agent.pending # 0 => agent.pending = agent.accepted + 1
BY BoundsNatural, FirstGeneration DEF AgentOK, AgentRecord

LEMMA HubTypes ==
  TypeOK => /\ generation \in Nat /\ latest \in Nat
            /\ commands \in [Streams -> Seq(Command)]
            /\ \A s \in Streams : commands[s] \in Seq(Command)
BY BoundsNatural DEF TypeOK

LEMMA LogTypes ==
  ASSUME NetOK, NEW i \in DOMAIN log
  PROVE  log[i].gen \in Nat /\ log[i].frame \in Nat
<1>1. log \in Seq([gen : Nat, frame : Nat]) /\ i \in 1..Len(log)  BY DEF NetOK
<1>2. log[i] \in [gen : Nat, frame : Nat]  BY <1>1, ElementOfSeq
<1>3. QED  BY <1>2

LEMMA CursorSame ==
  ASSUME CursorOK, Steady, agent.tried => agent'.tried, SameCursor, log' = log,
         lapses' = {} => lapses = {}
  PROVE  CursorOK'
<1>1. Held' = Held /\ Begun' = Begun /\ Frames' = Frames
  BY DEF Steady, SameCursor, Held, Begun, Frames
<1>2. QED  BY <1>1 DEF CursorOK, Steady

\* The step leaves the agent in its generation, and greets it in none.
LEMMA TakenSame ==
  ASSUME TakenOK, SameCursor, agent'.gen = agent.gen, Greeted' => Greeted
  PROVE  TakenOK'
BY DEF TakenOK, SameCursor

\* An agent that is on no call is not greeted.
LEMMA NotGreeted ==
  ASSUME link = NoStream, agent.pc \in {"offline", "exited"}
  PROVE  TakenOK
BY DEF TakenOK, Greeted

\* An agent that goes over to another generation finds the hub without a cursor
\* for it and no frame of it published: frames are taken once.
LEMMA CursorRenewed ==
  ASSUME CursorOK, NetOK, TakenOK, Greeted, AgentOK, AgentOK',
         agent'.gen # agent.gen, agent'.accepted = 0,
         agent'.released = agent.released
           \/ (agent'.released = agent.released + 1 /\ agent.pending # 0),
         agent.pending = 0 \/ agent'.released = agent.released + 1,
         SameCursor, log' = log
  PROVE  CursorOK'
<1>1. agent.released \in Nat /\ agent'.released \in Nat  BY DEF AgentOK, AgentRecord
<1>2. Held' = 0
  BY DEF TakenOK, Held, SameCursor
<1>3. \A i \in DOMAIN log : log[i].frame \in Nat /\ log[i].frame <= agent'.released
  <2>1. ASSUME NEW i \in DOMAIN log PROVE log[i].frame \in Nat /\ log[i].frame <= agent'.released
    <3>1. log[i].frame \in Nat  BY LogTypes
    <3>2. log[i].frame <= agent.released \/ (agent.pending # 0 /\ log[i].frame = agent.released + 1)
      BY DEF CursorOK
    <3>3. QED  BY <1>1, <3>1, <3>2
  <2>2. QED  BY <2>1
<1>4. Frames' = {}
  <2>1. Begun' = agent'.released  BY <1>1 DEF Begun
  <2>2. \A i \in DOMAIN log : ~ (log[i].frame > agent'.released)  BY <1>1, <1>3
  <2>3. QED  BY <2>1, <2>2 DEF Frames
<1>5. QED  BY <1>2, <1>3, <1>4 DEF CursorOK

LEMMA HubSame ==
  UNCHANGED hub => SameCursor /\ stream' = stream /\ commands' = commands /\ desired' = desired
BY DEF hub, vars, state, SameCursor

LEMMA MessageTypes ==
  ASSUME AgentOK
  PROVE  /\ Hello(agent.gen, agent.watch) \in Msg
         /\ agent.pending # 0 => Event(agent.gen, agent.pending, agent.released + 1) \in Msg
         /\ Beat(agent.gen, agent.accepted) \in Msg
<1>1. /\ agent.gen \in Generations /\ agent.watch \in Watchlist /\ agent.accepted \in 0..MaxSequence
      /\ agent.released + 1 \in Nat
      /\ agent.pending # 0 => agent.pending \in 1..MaxSequence
  BY BoundsNatural DEF AgentOK, AgentRecord, Generations
<1>2. QED  BY <1>1 DEF Msg, Hello, Event, Beat

\* The agent's operations leave the hub alone.
LEMMA NetSame ==
  ASSUME NetOK, UNCHANGED hub, log' = log,
         link' \in Streams \cup {NoStream}, link' = NoStream <=> agent'.pc \in {"offline", "exited"},
         uplink' = uplink, leftover' = leftover
  PROVE  NetOK'
<1>1. stream' = stream /\ commands' = commands  BY HubSame
<1>2. QED  BY <1>1 DEF NetOK

LEMMA DialsCore ==
  ASSUME IInv, CoreInv, AgentOK', NEW s \in Streams, AgentDials(s)
  PROVE  CoreInv'
<1>1. /\ AgentOK /\ NetOK /\ CursorOK /\ LateOK /\ TypeOK  BY DEF CoreInv, IInv
<1>2. /\ Steady /\ agent'.tried = agent.tried
      /\ agent.pc = "offline" /\ agent'.pc = "calling" /\ agent'.config = NoConfiguration
  BY <1>1, DialIs DEF AgentDials
<1>3. /\ stream[s].stage = "idle" /\ uplink[s] = <<>> /\ link' = s
      /\ uplink' = [uplink EXCEPT ![s] = <<Hello(agent.gen, agent.watch)>>]
      /\ leftover' = leftover /\ log' = log /\ lapses' = lapses /\ UNCHANGED hub
  BY DEF AgentDials, Unused
<1>4. SameCursor /\ stream' = stream /\ commands' = commands  BY <1>3, HubSame
<1>5. link = NoStream /\ s # NoStream  BY <1>1, <1>2, NoStreamDistinct DEF NetOK
<1>6. /\ \A t \in Streams \ {s} : uplink'[t] = uplink[t]
      /\ uplink'[s] = <<Hello(agent.gen, agent.watch)>>
      /\ uplink' \in [Streams -> {<<>>} \cup {<<m>> : m \in Msg}]
  BY <1>1, <1>3, MessageTypes DEF NetOK
<1>7. NetOK'
  BY <1>1, <1>2, <1>3, <1>4, <1>5, <1>6 DEF NetOK
<1>8. LinkOK'
  <2>1. Inbox(s)' = <<>>  BY <1>1, <1>3, <1>4 DEF NetOK, Inbox, Attached
  <2>2. OnLink(s)'
    BY <1>2, <1>3, <1>4, <1>6, <2>1, QueueEmpty DEF OnLink, Attached, Hello, Under, Steady
  <2>3. QED  BY <1>3, <2>1, <2>2, QueueEmpty DEF LinkOK
<1>9. LateOK'
  <2> SUFFICES ASSUME NEW t \in Streams, t # s, stream[t].stage \in Attached, Under(t, "event")'
               PROVE  LateAt(t)'
    BY <1>3, <1>4 DEF LateOK
  <2>1. Under(t, "event")  BY <1>6 DEF Under
  <2>2. LateAt(t)  BY <1>1, <1>5, <2>1, NoStreamDistinct DEF LateOK
  <2>3. QED  BY <1>2, <1>3, <1>4, <1>6, <2>2 DEF LateAt, Steady
<1>10. CursorOK'  BY <1>1, <1>2, <1>3, <1>4, CursorSame
<1>11. TakenOK'
  <2>1. Inbox(s)' = <<>>  BY <1>1, <1>3, <1>4 DEF NetOK, Inbox, Attached
  <2>2. ~ Greeted'  BY <1>2, <1>3, <2>1, QueueEmpty DEF Greeted
  <2>3. QED  BY <2>2 DEF TakenOK
<1>12. QED  BY <1>7, <1>8, <1>9, <1>10, <1>11 DEF CoreInv

\* What LateOK needs to know when the agent leaves the call it was on: an event
\* under way on it is late from now on.
LEMMA LeaveLate ==
  ASSUME CoreInv, Steady, agent'.tried = agent.tried, agent'.pc \in {"offline", "exited"},
         link' = NoStream, stream' = stream, \A t \in Streams : uplink'[t] \in {uplink[t], <<>>}
  PROVE  LateOK'
<1> SUFFICES ASSUME NEW t \in Streams, stream[t].stage \in Attached, Under(t, "event")'
             PROVE  LateAt(t)'
  BY DEF LateOK
<1>1. uplink'[t] = uplink[t] /\ Under(t, "event")  BY DEF Under
<1>2. CASE t = link
  <2>1. t # NoStream /\ OnLink(t)  BY <1>2, NoStreamDistinct DEF CoreInv, LinkOK
  <2>2. uplink[t] # <<>> /\ stream[t].stage # "idle" /\ Head(uplink[t]).type = "event"
    BY <1>1 DEF Under, Attached
  <2>3. agent.pc = "event" /\ uplink[t] = <<Event(agent.gen, agent.pending, agent.released + 1)>>
    BY <2>1, <2>2 DEF OnLink, Beat
  <2>4. stream[t].stage # "broadcasting"  BY <2>1, <2>2 DEF OnLink
  <2>5. agent.pending # 0 /\ agent.tried  BY <2>3 DEF CoreInv, AgentOK
  <2>6. QED  BY <1>1, <2>3, <2>4, <2>5 DEF LateAt, Steady
<1>3. CASE t # link
  <2>1. LateAt(t)  BY <1>1, <1>3 DEF CoreInv, LateOK
  <2>2. QED  BY <1>1, <2>1 DEF LateAt, Steady
<1>4. QED  BY <1>2, <1>3

\* No event is under way to the hub while the agent is idle in a session, or
\* has an Ack to read.
LEMMA NothingLate ==
  ASSUME CoreInv, link # NoStream,
         \/ agent.pc = "ready"
         \/ stream[link].stage # "idle" /\ AckOf(Inbox(link)) # {},
         NEW t \in Streams, stream[t].stage \in Attached
  PROVE  ~ Under(t, "event")
<1>1. OnLink(link)  BY DEF CoreInv, LinkOK
<1>2. uplink[link] = <<>>  BY <1>1 DEF OnLink
<1>3. CASE t = link  BY <1>2, <1>3 DEF Under
<1>4. CASE t # link  BY <1>4 DEF CoreInv, LateOK, LateAt
<1>5. QED  BY <1>3, <1>4

LEMMA LosesCore ==
  ASSUME IInv, CoreInv, AgentOK', NEW s \in Streams, AgentLosesSession(s)
  PROVE  CoreInv'
<1>1. /\ AgentOK /\ NetOK /\ CursorOK /\ TypeOK  BY DEF CoreInv, IInv
<1>2. /\ Steady /\ agent'.tried = agent.tried /\ agent'.pc = "offline"
  BY <1>1, LoseIs DEF AgentLosesSession
<1>3. /\ link' = NoStream /\ uplink' = uplink /\ leftover' = leftover /\ log' = log
      /\ lapses' = lapses /\ UNCHANGED hub
  BY <1>2 DEF AgentLosesSession, Follow
<1>4. SameCursor /\ stream' = stream  BY <1>3, HubSame
<1>5. NetOK'  BY <1>1, <1>2, <1>3, NetSame
<1>6. LateOK'  BY <1>2, <1>3, <1>4, LeaveLate
<1>7. CursorOK'  BY <1>1, <1>2, <1>3, <1>4, CursorSame
<1>8. TakenOK'  BY <1>2, <1>3 DEF TakenOK, Greeted
<1>9. QED  BY <1>3, <1>5, <1>6, <1>7, <1>8 DEF CoreInv, LinkOK

\* The agent goes over to another generation: its cursor is empty, and so is
\* what the hub holds of it.
LEMMA RenewsCore ==
  ASSUME IInv, CoreInv, AgentOK', UNCHANGED hub \/ (SameCursor /\ stream' = stream),
         NetOK', link' = NoStream, uplink' = uplink, log' = log,
         agent'.gen # agent.gen, agent'.accepted = 0, agent'.pc = "offline", link # NoStream,
         agent'.released = agent.released
           \/ (agent'.released = agent.released + 1 /\ agent.pending # 0),
         agent.pending = 0 \/ agent'.released = agent.released + 1,
         \/ agent.pc = "ready"
         \/ stream[link].stage # "idle" /\ AckOf(Inbox(link)) # {}
  PROVE  CoreInv'
<1>1. /\ AgentOK /\ NetOK /\ CursorOK /\ TakenOK  BY DEF CoreInv
<1>2. SameCursor /\ stream' = stream  BY HubSame
<1>3. Greeted  BY DEF Greeted
<1>4. CursorOK'  BY <1>1, <1>2, <1>3, CursorRenewed
<1>5. LateOK'
  <2>1. \A t \in Streams : stream[t].stage \in Attached => ~ Under(t, "event")  BY NothingLate
  <2>2. QED  BY <1>2, <2>1 DEF LateOK, Under
<1>6. TakenOK'  BY DEF TakenOK, Greeted
<1>7. QED  BY <1>4, <1>5, <1>6 DEF CoreInv, LinkOK

LEMMA MovesCore ==
  ASSUME IInv, CoreInv, AgentOK', AgentMoves
  PROVE  CoreInv'
<1>1. /\ AgentOK /\ NetOK /\ CursorOK /\ TypeOK  BY DEF CoreInv, IInv
<1>2. /\ uplink' = uplink /\ leftover' = leftover /\ log' = log
      /\ lapses' = lapses /\ UNCHANGED hub /\ Follow
  BY DEF AgentMoves
<1>3. SameCursor /\ stream' = stream /\ commands' = commands  BY <1>2, HubSame
<1>4. CASE TakeFrame
  <2>1. /\ agent.pc = "ready" /\ agent'.pc = "ready" /\ agent'.config = NoConfiguration
        /\ agent.pending = 0 /\ agent'.gen = agent.gen
        /\ agent'.accepted = agent.accepted /\ agent'.released = agent.released
    BY <1>1, <1>4, TakeIs
  <2>2. link' = link /\ link # NoStream  BY <1>1, <1>2, <2>1 DEF Follow, NetOK
  <2>3. NetOK'  BY <1>1, <1>2, <2>1, <2>2, NetSame DEF NetOK
  <2>4. OnLink(link)  BY <2>2 DEF CoreInv, LinkOK
  <2>5. Inbox(link)' = Inbox(link)  BY <1>2, <1>3, <2>2 DEF Inbox
  <2>6. OnLink(link)' /\ AckOf(Inbox(link)') = {}
    BY <1>2, <1>3, <2>1, <2>2, <2>4, <2>5 DEF OnLink, SameCursor, Under
  <2>7. LinkOK'  BY <2>6 DEF LinkOK
  <2>8. LateOK'
    <3>1. \A t \in Streams : stream[t].stage \in Attached => ~ Under(t, "event")
      BY <2>1, <2>2, NothingLate
    <3>2. QED  BY <1>2, <1>3, <3>1 DEF LateOK, Under
  <2>9. CursorOK'
    <3>1. Held' = Held /\ Begun' = Begun /\ Frames' = Frames
      BY <1>2, <1>3, <2>1 DEF SameCursor, Held, Begun, Frames
    <3>2. QED  BY <1>1, <1>2, <2>1, <3>1 DEF CursorOK
  <2>10. TakenOK'  BY <1>3, <2>1, TakenSame DEF CoreInv, Greeted
  <2>11. QED  BY <2>3, <2>7, <2>8, <2>9, <2>10 DEF CoreInv
<1>5. CASE TakeFirstOfGeneration \/ RestartMonitor
  <2>1. /\ agent.pc = "ready" /\ agent'.pc = "offline" /\ agent'.gen # agent.gen
        /\ agent'.accepted = 0
        /\ agent'.released = IF agent.pending = 0 THEN agent.released ELSE agent.released + 1
    <3>1. CASE TakeFirstOfGeneration  BY <1>1, <3>1, TakeFirstIs
    <3>2. CASE RestartMonitor
      <4>1. agent.watch \in Watchlist  BY <1>1 DEF AgentOK, AgentRecord
      <4>2. QED  BY <1>1, <3>2, <4>1, RestartIs, ReplacedIs
    <3>3. QED  BY <1>5, <3>1, <3>2
  <2>2. link' = NoStream /\ link # NoStream  BY <1>1, <1>2, <2>1 DEF Follow, NetOK
  <2>3. NetOK'  BY <1>1, <1>2, <2>1, <2>2, NetSame
  <2>4. QED  BY <1>2, <2>1, <2>2, <2>3, RenewsCore
<1>6. QED  BY <1>4, <1>5 DEF AgentMoves

LEMMA SendsCore ==
  ASSUME IInv, CoreInv, AgentOK', AgentSends
  PROVE  CoreInv'
<1>1. /\ AgentOK /\ NetOK /\ CursorOK /\ TypeOK  BY DEF CoreInv, IInv
<1> DEFINE m == IF SendFrame THEN Event(agent.gen, agent.pending, agent.released + 1)
                             ELSE Beat(agent.gen, agent.accepted)
<1>2. /\ Steady /\ agent.pc = "ready" /\ agent'.config = NoConfiguration
      /\ agent'.pc \in {"event", "beat"}
      /\ agent.tried => agent'.tried
  <2>1. SendFrame \/ SendHeartbeat  BY DEF AgentSends
  <2>2. QED  BY <1>1, <2>1, SendIs DEF AgentOK
<1>3. UNCHANGED hub /\ link' = link /\ leftover' = leftover /\ log' = log /\ lapses' = lapses
  BY DEF AgentSends
<1>4. SameCursor /\ stream' = stream /\ commands' = commands  BY <1>3, HubSame
<1>5. link \in Streams /\ link # NoStream  BY <1>1, <1>2 DEF NetOK
<1>6. OnLink(link)  BY <1>5 DEF CoreInv, LinkOK
<1>7. uplink[link] = <<>> /\ AckOf(Inbox(link)) = {}  BY <1>2, <1>6 DEF OnLink
<1>8. /\ uplink' = [uplink EXCEPT ![link] = Append(@, m)] /\ m \in Msg
      /\ m.type # "hello"
      /\ SendFrame \/ SendHeartbeat
      /\ agent'.pc = IF SendFrame THEN "event" ELSE "beat"
  <2>1. CASE SendFrame
    BY <1>1, <2>1, SendIs, MessageTypes DEF AgentSends, SendFrame, SendHeartbeat, Event
  <2>2. CASE ~ SendFrame
    <3>1. SendHeartbeat  BY <2>2 DEF AgentSends
    <3>2. QED  BY <1>1, <2>2, <3>1, SendIs, MessageTypes DEF AgentSends, Beat
  <2>3. QED  BY <2>1, <2>2
<1>9. /\ uplink'[link] = <<m>> /\ \A t \in Streams \ {link} : uplink'[t] = uplink[t]
      /\ uplink' \in [Streams -> {<<>>} \cup {<<x>> : x \in Msg}]
  <2> HIDE DEF m
  <2>1. Append(uplink[link], m) = <<m>>  BY <1>7
  <2>2. uplink' = [uplink EXCEPT ![link] = <<m>>]  BY <1>8, <2>1
  <2>3. m \in Msg /\ link \in Streams /\ uplink \in [Streams -> {<<>>} \cup {<<x>> : x \in Msg}]
    BY <1>1, <1>5, <1>8 DEF NetOK
  <2>4. <<m>> \in {<<>>} \cup {<<x>> : x \in Msg}  BY <2>3
  <2>5. QED  BY <2>2, <2>3, <2>4
<1>10. NetOK'
  BY <1>1, <1>2, <1>3, <1>4, <1>9 DEF NetOK
<1>11. LinkOK'
  <2>1. Inbox(link)' = Inbox(link)  BY <1>3, <1>4 DEF Inbox
  <2>2. \/ agent'.pc = "event" /\ uplink'[link] = <<Event(agent.gen, agent.pending, agent.released + 1)>>
        \/ agent'.pc = "beat" /\ uplink'[link] = <<Beat(agent.gen, agent.accepted)>>
    BY <1>8, <1>9
  <2> HIDE DEF m
  <2>3. ~ Under(link, "hello")'  BY <1>3, <1>8, <1>9 DEF Under
  <2>4. stream[link].stage \notin {"idle", "greeting", "configuring", "broadcasting"}
    BY <1>2, <1>6 DEF OnLink
  <2>5. OnLink(link)'
    BY <1>2, <1>3, <1>4, <1>6, <1>7, <2>1, <2>2, <2>3, <2>4 DEF OnLink, Steady, SameCursor
  <2>6. QED  BY <1>3, <1>7, <2>1, <2>5 DEF LinkOK
<1>12. LateOK'
  <2>1. \A t \in Streams : stream[t].stage \in Attached => ~ Under(t, "event")
    BY <1>2, <1>5, NothingLate
  <2>2. ASSUME NEW t \in Streams, t # link, stream[t].stage \in Attached PROVE ~ Under(t, "event")'
    BY <1>9, <2>1, <2>2 DEF Under
  <2>3. QED  BY <1>3, <1>4, <2>2 DEF LateOK
<1>13. CursorOK'
  BY <1>1, <1>2, <1>3, <1>4, CursorSame
<1>14. TakenOK'  BY <1>2, <1>4, TakenSame DEF CoreInv, Greeted, Steady
<1>15. QED  BY <1>10, <1>11, <1>12, <1>13, <1>14 DEF CoreInv
-----------------------------------------------------------------------------
(* The agent reads a command *)

\* What NetOK asks of a step after which no more is under way to the hub.
LEMMA NetStep ==
  ASSUME NetOK, log' = log,
         link' \in Streams \cup {NoStream}, link' = NoStream <=> agent'.pc \in {"offline", "exited"},
         uplink' \in [Streams -> {<<>>} \cup {<<m>> : m \in Msg}],
         leftover' \in [Streams -> Seq(Command)],
         \A s \in Streams : stream'[s].stage = "idle" => commands'[s] = <<>>,
         \A s \in Streams : stream'[s].stage # "closed" => leftover'[s] = <<>>
  PROVE  NetOK'
BY DEF NetOK

LEMMA ReadIs ==
  ASSUME NetOK, NEW s \in Streams, Read(s)
  PROVE  /\ uplink' \in [Streams -> {<<>>} \cup {<<m>> : m \in Msg}]
         /\ uplink'[s] = <<>> /\ \A t \in Streams \ {s} : uplink'[t] = uplink[t]
         /\ \A t \in Streams : uplink'[t] \in {uplink[t], <<>>}
BY DEF NetOK, Read

LEMMA ReadsIs ==
  ASSUME TypeOK, NetOK, NEW s \in Streams, AgentReads(s)
  PROVE  /\ link = s /\ s # NoStream /\ Follow
         /\ uplink' = uplink /\ log' = log /\ lapses' = lapses
         /\ SameCursor /\ desired' = desired /\ stream' = stream
         /\ stream[s].stage \in {"serving", "broadcasting", "closing", "closed"}
         /\ Inbox(s) \in Seq(Command) /\ Inbox(s) # <<>> /\ Inbox(s)' = Tail(Inbox(s))
         /\ OnCommand(Head(Inbox(s)))
         /\ leftover' \in [Streams -> Seq(Command)]
         /\ \A t \in Streams \ {s} : commands'[t] = commands[t] /\ leftover'[t] = leftover[t]
         /\ stream[s].stage # "closed" => leftover' = leftover
<1>1. /\ link = s /\ s # NoStream /\ Follow
      /\ uplink' = uplink /\ log' = log /\ lapses' = lapses
  BY NoStreamDistinct DEF AgentReads
<1>2. leftover \in [Streams -> Seq(Command)] /\ commands \in [Streams -> Seq(Command)]
  BY HubTypes DEF NetOK
<1>3. CASE ReceiveCommand(s) /\ OnCommand(Head(commands[s])) /\ UNCHANGED leftover
  <2>1. /\ SameCursor /\ desired' = desired /\ stream' = stream
        /\ stream[s].stage \in {"serving", "broadcasting", "closing"}
        /\ commands[s] # <<>> /\ commands'[s] = Tail(commands[s])
        /\ \A t \in Streams \ {s} : commands'[t] = commands[t]
    BY <1>3, ReceiveIs
  <2>2. Inbox(s) = commands[s] /\ Inbox(s)' = commands'[s]  BY <2>1 DEF Inbox, Attached
  <2>3. QED  BY <1>1, <1>2, <1>3, <2>1, <2>2
<1>4. CASE /\ stream[s].stage = "closed" /\ leftover[s] # <<>>
           /\ OnCommand(Head(leftover[s]))
           /\ leftover' = [leftover EXCEPT ![s] = Tail(@)]
           /\ UNCHANGED hub
  <2>1. SameCursor /\ stream' = stream /\ commands' = commands /\ desired' = desired
    BY <1>4, HubSame
  <2>2. /\ Tail(leftover[s]) \in Seq(Command) /\ leftover'[s] = Tail(leftover[s])
        /\ \A t \in Streams \ {s} : leftover'[t] = leftover[t]
        /\ leftover' \in [Streams -> Seq(Command)]
    BY <1>2, <1>4
  <2>3. Inbox(s) = leftover[s] /\ Inbox(s)' = leftover'[s]  BY <1>4, <2>1 DEF Inbox, Attached
  <2>4. QED  BY <1>1, <1>2, <1>4, <2>1, <2>2, <2>3
<1>5. QED  BY <1>3, <1>4 DEF AgentReads

LEMMA ReadsNet ==
  ASSUME IInv, CoreInv, NEW s \in Streams, AgentReads(s)
  PROVE  NetOK'
<1>1. AgentOK /\ NetOK /\ TypeOK  BY DEF CoreInv, IInv
<1>2. /\ link = s /\ s # NoStream /\ Follow
      /\ uplink' = uplink /\ log' = log /\ SameCursor /\ stream' = stream
      /\ stream[s].stage \in {"serving", "broadcasting", "closing", "closed"}
      /\ leftover' \in [Streams -> Seq(Command)]
      /\ \A t \in Streams \ {s} : commands'[t] = commands[t] /\ leftover'[t] = leftover[t]
      /\ stream[s].stage # "closed" => leftover' = leftover
  BY <1>1, ReadsIs
<1>3. link' \in Streams \cup {NoStream} /\ (link' = NoStream <=> agent'.pc \in {"offline", "exited"})
  BY <1>2 DEF Follow
<1>4. /\ \A t \in Streams : stream'[t].stage = "idle" => commands'[t] = <<>>
      /\ \A t \in Streams : stream'[t].stage # "closed" => leftover'[t] = <<>>
  BY <1>1, <1>2 DEF NetOK
<1>5. uplink' \in [Streams -> {<<>>} \cup {<<m>> : m \in Msg}]
  BY <1>1, <1>2 DEF NetOK
<1>6. QED  BY <1>1, <1>2, <1>3, <1>4, <1>5, NetStep

\* A command that leaves the agent in its session, its cursor as it was.
LEMMA ReadsOn ==
  ASSUME IInv, CoreInv, AgentOK', NEW s \in Streams, AgentReads(s), Steady,
         agent.tried => agent'.tried,
         agent'.pc \in {"calling", "ready", "event", "beat"},
         agent'.pc # agent.pc =>
           /\ agent'.pc = "ready" /\ agent.pc \in {"calling", "beat"}
           /\ Head(Inbox(s)).type = "ack" /\ AckOf(Inbox(s))' = {}
           /\ stream[s].stage \in Attached => latest = agent.accepted
  PROVE  CoreInv'
<1>1. /\ AgentOK /\ NetOK /\ CursorOK /\ LateOK /\ TypeOK  BY DEF CoreInv, IInv
<1>2. /\ link = s /\ s # NoStream /\ Follow
      /\ uplink' = uplink /\ log' = log /\ lapses' = lapses /\ SameCursor /\ stream' = stream
      /\ stream[s].stage \in {"serving", "broadcasting", "closing", "closed"}
      /\ Inbox(s) \in Seq(Command) /\ Inbox(s) # <<>> /\ Inbox(s)' = Tail(Inbox(s))
  BY <1>1, ReadsIs
<1>3. NetOK'  BY ReadsNet
<1>4. link' = s  BY <1>2 DEF Follow
<1>5. OnLink(s) /\ \A n \in AckOf(Inbox(s)) : AckAt(s, n)  BY <1>2 DEF CoreInv, LinkOK
<1>6. /\ AckOf(Inbox(s))' \subseteq AckOf(Inbox(s))
      /\ OneAck(Inbox(s))' /\ StopFree(Inbox(s))'
      /\ Head(Inbox(s)).type = "ack" => AckOf(Inbox(s)) # {}
  BY <1>2, <1>5, QueueRead DEF OnLink
<1>7. Held' = Held  BY <1>2 DEF Held, SameCursor, Steady
<1>8. TakenOK'
  <2>1. Greeted' => Greeted  BY <1>2, <1>4, <1>6 DEF Greeted
  <2>2. QED  BY <1>2, <2>1, TakenSame DEF CoreInv, Steady
<1>9. CASE agent'.pc = agent.pc
  <2>1. OnLink(s)'
    <3>1. stream'[s].stage \notin {"idle", "greeting", "configuring"}  BY <1>2
    <3>2. stream'[s].stage = "broadcasting" => AckOf(commands[s])' = {}
      BY <1>2, <1>5, <1>6 DEF OnLink, Inbox, Attached
    <3>3. Under(s, "hello")' => Head(uplink'[s]).gen = agent'.gen
      BY <1>2, <1>5 DEF OnLink, Under, Steady
    <3>4. QED  BY <1>2, <1>5, <1>6, <1>9, <3>1, <3>2, <3>3 DEF OnLink, SameCursor, Steady
  <2>2. \A n \in AckOf(Inbox(s))' : AckAt(s, n)'
    BY <1>2, <1>5, <1>6, <1>7, <1>9 DEF AckAt, SameCursor, Steady
  <2>3. LinkOK'  BY <1>4, <2>1, <2>2 DEF LinkOK
  <2>4. LateOK'
    BY <1>1, <1>2, <1>4, <1>9 DEF LateOK, LateAt, Under, Steady
  <2>5. QED  BY <1>1, <1>2, <1>3, <1>8, <2>3, <2>4, CursorSame DEF CoreInv
<1>10. CASE agent'.pc # agent.pc
  <2>1. agent'.pc = "ready" /\ agent.pc \in {"calling", "beat"} /\ AckOf(Inbox(s)) # {}
    BY <1>6, <1>10
  <2>2. uplink[s] = <<>>  BY <1>5, <2>1 DEF OnLink
  <2>3. stream[s].stage # "broadcasting"  BY <1>5, <2>1 DEF OnLink
  <2>4. stream[s].stage \in Attached => latest = agent.accepted
    BY <1>10
  <2>5. agent'.config = NoConfiguration  BY <2>1 DEF AgentOK
  <2>6. OnLink(s)'
    <3>1. ~ Under(s, "hello")'  BY <1>2, <2>2 DEF Under
    <3>2. QED
      BY <1>2, <1>5, <1>6, <2>1, <2>2, <2>3, <2>4, <2>5, <3>1 DEF OnLink, SameCursor, Steady
  <2>7. LinkOK'  BY <1>4, <2>1, <2>6 DEF LinkOK
  <2>8. LateOK'
    <3>1. \A t \in Streams : stream[t].stage \in Attached => ~ Under(t, "event")
      BY <1>2, <2>1, NothingLate
    <3>2. QED  BY <1>2, <3>1 DEF LateOK, Under
  <2>9. QED  BY <1>1, <1>2, <1>3, <1>8, <2>7, <2>8, CursorSame DEF CoreInv
<1>11. QED  BY <1>9, <1>10

LEMMA CommandKeeps ==
  ASSUME AgentOK, NEW cmd \in Command, OnCommand(cmd)
  PROVE  AgentOK'
<1>1. agent.fate = "alive" /\ agent.config \in Watchlist /\ agent.pc # "exited"
  BY CommandCases DEF AgentOK, AgentRecord
<1>2. ASSUME NEW r \in Fates \ {"alive"}, Exit(r) PROVE AgentOK'  BY <1>2, ExitIs
<1>3. {"occupied", "watchlist", "stale", "contradictory", "sequence", "acknowledgement", "stopped"}
        \subseteq Fates \ {"alive"}
  BY DEF Fates
<1>4. CASE cmd.type = "stop"
  <2>1. Exit("stopped")  BY <1>4, CommandCases
  <2>2. QED  BY <1>2, <1>3, <2>1
<1>5. CASE cmd.type = "ack"
  <2>1. CASE Exit("acknowledgement")  BY <1>2, <1>3, <2>1
  <2>2. CASE Exit("sequence")  BY <1>2, <1>3, <2>2
  <2>3. CASE /\ agent.pc \in {"calling", "event"} /\ agent.pending # 0
             /\ ReadyAgain(Settled(agent)) \/ Replaced(Settled(agent), agent.config)
    BY <1>1, <2>3, SettledReadyIs, SettledReplacedIs
  <2>4. CASE /\ agent.pc \in {"calling", "beat"}
             /\ ReadyAgain(agent) \/ Replaced(agent, agent.config)
    BY <1>1, <2>4, ReadyIs, ReplacedIs
  <2>5. QED  BY <1>5, <2>1, <2>2, <2>3, <2>4, CommandCases
<1>6. CASE cmd.type = "configure"
  <2>0. Named(cmd) \in Watchlist  BY <1>6, NamedType
  <2>1. CASE Exit("stale")  BY <1>2, <1>3, <2>1
  <2>2. CASE Exit("contradictory")  BY <1>2, <1>3, <2>2
  <2>3. CASE UNCHANGED agent  BY <2>3 DEF AgentOK
  <2>4. CASE Replaced(agent, Named(cmd))  BY <1>1, <2>0, <2>4, ReplacedIs
  <2>5. CASE agent.pc \in {"calling", "event", "beat"} /\ agent' = [agent EXCEPT !.config = Named(cmd)]
    BY <2>0, <2>5, AbsorbIs
  <2>6. QED  BY <1>6, <2>1, <2>2, <2>3, <2>4, <2>5, CommandCases
<1>7. QED  BY <1>4, <1>5, <1>6, CommandCases

\* The Ack of the kept frame.
LEMMA ReadsSettled ==
  ASSUME IInv, CoreInv, NEW s \in Streams, AgentReads(s),
         Head(Inbox(s)).type = "ack", Head(Inbox(s)).seq = agent.pending,
         agent.pending # 0, agent.pc \in {"calling", "event"}, ReadyAgain(Settled(agent))
  PROVE  CoreInv'
<1>1. /\ AgentOK /\ NetOK /\ CursorOK /\ TypeOK  BY DEF CoreInv, IInv
<1>2. /\ link = s /\ s # NoStream /\ Follow
      /\ uplink' = uplink /\ log' = log /\ lapses' = lapses /\ SameCursor /\ stream' = stream
      /\ stream[s].stage \in {"serving", "broadcasting", "closing", "closed"}
      /\ Inbox(s) \in Seq(Command) /\ Inbox(s) # <<>> /\ Inbox(s)' = Tail(Inbox(s))
  BY <1>1, ReadsIs
<1>3. /\ AgentOK' /\ agent'.fate = agent.fate
      /\ agent'.pc = "ready" /\ agent'.config = NoConfiguration
      /\ agent'.gen = agent.gen /\ agent'.accepted = agent.pending
      /\ agent'.pending = 0 /\ agent'.released = agent.released + 1
  BY <1>1, SettledReadyIs
<1>4. NetOK'  BY ReadsNet
<1>5. link' = s  BY <1>2, <1>3 DEF Follow
<1>6. OnLink(s) /\ \A n \in AckOf(Inbox(s)) : AckAt(s, n)  BY <1>2 DEF CoreInv, LinkOK
<1>7. agent.pending \in AckOf(Inbox(s))  BY <1>2, QueueRead
<1>8. AckAt(s, agent.pending)  BY <1>6, <1>7
<1>9. /\ AckOf(Inbox(s))' = {} /\ OneAck(Inbox(s))' /\ StopFree(Inbox(s))'
  BY <1>2, <1>6, QueueRead DEF OnLink
<1>10. LinkOK'
  <2>1. uplink[s] = <<>>  BY <1>6, <1>7 DEF OnLink
  <2>2. stream[s].stage # "broadcasting"
    BY <1>6, <1>7 DEF OnLink, Inbox, Attached
  <2>3. /\ stream[s].stage \in Attached => latest' = agent'.accepted
        /\ stream[s].stage \in Attached => generation' = agent'.gen
    BY <1>2, <1>3, <1>6, <1>8 DEF AckAt, SameCursor, OnLink
  <2>4. ~ Under(s, "hello")'  BY <1>2, <2>1 DEF Under
  <2>5. OnLink(s)'
    BY <1>2, <1>3, <1>9, <2>1, <2>2, <2>3, <2>4 DEF OnLink
  <2>6. QED  BY <1>5, <1>9, <2>5 DEF LinkOK
<1>11. LateOK'
  <2>1. \A t \in Streams : stream[t].stage \in Attached => ~ Under(t, "event")
    BY <1>2, <1>7, NothingLate
  <2>2. QED  BY <1>2, <2>1 DEF LateOK, Under
<1>12. CursorOK'
  <2>1. /\ agent.released \in Nat /\ agent.accepted \in Nat /\ agent.accepted <= agent.released
        /\ agent.pending = agent.accepted + 1
    BY <1>1, AgentTypes
  <2>2. Begun' = Begun /\ Begun \in Nat /\ agent.released = Begun + agent.accepted
    BY <1>3, <2>1 DEF Begun
  <2>3. Held' = Held /\ Frames' = Frames
    BY <1>2, <1>3, <2>2 DEF Held, SameCursor, Frames
  <2>4. agent.released + 1 \in Frames
    BY <1>8, <2>1, <2>2 DEF AckAt, Frames
  <2>5. Frames = (Begun + 1)..(agent.released + 1)
    BY <1>1, <2>1, <2>2, <2>4 DEF CursorOK
  <2>6. Held = agent.pending \/ (lapses # {} /\ Held = 0)
    BY <1>8 DEF AckAt
  <2>7. Begun + agent.pending = agent.released + 1  BY <2>1, <2>2
  <2>8. \A i \in DOMAIN log : log[i].frame <= agent'.released
    <3>1. \A i \in DOMAIN log : log[i].frame \in Nat  BY <1>1, LogTypes
    <3>2. QED  BY <1>1, <1>3, <2>1, <3>1 DEF CursorOK
  <2>9. QED
    BY <1>2, <1>3, <2>2, <2>3, <2>5, <2>6, <2>7, <2>8 DEF CursorOK
<1>13. TakenOK'
  <2>1. Greeted  BY <1>2, <1>7 DEF Greeted
  <2>2. QED  BY <1>2, <1>3, <2>1, TakenSame DEF CoreInv
<1>14. QED  BY <1>3, <1>4, <1>10, <1>11, <1>12, <1>13 DEF CoreInv

LEMMA ReadsExit ==
  ASSUME IInv, CoreInv, NEW s \in Streams, AgentReads(s), NEW r \in Fates \ {"alive"}, Exit(r)
  PROVE  CoreInv'
<1>1. /\ AgentOK /\ NetOK /\ CursorOK /\ TypeOK  BY DEF CoreInv, IInv
<1>2. /\ Follow /\ uplink' = uplink /\ log' = log /\ lapses' = lapses /\ SameCursor
      /\ stream' = stream
  BY <1>1, ReadsIs
<1>3. AgentOK' /\ Steady /\ agent'.tried = agent.tried /\ agent'.pc = "exited"
  BY <1>1, ExitIs
<1>4. NetOK'  BY ReadsNet
<1>5. link' = NoStream  BY <1>2, <1>3 DEF Follow
<1>6. LateOK'  BY <1>2, <1>3, <1>5, LeaveLate
<1>7. CursorOK'  BY <1>1, <1>2, <1>3, CursorSame
<1>8. TakenOK'  BY <1>3, <1>5 DEF TakenOK, Greeted
<1>9. QED  BY <1>3, <1>4, <1>5, <1>6, <1>7, <1>8 DEF CoreInv, LinkOK

\* A new process is started on an Ack, or in an idle session.
LEMMA ReadsRenews ==
  ASSUME IInv, CoreInv, AgentOK', NEW s \in Streams, AgentReads(s),
         Head(Inbox(s)).type = "ack" \/ agent.pc = "ready",
         agent'.gen # agent.gen, agent'.accepted = 0, agent'.pc = "offline",
         agent'.released = agent.released
           \/ (agent'.released = agent.released + 1 /\ agent.pending # 0),
         agent.pending = 0 \/ agent'.released = agent.released + 1
  PROVE  CoreInv'
<1>1. NetOK /\ TypeOK  BY DEF CoreInv, IInv
<1>2. /\ link = s /\ s # NoStream /\ Follow
      /\ uplink' = uplink /\ log' = log /\ SameCursor /\ stream' = stream
      /\ stream[s].stage \in {"serving", "broadcasting", "closing", "closed"}
      /\ Inbox(s) \in Seq(Command) /\ Inbox(s) # <<>>
  BY <1>1, ReadsIs
<1>3. NetOK'  BY ReadsNet
<1>4. link' = NoStream  BY <1>2 DEF Follow
<1>5. Head(Inbox(s)).type = "ack" => AckOf(Inbox(s)) # {}  BY <1>2, QueueRead
<1>6. QED  BY <1>2, <1>3, <1>4, <1>5, RenewsCore

LEMMA ReadsCore ==
  ASSUME IInv, CoreInv, NEW s \in Streams, AgentReads(s)
  PROVE  CoreInv'
<1>1. /\ AgentOK /\ NetOK /\ TypeOK  BY DEF CoreInv, IInv
<1>2. /\ link = s /\ s # NoStream
      /\ Inbox(s) \in Seq(Command) /\ Inbox(s) # <<>> /\ Inbox(s)' = Tail(Inbox(s))
      /\ OnCommand(Head(Inbox(s)))
  BY <1>1, ReadsIs
<1> DEFINE cmd == Head(Inbox(s))
<1>3. cmd \in Command /\ cmd.type # "stop"
      /\ (cmd.type = "ack" => cmd.seq \in AckOf(Inbox(s)) /\ AckOf(Inbox(s))' = {})
  <2>1. OnLink(s)  BY <1>2 DEF CoreInv, LinkOK
  <2>2. QED  BY <1>2, <2>1, QueueRead DEF OnLink
<1>4. OnLink(s) /\ \A n \in AckOf(Inbox(s)) : AckAt(s, n)  BY <1>2 DEF CoreInv, LinkOK
<1>5. OnCommand(cmd)  BY <1>2
<1> HIDE DEF cmd
<1>6. AgentOK'  BY <1>1, <1>3, <1>5, CommandKeeps
<1>7. agent.fate = "alive" /\ agent.config \in Watchlist /\ agent.pc # "exited"
  BY <1>1, <1>3, <1>5, CommandCases DEF AgentOK, AgentRecord
<1>8. {"stale", "contradictory", "sequence"} \subseteq Fates \ {"alive"}
  BY DEF Fates
<1>9. CASE cmd.type = "ack"
  <2>1. agent.pc # "ready"  BY <1>3, <1>4, <1>9 DEF OnLink
  <2>2. CASE Exit("sequence")  BY <1>8, <2>2, ReadsExit
  <2>3. CASE /\ agent.pc \in {"calling", "event"} /\ agent.pending # 0 /\ cmd.seq = agent.pending
             /\ ReadyAgain(Settled(agent))
    BY <1>9, <2>3, ReadsSettled DEF cmd
  <2>4. CASE /\ agent.pc \in {"calling", "event"} /\ agent.pending # 0 /\ cmd.seq = agent.pending
             /\ Replaced(Settled(agent), agent.config)
    <3>1. /\ agent'.gen # agent.gen /\ agent'.accepted = 0 /\ agent'.pc = "offline"
          /\ agent'.released = agent.released + 1
      BY <1>1, <1>7, <2>4, SettledReplacedIs
    <3>2. QED  BY <1>6, <1>9, <2>4, <3>1, ReadsRenews DEF cmd
  <2>5. CASE agent.pc \in {"calling", "beat"} /\ cmd.seq = agent.accepted /\ ReadyAgain(agent)
    <3>1. Steady /\ agent'.pc = "ready" /\ (agent.tried => agent'.tried)
      BY <1>1, <2>5, ReadyIs DEF ReadyAgain, AgentOK, AgentRecord
    <3>2. AckAt(s, agent.accepted)  BY <1>3, <1>4, <1>9, <2>5
    <3>3. stream[s].stage \in Attached => latest = agent.accepted  BY <3>2 DEF AckAt
    <3>4. cmd.type = "ack" /\ AckOf(Inbox(s))' = {}  BY <1>3, <1>9
    <3>5. QED  BY <1>6, <2>5, <3>1, <3>3, <3>4, ReadsOn DEF cmd
  <2>6. CASE agent.pc \in {"calling", "beat"} /\ Replaced(agent, agent.config)
    <3>1. /\ agent'.gen # agent.gen /\ agent'.accepted = 0 /\ agent'.pc = "offline"
          /\ agent'.released = IF agent.pending = 0 THEN agent.released ELSE agent.released + 1
      BY <1>1, <1>7, <2>6, ReplacedIs
    <3>2. QED  BY <1>6, <1>9, <3>1, ReadsRenews DEF cmd
  <2>7. QED
    BY <1>1, <1>3, <1>5, <1>9, <2>1, <2>2, <2>3, <2>4, <2>5, <2>6, CommandCases
<1>10. CASE cmd.type = "configure"
  <2>0. Named(cmd) \in Watchlist  BY <1>3, <1>10, NamedType
  <2>1. CASE Exit("stale")  BY <1>8, <2>1, ReadsExit
  <2>2. CASE Exit("contradictory")  BY <1>8, <2>2, ReadsExit
  <2>3. CASE UNCHANGED agent
    <3>1. agent'.pc \in {"calling", "ready", "event", "beat"}
      BY <1>1, <1>3, <1>5, <2>3, CommandCases
    <3>2. Steady /\ (agent.tried => agent'.tried)  BY <2>3 DEF Steady
    <3>3. QED  BY <1>6, <2>3, <3>1, <3>2, ReadsOn
  <2>4. CASE agent.pc = "ready" /\ Replaced(agent, Named(cmd))
    <3>1. /\ agent'.gen # agent.gen /\ agent'.accepted = 0 /\ agent'.pc = "offline"
          /\ agent'.released = IF agent.pending = 0 THEN agent.released ELSE agent.released + 1
      BY <1>1, <1>7, <2>0, <2>4, ReplacedIs
    <3>2. QED  BY <1>6, <2>4, <3>1, ReadsRenews
  <2>5. CASE agent.pc \in {"calling", "event", "beat"} /\ agent' = [agent EXCEPT !.config = Named(cmd)]
    <3>1. Steady /\ agent'.tried = agent.tried /\ agent'.pc = agent.pc
      BY <1>1, <2>0, <2>5, AbsorbIs
    <3>2. QED  BY <1>6, <2>5, <3>1, ReadsOn
  <2>6. QED  BY <1>1, <1>3, <1>5, <1>10, <2>1, <2>2, <2>3, <2>4, <2>5, CommandCases
<1>11. QED  BY <1>1, <1>3, <1>5, <1>9, <1>10, CommandCases

-----------------------------------------------------------------------------
(* The hub's steps *)

\* What a step of the hub or of the network leaves alone.
Watching ==
  /\ agent' = agent /\ link' = link /\ log' = log /\ lapses' = lapses /\ SameCursor

\* A step on a call that is not the agent's.
LEMMA QuietCore ==
  ASSUME CoreInv, NetOK', NEW s \in Streams, s # link, Watching, Others(s),
         \A t \in Streams \ {s} : leftover'[t] = leftover[t] /\ uplink'[t] = uplink[t],
         \/ uplink'[s] = <<>>
         \/ /\ uplink'[s] = uplink[s] /\ stream'[s].stage # "broadcasting"
            /\ stream'[s].stage \in Attached => stream[s].stage \in Attached
  PROVE  CoreInv'
<1>1. AgentOK' /\ Steady /\ agent'.tried = agent.tried
  BY DEF CoreInv, AgentOK, Watching, Steady
<1>2. CursorOK'  BY <1>1, CursorSame DEF CoreInv, Watching
<1>3. LinkOK'
  <2> SUFFICES ASSUME link # NoStream
               PROVE  OnLink(link)' /\ \A n \in AckOf(Inbox(link))' : AckAt(link, n)'
    BY DEF LinkOK, Watching
  <2>1. link \in Streams \ {s}  BY DEF CoreInv, NetOK
  <2>2. /\ stream'[link] = stream[link] /\ commands'[link] = commands[link]
        /\ leftover'[link] = leftover[link] /\ uplink'[link] = uplink[link] /\ link' = link
    BY <2>1 DEF Others, Watching
  <2>3. Inbox(link)' = Inbox(link)  BY <2>2 DEF Inbox
  <2>4. OnLink(link) /\ \A n \in AckOf(Inbox(link)) : AckAt(link, n)  BY DEF CoreInv, LinkOK
  <2>5. OnLink(link)'
    BY <2>2, <2>3, <2>4 DEF OnLink, Under, Watching, SameCursor
  <2>6. \A n \in AckOf(Inbox(link)) : AckAt(link, n)'
    BY <2>2, <2>4 DEF AckAt, Held, Watching, SameCursor
  <2>7. QED  BY <2>3, <2>5, <2>6
<1>4. LateOK'
  <2> SUFFICES ASSUME NEW t \in Streams, t # link, stream'[t].stage \in Attached, Under(t, "event")'
               PROVE  LateAt(t)'
    BY DEF LateOK, Watching
  <2>1. uplink'[t] = uplink[t] /\ stream[t].stage \in Attached
    BY DEF Others, Under
  <2>2. LateAt(t)  BY <2>1 DEF CoreInv, LateOK, Under
  <2>3. stream'[t].stage # "broadcasting"
    BY <2>1, <2>2 DEF Others, LateAt, Under
  <2>4. link # NoStream => stream'[link] = stream[link]
    BY DEF CoreInv, NetOK, Others
  <2>5. QED  BY <2>1, <2>2, <2>3, <2>4 DEF LateAt, Watching
<1>5. TakenOK'
  <2>1. Greeted' => Greeted
    <3>1. ASSUME link # NoStream PROVE Inbox(link)' = Inbox(link)
      <4>1. link \in Streams \ {s}  BY <3>1 DEF CoreInv, NetOK
      <4>2. QED  BY <4>1 DEF Inbox, Others, Watching
    <3>2. QED  BY <3>1 DEF Greeted, Watching
  <2>2. QED  BY <2>1, TakenSame DEF CoreInv, Watching
<1>6. QED  BY <1>1, <1>2, <1>3, <1>4, <1>5 DEF CoreInv

\* A step on the agent's call, once it has been taken up.
LEMMA LinkCore ==
  ASSUME CoreInv, NetOK', NEW s \in Streams, s = link, Watching, Others(s),
         stream[s].stage \in Attached, \A t \in Streams \ {s} : uplink'[t] = uplink[t],
         OnLink(s)', \A n \in AckOf(Inbox(s))' : AckAt(s, n)'
  PROVE  CoreInv'
<1>1. AgentOK' /\ Steady /\ agent'.tried = agent.tried
  BY DEF CoreInv, AgentOK, Watching, Steady
<1>2. CursorOK'  BY <1>1, CursorSame DEF CoreInv, Watching
<1>3. link' = s /\ link # NoStream  BY NoStreamDistinct DEF Watching
<1>4. LinkOK'  BY <1>3 DEF LinkOK
<1>5. LateOK'
  <2> SUFFICES ASSUME NEW t \in Streams, t # s, stream'[t].stage \in Attached, Under(t, "event")'
               PROVE  FALSE
    BY <1>3 DEF LateOK
  <2>1. stream[t].stage \in Attached /\ Under(t, "event")  BY DEF Others, Under
  <2>2. QED  BY <1>3, <2>1 DEF CoreInv, LateOK, LateAt, Attached
<1>6. TakenOK'
  <2>1. generation = agent.gen  BY <1>3 DEF CoreInv, LinkOK, OnLink
  <2>2. QED  BY <2>1 DEF TakenOK, Watching, SameCursor
<1>7. QED  BY <1>1, <1>2, <1>4, <1>5, <1>6 DEF CoreInv

\* Nothing that the invariant looks at has changed.
LEMMA SameCore ==
  ASSUME CoreInv, Watching, uplink' = uplink, leftover' = leftover,
         \A t \in Streams : stream'[t].stage = stream[t].stage,
         \A t \in Streams : stream[t].stage \in Attached => commands'[t] = commands[t],
         \A t \in Streams : stream[t].stage = "idle" => commands'[t] = commands[t]
  PROVE  CoreInv'
<1>1. AgentOK' /\ Steady /\ agent'.tried = agent.tried
  BY DEF CoreInv, AgentOK, Watching, Steady
<1>2. CursorOK'  BY <1>1, CursorSame DEF CoreInv, Watching
<1>3. NetOK'  BY DEF CoreInv, NetOK, Watching, SameCursor, Under
<1>4. LinkOK'
  <2> SUFFICES ASSUME link # NoStream
               PROVE  OnLink(link)' /\ \A n \in AckOf(Inbox(link))' : AckAt(link, n)'
    BY DEF LinkOK, Watching
  <2>1. link \in Streams /\ link' = link /\ OnLink(link)
        /\ \A n \in AckOf(Inbox(link)) : AckAt(link, n)
    BY DEF CoreInv, NetOK, LinkOK, Watching
  <2>2. stream'[link].stage = stream[link].stage /\ Inbox(link)' = Inbox(link)
    BY <2>1 DEF Inbox
  <2>3. stream[link].stage \in Attached => commands'[link] = commands[link]  BY <2>1
  <2>4. OnLink(link)'
    BY <2>1, <2>2, <2>3 DEF OnLink, Under, Watching, SameCursor, Attached
  <2>5. \A n \in AckOf(Inbox(link)) : AckAt(link, n)'
    BY <2>1, <2>2 DEF AckAt, Held, Watching, SameCursor
  <2>6. QED  BY <2>2, <2>4, <2>5
<1>5. LateOK'
  <2> SUFFICES ASSUME NEW t \in Streams, t # link, stream[t].stage \in Attached, Under(t, "event")
               PROVE  LateAt(t)'
    BY DEF LateOK, Watching, Under
  <2>1. LateAt(t)  BY DEF CoreInv, LateOK
  <2>2. link # NoStream => link \in Streams  BY DEF CoreInv, NetOK
  <2>3. QED  BY <2>1, <2>2 DEF LateAt, Watching
<1>6. TakenOK'
  <2>1. link # NoStream => Inbox(link)' = Inbox(link)
    BY DEF CoreInv, NetOK, Inbox, Watching
  <2>2. Greeted' => Greeted  BY <2>1 DEF Greeted, Watching
  <2>3. QED  BY <2>2, TakenSame DEF CoreInv, Watching
<1>7. QED  BY <1>1, <1>2, <1>3, <1>4, <1>5, <1>6 DEF CoreInv

\* If the hub's cursor is the frame that is kept, that frame is published.
LEMMA HeldEntry ==
  ASSUME AgentOK, NetOK, CursorOK, agent.pending # 0, Held = agent.pending
  PROVE  \E k \in DOMAIN log : log[k] = [gen |-> agent.gen, frame |-> agent.released + 1]
<1>1. /\ agent.released \in Nat /\ agent.accepted \in Nat /\ agent.accepted <= agent.released
      /\ agent.pending = agent.accepted + 1
  BY AgentTypes
<1>2. Frames = (Begun + 1)..(Begun + agent.pending)  BY <1>1 DEF CursorOK
<1>3. agent.released + 1 \in Frames  BY <1>1, <1>2 DEF Begun
<1>4. PICK k \in DOMAIN log : log[k].gen = agent.gen /\ log[k].frame = agent.released + 1
  BY <1>3 DEF Frames
<1>5. log \in Seq([gen : Nat, frame : Nat]) /\ k \in 1..Len(log)  BY DEF NetOK
<1>6. log[k] \in [gen : Nat, frame : Nat]  BY <1>5, ElementOfSeq
<1>7. QED  BY <1>4, <1>6

\* NetOK after a step of the hub that reads no message and ends no call.
LEMMA HubNet ==
  ASSUME CoreInv, Watching, NEW s \in Streams, Others(s), leftover' = leftover,
         stream[s].stage # "idle", stream'[s].stage \notin {"idle", "closed"},
         stream[s].stage # "closed",
         uplink' \in [Streams -> {<<>>} \cup {<<m>> : m \in Msg}]
  PROVE  NetOK'
<1>1. NetOK  BY DEF CoreInv
<1>2. /\ \A t \in Streams : stream'[t].stage = "idle" => commands'[t] = <<>>
      /\ \A t \in Streams : stream'[t].stage # "closed" => leftover'[t] = <<>>
  BY <1>1 DEF Others, NetOK
<1>3. /\ log' = log
      /\ link' \in Streams \cup {NoStream} /\ (link' = NoStream <=> agent'.pc \in {"offline", "exited"})
      /\ leftover' \in [Streams -> Seq(Command)]
  BY <1>1 DEF NetOK, Watching
<1>4. QED  BY <1>1, <1>2, <1>3, NetStep

\* The Ack of the hello.
LEMMA AckSentCore ==
  ASSUME IInv, CoreInv, NEW s \in Streams, SendHelloAck(s), UNCHANGED <<agent, network, log, lapses>>
  PROVE  CoreInv'
<1>1. /\ AgentOK /\ NetOK /\ CursorOK /\ TypeOK  BY DEF CoreInv, IInv
<1>2. /\ SameCursor /\ Others(s) /\ stream[s].stage = "greeting"
      /\ \/ stream'[s].stage = "failed"
         \/ /\ commands'[s] = Append(commands[s], Ack(latest))
            /\ stream'[s].stage \in {"serving", "configuring"}
  BY <1>1, AckSentIs
<1>3. Watching /\ uplink' = uplink /\ leftover' = leftover  BY <1>2 DEF network, Watching
<1>4. NetOK'
  <2>1. uplink' \in [Streams -> {<<>>} \cup {<<m>> : m \in Msg}]
    BY <1>1, <1>3 DEF NetOK
  <2>2. QED  BY <1>2, <1>3, <2>1, HubNet
<1>5. CASE s # link
  BY <1>2, <1>3, <1>4, <1>5, QuietCore DEF Attached
<1>6. CASE s = link
  <2>1. s # NoStream /\ OnLink(s)
    BY <1>6, NoStreamDistinct DEF CoreInv, LinkOK
  <2>2. agent.pc = "calling" /\ agent.config = NoConfiguration /\ AckOf(commands[s]) = {}
        /\ generation = agent.gen
    BY <1>2, <2>1 DEF OnLink, Attached
  <2>3. uplink[s] = <<>>  BY <1>2, <2>1, <2>2 DEF OnLink
  <2>4. Inbox(s)' = (IF stream'[s].stage = "failed" THEN <<>> ELSE Append(commands[s], Ack(latest)))
    <3>1. leftover'[s] = <<>>  BY <1>1, <1>2, <1>3 DEF NetOK
    <3>2. CASE stream'[s].stage = "failed"  BY <3>1, <3>2 DEF Inbox, Attached
    <3>3. CASE stream'[s].stage # "failed"  BY <1>2, <3>3 DEF Inbox, Attached
    <3>4. QED  BY <3>2, <3>3
  <2>5. commands[s] \in Seq(Command) /\ latest \in Nat /\ generation \in Nat
    BY <1>1, HubTypes
  <2>6. OneAck(Inbox(s)) /\ StopFree(Inbox(s)) /\ Inbox(s) = commands[s]
    BY <1>2, <2>1 DEF OnLink, Inbox, Attached
  <2>7. OneAck(Inbox(s))' /\ StopFree(Inbox(s))' /\ AckOf(Inbox(s))' \subseteq {latest}
    BY <2>2, <2>4, <2>5, <2>6, QueueAck, QueueEmpty
  <2>8. OnLink(s)'
    <3>1. ~ Under(s, "hello")'  BY <1>3, <2>3 DEF Under
    <3>2. stream'[s].stage \notin {"idle", "greeting", "broadcasting"}  BY <1>2
    <3>3. agent' = agent /\ generation' = generation /\ uplink'[s] = <<>>
      BY <1>2, <1>3, <2>3 DEF Watching, SameCursor
    <3>4. QED  BY <2>2, <2>7, <3>1, <3>2, <3>3 DEF OnLink
  <2>9. AckAt(s, latest)'
    <3>1. agent' = agent /\ log' = log /\ latest' = latest /\ Held' = Held /\ Held = latest
      BY <1>2, <1>3, <2>2 DEF Watching, SameCursor, Held
    <3>2. agent.pending # 0 /\ latest = agent.pending =>
            \E k \in DOMAIN log : log[k] = [gen |-> agent.gen, frame |-> agent.released + 1]
      BY <1>1, <3>1, HeldEntry
    <3>3. QED  BY <2>2, <3>1, <3>2 DEF AckAt
  <2>10. latest' = latest  BY <1>2 DEF SameCursor
  <2>11. \A n \in AckOf(Inbox(s))' : AckAt(s, n)'
    <3>1. ASSUME NEW n \in AckOf(Inbox(s))' PROVE AckAt(s, n)'
      <4>1. n = latest /\ n = latest'  BY <2>7, <2>10
      <4>2. QED  BY <2>9, <4>1 DEF AckAt
    <3>2. QED  BY <3>1
  <2>12. QED
    BY <1>2, <1>3, <1>4, <1>6, <2>1, <2>8, <2>11, LinkCore DEF Attached
<1>7. QED  BY <1>5, <1>6

\* The configuration a hello is answered with.
LEMMA ConfigurationSentCore ==
  ASSUME IInv, CoreInv, NEW s \in Streams, SendConfiguration(s),
         UNCHANGED <<agent, network, log, lapses>>
  PROVE  CoreInv'
<1>1. /\ AgentOK /\ NetOK /\ CursorOK /\ TypeOK  BY DEF CoreInv, IInv
<1>2. /\ SameCursor /\ Others(s) /\ stream[s].stage = "configuring"
      /\ stream[s].config \in Watchlist
      /\ \/ stream'[s].stage = "failed"
         \/ /\ commands'[s] = Append(commands[s], Configure(stream[s].config))
            /\ stream'[s].stage = "serving"
  BY <1>1, ConfigurationSentIs
<1>3. Watching /\ uplink' = uplink /\ leftover' = leftover  BY <1>2 DEF network, Watching
<1>4. NetOK'
  <2>1. uplink' \in [Streams -> {<<>>} \cup {<<m>> : m \in Msg}]
    BY <1>1, <1>3 DEF NetOK
  <2>2. QED  BY <1>2, <1>3, <2>1, HubNet
<1>5. CASE s # link
  BY <1>2, <1>3, <1>4, <1>5, QuietCore DEF Attached
<1>6. CASE s = link
  <2>1. s # NoStream /\ OnLink(s) /\ \A n \in AckOf(Inbox(s)) : AckAt(s, n)
    BY <1>6, NoStreamDistinct DEF CoreInv, LinkOK
  <2>2. agent.pc = "calling" /\ agent.config = NoConfiguration /\ generation = agent.gen
    BY <1>2, <2>1 DEF OnLink, Attached
  <2>3. uplink[s] = <<>>  BY <1>2, <2>1, <2>2 DEF OnLink
  <2>4. \/ stream'[s].stage = "failed" /\ Inbox(s)' = <<>>
        \/ stream'[s].stage = "serving" /\ Inbox(s)' = Append(commands[s], Configure(stream[s].config))
    <3>1. leftover'[s] = <<>>  BY <1>1, <1>2, <1>3 DEF NetOK
    <3>2. CASE stream'[s].stage = "failed"  BY <3>1, <3>2 DEF Inbox, Attached
    <3>3. CASE stream'[s].stage = "serving"  BY <1>2, <3>3 DEF Inbox, Attached
    <3>4. QED  BY <1>2, <3>2, <3>3
  <2>5. commands[s] \in Seq(Command) /\ latest \in Nat /\ generation \in Nat
    BY <1>1, HubTypes
  <2>6. OneAck(Inbox(s)) /\ StopFree(Inbox(s)) /\ Inbox(s) = commands[s]
    BY <1>2, <2>1 DEF OnLink, Inbox, Attached
  <2>7. OneAck(Inbox(s))' /\ StopFree(Inbox(s))' /\ AckOf(Inbox(s))' \subseteq AckOf(Inbox(s))
    BY <1>2, <2>4, <2>5, <2>6, QueueConfigure, QueueEmpty
  <2>8. OnLink(s)'
    <3>1. ~ Under(s, "hello")'  BY <1>3, <2>3 DEF Under
    <3>2. stream'[s].stage \in {"failed", "serving"}  BY <1>2
    <3>3. agent' = agent /\ generation' = generation /\ uplink'[s] = <<>>
      BY <1>2, <1>3, <2>3 DEF Watching, SameCursor
    <3>4. QED  BY <2>2, <2>7, <3>1, <3>2, <3>3 DEF OnLink
  <2>9. ASSUME NEW n \in AckOf(Inbox(s))' PROVE AckAt(s, n)'
    <3>1. AckAt(s, n)  BY <2>1, <2>7
    <3>2. stream[s].stage \in Attached  BY <1>2 DEF Attached
    <3>3. QED  BY <1>3, <3>1, <3>2 DEF AckAt, Held, Watching, SameCursor
  <2>10. QED
    BY <1>2, <1>3, <1>4, <1>6, <2>1, <2>8, <2>9, LinkCore DEF Attached
<1>7. QED  BY <1>5, <1>6

\* The end of publish: the Ack of the event.
LEMMA BroadcastCore ==
  ASSUME IInv, CoreInv, NEW s \in Streams, Broadcast(s), UNCHANGED <<agent, network, log, lapses>>
  PROVE  CoreInv'
<1>1. /\ AgentOK /\ NetOK /\ CursorOK /\ TypeOK  BY DEF CoreInv, IInv
<1>2. /\ SameCursor /\ Others(s) /\ stream[s].stage = "broadcasting"
      /\ \/ stream'[s].stage = "closing" /\ commands'[s] = commands[s]
         \/ /\ commands'[s] = Append(commands[s], Ack(stream[s].outgoing.seq))
            /\ stream'[s].stage = "serving"
  BY <1>1, BroadcastIs
<1>3. Watching /\ uplink' = uplink /\ leftover' = leftover  BY <1>2 DEF network, Watching
<1>4. NetOK'
  <2>1. uplink' \in [Streams -> {<<>>} \cup {<<m>> : m \in Msg}]
    BY <1>1, <1>3 DEF NetOK
  <2>2. QED  BY <1>2, <1>3, <2>1, HubNet
<1>5. CASE s # link
  BY <1>2, <1>3, <1>4, <1>5, QuietCore DEF Attached
<1>6. CASE s = link
  <2>1. s # NoStream /\ OnLink(s)
    BY <1>6, NoStreamDistinct DEF CoreInv, LinkOK
  <2>2. /\ agent.pc = "event" /\ uplink[s] = <<>> /\ AckOf(commands[s]) = {}
        /\ latest = agent.pending /\ generation = agent.gen
    BY <1>2, <2>1 DEF OnLink, Attached
  <2>3. stream[s].outgoing.seq = latest
    BY <1>2 DEF IInv, SessionInv
  <2>4. \/ stream'[s].stage = "closing" /\ Inbox(s)' = commands[s]
        \/ stream'[s].stage = "serving" /\ Inbox(s)' = Append(commands[s], Ack(latest))
    <3>1. CASE stream'[s].stage = "closing"  BY <1>2, <3>1 DEF Inbox, Attached
    <3>2. CASE stream'[s].stage = "serving"  BY <1>2, <2>3, <3>2 DEF Inbox, Attached
    <3>3. QED  BY <1>2, <3>1, <3>2
  <2>5. commands[s] \in Seq(Command) /\ latest \in Nat /\ generation \in Nat
    BY <1>1, HubTypes
  <2>6. OneAck(Inbox(s)) /\ StopFree(Inbox(s)) /\ Inbox(s) = commands[s]
    BY <1>2, <2>1 DEF OnLink, Inbox, Attached
  <2>7. OneAck(Inbox(s))' /\ StopFree(Inbox(s))' /\ AckOf(Inbox(s))' \subseteq {latest}
    BY <2>2, <2>4, <2>5, <2>6, QueueAck
  <2>8. OnLink(s)'
    <3>1. ~ Under(s, "hello")'  BY <1>3, <2>2 DEF Under
    <3>2. stream'[s].stage \in {"closing", "serving"}  BY <1>2
    <3>3. agent' = agent /\ generation' = generation /\ uplink'[s] = <<>>
      BY <1>2, <1>3, <2>2 DEF Watching, SameCursor
    <3>4. QED  BY <2>2, <2>7, <3>1, <3>2, <3>3 DEF OnLink
  <2>9. ASSUME NEW n \in AckOf(Inbox(s))' PROVE AckAt(s, n)'
    <3>1. agent' = agent /\ log' = log /\ latest' = latest /\ Held' = Held /\ Held = latest
      BY <1>2, <1>3, <2>2 DEF Watching, SameCursor, Held
    <3>2. agent.pending # 0 /\ latest = agent.pending =>
            \E k \in DOMAIN log : log[k] = [gen |-> agent.gen, frame |-> agent.released + 1]
      BY <1>1, <3>1, HeldEntry
    <3>3. n = latest  BY <2>7
    <3>4. QED  BY <2>2, <3>1, <3>2, <3>3 DEF AckAt
  <2>10. QED
    BY <1>2, <1>3, <1>4, <1>6, <2>1, <2>8, <2>9, LinkCore DEF Attached
<1>7. QED  BY <1>5, <1>6

\* The session task stops reading.
LEMMA EndsCore ==
  ASSUME IInv, CoreInv, NEW s \in Streams, EndOfStream(s), UNCHANGED <<agent, network, log, lapses>>
  PROVE  CoreInv'
<1>1. /\ AgentOK /\ NetOK /\ CursorOK /\ TypeOK  BY DEF CoreInv, IInv
<1>2. /\ SameCursor /\ Others(s) /\ stream[s].stage = "serving"
      /\ stream'[s].stage = "closing" /\ commands' = commands
  BY <1>1, EndIs
<1>3. Watching /\ uplink' = uplink /\ leftover' = leftover  BY <1>2 DEF network, Watching
<1>4. NetOK'
  <2>1. uplink' \in [Streams -> {<<>>} \cup {<<m>> : m \in Msg}]
    BY <1>1, <1>3 DEF NetOK
  <2>2. QED  BY <1>2, <1>3, <2>1, HubNet
<1>5. CASE s # link
  BY <1>2, <1>3, <1>4, <1>5, QuietCore DEF Attached
<1>6. CASE s = link
  <2>1. s # NoStream /\ OnLink(s) /\ \A n \in AckOf(Inbox(s)) : AckAt(s, n)
    BY <1>6, NoStreamDistinct DEF CoreInv, LinkOK
  <2>2. Inbox(s)' = Inbox(s)  BY <1>2 DEF Inbox, Attached
  <2>3. OnLink(s)'
    <3>1. Under(s, "hello")' = Under(s, "hello")  BY <1>3 DEF Under
    <3>2. agent' = agent /\ generation' = generation /\ latest' = latest /\ uplink' = uplink
      BY <1>2, <1>3 DEF Watching, SameCursor
    <3>3. stream[s].stage \in Attached /\ stream'[s].stage \in Attached  BY <1>2 DEF Attached
    <3>4. QED  BY <1>2, <2>1, <2>2, <3>1, <3>2, <3>3 DEF OnLink
  <2>4. \A n \in AckOf(Inbox(s))' : AckAt(s, n)'
    BY <1>2, <1>3, <2>1, <2>2 DEF AckAt, Held, Watching, SameCursor, Attached
  <2>5. QED
    BY <1>2, <1>3, <1>4, <1>6, <2>1, <2>3, <2>4, LinkCore DEF Attached
<1>7. QED  BY <1>5, <1>6

\* An operator's request reaches the active session.
LEMMA SetCore ==
  ASSUME IInv, CoreInv, NEW list \in Watchlists, SetWatchlist(list),
         UNCHANGED <<agent, network, log, lapses>>
  PROVE  CoreInv'
<1>1. /\ AgentOK /\ NetOK /\ CursorOK /\ TypeOK /\ SessionInv  BY DEF CoreInv, IInv
<1>2. PICK s \in Streams, w \in Watchlist :
           /\ w.list = list /\ w.revision = desired.revision + 1
           /\ agentSession # 0 /\ stream[s].session = agentSession
           /\ SameCursor /\ desired' = w
           /\ \A t \in Streams : /\ stream'[t].stage = stream[t].stage
                                 /\ stream'[t].config = stream[t].config
           /\ commands'[s] = Append(commands[s], Configure(w))
           /\ \A t \in Streams \ {s} : commands'[t] = commands[t]
  BY <1>1, SetIs
<1>3. Watching /\ uplink' = uplink /\ leftover' = leftover  BY <1>2 DEF network, Watching
<1>4. stream[s].stage # "idle"  BY <1>1, <1>2 DEF SessionInv
<1>5. NetOK'
  <2>1. /\ \A t \in Streams : stream'[t].stage = "idle" => commands'[t] = <<>>
        /\ \A t \in Streams : stream'[t].stage # "closed" => leftover'[t] = <<>>
    BY <1>1, <1>2, <1>3, <1>4 DEF NetOK
  <2>2. QED  BY <1>1, <1>3, <2>1 DEF NetOK, Watching, SameCursor, Under
<1>6. AgentOK' /\ Steady /\ agent'.tried = agent.tried
  BY <1>1, <1>3 DEF AgentOK, Watching, Steady
<1>7. CursorOK'  BY <1>1, <1>3, <1>6, CursorSame DEF Watching
<1>8. ASSUME NEW x \in Streams, x = link, x # NoStream
      PROVE  /\ AckOf(Inbox(x))' = AckOf(Inbox(x)) /\ OneAck(Inbox(x))' /\ StopFree(Inbox(x))'
             /\ AckOf(commands[x])' = AckOf(commands[x]) /\ stream'[x].stage = stream[x].stage
  <2>1. OneAck(Inbox(x)) /\ StopFree(Inbox(x))  BY <1>8 DEF CoreInv, LinkOK, OnLink
  <2>2. /\ commands[x] \in Seq(Command) /\ stream'[x].stage = stream[x].stage
        /\ commands'[x] \in {commands[x], Append(commands[x], Configure(w))}
    BY <1>1, <1>2, HubTypes
  <2>3. Inbox(x)' \in {Inbox(x), Append(commands[x], Configure(w))}
        /\ (Inbox(x)' # Inbox(x) => Inbox(x) = commands[x])
    BY <1>3, <2>2 DEF Inbox
  <2>4. AckOf(commands[x])' = AckOf(commands[x])  BY <2>2, QueueConfigure
  <2>5. CASE Inbox(x)' = Inbox(x)  BY <2>1, <2>2, <2>4, <2>5
  <2>6. CASE Inbox(x)' # Inbox(x)  BY <2>1, <2>2, <2>3, <2>4, <2>6, QueueConfigure
  <2>7. QED  BY <2>5, <2>6
<1>9. LinkOK'
  <2> SUFFICES ASSUME NEW x \in Streams, x = link, x # NoStream
               PROVE  OnLink(x)' /\ \A n \in AckOf(Inbox(x))' : AckAt(x, n)'
    BY <1>1, <1>3 DEF LinkOK, Watching, NetOK
  <2>1. OnLink(x) /\ \A n \in AckOf(Inbox(x)) : AckAt(x, n)
    BY DEF CoreInv, LinkOK
  <2>2. OnLink(x)'
    <3>1. Under(x, "hello")' = Under(x, "hello")  BY <1>3 DEF Under
    <3>2. agent' = agent /\ generation' = generation /\ latest' = latest /\ uplink' = uplink
      BY <1>2, <1>3 DEF Watching, SameCursor
    <3>3. QED  BY <1>8, <2>1, <3>1, <3>2 DEF OnLink
  <2>3. \A n \in AckOf(Inbox(x))' : AckAt(x, n)'
    BY <1>3, <1>8, <2>1 DEF AckAt, Held, Watching, SameCursor
  <2>4. QED  BY <2>2, <2>3
<1>10. LateOK'
  <2> SUFFICES ASSUME NEW t \in Streams, t # link, stream[t].stage \in Attached, Under(t, "event")
               PROVE  LateAt(t)'
    BY <1>2, <1>3 DEF LateOK, Watching, Under
  <2>1. LateAt(t)  BY DEF CoreInv, LateOK
  <2>2. link # NoStream => link \in Streams  BY <1>1 DEF NetOK
  <2>3. QED  BY <1>2, <1>3, <2>1, <2>2 DEF LateAt, Watching
<1>11. TakenOK'
  <2>1. link # NoStream => link \in Streams  BY <1>1 DEF NetOK
  <2>2. Greeted' => Greeted  BY <1>3, <1>8, <2>1 DEF Greeted, Watching
  <2>3. QED  BY <1>3, <2>2, TakenSame DEF CoreInv, Watching
<1>12. QED  BY <1>5, <1>6, <1>7, <1>9, <1>10, <1>11 DEF CoreInv

LEMMA HubMovesCore ==
  ASSUME IInv, CoreInv, HubMoves
  PROVE  CoreInv'
BY AckSentCore, ConfigurationSentCore, BroadcastCore, EndsCore, SetCore DEF HubMoves

-----------------------------------------------------------------------------
(* The hub's end of a call *)

LEMMA DisconnectsCore ==
  ASSUME IInv, CoreInv, NEW s \in Streams, HubDisconnects(s)
  PROVE  CoreInv'
<1>1. /\ AgentOK /\ NetOK /\ CursorOK /\ TypeOK  BY DEF CoreInv, IInv
<1>2. /\ SameCursor /\ Others(s) /\ stream[s].stage = "closing" /\ stream'[s].stage = "closed"
  BY <1>1, DisconnectIs DEF HubDisconnects
<1>3. /\ Watching /\ commands[s] \in Seq(Command) /\ leftover \in [Streams -> Seq(Command)]
      /\ leftover' = [leftover EXCEPT ![s] = IF client[s] = "up" THEN commands[s] ELSE <<>>]
  BY <1>1, <1>2, HubTypes DEF HubDisconnects, Watching, NetOK
<1>4. /\ leftover' \in [Streams -> Seq(Command)] /\ leftover'[s] \in {commands[s], <<>>}
      /\ \A t \in Streams \ {s} : leftover'[t] = leftover[t]
  BY <1>3
<1>5. /\ uplink' \in [Streams -> {<<>>} \cup {<<m>> : m \in Msg}]
      /\ uplink'[s] = <<>> /\ \A t \in Streams \ {s} : uplink'[t] = uplink[t]
      /\ \A t \in Streams : uplink'[t] \in {uplink[t], <<>>}
  BY <1>1, ReadIs DEF HubDisconnects
<1>6. NetOK'
  <2>1. /\ \A t \in Streams : stream'[t].stage = "idle" => commands'[t] = <<>>
        /\ \A t \in Streams : stream'[t].stage # "closed" => leftover'[t] = <<>>
    BY <1>1, <1>2, <1>4 DEF Others, NetOK
  <2>2. /\ log' = log
        /\ link' \in Streams \cup {NoStream} /\ (link' = NoStream <=> agent'.pc \in {"offline", "exited"})
    BY <1>1, <1>3 DEF NetOK, Watching
  <2>3. QED  BY <1>1, <1>4, <1>5, <2>1, <2>2, NetStep
<1>7. CASE s # link
  BY <1>2, <1>3, <1>4, <1>5, <1>6, <1>7, QuietCore
<1>8. CASE s = link
  <2>1. s # NoStream /\ OnLink(s) /\ \A n \in AckOf(Inbox(s)) : AckAt(s, n)
    BY <1>8, NoStreamDistinct DEF CoreInv, LinkOK
  <2>2. Inbox(s)' \in {Inbox(s), <<>>}  BY <1>2, <1>4 DEF Inbox, Attached
  <2>3. OneAck(Inbox(s))' /\ StopFree(Inbox(s))' /\ AckOf(Inbox(s))' \subseteq AckOf(Inbox(s))
    BY <2>1, <2>2, QueueEmpty DEF OnLink
  <2>4. OnLink(s)'
    <3>1. ~ Under(s, "hello")'  BY <1>5 DEF Under
    <3>2. stream'[s].stage = "closed" /\ uplink'[s] = <<>> /\ agent' = agent
      BY <1>2, <1>3, <1>5 DEF Watching
    <3>3. agent.pc = "ready" => AckOf(Inbox(s))' = {}  BY <2>1, <2>3 DEF OnLink
    <3>4. QED  BY <2>3, <3>1, <3>2, <3>3 DEF OnLink, Attached
  <2>5. \A n \in AckOf(Inbox(s))' : AckAt(s, n)'
    BY <1>2, <1>3, <2>1, <2>3 DEF AckAt, Held, Watching, SameCursor, Attached
  <2>6. QED
    BY <1>2, <1>3, <1>5, <1>6, <1>8, <2>4, <2>5, LinkCore DEF Attached
<1>9. QED  BY <1>7, <1>8

\* The heartbeat of an agent in session is the exact one.
LEMMA BeatCore ==
  ASSUME IInv, CoreInv, NEW s \in Streams, HubReadsHeartbeat(s)
  PROVE  CoreInv'
<1>1. /\ AgentOK /\ NetOK /\ CursorOK /\ TypeOK  BY DEF CoreInv, IInv
<1> DEFINE cursor == [gen |-> Head(uplink[s]).gen, seq |-> Head(uplink[s]).seq]
<1>2. /\ Heartbeat(s, cursor) \/ RefuseHeartbeat(s, cursor)
      /\ Under(s, "heartbeat") /\ agent' = agent /\ link' = link /\ leftover' = leftover
      /\ log' = log /\ lapses' = lapses /\ Read(s)
  BY DEF HubReadsHeartbeat
<1>3. /\ SameCursor /\ Others(s) /\ stream[s].stage = "serving"
      /\ stream'[s].stage \in {"serving", "closing"}
  <2>1. CASE Heartbeat(s, cursor)  BY <1>1, <2>1, HeartbeatIs
  <2>2. CASE RefuseHeartbeat(s, cursor)  BY <1>1, <2>2, RefuseIs DEF RefuseHeartbeat
  <2>3. QED  BY <1>2, <2>1, <2>2
<1>4. Watching  BY <1>2, <1>3 DEF Watching
<1>5. /\ uplink' \in [Streams -> {<<>>} \cup {<<m>> : m \in Msg}]
      /\ uplink'[s] = <<>> /\ \A t \in Streams \ {s} : uplink'[t] = uplink[t]
      /\ \A t \in Streams : uplink'[t] \in {uplink[t], <<>>}
  BY <1>1, <1>2, ReadIs
<1>6. NetOK'  BY <1>2, <1>3, <1>4, <1>5, HubNet
<1>7. CASE s # link
  BY <1>2, <1>3, <1>4, <1>5, <1>6, <1>7, QuietCore
<1>8. CASE s = link
  <2>1. s # NoStream /\ OnLink(s) /\ \A n \in AckOf(Inbox(s)) : AckAt(s, n)
    BY <1>8, NoStreamDistinct DEF CoreInv, LinkOK
  <2>2. uplink[s] # <<>> /\ Head(uplink[s]).type = "heartbeat"  BY <1>2 DEF Under
  <2>3. agent.pc = "beat" /\ Head(uplink[s]) = Beat(agent.gen, agent.accepted)
    BY <1>3, <2>1, <2>2 DEF OnLink, Event
  <2>4. generation = agent.gen /\ latest = agent.accepted /\ AckOf(Inbox(s)) = {}
        /\ OneAck(Inbox(s)) /\ StopFree(Inbox(s)) /\ Inbox(s) = commands[s]
    BY <1>3, <2>1, <2>2, <2>3 DEF OnLink, Attached, Inbox
  <2>5. cursor = [gen |-> generation, seq |-> latest]  BY <2>3, <2>4 DEF Beat
  <2> HIDE DEF cursor
  <2>6. Heartbeat(s, cursor)  BY <1>2, <2>5 DEF RefuseHeartbeat
  <2>7. \/ Inbox(s)' = commands[s]
        \/ Inbox(s)' = Append(commands[s], Ack(latest))
    BY <1>1, <1>3, <2>6, HeartbeatIs DEF Inbox, Attached
  <2>8. commands[s] \in Seq(Command) /\ latest \in Nat /\ generation \in Nat
    BY <1>1, HubTypes
  <2>9. OneAck(Inbox(s))' /\ StopFree(Inbox(s))' /\ AckOf(Inbox(s))' \subseteq {latest}
    BY <2>4, <2>7, <2>8, QueueAck
  <2>10. OnLink(s)'
    <3>1. ~ Under(s, "hello")'  BY <1>5 DEF Under
    <3>2. agent' = agent /\ generation' = generation /\ latest' = latest /\ uplink'[s] = <<>>
      BY <1>3, <1>4, <1>5 DEF Watching, SameCursor
    <3>3. QED  BY <1>3, <2>3, <2>4, <2>9, <3>1, <3>2 DEF OnLink
  <2>11. ASSUME NEW n \in AckOf(Inbox(s))' PROVE AckAt(s, n)'
    <3>1. agent' = agent /\ log' = log /\ latest' = latest /\ Held' = Held /\ Held = latest
      BY <1>3, <1>4, <2>4 DEF Watching, SameCursor, Held
    <3>2. n = latest  BY <2>9
    <3>3. agent.pending = 0  BY <1>1, <2>3 DEF AgentOK
    <3>4. QED  BY <2>3, <2>4, <3>1, <3>2, <3>3 DEF AckAt
  <2>12. QED
    BY <1>3, <1>4, <1>5, <1>6, <1>8, <2>10, <2>11, LinkCore DEF Attached
<1>9. QED  BY <1>7, <1>8

\* The frame that is kept is published: the hub's cursor moves on to it.
LEMMA PublishCursor ==
  ASSUME AgentOK, NetOK, CursorOK, generation = agent.gen, latest = agent.accepted,
         agent.pending # 0, agent.tried, generation' = generation, latest' = agent.pending,
         agent' = agent, log' = Append(log, [gen |-> agent.gen, frame |-> agent.released + 1])
  PROVE  CursorOK'
<1>1. /\ agent.released \in Nat /\ agent.accepted \in Nat /\ agent.accepted <= agent.released
      /\ agent.pending = agent.accepted + 1 /\ agent.gen \in Nat
  BY AgentTypes
<1>2. PICK b \in Nat : b = Begun /\ agent.released = b + agent.accepted
  <2>1. Begun \in Nat /\ agent.released = Begun + agent.accepted  BY <1>1 DEF Begun
  <2>2. QED  BY <2>1
<1>3. Frames' = Frames \cup {agent.released + 1}
  <2>0. Begun' = Begun /\ Begun = b /\ agent.released + 1 > b  BY <1>1, <1>2 DEF Begun
  <2> DEFINE e == [gen |-> agent.gen, frame |-> agent.released + 1]
  <2>1. log \in Seq([gen : Nat, frame : Nat]) /\ e \in [gen : Nat, frame : Nat]
    BY <1>1 DEF NetOK
  <2>2. e.gen = agent.gen /\ e.frame = agent.released + 1  OBVIOUS
  <2>3. log' = Append(log, e)  OBVIOUS
  <2> HIDE DEF e
  <2>4. /\ DOMAIN log = 1..Len(log) /\ DOMAIN log' = 1..(Len(log) + 1) /\ Len(log) \in Nat
        /\ log'[Len(log) + 1] = e /\ \A i \in 1..Len(log) : log'[i] = log[i]
    BY <2>1, <2>3, AppendIndex
  <2>5. QED  BY <2>0, <2>2, <2>4 DEF Frames
<1>4. Begun' = b /\ Held = agent.accepted /\ Held' = agent.pending
  BY <1>2 DEF Begun, Held
<1>5. Frames = (b + 1)..agent.released \/ Frames = (b + 1)..(agent.released + 1)
        \/ (agent.accepted = 0 /\ Frames = {})
  <2>1. CASE agent.accepted = 0
    BY <1>2, <2>1 DEF CursorOK
  <2>2. CASE agent.accepted # 0
    <3>1. Held > 0  BY <1>1, <1>4, <2>2
    <3>2. Frames = (Begun + 1)..(Begun + Held)  BY <3>1 DEF CursorOK
    <3>3. QED  BY <1>2, <1>4, <3>2
  <2>3. QED  BY <2>1, <2>2
<1>6. Frames' = (b + 1)..(agent.released + 1)
  <2>1. CASE Frames = (b + 1)..agent.released
    <3>1. agent.released \in Nat /\ b <= agent.released  BY <1>1, <1>2
    <3>2. (b + 1)..(agent.released + 1) = ((b + 1)..agent.released) \cup {agent.released + 1}
      BY <3>1
    <3>3. QED  BY <1>3, <2>1, <3>2
  <2>2. CASE Frames = (b + 1)..(agent.released + 1)
    BY <1>1, <1>2, <1>3, <2>2
  <2>3. CASE agent.accepted = 0 /\ Frames = {}
    BY <1>1, <1>2, <1>3, <2>3
  <2>4. QED  BY <1>5, <2>1, <2>2, <2>3
<1>7. b + agent.pending = agent.released + 1 /\ agent.pending > 0  BY <1>1, <1>2
<1>8. ASSUME NEW i \in DOMAIN log'
      PROVE  log'[i].frame <= agent.released \/ log'[i].frame = agent.released + 1
  <2> DEFINE e == [gen |-> agent.gen, frame |-> agent.released + 1]
  <2>1. log \in Seq([gen : Nat, frame : Nat]) /\ e \in [gen : Nat, frame : Nat]
    BY <1>1 DEF NetOK
  <2>2. e.frame = agent.released + 1 /\ log' = Append(log, e)  OBVIOUS
  <2> HIDE DEF e
  <2>3. /\ DOMAIN log = 1..Len(log) /\ DOMAIN log' = 1..(Len(log) + 1) /\ Len(log) \in Nat
        /\ log'[Len(log) + 1] = e /\ \A k \in 1..Len(log) : log'[k] = log[k]
    BY <2>1, <2>2, AppendIndex
  <2>4. CASE i \in DOMAIN log  BY <2>3, <2>4 DEF CursorOK
  <2>5. CASE i = Len(log) + 1  BY <2>2, <2>3, <2>5
  <2>6. QED  BY <2>3, <2>4, <2>5
<1>9. QED  BY <1>4, <1>6, <1>7, <1>8 DEF CursorOK

\* An event the hub reads is the frame the agent keeps, whether the agent is
\* still on the call or not; on the agent's call it is the next of the hub's.
LEMMA EventIs ==
  ASSUME IInv, CoreInv, NEW s \in Streams, HubReadsEvent(s)
  PROVE  LET event == [gen |-> agent.gen, seq |-> agent.pending, size |-> 1] IN
         /\ uplink[s] = <<Event(agent.gen, agent.pending, agent.released + 1)>>
         /\ agent.pending # 0 /\ agent.tried
         /\ s # link => LateAt(s)
         /\ stream[s].stage = "serving"
         /\ \/ /\ Publish(s, event) /\ generation = agent.gen /\ latest = agent.accepted
               /\ log' = Append(log, [gen |-> agent.gen, frame |-> agent.released + 1])
            \/ s # link /\ RefuseEvent(s, event) /\ log' = log
<1>1. /\ AgentOK /\ NetOK /\ CursorOK /\ TypeOK /\ SessionInv  BY DEF CoreInv, IInv
<1> DEFINE m == Head(uplink[s])
           got == [gen |-> m.gen, seq |-> m.seq, size |-> 1]
           event == [gen |-> agent.gen, seq |-> agent.pending, size |-> 1]
<1>2. /\ Under(s, "event")
      /\ \/ Publish(s, got) /\ log' = Append(log, [gen |-> m.gen, frame |-> m.frame])
         \/ RefuseEvent(s, got) /\ UNCHANGED log
  BY DEF HubReadsEvent
<1>3. stream[s].stage = "serving"
  BY <1>2 DEF Publish, RefuseEvent, Refuse
<1>4. uplink[s] # <<>> /\ m.type = "event"  BY <1>2 DEF Under
<1>5. /\ uplink[s] = <<Event(agent.gen, agent.pending, agent.released + 1)>>
      /\ agent.pending # 0 /\ agent.tried
      /\ s # link => LateAt(s)
      /\ s = link => generation = agent.gen /\ latest = agent.accepted
  <2>1. CASE s # link
    <3>1. LateAt(s)  BY <1>2, <1>3, <2>1 DEF CoreInv, LateOK, Attached
    <3>2. QED  BY <2>1, <3>1 DEF LateAt
  <2>2. CASE s = link
    <3>1. OnLink(s)  BY <2>2, NoStreamDistinct DEF CoreInv, LinkOK
    <3>2. agent.pc = "event" /\ uplink[s] = <<Event(agent.gen, agent.pending, agent.released + 1)>>
      BY <1>3, <1>4, <3>1 DEF OnLink, Beat
    <3>3. generation = agent.gen /\ latest = agent.accepted
      BY <1>3, <1>4, <3>1, <3>2 DEF OnLink, Attached
    <3>4. QED  BY <1>1, <2>2, <3>2, <3>3 DEF AgentOK
  <2>3. QED  BY <2>1, <2>2
<1>6. m.gen = agent.gen /\ m.seq = agent.pending /\ m.frame = agent.released + 1
  BY <1>5 DEF Event
<1>7. agent.pending = agent.accepted + 1 /\ agent.accepted \in Nat /\ latest \in Nat
  BY <1>1, <1>5, AgentTypes, HubTypes
<1>8. CASE Publish(s, got)
  <2>1. generation = agent.gen /\ agent.pending = latest + 1
    BY <1>6, <1>8 DEF Publish, Publishable
  <2>2. latest = agent.accepted  BY <1>7, <2>1
  <2>3. log' = Append(log, [gen |-> m.gen, frame |-> m.frame])
    BY <1>2, <1>8 DEF Publish, RefuseEvent
  <2>4. QED  BY <1>3, <1>5, <1>6, <1>8, <2>1, <2>2, <2>3
<1>9. CASE RefuseEvent(s, got) /\ UNCHANGED log
  <2>1. s # link
    <3> SUFFICES ASSUME s = link PROVE FALSE  OBVIOUS
    <3>1. agentSession = stream[s].session  BY <1>1, <1>3 DEF SessionInv, Attached
    <3>2. 1 <= MaxReplayBytes  BY LimitsPositive
    <3>3. Publishable(s, got)
      BY <1>5, <1>6, <1>7, <3>1, <3>2 DEF Publishable
    <3>4. QED  BY <1>9, <3>3 DEF RefuseEvent
  <2>2. QED  BY <1>3, <1>5, <1>6, <1>9, <2>1
<1>10. QED  BY <1>2, <1>8, <1>9

LEMMA EventCore ==
  ASSUME IInv, CoreInv, NEW s \in Streams, HubReadsEvent(s)
  PROVE  CoreInv'
<1>1. /\ AgentOK /\ NetOK /\ CursorOK /\ TypeOK /\ SessionInv  BY DEF CoreInv, IInv
<1> DEFINE event == [gen |-> agent.gen, seq |-> agent.pending, size |-> 1]
<1>2. /\ uplink[s] = <<Event(agent.gen, agent.pending, agent.released + 1)>>
      /\ agent.pending # 0 /\ agent.tried
      /\ s # link => LateAt(s)
      /\ stream[s].stage = "serving"
      /\ \/ /\ Publish(s, event) /\ generation = agent.gen /\ latest = agent.accepted
            /\ log' = Append(log, [gen |-> agent.gen, frame |-> agent.released + 1])
         \/ s # link /\ RefuseEvent(s, event) /\ log' = log
  BY EventIs
<1>3. /\ agent' = agent /\ link' = link /\ leftover' = leftover /\ lapses' = lapses /\ Read(s)
  BY DEF HubReadsEvent
<1>4. /\ uplink' \in [Streams -> {<<>>} \cup {<<m>> : m \in Msg}]
      /\ uplink'[s] = <<>> /\ \A t \in Streams \ {s} : uplink'[t] = uplink[t]
      /\ \A t \in Streams : uplink'[t] \in {uplink[t], <<>>}
  BY <1>1, <1>3, ReadIs
<1>5. CASE s # link /\ RefuseEvent(s, event) /\ log' = log
  <2>1. /\ SameCursor /\ Others(s) /\ stream'[s].stage = "closing"
    BY <1>1, <1>5, RefuseIs DEF RefuseEvent
  <2>2. Watching  BY <1>3, <1>5, <2>1 DEF Watching
  <2>3. NetOK'  BY <1>2, <1>3, <1>4, <2>1, <2>2, HubNet
  <2>4. QED  BY <1>3, <1>4, <1>5, <2>1, <2>2, <2>3, QuietCore
<1>6. CASE /\ Publish(s, event) /\ generation = agent.gen /\ latest = agent.accepted
           /\ log' = Append(log, [gen |-> agent.gen, frame |-> agent.released + 1])
  <2>1. /\ generation' = generation /\ latest' = agent.pending
        /\ commands' = commands /\ Others(s) /\ stream'[s].stage = "broadcasting"
    BY <1>1, <1>6, PublishIs
  <2>2. CursorOK'
    BY <1>1, <1>2, <1>3, <1>6, <2>1, PublishCursor
  <2>3. AgentOK'  BY <1>1, <1>3 DEF AgentOK
  <2>4. NetOK'
    <3>1. agent.gen \in Nat /\ agent.released + 1 \in Nat  BY <1>1, AgentTypes
    <3>2. log' \in Seq([gen : Nat, frame : Nat])
      BY <1>1, <1>6, <3>1 DEF NetOK
    <3>3. /\ \A t \in Streams : stream'[t].stage = "idle" => commands'[t] = <<>>
          /\ \A t \in Streams : stream'[t].stage # "closed" => leftover'[t] = <<>>
      BY <1>1, <1>2, <1>3, <2>1 DEF Others, NetOK
    <3>4. QED  BY <1>1, <1>3, <1>4, <3>2, <3>3 DEF NetOK
  <2>5. LateOK'
    <3> SUFFICES ASSUME NEW t \in Streams, stream'[t].stage \in Attached, Under(t, "event")'
                 PROVE  FALSE
      BY DEF LateOK
    <3>1. t # s  BY <1>4 DEF Under
    <3>2. stream[t].stage \in Attached  BY <2>1, <3>1 DEF Others
    <3>3. QED  BY <1>1, <1>2, <3>1, <3>2 DEF SessionInv, Attached
  <2>6. LinkOK'
    <3>1. CASE link = NoStream  BY <1>3, <3>1 DEF LinkOK
    <3>2. CASE s # link /\ link # NoStream
      <4>1. PICK x \in Streams : x = link  BY <1>1, <3>2 DEF NetOK
      <4>2. stream[x].stage = "idle" /\ OnLink(x)
        BY <1>2, <3>2, <4>1 DEF LateAt, CoreInv, LinkOK
      <4>3. stream'[x] = stream[x] /\ leftover'[x] = <<>> /\ uplink'[x] = uplink[x]
        BY <1>1, <1>3, <1>4, <2>1, <3>2, <4>1, <4>2 DEF Others, NetOK
      <4>4. Inbox(x)' = <<>>  BY <4>2, <4>3 DEF Inbox, Attached
      <4>5. OnLink(x)'
        BY <1>3, <4>2, <4>3, <4>4, QueueEmpty DEF OnLink, Under, Attached
      <4>6. QED  BY <1>3, <4>1, <4>4, <4>5, QueueEmpty DEF LinkOK
    <3>3. CASE s = link
      <4>1. OnLink(s)  BY <3>3, NoStreamDistinct DEF CoreInv, LinkOK
      <4>2. agent.pc = "event" /\ AckOf(Inbox(s)) = {} /\ Inbox(s) = commands[s]
            /\ OneAck(Inbox(s)) /\ StopFree(Inbox(s))
        BY <1>2, <4>1 DEF OnLink, Inbox, Attached, Event, Beat
      <4>3. Inbox(s)' = Inbox(s) /\ commands'[s] = commands[s]
        BY <1>2, <2>1, <4>2 DEF Inbox, Attached
      <4>4. ~ Under(s, "hello")'  BY <1>4 DEF Under
      <4>5. OnLink(s)'
        BY <1>3, <1>4, <1>6, <2>1, <4>2, <4>3, <4>4 DEF OnLink
      <4>6. QED  BY <1>3, <3>3, <4>2, <4>3, <4>5 DEF LinkOK
    <3>4. QED  BY <3>1, <3>2, <3>3
  <2>7. TakenOK'  BY <1>3, <1>6, <2>1 DEF TakenOK
  <2>8. QED  BY <2>2, <2>3, <2>4, <2>5, <2>6, <2>7 DEF CoreInv
<1>7. QED  BY <1>2, <1>5, <1>6

\* A hello taken up leaves the hub's cursor for the agent's generation as it
\* was, or empty: it was then overtaken.
LEMMA ConnectCursor ==
  ASSUME IInv, CoreInv, NEW s \in Streams, HubConnects(s)
  PROVE  /\ ConnectAgent(s, Head(uplink[s]).gen, Head(uplink[s]).watch)
         /\ Held' = Held \/ (Held' = 0 /\ lapses' # {})
         /\ lapses' = {} => lapses = {}
         /\ latest' = 0 \/ SameCursor
         /\ s = link => Head(uplink[s]).gen = agent.gen /\ lapses' = lapses /\ Held' = Held
<1>1. /\ AgentOK /\ NetOK /\ TypeOK  BY DEF CoreInv, IInv
<1>2. /\ Under(s, "hello") /\ ConnectAgent(s, Head(uplink[s]).gen, Head(uplink[s]).watch)
      /\ lapses' = IF generation = agent.gen /\ Head(uplink[s]).gen # generation
                   THEN lapses \cup {"overtaken"} ELSE lapses
      /\ agent' = agent
  BY DEF HubConnects
<1>3. PICK g : g = Head(uplink[s]).gen  OBVIOUS
<1>4. generation' = g /\ latest' = (IF g = generation THEN latest ELSE 0)
  BY <1>1, <1>2, <1>3, HelloIs
<1>5. lapses' = {} => lapses = {}  BY <1>2
<1>6. s = link => g = agent.gen
  BY <1>2, <1>3, NoStreamDistinct DEF CoreInv, LinkOK, OnLink
<1>7. CASE g = generation
  <2>1. SameCursor /\ Held' = Held  BY <1>2, <1>4, <1>7 DEF Held, SameCursor
  <2>2. QED  BY <1>2, <1>3, <1>5, <1>6, <1>7, <2>1
<1>8. CASE g # generation /\ generation = agent.gen
  <2>1. Held' = 0  BY <1>2, <1>4, <1>8 DEF Held
  <2>2. lapses' # {}  BY <1>2, <1>3, <1>8
  <2>3. QED  BY <1>2, <1>3, <1>4, <1>5, <1>6, <1>8, <2>1, <2>2
<1>9. CASE g # generation /\ generation # agent.gen
  <2>1. Held = 0 /\ Held' = 0  BY <1>2, <1>4, <1>9 DEF Held
  <2>2. QED  BY <1>2, <1>3, <1>4, <1>5, <1>6, <1>9, <2>1
<1>10. QED  BY <1>7, <1>8, <1>9

LEMMA ConnectsCore ==
  ASSUME IInv, CoreInv, NEW s \in Streams, HubConnects(s)
  PROVE  CoreInv'
<1>1. /\ AgentOK /\ NetOK /\ CursorOK /\ TypeOK /\ SessionInv  BY DEF CoreInv, IInv
<1>2. /\ agent' = agent /\ link' = link /\ leftover' = leftover /\ log' = log /\ Read(s)
  BY DEF HubConnects
<1>3. PICK g : g = Head(uplink[s]).gen  OBVIOUS
<1>4. /\ ConnectAgent(s, g, Head(uplink[s]).watch)
      /\ Held' = Held \/ (Held' = 0 /\ lapses' # {})
      /\ lapses' = {} => lapses = {}
      /\ latest' = 0 \/ SameCursor
      /\ s = link => g = agent.gen /\ Held' = Held
  BY <1>3, ConnectCursor
<1>5. /\ stream[s].stage = "idle" /\ agentSession = 0
      /\ generation' = g /\ Others(s) /\ commands' = commands
      /\ stream'[s].stage = "greeting"
  BY <1>1, <1>4, HelloIs
<1>6. /\ uplink' \in [Streams -> {<<>>} \cup {<<m>> : m \in Msg}]
      /\ uplink'[s] = <<>> /\ \A t \in Streams \ {s} : uplink'[t] = uplink[t]
      /\ \A t \in Streams : uplink'[t] \in {uplink[t], <<>>}
  BY <1>1, <1>2, ReadIs
<1>7. \A t \in Streams : stream[t].stage \notin Attached
  BY <1>1, <1>5 DEF SessionInv
<1>8. AgentOK'  BY <1>1, <1>2 DEF AgentOK
<1>9. NetOK'
  <2>1. /\ \A t \in Streams : stream'[t].stage = "idle" => commands'[t] = <<>>
        /\ \A t \in Streams : stream'[t].stage # "closed" => leftover'[t] = <<>>
    BY <1>1, <1>2, <1>5 DEF Others, NetOK
  <2>2. QED  BY <1>1, <1>2, <1>6, <2>1, NetStep DEF NetOK
<1>10. CursorOK'
  <2>1. Begun' = Begun /\ Frames' = Frames
    BY <1>2 DEF Begun, Frames
  <2>2. CASE Held' = Held  BY <1>1, <1>2, <1>4, <2>1, <2>2 DEF CursorOK
  <2>3. CASE Held' = 0 /\ lapses' # {}  BY <1>1, <1>2, <2>1, <2>3 DEF CursorOK
  <2>4. QED  BY <1>4, <2>2, <2>3
<1>11. LateOK'
  <2> SUFFICES ASSUME NEW t \in Streams, stream'[t].stage \in Attached, Under(t, "event")'
               PROVE  FALSE
    BY DEF LateOK
  <2>1. t # s  BY <1>6 DEF Under
  <2>2. QED  BY <1>5, <1>7, <2>1 DEF Others
<1>12. LinkOK'
  <2>1. CASE link = NoStream  BY <1>2, <2>1 DEF LinkOK
  <2>2. CASE s # link /\ link # NoStream
    <3>1. PICK x \in Streams : x = link  BY <1>1, <2>2 DEF NetOK
    <3>2. OnLink(x) /\ \A n \in AckOf(Inbox(x)) : AckAt(x, n)
      BY <2>2, <3>1 DEF CoreInv, LinkOK
    <3>3. /\ stream'[x] = stream[x] /\ commands'[x] = commands[x] /\ uplink'[x] = uplink[x]
      BY <1>5, <1>6, <2>2, <3>1 DEF Others
    <3>4. Inbox(x)' = Inbox(x) /\ stream[x].stage \notin Attached
      BY <1>2, <1>7, <3>3 DEF Inbox
    <3>5. OnLink(x)'
      BY <1>2, <3>2, <3>3, <3>4 DEF OnLink, Under, Attached
    <3>6. ASSUME NEW n \in AckOf(Inbox(x)) PROVE AckAt(x, n)'
      <4>1. AckAt(x, n)  BY <3>2
      <4>2. Held' = n \/ (lapses' # {} /\ Held' = 0)
        BY <1>4, <4>1 DEF AckAt
      <4>3. QED  BY <1>2, <3>3, <3>4, <4>1, <4>2 DEF AckAt
    <3>7. QED  BY <1>2, <3>1, <3>4, <3>5, <3>6 DEF LinkOK
  <2>3. CASE s = link
    <3>1. OnLink(s)  BY <2>3, NoStreamDistinct DEF CoreInv, LinkOK
    <3>2. agent.pc = "calling" /\ agent.config = NoConfiguration
      BY <1>5, <3>1 DEF OnLink
    <3>3. commands'[s] = <<>>  BY <1>1, <1>5 DEF NetOK
    <3>4. Inbox(s)' = <<>>  BY <1>5, <3>3 DEF Inbox, Attached
    <3>5. ~ Under(s, "hello")'  BY <1>6 DEF Under
    <3>6. generation' = agent'.gen  BY <1>2, <1>4, <1>5, <2>3
    <3>7. OnLink(s)'
      BY <1>2, <1>5, <1>6, <3>2, <3>3, <3>4, <3>5, <3>6, QueueEmpty DEF OnLink
    <3>8. QED  BY <1>2, <2>3, <3>4, <3>7, QueueEmpty DEF LinkOK
  <2>4. QED  BY <2>1, <2>2, <2>3
<1>13. TakenOK'
  <2>1. CASE s = link  BY <1>2, <1>4, <1>5, <2>1 DEF TakenOK
  <2>2. CASE s # link
    <3>1. link # NoStream => Inbox(link)' = Inbox(link)
      BY <1>1, <1>2, <1>5, <2>2 DEF NetOK, Inbox, Others
    <3>2. Greeted' => Greeted  BY <1>2, <3>1 DEF Greeted
    <3>3. QED  BY <1>2, <1>4, <3>2, TakenSame DEF TakenOK, CoreInv
  <2>3. QED  BY <2>1, <2>2
<1>14. QED  BY <1>8, <1>9, <1>10, <1>11, <1>12, <1>13 DEF CoreInv

\* A message read or lost with nothing done about it.
LEMMA LostCore ==
  ASSUME IInv, CoreInv, NEW s \in Streams, s # link, Read(s), UNCHANGED hub,
         UNCHANGED <<agent, link, leftover, log, lapses>>
  PROVE  CoreInv'
<1>1. /\ AgentOK /\ NetOK /\ TypeOK  BY DEF CoreInv, IInv
<1>2. SameCursor /\ stream' = stream /\ commands' = commands  BY HubSame
<1>3. Watching /\ Others(s)  BY <1>2 DEF Watching, Others
<1>4. /\ uplink' \in [Streams -> {<<>>} \cup {<<m>> : m \in Msg}]
      /\ uplink'[s] = <<>> /\ \A t \in Streams \ {s} : uplink'[t] = uplink[t]
      /\ \A t \in Streams : uplink'[t] \in {uplink[t], <<>>}
  BY <1>1, ReadIs
<1>5. NetOK'  BY <1>1, <1>2, <1>4, NetStep DEF NetOK
<1>6. QED  BY <1>3, <1>4, <1>5, QuietCore

LEMMA RefusesCore ==
  ASSUME IInv, CoreInv, NEW s \in Streams, HubRefusesHello(s)
  PROVE  CoreInv'
<1>1. /\ AgentOK /\ NetOK /\ CursorOK /\ TypeOK  BY DEF CoreInv, IInv
<1>2. Refusal(s) /\ Read(s) /\ UNCHANGED hub /\ UNCHANGED <<leftover, log, lapses>>
  BY DEF HubRefusesHello
<1>3. CASE s # link
  <2>1. UNCHANGED <<agent, link, leftover, log, lapses>>  BY <1>2, <1>3 DEF Refusal
  <2>2. QED  BY <1>2, <1>3, <2>1, LostCore
<1>4. CASE s = link
  <2>1. PICK r \in {"watchlist", "occupied"} : Exit(r) /\ link' = NoStream
    BY <1>2, <1>4 DEF Refusal
  <2>2. r \in Fates \ {"alive"}  BY DEF Fates
  <2>3. AgentOK' /\ Steady /\ agent'.tried = agent.tried /\ agent'.pc = "exited"
    BY <1>1, <2>1, <2>2, ExitIs
  <2>4. SameCursor /\ stream' = stream /\ commands' = commands  BY <1>2, HubSame
  <2>5. /\ uplink' \in [Streams -> {<<>>} \cup {<<m>> : m \in Msg}]
        /\ \A t \in Streams : uplink'[t] \in {uplink[t], <<>>}
    BY <1>1, <1>2, ReadIs
  <2>6. NetOK'
    BY <1>1, <1>2, <2>1, <2>3, <2>4, <2>5, NetStep DEF NetOK
  <2>7. LateOK'  BY <2>1, <2>3, <2>4, <2>5, LeaveLate
  <2>8. CursorOK'  BY <1>1, <1>2, <2>3, <2>4, CursorSame
  <2>9. TakenOK'  BY <2>1, <2>3 DEF TakenOK, Greeted
  <2>10. QED  BY <2>1, <2>3, <2>6, <2>7, <2>8, <2>9 DEF CoreInv, LinkOK
<1>5. QED  BY <1>3, <1>4

LEMMA FailsCore ==
  ASSUME IInv, CoreInv, NEW s \in Streams, NetworkFails(s)
  PROVE  CoreInv'
<1>1. SameCursor /\ stream' = stream /\ commands' = commands
  BY FailIs DEF NetworkFails
<1>2. Watching /\ uplink' = uplink /\ leftover' = leftover
  BY <1>1 DEF NetworkFails, Watching, network
<1>3. QED  BY <1>1, <1>2, SameCore

\* The new process of the server knows nothing, and nothing is under way to it.
LEMMA RestartsCore ==
  ASSUME IInv, CoreInv, ServerRestarts
  PROVE  CoreInv'
<1>1. /\ AgentOK /\ NetOK /\ CursorOK /\ TypeOK  BY DEF CoreInv, IInv
<1>2. /\ agent' = agent /\ link' = link /\ log' = <<>> /\ lapses' # {}
      /\ generation' = 0 /\ latest' = 0
      /\ \A t \in Streams : /\ uplink'[t] = <<>> /\ leftover'[t] = <<>> /\ commands'[t] = <<>>
                            /\ stream'[t].stage = IF stream[t].stage = "idle" THEN "idle" ELSE "closed"
      /\ uplink' \in [Streams -> {<<>>} \cup {<<m>> : m \in Msg}]
      /\ leftover' \in [Streams -> Seq(Command)]
  BY DEF ServerRestarts
<1>3. agent.gen \in Nat /\ agent.gen >= 1  BY <1>1, AgentTypes
<1>4. AgentOK'  BY <1>1, <1>2 DEF AgentOK
<1>5. NetOK'
  BY <1>1, <1>2 DEF NetOK
<1>6. CursorOK'
  <2>1. Held' = 0  BY <1>2, <1>3 DEF Held
  <2>2. Frames' = {}  BY <1>2 DEF Frames
  <2>3. QED  BY <1>2, <2>1, <2>2 DEF CursorOK
<1>7. LateOK'  BY <1>2 DEF LateOK, Under
<1>8. LinkOK'
  <2> SUFFICES ASSUME NEW x \in Streams, x = link, x # NoStream
               PROVE  OnLink(x)' /\ \A n \in AckOf(Inbox(x))' : AckAt(x, n)'
    BY <1>1, <1>2 DEF LinkOK, NetOK
  <2>1. OnLink(x)  BY DEF CoreInv, LinkOK
  <2>2. Inbox(x)' = <<>>  BY <1>2 DEF Inbox
  <2>3. OnLink(x)'
    <3>1. ~ Under(x, "hello")'  BY <1>2 DEF Under
    <3>2. /\ stream'[x].stage \in {"idle", "closed"} /\ uplink'[x] = <<>> /\ agent' = agent
          /\ stream'[x].stage = "idle" => stream[x].stage = "idle"
      BY <1>2
    <3>3. QED  BY <2>1, <2>2, <3>1, <3>2, QueueEmpty DEF OnLink, Attached
  <2>4. QED  BY <2>2, <2>3, QueueEmpty
<1>9. TakenOK'  BY <1>2 DEF TakenOK
<1>10. QED  BY <1>4, <1>5, <1>6, <1>7, <1>8, <1>9 DEF CoreInv

-----------------------------------------------------------------------------
(* The hub's own invariants, in this composition *)

\* Every step but the restart of the server is one of the hub's, or leaves it
\* alone: what the agent says is what the hub's model expects to be told.
LEMMA StepOfHub ==
  ASSUME CoreInv, AHNext, ~ ServerRestarts
  PROVE  [HubNext]_vars
<1>1. NetOK  BY DEF CoreInv
<1>2. ASSUME NEW s \in Streams, AgentReads(s) PROVE [HubNext]_vars
  <2>1. ReceiveCommand(s) => Next  BY DEF Next, AgentStep
  <2>2. QED  BY <1>2, <2>1 DEF AgentReads, HubNext, hub
<1>3. ASSUME NEW s \in Streams, HubConnects(s) PROVE AnyHello
  <2>1. /\ Head(uplink[s]).gen \in Generations /\ Head(uplink[s]).watch \in Watchlist
    BY <1>1, <1>3 DEF HubConnects, NetOK, Under, Msg
  <2>2. ConnectAgent(s, Head(uplink[s]).gen, Head(uplink[s]).watch)  BY <1>3 DEF HubConnects
  <2>3. QED  BY <2>1, <2>2 DEF AnyHello
<1>4. ASSUME NEW s \in Streams, HubReadsEvent(s) PROVE Next
  <2> DEFINE m == Head(uplink[s])
             event == [gen |-> m.gen, seq |-> m.seq, size |-> 1]
  <2>1. m.gen \in Generations /\ m.seq \in 1..MaxSequence
    BY <1>1, <1>4 DEF HubReadsEvent, NetOK, Under, Msg
  <2>2. event \in AgentEvents  BY <2>1, UnitSize DEF AgentEvents
  <2>3. Publish(s, event) \/ RefuseEvent(s, event)  BY <1>4 DEF HubReadsEvent
  <2> HIDE DEF event
  <2>4. QED  BY <2>2, <2>3 DEF Next, StreamStep
<1>5. ASSUME NEW s \in Streams, HubReadsHeartbeat(s) PROVE Next
  <2> DEFINE m == Head(uplink[s])
             cursor == [gen |-> m.gen, seq |-> m.seq]
  <2>1. m.gen \in Generations /\ m.seq \in 0..MaxSequence
    BY <1>1, <1>5 DEF HubReadsHeartbeat, NetOK, Under, Msg
  <2>2. cursor \in Cursors  BY <2>1 DEF Cursors
  <2>3. Heartbeat(s, cursor) \/ RefuseHeartbeat(s, cursor)  BY <1>5 DEF HubReadsHeartbeat
  <2> HIDE DEF cursor
  <2>4. QED  BY <2>2, <2>3 DEF Next, StreamStep
<1>6. HubMoves => Next
  BY DEF HubMoves, Next, StreamStep
<1>7. \A s \in Streams : HubDisconnects(s) \/ NetworkFails(s) => Next
  BY DEF HubDisconnects, NetworkFails, Next, StreamStep, AgentStep
<1>8. \A s \in Streams : AgentDials(s) \/ AgentLosesSession(s) \/ HubRefusesHello(s) \/ MessageLost(s)
        => UNCHANGED vars
  BY DEF AgentDials, AgentLosesSession, HubRefusesHello, MessageLost, hub
<1>9. AgentMoves \/ AgentSends => UNCHANGED vars
  BY DEF AgentMoves, AgentSends, hub
<1>10. QED
  BY <1>2, <1>3, <1>4, <1>5, <1>6, <1>7, <1>8, <1>9 DEF AHNext, HubNext

LEMMA RestartHub ==
  ASSUME IInv, ServerRestarts
  PROVE  IInv'
<1>1. TypeOK  BY DEF IInv
<1>2. TypeOK'
  <2>1. /\ generation' \in 0..MaxGeneration /\ latest' \in 0..MaxSequence
        /\ replay' \in Seq(Envelope) /\ replayBytes' \in Nat
        /\ agentSession' \in Nat /\ nextSession' \in Nat \ {0}
        /\ localSequence' \in 0..MaxLocal /\ telemetry' \in Telemetry
        /\ commands' \in [Streams -> Seq(Command)]
        /\ localPending' \in [Publishers -> Seq(Envelope)]
        /\ sent' \in Seq(Envelope) /\ since' \in Nat
    BY BoundsNatural DEF ServerRestarts, Telemetry
  <2>2. desired' \in Watchlist /\ applied' \in Watchlist
    BY DEF ServerRestarts, NoConfiguration, Watchlist
  <2>3. stream' \in [Streams -> StreamRecord]
    <3>1. NoConfiguration \in Watchlist  BY DEF NoConfiguration, Watchlist
    <3>2. \A s \in Streams :
            [stage |-> IF stream[s].stage = "idle" THEN "idle" ELSE "closed", session |-> 0,
             gen |-> 0, config |-> NoConfiguration, told |-> {}, outgoing |-> NoEvent] \in StreamRecord
      BY <3>1 DEF StreamRecord, Stages
    <3>3. QED  BY <3>2 DEF ServerRestarts
  <2>4. client' \in [Streams -> {"up", "silent", "gone"}]
    BY <1>1 DEF ServerRestarts, TypeOK
  <2>5. subscriber' \in [Subscribers -> SubscriberRecord]
    BY DEF ServerRestarts, SubscriberRecord, NoCursor, Cursor
  <2>6. QED  BY <2>1, <2>2, <2>3, <2>4, <2>5 DEF TypeOK
<1>3. SessionInv'  BY DEF ServerRestarts, SessionInv, Attached
<1>4. ReplayWindow'
  <2>1. replay' = <<>> /\ replayBytes' = 0 /\ latest' = 0  BY DEF ServerRestarts
  <2>2. Bytes(replay)' = 0  BY <2>1, BytesEmpty
  <2>3. QED  BY <2>1, <2>2, LimitsPositive DEF ReplayWindow
<1>5. QED  BY <1>2, <1>3, <1>4 DEF IInv

LEMMA InitCore == AHInit => IInv /\ CoreInv
<1> SUFFICES ASSUME AHInit PROVE IInv /\ CoreInv  OBVIOUS
<1>1. IInv  BY InitType, InitSession DEF AHInit, IInv
<1>2. AgentOK  BY InitAgent DEF AHInit
<1>3. /\ link = NoStream /\ uplink = [s \in Streams |-> <<>>] /\ leftover = [s \in Streams |-> <<>>]
      /\ log = <<>> /\ agent.pc = "offline" /\ generation = 0 /\ commands = [s \in Streams |-> <<>>]
      /\ agent.accepted = 0
  BY DEF AHInit, Init, AgentInit
<1>4. agent.gen \in Nat /\ agent.gen >= 1  BY <1>2, AgentTypes
<1>5. NetOK
  BY <1>3 DEF NetOK
<1>6. LinkOK  BY <1>3 DEF LinkOK
<1>7. LateOK  BY <1>3 DEF LateOK, Under
<1>8. CursorOK
  <2>1. Held = 0  BY <1>3, <1>4 DEF Held
  <2>2. Frames = {}  BY <1>3 DEF Frames
  <2>3. QED  BY <1>3, <2>1, <2>2 DEF CursorOK
<1>9. TakenOK  BY <1>3, NotGreeted
<1>10. QED  BY <1>1, <1>2, <1>5, <1>6, <1>7, <1>8, <1>9 DEF CoreInv

LEMMA CoreStep == IInv /\ CoreInv /\ [AHNext]_all => IInv' /\ CoreInv'
<1> SUFFICES ASSUME IInv, CoreInv, [AHNext]_all PROVE IInv' /\ CoreInv'  OBVIOUS
<1>0. AgentOK  BY DEF CoreInv
<1>1. IInv'
  <2>1. CASE ServerRestarts  BY <2>1, RestartHub
  <2>2. CASE AHNext /\ ~ ServerRestarts
    BY <2>2, StepOfHub, HubStep
  <2>3. CASE UNCHANGED all
    <3>1. UNCHANGED vars  BY <2>3 DEF all
    <3>2. QED  BY <3>1, HubStep
  <2>4. QED  BY <2>1, <2>2, <2>3
<1>2. ASSUME NEW s \in Streams, AgentDials(s) PROVE CoreInv'
  <2>1. AgentOK'  BY <1>0, <1>2, DialIs DEF AgentDials
  <2>2. QED  BY <1>2, <2>1, DialsCore
<1>3. ASSUME NEW s \in Streams, AgentLosesSession(s) PROVE CoreInv'
  <2>1. AgentOK'  BY <1>0, <1>3, LoseIs DEF AgentLosesSession
  <2>2. QED  BY <1>3, <2>1, LosesCore
<1>4. CASE AgentMoves
  <2>1. AgentOK'
    <3>1. CASE TakeFrame  BY <1>0, <3>1, TakeIs
    <3>2. CASE TakeFirstOfGeneration  BY <1>0, <3>2, TakeFirstIs
    <3>3. CASE RestartMonitor
      <4>1. agent.watch \in Watchlist  BY <1>0 DEF AgentOK, AgentRecord
      <4>2. QED  BY <1>0, <3>3, <4>1, RestartIs, ReplacedIs
    <3>4. QED  BY <1>4, <3>1, <3>2, <3>3 DEF AgentMoves
  <2>2. QED  BY <1>1, <1>4, <2>1, MovesCore
<1>5. CASE AgentSends
  <2>1. AgentOK'  BY <1>0, <1>5, SendIs DEF AgentSends
  <2>2. QED  BY <1>1, <1>5, <2>1, SendsCore
<1>6. ASSUME NEW s \in Streams, MessageLost(s) PROVE CoreInv'
  <2>1. s # link /\ Read(s) /\ UNCHANGED hub /\ UNCHANGED <<agent, link, leftover, log, lapses>>
    BY <1>6 DEF MessageLost
  <2>2. QED  BY <2>1, LostCore
<1>7. CASE UNCHANGED all
  <2>1. UNCHANGED vars /\ UNCHANGED <<agent, link, uplink, leftover, log, lapses>>
    BY <1>7 DEF all, network
  <2>2. SameCursor /\ stream' = stream /\ commands' = commands  BY <2>1, HubSame DEF hub
  <2>3. QED  BY <1>1, <2>1, <2>2, SameCore DEF Watching
<1>8. QED
  BY <1>1, <1>2, <1>3, <1>4, <1>5, <1>6, <1>7, ReadsCore, ConnectsCore, RefusesCore, EventCore,
     BeatCore, DisconnectsCore, FailsCore, HubMovesCore, RestartsCore DEF AHNext

THEOREM CoreInvariance == AHSpec => [](IInv /\ CoreInv)
<1>1. AHInit => IInv /\ CoreInv  BY InitCore
<1>2. (IInv /\ CoreInv) /\ [AHNext]_all => (IInv /\ CoreInv)'  BY CoreStep
<1>3. QED  BY <1>1, <1>2, PTL DEF AHSpec

\* What the agent's record says of its fields, whatever happens.
THEOREM AgentTypeCorrect == AHSpec => []AgentTypeOK
<1>1. IInv /\ CoreInv => AgentTypeOK  BY DEF CoreInv, AgentOK, AgentTypeOK
<1>2. QED  BY <1>1, CoreInvariance, PTL

-----------------------------------------------------------------------------
(* The abstract specification of the frames *)

\* The step is none of FrameDelivery's.
LEMMA DeliveryStutter ==
  ASSUME agent'.gen = agent.gen, agent'.accepted = agent.accepted,
         agent'.released = agent.released, log' = log, lapses' = lapses
  PROVE  [Delivery!Next]_(Delivery!vars)
BY DEF Delivery!vars

LEMMA DeliveryBegin ==
  ASSUME AgentOK, agent'.gen # agent.gen, agent'.accepted = 0,
         agent'.released \in {agent.released, agent.released + 1}, log' = log, lapses' = lapses
  PROVE  [Delivery!Next]_(Delivery!vars)
<1>1. agent.released \in Nat  BY AgentTypes
<1>2. agent'.released - agent'.accepted = agent'.released
  BY <1>1
<1>3. Delivery!Begin  BY <1>2 DEF Delivery!Begin
<1>4. QED  BY <1>3 DEF Delivery!Next

\* The frames of the agent's generation that the abstract log shows.
LEMMA PublishedIs ==
  ASSUME AgentOK, NetOK, CursorOK
  PROVE  Delivery!Published = Frames
<1>1. /\ agent.released \in Nat /\ agent.accepted \in Nat /\ agent.accepted <= agent.released
      /\ agent.pending # 0 => agent.pending = agent.accepted + 1
  BY AgentTypes
<1>2. Frames \subseteq (Begun + 1)..(agent.released + 1)
  <2>1. PICK b \in Int : b = Begun  BY <1>1 DEF Begun
  <2>2. CASE Frames = (Begun + 1)..agent.released  BY <1>1, <2>1, <2>2
  <2>3. QED  BY <2>2 DEF CursorOK
<1>3. ASSUME NEW n \in (Begun + 1)..(agent.released + 1)
      PROVE  (\E i \in DOMAIN log : log[i] = Delivery!Entry(n)) <=> n \in Frames
  <2>1. n > Begun  BY <1>1 DEF Begun
  <2>2. ASSUME NEW i \in DOMAIN log
        PROVE  log[i] = Delivery!Entry(n) <=> log[i].gen = agent.gen /\ log[i].frame = n
    <3>1. log \in Seq([gen : Nat, frame : Nat]) /\ i \in 1..Len(log)  BY DEF NetOK
    <3>2. log[i] \in [gen : Nat, frame : Nat]  BY <3>1, ElementOfSeq
    <3>3. QED  BY <3>2 DEF Delivery!Entry
  <2>3. QED  BY <2>1, <2>2 DEF Frames
<1>4. Delivery!Published =
        {n \in (Begun + 1)..(agent.released + 1) : \E i \in DOMAIN log : log[i] = Delivery!Entry(n)}
  BY DEF Delivery!Published, Begun
<1>5. QED  BY <1>2, <1>3, <1>4

LEMMA DeliveryRelease ==
  ASSUME AgentOK, NetOK, CursorOK, agent.pending # 0,
         \E k \in DOMAIN log : log[k] = [gen |-> agent.gen, frame |-> agent.released + 1],
         agent'.gen = agent.gen, agent'.accepted = agent.pending,
         agent'.released = agent.released + 1, log' = log, lapses' = lapses
  PROVE  [Delivery!Next]_(Delivery!vars)
<1>1. /\ agent.released \in Nat /\ agent.accepted \in Nat /\ agent.pending = agent.accepted + 1
  BY AgentTypes
<1>2. agent.released + 1 \in Delivery!Published
  <2>1. agent.released + 1 > Begun  BY <1>1 DEF Begun
  <2>2. QED  BY <2>1, PublishedIs DEF Frames
<1>3. agent'.released - agent'.accepted = agent.released - agent.accepted  BY <1>1
<1>4. Delivery!Release  BY <1>2, <1>3 DEF Delivery!Release
<1>5. QED  BY <1>4 DEF Delivery!Next

\* publish: the next frame, or the first once more if the hub has forgotten it.
LEMMA DeliveryPublish ==
  ASSUME AgentOK, NetOK, CursorOK, TypeOK, agent.pending # 0, generation = agent.gen,
         latest = agent.accepted, agent' = agent, lapses' = lapses,
         log' = Append(log, [gen |-> agent.gen, frame |-> agent.released + 1])
  PROVE  [Delivery!Next]_(Delivery!vars)
<1>1. /\ agent.released \in Nat /\ agent.accepted \in Nat /\ agent.accepted <= agent.released
      /\ agent.pending = agent.accepted + 1
  BY AgentTypes
<1>2. PICK b \in Nat : b = Begun /\ agent.released = b + agent.accepted
  BY <1>1 DEF Begun
<1>3. Held = agent.accepted  BY DEF Held
<1>4. log' = Append(log, Delivery!Entry(agent.released + 1))  BY DEF Delivery!Entry
<1>5. CASE Frames = (b + 1)..agent.released
  <2>1. Delivery!Published = (agent.released - agent.accepted + 1)..agent.released
    BY <1>2, <1>5, PublishedIs DEF Begun
  <2>2. Delivery!Publish  BY <1>4, <2>1 DEF Delivery!Publish
  <2>3. QED  BY <2>2 DEF Delivery!Next
<1>6. CASE ~ (Frames = (b + 1)..agent.released)
  <2>1. agent.accepted = 0
    <3> SUFFICES ASSUME agent.accepted # 0 PROVE FALSE  OBVIOUS
    <3>1. Held > 0  BY <1>1, <1>3
    <3>2. Frames = (Begun + 1)..(Begun + Held)  BY <3>1 DEF CursorOK
    <3>3. QED  BY <1>2, <1>3, <1>6, <3>2
  <2>2. agent.released = b /\ (b + 1)..agent.released = {}  BY <1>2, <2>1
  <2>3. Frames = (b + 1)..(agent.released + 1)
    BY <1>2, <1>6, <2>2 DEF CursorOK
  <2>4. Frames = {b + 1}  BY <2>2, <2>3
  <2>5. lapses # {}  BY <1>3, <2>1, <2>4 DEF CursorOK
  <2>6. Delivery!Repeat
    <3>1. agent.released - agent.accepted = agent.released  BY <1>1, <2>1
    <3>2. Delivery!Published = {agent.released + 1}  BY <2>2, <2>4, PublishedIs
    <3>3. QED  BY <1>4, <2>5, <3>1, <3>2 DEF Delivery!Repeat
  <2>7. QED  BY <2>6 DEF Delivery!Next
<1>7. QED  BY <1>5, <1>6

LEMMA DeliveryForget ==
  ASSUME agent' = agent, lapses' # {}, log' \in {log, <<>>}
  PROVE  [Delivery!Next]_(Delivery!vars)
<1>1. Delivery!Forget  BY DEF Delivery!Forget
<1>2. QED  BY <1>1 DEF Delivery!Next

\* A command is a stutter, the release of the frame, or a new generation.
LEMMA DeliveryReads ==
  ASSUME IInv, CoreInv, NEW s \in Streams, AgentReads(s)
  PROVE  [Delivery!Next]_(Delivery!vars)
<1>1. /\ AgentOK /\ NetOK /\ CursorOK /\ TypeOK  BY DEF CoreInv, IInv
<1>2. /\ link = s /\ s # NoStream /\ log' = log /\ lapses' = lapses
      /\ Inbox(s) \in Seq(Command) /\ Inbox(s) # <<>> /\ OnCommand(Head(Inbox(s)))
  BY <1>1, ReadsIs
<1> DEFINE cmd == Head(Inbox(s))
<1>3. cmd \in Command /\ OnCommand(cmd) /\ (cmd.type = "ack" => AckAt(s, cmd.seq))
  <2>1. \A n \in AckOf(Inbox(s)) : AckAt(s, n)  BY <1>2 DEF CoreInv, LinkOK
  <2>2. QED  BY <1>2, <2>1, QueueRead
<1> HIDE DEF cmd
<1>4. agent.fate = "alive" /\ agent.config \in Watchlist
  BY <1>1, <1>3, CommandCases DEF AgentOK, AgentRecord
<1>5. ASSUME NEW r, r \in {"stopped", "stale", "contradictory", "sequence", "acknowledgement"},
             Exit(r)
      PROVE  [Delivery!Next]_(Delivery!vars)
  <2>1. r \in Fates \ {"alive"}  BY <1>5 DEF Fates
  <2>2. Steady  BY <1>1, <1>5, <2>1, ExitIs
  <2>3. QED  BY <1>2, <2>2, DeliveryStutter DEF Steady
<1>6. CASE cmd.type = "stop"  BY <1>1, <1>3, <1>5, <1>6, CommandCases
<1>7. CASE cmd.type = "ack"
  <2>1. CASE Exit("acknowledgement") \/ Exit("sequence")  BY <1>5, <2>1
  <2>2. CASE /\ agent.pc \in {"calling", "event"} /\ agent.pending # 0 /\ cmd.seq = agent.pending
             /\ ReadyAgain(Settled(agent))
    <3>1. /\ agent'.gen = agent.gen /\ agent'.accepted = agent.pending
          /\ agent'.released = agent.released + 1
      BY <1>1, <2>2, SettledReadyIs
    <3>2. \E k \in DOMAIN log : log[k] = [gen |-> agent.gen, frame |-> agent.released + 1]
      BY <1>3, <1>7, <2>2 DEF AckAt
    <3>3. QED  BY <1>1, <1>2, <2>2, <3>1, <3>2, DeliveryRelease
  <2>3. CASE /\ agent.pc \in {"calling", "event"} /\ agent.pending # 0 /\ cmd.seq = agent.pending
             /\ Replaced(Settled(agent), agent.config)
    <3>1. agent'.gen # agent.gen /\ agent'.accepted = 0 /\ agent'.released = agent.released + 1
      BY <1>1, <1>4, <2>3, SettledReplacedIs
    <3>2. QED  BY <1>1, <1>2, <3>1, DeliveryBegin
  <2>4. CASE agent.pc \in {"calling", "beat"} /\ ReadyAgain(agent)
    <3>1. Steady  BY <1>1, <2>4, ReadyIs
    <3>2. QED  BY <1>2, <3>1, DeliveryStutter DEF Steady
  <2>5. CASE agent.pc \in {"calling", "beat"} /\ Replaced(agent, agent.config)
    <3>1. /\ agent'.gen # agent.gen /\ agent'.accepted = 0
          /\ agent'.released \in {agent.released, agent.released + 1}
      BY <1>1, <1>4, <2>5, ReplacedIs
    <3>2. QED  BY <1>1, <1>2, <3>1, DeliveryBegin
  <2>6. QED  BY <1>1, <1>3, <1>7, <2>1, <2>2, <2>3, <2>4, <2>5, CommandCases
<1>8. CASE cmd.type = "configure"
  <2>0. Named(cmd) \in Watchlist  BY <1>3, <1>8, NamedType
  <2>1. CASE Exit("stale") \/ Exit("contradictory")  BY <1>5, <2>1
  <2>2. CASE UNCHANGED agent  BY <1>2, <2>2, DeliveryStutter
  <2>3. CASE Replaced(agent, Named(cmd))
    <3>1. /\ agent'.gen # agent.gen /\ agent'.accepted = 0
          /\ agent'.released \in {agent.released, agent.released + 1}
      BY <1>1, <1>4, <2>0, <2>3, ReplacedIs
    <3>2. QED  BY <1>1, <1>2, <3>1, DeliveryBegin
  <2>4. CASE agent.pc \in {"calling", "event", "beat"} /\ agent' = [agent EXCEPT !.config = Named(cmd)]
    <3>1. Steady  BY <1>1, <2>0, <2>4, AbsorbIs
    <3>2. QED  BY <1>2, <3>1, DeliveryStutter DEF Steady
  <2>5. QED  BY <1>1, <1>3, <1>8, <2>1, <2>2, <2>3, <2>4, CommandCases
<1>9. QED  BY <1>1, <1>3, <1>6, <1>7, <1>8, CommandCases

LEMMA DeliveryStep ==
  IInv /\ CoreInv /\ [AHNext]_all => [Delivery!Next]_(Delivery!vars)
<1> SUFFICES ASSUME IInv, CoreInv, [AHNext]_all PROVE [Delivery!Next]_(Delivery!vars)
  OBVIOUS
<1>1. /\ AgentOK /\ NetOK /\ CursorOK /\ TypeOK  BY DEF CoreInv, IInv
<1>2. ASSUME NEW s \in Streams, AgentDials(s) \/ AgentLosesSession(s)
      PROVE  [Delivery!Next]_(Delivery!vars)
  <2>1. Steady /\ log' = log /\ lapses' = lapses
    BY <1>1, <1>2, DialIs, LoseIs DEF AgentDials, AgentLosesSession
  <2>2. QED  BY <2>1, DeliveryStutter DEF Steady
<1>3. CASE AgentSends
  <2>1. Steady /\ log' = log /\ lapses' = lapses
    BY <1>1, <1>3, SendIs DEF AgentSends
  <2>2. QED  BY <2>1, DeliveryStutter DEF Steady
<1>4. CASE AgentMoves
  <2>0. log' = log /\ lapses' = lapses  BY <1>4 DEF AgentMoves
  <2>1. CASE TakeFrame
    <3>1. /\ agent'.gen = agent.gen /\ agent'.accepted = agent.accepted
          /\ agent'.released = agent.released
      BY <1>1, <2>1, TakeIs
    <3>2. QED  BY <2>0, <3>1, DeliveryStutter
  <2>2. CASE TakeFirstOfGeneration
    <3>1. agent'.gen # agent.gen /\ agent'.accepted = 0 /\ agent'.released = agent.released
      BY <1>1, <2>2, TakeFirstIs
    <3>2. QED  BY <1>1, <2>0, <3>1, DeliveryBegin
  <2>3. CASE RestartMonitor
    <3>1. agent.watch \in Watchlist  BY <1>1 DEF AgentOK, AgentRecord
    <3>2. /\ agent'.gen # agent.gen /\ agent'.accepted = 0
          /\ agent'.released \in {agent.released, agent.released + 1}
      BY <1>1, <2>3, <3>1, RestartIs, ReplacedIs
    <3>3. QED  BY <1>1, <2>0, <3>2, DeliveryBegin
  <2>4. QED  BY <1>4, <2>1, <2>2, <2>3 DEF AgentMoves
<1>5. ASSUME NEW s \in Streams, HubConnects(s) PROVE [Delivery!Next]_(Delivery!vars)
  <2>1. agent' = agent /\ log' = log /\ (lapses' = lapses \/ lapses' # {})
    BY <1>5 DEF HubConnects
  <2>2. QED  BY <2>1, DeliveryStutter, DeliveryForget
<1>6. ASSUME NEW s \in Streams, HubRefusesHello(s) PROVE [Delivery!Next]_(Delivery!vars)
  <2>1. log' = log /\ lapses' = lapses
        /\ (agent' = agent \/ \E r \in {"watchlist", "occupied"} : Exit(r))
    BY <1>6 DEF HubRefusesHello, Refusal
  <2>2. {"watchlist", "occupied"} \subseteq Fates \ {"alive"}  BY DEF Fates
  <2>3. agent'.gen = agent.gen /\ agent'.accepted = agent.accepted /\ agent'.released = agent.released
    BY <1>1, <2>1, <2>2, ExitIs DEF Steady
  <2>4. QED  BY <2>1, <2>3, DeliveryStutter
<1>7. ASSUME NEW s \in Streams, HubReadsEvent(s) PROVE [Delivery!Next]_(Delivery!vars)
  <2>1. agent' = agent /\ lapses' = lapses  BY <1>7 DEF HubReadsEvent
  <2>2. \/ /\ agent.pending # 0 /\ generation = agent.gen /\ latest = agent.accepted
           /\ log' = Append(log, [gen |-> agent.gen, frame |-> agent.released + 1])
        \/ log' = log
    BY <1>7, EventIs
  <2>3. QED  BY <1>1, <2>1, <2>2, DeliveryPublish, DeliveryStutter
<1>8. ASSUME NEW s \in Streams,
             MessageLost(s) \/ HubReadsHeartbeat(s) \/ HubDisconnects(s) \/ NetworkFails(s)
      PROVE  [Delivery!Next]_(Delivery!vars)
  <2>1. agent' = agent /\ log' = log /\ lapses' = lapses
    BY <1>8 DEF MessageLost, HubReadsHeartbeat, HubDisconnects, NetworkFails
  <2>2. QED  BY <2>1, DeliveryStutter
<1>9. CASE HubMoves \/ UNCHANGED all
  <2>1. agent' = agent /\ log' = log /\ lapses' = lapses
    BY <1>9 DEF HubMoves, all
  <2>2. QED  BY <2>1, DeliveryStutter
<1>10. CASE ServerRestarts
  <2>1. agent' = agent /\ log' = <<>> /\ lapses' # {}  BY <1>10 DEF ServerRestarts
  <2>2. QED  BY <2>1, DeliveryForget
<1>11. QED
  BY <1>2, <1>3, <1>4, <1>5, <1>6, <1>7, <1>8, <1>9, <1>10, DeliveryReads DEF AHNext

LEMMA DeliveryInit == AHInit => Delivery!Init
BY DEF AHInit, AgentInit, Delivery!Init

THEOREM FramesAreDelivered == AHSpec => FramesDelivered
<1>1. AHInit => Delivery!Init  BY DeliveryInit
<1>2. IInv /\ CoreInv /\ [AHNext]_all => [Delivery!Next]_(Delivery!vars)  BY DeliveryStep
<1>3. QED  BY <1>1, <1>2, CoreInvariance, PTL DEF AHSpec, FramesDelivered, Delivery!Spec

-----------------------------------------------------------------------------
(* Watchlists *)

\* The configurations the agent has or is to read on its call.
Mine ==
  {agent.watch} \cup ({agent.config} \ {NoConfiguration})
    \cup (IF link = NoStream THEN {}
          ELSE Confs(Inbox(link)) \cup ({stream[link].config} \ {NoConfiguration}))

\* A configuration the hub has sent, or the agent's, while the hub has one: not
\* a newer one, and the same under the same revision.
Agrees(x) ==
  /\ x.list \in Watchlists /\ x.revision <= desired.revision
  /\ x.revision = desired.revision => x = desired

HelloOf(s) == Head(uplink[s]).watch

HelloOK ==
  /\ agent.watch.list \in Watchlists
  /\ \A s \in Streams :
       /\ Under(s, "hello") => HelloOf(s).list \in Watchlists /\ (s = link => HelloOf(s) = agent.watch)
       /\ stream[s].stage = "idle" => stream[s].config = NoConfiguration
       /\ stream[s].stage = "configuring" => stream[s].config # NoConfiguration

\* The hub, started anew, has no watchlist: nothing of it is under way, and
\* what it adopts is what the agent's monitor runs with.
UnsetOK ==
  desired.list = NoWatchlist =>
    /\ agentSession = 0
    /\ \A s \in Streams :
         /\ stream[s].stage \notin Attached \cup {"failed"}
         /\ stream[s].config = NoConfiguration /\ leftover[s] = <<>>
         /\ Under(s, "hello") => HelloOf(s) = agent.watch /\ agent.config = NoConfiguration

AgreeOK ==
  desired.list # NoWatchlist =>
    /\ \A x \in Mine : Agrees(x)
    /\ \A x, y \in Mine : x.revision = y.revision => x = y
    /\ \A s \in Streams : Under(s, "hello") => Agrees(HelloOf(s))

ConfigOK == HelloOK /\ UnsetOK /\ AgreeOK

\* The desired watchlist is the agent's, on its way, or to be sent.
ArriveOK ==
  \A s \in Streams : s = link =>
    /\ stream[s].stage \in {"serving", "broadcasting"} =>
         desired = Known \/ desired \in Confs(commands[s])
    /\ stream[s].stage \in {"greeting", "configuring"} =>
         \/ desired = Known \/ desired \in Confs(commands[s])
         \/ stream[s].config # NoConfiguration /\ desired = stream[s].config

LEMMA NoConf == NoConfiguration \in Watchlist /\ NoConfiguration.list \notin Watchlists
BY NoWatchlistDistinct DEF NoConfiguration, Watchlist

\* The agent's operations: nothing that was not known already is known after.
LEMMA AgentConfig ==
  ASSUME ConfigOK, NetOK, desired' = desired, agentSession' = agentSession, stream' = stream,
         \A t \in Streams : leftover[t] = <<>> => leftover'[t] = <<>>,
         \A t \in Streams : Under(t, "hello")' => uplink'[t] = uplink[t],
         agent'.watch \in Mine, agent'.config \in Mine \cup {agent.config, NoConfiguration},
         desired.list = NoWatchlist =>
           agent'.watch = agent.watch /\ agent'.config \in {agent.config, NoConfiguration},
         link' = NoStream \/ (link' = link /\ agent'.watch = agent.watch),
         \A t \in Streams : t = link /\ link' = link => Confs(Inbox(t))' \subseteq Confs(Inbox(t))
  PROVE  ConfigOK'
<1>1. HelloOK /\ UnsetOK /\ AgreeOK  BY DEF ConfigOK
<1>2. \A t \in Streams : Under(t, "hello")' => Under(t, "hello") /\ HelloOf(t)' = HelloOf(t)
  BY DEF Under, HelloOf
<1>3. Mine' \subseteq Mine
  <2>1. {agent'.watch} \cup ({agent'.config} \ {NoConfiguration}) \subseteq Mine
    BY DEF Mine
  <2>2. CASE link' = NoStream  BY <2>1, <2>2 DEF Mine
  <2>3. CASE link' # NoStream
    <3>1. link' = link /\ link # NoStream  BY <2>3
    <3>2. PICK x \in Streams : x = link  BY <3>1 DEF NetOK
    <3>3. Confs(Inbox(x))' \subseteq Confs(Inbox(x)) /\ stream'[x].config = stream[x].config
      BY <3>1, <3>2
    <3>4. Confs(Inbox(x)) \cup ({stream[x].config} \ {NoConfiguration}) \subseteq Mine
      BY <3>1, <3>2 DEF Mine
    <3>5. Mine' = {agent'.watch} \cup ({agent'.config} \ {NoConfiguration})
                    \cup (Confs(Inbox(x))' \cup ({stream'[x].config} \ {NoConfiguration}))
      BY <3>1, <3>2 DEF Mine
    <3>6. QED  BY <2>1, <3>3, <3>4, <3>5
  <2>4. QED  BY <2>2, <2>3
<1>4. HelloOK'
  <2>1. agent'.watch.list \in Watchlists
    <3>1. CASE desired.list = NoWatchlist  BY <1>1, <3>1 DEF HelloOK
    <3>2. CASE desired.list # NoWatchlist  BY <1>1, <3>2 DEF AgreeOK, Agrees
    <3>3. QED  BY <3>1, <3>2
  <2>2. \A t \in Streams : t = link' => t = link /\ agent'.watch = agent.watch
    BY NoStreamDistinct
  <2>3. QED  BY <1>1, <1>2, <2>1, <2>2 DEF HelloOK
<1>5. UnsetOK'
  BY <1>1, <1>2 DEF UnsetOK
<1>6. AgreeOK'
  <2>1. \A x : Agrees(x)' = Agrees(x)  BY DEF Agrees
  <2>2. QED  BY <1>1, <1>2, <1>3, <2>1 DEF AgreeOK
<1>7. QED  BY <1>4, <1>5, <1>6 DEF ConfigOK

LEMMA ArriveSame ==
  ASSUME ArriveOK, desired' = desired, stream' = stream, link' \in {link, NoStream}, Known' = Known,
         \A t \in Streams : t = link /\ link' = link /\ stream[t].stage \in Attached =>
           Confs(commands[t])' = Confs(commands[t])
  PROVE  ArriveOK'
<1>1. \A t \in Streams : t = link' => t = link /\ link' = link
  BY NoStreamDistinct
<1>2. QED  BY <1>1 DEF ArriveOK, Attached

LEMMA ArriveGone == link' = NoStream => ArriveOK'
BY NoStreamDistinct DEF ArriveOK

\* What a step of the hub on a call that it serves does to the configurations:
\* one that was to be sent is queued, or the call is over.
ConfigKept(s) ==
  /\ desired' = desired /\ agent' = agent /\ link' = link /\ Others(s)
  /\ \A t \in Streams \ {s} : leftover'[t] = leftover[t]
  /\ \A t \in Streams : uplink'[t] \in {uplink[t], <<>>}
  /\ stream[s].stage \in Attached /\ stream'[s].stage # "idle"
  /\ stream'[s].config \in {stream[s].config, NoConfiguration}
  /\ stream'[s].stage = "configuring" => stream'[s].config # NoConfiguration
  /\ s = link =>
       /\ Confs(Inbox(s))' \subseteq
            Confs(Inbox(s)) \cup (IF stream[s].stage = "configuring" THEN {stream[s].config} ELSE {})
       /\ stream'[s].stage \in {"serving", "broadcasting"} =>
            /\ Confs(commands[s]) \subseteq Confs(commands[s])'
            /\ stream[s].stage = "configuring" => stream[s].config \in Confs(commands[s])'
            /\ stream[s].stage = "greeting" => stream[s].config = NoConfiguration
            /\ stream[s].stage # "closing"
       /\ stream'[s].stage \in {"greeting", "configuring"} =>
            /\ stream[s].stage = "greeting" /\ stream'[s].config = stream[s].config
            /\ Confs(commands[s]) \subseteq Confs(commands[s])'

LEMMA KeptConfig ==
  ASSUME ConfigOK, ArriveOK, NetOK, NEW s \in Streams, ConfigKept(s)
  PROVE  ConfigOK' /\ ArriveOK'
<1>1. HelloOK /\ UnsetOK /\ AgreeOK  BY DEF ConfigOK
<1>2. desired' = desired /\ agent' = agent /\ link' = link /\ desired.list # NoWatchlist
  BY <1>1 DEF ConfigKept, UnsetOK
<1>3. \A t \in Streams : Under(t, "hello")' => Under(t, "hello") /\ HelloOf(t)' = HelloOf(t)
  BY DEF Under, HelloOf, ConfigKept
<1>4. Mine' \subseteq Mine
  <2>1. CASE link = NoStream  BY <1>2, <2>1 DEF Mine
  <2>2. CASE link # NoStream
    <3>1. PICK x \in Streams : x = link  BY <2>2 DEF NetOK
    <3>2. Confs(Inbox(x)) \cup ({stream[x].config} \ {NoConfiguration}) \subseteq Mine
      BY <2>2, <3>1 DEF Mine
    <3>3. Mine' = {agent.watch} \cup ({agent.config} \ {NoConfiguration})
                    \cup (Confs(Inbox(x))' \cup ({stream'[x].config} \ {NoConfiguration}))
      BY <1>2, <2>2, <3>1 DEF Mine
    <3>4. Confs(Inbox(x))' \subseteq Mine
      <4>1. CASE x = s
        <5>1. stream[s].stage = "configuring" => stream[s].config \in Mine
          BY <1>1, <3>2, <4>1 DEF HelloOK
        <5>2. Confs(Inbox(s))' \subseteq Mine
          BY <3>1, <3>2, <4>1, <5>1 DEF ConfigKept
        <5>3. QED  BY <4>1, <5>2
      <4>2. CASE x # s
        <5>1. Inbox(x)' = Inbox(x)  BY <4>2 DEF ConfigKept, Others, Inbox
        <5>2. QED  BY <3>2, <5>1
      <4>3. QED  BY <4>1, <4>2
    <3>5. stream'[x].config \in {stream[x].config, NoConfiguration}
      BY DEF ConfigKept, Others
    <3>6. {agent.watch} \cup ({agent.config} \ {NoConfiguration}) \subseteq Mine  BY DEF Mine
    <3>7. QED  BY <3>2, <3>3, <3>4, <3>5, <3>6
  <2>3. QED  BY <2>1, <2>2
<1>5. HelloOK'
  <2>1. \A t \in Streams : stream'[t].stage = "idle" => stream'[t].config = NoConfiguration
    BY <1>1 DEF ConfigKept, Others, HelloOK
  <2>2. \A t \in Streams : stream'[t].stage = "configuring" => stream'[t].config # NoConfiguration
    BY <1>1 DEF ConfigKept, Others, HelloOK
  <2>3. QED  BY <1>1, <1>2, <1>3, <2>1, <2>2 DEF HelloOK
<1>6. UnsetOK'  BY <1>2 DEF UnsetOK
<1>7. AgreeOK'
  <2>1. \A x : Agrees(x)' = Agrees(x)  BY <1>2 DEF Agrees
  <2>2. QED  BY <1>1, <1>2, <1>3, <1>4, <2>1 DEF AgreeOK
<1>8. ArriveOK'
  <2> SUFFICES ASSUME NEW t \in Streams, t = link
               PROVE  /\ stream'[t].stage \in {"serving", "broadcasting"} =>
                           desired = Known \/ desired \in Confs(commands[t])'
                      /\ stream'[t].stage \in {"greeting", "configuring"} =>
                           \/ desired = Known \/ desired \in Confs(commands[t])'
                           \/ stream'[t].config # NoConfiguration /\ desired = stream'[t].config
    BY <1>2 DEF ArriveOK, Known
  <2>1. CASE t # s  BY <2>1 DEF ConfigKept, Others, ArriveOK
  <2>2. CASE t = s
    <3>1. stream[s].stage \in {"serving", "broadcasting"} => desired = Known \/ desired \in Confs(commands[s])
      BY <2>2 DEF ArriveOK
    <3>2. stream[s].stage \in {"greeting", "configuring"} =>
            \/ desired = Known \/ desired \in Confs(commands[s])
            \/ stream[s].config # NoConfiguration /\ desired = stream[s].config
      BY <2>2 DEF ArriveOK
    <3>3. QED  BY <2>2, <3>1, <3>2 DEF ConfigKept, Attached
  <2>3. QED  BY <2>1, <2>2
<1>9. QED  BY <1>5, <1>6, <1>7, <1>8 DEF ConfigOK

\* The heartbeat of an agent in session is the exact one, and is answered.
LEMMA BeatIs ==
  ASSUME IInv, CoreInv, NEW s \in Streams, HubReadsHeartbeat(s)
  PROVE  \E cursor : Heartbeat(s, cursor) \/ (s # link /\ RefuseHeartbeat(s, cursor))
<1> DEFINE cursor == [gen |-> Head(uplink[s]).gen, seq |-> Head(uplink[s]).seq]
<1>1. /\ Heartbeat(s, cursor) \/ RefuseHeartbeat(s, cursor)
      /\ Under(s, "heartbeat")
  BY DEF HubReadsHeartbeat
<1>2. CASE s # link  BY <1>1, <1>2
<1>3. CASE s = link
  <2>1. OnLink(s)  BY <1>3, NoStreamDistinct DEF CoreInv, LinkOK
  <2>2. uplink[s] # <<>> /\ Head(uplink[s]).type = "heartbeat" /\ stream[s].stage = "serving"
    BY <1>1 DEF Under, Heartbeat, RefuseHeartbeat, Refuse
  <2>3. agent.pc = "beat" /\ Head(uplink[s]) = Beat(agent.gen, agent.accepted)
    BY <2>1, <2>2 DEF OnLink, Event
  <2>4. generation = agent.gen /\ latest = agent.accepted
    BY <2>1, <2>2, <2>3 DEF OnLink, Attached
  <2>5. cursor = [gen |-> generation, seq |-> latest]  BY <2>3, <2>4 DEF Beat
  <2> HIDE DEF cursor
  <2>6. Heartbeat(s, cursor)  BY <1>1, <2>5 DEF RefuseHeartbeat
  <2>7. QED  BY <2>6
<1>4. QED  BY <1>2, <1>3

LEMMA AckSentKept ==
  ASSUME IInv, CoreInv, NEW s \in Streams, SendHelloAck(s), UNCHANGED <<agent, network>>
  PROVE  ConfigKept(s)
<1>1. TypeOK /\ NetOK  BY DEF CoreInv, IInv
<1>2. /\ desired' = desired /\ Others(s) /\ stream[s].stage = "greeting"
      /\ stream'[s].config = stream[s].config
      /\ \/ stream'[s].stage = "failed"
         \/ /\ commands'[s] = Append(commands[s], Ack(latest))
            /\ stream'[s].stage = IF stream[s].config = NoConfiguration THEN "serving" ELSE "configuring"
  BY <1>1, AckSentIs
<1>3. agent' = agent /\ link' = link /\ uplink' = uplink /\ leftover' = leftover  BY DEF network
<1>4. /\ Inbox(s) = commands[s] /\ leftover[s] = <<>>
      /\ commands[s] \in Seq(Command) /\ latest \in Nat
  BY <1>1, <1>2, HubTypes DEF Inbox, Attached, NetOK
<1>5. CASE stream'[s].stage = "failed"
  <2>1. Confs(Inbox(s))' = {}  BY <1>3, <1>4, <1>5, QueueEmpty DEF Inbox, Attached
  <2>2. QED  BY <1>2, <1>3, <1>5, <2>1 DEF ConfigKept, Attached
<1>6. CASE /\ commands'[s] = Append(commands[s], Ack(latest))
           /\ stream'[s].stage = IF stream[s].config = NoConfiguration THEN "serving" ELSE "configuring"
  <2>1. Inbox(s)' = commands'[s]  BY <1>6 DEF Inbox, Attached
  <2>2. Confs(commands[s])' = Confs(commands[s])  BY <1>4, <1>6, QueueAck
  <2>3. QED  BY <1>2, <1>3, <1>4, <1>6, <2>1, <2>2 DEF ConfigKept, Attached
<1>7. QED  BY <1>2, <1>5, <1>6

LEMMA ConfigurationSentKept ==
  ASSUME IInv, CoreInv, NEW s \in Streams, SendConfiguration(s), UNCHANGED <<agent, network>>
  PROVE  ConfigKept(s)
<1>1. TypeOK /\ NetOK  BY DEF CoreInv, IInv
<1>2. /\ desired' = desired /\ Others(s) /\ stream[s].stage = "configuring"
      /\ stream[s].config \in Watchlist
      /\ \/ stream'[s].stage = "failed" /\ stream'[s].config = stream[s].config
         \/ /\ commands'[s] = Append(commands[s], Configure(stream[s].config))
            /\ stream'[s].stage = "serving" /\ stream'[s].config = NoConfiguration
  BY <1>1, ConfigurationSentIs
<1>3. agent' = agent /\ link' = link /\ uplink' = uplink /\ leftover' = leftover  BY DEF network
<1>4. /\ Inbox(s) = commands[s] /\ leftover[s] = <<>> /\ commands[s] \in Seq(Command)
  BY <1>1, <1>2, HubTypes DEF Inbox, Attached, NetOK
<1>5. CASE stream'[s].stage = "failed" /\ stream'[s].config = stream[s].config
  <2>1. Confs(Inbox(s))' = {}  BY <1>3, <1>4, <1>5, QueueEmpty DEF Inbox, Attached
  <2>2. QED  BY <1>2, <1>3, <1>5, <2>1 DEF ConfigKept, Attached
<1>6. CASE /\ commands'[s] = Append(commands[s], Configure(stream[s].config))
           /\ stream'[s].stage = "serving" /\ stream'[s].config = NoConfiguration
  <2>1. Inbox(s)' = commands'[s]  BY <1>6 DEF Inbox, Attached
  <2>2. Confs(commands[s])' = Confs(commands[s]) \cup {stream[s].config}
    BY <1>2, <1>4, <1>6, QueueConfigure
  <2>3. QED  BY <1>2, <1>3, <1>4, <1>6, <2>1, <2>2 DEF ConfigKept, Attached
<1>7. QED  BY <1>2, <1>5, <1>6

\* An established session: what is queued stays, or the call ends.
LEMMA ServedKept ==
  ASSUME NEW s \in Streams, desired' = desired, agent' = agent, link' = link, Others(s),
         \A t \in Streams \ {s} : leftover'[t] = leftover[t],
         \A t \in Streams : uplink'[t] \in {uplink[t], <<>>},
         stream[s].stage \in {"serving", "broadcasting", "closing"},
         stream'[s].stage \in {"serving", "broadcasting", "closing", "closed"},
         stream'[s].config \in {stream[s].config, NoConfiguration},
         stream[s].stage = "closing" => stream'[s].stage = "closed",
         s = link => /\ Confs(Inbox(s))' \subseteq Confs(Inbox(s))
                     /\ stream'[s].stage # "closed" => Confs(Inbox(s)) \subseteq Confs(Inbox(s))'
  PROVE  ConfigKept(s)
BY DEF ConfigKept, Attached, Inbox

LEMMA BroadcastKept ==
  ASSUME IInv, CoreInv, NEW s \in Streams, Broadcast(s), UNCHANGED <<agent, network>>
  PROVE  ConfigKept(s)
<1>1. TypeOK /\ NetOK /\ SessionInv  BY DEF CoreInv, IInv
<1>2. /\ desired' = desired /\ Others(s) /\ stream[s].stage = "broadcasting"
      /\ stream'[s].config = stream[s].config
      /\ \/ stream'[s].stage = "closing" /\ commands'[s] = commands[s]
         \/ /\ commands'[s] = Append(commands[s], Ack(stream[s].outgoing.seq))
            /\ stream'[s].stage = "serving"
  BY <1>1, BroadcastIs
<1>3. agent' = agent /\ link' = link /\ uplink' = uplink /\ leftover' = leftover  BY DEF network
<1>4. /\ commands[s] \in Seq(Command) /\ stream[s].outgoing.seq = latest /\ latest \in Nat
  BY <1>1, <1>2, HubTypes DEF SessionInv
<1>5. Inbox(s) = commands[s] /\ Inbox(s)' = commands'[s]  BY <1>2 DEF Inbox, Attached
<1>6. Confs(commands[s])' = Confs(commands[s])
  <2>1. commands'[s] = commands[s] \/ commands'[s] = Append(commands[s], Ack(latest))  BY <1>2, <1>4
  <2>2. QED  BY <1>4, <2>1, QueueAck
<1>7. QED  BY <1>2, <1>3, <1>5, <1>6, ServedKept

LEMMA EndKept ==
  ASSUME IInv, CoreInv, NEW s \in Streams, EndOfStream(s), UNCHANGED <<agent, network>>
  PROVE  ConfigKept(s)
<1>1. TypeOK  BY DEF IInv
<1>2. /\ desired' = desired /\ Others(s) /\ stream[s].stage = "serving"
      /\ stream'[s].stage = "closing" /\ stream'[s].config = stream[s].config
      /\ commands' = commands
  BY <1>1, EndIs
<1>3. agent' = agent /\ link' = link /\ uplink' = uplink /\ leftover' = leftover  BY DEF network
<1>4. Inbox(s)' = Inbox(s)  BY <1>2 DEF Inbox, Attached
<1>5. QED  BY <1>2, <1>3, <1>4, ServedKept

LEMMA EventKept ==
  ASSUME IInv, CoreInv, NEW s \in Streams, HubReadsEvent(s)
  PROVE  ConfigKept(s)
<1>1. TypeOK /\ NetOK  BY DEF CoreInv, IInv
<1> DEFINE event == [gen |-> agent.gen, seq |-> agent.pending, size |-> 1]
<1>2. \/ Publish(s, event)
      \/ s # link /\ RefuseEvent(s, event)
  BY EventIs
<1>3. agent' = agent /\ link' = link /\ leftover' = leftover /\ Read(s)  BY DEF HubReadsEvent
<1>4. \A t \in Streams : uplink'[t] \in {uplink[t], <<>>}  BY <1>1, <1>3, ReadIs
<1> HIDE DEF event
<1>5. CASE Publish(s, event)
  <2>1. /\ stream[s].stage = "serving" /\ desired' = desired /\ commands' = commands /\ Others(s)
        /\ stream'[s].stage = "broadcasting" /\ stream'[s].config = stream[s].config
    BY <1>1, <1>5, PublishIs
  <2>2. Inbox(s)' = Inbox(s)  BY <2>1 DEF Inbox, Attached
  <2>3. QED  BY <1>3, <1>4, <2>1, <2>2, ServedKept
<1>6. CASE s # link /\ RefuseEvent(s, event)
  <2>1. /\ desired' = desired /\ Others(s) /\ stream[s].stage = "serving"
        /\ stream'[s].stage = "closing" /\ stream'[s].config = stream[s].config
    BY <1>1, <1>6, RefuseIs DEF RefuseEvent
  <2>2. QED  BY <1>3, <1>4, <1>6, <2>1, ServedKept
<1>7. QED  BY <1>2, <1>5, <1>6

LEMMA BeatKept ==
  ASSUME IInv, CoreInv, NEW s \in Streams, HubReadsHeartbeat(s)
  PROVE  ConfigKept(s)
<1>1. TypeOK /\ NetOK  BY DEF CoreInv, IInv
<1>2. PICK cursor : /\ Heartbeat(s, cursor) \/ (s # link /\ RefuseHeartbeat(s, cursor))
  BY BeatIs
<1>3. agent' = agent /\ link' = link /\ leftover' = leftover /\ Read(s)  BY DEF HubReadsHeartbeat
<1>4. \A t \in Streams : uplink'[t] \in {uplink[t], <<>>}  BY <1>1, <1>3, ReadIs
<1>5. CASE Heartbeat(s, cursor)
  <2>1. /\ desired' = desired /\ Others(s) /\ stream[s].stage = "serving"
        /\ stream'[s].config = stream[s].config
        /\ \/ stream'[s].stage = "closing" /\ commands'[s] = commands[s]
           \/ /\ commands'[s] = Append(commands[s], Ack(latest))
              /\ stream'[s].stage = "serving"
    BY <1>1, <1>5, HeartbeatIs
  <2>2. commands[s] \in Seq(Command) /\ latest \in Nat  BY <1>1, HubTypes
  <2>3. Inbox(s) = commands[s] /\ Inbox(s)' = commands'[s]  BY <2>1 DEF Inbox, Attached
  <2>4. Confs(commands[s])' = Confs(commands[s])
    BY <2>1, <2>2, QueueAck
  <2>5. QED  BY <1>3, <1>4, <2>1, <2>3, <2>4, ServedKept
<1>6. CASE s # link /\ RefuseHeartbeat(s, cursor)
  <2>1. /\ desired' = desired /\ Others(s) /\ stream[s].stage = "serving"
        /\ stream'[s].stage = "closing" /\ stream'[s].config = stream[s].config
    BY <1>1, <1>6, RefuseIs DEF RefuseHeartbeat
  <2>2. QED  BY <1>3, <1>4, <1>6, <2>1, ServedKept
<1>7. QED  BY <1>2, <1>5, <1>6

LEMMA DisconnectKept ==
  ASSUME IInv, CoreInv, NEW s \in Streams, HubDisconnects(s)
  PROVE  ConfigKept(s)
<1>1. TypeOK /\ NetOK  BY DEF CoreInv, IInv
<1>2. /\ desired' = desired /\ Others(s) /\ stream[s].stage = "closing"
      /\ stream'[s].stage = "closed" /\ stream'[s].config = NoConfiguration
  BY <1>1, DisconnectIs DEF HubDisconnects
<1>3. /\ agent' = agent /\ link' = link /\ Read(s)
      /\ leftover' = [leftover EXCEPT ![s] = IF client[s] = "up" THEN commands[s] ELSE <<>>]
  BY DEF HubDisconnects
<1>4. \A t \in Streams : uplink'[t] \in {uplink[t], <<>>}  BY <1>1, <1>3, ReadIs
<1>5. /\ leftover'[s] \in {commands[s], <<>>}
      /\ \A t \in Streams \ {s} : leftover'[t] = leftover[t]
  BY <1>1, <1>3 DEF NetOK
<1>6. Inbox(s)' \in {Inbox(s), <<>>}  BY <1>2, <1>5 DEF Inbox, Attached
<1>7. Confs(Inbox(s))' \subseteq Confs(Inbox(s))  BY <1>6, QueueEmpty
<1>8. QED  BY <1>2, <1>3, <1>4, <1>5, <1>7, ServedKept

-----------------------------------------------------------------------------
(* Watchlists: each step *)

WatchInv == ConfigOK /\ ArriveOK

\* The hub takes up a call: it adopts the agent's watchlist if it has none, or
\* keeps its own and is to send it.
LEMMA ConnectsConfig ==
  ASSUME IInv, CoreInv, WatchInv, NEW s \in Streams, HubConnects(s)
  PROVE  WatchInv'
<1>1. /\ TypeOK /\ SessionInv /\ AgentOK /\ NetOK /\ HelloOK /\ UnsetOK /\ AgreeOK
  BY DEF IInv, CoreInv, WatchInv, ConfigOK
<1>2. PICK hello : hello = HelloOf(s)  OBVIOUS
<1>3. /\ Under(s, "hello") /\ Read(s) /\ ConnectAgent(s, Head(uplink[s]).gen, hello)
      /\ agent' = agent /\ link' = link /\ leftover' = leftover
  BY <1>2 DEF HubConnects, HelloOf
<1>4. /\ stream[s].stage = "idle" /\ agentSession = 0 /\ HelloAdmissible(hello)
      /\ desired' = IF desired.list = NoWatchlist THEN hello ELSE desired
      /\ Others(s) /\ commands' = commands
      /\ stream'[s].stage = "greeting"
      /\ stream'[s].config = PendingConfiguration(hello, desired')
  BY <1>1, <1>3, HelloIs
<1>5. \A t \in Streams : stream[t].stage \notin Attached  BY <1>1, <1>4 DEF SessionInv
<1>6. /\ uplink'[s] = <<>> /\ \A t \in Streams \ {s} : uplink'[t] = uplink[t]
  BY <1>1, <1>3, ReadIs
<1>7. \A t \in Streams : Under(t, "hello")' => t # s /\ Under(t, "hello") /\ HelloOf(t)' = HelloOf(t)
  BY <1>6 DEF Under, HelloOf
<1>8. /\ hello.list \in Watchlists /\ (s = link => hello = agent.watch)
      /\ (desired.list = NoWatchlist => hello = agent.watch /\ agent.config = NoConfiguration)
      /\ (desired.list # NoWatchlist => Agrees(hello))
  BY <1>1, <1>2, <1>3 DEF HelloOK, UnsetOK, AgreeOK
<1>9. desired'.list \in Watchlists /\ desired \in Watchlist
  BY <1>1, <1>4, <1>8 DEF TypeOK, Watchlist
<1>10. Inbox(s)' = <<>> /\ commands'[s] = <<>>
  BY <1>1, <1>4 DEF NetOK, Inbox, Attached
<1>11. \A t \in Streams \ {s} : Inbox(t)' = Inbox(t)
  BY <1>3, <1>4 DEF Inbox, Others
<1>12. stream'[s].config \in {NoConfiguration, desired'}
  BY <1>4 DEF PendingConfiguration
<1>13. s = link /\ desired' # agent.watch => stream'[s].config = desired'
  BY <1>4, <1>8 DEF PendingConfiguration
<1>14. HelloOK'
  <2>1. \A t \in Streams : stream'[t].stage = "idle" => stream'[t].config = NoConfiguration
    BY <1>1, <1>4 DEF Others, HelloOK
  <2>2. \A t \in Streams : stream'[t].stage = "configuring" => stream'[t].config # NoConfiguration
    BY <1>1, <1>4 DEF Others, HelloOK
  <2>3. QED  BY <1>1, <1>3, <1>7, <2>1, <2>2 DEF HelloOK
<1>15. UnsetOK'  BY <1>9, NoWatchlistDistinct DEF UnsetOK
<1>16. Mine' \subseteq Mine \cup {desired'}
  <2>1. CASE link = NoStream  BY <1>3, <2>1 DEF Mine
  <2>2. CASE link # NoStream
    <3>1. PICK x \in Streams : x = link  BY <1>1, <2>2 DEF NetOK
    <3>2. Mine' = {agent.watch} \cup ({agent.config} \ {NoConfiguration})
                    \cup (Confs(Inbox(x))' \cup ({stream'[x].config} \ {NoConfiguration}))
      BY <1>3, <2>2, <3>1 DEF Mine
    <3>3. {agent.watch} \cup ({agent.config} \ {NoConfiguration}) \subseteq Mine  BY DEF Mine
    <3>4. CASE x = s
      <4>1. Confs(Inbox(x))' = {}  BY <1>10, <3>4, QueueEmpty
      <4>2. QED  BY <1>12, <3>2, <3>3, <3>4, <4>1
    <3>5. CASE x # s
      <4>1. Inbox(x)' = Inbox(x) /\ stream'[x] = stream[x]  BY <1>4, <1>11, <3>5 DEF Others
      <4>2. Confs(Inbox(x)) \cup ({stream[x].config} \ {NoConfiguration}) \subseteq Mine
        BY <2>2, <3>1 DEF Mine
      <4>3. QED  BY <3>2, <3>3, <4>1, <4>2
    <3>6. QED  BY <3>4, <3>5
  <2>3. QED  BY <2>1, <2>2
<1>17. AgreeOK'
  <2>1. CASE desired.list # NoWatchlist
    <3>1. desired' = desired  BY <1>4, <2>1
    <3>2. \A x : Agrees(x)' = Agrees(x)  BY <3>1 DEF Agrees
    <3>3. Agrees(desired)  BY <1>9, <3>1 DEF Agrees, Watchlist
    <3>4. \A x \in Mine : Agrees(x)  BY <1>1, <2>1 DEF AgreeOK
    <3>5. \A x, y \in Mine \cup {desired} : x.revision = y.revision => x = y
      BY <1>1, <2>1, <3>4 DEF AgreeOK, Agrees
    <3>6. \A t \in Streams : Under(t, "hello")' => Agrees(HelloOf(t))'
      BY <1>1, <1>7, <2>1, <3>1 DEF AgreeOK, Agrees
    <3>7. QED  BY <1>16, <3>1, <3>2, <3>3, <3>4, <3>5, <3>6 DEF AgreeOK
  <2>2. CASE desired.list = NoWatchlist
    <3>1. desired' = agent.watch /\ hello = agent.watch /\ agent.config = NoConfiguration
      BY <1>4, <1>8, <2>2
    <3>2. Mine' \subseteq {agent.watch}
      <4>1. CASE link = NoStream  BY <1>3, <3>1, <4>1 DEF Mine
      <4>2. CASE link # NoStream
        <5>1. PICK x \in Streams : x = link  BY <1>1, <4>2 DEF NetOK
        <5>2. Mine' = {agent.watch} \cup ({agent.config} \ {NoConfiguration})
                        \cup (Confs(Inbox(x))' \cup ({stream'[x].config} \ {NoConfiguration}))
          BY <1>3, <4>2, <5>1 DEF Mine
        <5>3. Inbox(x)' = <<>>
          <6>1. x # s => Inbox(x) = <<>>
            BY <1>1, <1>5, <2>2 DEF UnsetOK, Inbox
          <6>2. QED  BY <1>10, <1>11, <6>1
        <5>4. stream'[x].config \in {NoConfiguration, agent.watch}
          BY <1>1, <1>4, <1>12, <2>2, <3>1 DEF UnsetOK, Others
        <5>5. QED  BY <3>1, <5>2, <5>3, <5>4, QueueEmpty
      <4>3. QED  BY <4>1, <4>2
    <3>3. Agrees(agent.watch)'
      <4>1. agent.watch.revision \in Nat  BY <1>1 DEF AgentOK, AgentRecord, Watchlist
      <4>2. QED  BY <1>9, <1>3, <3>1, <4>1 DEF Agrees
    <3>4. \A t \in Streams : Under(t, "hello")' => HelloOf(t)' = agent.watch
      BY <1>1, <1>7, <2>2 DEF UnsetOK
    <3>5. QED  BY <1>3, <3>2, <3>3, <3>4 DEF AgreeOK
  <2>3. QED  BY <2>1, <2>2
<1>18. ArriveOK'
  <2> SUFFICES ASSUME NEW t \in Streams, t = link, stream'[t].stage \in Attached
               PROVE  desired' = Known' \/ (desired' # NoConfiguration /\ desired' = stream'[t].config
                                            /\ stream'[t].stage = "greeting")
    BY <1>3 DEF ArriveOK, Attached
  <2>1. t = s  BY <1>4, <1>5 DEF Others
  <2>2. OnLink(s)  BY <2>1, NoStreamDistinct DEF CoreInv, LinkOK
  <2>3. agent.config = NoConfiguration  BY <1>4, <2>2 DEF OnLink
  <2>4. Known' = agent.watch  BY <1>3, <2>3 DEF Known
  <2>5. desired' # NoConfiguration  BY <1>9, NoConf
  <2>6. QED  BY <1>4, <1>13, <2>1, <2>4, <2>5
<1>19. QED  BY <1>14, <1>15, <1>17, <1>18 DEF WatchInv, ConfigOK

LEMMA HelloTypes ==
  ASSUME NetOK, NEW s \in Streams, Under(s, "hello")
  PROVE  HelloOf(s) \in Watchlist /\ HelloOf(s).revision \in Nat
<1>1. HelloOf(s) \in Watchlist  BY DEF NetOK, Under, Msg, HelloOf
<1>2. QED  BY <1>1 DEF Watchlist

LEMMA ConfsTypes ==
  ASSUME NEW q \in Seq(Command), NEW w \in Confs(q)
  PROVE  w \in Watchlist
<1>1. PICK i \in DOMAIN q : q[i].type = "configure" /\ w = Named(q[i])  BY DEF Confs
<1>2. q[i] \in Command
  <2>1. i \in 1..Len(q)  OBVIOUS
  <2>2. QED  BY <2>1, ElementOfSeq
<1>3. QED  BY <1>1, <1>2, NamedType

LEMMA MineTypes ==
  ASSUME TypeOK, AgentOK, NetOK
  PROVE  Mine \subseteq Watchlist /\ \A x \in Mine : x.revision \in Nat
<1>1. agent.watch \in Watchlist /\ agent.config \in Watchlist  BY DEF AgentOK, AgentRecord
<1>2. \A s \in Streams : stream[s].config \in Watchlist /\ Inbox(s) \in Seq(Command)
  BY HubTypes DEF TypeOK, StreamRecord, NetOK, Inbox
<1>3. \A s \in Streams : Confs(Inbox(s)) \subseteq Watchlist  BY <1>2, ConfsTypes
<1>4. Mine \subseteq Watchlist
  BY <1>1, <1>2, <1>3 DEF Mine, NetOK
<1>5. \A x \in Watchlist : x.revision \in Nat  BY DEF Watchlist
<1>6. QED  BY <1>4, <1>5

\* An operator's request: a newer configuration for the session there is.
LEMMA SetConfig ==
  ASSUME IInv, CoreInv, WatchInv, NEW list \in Watchlists, SetWatchlist(list),
         UNCHANGED <<agent, network>>
  PROVE  WatchInv'
<1>1. /\ TypeOK /\ SessionInv /\ NetOK /\ HelloOK /\ UnsetOK /\ AgreeOK /\ ArriveOK
  BY DEF IInv, CoreInv, WatchInv, ConfigOK
<1>2. PICK s \in Streams, w \in Watchlist :
           /\ w.list = list /\ w.revision = desired.revision + 1
           /\ agentSession # 0 /\ stream[s].session = agentSession
           /\ desired' = w
           /\ \A t \in Streams : /\ stream'[t].stage = stream[t].stage
                                 /\ stream'[t].config = stream[t].config
           /\ commands'[s] = Append(commands[s], Configure(w))
           /\ \A t \in Streams \ {s} : commands'[t] = commands[t]
  BY <1>1, SetIs
<1>3. agent' = agent /\ link' = link /\ uplink' = uplink /\ leftover' = leftover  BY DEF network
<1>4. desired.list # NoWatchlist /\ desired.revision \in Nat
  BY <1>1, <1>2 DEF UnsetOK, TypeOK, Watchlist
<1>5. \A t \in Streams : commands[t] \in Seq(Command)  BY <1>1, HubTypes
<1>6. \A t \in Streams :
        /\ Confs(commands[t]) \subseteq Confs(commands[t])'
        /\ Confs(commands[t])' \subseteq Confs(commands[t]) \cup {w}
  <2>1. Confs(commands[s])' = Confs(commands[s]) \cup {w}  BY <1>2, <1>5, QueueConfigure
  <2>2. \A t \in Streams \ {s} : Confs(commands[t])' = Confs(commands[t])  BY <1>2
  <2>3. QED  BY <2>1, <2>2
<1>7. \A t \in Streams : Confs(Inbox(t))' \subseteq Confs(Inbox(t)) \cup {w}
  BY <1>2, <1>3, <1>6 DEF Inbox
<1>8. Mine' \subseteq Mine \cup {w}
  <2>1. CASE link = NoStream  BY <1>3, <2>1 DEF Mine
  <2>2. CASE link # NoStream
    <3>1. PICK x \in Streams : x = link  BY <1>1, <2>2 DEF NetOK
    <3>2. Mine' = {agent.watch} \cup ({agent.config} \ {NoConfiguration})
                    \cup (Confs(Inbox(x))' \cup ({stream'[x].config} \ {NoConfiguration}))
      BY <1>3, <2>2, <3>1 DEF Mine
    <3>3. Mine = {agent.watch} \cup ({agent.config} \ {NoConfiguration})
                    \cup (Confs(Inbox(x)) \cup ({stream[x].config} \ {NoConfiguration}))
      BY <2>2, <3>1 DEF Mine
    <3>4. Confs(Inbox(x))' \subseteq Confs(Inbox(x)) \cup {w} /\ stream'[x].config = stream[x].config
      BY <1>2, <1>7
    <3>5. QED  BY <3>2, <3>3, <3>4
  <2>3. QED  BY <2>1, <2>2
<1>9. HelloOK'
  BY <1>1, <1>2, <1>3 DEF HelloOK, Under, HelloOf
<1>10. UnsetOK'  BY <1>2, NoWatchlistDistinct DEF UnsetOK
<1>11. AgreeOK'
  <2>1. ASSUME NEW x, x.revision \in Nat, Agrees(x) PROVE Agrees(x)' /\ x.revision < w.revision
    <3>1. x.revision <= desired.revision /\ x.list \in Watchlists  BY <2>1 DEF Agrees
    <3>2. x.revision < w.revision  BY <1>2, <1>4, <2>1, <3>1
    <3>3. x.revision <= w.revision /\ x.revision # w.revision  BY <1>2, <1>4, <2>1, <3>2
    <3>4. QED  BY <1>2, <3>1, <3>2, <3>3 DEF Agrees
  <2>2. \A x \in Mine : x.revision \in Nat /\ Agrees(x)
    BY <1>1, <1>4, MineTypes DEF AgreeOK, CoreInv
  <2>3. \A x \in Mine : Agrees(x)' /\ x.revision < w.revision  BY <2>1, <2>2
  <2>4. Agrees(w)'  BY <1>2, <1>4 DEF Agrees
  <2>5. \A x, y \in Mine \cup {w} : x.revision = y.revision => x = y
    <3>1. w.revision \in Nat  BY <1>2, <1>4
    <3>2. \A x \in Mine : x.revision # w.revision
      <4>1. \A x \in Mine : x.revision \in Nat /\ x.revision < w.revision  BY <2>2, <2>3
      <4>2. QED  BY <3>1, <4>1
    <3>3. QED  BY <1>1, <1>4, <3>2 DEF AgreeOK
  <2>6. ASSUME NEW t \in Streams, Under(t, "hello")' PROVE Agrees(HelloOf(t))'
    <3>1. Under(t, "hello") /\ HelloOf(t)' = HelloOf(t)  BY <1>3, <2>6 DEF Under, HelloOf
    <3>2. Agrees(HelloOf(t))  BY <1>1, <1>4, <3>1 DEF AgreeOK
    <3>3. HelloOf(t).revision \in Nat  BY <1>1, <3>1, HelloTypes
    <3>4. QED  BY <2>1, <3>1, <3>2, <3>3
  <2>7. QED  BY <1>8, <2>3, <2>4, <2>5, <2>6 DEF AgreeOK
<1>12. ArriveOK'
  <2> SUFFICES ASSUME NEW t \in Streams, t = link, stream[t].stage \in Attached
               PROVE  desired' \in Confs(commands[t])'
    BY <1>2, <1>3 DEF ArriveOK, Attached
  <2>1. t = s  BY <1>1, <1>2 DEF SessionInv
  <2>2. QED  BY <1>2, <1>5, <2>1, QueueConfigure
<1>13. QED  BY <1>9, <1>10, <1>11, <1>12 DEF WatchInv, ConfigOK

LEMMA DialsConfig ==
  ASSUME IInv, CoreInv, WatchInv, NEW s \in Streams, AgentDials(s)
  PROVE  WatchInv'
<1>1. /\ TypeOK /\ AgentOK /\ NetOK /\ HelloOK /\ UnsetOK /\ AgreeOK
  BY DEF IInv, CoreInv, WatchInv, ConfigOK
<1>2. /\ agent'.watch = agent.watch /\ agent.pc = "offline" /\ agent'.config = NoConfiguration
      /\ agent.config = NoConfiguration
  BY <1>1, DialIs DEF AgentDials, Steady, AgentOK
<1>3. /\ stream[s].stage = "idle" /\ link' = s /\ s # NoStream
      /\ uplink' = [uplink EXCEPT ![s] = <<Hello(agent.gen, agent.watch)>>]
      /\ leftover' = leftover /\ desired' = desired /\ agentSession' = agentSession
      /\ stream' = stream
  BY NoStreamDistinct DEF AgentDials, Unused, hub, vars, state
<1>4. /\ \A t \in Streams \ {s} : uplink'[t] = uplink[t]
      /\ uplink'[s] = <<Hello(agent.gen, agent.watch)>>
  BY <1>1, <1>3 DEF NetOK
<1>5. \A t \in Streams : Under(t, "hello")' =>
        \/ t = s /\ HelloOf(t)' = agent.watch
        \/ t # s /\ Under(t, "hello") /\ HelloOf(t)' = HelloOf(t)
  <2>1. HelloOf(s)' = agent.watch  BY <1>4 DEF HelloOf, Hello
  <2>2. QED  BY <1>4, <2>1 DEF Under, HelloOf
<1>6. stream[s].config = NoConfiguration /\ Inbox(s)' = <<>>
  BY <1>1, <1>3 DEF HelloOK, NetOK, Inbox, Attached
<1>7. Mine' = {agent.watch}
  BY <1>2, <1>3, <1>6, QueueEmpty DEF Mine
<1>8. HelloOK'  BY <1>1, <1>2, <1>3, <1>5 DEF HelloOK
<1>9. UnsetOK'  BY <1>1, <1>2, <1>3, <1>5 DEF UnsetOK
<1>10. AgreeOK'
  <2>1. \A x : Agrees(x)' = Agrees(x)  BY <1>3 DEF Agrees
  <2>2. agent.watch \in Mine  BY DEF Mine
  <2>3. QED  BY <1>1, <1>3, <1>5, <1>7, <2>1, <2>2 DEF AgreeOK
<1>11. ArriveOK'  BY <1>3 DEF ArriveOK
<1>12. QED  BY <1>8, <1>9, <1>10, <1>11 DEF WatchInv, ConfigOK

\* The restarted server has no watchlist, and nothing is under way.
LEMMA RestartsConfig ==
  ASSUME WatchInv, ServerRestarts
  PROVE  WatchInv'
<1>1. HelloOK  BY DEF WatchInv, ConfigOK
<1>2. /\ agent' = agent /\ desired' = NoConfiguration /\ agentSession' = 0
      /\ \A t \in Streams : /\ uplink'[t] = <<>> /\ leftover'[t] = <<>>
                            /\ stream'[t].stage \in {"idle", "closed"}
                            /\ stream'[t].config = NoConfiguration
  BY DEF ServerRestarts
<1>3. \A t \in Streams : ~ Under(t, "hello")'  BY <1>2 DEF Under
<1>4. HelloOK'  BY <1>1, <1>2, <1>3 DEF HelloOK
<1>5. UnsetOK'  BY <1>2, <1>3 DEF UnsetOK, Attached
<1>6. AgreeOK'  BY <1>2 DEF AgreeOK, NoConfiguration
<1>7. ArriveOK'  BY <1>2 DEF ArriveOK
<1>8. QED  BY <1>4, <1>5, <1>6, <1>7 DEF WatchInv, ConfigOK

\* The agent's operations that need no message, and those of the network.
LEMMA LosesConfig ==
  ASSUME IInv, CoreInv, WatchInv, NEW s \in Streams, AgentLosesSession(s)
  PROVE  WatchInv'
<1>1. AgentOK /\ NetOK /\ ConfigOK  BY DEF CoreInv, WatchInv
<1>2. Steady /\ agent'.pc = "offline" /\ agent'.config = NoConfiguration
  BY <1>1, LoseIs DEF AgentLosesSession
<1>3. /\ link' = NoStream /\ uplink' = uplink /\ leftover' = leftover
      /\ desired' = desired /\ agentSession' = agentSession /\ stream' = stream /\ commands' = commands
  BY <1>2 DEF AgentLosesSession, Follow, hub, vars, state
<1>4. /\ agent'.watch = agent.watch /\ agent.watch \in Mine
      /\ \A t \in Streams : Confs(Inbox(t))' = Confs(Inbox(t))
  BY <1>2, <1>3 DEF Steady, Mine, Inbox
<1>5. ConfigOK'  BY <1>1, <1>2, <1>3, <1>4, AgentConfig
<1>6. QED  BY <1>3, <1>5, ArriveGone DEF WatchInv

LEMMA MovesConfig ==
  ASSUME IInv, CoreInv, WatchInv, AgentMoves
  PROVE  WatchInv'
<1>1. AgentOK /\ NetOK /\ ConfigOK /\ ArriveOK  BY DEF CoreInv, WatchInv
<1>2. /\ uplink' = uplink /\ leftover' = leftover /\ Follow
      /\ desired' = desired /\ agentSession' = agentSession /\ stream' = stream /\ commands' = commands
  BY DEF AgentMoves, hub, vars, state
<1>3. /\ agent'.watch = agent.watch /\ agent'.config = NoConfiguration /\ agent.config = NoConfiguration
  <2>1. CASE TakeFrame  BY <1>1, <2>1, TakeIs DEF AgentOK
  <2>2. CASE TakeFirstOfGeneration  BY <1>1, <2>2, TakeFirstIs DEF AgentOK
  <2>3. CASE RestartMonitor
    <3>1. agent.watch \in Watchlist  BY <1>1 DEF AgentOK, AgentRecord
    <3>2. QED  BY <1>1, <2>3, <3>1, RestartIs, ReplacedIs DEF AgentOK
  <2>4. QED  BY <2>1, <2>2, <2>3 DEF AgentMoves
<1>4. link' \in {link, NoStream} /\ agent.watch \in Mine  BY <1>2 DEF Follow, Mine
<1>5. \A t \in Streams : Confs(Inbox(t))' = Confs(Inbox(t))  BY <1>2 DEF Inbox
<1>6. ConfigOK'  BY <1>1, <1>2, <1>3, <1>4, <1>5, AgentConfig
<1>7. Known' = Known  BY <1>3 DEF Known
<1>8. QED  BY <1>1, <1>2, <1>4, <1>6, <1>7, ArriveSame DEF WatchInv

LEMMA SendsConfig ==
  ASSUME IInv, CoreInv, WatchInv, AgentSends
  PROVE  WatchInv'
<1>1. AgentOK /\ NetOK /\ ConfigOK /\ ArriveOK  BY DEF CoreInv, WatchInv
<1>2. /\ link' = link /\ leftover' = leftover
      /\ desired' = desired /\ agentSession' = agentSession /\ stream' = stream /\ commands' = commands
  BY DEF AgentSends, hub, vars, state
<1>3. /\ agent'.watch = agent.watch /\ agent'.config = NoConfiguration /\ agent.config = NoConfiguration
      /\ agent.pc = "ready"
  BY <1>1, SendIs DEF AgentSends, AgentOK, Steady
<1>4. link # NoStream /\ uplink[link] = <<>>
  BY <1>1, <1>3 DEF NetOK, CoreInv, LinkOK, OnLink
<1>5. PICK m : m.type \in {"event", "heartbeat"} /\ uplink' = [uplink EXCEPT ![link] = Append(<<>>, m)]
  <2>1. Event(agent.gen, agent.pending, agent.released + 1).type = "event"
        /\ Beat(agent.gen, agent.accepted).type = "heartbeat"
    BY DEF Event, Beat
  <2>2. QED  BY <1>4, <2>1 DEF AgentSends
<1>6. \A t \in Streams : Under(t, "hello")' => uplink'[t] = uplink[t]
  BY <1>1, <1>5 DEF Under, NetOK
<1>7. \A t \in Streams : Confs(Inbox(t))' = Confs(Inbox(t))  BY <1>2 DEF Inbox
<1>8. agent.watch \in Mine  BY DEF Mine
<1>9. ConfigOK'  BY <1>1, <1>2, <1>3, <1>6, <1>7, <1>8, AgentConfig
<1>10. Known' = Known  BY <1>3 DEF Known
<1>11. QED  BY <1>1, <1>2, <1>9, <1>10, ArriveSame DEF WatchInv

\* A message is read or lost, or a call is; nobody does anything about it.
LEMMA LostConfig ==
  ASSUME NetOK, WatchInv, agent' = agent, link' = link, leftover' = leftover,
         desired' = desired, agentSession' = agentSession, stream' = stream, commands' = commands,
         \A t \in Streams : uplink'[t] \in {uplink[t], <<>>}
  PROVE  WatchInv'
<1>1. ConfigOK /\ ArriveOK  BY DEF WatchInv
<1>2. \A t \in Streams : Under(t, "hello")' => uplink'[t] = uplink[t]  BY DEF Under
<1>3. \A t \in Streams : Confs(Inbox(t))' = Confs(Inbox(t))  BY DEF Inbox
<1>4. agent.watch \in Mine  BY DEF Mine
<1>5. ConfigOK'  BY <1>1, <1>2, <1>3, <1>4, AgentConfig
<1>6. Known' = Known  BY DEF Known
<1>7. QED  BY <1>1, <1>5, <1>6, ArriveSame DEF WatchInv

LEMMA RefusesConfig ==
  ASSUME IInv, CoreInv, WatchInv, NEW s \in Streams, HubRefusesHello(s)
  PROVE  WatchInv'
<1>1. AgentOK /\ NetOK /\ ConfigOK /\ ArriveOK  BY DEF CoreInv, WatchInv
<1>2. /\ Refusal(s) /\ Read(s) /\ leftover' = leftover
      /\ desired' = desired /\ agentSession' = agentSession /\ stream' = stream /\ commands' = commands
  BY DEF HubRefusesHello, hub, vars, state
<1>3. \A t \in Streams : uplink'[t] \in {uplink[t], <<>>}  BY <1>1, <1>2, ReadIs
<1>4. CASE s # link
  BY <1>1, <1>2, <1>3, <1>4, LostConfig DEF Refusal
<1>5. CASE s = link
  <2>1. PICK r \in {"watchlist", "occupied"} : Exit(r) /\ link' = NoStream
    BY <1>2, <1>5 DEF Refusal
  <2>2. r \in Fates \ {"alive"}  BY DEF Fates
  <2>3. Steady /\ agent'.config = agent.config  BY <1>1, <2>1, <2>2, ExitIs
  <2>4. agent'.watch = agent.watch /\ agent.watch \in Mine  BY <2>3 DEF Steady, Mine
  <2>5. \A t \in Streams : Under(t, "hello")' => uplink'[t] = uplink[t]  BY <1>3 DEF Under
  <2>6. \A t \in Streams : t = link /\ link' = link => FALSE
    BY <2>1, NoStreamDistinct
  <2>7. ConfigOK'  BY <1>1, <1>2, <2>1, <2>3, <2>4, <2>5, <2>6, AgentConfig
  <2>8. QED  BY <2>1, <2>7, ArriveGone DEF WatchInv
<1>6. QED  BY <1>4, <1>5

\* The agent reads a command: the hub has a watchlist, since it has sent one.
LEMMA ReadsConfig ==
  ASSUME IInv, CoreInv, WatchInv, NEW s \in Streams, AgentReads(s)
  PROVE  WatchInv'
<1>1. /\ TypeOK /\ AgentOK /\ NetOK /\ ConfigOK /\ UnsetOK /\ AgreeOK /\ ArriveOK
  BY DEF CoreInv, IInv, WatchInv, ConfigOK
<1>2. /\ link = s /\ s # NoStream /\ Follow /\ uplink' = uplink
      /\ desired' = desired /\ stream' = stream
      /\ stream[s].stage \in {"serving", "broadcasting", "closing", "closed"}
      /\ Inbox(s) \in Seq(Command) /\ Inbox(s) # <<>> /\ Inbox(s)' = Tail(Inbox(s))
      /\ OnCommand(Head(Inbox(s)))
      /\ \A t \in Streams \ {s} : leftover'[t] = leftover[t]
      /\ stream[s].stage # "closed" => leftover' = leftover
  BY <1>1, ReadsIs
<1>3. agentSession' = agentSession
  BY DEF AgentReads, ReceiveCommand, hub, vars, state
<1>4. desired.list # NoWatchlist
  BY <1>1, <1>2 DEF UnsetOK, Inbox
<1>5. \A t \in Streams : leftover[t] = <<>> => leftover'[t] = <<>>
  BY <1>2 DEF Inbox, Attached
<1>6. PICK cmd : cmd = Head(Inbox(s))  OBVIOUS
<1>7. /\ cmd \in Command /\ OnCommand(cmd)
      /\ Confs(Inbox(s))' \subseteq Confs(Inbox(s))
      /\ cmd.type = "ack" => Confs(Inbox(s))' = Confs(Inbox(s))
      /\ cmd.type = "configure" => Confs(Inbox(s)) = Confs(Inbox(s))' \cup {Named(cmd)}
  BY <1>2, <1>6, QueueRead
<1>8. link' \in {link, NoStream} /\ (agent'.pc \in {"offline", "exited"} => link' = NoStream)
  BY <1>2 DEF Follow
<1>9. agent.watch \in Mine /\ (agent.config # NoConfiguration => agent.config \in Mine)
      /\ Confs(Inbox(s)) \subseteq Mine
  BY <1>2 DEF Mine
<1>10. ASSUME agent'.watch \in Mine, agent'.config \in Mine \cup {agent.config, NoConfiguration},
              link' = NoStream \/ agent'.watch = agent.watch
       PROVE  ConfigOK'
  <2>1. link' = NoStream \/ (link' = link /\ agent'.watch = agent.watch)  BY <1>8, <1>10
  <2>2. \A t \in Streams : t = link /\ link' = link => Confs(Inbox(t))' \subseteq Confs(Inbox(t))
    BY <1>2, <1>7
  <2>3. \A t \in Streams : Under(t, "hello")' => uplink'[t] = uplink[t]  BY <1>2
  <2>4. QED  BY <1>1, <1>2, <1>3, <1>4, <1>5, <1>10, <2>1, <2>2, <2>3, AgentConfig
<1>11. ASSUME agent'.watch \in Mine, agent'.config \in Mine \cup {agent.config, NoConfiguration},
              agent'.pc \in {"offline", "exited"}
       PROVE  WatchInv'
  BY <1>8, <1>10, <1>11, ArriveGone DEF WatchInv
<1>12. ASSUME NEW r \in Fates \ {"alive"}, Exit(r) PROVE WatchInv'
  <2>1. Steady /\ agent'.pc = "exited" /\ agent'.config = agent.config  BY <1>1, <1>12, ExitIs
  <2>2. QED  BY <1>9, <1>11, <2>1 DEF Steady
<1>13. {"stale", "contradictory", "sequence", "acknowledgement", "stopped"} \subseteq Fates \ {"alive"}
  BY DEF Fates
<1>14. agent.fate = "alive" /\ agent.config \in Watchlist
  BY <1>1, <1>7, CommandCases DEF AgentOK, AgentRecord
<1>15. \A t \in Streams : t = link /\ stream[t].stage \in Attached => commands'[t] = Inbox(t)'
         /\ commands[t] = Inbox(t)
  BY <1>2 DEF Inbox
<1>16. CASE cmd.type = "stop"
  <2>1. Exit("stopped")  BY <1>1, <1>7, <1>16, CommandCases
  <2>2. QED  BY <1>12, <1>13, <2>1
<1>17. CASE cmd.type = "ack"
  <2>1. CASE Exit("acknowledgement") \/ Exit("sequence")
    BY <1>12, <1>13, <2>1
  <2>2. ASSUME agent'.watch = agent.watch, agent'.config = NoConfiguration, agent.config = NoConfiguration
        PROVE  WatchInv'
    <3>1. ConfigOK'  BY <1>9, <1>10, <2>2
    <3>2. Known' = Known  BY <2>2 DEF Known
    <3>3. \A t \in Streams : t = link /\ link' = link /\ stream[t].stage \in Attached =>
            Confs(commands[t])' = Confs(commands[t])
      BY <1>2, <1>7, <1>15, <1>17
    <3>4. QED  BY <1>1, <1>2, <1>8, <3>1, <3>2, <3>3, ArriveSame DEF WatchInv
  <2>3. CASE agent.pc \in {"calling", "event"} /\ agent.pending # 0 /\ ReadyAgain(Settled(agent))
    BY <1>1, <2>2, <2>3, SettledReadyIs
  <2>4. CASE agent.pc \in {"calling", "beat"} /\ ReadyAgain(agent)
    BY <1>1, <2>2, <2>4, ReadyIs DEF Steady
  <2>5. CASE agent.pending # 0 /\ agent.config # NoConfiguration /\ Replaced(Settled(agent), agent.config)
    <3>1. agent'.pc = "offline" /\ agent'.config = NoConfiguration /\ agent'.watch = agent.config
      BY <1>1, <1>14, <2>5, SettledReplacedIs
    <3>2. QED  BY <1>9, <1>11, <2>5, <3>1
  <2>6. CASE agent.config # NoConfiguration /\ Replaced(agent, agent.config)
    <3>1. agent'.pc = "offline" /\ agent'.config = NoConfiguration /\ agent'.watch = agent.config
      BY <1>1, <1>14, <2>6, ReplacedIs
    <3>2. QED  BY <1>9, <1>11, <2>6, <3>1
  <2>7. QED  BY <1>1, <1>7, <1>17, <2>1, <2>3, <2>4, <2>5, <2>6, CommandCases
<1>18. CASE cmd.type = "configure"
  <2>1. Named(cmd) \in Watchlist /\ Named(cmd) \in Mine  BY <1>7, <1>9, <1>18, NamedType
  <2>2. Agrees(Named(cmd)) /\ Named(cmd) # NoConfiguration
    BY <1>1, <1>4, <2>1, NoConf DEF AgreeOK, Agrees
  <2>3. CASE Exit("stale") \/ Exit("contradictory")
    BY <1>12, <1>13, <2>3
  <2>4. CASE agent.pc = "ready" /\ Replaced(agent, Named(cmd))
    <3>1. agent'.pc = "offline" /\ agent'.config = NoConfiguration /\ agent'.watch = Named(cmd)
      BY <1>1, <1>14, <2>1, <2>4, ReplacedIs
    <3>2. QED  BY <1>11, <2>1, <3>1
  <2>5. ASSUME agent'.watch = agent.watch, agent'.config \in Mine \cup {agent.config},
               Known' = Named(cmd), desired = Known => desired = Named(cmd)
        PROVE  WatchInv'
    <3>1. ConfigOK'  BY <1>9, <1>10, <2>5
    <3>2. ArriveOK'
      <4> SUFFICES ASSUME NEW t \in Streams, t = s, link' = link, stream[t].stage \in Attached
                   PROVE  stream[t].stage \in {"serving", "broadcasting"} =>
                            desired = Known' \/ desired \in Confs(commands[t])'
        BY <1>2, <1>8, NoStreamDistinct DEF ArriveOK, Attached
      <4>1. stream[t].stage \in {"serving", "broadcasting"} =>
              desired = Known \/ desired \in Confs(commands[t])
        BY <1>1, <1>2 DEF ArriveOK
      <4>2. Confs(commands[t]) = Confs(commands[t])' \cup {Named(cmd)}
        BY <1>2, <1>7, <1>15, <1>18
      <4>3. QED  BY <2>5, <4>1, <4>2
    <3>3. QED  BY <3>1, <3>2 DEF WatchInv
  <2>6. CASE Named(cmd) = Known /\ UNCHANGED agent
    <3>1. Known' = Known  BY <2>6 DEF Known
    <3>2. QED  BY <2>5, <2>6, <3>1
  <2>7. CASE /\ Named(cmd).revision > Known.revision
             /\ agent.pc \in {"calling", "event", "beat"}
             /\ agent' = [agent EXCEPT !.config = Named(cmd)]
    <3>1. agent'.watch = agent.watch /\ agent'.config = Named(cmd)
      BY <1>1, <2>1, <2>7, AbsorbIs DEF Steady
    <3>2. Known' = Named(cmd)  BY <2>2, <3>1 DEF Known
    <3>3. desired # Known
      <4>1. Named(cmd).revision <= desired.revision  BY <2>2 DEF Agrees
      <4>2. Named(cmd).revision \in Nat  BY <2>1 DEF Watchlist
      <4>3. desired.revision \in Nat  BY <1>1 DEF TypeOK, Watchlist
      <4>4. QED  BY <2>7, <4>1, <4>2, <4>3
    <3>4. QED  BY <2>1, <2>5, <3>1, <3>2, <3>3
  <2>8. QED  BY <1>1, <1>7, <1>18, <2>3, <2>4, <2>6, <2>7, CommandCases
<1>19. QED  BY <1>1, <1>7, <1>16, <1>17, <1>18, CommandCases

LEMMA InitWatch == AHInit => WatchInv
<1> SUFFICES ASSUME AHInit PROVE WatchInv  OBVIOUS
<1>1. /\ desired.list = NoWatchlist /\ agentSession = 0 /\ agent.watch.list \in Watchlists
      /\ \A s \in Streams : /\ stream[s].stage = "idle" /\ stream[s].config = NoConfiguration
                            /\ uplink[s] = <<>> /\ leftover[s] = <<>>
  BY InitialAdmissible DEF AHInit, Init, AgentInit
<1>2. \A s \in Streams : ~ Under(s, "hello")  BY <1>1 DEF Under
<1>3. HelloOK  BY <1>1, <1>2 DEF HelloOK
<1>4. UnsetOK  BY <1>1, <1>2 DEF UnsetOK, Attached
<1>5. AgreeOK  BY <1>1 DEF AgreeOK
<1>6. ArriveOK  BY <1>1 DEF ArriveOK
<1>7. QED  BY <1>3, <1>4, <1>5, <1>6 DEF WatchInv, ConfigOK

LEMMA WatchStep == IInv /\ CoreInv /\ WatchInv /\ [AHNext]_all => WatchInv'
<1> SUFFICES ASSUME IInv, CoreInv, WatchInv, [AHNext]_all PROVE WatchInv'  OBVIOUS
<1>0. NetOK /\ ConfigOK /\ ArriveOK  BY DEF CoreInv, WatchInv
<1>1. ASSUME NEW s \in Streams, ConfigKept(s) PROVE WatchInv'
  BY <1>0, <1>1, KeptConfig DEF WatchInv
<1>2. CASE HubMoves
  <2>1. UNCHANGED <<agent, network>>  BY <1>2 DEF HubMoves
  <2>2. ASSUME NEW s \in Streams,
               SendHelloAck(s) \/ SendConfiguration(s) \/ Broadcast(s) \/ EndOfStream(s)
        PROVE  WatchInv'
    <3>1. ConfigKept(s)
      BY <2>1, <2>2, AckSentKept, ConfigurationSentKept, BroadcastKept, EndKept
    <3>2. QED  BY <1>1, <3>1
  <2>3. ASSUME NEW list \in Watchlists, SetWatchlist(list) PROVE WatchInv'
    BY <2>1, <2>3, SetConfig
  <2>4. QED  BY <1>2, <2>2, <2>3 DEF HubMoves
<1>3. ASSUME NEW s \in Streams, HubReadsEvent(s) \/ HubReadsHeartbeat(s) \/ HubDisconnects(s)
      PROVE  WatchInv'
  <2>1. ConfigKept(s)  BY <1>3, EventKept, BeatKept, DisconnectKept
  <2>2. QED  BY <1>1, <2>1
<1>4. ASSUME NEW s \in Streams, MessageLost(s) PROVE WatchInv'
  <2>1. Read(s) /\ UNCHANGED <<hub, agent, link, leftover>>  BY <1>4 DEF MessageLost
  <2>2. \A t \in Streams : uplink'[t] \in {uplink[t], <<>>}  BY <1>0, <2>1, ReadIs
  <2>3. /\ desired' = desired /\ agentSession' = agentSession /\ stream' = stream
        /\ commands' = commands
    BY <2>1 DEF hub, vars, state
  <2>4. QED  BY <1>0, <2>1, <2>2, <2>3, LostConfig
<1>5. ASSUME NEW s \in Streams, NetworkFails(s) PROVE WatchInv'
  <2>1. agent' = agent /\ link' = link /\ uplink' = uplink /\ leftover' = leftover
    BY <1>5 DEF NetworkFails, network
  <2>2. /\ desired' = desired /\ agentSession' = agentSession /\ stream' = stream
        /\ commands' = commands
    BY <1>5 DEF NetworkFails, FallSilent, Hangup, state
  <2>3. QED  BY <1>0, <2>1, <2>2, LostConfig
<1>6. CASE UNCHANGED all
  <2>1. agent' = agent /\ link' = link /\ uplink' = uplink /\ leftover' = leftover
    BY <1>6 DEF all, network
  <2>2. /\ desired' = desired /\ agentSession' = agentSession /\ stream' = stream
        /\ commands' = commands
    BY <1>6 DEF all, vars, state
  <2>3. QED  BY <1>0, <2>1, <2>2, LostConfig
<1>7. QED
  BY <1>2, <1>3, <1>4, <1>5, <1>6, DialsConfig, ReadsConfig, LosesConfig, ConnectsConfig,
     RefusesConfig, MovesConfig, SendsConfig, RestartsConfig DEF AHNext

\* No configuration is lost: an agent with none left to read runs with the
\* desired watchlist, or is about to.
THEOREM ConfigurationsArrive == AHSpec => []ConfigurationArrives
<1>1. AHInit => IInv /\ CoreInv /\ WatchInv  BY InitCore, InitWatch
<1>2. (IInv /\ CoreInv /\ WatchInv) /\ [AHNext]_all => (IInv /\ CoreInv /\ WatchInv)'
  BY CoreStep, WatchStep
<1>3. WatchInv => ConfigurationArrives
  <2> SUFFICES ASSUME WatchInv, NEW s \in Streams, link = s,
                      stream[s].stage \in {"serving", "broadcasting"},
                      \A k \in DOMAIN commands[s] : commands[s][k].type # "configure"
               PROVE  desired = Known
    BY DEF ConfigurationArrives
  <2>1. Confs(commands[s]) = {}  BY DEF Confs
  <2>2. QED  BY <2>1 DEF WatchInv, ArriveOK
<1>4. QED  BY <1>1, <1>2, <1>3, PTL DEF AHSpec

-----------------------------------------------------------------------------
(* The agent's checks *)

\* No step is the one that ends the agent for a contradiction: of the cursors
\* while the hub has not forgotten its own, of watchlists ever.
LEMMA FateStep ==
  IInv /\ CoreInv /\ WatchInv /\ NoContradiction /\ [AHNext]_all => NoContradiction'
<1> SUFFICES ASSUME IInv, CoreInv, WatchInv, NoContradiction, [AHNext]_all PROVE NoContradiction'
  OBVIOUS
<1>0. /\ TypeOK /\ AgentOK /\ NetOK /\ CursorOK /\ UnsetOK /\ AgreeOK
  BY DEF IInv, CoreInv, WatchInv, ConfigOK
<1>1. ASSUME agent'.fate = agent.fate, lapses' = {} => lapses = {} PROVE NoContradiction'
  BY <1>1 DEF NoContradiction
<1>2. ASSUME NEW s \in Streams, AgentReads(s) PROVE NoContradiction'
  <2>1. /\ link = s /\ s # NoStream /\ lapses' = lapses
        /\ Inbox(s) \in Seq(Command) /\ Inbox(s) # <<>>
        /\ OnCommand(Head(Inbox(s)))
    BY <1>0, <1>2, ReadsIs
  <2>2. OnLink(s) /\ \A n \in AckOf(Inbox(s)) : AckAt(s, n)  BY <2>1 DEF CoreInv, LinkOK
  <2>3. PICK cmd : cmd = Head(Inbox(s))  OBVIOUS
  <2>4. /\ cmd \in Command /\ OnCommand(cmd) /\ cmd.type # "stop"
        /\ cmd.type = "ack" => cmd.seq \in AckOf(Inbox(s))
        /\ cmd.type = "configure" => Named(cmd) \in Confs(Inbox(s))
    BY <2>1, <2>2, <2>3, QueueRead DEF OnLink
  <2>5. desired.list # NoWatchlist  BY <1>0, <2>1 DEF UnsetOK, Inbox
  <2>6. agent.config \in Watchlist /\ agent.fate = "alive"
    BY <1>0, <2>4, CommandCases DEF AgentOK, AgentRecord
  <2>7. CASE cmd.type = "ack"
    <3>1. AckAt(s, cmd.seq) /\ agent.pc # "ready"  BY <2>2, <2>4, <2>7 DEF OnLink
    <3>2. CASE agent.pending # 0 /\ ReadyAgain(Settled(agent)) /\ agent.pc \in {"calling", "event"}
      BY <1>0, <1>1, <2>1, <3>2, SettledReadyIs
    <3>3. CASE agent.pending # 0 /\ Replaced(Settled(agent), agent.config)
      BY <1>0, <1>1, <2>1, <2>6, <3>3, SettledReplacedIs
    <3>4. CASE agent.pc \in {"calling", "beat"} /\ ReadyAgain(agent)
      BY <1>0, <1>1, <2>1, <3>4, ReadyIs
    <3>5. CASE Replaced(agent, agent.config)
      BY <1>0, <1>1, <2>1, <2>6, <3>5, ReplacedIs
    <3>6. CASE /\ Exit("sequence")
               /\ agent.pc \in {"calling", "event", "beat"}
               /\ agent.pc = "event" => cmd.seq # agent.pending
               /\ agent.pc = "beat" => cmd.seq # agent.accepted
               /\ agent.pc = "calling" => /\ cmd.seq # agent.accepted
                                          /\ agent.pending = 0 \/ cmd.seq # agent.pending
      <4>1. agent'.fate = "sequence"
        <5>1. "sequence" \in Fates \ {"alive"}  BY DEF Fates
        <5>2. QED  BY <1>0, <3>6, <5>1, ExitIs
      <4>2. lapses # {}
        <5> SUFFICES ASSUME lapses = {} PROVE FALSE  OBVIOUS
        <5>1. agent.pc = "calling" /\ Held = cmd.seq  BY <3>1, <3>6 DEF AckAt
        <5>2. Held \in Nat  BY <1>0, HubTypes DEF Held
        <5>3. CASE Held = 0  BY <1>0, <3>6, <5>1, <5>3 DEF CursorOK
        <5>4. CASE Held > 0  BY <1>0, <3>6, <5>1, <5>4 DEF CursorOK
        <5>5. QED  BY <5>2, <5>3, <5>4
      <4>3. QED  BY <2>1, <4>1, <4>2 DEF NoContradiction
    <3>7. QED  BY <1>0, <2>4, <2>7, <3>1, <3>2, <3>3, <3>4, <3>5, <3>6, CommandCases
  <2>8. CASE cmd.type = "configure"
    <3>1. Named(cmd) \in Mine /\ Known \in Mine
      BY <2>1, <2>4, <2>8 DEF Mine, Known
    <3>2. Named(cmd).revision = Known.revision => Named(cmd) = Known
      BY <1>0, <2>5, <3>1 DEF AgreeOK
    <3>3. Named(cmd) \in Watchlist  BY <2>4, <2>8, NamedType
    <3>4. CASE Exit("stale")
      <4>1. agent'.fate = "stale"
        <5>1. "stale" \in Fates \ {"alive"}  BY DEF Fates
        <5>2. QED  BY <1>0, <3>4, <5>1, ExitIs
      <4>2. QED  BY <4>1 DEF NoContradiction
    <3>5. CASE UNCHANGED agent  BY <1>1, <2>1, <3>5
    <3>6. CASE Replaced(agent, Named(cmd))  BY <1>0, <1>1, <2>1, <2>6, <3>3, <3>6, ReplacedIs
    <3>7. CASE agent.pc \in {"calling", "event", "beat"} /\ agent' = [agent EXCEPT !.config = Named(cmd)]
      BY <1>0, <1>1, <2>1, <3>3, <3>7, AbsorbIs
    <3>8. QED  BY <1>0, <2>4, <2>8, <3>2, <3>4, <3>5, <3>6, <3>7, CommandCases
  <2>9. QED  BY <1>0, <2>4, <2>7, <2>8, CommandCases
<1>3. ASSUME NEW s \in Streams, HubRefusesHello(s) PROVE NoContradiction'
  <2>1. /\ Refusal(s) /\ lapses' = lapses /\ Under(s, "hello")
        /\ ~ (SessionFree /\ HelloAdmissible(HelloOf(s)))
    BY <1>3 DEF HubRefusesHello, HelloOf
  <2>2. CASE link # s  BY <1>1, <2>1, <2>2 DEF Refusal
  <2>3. CASE link = s
    <3>1. ~ SessionFree
      <4> SUFFICES ASSUME ~ HelloAdmissible(HelloOf(s)) PROVE FALSE  BY <2>1
      <4>1. /\ desired.list # NoWatchlist /\ ~ (HelloOf(s).revision < desired.revision)
            /\ HelloOf(s) # desired
        BY DEF HelloAdmissible
      <4>2. Agrees(HelloOf(s))  BY <1>0, <2>1, <4>1 DEF AgreeOK
      <4>3. HelloOf(s).revision \in Nat /\ desired.revision \in Nat
        BY <1>0, <2>1, HelloTypes DEF TypeOK, Watchlist
      <4>4. QED  BY <4>1, <4>2, <4>3 DEF Agrees
    <3>2. Exit("occupied")  BY <2>1, <2>3, <3>1 DEF Refusal
    <3>3. agent'.fate = "occupied"
      <4>1. "occupied" \in Fates \ {"alive"}  BY DEF Fates
      <4>2. QED  BY <1>0, <3>2, <4>1, ExitIs
    <3>4. QED  BY <3>3 DEF NoContradiction
  <2>4. QED  BY <2>2, <2>3
<1>4. ASSUME NEW s \in Streams,
             \/ HubConnects(s) \/ MessageLost(s) \/ HubReadsEvent(s)
             \/ HubReadsHeartbeat(s) \/ HubDisconnects(s) \/ NetworkFails(s)
      PROVE  NoContradiction'
  <2>1. agent' = agent /\ (lapses' = {} => lapses = {})
    BY <1>4 DEF HubConnects, MessageLost, HubReadsEvent, HubReadsHeartbeat, HubDisconnects, NetworkFails
  <2>2. QED  BY <1>1, <2>1
<1>5. ASSUME NEW s \in Streams, AgentDials(s) \/ AgentLosesSession(s) PROVE NoContradiction'
  <2>1. agent'.fate = agent.fate
    BY <1>0, <1>5, DialIs, LoseIs DEF AgentDials, AgentLosesSession
  <2>2. QED  BY <1>1, <1>5, <2>1 DEF AgentDials, AgentLosesSession
<1>6. CASE AgentMoves
  <2>1. agent'.fate = agent.fate
    <3>1. CASE TakeFrame  BY <1>0, <3>1, TakeIs
    <3>2. CASE TakeFirstOfGeneration  BY <1>0, <3>2, TakeFirstIs
    <3>3. CASE RestartMonitor
      <4>1. agent.watch \in Watchlist  BY <1>0 DEF AgentOK, AgentRecord
      <4>2. QED  BY <1>0, <3>3, <4>1, RestartIs, ReplacedIs
    <3>4. QED  BY <1>6, <3>1, <3>2, <3>3 DEF AgentMoves
  <2>2. QED  BY <1>1, <1>6, <2>1 DEF AgentMoves
<1>7. CASE AgentSends
  <2>1. agent'.fate = agent.fate  BY <1>0, <1>7, SendIs DEF AgentSends
  <2>2. QED  BY <1>1, <1>7, <2>1 DEF AgentSends
<1>8. CASE HubMoves \/ ServerRestarts \/ UNCHANGED all
  <2>1. agent' = agent /\ (lapses' = {} => lapses = {})
    BY <1>8 DEF HubMoves, ServerRestarts, all
  <2>2. QED  BY <1>1, <2>1
<1>9. QED  BY <1>2, <1>3, <1>4, <1>5, <1>6, <1>7, <1>8 DEF AHNext

\* The two sides never contradict each other: what an agent is told and what
\* the hub is told agree on watchlists whatever is lost, late or restarted, and
\* on cursors until the hub forgets its own.
THEOREM NeverContradicts == AHSpec => []NoContradiction
<1>1. AHInit => (IInv /\ CoreInv /\ WatchInv) /\ NoContradiction
  <2>1. AHInit => NoContradiction  BY DEF AHInit, AgentInit, NoContradiction
  <2>2. QED  BY <2>1, InitCore, InitWatch
<1>2. (IInv /\ CoreInv /\ WatchInv) /\ [AHNext]_all => (IInv /\ CoreInv /\ WatchInv)'
  BY CoreStep, WatchStep
<1>3. (IInv /\ CoreInv /\ WatchInv) /\ NoContradiction /\ [AHNext]_all => NoContradiction'
  BY FateStep
<1>4. QED  BY <1>1, <1>2, <1>3, PTL DEF AHSpec

\* The hub promises in this composition what it promises on its own, whatever
\* the network does and when the server is restarted.
THEOREM HubKeepsPromises == AHSpec => [](TypeOK /\ ReplayWindow /\ ExclusiveStream)
<1>1. IInv => TypeOK /\ ReplayWindow /\ ExclusiveStream
  BY SessionExclusive DEF IInv
<1>2. QED  BY <1>1, CoreInvariance, PTL
=============================================================================
