---------------------------- MODULE AlarmEpisode ----------------------------
\* What an anomaly monitor promises whoever receives its alarms: an instrument's
\* alarm is raised only when it is not, and never sooner than Spacing after its
\* last one, whatever ended that: the rule rearmed or lost its window.
EXTENDS Naturals

CONSTANTS Instruments,
          Spacing,     \* in milliseconds
          NoTime       \* no alarm so far

VARIABLES raised,      \* the instruments whose alarm stands
          since        \* when an instrument's last alarm was raised

Init == raised = {} /\ since = [i \in Instruments |-> NoTime]

Raise(i) ==
  /\ i \notin raised /\ raised' = raised \cup {i}
  /\ since'[i] \in Nat /\ since' = [since EXCEPT ![i] = since'[i]]
  /\ since[i] = NoTime \/ since'[i] > since[i] + Spacing

\* Alarms end one at a time, or together when their windows are lost.
Clear == raised' \subseteq raised /\ UNCHANGED since

Next == Clear \/ \E i \in Instruments : Raise(i)

Spec == Init /\ [][Next]_<<raised, since>>
=============================================================================
