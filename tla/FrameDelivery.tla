--------------------------- MODULE FrameDelivery ---------------------------
(***************************************************************************)
(* What the agent and the server together promise about the monitor's      *)
(* frames, whatever happens to the connections between them: within one    *)
(* generation subscribers and the replay see the frames in order, each     *)
(* exactly once, none left out; the agent lets go of a frame only when it  *)
(* is published; a frame is given up only with its generation.             *)
(*                                                                         *)
(* A server that restarts has forgotten its log, one that a late hello     *)
(* took back to another generation its cursor. From then on the first      *)
(* frame of a generation may be published again while the agent keeps it,  *)
(* and a generation of which a frame the agent let go of is forgotten is   *)
(* never continued.                                                        *)
(***************************************************************************)
EXTENDS Naturals, Sequences

VARIABLES
  gen,       \* the agent's generation
  base,      \* frames the agent was through with when it began
  done,      \* frames the agent is through with
  log,       \* published frames, oldest first: [gen, frame]
  forgetful  \* the server has forgotten its log or its cursor before

vars == <<gen, base, done, log, forgetful>>

Init == gen = 1 /\ base = 0 /\ done = 0 /\ log = <<>> /\ forgetful = FALSE

Entry(n) == [gen |-> gen, frame |-> n]

\* The frames of the generation that are in the log.
Published == {n \in (base + 1)..(done + 1) : \E i \in DOMAIN log : log[i] = Entry(n)}

\* The next frame is published, if no frame before it is missing.
Publish ==
  /\ Published = (base + 1)..done
  /\ log' = Append(log, Entry(done + 1))
  /\ UNCHANGED <<gen, base, done, forgetful>>

\* The first frame is published again by a server that has forgotten it.
Repeat ==
  /\ forgetful
  /\ done = base /\ Published = {base + 1}
  /\ log' = Append(log, Entry(base + 1))
  /\ UNCHANGED <<gen, base, done, forgetful>>

\* The agent lets go of a frame that is published.
Release ==
  /\ done + 1 \in Published
  /\ done' = done + 1
  /\ UNCHANGED <<gen, base, log, forgetful>>

\* Another generation, new or the hub's before; the frame that was kept may be
\* given up with the old one, or released in the same step.
Begin ==
  /\ gen' # gen
  /\ done' \in {done, done + 1} /\ base' = done'
  /\ UNCHANGED <<log, forgetful>>

Forget ==
  /\ forgetful' = TRUE /\ log' \in {log, <<>>}
  /\ UNCHANGED <<gen, base, done>>

Next == Publish \/ Repeat \/ Release \/ Begin \/ Forget

Spec == Init /\ [][Next]_vars
=============================================================================
