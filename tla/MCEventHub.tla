----------------------------- MODULE MCEventHub -----------------------------
(***************************************************************************)
(* Small instances of EventHub. Streams, publishers, subscribers and       *)
(* watchlists are interchangeable model values: safety runs use symmetry.  *)
(***************************************************************************)
EXTENDS EventHub, TLC

Symmetry == Permutations(Streams) \cup Permutations(Publishers)
            \cup Permutations(Subscribers) \cup Permutations(Watchlists)

\* Bound of the live run: what the channel carries in a behaviour.
MaxBroadcasts == 4
FewBroadcasts == Len(sent) < MaxBroadcasts
=============================================================================
