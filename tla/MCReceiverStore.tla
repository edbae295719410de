-------------------------- MODULE MCReceiverStore --------------------------
(***************************************************************************)
(* The worker store for TLC.  Workers and stub names only index functions  *)
(* and sets, so they may be permuted: states that differ by their names    *)
(* are one.  Runs with liveness properties use ReceiverStore itself.       *)
(***************************************************************************)
EXTENDS ReceiverStore, TLC

Symmetry == Permutations(Workers) \cup Permutations(Names)

\* A bound for StoreReplay: one worker sends snapshots that overtake each other,
\* in the presence of others that send their first.  TLC checks the first state
\* past the bound and goes no further.
SentSecond(w) == Durable(w) > 1 \/ Cap(mem[w]) > 1
OneSendsMore == \A v, w \in Workers : SentSecond(v) /\ SentSecond(w) => v = w
=============================================================================
