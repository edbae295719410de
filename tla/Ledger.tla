------------------------------- MODULE Ledger -------------------------------
(***************************************************************************)
(* What the receiver promises of the captures it accepts, whatever it does *)
(* with stubs, files and clocks: a register for each worker with a copy    *)
(* that outlives a crash.  A capture is above 0; 0 stands for none.  What  *)
(* is at or below a worker's floor is refused by the request window, so    *)
(* this much, and no more, may be forgotten.                               *)
(*                                                                         *)
(* ReceiverStore and SnapshotAdmission implement it, the first with its    *)
(* floor as it is given, the second with what the clocks make of it.       *)
(***************************************************************************)
EXTENDS Naturals

CONSTANTS
  Workers,   \* worker ids
  Captures   \* positive numbers, in the order of captured_at

VARIABLES
  up,     \* the process runs
  mem,    \* the capture its memory holds
  disk,   \* the one a restart would find
  floor,  \* captures up to here are refused
  taken,  \* the one written ahead and not answered yet
  acked   \* the last one answered 200
vars == <<up, mem, disk, floor, taken, acked>>

Nothing == [w \in Workers |-> 0]

Init ==
  /\ up \in BOOLEAN
  /\ mem = Nothing /\ disk = Nothing /\ floor = Nothing
  /\ taken = Nothing /\ acked = Nothing

\* A capture newer than all that is known, written ahead unless the write fails.
Admit(w, c) ==
  /\ up /\ taken[w] = 0
  /\ c > mem[w] /\ c > disk[w] /\ c > floor[w]
  /\ mem' = [mem EXCEPT ![w] = c]
  /\ \/ /\ disk' = [disk EXCEPT ![w] = c]
        /\ taken' = [taken EXCEPT ![w] = c]
     \/ UNCHANGED <<disk, taken>>
  /\ UNCHANGED <<up, floor, acked>>

\* The answer is 200 or an error.
Answer(w) ==
  /\ taken[w] # 0
  /\ taken' = [taken EXCEPT ![w] = 0]
  /\ acked' \in {acked, [acked EXCEPT ![w] = taken[w]]}
  /\ UNCHANGED <<up, mem, disk, floor>>

\* The worker's expiry, in one step or memory first.
Forget(w) ==
  /\ up /\ taken[w] = 0
  /\ mem[w] <= floor[w]
  /\ mem' = [mem EXCEPT ![w] = 0]
  /\ \/ disk[w] <= floor[w] /\ disk' = [disk EXCEPT ![w] = 0]
     \/ UNCHANGED disk
  /\ UNCHANGED <<up, floor, taken, acked>>

\* Time goes by.
Raise ==
  /\ floor' \in [Workers -> Nat]
  /\ \A w \in Workers : floor'[w] >= floor[w]
  /\ UNCHANGED <<up, mem, disk, taken, acked>>

Crash ==
  /\ up
  /\ up' = FALSE /\ mem' = Nothing /\ taken' = Nothing
  /\ UNCHANGED <<disk, floor, acked>>

Load ==
  /\ ~up
  /\ up' = TRUE /\ mem' = disk
  /\ UNCHANGED <<disk, floor, taken, acked>>

Next ==
  \/ \E w \in Workers, c \in Captures : Admit(w, c)
  \/ \E w \in Workers : Answer(w) \/ Forget(w)
  \/ Raise \/ Crash \/ Load
Spec == Init /\ [][Next]_vars
=============================================================================
