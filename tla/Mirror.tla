------------------------------- MODULE Mirror -------------------------------
(***************************************************************************)
(* What the worker agent and the receiver promise together: the receiver's *)
(* copy of the worker's containers, and the agent's own copy by which its  *)
(* proxy routes, follow the containers.  A container has versions; an odd  *)
(* one can be exported, an even one cannot (stopped, removed, not yet      *)
(* there).  The copy of each container only moves forward and shows it     *)
(* only as it was; containers need not be copied at the same instant.      *)
(***************************************************************************)
EXTENDS Naturals

CONSTANT Ids  \* container ids

VARIABLES
  ver,   \* the version of each container
  copy,  \* the receiver's copy
  table  \* the agent's copy
vars == <<ver, copy, table>>

Exported(v) == v % 2 = 1
\* A container as of version `at', visible or not.
Entry   == [at: Nat, shown: BOOLEAN]
Nothing == [i \in Ids |-> [at |-> 0, shown |-> FALSE]]

Init == ver = [i \in Ids |-> 0] /\ copy = Nothing /\ table = Nothing

Change == /\ \E i \in Ids : ver' = [ver EXCEPT ![i] = @ + 1]
          /\ UNCHANGED <<copy, table>>

\* A new snapshot reaches the receiver.
Publish ==
  /\ copy' \in [Ids -> Entry]
  /\ \A i \in Ids : /\ copy[i].at <= copy'[i].at /\ copy'[i].at <= ver[i]
                    /\ copy'[i].shown => Exported(copy'[i].at)
  /\ UNCHANGED <<ver, table>>

\* The agent learns that the receiver has it.
Confirm == table' = copy /\ UNCHANGED <<ver, copy>>

\* The agent restarts.
Forget == table' = Nothing /\ UNCHANGED <<ver, copy>>

Next == Change \/ Publish \/ Confirm \/ Forget
Spec == Init /\ [][Next]_vars
=============================================================================
