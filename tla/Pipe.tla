-------------------------------- MODULE Pipe --------------------------------
(***************************************************************************)
(* One direction of a conversation: what is heard is what was said, in     *)
(* order, once each and nothing else.  It may stop at any point.           *)
(***************************************************************************)
EXTENDS Naturals, Sequences

CONSTANT Messages

VARIABLES said, heard

Init == said = <<>> /\ heard = <<>>
Say  == said' \in {Append(said, m) : m \in Messages} /\ UNCHANGED heard
Hear == /\ Len(heard) < Len(said)
        /\ heard' = Append(heard, said[Len(heard) + 1])
        /\ UNCHANGED said
Spec == Init /\ [][Say \/ Hear]_<<said, heard>>
=============================================================================
