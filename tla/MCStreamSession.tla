-------------------------- MODULE MCStreamSession --------------------------
(* Instances of StreamSession for TLC: packets of one and two bytes in a queue
   of three, so that a batch holds several packets and the drop policies are
   reached with the queue full and almost full. *)
EXTENDS StreamSession

MCSizes == {1, 2, 4}    \* 4 is larger than the queue: refused
MCSetups == [buffered : BOOLEAN, dropPolicy : DropPolicies]
=============================================================================
