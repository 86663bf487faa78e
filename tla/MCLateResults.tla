--------------------------- MODULE MCLateResults ----------------------------
(* An instance of LateResults for TLC: two microphones, one pair of speakers and
   two formats of the mix for the routes; three stingers, one of them loaded
   only on demand, and two formats of the canvas for the loader. *)
EXTENDS LateResults

ChannelsDef == {"microphone", "desktop"}

DevicesDef == [c \in ChannelsDef |->
    IF c = "microphone" THEN {"mic1", "mic2"} ELSE {"speakers"}]

SpecsDef == {[path |-> "a", preload |-> TRUE], [path |-> "b", preload |-> TRUE],
             [path |-> "c", preload |-> FALSE]}
=============================================================================
