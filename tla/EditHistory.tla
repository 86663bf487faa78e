---------------------------- MODULE EditHistory ----------------------------
(* What undo and redo promise: a line of projects and a place on it.  An edit
   is taken at the place and ends the line there; stepping back and forward
   moves the place; opening another document starts another line.  The line
   reaches at most MaxHistory edits back. *)
EXTENDS Naturals, Sequences

CONSTANTS Projects,     \* the documents there may be
          MaxHistory    \* MAX_HISTORY_DEPTH

VARIABLES timeline, at

Init == /\ timeline \in [1..1 -> Projects]
        /\ at = 1

Edit ==
    LET oldest == IF at > MaxHistory THEN 2 ELSE 1
    IN  \E p \in Projects :
            /\ timeline' = Append(SubSeq(timeline, oldest, at), p)
            /\ at' = at + 2 - oldest

StepBack ==
    /\ at > 1
    /\ at' = at - 1
    /\ UNCHANGED timeline

StepForward ==
    /\ at < Len(timeline)
    /\ at' = at + 1
    /\ UNCHANGED timeline

Open ==
    /\ timeline' \in [1..1 -> Projects]
    /\ at' = 1

Next == Edit \/ StepBack \/ StepForward \/ Open

Spec == Init /\ [][Next]_<<timeline, at>>
=============================================================================
