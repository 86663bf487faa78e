--------------------------- MODULE PacketDelivery ---------------------------
(* What a streaming session promises its producer: packets, numbered in
   submission order, reach the network in that order and at most once; a
   pending packet leaves only by being delivered, by the drop policy or by
   closing the session.  When lossy, a transport may also lose the packets it
   has taken from the queue, ahead of the ones it delivers later. *)
EXTENDS Naturals, Sequences, SequencesExt

VARIABLES pending,    \* ids accepted and neither delivered nor dropped
          delivered,  \* ids in the order the network was given them
          accepted,   \* how many packets were submitted
          closed,
          lossy,        \* the transport may lose packets it has accepted
          dropsOldest   \* a full queue makes room for the newest packet

Init ==
    /\ pending = {} /\ delivered = <<>> /\ accepted = 0 /\ closed = FALSE
    /\ lossy \in BOOLEAN /\ dropsOldest \in BOOLEAN

(* The packet accepted next joins the pending ones, or is dropped; older ones
   give way only under dropsOldest. *)
Accept ==
    /\ ~closed
    /\ accepted' = accepted + 1
    /\ \/ pending' = pending
       \/ \E kept \in SUBSET pending :
            /\ kept = pending \/ dropsOldest
            /\ pending' = kept \union {accepted'}
    /\ UNCHANGED <<delivered, closed>>

Increasing(s) == \A i, j \in DOMAIN s : i < j => s[i] < s[j]

(* The oldest pending packets leave: those in `sent` are delivered in order,
   those in `lost` are not delivered. *)
Hands(sent, lost) ==
    /\ Increasing(sent)
    /\ lost = {} \/ lossy
    /\ LET gone == Range(sent) \union lost
       IN  \A old \in gone, young \in pending \ gone : old < young
    /\ delivered' = delivered \o sent

Deliver ==
    /\ ~closed
    /\ \E sent \in SeqOf(pending, Cardinality(pending)), lost \in SUBSET pending :
         /\ Hands(sent, lost)
         /\ pending' = pending \ (Range(sent) \union lost)
    /\ UNCHANGED <<accepted, closed>>

(* Closing discards what is pending, after a last attempt to deliver. *)
Close ==
    /\ ~closed
    /\ \E sent \in SeqOf(pending, Cardinality(pending)), lost \in SUBSET pending :
         Hands(sent, lost)
    /\ pending' = {}
    /\ closed' = TRUE
    /\ UNCHANGED accepted

Next == (Accept \/ Deliver \/ Close) /\ UNCHANGED <<lossy, dropsOldest>>

Spec == Init /\ [][Next]_<<pending, delivered, accepted, closed, lossy, dropsOldest>>
=============================================================================
