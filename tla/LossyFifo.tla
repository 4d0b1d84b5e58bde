------------------------------ MODULE LossyFifo ------------------------------
(***************************************************************************)
(* What the forwarder promises of a packet, whatever queues, threads and   *)
(* streams it goes through: an ordered channel that may lose packets but   *)
(* neither duplicates nor reorders them.  Packets are numbered 1, 2, ...   *)
(* in the order the SEEDLink thread hands them to addPacketCallback.       *)
(***************************************************************************)
EXTENDS Naturals, Sequences

VARIABLES
  accepted,    \* how many packets the channel has been handed
  inFlight,    \* the packets it still owes a decision
  delivered    \* what has come out at the far end, in order

channelVars == <<accepted, inFlight, delivered>>

Init ==
  /\ accepted = 0
  /\ inFlight = {}
  /\ delivered = <<>>

Accept ==
  /\ accepted' = accepted + 1
  /\ inFlight' = inFlight \cup {accepted + 1}
  /\ UNCHANGED delivered

Drop ==
  /\ \E gone \in SUBSET inFlight : inFlight' = inFlight \ gone
  /\ UNCHANGED <<accepted, delivered>>

\* Only the oldest packet in flight may come out.
Deliver ==
  \E p \in inFlight :
    /\ \A q \in inFlight : p <= q
    /\ inFlight' = inFlight \ {p}
    /\ delivered' = Append(delivered, p)
    /\ UNCHANGED accepted

Next == Accept \/ Drop \/ Deliver

Spec == Init /\ [][Next]_channelVars

-----------------------------------------------------------------------------
ChannelTypeOK ==
  /\ accepted \in Nat
  /\ inFlight \in SUBSET Nat
  /\ delivered \in Seq(Nat)

\* Nothing comes out twice or out of order, and only accepted packets do.
InOrderAtMostOnce ==
  /\ \A i, j \in 1..Len(delivered) : i < j => delivered[i] < delivered[j]
  /\ \A i \in 1..Len(delivered) : delivered[i] \in 1..accepted

\* The strengthening that makes the order inductive: every packet in flight is
\* younger than everything that has come out.
ChannelInv ==
  /\ ChannelTypeOK
  /\ InOrderAtMostOnce
  /\ inFlight \subseteq 1..accepted
  /\ \A i \in 1..Len(delivered) : \A p \in inFlight : delivered[i] < p
=============================================================================
