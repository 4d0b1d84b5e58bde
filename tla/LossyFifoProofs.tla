--------------------------- MODULE LossyFifoProofs ---------------------------
(***************************************************************************)
(* The abstract channel keeps its promise: what comes out comes out in     *)
(* order and at most once.                                                 *)
(***************************************************************************)
EXTENDS LossyFifo, TLAPS

\* The strengthened invariant holds of every step of the channel.
LEMMA ChannelInvInductive ==
  ChannelInv /\ [Next]_channelVars => ChannelInv'
<1> SUFFICES ASSUME ChannelInv, [Next]_channelVars PROVE ChannelInv'
  OBVIOUS
<1> USE DEF ChannelInv, ChannelTypeOK, InOrderAtMostOnce
<1>1. CASE Accept
  BY <1>1 DEF Accept
<1>2. CASE Drop
  <2>1. PICK gone \in SUBSET inFlight : inFlight' = inFlight \ gone
    BY <1>2 DEF Drop
  <2>2. QED
    BY <2>1, <1>2 DEF Drop
<1>3. CASE Deliver
  <2>1. PICK p \in inFlight :
          /\ \A q \in inFlight : p <= q
          /\ inFlight' = inFlight \ {p}
          /\ delivered' = Append(delivered, p)
          /\ UNCHANGED accepted
    BY <1>3 DEF Deliver
  <2>2. /\ p \in Nat /\ p \in 1..accepted
        /\ Len(delivered') = Len(delivered) + 1
        /\ delivered' \in Seq(Nat)
        /\ \A i \in 1..Len(delivered) : delivered'[i] = delivered[i]
        /\ delivered'[Len(delivered) + 1] = p
    BY <2>1
  <2>3. \A q \in inFlight' : p < q
    BY <2>1, <2>2
  <2>4. Len(delivered) \in Nat
    OBVIOUS
  <2>5. \A i \in 1..Len(delivered') : i \in 1..Len(delivered) \/ i = Len(delivered) + 1
    BY <2>2, <2>4
  <2>6. ChannelTypeOK'
    BY <2>1, <2>2
  <2>7. InOrderAtMostOnce'
    <3>1. ASSUME NEW i \in 1..Len(delivered'), NEW j \in 1..Len(delivered'), i < j
          PROVE delivered'[i] < delivered'[j]
      <4>1. i \in 1..Len(delivered)
        BY <3>1, <2>2, <2>4
      <4>2. CASE j \in 1..Len(delivered)
        BY <4>1, <4>2, <3>1, <2>2
      <4>3. CASE j = Len(delivered) + 1
        BY <4>1, <4>3, <2>1, <2>2
      <4>4. QED
        BY <4>2, <4>3, <2>5
    <3>2. \A i \in 1..Len(delivered') : delivered'[i] \in 1..accepted'
      BY <2>1, <2>2, <2>5
    <3>3. QED
      BY <3>1, <3>2
  <2>8. inFlight' \subseteq 1..accepted'
    BY <2>1
  <2>9. \A i \in 1..Len(delivered') : \A q \in inFlight' : delivered'[i] < q
    BY <2>1, <2>2, <2>3, <2>5
  <2>10. QED
    BY <2>6, <2>7, <2>8, <2>9
<1>4. CASE UNCHANGED channelVars
  BY <1>4 DEF channelVars
<1>5. QED
  BY <1>1, <1>2, <1>3, <1>4 DEF Next

\* Nothing comes out of the channel twice, out of order or from nowhere.
THEOREM ChannelInOrder == Spec => []InOrderAtMostOnce
<1>1. Init => ChannelInv
  BY DEF Init, ChannelInv, ChannelTypeOK, InOrderAtMostOnce
<1>2. ChannelInv => InOrderAtMostOnce
  BY DEF ChannelInv
<1>3. QED
  BY <1>1, <1>2, ChannelInvInductive, PTL DEF Spec
=============================================================================
