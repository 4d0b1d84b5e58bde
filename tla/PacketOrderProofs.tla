--------------------------- MODULE PacketOrderProofs ---------------------------
(***************************************************************************)
(* The order of the packets over all stages; the refinement, every step of *)
(* the forwarding path being a step of the lossy channel; that each packet *)
(* is in exactly one place; and that only a full queue gives packets up.   *)
(***************************************************************************)
EXTENDS PacketPipelineProofs, FiniteSetTheorems

-----------------------------------------------------------------------------
(* What a queue operation does to the set and the order of its elements. *)

LEMMA ElementsTyped ==
  ASSUME NEW q \in Seq(Packets)
  PROVE  Elements(q) \subseteq Packets /\ Elements(q) \subseteq Nat
  BY DEF Elements, Packets

LEMMA PopElements ==
  ASSUME NEW q \in Seq(Packets), q # <<>>, Increasing(q)
  PROVE  /\ Head(q) \in Elements(q)
         /\ Elements(Tail(q)) \subseteq Elements(q)
         /\ \A e \in Elements(Tail(q)) : Head(q) < e
         /\ Elements(q) = {Head(q)} \cup Elements(Tail(q))
         /\ Increasing(Tail(q))
<1>1. /\ Len(q) \in Nat \ {0}
      /\ Len(Tail(q)) = Len(q) - 1
      /\ Head(q) = q[1]
      /\ \A i \in 1..Len(Tail(q)) : Tail(q)[i] = q[i + 1]
  BY HeadTail
<1>2. Head(q) \in Elements(q)
  BY <1>1 DEF Elements
<1>3. ASSUME NEW e \in Elements(Tail(q))
      PROVE  e \in Elements(q) /\ Head(q) < e
  <2>1. PICK i \in 1..Len(Tail(q)) : e = q[i + 1]
    BY <1>1, <1>3 DEF Elements
  <2>2. i + 1 \in 1..Len(q) /\ 1 \in 1..Len(q) /\ 1 < i + 1
    BY <1>1, <2>1
  <2>3. QED
    BY <1>1, <2>1, <2>2 DEF Elements, Increasing
<1>4. ASSUME NEW e \in Elements(q), e # Head(q)
      PROVE  e \in Elements(Tail(q))
  <2>1. PICK i \in 1..Len(q) : e = q[i]
    BY <1>4 DEF Elements
  <2>2. i # 1 /\ i \in Nat
    BY <1>1, <1>4, <2>1
  <2>3. i - 1 \in 1..Len(Tail(q)) /\ (i - 1) + 1 = i
    BY <1>1, <2>1, <2>2
  <2>4. Tail(q)[i - 1] = e
    BY <1>1, <2>1, <2>3
  <2>5. QED
    BY <2>3, <2>4 DEF Elements
<1>5. Increasing(Tail(q))
  <2>1. SUFFICES ASSUME NEW i \in 1..Len(Tail(q)), NEW j \in 1..Len(Tail(q)), i < j
                 PROVE  Tail(q)[i] < Tail(q)[j]
    BY DEF Increasing
  <2>2. i + 1 \in 1..Len(q) /\ j + 1 \in 1..Len(q) /\ i + 1 < j + 1
    BY <1>1, <2>1
  <2>3. q[i + 1] < q[j + 1]
    BY <2>2 DEF Increasing
  <2>4. QED
    BY <1>1, <2>3
<1>6. QED
  BY <1>2, <1>3, <1>4, <1>5

LEMMA AppendElements ==
  ASSUME NEW q \in Seq(Packets), NEW p \in Packets
  PROVE  Elements(Append(q, p)) = Elements(q) \cup {p}
<1>1. /\ Len(q) \in Nat
      /\ Len(Append(q, p)) = Len(q) + 1
      /\ \A i \in 1..Len(q) : Append(q, p)[i] = q[i]
      /\ Append(q, p)[Len(q) + 1] = p
  BY AppendOne
<1>2. \A i \in 1..Len(Append(q, p)) : i \in 1..Len(q) \/ i = Len(q) + 1
  BY <1>1
<1>3. 1..Len(q) \subseteq 1..Len(Append(q, p))
      /\ Len(q) + 1 \in 1..Len(Append(q, p))
  BY <1>1
<1>4. \A e \in Elements(Append(q, p)) : e \in Elements(q) \cup {p}
  <2>1. TAKE e \in Elements(Append(q, p))
  <2>2. PICK i \in 1..Len(Append(q, p)) : e = Append(q, p)[i]
    BY DEF Elements
  <2>3. QED
    BY <1>1, <1>2, <2>2 DEF Elements
<1>5. \A e \in Elements(q) \cup {p} : e \in Elements(Append(q, p))
  <2>1. p \in Elements(Append(q, p))
    BY <1>1, <1>3 DEF Elements
  <2>2. ASSUME NEW e \in Elements(q) PROVE e \in Elements(Append(q, p))
    <3>1. PICK i \in 1..Len(q) : e = q[i]
      BY <2>2 DEF Elements
    <3>2. Append(q, p)[i] = e /\ i \in 1..Len(Append(q, p))
      BY <1>1, <1>3, <3>1
    <3>3. QED
      BY <3>2 DEF Elements
  <2>3. QED
    BY <2>1, <2>2
<1>6. QED
  BY <1>4, <1>5

LEMMA PushElements ==
  ASSUME NEW q \in Seq(Packets), NEW p \in Packets, Increasing(q),
         \A e \in Elements(q) : e < p
  PROVE  /\ Elements(Append(q, p)) = Elements(q) \cup {p}
         /\ Increasing(Append(q, p))
<1>1. /\ Len(q) \in Nat
      /\ Len(Append(q, p)) = Len(q) + 1
      /\ \A i \in 1..Len(q) : Append(q, p)[i] = q[i]
      /\ Append(q, p)[Len(q) + 1] = p
  BY AppendOne
<1>2. \A i \in 1..Len(Append(q, p)) : i \in 1..Len(q) \/ i = Len(q) + 1
  BY <1>1
<1>3. Increasing(Append(q, p))
  <2>1. SUFFICES ASSUME NEW i \in 1..Len(Append(q, p)),
                        NEW j \in 1..Len(Append(q, p)), i < j
                 PROVE  Append(q, p)[i] < Append(q, p)[j]
    BY DEF Increasing
  <2>2. i \in 1..Len(q)
    BY <1>1, <2>1
  <2>3. CASE j \in 1..Len(q)
    BY <1>1, <2>1, <2>2, <2>3 DEF Increasing
  <2>4. CASE j = Len(q) + 1
    <3>1. q[i] \in Elements(q)
      BY <2>2 DEF Elements
    <3>2. QED
      BY <1>1, <2>2, <2>4, <3>1
  <2>5. QED
    BY <1>2, <2>3, <2>4
<1>4. QED
  BY <1>3, AppendElements

-----------------------------------------------------------------------------
(* The order over all stages. *)

stageVars == <<arrived, srcHand, importQueue, tabHand, exportQueue, pubHand,
               wire, proxy>>

\* The facts about the stages that every step below rests on.
StagesTyped ==
  /\ arrived \in Nat
  /\ importQueue \in Seq(Packets) /\ exportQueue \in Seq(Packets)
  /\ wire \in Seq(Packets) /\ proxy \in Seq(Packets)
  /\ srcHand \in Nat /\ tabHand \in Nat /\ pubHand \in Nat
  /\ HandsFull

LEMMA TypeInvStages == TypeInv => StagesTyped
  BY DEF TypeInv, TypeOK, PubTypeOK, SrcTypeOK, TabTypeOK, QueueTypeOK, StagesTyped

\* What a step may do to the stages: leave them alone, take a new packet in, or
\* move, drop or deliver packets without taking any in.
Takes == arrived' = arrived + 1 /\ InFlight' = InFlight \cup {arrived + 1}
           /\ UNCHANGED proxy
Thins == InFlight' \subseteq InFlight /\ UNCHANGED <<arrived, proxy>>
Delivers ==
  \E p \in InFlight :
    /\ \A q \in InFlight : p <= q
    /\ InFlight' = InFlight \ {p}
    /\ proxy' = Append(proxy, p)
    /\ UNCHANGED arrived

LEMMA QuietStep ==
  ASSUME Ordered, UNCHANGED stageVars
  PROVE  Ordered' /\ Thins
  BY DEF stageVars, Ordered, Staged, Younger, Increasing, InFlight, InMemory, Held,
         Elements, Thins

\* The sets of the six stages, so that the steps below are about sets only.
LEMMA TakesOrdered ==
  ASSUME StagesTyped, Ordered, SrcHandOver
  PROVE  Ordered' /\ Takes
<1>1. /\ srcHand = NoPacket /\ srcHand' = arrived + 1 /\ arrived' = arrived + 1
      /\ UNCHANGED <<importQueue, tabHand, exportQueue, pubHand, wire, proxy>>
  BY DEF SrcHandOver, SrcStep, tabVars, publisherVars, pubVars, streamVars,
         StagesTyped, HandsFull, SrcHandFull
<1>2. Held(srcHand) = {} /\ Held(srcHand)' = {arrived + 1}
  BY <1>1 DEF Held, NoPacket, StagesTyped
<1>3. /\ Elements(importQueue)' = Elements(importQueue)
      /\ Held(tabHand)' = Held(tabHand)
      /\ Elements(exportQueue)' = Elements(exportQueue)
      /\ Held(pubHand)' = Held(pubHand)
      /\ Elements(wire)' = Elements(wire)
  BY <1>1
<1>4. Takes
  BY <1>1, <1>2, <1>3 DEF Takes, InFlight, InMemory
<1>5. \A p \in InFlight : arrived + 1 > p
  BY DEF Ordered, StagesTyped
<1>6. Staged(Held(srcHand), Elements(importQueue), Held(tabHand),
             Elements(exportQueue), Held(pubHand), Elements(wire))'
  BY <1>2, <1>3, <1>5 DEF Ordered, Staged, Younger, InFlight, InMemory
<1>7. InFlight' \subseteq 1..arrived'
  BY <1>1, <1>4 DEF Takes, Ordered, StagesTyped
<1>8. Increasing(wire)' /\ Increasing(exportQueue)' /\ Increasing(importQueue)'
  BY <1>1 DEF Ordered
<1>9. QED
  BY <1>4, <1>6, <1>7, <1>8 DEF Ordered

\* A step that only drops packets keeps what is left in order.
LEMMA Shrinks ==
  ASSUME StagesTyped, Ordered, UNCHANGED <<arrived, proxy>>,
         Held(srcHand)' \subseteq Held(srcHand),
         Elements(importQueue)' \subseteq Elements(importQueue),
         Held(tabHand)' \subseteq Held(tabHand),
         Elements(exportQueue)' \subseteq Elements(exportQueue),
         Held(pubHand)' \subseteq Held(pubHand),
         Elements(wire)' \subseteq Elements(wire),
         Increasing(wire)' /\ Increasing(exportQueue)' /\ Increasing(importQueue)'
  PROVE  Ordered' /\ Thins
<1>1. Thins
  BY DEF Thins, InFlight, InMemory
<1>2. Staged(Held(srcHand), Elements(importQueue), Held(tabHand),
             Elements(exportQueue), Held(pubHand), Elements(wire))'
  BY DEF Ordered, Staged, Younger
<1>3. QED
  BY <1>1, <1>2 DEF Ordered, Thins

\* The first packet of a queue moves into the empty hand behind it.
LEMMA Popped ==
  ASSUME NEW q \in Seq(Packets), q # <<>>, Increasing(q)
  PROVE  /\ Held(Head(q)) = {Head(q)}
         /\ Elements(q) = {Head(q)} \cup Elements(Tail(q))
         /\ \A e \in Elements(Tail(q)) : e > Head(q)
         /\ Increasing(Tail(q))
         /\ Head(q) \in Packets
<1>1. Head(q) \in Packets
  BY HeadTail
<1>2. Head(q) \in Nat /\ Elements(Tail(q)) \subseteq Nat
  BY <1>1, PopElements, ElementsTyped DEF Packets
<1>3. QED
  BY <1>1, <1>2, PopElements DEF Held, Packets, NoPacket

\* One step per action of the SEEDLink thread.
LEMMA SrcOrdered ==
  ASSUME StagesTyped, Ordered, SrcNext \/ SrcCollect \/ SrcIsTerminated
  PROVE  Ordered' /\ (Takes \/ Thins)
<1> USE DEF NoPacket
<1>0. Increasing(wire) /\ Increasing(exportQueue) /\ Increasing(importQueue)
  BY DEF Ordered
<1>1. UNCHANGED <<tabHand, exportQueue, pubHand, wire, proxy>>
  BY DEF SrcNext, SrcCollect, SrcIsTerminated, SrcRecover, SrcPoll, SrcGetsNothing,
         SrcHandOver, SrcBatchDone, SrcSize, SrcEvict, SrcPush, SrcLeave, SrcStep,
         tabVars, publisherVars, pubVars, streamVars
<1>2. CASE SrcHandOver
  BY <1>2, TakesOrdered
<1>3. CASE SrcRecover \/ SrcPoll \/ SrcGetsNothing \/ SrcBatchDone \/ SrcSize \/ SrcLeave
           \/ SrcCollect \/ SrcIsTerminated
  <2>1. UNCHANGED stageVars
    BY <1>1, <1>3 DEF SrcRecover, SrcPoll, SrcGetsNothing, SrcBatchDone, SrcSize, SrcLeave,
                      SrcCollect, SrcIsTerminated, stageVars
  <2>2. QED
    BY <2>1, QuietStep
<1>4. CASE SrcEvict
  <2>1. CASE importQueue = <<>>
    <3>1. UNCHANGED stageVars
      BY <1>1, <1>4, <2>1 DEF SrcEvict, stageVars
    <3>2. QED
      BY <3>1, QuietStep
  <2>2. CASE importQueue # <<>>
    <3>1. importQueue' = Tail(importQueue) /\ UNCHANGED <<arrived, srcHand>>
      BY <1>4, <2>2 DEF SrcEvict
    <3>2. Elements(importQueue)' \subseteq Elements(importQueue)
          /\ Increasing(importQueue)'
      BY <3>1, <2>2, <1>0, PopElements DEF StagesTyped
    <3>3. QED
      BY <1>0, <1>1, <3>1, <3>2, Shrinks
  <2>3. QED
    BY <2>1, <2>2
<1>5. CASE SrcPush
  <2>1. srcHand \in Packets /\ Held(srcHand) = {srcHand}
        /\ arrived' = arrived /\ Held(srcHand)' = {}
    BY <1>5 DEF SrcPush, SrcStep, StagesTyped, HandsFull, SrcHandFull, Packets, Held
  <2>2. CASE ~HasRoom(importQueue, ImportCapacity)
    <3>1. importQueue' = importQueue
      BY <1>5, <2>2 DEF SrcPush
    <3>2. QED
      BY <1>0, <1>1, <2>1, <3>1, Shrinks
  <2>3. CASE HasRoom(importQueue, ImportCapacity)
    <3>1. importQueue' = Append(importQueue, srcHand)
      BY <1>5, <2>3 DEF SrcPush
    <3>2. \A e \in Elements(importQueue) : e < srcHand
      BY <2>1, ElementsTyped DEF Ordered, Staged, Younger, StagesTyped, Packets
    <3>3. Elements(importQueue)' = Elements(importQueue) \cup {srcHand}
          /\ Increasing(importQueue)'
      BY <1>0, <2>1, <3>1, <3>2, PushElements DEF StagesTyped
    <3>4. Thins
      BY <1>1, <2>1, <3>3 DEF Thins, InFlight, InMemory
    <3>5. Staged(Held(srcHand), Elements(importQueue), Held(tabHand),
                 Elements(exportQueue), Held(pubHand), Elements(wire))'
      BY <1>1, <2>1, <3>3 DEF Ordered, Staged, Younger
    <3>6. QED
      BY <1>0, <1>1, <3>3, <3>4, <3>5 DEF Ordered, Thins
  <2>4. QED
    BY <2>2, <2>3
<1>6. QED
  BY <1>2, <1>3, <1>4, <1>5 DEF SrcNext

\* The tabulator.
LEMMA TabOrdered ==
  ASSUME StagesTyped, Ordered, TabNext
  PROVE  Ordered' /\ Thins
<1> USE DEF NoPacket
<1>0. Increasing(wire) /\ Increasing(exportQueue) /\ Increasing(importQueue)
  BY DEF Ordered
<1>1. UNCHANGED <<arrived, srcHand, pubHand, wire, proxy>>
  BY DEF TabNext, TabLoop, TabPop, TabSize, TabEvict, TabPush, TabStep, srcVars,
         pubVars, streamVars
<1>2. CASE TabLoop \/ TabSize \/ (TabPop /\ importQueue = <<>>)
           \/ (TabEvict /\ exportQueue = <<>>)
  <2>1. UNCHANGED stageVars
    BY <1>1, <1>2 DEF TabLoop, TabSize, TabPop, TabEvict, stageVars
  <2>2. QED
    BY <2>1, QuietStep
<1>3. CASE TabPop /\ importQueue # <<>>
  <2>1. /\ tabHand = NoPacket /\ tabHand' = Head(importQueue)
        /\ importQueue' = Tail(importQueue) /\ exportQueue' = exportQueue
    BY <1>3 DEF TabPop, TabStep, StagesTyped, HandsFull, TabHandFull
  <2>2. Held(tabHand) = {}
    BY <2>1 DEF Held
  <2>3. /\ Held(tabHand)' = {Head(importQueue)}
        /\ Elements(importQueue) = {Head(importQueue)} \cup Elements(importQueue)'
        /\ \A e \in Elements(importQueue)' : e > Head(importQueue)
        /\ Increasing(importQueue)'
    BY <1>0, <1>3, <2>1, Popped DEF StagesTyped
  <2>4. Thins
    BY <1>1, <2>1, <2>3 DEF Thins, InFlight, InMemory
  <2>5. Staged(Held(srcHand), Elements(importQueue), Held(tabHand),
               Elements(exportQueue), Held(pubHand), Elements(wire))'
    BY <1>1, <2>1, <2>2, <2>3 DEF Ordered, Staged, Younger
  <2>6. QED
    BY <1>0, <1>1, <2>1, <2>3, <2>4, <2>5 DEF Ordered, Thins
<1>4. CASE TabEvict /\ exportQueue # <<>>
  <2>1. exportQueue' = Tail(exportQueue) /\ UNCHANGED <<tabHand, importQueue>>
    BY <1>4 DEF TabEvict
  <2>2. Elements(exportQueue)' \subseteq Elements(exportQueue)
        /\ Increasing(exportQueue)'
    BY <2>1, <1>4, <1>0, PopElements DEF StagesTyped
  <2>3. QED
    BY <1>0, <1>1, <2>1, <2>2, Shrinks
<1>5. CASE TabPush
  <2>1. tabHand \in Packets /\ Held(tabHand) = {tabHand} /\ Held(tabHand)' = {}
        /\ importQueue' = importQueue
    BY <1>5 DEF TabPush, TabStep, StagesTyped, HandsFull, TabHandFull, Packets, Held
  <2>2. CASE ~HasRoom(exportQueue, ExportCapacity)
    <3>1. exportQueue' = exportQueue
      BY <1>5, <2>2 DEF TabPush
    <3>2. QED
      BY <1>0, <1>1, <2>1, <3>1, Shrinks
  <2>3. CASE HasRoom(exportQueue, ExportCapacity)
    <3>1. exportQueue' = Append(exportQueue, tabHand)
      BY <1>5, <2>3 DEF TabPush
    <3>2. \A e \in Elements(exportQueue) : e < tabHand
      BY <2>1, ElementsTyped DEF Ordered, Staged, Younger, StagesTyped, Packets
    <3>3. Elements(exportQueue)' = Elements(exportQueue) \cup {tabHand}
          /\ Increasing(exportQueue)'
      BY <1>0, <2>1, <3>1, <3>2, PushElements DEF StagesTyped
    <3>4. Thins
      BY <1>1, <2>1, <3>3 DEF Thins, InFlight, InMemory
    <3>5. Staged(Held(srcHand), Elements(importQueue), Held(tabHand),
                 Elements(exportQueue), Held(pubHand), Elements(wire))'
      BY <1>1, <2>1, <3>3 DEF Ordered, Staged, Younger
    <3>6. QED
      BY <1>0, <1>1, <2>1, <3>3, <3>4, <3>5 DEF Ordered, Thins
  <2>4. QED
    BY <2>2, <2>3
<1>6. QED
  BY <1>2, <1>3, <1>4, <1>5 DEF TabNext

\* The publisher.
LEMMA PubOrdered ==
  ASSUME StagesTyped, Ordered, PubNext, PipelineUnchanged
  PROVE  Ordered' /\ Thins
<1> USE DEF NoPacket
<1>0. Increasing(wire) /\ Increasing(exportQueue) /\ Increasing(importQueue)
  BY DEF Ordered
<1>1. UNCHANGED <<arrived, srcHand, importQueue, tabHand>>
  BY DEF PipelineUnchanged, srcVars, tabVars
<1>2. CASE PubTop \/ PubWaitPredicate \/ PubBlocks \/ PubWaitTimesOut \/ PubRecheck
           \/ PubConnect \/ PubPoll \/ PubClosing \/ PubFinish \/ PubAfter
           \/ (PubPop /\ exportQueue = <<>>)
  <2>1. UNCHANGED stageVars
    BY <1>1, <1>2 DEF PubTop, PubWaitPredicate, PubBlocks, PubWaitTimesOut,
       PubRecheck, PubConnect, PubPoll, PubClosing, PubFinish, PubAfter, PubPop,
       streamVars, stageVars
  <2>2. QED
    BY <2>1, QuietStep
<1>3. CASE PubPop /\ exportQueue # <<>>
  <2>1. /\ pubHand = NoPacket /\ pubHand' = Head(exportQueue)
        /\ exportQueue' = Tail(exportQueue) /\ UNCHANGED <<wire, proxy>>
    BY <1>3 DEF PubPop, streamVars, StagesTyped, HandsFull, PubHandFull
  <2>2. Held(pubHand) = {}
    BY <2>1 DEF Held
  <2>3. /\ Held(pubHand)' = {Head(exportQueue)}
        /\ Elements(exportQueue) = {Head(exportQueue)} \cup Elements(exportQueue)'
        /\ \A e \in Elements(exportQueue)' : e > Head(exportQueue)
        /\ Increasing(exportQueue)'
    BY <1>0, <1>3, <2>1, Popped DEF StagesTyped
  <2>4. Thins
    BY <1>1, <2>1, <2>3 DEF Thins, InFlight, InMemory
  <2>5. Staged(Held(srcHand), Elements(importQueue), Held(tabHand),
               Elements(exportQueue), Held(pubHand), Elements(wire))'
    BY <1>1, <2>1, <2>2, <2>3 DEF Ordered, Staged, Younger
  <2>6. QED
    BY <1>0, <1>1, <2>1, <2>3, <2>4, <2>5 DEF Ordered, Thins
<1>4. CASE PubWriteSucceeds
  <2>1. /\ pubHand \in Packets /\ Held(pubHand) = {pubHand} /\ Held(pubHand)' = {}
        /\ wire' = Append(wire, pubHand) /\ UNCHANGED <<exportQueue, proxy>>
    BY <1>4 DEF PubWriteSucceeds, Goto, StagesTyped, HandsFull, PubHandFull, Packets,
                Held
  <2>2. \A e \in Elements(wire) : e < pubHand
    BY <2>1, ElementsTyped DEF Ordered, Staged, Younger, StagesTyped, Packets
  <2>3. Elements(wire)' = Elements(wire) \cup {pubHand} /\ Increasing(wire)'
    BY <1>0, <2>1, <2>2, PushElements DEF StagesTyped
  <2>4. Thins
    BY <1>1, <2>1, <2>3 DEF Thins, InFlight, InMemory
  <2>5. Staged(Held(srcHand), Elements(importQueue), Held(tabHand),
               Elements(exportQueue), Held(pubHand), Elements(wire))'
    BY <1>1, <2>1, <2>3 DEF Ordered, Staged, Younger
  <2>6. QED
    BY <1>0, <1>1, <2>1, <2>3, <2>4, <2>5 DEF Ordered, Thins
<1>5. CASE PubWriteFails
  <2>1. Held(pubHand)' = {} /\ UNCHANGED <<exportQueue, wire, proxy>>
    BY <1>5 DEF PubWriteFails, Held
  <2>2. QED
    BY <1>0, <1>1, <2>1, Shrinks
<1>6. QED
  BY <1>2, <1>3, <1>4, <1>5 DEF PubNext

\* The stream: the packet the proxy receives is the oldest of all.
LEMMA StreamOrdered ==
  ASSUME StagesTyped, Ordered, StreamNext, PipelineUnchanged
  PROVE  Ordered' /\ (Delivers \/ Thins)
<1>0. Increasing(wire) /\ Increasing(exportQueue) /\ Increasing(importQueue)
  BY DEF Ordered
<1>1. UNCHANGED <<arrived, srcHand, importQueue, tabHand, exportQueue, pubHand>>
  BY DEF PipelineUnchanged, srcVars, tabVars, StreamNext, ProxyReceives, StreamBreaks,
         pubVars
<1>2. CASE ProxyReceives
  <2>1. wire # <<>> /\ wire' = Tail(wire) /\ proxy' = Append(proxy, Head(wire))
    BY <1>2 DEF ProxyReceives
  <2>2. /\ Elements(wire) = {Head(wire)} \cup Elements(wire)'
        /\ \A e \in Elements(wire)' : e > Head(wire)
        /\ Increasing(wire)'
        /\ Head(wire) \in Nat
    BY <1>0, <2>1, Popped DEF StagesTyped, Packets
  <2>3. InMemory' = InMemory /\ \A p \in InMemory : p > Head(wire)
    BY <1>1, <2>2 DEF InMemory, Ordered, Staged, Younger
  <2>4. InFlight \subseteq Nat
    BY DEF Ordered, StagesTyped
  <2>5. Delivers
    <3>1. Head(wire) \in InFlight
      BY <2>2 DEF InFlight
    <3>2. \A q \in InFlight : q = Head(wire) \/ q > Head(wire)
      BY <2>2, <2>3 DEF InFlight
    <3>3. \A q \in InFlight : Head(wire) <= q
      BY <3>2, <2>2, <2>4
    <3>4. Head(wire) \notin InMemory /\ Head(wire) \notin Elements(wire)'
      BY <2>2, <2>3
    <3>5. InFlight' = InFlight \ {Head(wire)}
      BY <2>2, <2>3, <3>4 DEF InFlight
    <3>6. QED
      BY <1>1, <2>1, <3>1, <3>3, <3>5 DEF Delivers
  <2>6. Staged(Held(srcHand), Elements(importQueue), Held(tabHand),
               Elements(exportQueue), Held(pubHand), Elements(wire))'
    BY <1>1, <2>2 DEF Ordered, Staged, Younger
  <2>7. InFlight' \subseteq 1..arrived'
    BY <1>1, <2>2, <2>3 DEF Ordered, InFlight
  <2>8. QED
    BY <1>0, <1>1, <2>2, <2>5, <2>6, <2>7 DEF Ordered
<1>3. CASE StreamBreaks
  <2>1. wire' = <<>> /\ proxy' = proxy
    BY <1>3 DEF StreamBreaks
  <2>2. Elements(wire)' = {} /\ Increasing(wire)'
    BY <2>1 DEF Elements, Increasing
  <2>3. QED
    BY <1>0, <1>1, <2>1, <2>2, Shrinks
<1>4. QED
  BY <1>2, <1>3 DEF StreamNext

LEMMA OrderedNext ==
  ASSUME TypeInv, Ordered, [Next]_pipelineVars
  PROVE  Ordered' /\ (Takes \/ Delivers \/ Thins)
<1>1. StagesTyped
  BY TypeInvStages
<1>2. CASE SrcNext \/ SrcCollect \/ SrcIsTerminated
  BY <1>1, <1>2, SrcOrdered
<1>3. CASE TabNext
  BY <1>1, <1>3, TabOrdered
<1>4. CASE PubNext /\ PipelineUnchanged
  BY <1>1, <1>4, PubOrdered
<1>5. CASE StreamNext /\ PipelineUnchanged
  BY <1>1, <1>5, StreamOrdered
<1>6. CASE ShutdownNext \/ UNCHANGED pipelineVars
  <2>1. UNCHANGED stageVars
    BY <1>6 DEF ShutdownNext, RequestShutdown, NotifyShutdown, StopRunning,
       StopClient, ThreadsUnchanged, pipelineVars, publisherVars, pubVars, srcVars,
       tabVars, streamVars, stageVars
  <2>2. QED
    BY <2>1, QuietStep
<1>7. QED
  BY <1>2, <1>3, <1>4, <1>5, <1>6 DEF Next, ThreadsNext

LEMMA OrderedInit == Init => Ordered /\ InFlight = {}
<1> SUFFICES ASSUME Init PROVE Ordered /\ InFlight = {}
  OBVIOUS
<1>1. /\ srcHand = NoPacket /\ tabHand = NoPacket /\ pubHand = NoPacket
      /\ importQueue = <<>> /\ exportQueue = <<>> /\ wire = <<>>
  BY DEF Init, ThreadsInit, PubInit
<1>2. Held(srcHand) = {} /\ Held(tabHand) = {} /\ Held(pubHand) = {}
      /\ Elements(importQueue) = {} /\ Elements(exportQueue) = {}
      /\ Elements(wire) = {}
  BY <1>1 DEF Held, Elements
<1>3. QED
  BY <1>1, <1>2 DEF Ordered, Increasing, Staged, Younger, InFlight, InMemory

LEMMA OrderedAlways == Spec => []Ordered
<1>1. Init => Ordered
  BY OrderedInit
<1>2. TypeInv /\ Ordered /\ [Next]_pipelineVars => Ordered'
  BY OrderedNext
<1>3. QED
  BY <1>1, <1>2, TypeInvAlways, PTL DEF Spec

\* The packets stay in order over both queues, the three hands and the stream,
\* for every capacity, window and retry schedule.
THEOREM AlwaysOrdered == Spec => []Ordered
  BY OrderedAlways

LEMMA ChannelStep ==
  ASSUME Takes \/ Delivers \/ Thins
  PROVE  Channel!Next
<1>1. Takes => Channel!Accept
  BY DEF Takes, Channel!Accept
<1>2. Delivers => Channel!Deliver
  BY DEF Delivers, Channel!Deliver
<1>3. Thins => Channel!Drop
  <2>1. SUFFICES ASSUME Thins PROVE Channel!Drop
    OBVIOUS
  <2>2. InFlight' = InFlight \ (InFlight \ InFlight')
    BY <2>1 DEF Thins
  <2>3. QED
    BY <2>1, <2>2 DEF Thins, Channel!Drop
<1>4. QED
  BY <1>1, <1>2, <1>3 DEF Channel!Next

LEMMA ChannelInit == Init => Channel!Init
  BY OrderedInit DEF Init, ThreadsInit, PubInit, Channel!Init

\* The forwarding path is a lossy channel: whatever the threads, the proxy and
\* the shutdown do, packets are at most lost, and come out in the order in
\* which addPacketCallback was called.
THEOREM ForwarderIsLossyFifo == Spec => IsLossyFifo
<1>1. TypeInv /\ Ordered /\ [Next]_pipelineVars
        => [Channel!Next]_(Channel!channelVars)
  BY OrderedNext, ChannelStep
<1>2. QED
  BY <1>1, ChannelInit, TypeInvAlways, OrderedAlways, PTL
     DEF Spec, IsLossyFifo, Channel!Spec

Promise == INSTANCE LossyFifoProofs
             WITH accepted <- arrived, inFlight <- InFlight, delivered <- proxy

LEMMA ChannelKeepsOrder == IsLossyFifo => []Channel!InOrderAtMostOnce
<1>1. Promise!Spec => []Promise!InOrderAtMostOnce
  BY Promise!ChannelInOrder
<1>2. Promise!InOrderAtMostOnce <=> Channel!InOrderAtMostOnce
  BY DEF Promise!InOrderAtMostOnce, Channel!InOrderAtMostOnce
<1>3. Channel!Init => Promise!Init
  BY DEF Promise!Init, Channel!Init
<1>4. [Channel!Next]_(Channel!channelVars) => [Promise!Next]_(Promise!channelVars)
  BY DEF Promise!Next, Channel!Next, Promise!Accept, Channel!Accept, Promise!Drop,
         Channel!Drop, Promise!Deliver, Channel!Deliver, Promise!channelVars,
         Channel!channelVars
<1>5. QED
  BY <1>1, <1>2, <1>3, <1>4, PTL DEF IsLossyFifo, Channel!Spec, Promise!Spec

\* So the proxy never sees a packet twice, nor one before an older one: the
\* promise of the channel, carried over by the refinement.
THEOREM ProxyReceivesInOrder == Spec => []Channel!InOrderAtMostOnce
  BY ForwarderIsLossyFifo, ChannelKeepsOrder, PTL

-----------------------------------------------------------------------------
(* Where the packets are: each in exactly one place. *)

PlaceIds == 1..11

Parted(P, n) ==
  /\ \A k \in PlaceIds : P[k] \subseteq 1..n
  /\ \A p \in 1..n : \E k \in PlaceIds : p \in P[k]
  /\ \A k, l \in PlaceIds : k # l => P[k] \cap P[l] = {}

LEMMA PartedIs ==
  ASSUME NEW P, NEW n, DOMAIN P = PlaceIds
  PROVE  (/\ UNION {P[k] : k \in DOMAIN P} = 1..n
          /\ \A k, l \in DOMAIN P : k < l => P[k] \cap P[l] = {})
           <=> Parted(P, n)
<1>1. \A k, l \in PlaceIds : k # l => k < l \/ l < k
  BY DEF PlaceIds
<1>2. (\A k, l \in PlaceIds : k < l => P[k] \cap P[l] = {})
        <=> (\A k, l \in PlaceIds : k # l => P[k] \cap P[l] = {})
  <2>1. \A k, l \in PlaceIds : k < l => k # l
    BY DEF PlaceIds
  <2>2. \A k, l \in PlaceIds : P[k] \cap P[l] = P[l] \cap P[k]
    OBVIOUS
  <2>3. QED
    BY <1>1, <2>1, <2>2
<1>3. UNION {P[k] : k \in PlaceIds} = 1..n
        <=> /\ \A k \in PlaceIds : P[k] \subseteq 1..n
            /\ \A p \in 1..n : \E k \in PlaceIds : p \in P[k]
  <2>1. \A p : p \in UNION {P[k] : k \in PlaceIds}
                 <=> \E k \in PlaceIds : p \in P[k]
    OBVIOUS
  <2>2. UNION {P[k] : k \in PlaceIds} = 1..n
          <=> \A p : p \in 1..n <=> \E k \in PlaceIds : p \in P[k]
    BY <2>1
  <2>3. QED
    BY <2>2
<1>4. QED
  BY <1>2, <1>3 DEF Parted

LEMMA ConservedParted ==
  /\ Conserved <=> Parted(Places, arrived)
  /\ Conserved' <=> Parted(Places', arrived')
<1>1. DOMAIN Places = PlaceIds /\ DOMAIN Places' = PlaceIds
  BY DEF Places, PlaceIds
<1>2. QED
  BY <1>1, PartedIs DEF Conserved

\* Some packets move from one place to another.
LEMMA Moves ==
  ASSUME NEW P, NEW Q, NEW n, Parted(P, n),
         NEW i \in PlaceIds, NEW j \in PlaceIds, i # j,
         NEW X \in SUBSET P[i],
         Q[i] = P[i] \ X, Q[j] = P[j] \cup X,
         \A k \in PlaceIds \ {i, j} : Q[k] = P[k]
  PROVE  Parted(Q, n)
<1>1. \A k \in PlaceIds : Q[k] \subseteq 1..n
  BY DEF Parted
<1>2. \A p \in 1..n : \E k \in PlaceIds : p \in Q[k]
  <2>1. TAKE p \in 1..n
  <2>2. PICK k \in PlaceIds : p \in P[k]
    BY DEF Parted
  <2>3. CASE p \in X
    BY <2>3
  <2>4. CASE p \notin X
    BY <2>2, <2>4
  <2>5. QED
    BY <2>3, <2>4
<1>3. ASSUME NEW k \in PlaceIds, NEW l \in PlaceIds, k # l
      PROVE  Q[k] \cap Q[l] = {}
  <2>1. /\ k # i /\ k # j => Q[k] = P[k] /\ Q[k] \cap X = {}
        /\ l # i /\ l # j => Q[l] = P[l] /\ Q[l] \cap X = {}
    BY DEF Parted
  <2>2. P[k] \cap P[l] = {}
    BY <1>3 DEF Parted
  <2>3. P[i] \cap P[j] = {}
    BY DEF Parted
  <2>4. QED
    BY <1>3, <2>1, <2>2, <2>3
<1>4. QED
  BY <1>1, <1>2, <1>3 DEF Parted

\* A new packet enters the first place, which was empty.
LEMMA Enters ==
  ASSUME NEW P, NEW Q, NEW n \in Nat, Parted(P, n),
         P[1] = {}, Q[1] = {n + 1},
         \A k \in PlaceIds \ {1} : Q[k] = P[k]
  PROVE  Parted(Q, n + 1)
<1>1. 1 \in PlaceIds /\ 1..n + 1 = (1..n) \cup {n + 1} /\ n + 1 \notin 1..n
  BY DEF PlaceIds
<1>2. \A k \in PlaceIds : Q[k] \subseteq 1..n + 1
  BY <1>1 DEF Parted
<1>3. \A p \in 1..n + 1 : \E k \in PlaceIds : p \in Q[k]
  BY <1>1 DEF Parted
<1>4. ASSUME NEW k \in PlaceIds, NEW l \in PlaceIds, k # l
      PROVE  Q[k] \cap Q[l] = {}
  BY <1>1, <1>4 DEF Parted
<1>5. QED
  BY <1>2, <1>3, <1>4 DEF Parted

\* The places by name, for the moves below.
LEMMA PlacesAre ==
  /\ Places[1] = Held(srcHand) /\ Places[2] = Elements(importQueue)
  /\ Places[3] = Held(tabHand) /\ Places[4] = Elements(exportQueue)
  /\ Places[5] = Held(pubHand) /\ Places[6] = Elements(wire)
  /\ Places[7] = Elements(proxy) /\ Places[8] = importEvicted
  /\ Places[9] = exportEvicted /\ Places[10] = refused /\ Places[11] = lost
  BY DEF Places

LEMMA PlacesBecome ==
  /\ Places'[1] = Held(srcHand)' /\ Places'[2] = Elements(importQueue)'
  /\ Places'[3] = Held(tabHand)' /\ Places'[4] = Elements(exportQueue)'
  /\ Places'[5] = Held(pubHand)' /\ Places'[6] = Elements(wire)'
  /\ Places'[7] = Elements(proxy)' /\ Places'[8] = importEvicted'
  /\ Places'[9] = exportEvicted' /\ Places'[10] = refused' /\ Places'[11] = lost'
  BY DEF Places

LEMMA PlaceIdsAre ==
  /\ PlaceIds = {1, 2, 3, 4, 5, 6, 7, 8, 9, 10, 11}
  BY DEF PlaceIds

\* The first packet of a queue leaves it; it is in the queue only once.
LEMMA PopsOut ==
  ASSUME NEW q \in Seq(Packets), q # <<>>, Increasing(q)
  PROVE  /\ Head(q) \in Elements(q)
         /\ Elements(Tail(q)) = Elements(q) \ {Head(q)}
         /\ Held(Head(q)) = {Head(q)}
<1>1. Elements(Tail(q)) \subseteq Nat
  BY PopElements, ElementsTyped, HeadTail
<1>2. Head(q) \notin Elements(Tail(q))
  BY <1>1, PopElements
<1>3. QED
  BY <1>2, PopElements, Popped

placeVars == <<arrived, srcHand, importQueue, tabHand, exportQueue, pubHand, wire,
               proxy, importEvicted, exportEvicted, refused, lost>>

LEMMA QuietPlaces ==
  ASSUME Conserved, UNCHANGED placeVars
  PROVE  Conserved'
<1>1. Places' = Places /\ arrived' = arrived
  BY DEF placeVars, Places, Held, Elements
<1>2. QED
  BY <1>1, ConservedParted

\* A step that moves the packets of X from place i to place j.
Moved(i, j, X) ==
  /\ arrived' = arrived
  /\ X \subseteq Places[i]
  /\ Places'[i] = Places[i] \ X
  /\ Places'[j] = Places[j] \cup X
  /\ \A k \in PlaceIds \ {i, j} : Places'[k] = Places[k]

LEMMA MovedConserves ==
  ASSUME Conserved, NEW i \in PlaceIds, NEW j \in PlaceIds, i # j, NEW X,
         Moved(i, j, X)
  PROVE  Conserved'
<1>1. Parted(Places, arrived)
  BY ConservedParted
<1>2. Parted(Places', arrived)
  BY <1>1, Moves DEF Moved
<1>3. QED
  BY <1>2, ConservedParted DEF Moved

LEMMA SrcConserved ==
  ASSUME StagesTyped, Ordered, Conserved, SrcNext \/ SrcCollect \/ SrcIsTerminated
  PROVE  Conserved'
<1> USE DEF NoPacket
<1>0. Increasing(importQueue) /\ Parted(Places, arrived)
  BY ConservedParted DEF Ordered
<1>1. UNCHANGED <<tabHand, exportQueue, pubHand, wire, proxy, exportEvicted, lost>>
  BY DEF SrcNext, SrcCollect, SrcIsTerminated, SrcRecover, SrcPoll, SrcGetsNothing,
         SrcHandOver, SrcBatchDone, SrcSize, SrcEvict, SrcPush, SrcLeave, SrcStep,
         tabVars, publisherVars, pubVars, streamVars
<1>2. CASE SrcHandOver
  <2>1. /\ srcHand = NoPacket /\ srcHand' = arrived + 1 /\ arrived' = arrived + 1
        /\ UNCHANGED <<importQueue, importEvicted, refused>>
    BY <1>2 DEF SrcHandOver, SrcStep, StagesTyped, HandsFull, SrcHandFull
  <2>2. Held(srcHand) = {} /\ Held(srcHand)' = {arrived + 1} /\ arrived \in Nat
    BY <2>1 DEF Held, StagesTyped
  <2>3. \A k \in PlaceIds \ {1} : Places'[k] = Places[k]
    BY <1>1, <2>1, PlacesAre, PlacesBecome, PlaceIdsAre
  <2>4. Parted(Places', arrived + 1)
    BY <1>0, <2>2, <2>3, PlacesAre, PlacesBecome, Enters
  <2>5. QED
    BY <2>1, <2>4, ConservedParted
<1>3. CASE SrcRecover \/ SrcPoll \/ SrcGetsNothing \/ SrcBatchDone \/ SrcSize \/ SrcLeave
           \/ SrcCollect \/ SrcIsTerminated
  <2>1. UNCHANGED placeVars
    BY <1>1, <1>3 DEF SrcRecover, SrcPoll, SrcGetsNothing, SrcBatchDone, SrcSize, SrcLeave,
                      SrcCollect, SrcIsTerminated, placeVars
  <2>2. QED
    BY <2>1, QuietPlaces
<1>4. CASE SrcEvict
  <2>1. CASE importQueue = <<>>
    <3>1. UNCHANGED placeVars
      BY <1>1, <1>4, <2>1 DEF SrcEvict, placeVars
    <3>2. QED
      BY <3>1, QuietPlaces
  <2>2. CASE importQueue # <<>>
    <3>1. /\ importQueue' = Tail(importQueue)
          /\ importEvicted' = importEvicted \cup {Head(importQueue)}
          /\ UNCHANGED <<arrived, srcHand, refused>>
      BY <1>4, <2>2 DEF SrcEvict
    <3>2. /\ Head(importQueue) \in Elements(importQueue)
          /\ Elements(importQueue)' = Elements(importQueue) \ {Head(importQueue)}
      BY <1>0, <2>2, <3>1, PopsOut DEF StagesTyped
    <3>3. Moved(2, 8, {Head(importQueue)})
      BY <1>1, <3>1, <3>2, PlacesAre, PlacesBecome, PlaceIdsAre DEF Moved
    <3>4. QED
      BY <3>3, PlaceIdsAre, MovedConserves
  <2>3. QED
    BY <2>1, <2>2
<1>5. CASE SrcPush
  <2>1. /\ srcHand \in Packets /\ Held(srcHand) = {srcHand} /\ Held(srcHand)' = {}
        /\ UNCHANGED <<arrived, importEvicted>>
    BY <1>5 DEF SrcPush, SrcStep, StagesTyped, HandsFull, SrcHandFull, Packets, Held
  <2>2. CASE ~HasRoom(importQueue, ImportCapacity)
    <3>1. importQueue' = importQueue /\ refused' = refused \cup {srcHand}
      BY <1>5, <2>2 DEF SrcPush
    <3>2. Moved(1, 10, {srcHand})
      BY <1>1, <2>1, <3>1, PlacesAre, PlacesBecome, PlaceIdsAre DEF Moved
    <3>3. QED
      BY <3>2, PlaceIdsAre, MovedConserves
  <2>3. CASE HasRoom(importQueue, ImportCapacity)
    <3>1. importQueue' = Append(importQueue, srcHand) /\ refused' = refused
      BY <1>5, <2>3 DEF SrcPush
    <3>2. Elements(importQueue)' = Elements(importQueue) \cup {srcHand}
      BY <2>1, <3>1, AppendElements DEF StagesTyped
    <3>3. Moved(1, 2, {srcHand})
      BY <1>1, <2>1, <3>1, <3>2, PlacesAre, PlacesBecome, PlaceIdsAre DEF Moved
    <3>4. QED
      BY <3>3, PlaceIdsAre, MovedConserves
  <2>4. QED
    BY <2>2, <2>3
<1>6. QED
  BY <1>2, <1>3, <1>4, <1>5 DEF SrcNext

LEMMA TabConserved ==
  ASSUME StagesTyped, Ordered, Conserved, TabNext
  PROVE  Conserved'
<1> USE DEF NoPacket
<1>0. Increasing(importQueue) /\ Increasing(exportQueue)
  BY DEF Ordered
<1>1. UNCHANGED <<arrived, srcHand, pubHand, wire, proxy, importEvicted, lost>>
  BY DEF TabNext, TabLoop, TabPop, TabSize, TabEvict, TabPush, TabStep, srcVars,
         pubVars, streamVars
<1>2. CASE TabLoop \/ TabSize \/ (TabPop /\ importQueue = <<>>)
           \/ (TabEvict /\ exportQueue = <<>>)
  <2>1. UNCHANGED placeVars
    BY <1>1, <1>2 DEF TabLoop, TabSize, TabPop, TabEvict, placeVars
  <2>2. QED
    BY <2>1, QuietPlaces
<1>3. CASE TabPop /\ importQueue # <<>>
  <2>1. /\ tabHand = NoPacket /\ tabHand' = Head(importQueue)
        /\ importQueue' = Tail(importQueue)
        /\ UNCHANGED <<exportQueue, exportEvicted, refused>>
    BY <1>3 DEF TabPop, TabStep, StagesTyped, HandsFull, TabHandFull
  <2>2. /\ Head(importQueue) \in Elements(importQueue)
        /\ Elements(importQueue)' = Elements(importQueue) \ {Head(importQueue)}
        /\ Held(Head(importQueue)) = {Head(importQueue)}
    BY <1>0, <1>3, <2>1, PopsOut DEF StagesTyped
  <2>3. Held(tabHand) = {} /\ Held(tabHand)' = {Head(importQueue)}
    BY <2>1, <2>2 DEF Held
  <2>4. Moved(2, 3, {Head(importQueue)})
    BY <1>1, <2>1, <2>2, <2>3, PlacesAre, PlacesBecome, PlaceIdsAre DEF Moved
  <2>5. QED
    BY <2>4, PlaceIdsAre, MovedConserves
<1>4. CASE TabEvict /\ exportQueue # <<>>
  <2>1. /\ exportQueue' = Tail(exportQueue)
        /\ exportEvicted' = exportEvicted \cup {Head(exportQueue)}
        /\ UNCHANGED <<tabHand, importQueue, refused>>
    BY <1>4 DEF TabEvict
  <2>2. /\ Head(exportQueue) \in Elements(exportQueue)
        /\ Elements(exportQueue)' = Elements(exportQueue) \ {Head(exportQueue)}
    BY <1>0, <1>4, <2>1, PopsOut DEF StagesTyped
  <2>3. Moved(4, 9, {Head(exportQueue)})
    BY <1>1, <2>1, <2>2, PlacesAre, PlacesBecome, PlaceIdsAre DEF Moved
  <2>4. QED
    BY <2>3, PlaceIdsAre, MovedConserves
<1>5. CASE TabPush
  <2>1. /\ tabHand \in Packets /\ Held(tabHand) = {tabHand} /\ Held(tabHand)' = {}
        /\ UNCHANGED <<importQueue, exportEvicted>>
    BY <1>5 DEF TabPush, TabStep, StagesTyped, HandsFull, TabHandFull, Packets, Held
  <2>2. CASE ~HasRoom(exportQueue, ExportCapacity)
    <3>1. exportQueue' = exportQueue /\ refused' = refused \cup {tabHand}
      BY <1>5, <2>2 DEF TabPush
    <3>2. Moved(3, 10, {tabHand})
      BY <1>1, <2>1, <3>1, PlacesAre, PlacesBecome, PlaceIdsAre DEF Moved
    <3>3. QED
      BY <3>2, PlaceIdsAre, MovedConserves
  <2>3. CASE HasRoom(exportQueue, ExportCapacity)
    <3>1. exportQueue' = Append(exportQueue, tabHand) /\ refused' = refused
      BY <1>5, <2>3 DEF TabPush
    <3>2. Elements(exportQueue)' = Elements(exportQueue) \cup {tabHand}
      BY <2>1, <3>1, AppendElements DEF StagesTyped
    <3>3. Moved(3, 4, {tabHand})
      BY <1>1, <2>1, <3>1, <3>2, PlacesAre, PlacesBecome, PlaceIdsAre DEF Moved
    <3>4. QED
      BY <3>3, PlaceIdsAre, MovedConserves
  <2>4. QED
    BY <2>2, <2>3
<1>6. QED
  BY <1>2, <1>3, <1>4, <1>5 DEF TabNext

LEMMA PubConserved ==
  ASSUME StagesTyped, Ordered, Conserved, PubNext, PipelineUnchanged
  PROVE  Conserved'
<1> USE DEF NoPacket
<1>1. UNCHANGED <<arrived, srcHand, importQueue, tabHand, importEvicted,
                  exportEvicted, refused>>
  BY DEF PipelineUnchanged, srcVars, tabVars
<1>2. CASE PubTop \/ PubWaitPredicate \/ PubBlocks \/ PubWaitTimesOut \/ PubRecheck
           \/ PubConnect \/ PubPoll \/ PubClosing \/ PubFinish \/ PubAfter
           \/ (PubPop /\ exportQueue = <<>>)
  <2>1. UNCHANGED placeVars
    BY <1>1, <1>2 DEF PubTop, PubWaitPredicate, PubBlocks, PubWaitTimesOut,
       PubRecheck, PubConnect, PubPoll, PubClosing, PubFinish, PubAfter, PubPop,
       streamVars, placeVars
  <2>2. QED
    BY <2>1, QuietPlaces
<1>3. CASE PubPop /\ exportQueue # <<>>
  <2>1. /\ pubHand = NoPacket /\ pubHand' = Head(exportQueue)
        /\ exportQueue' = Tail(exportQueue) /\ UNCHANGED <<wire, proxy, lost>>
    BY <1>3 DEF PubPop, streamVars, StagesTyped, HandsFull, PubHandFull
  <2>2. /\ Head(exportQueue) \in Elements(exportQueue)
        /\ Elements(exportQueue)' = Elements(exportQueue) \ {Head(exportQueue)}
        /\ Held(Head(exportQueue)) = {Head(exportQueue)}
    BY <1>3, <2>1, PopsOut DEF StagesTyped, Ordered
  <2>3. Held(pubHand) = {} /\ Held(pubHand)' = {Head(exportQueue)}
    BY <2>1, <2>2 DEF Held
  <2>4. Moved(4, 5, {Head(exportQueue)})
    BY <1>1, <2>1, <2>2, <2>3, PlacesAre, PlacesBecome, PlaceIdsAre DEF Moved
  <2>5. QED
    BY <2>4, PlaceIdsAre, MovedConserves
<1>4. CASE PubWriteSucceeds
  <2>1. /\ pubHand \in Packets /\ Held(pubHand) = {pubHand} /\ Held(pubHand)' = {}
        /\ wire' = Append(wire, pubHand) /\ UNCHANGED <<exportQueue, proxy, lost>>
    BY <1>4 DEF PubWriteSucceeds, Goto, StagesTyped, HandsFull, PubHandFull, Packets,
                Held
  <2>2. Elements(wire)' = Elements(wire) \cup {pubHand}
    BY <2>1, AppendElements DEF StagesTyped
  <2>3. Moved(5, 6, {pubHand})
    BY <1>1, <2>1, <2>2, PlacesAre, PlacesBecome, PlaceIdsAre DEF Moved
  <2>4. QED
    BY <2>3, PlaceIdsAre, MovedConserves
<1>5. CASE PubWriteFails
  <2>1. /\ Held(pubHand) = {pubHand} /\ Held(pubHand)' = {}
        /\ lost' = lost \cup {pubHand} /\ UNCHANGED <<exportQueue, wire, proxy>>
    BY <1>5 DEF PubWriteFails, Goto, StagesTyped, HandsFull, PubHandFull, Held
  <2>2. Moved(5, 11, {pubHand})
    BY <1>1, <2>1, PlacesAre, PlacesBecome, PlaceIdsAre DEF Moved
  <2>3. QED
    BY <2>2, PlaceIdsAre, MovedConserves
<1>6. QED
  BY <1>2, <1>3, <1>4, <1>5 DEF PubNext

LEMMA StreamConserved ==
  ASSUME StagesTyped, Ordered, Conserved, StreamNext, PipelineUnchanged
  PROVE  Conserved'
<1>1. UNCHANGED <<arrived, srcHand, importQueue, tabHand, exportQueue, pubHand,
                  importEvicted, exportEvicted, refused>>
  BY DEF PipelineUnchanged, srcVars, tabVars, StreamNext, ProxyReceives, StreamBreaks,
         pubVars
<1>2. CASE ProxyReceives
  <2>1. /\ wire # <<>> /\ wire' = Tail(wire) /\ proxy' = Append(proxy, Head(wire))
        /\ lost' = lost
    BY <1>2 DEF ProxyReceives
  <2>2. /\ Head(wire) \in Elements(wire)
        /\ Elements(wire)' = Elements(wire) \ {Head(wire)}
    BY <2>1, PopsOut DEF StagesTyped, Ordered
  <2>3. Elements(proxy)' = Elements(proxy) \cup {Head(wire)}
    BY <2>1, AppendElements, HeadTail DEF StagesTyped
  <2>4. Moved(6, 7, {Head(wire)})
    BY <1>1, <2>1, <2>2, <2>3, PlacesAre, PlacesBecome, PlaceIdsAre DEF Moved
  <2>5. QED
    BY <2>4, PlaceIdsAre, MovedConserves
<1>3. CASE StreamBreaks
  <2>1. wire' = <<>> /\ proxy' = proxy /\ lost' = lost \cup Elements(wire)
    BY <1>3 DEF StreamBreaks
  <2>2. Elements(wire)' = {}
    BY <2>1 DEF Elements
  <2>3. Moved(6, 11, Elements(wire))
    BY <1>1, <2>1, <2>2, PlacesAre, PlacesBecome, PlaceIdsAre DEF Moved
  <2>4. QED
    BY <2>3, PlaceIdsAre, MovedConserves
<1>4. QED
  BY <1>2, <1>3 DEF StreamNext

LEMMA ConservedNext ==
  ASSUME TypeInv, Ordered, Conserved, [Next]_pipelineVars
  PROVE  Conserved'
<1>1. StagesTyped
  BY TypeInvStages
<1>2. CASE SrcNext \/ SrcCollect \/ SrcIsTerminated
  BY <1>1, <1>2, SrcConserved
<1>3. CASE TabNext
  BY <1>1, <1>3, TabConserved
<1>4. CASE PubNext /\ PipelineUnchanged
  BY <1>1, <1>4, PubConserved
<1>5. CASE StreamNext /\ PipelineUnchanged
  BY <1>1, <1>5, StreamConserved
<1>6. CASE ShutdownNext \/ UNCHANGED pipelineVars
  <2>1. UNCHANGED placeVars
    BY <1>6 DEF ShutdownNext, RequestShutdown, NotifyShutdown, StopRunning,
       StopClient, ThreadsUnchanged, pipelineVars, publisherVars, pubVars, srcVars,
       tabVars, streamVars, placeVars
  <2>2. QED
    BY <2>1, QuietPlaces
<1>7. QED
  BY <1>2, <1>3, <1>4, <1>5, <1>6 DEF Next, ThreadsNext

LEMMA ConservedInit == Init => Conserved
<1> SUFFICES ASSUME Init PROVE Conserved
  OBVIOUS
<1>1. /\ srcHand = NoPacket /\ tabHand = NoPacket /\ pubHand = NoPacket
      /\ importQueue = <<>> /\ exportQueue = <<>> /\ wire = <<>> /\ proxy = <<>>
      /\ importEvicted = {} /\ exportEvicted = {} /\ refused = {} /\ lost = {}
      /\ arrived = 0
  BY DEF Init, ThreadsInit, PubInit
<1>2. \A k \in PlaceIds : Places[k] = {}
  BY <1>1, PlacesAre, PlaceIdsAre DEF Held, Elements
<1>3. Parted(Places, arrived)
  BY <1>1, <1>2 DEF Parted
<1>4. QED
  BY <1>3, ConservedParted

LEMMA ConservedAlways == Spec => []Conserved
<1>1. TypeInv /\ Ordered /\ Conserved /\ [Next]_pipelineVars => Conserved'
  BY ConservedNext
<1>2. QED
  BY <1>1, ConservedInit, TypeInvAlways, OrderedAlways, PTL DEF Spec

\* Every packet addPacketCallback was given is in exactly one place, for every
\* capacity, window and schedule: none is copied, and none disappears but by an
\* eviction, a refused push or a broken stream.
THEOREM NothingVanishes == Spec => []Conserved
  BY ConservedAlways

-----------------------------------------------------------------------------
(* A packet is evicted only from under a full queue. *)

LEMMA QueueSize ==
  ASSUME NEW q \in Seq(Packets), Increasing(q)
  PROVE  IsFiniteSet(Elements(q)) /\ Cardinality(Elements(q)) = Len(q)
<1> DEFINE f == [i \in 1..Len(q) |-> q[i]]
<1>1. Len(q) \in Nat /\ \A i \in 1..Len(q) : q[i] \in Nat
  BY DEF Packets
<1>2. f \in Bijection(1..Len(q), Elements(q))
  <2>1. f \in [1..Len(q) -> Elements(q)]
    BY DEF Elements
  <2>2. \A e \in Elements(q) : \E i \in 1..Len(q) : f[i] = e
    BY DEF Elements
  <2>3. ASSUME NEW i \in 1..Len(q), NEW j \in 1..Len(q), f[i] = f[j]
        PROVE  i = j
    <3>1. q[i] = q[j] /\ q[i] \in Nat
      BY <1>1, <2>3
    <3>2. ~(i < j) /\ ~(j < i)
      BY <3>1 DEF Increasing
    <3>3. QED
      BY <1>1, <3>2
  <2>4. QED
    BY <2>1, <2>2, <2>3 DEF Bijection, Injection, IsInjective, Surjection
<1>3. ExistsBijection(1..Len(q), Elements(q))
  BY <1>2 DEF ExistsBijection
<1>4. IsFiniteSet(1..Len(q)) /\ Cardinality(1..Len(q)) = Len(q)
  BY <1>1, FS_Interval
<1>5. QED
  BY <1>3, <1>4, FS_Bijection

\* Disjoint sets of the packets that arrived are no more than those.
LEMMA Crowd ==
  ASSUME NEW n \in Nat, NEW S \in SUBSET (1..n), NEW T \in SUBSET (1..n),
         NEW e \in 1..n, S \cap T = {}, e \notin S, e \notin T
  PROVE  /\ IsFiniteSet(S)
         /\ Cardinality(S) + Cardinality(T) + 1 <= n
<1>1. IsFiniteSet(1..n) /\ Cardinality(1..n) = n
  BY FS_Interval
<1>2. IsFiniteSet(S) /\ IsFiniteSet(T) /\ IsFiniteSet(S \cup T)
  BY <1>1, FS_Subset
<1>3. Cardinality(S) \in Nat /\ Cardinality(T) \in Nat /\ Cardinality({}) = 0
  BY <1>2, FS_CardinalityType, FS_EmptySet
<1>4. Cardinality(S \cup T) = Cardinality(S) + Cardinality(T)
  <2>1. Cardinality(S \cup T)
          = Cardinality(S) + Cardinality(T) - Cardinality(S \cap T)
    BY <1>2, FS_Union
  <2>2. Cardinality(S \cap T) = 0
    BY <1>3
  <2>3. QED
    BY <1>3, <2>1, <2>2
<1>5. Cardinality((S \cup T) \cup {e}) = Cardinality(S) + Cardinality(T) + 1
  BY <1>2, <1>4, FS_AddElement
<1>6. Cardinality((S \cup T) \cup {e}) <= n
  <2>1. (S \cup T) \cup {e} \in SUBSET (1..n)
    OBVIOUS
  <2>2. Cardinality((S \cup T) \cup {e}) <= Cardinality(1..n)
    BY <1>1, <2>1, FS_Subset
  <2>3. QED
    BY <1>1, <2>2
<1>7. QED
  BY <1>2, <1>5, <1>6

\* The facts of a single queue: what was evicted from it, what it holds and what
\* the thread in front of it holds are different packets that have arrived.
LEMMA Apart ==
  ASSUME StagesTyped, Conserved
  PROVE  /\ importEvicted \subseteq 1..arrived /\ exportEvicted \subseteq 1..arrived
         /\ Elements(importQueue) \subseteq 1..arrived
         /\ Elements(exportQueue) \subseteq 1..arrived
         /\ Held(srcHand) \subseteq 1..arrived /\ Held(tabHand) \subseteq 1..arrived
         /\ importEvicted \cap Elements(importQueue) = {}
         /\ Held(srcHand) \cap (importEvicted \cup Elements(importQueue)) = {}
         /\ exportEvicted \cap Elements(exportQueue) = {}
         /\ Held(tabHand) \cap (exportEvicted \cup Elements(exportQueue)) = {}
<1>1. Parted(Places, arrived)
  BY ConservedParted
<1>2. /\ Places[8] \cap Places[2] = {}
      /\ Places[1] \cap Places[8] = {} /\ Places[1] \cap Places[2] = {}
      /\ Places[9] \cap Places[4] = {}
      /\ Places[3] \cap Places[9] = {} /\ Places[3] \cap Places[4] = {}
  BY <1>1, PlaceIdsAre DEF Parted
<1>3. \A k \in {1, 2, 3, 4, 8, 9} : Places[k] \subseteq 1..arrived
  BY <1>1, PlaceIdsAre DEF Parted
<1>4. QED
  BY <1>2, <1>3, PlacesAre

Pressed == EvictsOnlyUnderPressure /\ FoundFull

LEMMA EvictedFinite ==
  ASSUME StagesTyped, Conserved
  PROVE  /\ IsFiniteSet(importEvicted) /\ Cardinality(importEvicted) \in Nat
         /\ IsFiniteSet(exportEvicted) /\ Cardinality(exportEvicted) \in Nat
<1>1. IsFiniteSet(1..arrived)
  BY FS_Interval DEF StagesTyped
<1>2. IsFiniteSet(importEvicted) /\ IsFiniteSet(exportEvicted)
  BY <1>1, Apart, FS_Subset
<1>3. QED
  BY <1>2, FS_CardinalityType

\* One more packet out of the queue, one more in the set.
LEMMA OneMore ==
  ASSUME NEW S, IsFiniteSet(S), NEW e
  PROVE  Cardinality(S \cup {e}) <= Cardinality(S) + 1
<1>1. Cardinality(S) \in Nat
  BY FS_CardinalityType
<1>2. Cardinality(S \cup {e}) = IF e \in S THEN Cardinality(S) ELSE Cardinality(S) + 1
  BY FS_AddElement
<1>3. QED
  BY <1>1, <1>2

LEMMA PressedSrc ==
  ASSUME StagesTyped, Ordered, Conserved, Pressed,
         SrcNext \/ SrcCollect \/ SrcIsTerminated
  PROVE  Pressed'
<1> USE PipelineAssumption
<1>1. UNCHANGED <<tabPc, tabHand, exportEvicted>> /\ arrived' \in Nat
      /\ arrived <= arrived' /\ arrived \in Nat
  BY DEF SrcNext, SrcCollect, SrcIsTerminated, SrcRecover, SrcPoll, SrcGetsNothing,
         SrcHandOver, SrcBatchDone, SrcSize, SrcEvict, SrcPush, SrcLeave, SrcStep,
         tabVars, StagesTyped
<1>2. CASE SrcEvict /\ importQueue # <<>>
  <2>1. /\ srcPc = "evict" /\ srcPc' = "size" /\ arrived' = arrived
        /\ importEvicted' = importEvicted \cup {Head(importQueue)}
    BY <1>2 DEF SrcEvict, SrcStep
  <2>2. /\ Cardinality(importEvicted') <= Cardinality(importEvicted) + 1
        /\ Cardinality(importEvicted') \in Nat /\ Cardinality(importEvicted) \in Nat
    BY <2>1, EvictedFinite, OneMore, FS_AddElement, FS_CardinalityType
  <2>3. Cardinality(importEvicted) + ImportCapacity + 1 <= arrived
    BY <2>1 DEF Pressed, FoundFull
  <2>4. Cardinality(importEvicted') + ImportCapacity <= arrived
    BY <1>1, <2>2, <2>3
  <2>5. QED
    BY <1>1, <2>1, <2>4 DEF Pressed, EvictsOnlyUnderPressure, FoundFull
<1>3. CASE SrcSize
  <2>1. /\ srcPc = "size" /\ UNCHANGED <<arrived, importEvicted>>
        /\ srcPc' = IF MustEvict(importQueue, ImportCapacity) THEN "evict" ELSE "push"
    BY <1>3 DEF SrcSize, SrcStep
  <2>2. ASSUME MustEvict(importQueue, ImportCapacity)
        PROVE  Cardinality(importEvicted) + ImportCapacity + 1 <= arrived
    <3>1. srcHand \in Held(srcHand)
      BY <2>1 DEF StagesTyped, HandsFull, SrcHandFull, Held
    <3>2. Cardinality(importEvicted) + Cardinality(Elements(importQueue)) + 1 <= arrived
      BY <3>1, Apart, Crowd DEF StagesTyped
    <3>3. Cardinality(Elements(importQueue)) = Len(importQueue)
      BY QueueSize DEF StagesTyped, Ordered
    <3>4. Len(importQueue) \in Nat /\ Len(importQueue) >= ImportCapacity
      BY <2>2 DEF MustEvict, StagesTyped
    <3>5. QED
      BY <1>1, <3>2, <3>3, <3>4, EvictedFinite
  <2>3. QED
    BY <1>1, <2>1, <2>2 DEF Pressed, EvictsOnlyUnderPressure, FoundFull
<1>4. CASE ~SrcSize /\ ~(SrcEvict /\ importQueue # <<>>)
  <2>1. srcPc' # "evict" /\ importEvicted' = importEvicted
    BY <1>4 DEF SrcNext, SrcCollect, SrcIsTerminated, SrcRecover, SrcPoll,
       SrcGetsNothing, SrcHandOver, SrcBatchDone, SrcEvict, SrcPush, SrcLeave, SrcStep
  <2>2. QED
    BY <1>1, <2>1, EvictedFinite DEF Pressed, EvictsOnlyUnderPressure, FoundFull
<1>5. QED
  BY <1>2, <1>3, <1>4

LEMMA PressedTab ==
  ASSUME StagesTyped, Ordered, Conserved, Pressed, TabNext
  PROVE  Pressed'
<1> USE PipelineAssumption
<1>1. UNCHANGED <<srcPc, srcHand, importEvicted, arrived>> /\ arrived \in Nat
  BY DEF TabNext, TabLoop, TabPop, TabSize, TabEvict, TabPush, TabStep, srcVars,
         StagesTyped
<1>2. CASE TabEvict /\ exportQueue # <<>>
  <2>1. /\ tabPc = "evict" /\ tabPc' = "size"
        /\ exportEvicted' = exportEvicted \cup {Head(exportQueue)}
    BY <1>2 DEF TabEvict, TabStep
  <2>2. /\ Cardinality(exportEvicted') <= Cardinality(exportEvicted) + 1
        /\ Cardinality(exportEvicted') \in Nat /\ Cardinality(exportEvicted) \in Nat
    BY <2>1, EvictedFinite, OneMore, FS_AddElement, FS_CardinalityType
  <2>3. Cardinality(exportEvicted) + ExportCapacity + 1 <= arrived
    BY <2>1 DEF Pressed, FoundFull
  <2>4. Cardinality(exportEvicted') + ExportCapacity <= arrived
    BY <1>1, <2>2, <2>3
  <2>5. QED
    BY <1>1, <2>1, <2>4 DEF Pressed, EvictsOnlyUnderPressure, FoundFull
<1>3. CASE TabSize
  <2>1. /\ tabPc = "size" /\ UNCHANGED exportEvicted
        /\ tabPc' = IF MustEvict(exportQueue, ExportCapacity) THEN "evict" ELSE "push"
    BY <1>3 DEF TabSize, TabStep
  <2>2. ASSUME MustEvict(exportQueue, ExportCapacity)
        PROVE  Cardinality(exportEvicted) + ExportCapacity + 1 <= arrived
    <3>1. tabHand \in Held(tabHand)
      BY <2>1 DEF StagesTyped, HandsFull, TabHandFull, Held
    <3>2. Cardinality(exportEvicted) + Cardinality(Elements(exportQueue)) + 1 <= arrived
      BY <3>1, Apart, Crowd DEF StagesTyped
    <3>3. Cardinality(Elements(exportQueue)) = Len(exportQueue)
      BY QueueSize DEF StagesTyped, Ordered
    <3>4. Len(exportQueue) \in Nat /\ Len(exportQueue) >= ExportCapacity
      BY <2>2 DEF MustEvict, StagesTyped
    <3>5. QED
      BY <1>1, <3>2, <3>3, <3>4, EvictedFinite
  <2>3. QED
    BY <1>1, <2>1, <2>2 DEF Pressed, EvictsOnlyUnderPressure, FoundFull
<1>4. CASE ~TabSize /\ ~(TabEvict /\ exportQueue # <<>>)
  <2>1. tabPc' # "evict" /\ exportEvicted' = exportEvicted
    BY <1>4 DEF TabNext, TabLoop, TabPop, TabEvict, TabPush, TabStep
  <2>2. QED
    BY <1>1, <2>1 DEF Pressed, EvictsOnlyUnderPressure, FoundFull
<1>5. QED
  BY <1>2, <1>3, <1>4

LEMMA PressedNext ==
  ASSUME TypeInv, Ordered, Conserved, Pressed, [Next]_pipelineVars
  PROVE  Pressed'
<1>1. StagesTyped
  BY TypeInvStages
<1>2. CASE SrcNext \/ SrcCollect \/ SrcIsTerminated
  BY <1>1, <1>2, PressedSrc
<1>3. CASE TabNext
  BY <1>1, <1>3, PressedTab
<1>4. CASE (PubNext /\ PipelineUnchanged) \/ (StreamNext /\ PipelineUnchanged)
           \/ ShutdownNext \/ UNCHANGED pipelineVars
  <2>1. UNCHANGED <<srcPc, tabPc, arrived, importEvicted, exportEvicted>>
    BY <1>4 DEF PipelineUnchanged, ShutdownNext, RequestShutdown, NotifyShutdown,
       StopRunning, StopClient, ThreadsUnchanged, pipelineVars, srcVars, tabVars
  <2>2. QED
    BY <2>1 DEF Pressed, EvictsOnlyUnderPressure, FoundFull
<1>5. QED
  BY <1>2, <1>3, <1>4 DEF Next, ThreadsNext

\* A queue gives up packets only under pressure, for every capacity: what was
\* ever evicted and a full queue fit into what has arrived, although size() and
\* try_pop are two calls and the other thread pops in between.
THEOREM AlwaysUnderPressure == Spec => []EvictsOnlyUnderPressure
<1>1. Init => Pressed
  BY DEF Init, ThreadsInit, Pressed, EvictsOnlyUnderPressure, FoundFull
<1>2. TypeInv /\ Ordered /\ Conserved /\ Pressed /\ [Next]_pipelineVars => Pressed'
  BY PressedNext
<1>3. Pressed => EvictsOnlyUnderPressure
  BY DEF Pressed
<1>4. QED
  BY <1>1, <1>2, <1>3, TypeInvAlways, OrderedAlways, ConservedAlways, PTL DEF Spec
=============================================================================
