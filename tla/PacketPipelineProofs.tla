------------------------- MODULE PacketPipelineProofs -------------------------
(***************************************************************************)
(* Proofs about the forwarding path, for every capacity, retry schedule    *)
(* and window: types, admission of the newest packet, and the publisher,   *)
(* that never calls Finish on a live stream, gives up only after a whole   *)
(* schedule without a packet, and never ends quietly; last, that behind a  *)
(* stop the threads run down.                                              *)
(***************************************************************************)
EXTENDS PacketPipeline, TLAPS

-----------------------------------------------------------------------------
(* Sequences used as queues. *)

LEMMA HeadTail ==
  ASSUME NEW S, NEW q \in Seq(S), q # <<>>
  PROVE  /\ Head(q) \in S
         /\ Tail(q) \in Seq(S)
         /\ Len(q) \in Nat \ {0}
         /\ Len(Tail(q)) = Len(q) - 1
         /\ Head(q) = q[1]
         /\ \A i \in 1..Len(Tail(q)) : Tail(q)[i] = q[i + 1]
  OBVIOUS

LEMMA AppendOne ==
  ASSUME NEW S, NEW q \in Seq(S), NEW e \in S
  PROVE  /\ Append(q, e) \in Seq(S)
         /\ Len(q) \in Nat
         /\ Len(Append(q, e)) = Len(q) + 1
         /\ \A i \in 1..Len(q) : Append(q, e)[i] = q[i]
         /\ Append(q, e)[Len(q) + 1] = e
  OBVIOUS

-----------------------------------------------------------------------------
(* Types. *)

LEMMA HeldPacket == \A hand \in Nat : hand # NoPacket => hand \in Packets
  BY DEF Packets

LEMMA TypeInvInit == Init => TypeInv
<1> SUFFICES ASSUME Init PROVE TypeInv
  OBVIOUS
<1> USE DEF Init, ThreadsInit, PubInit, NoPacket
<1>1. pubPc = "top" /\ pubHand = NoPacket
  OBVIOUS
<1>2. kRetry \in -1..RetryCount
  BY PublisherAssumption
<1>3. exportQueue \in Seq(Packets) /\ wire \in Seq(Packets) /\ proxy \in Seq(Packets)
  OBVIOUS
<1>4. lost \in SUBSET Packets /\ status \in Statuses
  BY DEF Statuses
<1>5. keepRunning \in BOOLEAN /\ shutdownRequested \in BOOLEAN
      /\ hadWrite \in BOOLEAN /\ writesDone \in BOOLEAN
      /\ pubHand \in Nat /\ fruitless \in Nat /\ rpc \in {"open", "broken"}
  OBVIOUS
<1> HIDE DEF Init, ThreadsInit, PubInit
<1>6. PubTypeOK
  BY <1>1, <1>2, <1>3, <1>4, <1>5 DEF PubTypeOK
<1>7. SrcTypeOK /\ TabTypeOK /\ QueueTypeOK
  BY DEF Init, ThreadsInit, SrcTypeOK, TabTypeOK, QueueTypeOK
<1>8. SrcHandFull /\ TabHandFull
  BY DEF Init, ThreadsInit, SrcHandFull, TabHandFull
<1>9. PubHandFull /\ RetriesBounded
  BY <1>1 DEF PubHandFull, RetriesBounded
<1>10. QED
  BY <1>6, <1>7, <1>8, <1>9 DEF TypeInv, TypeOK, HandsFull

\* One step per action of the SEEDLink thread; the others are not touched.
LEMMA TypeInvSrc ==
  ASSUME TypeInv, SrcNext \/ SrcCollect \/ SrcIsTerminated
  PROVE  TypeInv'
<1> USE DEF NoPacket
<1>0. PubTypeOK /\ SrcTypeOK /\ TabTypeOK /\ QueueTypeOK /\ SrcHandFull
      /\ TabHandFull /\ PubHandFull /\ RetriesBounded
  BY DEF TypeInv, TypeOK, HandsFull
<1>1. UNCHANGED <<clientRunning, tabVars, publisherVars>>
  BY DEF SrcNext, SrcCollect, SrcIsTerminated, SrcRecover, SrcPoll, SrcGetsNothing,
         SrcHandOver, SrcBatchDone, SrcSize, SrcEvict, SrcPush, SrcLeave, SrcStep
<1>2. PubTypeOK' /\ PubHandFull' /\ RetriesBounded' /\ TabTypeOK' /\ TabHandFull'
  BY <1>0, <1>1 DEF PubTypeOK, PubHandFull, RetriesBounded, TabTypeOK, TabHandFull,
         tabVars, publisherVars, pubVars, streamVars, flagVars
<1>3. SrcTypeOK' /\ QueueTypeOK' /\ SrcHandFull'
  <2> USE <1>0, <1>1 DEF SrcTypeOK, QueueTypeOK, SrcHandFull, SrcStep, tabVars
  <2>1. CASE SrcRecover \/ SrcPoll \/ SrcGetsNothing \/ SrcIsTerminated \/ SrcLeave
    BY <2>1 DEF SrcRecover, SrcPoll, SrcGetsNothing, SrcIsTerminated, SrcLeave, SrcFinal
  <2>2. CASE SrcCollect
    BY <2>2, PipelineAssumption DEF SrcCollect
  <2>3. CASE SrcHandOver
    BY <2>3 DEF SrcHandOver
  <2>4. CASE SrcBatchDone \/ SrcSize
    BY <2>4 DEF SrcBatchDone, SrcSize
  <2>5. CASE SrcEvict
    <3>1. CASE importQueue = <<>>
      BY <2>5, <3>1 DEF SrcEvict
    <3>2. CASE importQueue # <<>>
      <4>1. Head(importQueue) \in Packets /\ Tail(importQueue) \in Seq(Packets)
        BY <3>2, HeadTail
      <4>2. importQueue' = Tail(importQueue)
            /\ importEvicted' = importEvicted \cup {Head(importQueue)}
            /\ srcPc = "evict" /\ srcPc' = "size"
            /\ UNCHANGED <<batch, arrived, srcHand, refused>>
        BY <2>5, <3>2 DEF SrcEvict
      <4>3. QED
        BY <4>1, <4>2
    <3>3. QED
      BY <3>1, <3>2
  <2>6. CASE SrcPush
    BY <2>6, AppendOne, HeldPacket DEF SrcPush
  <2>7. QED
    BY <2>1, <2>2, <2>3, <2>4, <2>5, <2>6 DEF SrcNext
<1>4. QED
  BY <1>2, <1>3 DEF TypeInv, TypeOK, HandsFull

\* The tabulator.
LEMMA TypeInvTab ==
  ASSUME TypeInv, TabNext
  PROVE  TypeInv'
<1> USE DEF NoPacket
<1>0. PubTypeOK /\ SrcTypeOK /\ TabTypeOK /\ QueueTypeOK /\ SrcHandFull
      /\ TabHandFull /\ PubHandFull /\ RetriesBounded
  BY DEF TypeInv, TypeOK, HandsFull
<1>1. UNCHANGED <<clientRunning, srcPc, batch, arrived, srcHand, importEvicted,
                  pubVars, streamVars, flagVars>>
  BY DEF TabNext, TabLoop, TabPop, TabSize, TabEvict, TabPush, TabStep, srcVars
<1>2. PubHandFull' /\ RetriesBounded' /\ SrcTypeOK' /\ SrcHandFull'
  BY <1>0, <1>1 DEF PubHandFull, RetriesBounded, SrcTypeOK, SrcHandFull, pubVars
<1>3. exportQueue' \in Seq(Packets) => PubTypeOK'
  BY <1>0, <1>1 DEF PubTypeOK, pubVars, streamVars, flagVars
<1>4. exportQueue \in Seq(Packets) /\ importQueue \in Seq(Packets)
  BY <1>0 DEF PubTypeOK, QueueTypeOK
<1>5. TabTypeOK' /\ QueueTypeOK' /\ TabHandFull' /\ exportQueue' \in Seq(Packets)
  <2> USE <1>0, <1>1, <1>4 DEF TabTypeOK, QueueTypeOK, TabHandFull, TabStep
  <2>1. CASE TabLoop \/ TabSize
    BY <2>1 DEF TabLoop, TabSize
  <2>2. CASE TabPop
    <3>1. CASE importQueue = <<>>
      BY <2>2, <3>1 DEF TabPop
    <3>2. CASE importQueue # <<>>
      <4>1. Head(importQueue) \in Packets /\ Tail(importQueue) \in Seq(Packets)
        BY <3>2, HeadTail
      <4>2. Head(importQueue) \in Nat \ {0}
        BY <4>1 DEF Packets
      <4>3. QED
        BY <4>1, <4>2, <2>2, <3>2 DEF TabPop
    <3>3. QED
      BY <3>1, <3>2
  <2>3. CASE TabEvict
    <3>1. CASE exportQueue = <<>>
      BY <2>3, <3>1 DEF TabEvict
    <3>2. CASE exportQueue # <<>>
      <4>1. Head(exportQueue) \in Packets /\ Tail(exportQueue) \in Seq(Packets)
        BY <3>2, HeadTail
      <4>2. exportQueue' = Tail(exportQueue)
            /\ exportEvicted' = exportEvicted \cup {Head(exportQueue)}
            /\ tabPc = "evict" /\ tabPc' = "size"
            /\ UNCHANGED <<tabHand, importQueue, refused>>
        BY <2>3, <3>2 DEF TabEvict
      <4>3. QED
        BY <4>1, <4>2
    <3>3. QED
      BY <3>1, <3>2
  <2>4. CASE TabPush
    <3>1. /\ tabPc = "push" /\ tabPc' = "loop" /\ tabHand' = NoPacket
          /\ UNCHANGED <<importQueue, exportEvicted>>
          /\ \/ exportQueue' = Append(exportQueue, tabHand) /\ UNCHANGED refused
             \/ refused' = refused \cup {tabHand} /\ UNCHANGED exportQueue
      BY <2>4 DEF TabPush
    <3>2. tabHand \in Packets
      BY <3>1, HeldPacket
    <3>3. Append(exportQueue, tabHand) \in Seq(Packets)
      BY <3>2, AppendOne
    <3>4. QED
      BY <3>1, <3>2, <3>3
  <2>5. QED
    BY <2>1, <2>2, <2>3, <2>4 DEF TabNext
<1>6. QED
  BY <1>2, <1>3, <1>5 DEF TypeInv, TypeOK, HandsFull

\* The publisher: kRetry stays within the schedule because only the head of the
\* loop, which tests it, lets the thread into the body.
LEMMA TypeInvPub ==
  ASSUME TypeInv, PubNext, PipelineUnchanged
  PROVE  TypeInv'
<1> USE DEF NoPacket
<1>0. PubTypeOK /\ SrcTypeOK /\ TabTypeOK /\ QueueTypeOK /\ SrcHandFull
      /\ TabHandFull /\ PubHandFull /\ RetriesBounded
  BY DEF TypeInv, TypeOK, HandsFull
<1>1. SrcTypeOK' /\ TabTypeOK' /\ QueueTypeOK' /\ SrcHandFull' /\ TabHandFull'
  BY <1>0 DEF PipelineUnchanged, SrcTypeOK, TabTypeOK, QueueTypeOK, SrcHandFull,
              TabHandFull, srcVars, tabVars
<1>2. PubTypeOK' /\ PubHandFull' /\ RetriesBounded'
  <2> USE <1>0 DEF PubTypeOK, PubHandFull, RetriesBounded, PubFinal, Goto,
                   streamVars, flagVars
  <2>1. CASE PubTop
    BY <2>1, PublisherAssumption DEF PubTop
  <2>2. CASE PubWaitPredicate \/ PubBlocks \/ PubWaitTimesOut
    BY <2>2 DEF PubWaitPredicate, PubBlocks, PubWaitTimesOut
  <2>3. CASE PubRecheck \/ PubPoll \/ PubAfter
    BY <2>3 DEF PubRecheck, PubPoll, PubAfter
  <2>4. CASE PubConnect \/ PubClosing
    BY <2>4 DEF PubConnect, PubClosing
  <2>5. CASE PubPop
    <3>1. CASE exportQueue = <<>>
      BY <2>5, <3>1 DEF PubPop
    <3>2. CASE exportQueue # <<>>
      <4>1. Head(exportQueue) \in Packets /\ Tail(exportQueue) \in Seq(Packets)
        BY <3>2, HeadTail
      <4>2. Head(exportQueue) \in Nat \ {0}
        BY <4>1 DEF Packets
      <4>3. QED
        BY <4>1, <4>2, <2>5, <3>2 DEF PubPop
    <3>3. QED
      BY <3>1, <3>2
  <2>6. CASE PubWriteSucceeds
    <3>1. pubHand \in Packets
      BY <2>6, HeldPacket DEF PubWriteSucceeds
    <3>2. Append(wire, pubHand) \in Seq(Packets)
      BY <3>1, AppendOne
    <3>3. QED
      BY <2>6, <3>2 DEF PubWriteSucceeds
  <2>7. CASE PubWriteFails
    <3>1. lost \cup {pubHand} \in SUBSET Packets
      BY <2>7, HeldPacket DEF PubWriteFails
    <3>2. QED
      BY <2>7, <3>1 DEF PubWriteFails
  <2>8. CASE PubFinish
    BY <2>8, PublisherAssumption DEF PubFinish, NextRetry
  <2>9. QED
    BY <2>1, <2>2, <2>3, <2>4, <2>5, <2>6, <2>7, <2>8 DEF PubNext
<1>3. QED
  BY <1>1, <1>2 DEF TypeInv, TypeOK, HandsFull

LEMMA TypeInvStream ==
  ASSUME TypeInv, StreamNext, PipelineUnchanged
  PROVE  TypeInv'
<1>0. PubTypeOK /\ SrcTypeOK /\ TabTypeOK /\ QueueTypeOK /\ SrcHandFull
      /\ TabHandFull /\ PubHandFull /\ RetriesBounded
  BY DEF TypeInv, TypeOK, HandsFull
<1>1. SrcTypeOK' /\ TabTypeOK' /\ QueueTypeOK' /\ SrcHandFull' /\ TabHandFull'
  BY <1>0 DEF PipelineUnchanged, SrcTypeOK, TabTypeOK, QueueTypeOK, SrcHandFull,
              TabHandFull, srcVars, tabVars
<1>2. UNCHANGED <<pubVars, flagVars, exportQueue>>
  BY DEF StreamNext, ProxyReceives, StreamBreaks
<1>3. PubHandFull' /\ RetriesBounded'
  BY <1>0, <1>2 DEF PubHandFull, RetriesBounded, pubVars
<1>4. wire \in Seq(Packets) /\ proxy \in Seq(Packets) /\ lost \in SUBSET Packets
  BY <1>0 DEF PubTypeOK
<1>5. rpc' \in {"open", "broken"} /\ wire' \in Seq(Packets)
      /\ proxy' \in Seq(Packets) /\ lost' \in SUBSET Packets
  <2>1. CASE ProxyReceives
    <3>1. Head(wire) \in Packets /\ Tail(wire) \in Seq(Packets)
      BY <1>4, <2>1, HeadTail DEF ProxyReceives
    <3>2. Append(proxy, Head(wire)) \in Seq(Packets)
      BY <1>4, <3>1, AppendOne
    <3>3. QED
      BY <2>1, <3>1, <3>2, <1>4 DEF ProxyReceives
  <2>2. CASE StreamBreaks
    <3>1. Elements(wire) \subseteq Packets
      BY <1>4 DEF Elements
    <3>2. QED
      BY <2>2, <3>1, <1>4 DEF StreamBreaks
  <2>3. QED
    BY <2>1, <2>2 DEF StreamNext
<1>6. PubTypeOK'
  BY <1>0, <1>2, <1>5 DEF PubTypeOK, pubVars, flagVars
<1>7. QED
  BY <1>1, <1>3, <1>6 DEF TypeInv, TypeOK, HandsFull

LEMMA TypeInvShutdown ==
  ASSUME TypeInv, ShutdownNext
  PROVE  TypeInv'
<1>0. PubTypeOK /\ SrcTypeOK /\ TabTypeOK /\ QueueTypeOK /\ SrcHandFull
      /\ TabHandFull /\ PubHandFull /\ RetriesBounded
  BY DEF TypeInv, TypeOK, HandsFull
<1>1. /\ ThreadsUnchanged
      /\ UNCHANGED <<kRetry, hadWrite, writesDone, status, pubHand, fruitless>>
      /\ pubPc' \in {pubPc, Notified(pubPc)}
      /\ clientRunning' \in {clientRunning, FALSE}
      /\ keepRunning' \in {keepRunning, FALSE}
      /\ shutdownRequested' \in {shutdownRequested, TRUE}
  BY DEF ShutdownNext, RequestShutdown, NotifyShutdown, StopRunning, StopClient,
         pubVars, flagVars
<1>2. SrcTypeOK' /\ TabTypeOK' /\ QueueTypeOK' /\ SrcHandFull' /\ TabHandFull'
  BY <1>0, <1>1 DEF ThreadsUnchanged, SrcTypeOK, TabTypeOK, QueueTypeOK,
                    SrcHandFull, TabHandFull, srcVars, tabVars
<1>3. PubTypeOK'
  BY <1>0, <1>1 DEF ThreadsUnchanged, PubTypeOK, streamVars, Notified
<1>4. PubHandFull' /\ RetriesBounded'
  BY <1>0, <1>1 DEF PubHandFull, RetriesBounded, Notified, PubFinal
<1>5. QED
  BY <1>2, <1>3, <1>4 DEF TypeInv, TypeOK, HandsFull

LEMMA TypeInvStutters ==
  ASSUME TypeInv, UNCHANGED pipelineVars
  PROVE  TypeInv'
<1>1. PubTypeOK' /\ PubHandFull' /\ RetriesBounded'
  BY DEF TypeInv, TypeOK, HandsFull, PubTypeOK, PubHandFull, RetriesBounded,
         pipelineVars, publisherVars, pubVars, streamVars, flagVars
<1>2. SrcTypeOK' /\ TabTypeOK' /\ QueueTypeOK' /\ SrcHandFull' /\ TabHandFull'
  BY DEF TypeInv, TypeOK, HandsFull, SrcTypeOK, TabTypeOK, QueueTypeOK,
         SrcHandFull, TabHandFull, pipelineVars, srcVars, tabVars
<1>3. QED
  BY <1>1, <1>2 DEF TypeInv, TypeOK, HandsFull

LEMMA TypeInvNext == TypeInv /\ [Next]_pipelineVars => TypeInv'
  BY TypeInvSrc, TypeInvTab, TypeInvPub, TypeInvStream, TypeInvShutdown,
     TypeInvStutters DEF Next, ThreadsNext

LEMMA TypeInvAlways == Spec => []TypeInv
  BY TypeInvInit, TypeInvNext, PTL DEF Spec

\* Every variable keeps its type: in particular kRetry indexes the schedule
\* wherever the code reads the schedule.
THEOREM TypeCorrect == Spec => []TypeOK
<1>1. TypeInv => TypeOK
  BY DEF TypeInv
<1>2. QED
  BY <1>1, TypeInvAlways, PTL

-----------------------------------------------------------------------------
(* Admission of the newest packet. *)

\* Only the producer of a queue appends to it, so the room it saw stays.
LEMMA AdmissionNext ==
  ASSUME TypeInv, NewestIsAdmitted, [Next]_pipelineVars
  PROVE  NewestIsAdmitted'
<1> USE PipelineAssumption DEF HasRoom, MustEvict
<1>0. /\ importQueue \in Seq(Packets) /\ exportQueue \in Seq(Packets)
      /\ srcPc = "push" => Len(importQueue) < ImportCapacity
      /\ tabPc = "push" => Len(exportQueue) < ExportCapacity
      /\ refused = {}
      /\ Len(importQueue) \in Nat /\ Len(exportQueue) \in Nat
  BY DEF TypeInv, TypeOK, PubTypeOK, QueueTypeOK, NewestIsAdmitted
<1>1. /\ importQueue # <<>> => Len(Tail(importQueue)) < Len(importQueue)
      /\ exportQueue # <<>> => Len(Tail(exportQueue)) < Len(exportQueue)
      /\ Len(Tail(importQueue)) \in Int /\ Len(Tail(exportQueue)) \in Int
  <2>1. CASE importQueue # <<>> /\ exportQueue # <<>>
    BY <1>0, <2>1, HeadTail
  <2>2. QED
    BY <1>0
<1>2. CASE SrcNext \/ SrcCollect \/ SrcIsTerminated
  <2>1. tabPc' = tabPc /\ exportQueue' = exportQueue
    BY <1>2 DEF SrcNext, SrcCollect, SrcIsTerminated, SrcRecover, SrcPoll, SrcGetsNothing,
         SrcHandOver, SrcBatchDone, SrcSize, SrcEvict, SrcPush, SrcLeave, SrcStep,
         tabVars, publisherVars
  <2>2. (srcPc' = "push" => Len(importQueue') < ImportCapacity) /\ refused' = {}
    <3>1. CASE SrcSize
      BY <3>1, <1>0 DEF SrcSize, SrcStep
    <3>2. CASE SrcEvict
      BY <3>2, <1>0 DEF SrcEvict, SrcStep
    <3>3. CASE SrcPush
      BY <3>3, <1>0 DEF SrcPush, SrcStep
    <3>4. CASE SrcRecover \/ SrcPoll \/ SrcGetsNothing \/ SrcHandOver \/ SrcBatchDone \/ SrcLeave
               \/ SrcCollect \/ SrcIsTerminated
      BY <3>4, <1>0 DEF SrcRecover, SrcPoll, SrcGetsNothing, SrcHandOver, SrcBatchDone, SrcLeave,
                  SrcCollect, SrcIsTerminated, SrcStep
    <3>5. QED
      BY <1>2, <3>1, <3>2, <3>3, <3>4 DEF SrcNext
  <2>3. QED
    BY <1>0, <2>1, <2>2 DEF NewestIsAdmitted
<1>3. CASE TabNext
  <2>1. srcPc' = srcPc
    BY <1>3 DEF TabNext, TabLoop, TabPop, TabSize, TabEvict, TabPush, TabStep, srcVars
  <2>2. Len(importQueue') <= Len(importQueue) /\ refused' = {}
    BY <1>3, <1>0, <1>1 DEF TabNext, TabLoop, TabPop, TabSize, TabEvict, TabPush, TabStep
  <2>3. Len(importQueue') \in Int
    BY <1>3, <1>0, <1>1 DEF TabNext, TabLoop, TabPop, TabSize, TabEvict, TabPush, TabStep
  <2>4. tabPc' = "push" => Len(exportQueue') < ExportCapacity
    BY <1>3, <1>0 DEF TabNext, TabLoop, TabPop, TabSize, TabEvict, TabPush, TabStep
  <2>5. QED
    BY <1>0, <2>1, <2>2, <2>3, <2>4 DEF NewestIsAdmitted
<1>4. CASE (PubNext \/ StreamNext) /\ PipelineUnchanged
  <2>1. UNCHANGED <<srcPc, tabPc, importQueue, refused>>
    BY <1>4 DEF PipelineUnchanged, srcVars, tabVars
  <2>2. exportQueue' = exportQueue \/ (exportQueue # <<>> /\ exportQueue' = Tail(exportQueue))
    BY <1>4 DEF PubNext, PubTop, PubWaitPredicate, PubBlocks, PubWaitTimesOut,
       PubRecheck, PubConnect, PubPoll, PubPop, PubWriteSucceeds, PubWriteFails,
       PubClosing, PubFinish, PubAfter, StreamNext, ProxyReceives, StreamBreaks
  <2>3. QED
    BY <1>0, <1>1, <2>1, <2>2 DEF NewestIsAdmitted
<1>5. CASE ShutdownNext \/ UNCHANGED pipelineVars
  <2>1. UNCHANGED <<srcPc, tabPc, importQueue, exportQueue, refused>>
    BY <1>5 DEF ShutdownNext, RequestShutdown, NotifyShutdown, StopRunning,
       StopClient, ThreadsUnchanged, pipelineVars, publisherVars, srcVars, tabVars
  <2>2. QED
    BY <1>0, <2>1 DEF NewestIsAdmitted
<1>6. QED
  BY <1>2, <1>3, <1>4, <1>5 DEF Next, ThreadsNext

\* Whatever the capacities and however the threads interleave, a full queue
\* gives up its oldest packets and takes the newest: try_push never fails.
THEOREM NewestAlwaysAdmitted == Spec => []NewestIsAdmitted
<1>1. Init => NewestIsAdmitted
  BY DEF Init, ThreadsInit, NewestIsAdmitted
<1>2. TypeInv /\ NewestIsAdmitted /\ [Next]_pipelineVars => NewestIsAdmitted'
  BY AdmissionNext
<1>3. QED
  BY <1>1, <1>2, TypeInvAlways, PTL DEF Spec

-----------------------------------------------------------------------------
(* The publisher. *)

LEMMA PubInvInit == Init => PubInv
<1> SUFFICES ASSUME Init PROVE PubInv
  OBVIOUS
<1>1. pubPc = "top" /\ kRetry = -1 /\ fruitless = 0
  BY DEF Init, ThreadsInit, PubInit
<1>2. FinishNeverHangs /\ EndsOnlyWhenTold /\ ClosesWhenTold /\ RetriesCount
  BY <1>1 DEF FinishNeverHangs, EndsOnlyWhenTold, ClosesWhenTold, RetriesCount, PubFinal
<1>3. GivesUpOnlyWhenSpent
  BY <1>1, <1>2, PublisherAssumption DEF GivesUpOnlyWhenSpent
<1>4. QED
  BY <1>2, <1>3 DEF PubInv

\* What the proofs use of the types.
PubNumbers ==
  /\ kRetry \in -1..RetryCount /\ fruitless \in Nat
  /\ keepRunning \in BOOLEAN /\ hadWrite \in BOOLEAN /\ writesDone \in BOOLEAN
  /\ RetriesBounded

\* One step per action of the publisher.
LEMMA PubInvPub ==
  ASSUME PubNumbers, PubInv, PubNext
  PROVE  PubInv'
<1> USE PublisherAssumption
    DEF PubNumbers, PubInv, FinishNeverHangs, GivesUpOnlyWhenSpent, EndsOnlyWhenTold,
        ClosesWhenTold, RetriesCount, RetriesBounded, PubFinal, Goto, streamVars,
        flagVars
<1>1. CASE PubTop
  BY <1>1 DEF PubTop
<1>2. CASE PubWaitPredicate \/ PubBlocks \/ PubWaitTimesOut
  BY <1>2 DEF PubWaitPredicate, PubBlocks, PubWaitTimesOut
<1>3. CASE PubRecheck \/ PubPoll
  BY <1>3 DEF PubRecheck, PubPoll
<1>4. CASE PubConnect \/ PubPop
  BY <1>4 DEF PubConnect, PubPop
<1>5. CASE PubWriteSucceeds \/ PubWriteFails
  BY <1>5 DEF PubWriteSucceeds, PubWriteFails
<1>6. CASE PubClosing
  BY <1>6 DEF PubClosing
<1>7. CASE PubFinish
  <2>1. PICK code \in Statuses :
          /\ pubPc = "finish"
          /\ pubPc' = IF LeavesLoop(code) THEN "after" ELSE "top"
          /\ kRetry' = IF LeavesLoop(code) THEN kRetry ELSE NextRetry(kRetry, hadWrite)
          /\ status' = code
          /\ rpc' = "broken"
          /\ fruitless' = IF hadWrite THEN 0 ELSE fruitless + 1
          /\ UNCHANGED <<hadWrite, writesDone, pubHand, wire, proxy, lost, flagVars,
                         exportQueue>>
    BY <1>7 DEF PubFinish
  <2>2. kRetry <= fruitless /\ fruitless <= kRetry + 1 /\ kRetry < RetryCount
    BY <2>1
  <2>3. CASE LeavesLoop(code)
    <3>1. code = "OTHER" \/ ~keepRunning
      BY <2>3 DEF LeavesLoop
    <3>2. QED
      BY <2>1, <2>2, <2>3, <3>1
  <2>4. CASE ~LeavesLoop(code)
    BY <2>1, <2>2, <2>4 DEF NextRetry
  <2>5. QED
    BY <2>3, <2>4
<1>8. CASE PubAfter
  BY <1>8 DEF PubAfter
<1>9. QED
  BY <1>1, <1>2, <1>3, <1>4, <1>5, <1>6, <1>7, <1>8 DEF PubNext

\* Nobody else touches what the publisher decides on, except that mKeepRunning
\* goes down, a stream breaks, and a sleeper is woken.
LEMMA PubInvOthers ==
  ASSUME PubInv, PubNumbers,
         UNCHANGED <<kRetry, hadWrite, writesDone, status, fruitless>>,
         pubPc' \in {pubPc, Notified(pubPc)},
         keepRunning' => keepRunning,
         rpc' \in {rpc, "broken"}
  PROVE  PubInv'
<1> USE DEF PubInv, PubNumbers
<1>1. pubPc' = pubPc \/ (pubPc = "waiting" /\ pubPc' = "woken")
  BY DEF Notified
<1>2. CASE pubPc' = pubPc
  <2>1. FinishNeverHangs' /\ ClosesWhenTold'
    BY <1>2 DEF FinishNeverHangs, ClosesWhenTold
  <2>2. EndsOnlyWhenTold'
    BY <1>2 DEF EndsOnlyWhenTold, GivesUpOnlyWhenSpent
  <2>3. GivesUpOnlyWhenSpent'
    BY <1>2, <2>2 DEF GivesUpOnlyWhenSpent
  <2>4. RetriesCount'
    BY <1>2 DEF RetriesCount
  <2>5. QED
    BY <2>1, <2>2, <2>3, <2>4
<1>3. CASE pubPc = "waiting" /\ pubPc' = "woken"
  <2>1. FinishNeverHangs' /\ ClosesWhenTold' /\ EndsOnlyWhenTold'
    BY <1>3 DEF FinishNeverHangs, ClosesWhenTold, EndsOnlyWhenTold, GivesUpOnlyWhenSpent
  <2>2. GivesUpOnlyWhenSpent'
    BY <1>3, <2>1 DEF GivesUpOnlyWhenSpent
  <2>3. RetriesCount'
    BY <1>3 DEF RetriesCount, PubFinal
  <2>4. QED
    BY <2>1, <2>2, <2>3
<1>4. QED
  BY <1>1, <1>2, <1>3

LEMMA PubInvNext == TypeInv /\ PubInv /\ [Next]_pipelineVars => PubInv'
<1> SUFFICES ASSUME TypeInv, PubInv, [Next]_pipelineVars PROVE PubInv'
  OBVIOUS
<1>0. PubNumbers
  BY DEF TypeInv, TypeOK, PubTypeOK, PubNumbers
<1>1. CASE SrcNext \/ SrcCollect \/ SrcIsTerminated
  <2>1. UNCHANGED publisherVars
    BY <1>1 DEF SrcNext, SrcCollect, SrcIsTerminated, SrcRecover, SrcPoll, SrcGetsNothing,
         SrcHandOver, SrcBatchDone, SrcSize, SrcEvict, SrcPush, SrcLeave, SrcStep
  <2>2. QED
    BY <1>0, <2>1, PubInvOthers DEF publisherVars, pubVars, streamVars, flagVars
<1>2. CASE TabNext
  <2>1. UNCHANGED <<pubVars, streamVars, flagVars>>
    BY <1>2 DEF TabNext, TabLoop, TabPop, TabSize, TabEvict, TabPush, TabStep
  <2>2. QED
    BY <1>0, <2>1, PubInvOthers DEF pubVars, streamVars, flagVars
<1>3. CASE PubNext /\ PipelineUnchanged
  BY <1>0, <1>3, PubInvPub
<1>4. CASE StreamNext /\ PipelineUnchanged
  BY <1>0, <1>4, PubInvOthers DEF StreamNext, ProxyReceives, StreamBreaks, pubVars,
     flagVars
<1>5. CASE ShutdownNext
  BY <1>0, <1>5, PubInvOthers DEF ShutdownNext, RequestShutdown, NotifyShutdown,
     StopRunning, StopClient, ThreadsUnchanged, pubVars, flagVars, streamVars
<1>6. CASE UNCHANGED pipelineVars
  BY <1>0, <1>6, PubInvOthers DEF pipelineVars, publisherVars, pubVars, streamVars,
     flagVars
<1>7. QED
  BY <1>1, <1>2, <1>3, <1>4, <1>5, <1>6 DEF Next, ThreadsNext

LEMMA PubInvAlways == Spec => []PubInv
  BY PubInvInit, PubInvNext, TypeInvAlways, PTL DEF Spec

\* Finish is only ever called on a broken stream or after WritesDone, although
\* mKeepRunning is read twice on the way and may change in between.
THEOREM FinishNeverBlocksForever == Spec => []FinishNeverHangs
<1>1. PubInv => FinishNeverHangs
  BY DEF PubInv
<1>2. QED
  BY <1>1, PubInvAlways, PTL

\* For a schedule of any length: the thread throws only after that many
\* attempts in a row without a packet, or on a code that is not retried, and
\* returns only when it was told to stop.
THEOREM GivesUpOnlyAfterSchedule == Spec => []GivesUpOnlyWhenSpent
<1>1. PubInv => GivesUpOnlyWhenSpent
  BY DEF PubInv
<1>2. QED
  BY <1>1, PubInvAlways, PTL

-----------------------------------------------------------------------------
(* The threads behind a stop. *)

LEMMA QueueLengths ==
  ASSUME TypeInv
  PROVE  /\ importQueue \in Seq(Packets) /\ exportQueue \in Seq(Packets)
         /\ Len(importQueue) \in Nat /\ Len(exportQueue) \in Nat
         /\ batch \in Nat
  BY DEF TypeInv, TypeOK, PubTypeOK, SrcTypeOK, QueueTypeOK

LEMMA QueueLengthsNext ==
  ASSUME TypeInv'
  PROVE  /\ Len(importQueue') \in Nat /\ Len(exportQueue') \in Nat
         /\ batch' \in Nat
  BY DEF TypeInv, TypeOK, PubTypeOK, SrcTypeOK, QueueTypeOK

\* A pop takes one from the length, a push adds one.
LEMMA PopLength ==
  ASSUME NEW q \in Seq(Packets), q # <<>>
  PROVE  Len(Tail(q)) = Len(q) - 1 /\ Len(q) \in Nat
  BY HeadTail

LEMMA SrcAdvances ==
  ASSUME TypeInv, ~clientRunning, SrcNext \/ SrcCollect \/ SrcIsTerminated
  PROVE  /\ SrcStepsLeft' + 2 * Len(importQueue') < SrcStepsLeft + 2 * Len(importQueue)
         /\ UNCHANGED <<tabPc, pubPc, exportQueue>>
<1> USE PipelineAssumption DEF SrcStep
<1>0. /\ importQueue \in Seq(Packets) /\ Len(importQueue) \in Nat /\ batch \in Nat
      /\ srcHand # NoPacket => srcHand \in Packets
      /\ srcHand # NoPacket <=> srcPc \in {"size", "evict", "push"}
  BY QueueLengths, HeldPacket
     DEF TypeInv, TypeOK, SrcTypeOK, HandsFull, SrcHandFull
<1>1. UNCHANGED <<tabPc, pubPc, exportQueue>>
  BY DEF SrcNext, SrcCollect, SrcIsTerminated, SrcRecover, SrcPoll, SrcGetsNothing,
         SrcHandOver, SrcBatchDone, SrcSize, SrcEvict, SrcPush, SrcLeave, tabVars,
         publisherVars, pubVars
<1>2. SrcLevel \in Nat /\ SrcLevel' \in Nat /\ batch' \in Nat
  <2>1. SrcLevel \in Nat /\ SrcLevel' \in Nat
    BY DEF SrcLevel
  <2>2. batch' \in Nat
    BY <1>0 DEF SrcNext, SrcCollect, SrcIsTerminated, SrcRecover, SrcPoll,
         SrcGetsNothing, SrcHandOver, SrcBatchDone, SrcSize, SrcEvict, SrcPush, SrcLeave
  <2>3. QED
    BY <2>1, <2>2
<1>3. SUFFICES 6 * batch' + SrcLevel' + 2 * Len(importQueue')
                 < 6 * batch + SrcLevel + 2 * Len(importQueue)
  BY <1>1 DEF SrcStepsLeft
<1>4. CASE SrcRecover \/ SrcPoll \/ SrcGetsNothing \/ SrcIsTerminated \/ SrcSize
           \/ SrcLeave
  <2>1. UNCHANGED <<batch, importQueue>>
    BY <1>4 DEF SrcRecover, SrcPoll, SrcGetsNothing, SrcIsTerminated, SrcSize, SrcLeave
  <2>2. \/ srcPc = "recover" /\ srcPc' \in {"loop", "threw"}
        \/ srcPc = "loop" /\ srcPc' = "leaving"
        \/ srcPc = "collect" /\ srcPc' \in {"loop", "leaving"}
        \/ srcPc = "size" /\ srcPc' \in {"evict", "push"}
        \/ srcPc = "leaving" /\ srcPc' \in {"threw", "returned"}
    BY <1>4 DEF SrcRecover, SrcPoll, SrcGetsNothing, SrcIsTerminated, SrcSize, SrcLeave
  <2>3. SrcLevel' < SrcLevel
    BY <2>2 DEF SrcLevel
  <2>4. QED
    BY <1>0, <1>2, <2>1, <2>3
<1>5. CASE SrcCollect
  <2>1. /\ srcPc = "collect" /\ srcPc' = "batch" /\ UNCHANGED importQueue
        /\ batch' \in 1..MaxBatch
    BY <1>5 DEF SrcCollect
  <2>2. SrcLevel = 6 * MaxBatch + 4 /\ SrcLevel' = 3
    BY <2>1 DEF SrcLevel
  <2>3. QED
    BY <1>0, <2>1, <2>2
<1>6. CASE SrcHandOver
  <2>1. /\ srcPc = "batch" /\ UNCHANGED importQueue
        /\ srcPc' = "size" /\ batch' = batch - 1
    BY <1>6 DEF SrcHandOver
  <2>2. SrcLevel = 3 /\ SrcLevel' = 8
    BY <2>1 DEF SrcLevel
  <2>3. QED
    BY <1>0, <2>1, <2>2
<1>7. CASE SrcBatchDone
  <2>1. srcPc = "batch" /\ srcPc' = "loop" /\ UNCHANGED <<batch, importQueue>>
    BY <1>7 DEF SrcBatchDone
  <2>2. SrcLevel = 3 /\ SrcLevel' = 2
    BY <2>1 DEF SrcLevel
  <2>3. QED
    BY <1>0, <2>1, <2>2
<1>8. CASE SrcEvict
  <2>1. CASE importQueue = <<>>
    <3>1. /\ srcPc = "evict" /\ srcPc' = "push" /\ UNCHANGED <<batch, importQueue>>
      BY <1>8, <2>1 DEF SrcEvict
    <3>2. SrcLevel = 7 /\ SrcLevel' = 6
      BY <3>1 DEF SrcLevel
    <3>3. QED
      BY <1>0, <3>1, <3>2
  <2>2. CASE importQueue # <<>>
    <3>1. /\ srcPc = "evict" /\ srcPc' = "size" /\ UNCHANGED batch
          /\ importQueue' = Tail(importQueue)
      BY <1>8, <2>2 DEF SrcEvict
    <3>2. Len(importQueue') = Len(importQueue) - 1
      BY <1>0, <2>2, <3>1, PopLength
    <3>3. SrcLevel = 7 /\ SrcLevel' = 8
      BY <3>1 DEF SrcLevel
    <3>4. batch' = batch
      BY <3>1
    <3>5. QED
      BY <1>0, <3>2, <3>3, <3>4
  <2>3. QED
    BY <2>1, <2>2
<1>9. CASE SrcPush
  <2>1. /\ srcPc = "push" /\ srcPc' = "batch" /\ UNCHANGED batch
        /\ importQueue' \in {importQueue, Append(importQueue, srcHand)}
    BY <1>9 DEF SrcPush
  <2>2. Len(Append(importQueue, srcHand)) = Len(importQueue) + 1
    BY <1>0, <2>1, AppendOne
  <2>3. \/ Len(importQueue') = Len(importQueue)
        \/ Len(importQueue') = Len(importQueue) + 1
    BY <2>1, <2>2
  <2>4. SrcLevel = 6 /\ SrcLevel' = 3
    BY <2>1 DEF SrcLevel
  <2>5. CASE Len(importQueue') = Len(importQueue)
    BY <1>0, <2>1, <2>4, <2>5
  <2>6. CASE Len(importQueue') = Len(importQueue) + 1
    BY <1>0, <2>1, <2>4, <2>6
  <2>7. QED
    BY <2>3, <2>5, <2>6
<1>10. QED
  BY <1>4, <1>5, <1>6, <1>7, <1>8, <1>9 DEF SrcNext

LEMMA TabAdvances ==
  ASSUME TypeInv, ~keepRunning, TabNext
  PROVE  /\ TabStepsLeft' + 2 * (Len(importQueue') + Len(exportQueue'))
              < TabStepsLeft + 2 * (Len(importQueue) + Len(exportQueue))
         /\ UNCHANGED <<srcPc, batch, pubPc>>
<1> USE DEF TabStep
<1>0. /\ importQueue \in Seq(Packets) /\ Len(importQueue) \in Nat
      /\ exportQueue \in Seq(Packets) /\ Len(exportQueue) \in Nat
      /\ tabHand # NoPacket => tabHand \in Packets
      /\ tabHand # NoPacket <=> tabPc \in {"size", "evict", "push"}
  BY QueueLengths, HeldPacket
     DEF TypeInv, TypeOK, TabTypeOK, HandsFull, TabHandFull
<1>1. UNCHANGED <<srcPc, batch, pubPc>>
  BY DEF TabNext, TabLoop, TabPop, TabSize, TabEvict, TabPush, srcVars, pubVars
<1>2. SUFFICES TabStepsLeft' + 2 * (Len(importQueue') + Len(exportQueue'))
                 < TabStepsLeft + 2 * (Len(importQueue) + Len(exportQueue))
  BY <1>1
<1>3. TabStepsLeft \in Nat /\ TabStepsLeft' \in Nat
  BY DEF TabStepsLeft
<1>4. CASE TabLoop \/ TabSize
  <2>1. /\ UNCHANGED <<importQueue, exportQueue>>
        /\ \/ tabPc = "loop" /\ tabPc' = "returned"
           \/ tabPc = "size" /\ tabPc' \in {"evict", "push"}
    BY <1>4 DEF TabLoop, TabSize
  <2>2. TabStepsLeft' < TabStepsLeft
    BY <2>1 DEF TabStepsLeft
  <2>3. QED
    BY <1>0, <1>3, <2>1, <2>2
<1>5. CASE TabPop
  <2>1. CASE importQueue = <<>>
    <3>1. tabPc = "pop" /\ tabPc' = "loop" /\ UNCHANGED <<importQueue, exportQueue>>
      BY <1>5, <2>1 DEF TabPop
    <3>2. TabStepsLeft = 7 /\ TabStepsLeft' = 1
      BY <3>1 DEF TabStepsLeft
    <3>3. QED
      BY <1>0, <3>1, <3>2
  <2>2. CASE importQueue # <<>>
    <3>1. /\ tabPc = "pop" /\ tabPc' = "size" /\ UNCHANGED exportQueue
          /\ importQueue' = Tail(importQueue)
      BY <1>5, <2>2 DEF TabPop
    <3>2. Len(importQueue') = Len(importQueue) - 1
      BY <1>0, <2>2, <3>1, PopLength
    <3>3. TabStepsLeft = 7 /\ TabStepsLeft' = 6
      BY <3>1 DEF TabStepsLeft
    <3>4. QED
      BY <1>0, <3>1, <3>2, <3>3
  <2>3. QED
    BY <2>1, <2>2
<1>6. CASE TabEvict
  <2>1. CASE exportQueue = <<>>
    <3>1. tabPc = "evict" /\ tabPc' = "push" /\ UNCHANGED <<importQueue, exportQueue>>
      BY <1>6, <2>1 DEF TabEvict
    <3>2. TabStepsLeft = 5 /\ TabStepsLeft' = 4
      BY <3>1 DEF TabStepsLeft
    <3>3. QED
      BY <1>0, <3>1, <3>2
  <2>2. CASE exportQueue # <<>>
    <3>1. /\ tabPc = "evict" /\ tabPc' = "size" /\ UNCHANGED importQueue
          /\ exportQueue' = Tail(exportQueue)
      BY <1>6, <2>2 DEF TabEvict
    <3>2. Len(exportQueue') = Len(exportQueue) - 1
      BY <1>0, <2>2, <3>1, PopLength
    <3>3. TabStepsLeft = 5 /\ TabStepsLeft' = 6
      BY <3>1 DEF TabStepsLeft
    <3>4. Len(importQueue') = Len(importQueue)
      BY <3>1
    <3>5. QED
      BY <1>0, <3>2, <3>3, <3>4
  <2>3. QED
    BY <2>1, <2>2
<1>7. CASE TabPush
  <2>1. /\ tabPc = "push" /\ tabPc' = "loop" /\ UNCHANGED importQueue
        /\ exportQueue' \in {exportQueue, Append(exportQueue, tabHand)}
    BY <1>7 DEF TabPush
  <2>2. Len(Append(exportQueue, tabHand)) = Len(exportQueue) + 1
    BY <1>0, <2>1, AppendOne
  <2>3. \/ Len(exportQueue') = Len(exportQueue)
        \/ Len(exportQueue') = Len(exportQueue) + 1
    BY <2>1, <2>2
  <2>4. TabStepsLeft = 4 /\ TabStepsLeft' = 1
    BY <2>1 DEF TabStepsLeft
  <2>5. CASE Len(exportQueue') = Len(exportQueue)
    BY <1>0, <2>1, <2>4, <2>5
  <2>6. CASE Len(exportQueue') = Len(exportQueue) + 1
    BY <1>0, <2>1, <2>4, <2>6
  <2>7. QED
    BY <2>3, <2>5, <2>6
<1>8. QED
  BY <1>4, <1>5, <1>6, <1>7 DEF TabNext

LEMMA PubAdvances ==
  ASSUME TypeInv, ~keepRunning, PubNext
  PROVE  PubStepsLeft' + 2 * Len(exportQueue') < PubStepsLeft + 2 * Len(exportQueue)
<1> USE DEF Goto
<1>0. exportQueue \in Seq(Packets) /\ Len(exportQueue) \in Nat
  BY QueueLengths
<1>1. PubStepsLeft \in Nat /\ PubStepsLeft' \in Nat
  BY DEF PubStepsLeft
<1>2. CASE PubPop
  <2>1. CASE exportQueue = <<>>
    <3>1. pubPc = "pop" /\ pubPc' = "poll" /\ UNCHANGED exportQueue
      BY <1>2, <2>1 DEF PubPop
    <3>2. PubStepsLeft = 6 /\ PubStepsLeft' = 5
      BY <3>1 DEF PubStepsLeft
    <3>3. QED
      BY <1>0, <3>1, <3>2
  <2>2. CASE exportQueue # <<>>
    <3>1. pubPc = "pop" /\ pubPc' = "write" /\ exportQueue' = Tail(exportQueue)
      BY <1>2, <2>2 DEF PubPop
    <3>2. Len(exportQueue') = Len(exportQueue) - 1
      BY <1>0, <2>2, <3>1, PopLength
    <3>3. PubStepsLeft = 6 /\ PubStepsLeft' = 6
      BY <3>1 DEF PubStepsLeft
    <3>4. QED
      BY <1>0, <3>1, <3>2, <3>3
  <2>3. QED
    BY <2>1, <2>2
<1>3. CASE ~PubPop
  <2>1. UNCHANGED exportQueue
    BY <1>3 DEF PubNext, PubTop, PubWaitPredicate, PubBlocks, PubWaitTimesOut,
       PubRecheck, PubConnect, PubPoll, PubWriteSucceeds, PubWriteFails, PubClosing,
       PubFinish, PubAfter
  <2>2. \/ pubPc = "top" /\ pubPc' = "after"
        \/ pubPc \in {"waitPred", "woken"} /\ pubPc' \in {"recheck", "blocking"}
        \/ pubPc = "blocking" /\ pubPc' = "waiting"
        \/ pubPc = "waiting" /\ pubPc' = "recheck"
        \/ pubPc = "recheck" /\ pubPc' = "after"
        \/ pubPc = "connect" /\ pubPc' = "poll"
        \/ pubPc = "poll" /\ pubPc' = "closing"
        \/ pubPc = "write" /\ pubPc' \in {"poll", "closing"}
        \/ pubPc = "closing" /\ pubPc' = "finish"
        \/ pubPc = "finish" /\ pubPc' \in {"after", "top"}
        \/ pubPc = "after" /\ pubPc' = "returned"
    BY <1>3 DEF PubNext, PubTop, PubWaitPredicate, PubBlocks, PubWaitTimesOut,
       PubRecheck, PubConnect, PubPoll, PubWriteSucceeds, PubWriteFails, PubClosing,
       PubFinish, PubAfter
  <2>3. PubStepsLeft' < PubStepsLeft
    BY <2>2 DEF PubStepsLeft
  <2>4. QED
    BY <1>0, <1>1, <2>1, <2>3
<1>4. QED
  BY <1>2, <1>3

\* StepsLeft falls with the share of one thread and the queues it moves.
LEMMA LowerSource ==
  ASSUME NEW s \in Nat, NEW s1 \in Nat, NEW t \in Nat, NEW p \in Nat,
         NEW i \in Nat, NEW i1 \in Nat, NEW e \in Nat,
         s1 + 2 * i1 < s + 2 * i
  PROVE  s1 + t + p + 2 * (i1 + e) < s + t + p + 2 * (i + e)
  OBVIOUS

LEMMA LowerTabulator ==
  ASSUME NEW s \in Nat, NEW t \in Nat, NEW t1 \in Nat, NEW p \in Nat,
         NEW q \in Nat, NEW q1 \in Nat, t1 + 2 * q1 < t + 2 * q
  PROVE  s + t1 + p + 2 * q1 < s + t + p + 2 * q
  OBVIOUS

\* With both flags down a thread has fewer steps left behind each.
LEMMA ThreadsAdvance ==
  ASSUME TypeInv, ~keepRunning, ~clientRunning, ThreadsNext
  PROVE  StepsLeft' < StepsLeft \/ UNCHANGED threadVars
<1>0. /\ Len(importQueue) \in Nat /\ Len(exportQueue) \in Nat
      /\ Len(importQueue') \in Nat /\ Len(exportQueue') \in Nat
      /\ batch \in Nat /\ batch' \in Nat
  <2>1. TypeInv'
    BY TypeInvNext DEF Next
  <2>2. QED
    BY <2>1, QueueLengths, QueueLengthsNext
<1>1. /\ SrcStepsLeft \in Nat /\ SrcStepsLeft' \in Nat
      /\ TabStepsLeft \in Nat /\ TabStepsLeft' \in Nat
      /\ PubStepsLeft \in Nat /\ PubStepsLeft' \in Nat
  <2>1. SrcStepsLeft \in Nat /\ SrcStepsLeft' \in Nat
    <3>1. SrcLevel \in Nat /\ SrcLevel' \in Nat
      BY PipelineAssumption DEF SrcLevel
    <3>2. \A b, l \in Nat : 6 * b + l \in Nat
      OBVIOUS
    <3>3. QED
      BY <1>0, <3>1, <3>2 DEF SrcStepsLeft
  <2>2. TabStepsLeft \in Nat /\ TabStepsLeft' \in Nat
    BY DEF TabStepsLeft
  <2>3. PubStepsLeft \in Nat /\ PubStepsLeft' \in Nat
    BY DEF PubStepsLeft
  <2>4. QED
    BY <2>1, <2>2, <2>3
<1>2. CASE SrcNext \/ SrcCollect \/ SrcIsTerminated
  <2>1. TabStepsLeft' = TabStepsLeft /\ PubStepsLeft' = PubStepsLeft
        /\ exportQueue' = exportQueue
    BY <1>2, SrcAdvances DEF TabStepsLeft, PubStepsLeft
  <2>2. SrcStepsLeft' + 2 * Len(importQueue') < SrcStepsLeft + 2 * Len(importQueue)
    BY <1>2, SrcAdvances
  <2>3. StepsLeft' < StepsLeft
    BY <1>0, <1>1, <2>1, <2>2, LowerSource DEF StepsLeft
  <2>4. QED
    BY <2>3
<1>3. CASE TabNext
  <2>1. SrcStepsLeft' = SrcStepsLeft /\ PubStepsLeft' = PubStepsLeft
    BY <1>3, TabAdvances DEF SrcStepsLeft, SrcLevel, PubStepsLeft
  <2>2. TabStepsLeft' + 2 * (Len(importQueue') + Len(exportQueue'))
          < TabStepsLeft + 2 * (Len(importQueue) + Len(exportQueue))
    BY <1>3, TabAdvances
  <2>3. /\ Len(importQueue) + Len(exportQueue) \in Nat
        /\ Len(importQueue') + Len(exportQueue') \in Nat
    BY <1>0
  <2>4. StepsLeft' < StepsLeft
    BY <1>1, <2>1, <2>2, <2>3, LowerTabulator DEF StepsLeft
  <2>5. QED
    BY <2>4
<1>4. CASE PubNext /\ PipelineUnchanged
  <2>1. UNCHANGED <<srcPc, batch, tabPc, importQueue>>
    BY <1>4 DEF PipelineUnchanged, srcVars, tabVars
  <2>2. SrcStepsLeft' = SrcStepsLeft /\ TabStepsLeft' = TabStepsLeft
    BY <2>1 DEF SrcStepsLeft, SrcLevel, TabStepsLeft
  <2>3. QED
    BY <1>0, <1>1, <1>4, <2>1, <2>2, PubAdvances DEF StepsLeft
<1>5. CASE StreamNext /\ PipelineUnchanged
  BY <1>5 DEF StreamNext, ProxyReceives, StreamBreaks, PipelineUnchanged, threadVars
<1>6. QED
  BY <1>2, <1>3, <1>4, <1>5 DEF ThreadsNext

\* At the joins both flags are down.
FlagsFall ==
  /\ mainPc \in {"stopClient", "join"} => ~keepRunning
  /\ mainPc = "join" => ~clientRunning

\* Whatever the schedule, the queues and the payload in hand: behind a stop the
\* threads start nothing over, and StepsLeft bounds what they still do.
THEOREM NothingStartsOver == Spec => ShutdownAdvances
<1>1. Init => FlagsFall
  BY DEF Init, FlagsFall
<1>2. FlagsFall /\ [Next]_pipelineVars => FlagsFall'
  <2>1. SUFFICES ASSUME FlagsFall, [Next]_pipelineVars PROVE FlagsFall'
    OBVIOUS
  <2>2. CASE ThreadsNext
    <3>1. UNCHANGED <<mainPc, keepRunning, clientRunning>>
      BY <2>2 DEF ThreadsNext, SrcNext, SrcCollect, SrcIsTerminated, SrcRecover, SrcPoll,
         SrcGetsNothing, SrcHandOver, SrcBatchDone, SrcSize, SrcEvict, SrcPush, SrcLeave,
         SrcStep, TabNext, TabLoop, TabPop, TabSize, TabEvict, TabPush, TabStep,
         PubNext, PubTop, PubWaitPredicate, PubBlocks, PubWaitTimesOut, PubRecheck,
         PubConnect, PubPoll, PubPop, PubWriteSucceeds, PubWriteFails, PubClosing,
         PubFinish, PubAfter, StreamNext, ProxyReceives, StreamBreaks,
         PipelineUnchanged, publisherVars, flagVars
    <3>2. QED
      BY <2>1, <3>1 DEF FlagsFall
  <2>3. CASE ShutdownNext
    BY <2>1, <2>3 DEF ShutdownNext, MainStep, RequestShutdown, NotifyShutdown,
       StopRunning, StopClient, flagVars, FlagsFall
  <2>4. CASE UNCHANGED pipelineVars
    BY <2>1, <2>4 DEF pipelineVars, publisherVars, flagVars, FlagsFall
  <2>5. QED
    BY <2>1, <2>2, <2>3, <2>4 DEF Next
<1>3. TypeInv /\ FlagsFall /\ [Next]_pipelineVars
        => [mainPc = "join" => StepsLeft' < StepsLeft \/ UNCHANGED threadVars]_pipelineVars
  <2>1. SUFFICES ASSUME TypeInv, FlagsFall, Next, mainPc = "join"
                 PROVE  StepsLeft' < StepsLeft \/ UNCHANGED threadVars
    OBVIOUS
  <2>2. ~ShutdownNext
    BY <2>1 DEF ShutdownNext, MainStep
  <2>3. QED
    BY <2>1, <2>2, ThreadsAdvance DEF FlagsFall, Next
<1>4. QED
  BY <1>1, <1>2, <1>3, TypeInvAlways, PTL DEF Spec, ShutdownAdvances
=============================================================================
