---------------------------- MODULE PacketPipeline ----------------------------
(***************************************************************************)
(* The way of a packet through the process: the SEEDLink thread            *)
(* (SEEDLinkClientImpl::packetToCallback calling Process::addPacketCallback) *)
(* puts it on the import queue, the tabulator thread                       *)
(* (Process::tabulateMetricsAndPropagatePackets) moves it to the export    *)
(* queue, the publisher thread (module Publisher) writes it to the proxy,  *)
(* and the main thread, in its last steps, tells all of them to stop.      *)
(*                                                                         *)
(* Packets are numbered in the order addPacketCallback is called.  Every   *)
(* call on a tbb queue is an action of its own: size() and the try_pop or  *)
(* try_push that follows it are not one atomic step.                       *)
(*                                                                         *)
(* srcPc: recover (sl_recoverstate), loop (while (mKeepRunning)), collect  *)
(* (sl_collect), batch (the loop over the packets of one payload), size,   *)
(* evict, push (inside addPacketCallback), leaving (behind the loop),      *)
(* returned, threw.                                                        *)
(* tabPc: loop, pop, size, evict, push, returned.                          *)
(***************************************************************************)
EXTENDS Publisher, FiniteSets

CONSTANTS
  ImportCapacity,   \* mMaximumImportQueueSize
  ExportCapacity,   \* mMaximumExportQueueSize
  MaxBatch,         \* bound: packets made of one SEEDLink payload
  MaxPackets        \* bound: packets of a behaviour

ASSUME PipelineAssumption ==
  /\ ImportCapacity \in Nat \ {0}
  /\ ExportCapacity \in Nat \ {0}
  /\ MaxBatch \in Nat
  /\ MaxPackets \in Nat

VARIABLES
  clientRunning,   \* SEEDLinkClientImpl::mKeepRunning
  srcPc,           \* the SEEDLink thread
  batch,           \* packets of the payload not yet handed over
  arrived,         \* packets handed to addPacketCallback so far
  srcHand,         \* the argument of addPacketCallback, or NoPacket
  importQueue,     \* Process::mImportQueue
  tabPc,           \* the tabulator thread
  tabHand,         \* its local packet, or NoPacket
  importEvicted,   \* popped from the front of a full import queue
  exportEvicted,   \* popped from the front of a full export queue
  refused,         \* try_push returned false
  mainPc           \* where the main thread is in its shutdown sequence

srcVars == <<srcPc, batch, arrived, srcHand, importEvicted>>
tabVars == <<tabPc, tabHand, exportEvicted>>
pipelineVars == <<clientRunning, srcVars, importQueue, tabVars, refused, mainPc,
                  publisherVars>>

SrcFinal == {"returned", "threw"}

-----------------------------------------------------------------------------
ThreadsInit ==
  /\ keepRunning = TRUE
  /\ shutdownRequested = FALSE
  /\ clientRunning = TRUE
  /\ exportQueue = <<>>
  /\ importQueue = <<>>
  /\ srcPc = "recover"
  /\ batch = 0
  /\ arrived = 0
  /\ srcHand = NoPacket
  /\ tabPc = "loop"
  /\ tabHand = NoPacket
  /\ importEvicted = {}
  /\ exportEvicted = {}
  /\ refused = {}
  /\ PubInit

Init == ThreadsInit /\ mainPc = "loop"

\* Two slips in while (queue.size() >= capacity), and the test as it is.
EvictsLate(queue, capacity) == Len(queue) > capacity
EvictsEarly(queue, capacity) == Len(queue) + 1 >= capacity
MustEvict(queue, capacity) == Len(queue) >= capacity

\* tbb::concurrent_bounded_queue::try_push succeeds while there is room.
HasRoom(queue, capacity) == Len(queue) < capacity

-----------------------------------------------------------------------------
(* The SEEDLink thread. *)

SrcStep(from, to) ==
  /\ srcPc = from
  /\ srcPc' = to
  /\ UNCHANGED <<clientRunning, mainPc, tabVars, publisherVars>>

\* sl_recoverstate; without a state file there is nothing to fail.
SrcRecover ==
  /\ \/ SrcStep("recover", "loop")
     \/ SrcStep("recover", "threw")
  /\ UNCHANGED <<batch, arrived, srcHand, importQueue, importEvicted, refused>>

\* while (mKeepRunning)
SrcPoll ==
  /\ SrcStep("loop", IF clientRunning THEN "collect" ELSE "leaving")
  /\ UNCHANGED <<batch, arrived, srcHand, importQueue, importEvicted, refused>>

\* sl_collect returns a payload, a stop since the poll or not; its records make
\* up to MaxBatch packets, sorted by their start times.
SrcCollect ==
  /\ SrcStep("collect", "batch")
  /\ batch' \in 1..MaxBatch
  /\ arrived + batch' <= MaxPackets
  /\ UNCHANGED <<arrived, srcHand, importQueue, importEvicted, refused>>

\* No packet, one too large, a payload of another kind, or one without a record
\* that unpacks.
SrcGetsNothing ==
  /\ SrcStep("collect", "loop")
  /\ UNCHANGED <<batch, arrived, srcHand, importQueue, importEvicted, refused>>

\* sl_collect returns SLTERMINATE, for sl_terminate or on its own account.
SrcIsTerminated ==
  /\ SrcStep("collect", "leaving")
  /\ UNCHANGED <<batch, arrived, srcHand, importQueue, importEvicted, refused>>

\* The next packet of the payload becomes the argument of the callback.
SrcHandOver ==
  /\ batch > 0
  /\ SrcStep("batch", "size")
  /\ batch' = batch - 1
  /\ arrived' = arrived + 1
  /\ srcHand' = arrived + 1
  /\ UNCHANGED <<importQueue, importEvicted, refused>>

SrcBatchDone ==
  /\ batch = 0
  /\ SrcStep("batch", "loop")
  /\ UNCHANGED <<batch, arrived, srcHand, importQueue, importEvicted, refused>>

SrcSize ==
  /\ SrcStep("size", IF MustEvict(importQueue, ImportCapacity) THEN "evict"
                                                               ELSE "push")
  /\ UNCHANGED <<batch, arrived, srcHand, importQueue, importEvicted, refused>>

\* try_pop of the oldest packet; the tabulator may have emptied the queue
\* since size() was read, which ends the loop.
SrcEvict ==
  \/ /\ importQueue = <<>>
     /\ SrcStep("evict", "push")
     /\ UNCHANGED <<batch, arrived, srcHand, importQueue, importEvicted, refused>>
  \/ /\ importQueue # <<>>
     /\ SrcStep("evict", "size")
     /\ importQueue' = Tail(importQueue)
     /\ importEvicted' = importEvicted \cup {Head(importQueue)}
     /\ UNCHANGED <<batch, arrived, srcHand, refused>>

SrcPush ==
  /\ SrcStep("push", "batch")
  /\ srcHand' = NoPacket
  /\ IF HasRoom(importQueue, ImportCapacity)
     THEN /\ importQueue' = Append(importQueue, srcHand)
          /\ UNCHANGED refused
     ELSE /\ refused' = refused \cup {srcHand}
          /\ UNCHANGED importQueue
  /\ UNCHANGED <<batch, arrived, importEvicted>>

\* Behind the loop: the purge of the state file may fail, and an end nobody
\* asked for is an exception.
SrcLeave ==
  /\ \/ SrcStep("leaving", "threw")
     \/ ~clientRunning /\ SrcStep("leaving", "returned")
  /\ UNCHANGED <<batch, arrived, srcHand, importQueue, importEvicted, refused>>

\* What the thread does on its own, as long as the process schedules it.
SrcNext ==
  \/ SrcRecover \/ SrcPoll \/ SrcGetsNothing \/ SrcHandOver \/ SrcBatchDone
  \/ SrcSize \/ SrcEvict \/ SrcPush \/ SrcLeave

-----------------------------------------------------------------------------
(* The tabulator thread. *)

TabStep(from, to) ==
  /\ tabPc = from
  /\ tabPc' = to
  /\ UNCHANGED <<clientRunning, mainPc, srcVars, pubVars, streamVars, flagVars>>

TabLoop ==
  /\ TabStep("loop", IF keepRunning THEN "pop" ELSE "returned")
  /\ UNCHANGED <<tabHand, importQueue, exportQueue, exportEvicted, refused>>

\* try_pop; on an empty queue the thread sleeps and starts over.
TabPop ==
  \/ /\ importQueue = <<>>
     /\ TabStep("pop", "loop")
     /\ UNCHANGED <<tabHand, importQueue, exportQueue, exportEvicted, refused>>
  \/ /\ importQueue # <<>>
     /\ TabStep("pop", "size")
     /\ tabHand' = Head(importQueue)
     /\ importQueue' = Tail(importQueue)
     /\ UNCHANGED <<exportQueue, exportEvicted, refused>>

TabSize ==
  /\ TabStep("size", IF MustEvict(exportQueue, ExportCapacity) THEN "evict"
                                                               ELSE "push")
  /\ UNCHANGED <<tabHand, importQueue, exportQueue, exportEvicted, refused>>

\* A slip: the evicted packet lands in the variable of the packet in hand.
EvictsIntoHand ==
  /\ exportQueue # <<>>
  /\ TabStep("evict", "size")
  /\ exportQueue' = Tail(exportQueue)
  /\ tabHand' = Head(exportQueue)
  /\ exportEvicted' = exportEvicted \cup {Head(exportQueue)}
  /\ UNCHANGED <<importQueue, refused>>

TabEvict ==
  \/ /\ exportQueue = <<>>
     /\ TabStep("evict", "push")
     /\ UNCHANGED <<tabHand, importQueue, exportQueue, exportEvicted, refused>>
  \/ /\ exportQueue # <<>>
     /\ TabStep("evict", "size")
     /\ exportQueue' = Tail(exportQueue)
     /\ exportEvicted' = exportEvicted \cup {Head(exportQueue)}
     /\ UNCHANGED <<tabHand, importQueue, refused>>

TabPush ==
  /\ TabStep("push", "loop")
  /\ tabHand' = NoPacket
  /\ IF HasRoom(exportQueue, ExportCapacity)
     THEN /\ exportQueue' = Append(exportQueue, tabHand)
          /\ UNCHANGED refused
     ELSE /\ refused' = refused \cup {tabHand}
          /\ UNCHANGED exportQueue
  /\ UNCHANGED <<importQueue, exportEvicted>>

TabNext == TabLoop \/ TabPop \/ TabSize \/ TabEvict \/ TabPush

-----------------------------------------------------------------------------
(* The main thread tells the others to stop. *)

ThreadsUnchanged ==
  UNCHANGED <<srcVars, importQueue, tabVars, refused, exportQueue, streamVars>>

\* mStopRequested and mShutdownRequested, set without mShutdownMutex.
RequestShutdown ==
  /\ shutdownRequested' = TRUE
  /\ UNCHANGED <<clientRunning, keepRunning, pubVars>>
  /\ ThreadsUnchanged

\* mShutdownCondition.notify_all.
NotifyShutdown ==
  /\ pubPc' = Notified(pubPc)
  /\ UNCHANGED <<kRetry, hadWrite, writesDone, status, pubHand, fruitless>>
  /\ UNCHANGED <<clientRunning, flagVars>>
  /\ ThreadsUnchanged

\* stop(): mKeepRunning.store(false).
StopRunning ==
  /\ keepRunning' = FALSE
  /\ UNCHANGED <<clientRunning, shutdownRequested, pubVars>>
  /\ ThreadsUnchanged

\* stop(): mSEEDLinkClient->stop().
StopClient ==
  /\ clientRunning' = FALSE
  /\ UNCHANGED <<flagVars, pubVars>>
  /\ ThreadsUnchanged

MainStep(from, to) ==
  /\ mainPc = from
  /\ mainPc' = to

ShutdownNext ==
  \/ MainStep("loop", "notify") /\ RequestShutdown
  \/ MainStep("notify", "clearRunning") /\ NotifyShutdown
  \/ MainStep("clearRunning", "stopClient") /\ StopRunning
  \/ MainStep("stopClient", "join") /\ StopClient

-----------------------------------------------------------------------------
PipelineUnchanged ==
  UNCHANGED <<clientRunning, srcVars, importQueue, tabVars, refused, mainPc>>

\* Everything the threads, the server and the network do.
ThreadsNext ==
  \/ SrcNext
  \/ SrcCollect
  \/ SrcIsTerminated
  \/ TabNext
  \/ PubNext /\ PipelineUnchanged
  \/ StreamNext /\ PipelineUnchanged

\* The process is at rest once every thread is over; the rest is stuttering.
Next == ThreadsNext \/ ShutdownNext

\* Every thread is scheduled, and the main thread, once in its shutdown
\* sequence, goes through with it.  That data arrive, that the proxy reads,
\* that the stream breaks and that a shutdown begins is nobody's promise.
Fairness ==
  /\ WF_pipelineVars(SrcNext)
  /\ WF_pipelineVars(TabNext)
  /\ WF_pipelineVars(PubNext /\ PipelineUnchanged)
  /\ WF_pipelineVars(ShutdownNext /\ mainPc # "loop")

Spec == Init /\ [][Next]_pipelineVars
FairSpec == Spec /\ Fairness

-----------------------------------------------------------------------------
SrcTypeOK ==
  /\ clientRunning \in BOOLEAN
  /\ srcPc \in {"recover", "loop", "collect", "batch", "size", "evict", "push",
               "leaving"} \cup SrcFinal
  /\ batch \in Nat
  /\ arrived \in Nat
  /\ srcHand \in Nat

TabTypeOK ==
  /\ tabPc \in {"loop", "pop", "size", "evict", "push", "returned"}
  /\ tabHand \in Nat

QueueTypeOK ==
  /\ importQueue \in Seq(Packets)
  /\ importEvicted \in SUBSET Packets
  /\ exportEvicted \in SUBSET Packets
  /\ refused \in SUBSET Packets

TypeOK == PubTypeOK /\ SrcTypeOK /\ TabTypeOK /\ QueueTypeOK

\* What makes the types inductive: a thread has a packet in hand exactly where
\* the code has one, and in the body of the retry loop kRetry is an index.
SrcHandFull == srcHand # NoPacket <=> srcPc \in {"size", "evict", "push"}
TabHandFull == tabHand # NoPacket <=> tabPc \in {"size", "evict", "push"}
PubHandFull == pubHand # NoPacket <=> pubPc = "write"
HandsFull == SrcHandFull /\ TabHandFull /\ PubHandFull

RetriesBounded ==
  pubPc \notin {"top", "after"} \cup PubFinal => kRetry < RetryCount

TypeInv == TypeOK /\ HandsFull /\ RetriesBounded

\* Where the packets are.
InMemory ==
  Held(srcHand) \cup Elements(importQueue) \cup Held(tabHand)
    \cup Elements(exportQueue) \cup Held(pubHand)
InFlight == InMemory \cup Elements(wire)
Gone == importEvicted \cup exportEvicted \cup refused \cup lost

\* A full queue never costs the newest packet: whatever the consumer of the
\* queue does between the size check, the evictions and the push, try_push
\* finds room, and nothing is refused.
NewestIsAdmitted ==
  /\ srcPc = "push" => HasRoom(importQueue, ImportCapacity)
  /\ tabPc = "push" => HasRoom(exportQueue, ExportCapacity)
  /\ refused = {}

Places == <<Held(srcHand), Elements(importQueue), Held(tabHand),
            Elements(exportQueue), Held(pubHand), Elements(wire), Elements(proxy),
            importEvicted, exportEvicted, refused, lost>>

\* Every packet handed over is in exactly one place: in flight, at the proxy,
\* or gone for exactly one reason.
Conserved ==
  /\ UNION {Places[i] : i \in DOMAIN Places} = 1..arrived
  /\ \A i, j \in DOMAIN Places : i < j => Places[i] \cap Places[j] = {}

\* A queue gives up packets only under pressure.  Between size() and try_pop
\* the consumer may pop too, so a packet may be evicted from a queue that is no
\* longer full; but never more of them than arrived on top of a full queue.
EvictsOnlyUnderPressure ==
  /\ importEvicted # {}
       => Cardinality(importEvicted) + ImportCapacity <= arrived
  /\ exportEvicted # {}
       => Cardinality(exportEvicted) + ExportCapacity <= arrived

\* What makes it inductive: what a thread found in the queue when it decided to
\* evict counts among the packets that arrived, and so does the one it holds.
FoundFull ==
  /\ srcPc = "evict"
       => Cardinality(importEvicted) + ImportCapacity + 1 <= arrived
  /\ tabPc = "evict"
       => Cardinality(exportEvicted) + ExportCapacity + 1 <= arrived

\* The stages hold the packets in order, the oldest the furthest along, which
\* is what keeps the order across two queues, three threads and a stream.
Younger(S, T) == \A p \in S : \A q \in T : p > q
Increasing(q) == \A i, j \in 1..Len(q) : i < j => q[i] < q[j]

Staged(S, I, T, E, P, W) ==
  /\ Younger(S, I \cup T \cup E \cup P \cup W)
  /\ Younger(I, T \cup E \cup P \cup W)
  /\ Younger(T, E \cup P \cup W)
  /\ Younger(E, P \cup W)
  /\ Younger(P, W)

Ordered ==
  /\ Increasing(wire) /\ Increasing(exportQueue) /\ Increasing(importQueue)
  /\ Staged(Held(srcHand), Elements(importQueue), Held(tabHand),
            Elements(exportQueue), Held(pubHand), Elements(wire))
  /\ InFlight \subseteq 1..arrived

\* The program is a lossy channel that neither duplicates nor reorders.
Channel == INSTANCE LossyFifo
             WITH accepted <- arrived, inFlight <- InFlight, delivered <- proxy
IsLossyFifo == Channel!Spec

\* The proxy keeps the stream open and never again reads from it.
ProxyStalls ==
  \E p \in 1..MaxPackets : <>[](wire # <<>> /\ Head(wire) = p)

\* No packet stays in the process for good: each is delivered or dropped,
\* unless the process was told to stop or the publisher has given up.  The one
\* excuse is a proxy that stalls: Write has no deadline.
EveryPacketDecided ==
  \/ ProxyStalls
  \/ \A p \in 1..MaxPackets :
       p \in InFlight ~> (p \notin InFlight \/ ~keepRunning \/ pubPc = "threw")

\* Once the main thread is at its joins every thread comes to an end: no wait,
\* unfinished RPC or lost notification holds the shutdown up for good, only a
\* Write or a Finish to a proxy that stalls.
ThreadsEnd ==
  \/ ProxyStalls
  \/ mainPc = "join"
       ~> srcPc \in SrcFinal /\ tabPc = "returned" /\ pubPc \in PubFinal

\* What the threads have left to do once both flags are down: the packets of the
\* payload in hand, the evictions they may cause, and the way to the end.
SrcLevel ==
  CASE srcPc = "recover" -> 3
    [] srcPc = "loop"    -> 2
    [] srcPc = "collect" -> 6 * MaxBatch + 4
    [] srcPc = "batch"   -> 3
    [] srcPc = "size"    -> 8
    [] srcPc = "evict"   -> 7
    [] srcPc = "push"    -> 6
    [] srcPc = "leaving" -> 1
    [] OTHER             -> 0
SrcStepsLeft == 6 * batch + SrcLevel
TabStepsLeft ==
  CASE tabPc = "loop"  -> 1
    [] tabPc = "pop"   -> 7
    [] tabPc = "size"  -> 6
    [] tabPc = "evict" -> 5
    [] tabPc = "push"  -> 4
    [] OTHER           -> 0
PubStepsLeft ==
  CASE pubPc \in {"waitPred", "woken"}      -> 5
    [] pubPc = "blocking"                   -> 4
    [] pubPc = "waiting"                    -> 3
    [] pubPc \in {"top", "recheck"}         -> 2
    [] pubPc \in {"connect", "pop", "write"} -> 6
    [] pubPc = "poll"                       -> 5
    [] pubPc = "closing"                    -> 4
    [] pubPc = "finish"                     -> 3
    [] pubPc = "after"                      -> 1
    [] OTHER                                -> 0
StepsLeft ==
  SrcStepsLeft + TabStepsLeft + PubStepsLeft
    + 2 * (Len(importQueue) + Len(exportQueue))

threadVars == <<srcVars, importQueue, tabVars, refused, pubVars, exportQueue>>

\* Once the main thread is at its joins no thread starts anything over, no retry,
\* no poll, no payload: every step of theirs uses up one of those left, whatever
\* the schedule of retries and the queues hold.  What ThreadsEnd needs beyond
\* it is that the threads are scheduled and the calls into gRPC return.
ShutdownAdvances ==
  [][mainPc = "join" =>
       \/ StepsLeft' < StepsLeft
       \/ UNCHANGED threadVars]_pipelineVars
=============================================================================
