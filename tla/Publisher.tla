------------------------------ MODULE Publisher ------------------------------
(***************************************************************************)
(* The publisher thread: Process::sendPacketsToProxy (the retry loop) and  *)
(* PacketWriter::publishSynchronously (one client-streaming RPC), together *)
(* with the gRPC stream it writes to and the import proxy at the far end.  *)
(*                                                                         *)
(* pubPc names the place in the code the thread is about to execute:       *)
(*   top       for-condition and the first read of mKeepRunning            *)
(*   waitPred  wait_for evaluates its predicate, mShutdownMutex held       *)
(*   blocking  the predicate was false, the thread is not asleep yet       *)
(*   waiting   blocked in mShutdownCondition.wait_for                      *)
(*   woken     notified, about to evaluate the predicate again             *)
(*   recheck   the read of mKeepRunning after the wait                     *)
(*   connect   createChannel, NewStub, Publish                             *)
(*   poll      while (keepRunning->load())                                 *)
(*   pop       importQueue->try_pop (the export queue of the process)      *)
(*   write     writer->Write(packet), packet in pubHand                    *)
(*   closing   if (!keepRunning->load()) WritesDone                        *)
(*   finish    writer->Finish() and the handling of the status             *)
(*   after     the read of mKeepRunning behind the loop                    *)
(*   returned, threw   the thread's future is ready                        *)
(***************************************************************************)
EXTENDS Integers, Sequences

CONSTANTS
  RetryCount,   \* retrySchedule.size(); the waits themselves are untimed
  Window        \* packets the transport buffers before Write blocks

ASSUME PublisherAssumption ==
  /\ RetryCount \in Nat
  /\ Window \in Nat \ {0}

VARIABLES
  keepRunning,        \* Process::mKeepRunning
  shutdownRequested,  \* Process::mShutdownRequested
  exportQueue,        \* Process::mExportQueue
  pubPc,              \* see above
  kRetry,             \* the loop variable of sendPacketsToProxy
  hadWrite,           \* hadSuccessfulWrite of the current RPC
  writesDone,         \* WritesDone was called on the current RPC
  status,             \* the code of the last Finish
  pubHand,            \* the packet popped and not yet written, or NoPacket
  rpc,                \* the stream, as the gRPC library knows it
  wire,               \* written, not yet received by the proxy
  proxy,              \* what the import proxy has received, in order
  lost,               \* popped from the queue and never received
  fruitless           \* history: RPCs in a row that wrote nothing

pubVars == <<pubPc, kRetry, hadWrite, writesDone, status, pubHand, fruitless>>
streamVars == <<rpc, wire, proxy, lost>>
flagVars == <<keepRunning, shutdownRequested>>
publisherVars == <<pubVars, streamVars, flagVars, exportQueue>>

NoPacket == 0
Packets == Nat \ {NoPacket}
Statuses == {"OK", "UNAVAILABLE", "CANCELLED", "OTHER"}
PubFinal == {"returned", "threw"}

Elements(q) == {q[i] : i \in 1..Len(q)}
Held(hand) == {hand} \ {NoPacket}

-----------------------------------------------------------------------------
PubInit ==
  /\ pubPc = "top"
  /\ kRetry = -1
  /\ hadWrite = FALSE
  /\ writesDone = FALSE
  /\ status = "OK"
  /\ pubHand = NoPacket
  /\ rpc = "broken"
  /\ wire = <<>>
  /\ proxy = <<>>
  /\ lost = {}
  /\ fruitless = 0

Goto(from, to) ==
  /\ pubPc = from
  /\ pubPc' = to

\* A slip: one attempt more than the schedule has waits.
RetriesPastSchedule ==
  /\ Goto("top", IF kRetry > RetryCount \/ ~keepRunning THEN "after"
                 ELSE IF kRetry >= 0 THEN "waitPred"
                 ELSE "connect")
  /\ UNCHANGED <<kRetry, hadWrite, writesDone, status, pubHand, fruitless,
                 streamVars, flagVars, exportQueue>>

\* A slip: the condition of the for loop is the schedule's only.
RetriesAfterStop ==
  /\ Goto("top", IF kRetry >= RetryCount THEN "after"
                 ELSE IF kRetry >= 0 THEN "waitPred"
                 ELSE "connect")
  /\ UNCHANGED <<kRetry, hadWrite, writesDone, status, pubHand, fruitless,
                 streamVars, flagVars, exportQueue>>

\* The head of the for loop: its condition, the first read of mKeepRunning,
\* and the branch on kRetry >= 0.
PubTop ==
  /\ Goto("top", IF kRetry >= RetryCount \/ ~keepRunning THEN "after"
                 ELSE IF kRetry >= 0 THEN "waitPred"
                 ELSE "connect")
  /\ UNCHANGED <<kRetry, hadWrite, writesDone, status, pubHand, fruitless,
                 streamVars, flagVars, exportQueue>>

\* wait_for evaluates its predicate before blocking and after a notification.
\* The flag is a plain bool written without the mutex; a stale read is the read
\* of a moment before the write, since notify_all makes the write visible.
PubWaitPredicate ==
  /\ pubPc \in {"waitPred", "woken"}
  /\ pubPc' = IF shutdownRequested THEN "recheck" ELSE "blocking"
  /\ UNCHANGED <<kRetry, hadWrite, writesDone, status, pubHand, fruitless,
                 streamVars, flagVars, exportQueue>>

\* The mutex is held until the thread sleeps, but whoever notifies does not
\* take it: a notification that comes before this step is lost.
PubBlocks ==
  /\ Goto("blocking", "waiting")
  /\ UNCHANGED <<kRetry, hadWrite, writesDone, status, pubHand, fruitless,
                 streamVars, flagVars, exportQueue>>

\* A slip: wait where the code has wait_for, so only a notification ends it.
WaitsForever ==
  /\ shutdownRequested /\ ~shutdownRequested
  /\ UNCHANGED publisherVars

\* retrySchedule.at(kRetry) has elapsed.
PubWaitTimesOut ==
  /\ Goto("waiting", "recheck")
  /\ UNCHANGED <<kRetry, hadWrite, writesDone, status, pubHand, fruitless,
                 streamVars, flagVars, exportQueue>>

PubRecheck ==
  /\ Goto("recheck", IF keepRunning THEN "connect" ELSE "after")
  /\ UNCHANGED <<kRetry, hadWrite, writesDone, status, pubHand, fruitless,
                 streamVars, flagVars, exportQueue>>

\* A new channel, stub and stream.  wait_for_ready is off: against a server
\* that is away the stream is broken from the start.
PubConnect ==
  /\ Goto("connect", "poll")
  /\ hadWrite' = FALSE
  /\ writesDone' = FALSE
  /\ rpc' \in {"open", "broken"}
  /\ UNCHANGED <<kRetry, status, pubHand, fruitless, wire, proxy, lost,
                 flagVars, exportQueue>>

PubPoll ==
  /\ Goto("poll", IF keepRunning THEN "pop" ELSE "closing")
  /\ UNCHANGED <<kRetry, hadWrite, writesDone, status, pubHand, fruitless,
                 streamVars, flagVars, exportQueue>>

\* try_pop; on an empty queue the thread sleeps and polls again.
PubPop ==
  /\ pubPc = "pop"
  /\ \/ /\ exportQueue = <<>>
        /\ pubPc' = "poll"
        /\ UNCHANGED <<pubHand, exportQueue>>
     \/ /\ exportQueue # <<>>
        /\ pubPc' = "write"
        /\ pubHand' = Head(exportQueue)
        /\ exportQueue' = Tail(exportQueue)
  /\ UNCHANGED <<kRetry, hadWrite, writesDone, status, fruitless, streamVars,
                 flagVars>>

\* Write returns true: the transport has taken the packet.  It blocks while
\* the flow-control window is full.
PubWriteSucceeds ==
  /\ Goto("write", "poll")
  /\ rpc = "open"
  /\ Len(wire) < Window
  /\ wire' = Append(wire, pubHand)
  /\ pubHand' = NoPacket
  /\ hadWrite' = TRUE
  /\ UNCHANGED <<kRetry, writesDone, status, fruitless, rpc, proxy, lost,
                 flagVars, exportQueue>>

\* A slip: the packet a broken stream refused is put back, but behind the
\* packets that came after it.
RequeuesBehind ==
  /\ Goto("write", "closing")
  /\ rpc = "broken"
  /\ exportQueue' = Append(exportQueue, pubHand)
  /\ pubHand' = NoPacket
  /\ UNCHANGED <<kRetry, hadWrite, writesDone, status, fruitless,
                 streamVars, flagVars>>

\* Write returns false: the packet it was given is gone.
PubWriteFails ==
  /\ Goto("write", "closing")
  /\ rpc = "broken"
  /\ lost' = lost \cup {pubHand}
  /\ pubHand' = NoPacket
  /\ UNCHANGED <<kRetry, hadWrite, writesDone, status, fruitless, rpc, wire,
                 proxy, flagVars, exportQueue>>

\* A slip: the test before WritesDone is inverted.
HalfClosesWhileRunning ==
  /\ Goto("closing", "finish")
  /\ writesDone' = keepRunning
  /\ UNCHANGED <<kRetry, hadWrite, status, pubHand, fruitless, streamVars,
                 flagVars, exportQueue>>

\* Behind the write loop: WritesDone unless the process is still running.
PubClosing ==
  /\ Goto("closing", "finish")
  /\ writesDone' = ~keepRunning
  /\ UNCHANGED <<kRetry, hadWrite, status, pubHand, fruitless, streamVars,
                 flagVars, exportQueue>>

\* What Finish returns: any status once the stream is broken (a server that
\* ends the RPC early says OK), OK when the server has read a half-closed
\* stream to its end.  On an open stream that was not half closed it blocks.
FinishReturns(code) ==
  \/ rpc = "broken"
  \/ rpc = "open" /\ writesDone /\ wire = <<>> /\ code = "OK"

\* The status handling: which codes leave the retry loop.
LeavesLoop(code) ==
  \/ code \in {"OK", "CANCELLED"} /\ ~keepRunning
  \/ code = "OTHER"

\* A slip: kRetry is never reset after a successful write.
RetryWithoutReset(k, wrote) == k + 1

\* if (hadSuccessfulWrite){kRetry = -1;} and the ++kRetry of the for loop.
NextRetry(k, wrote) == (IF wrote THEN -1 ELSE k) + 1

PubFinish ==
  \E code \in Statuses :
    /\ FinishReturns(code)
    /\ Goto("finish", IF LeavesLoop(code) THEN "after" ELSE "top")
    /\ kRetry' = IF LeavesLoop(code) THEN kRetry ELSE NextRetry(kRetry, hadWrite)
    /\ status' = code
    /\ rpc' = "broken"
    /\ fruitless' = IF hadWrite THEN 0 ELSE fruitless + 1
    /\ UNCHANGED <<hadWrite, writesDone, pubHand, wire, proxy, lost, flagVars,
                   exportQueue>>

\* A slip: the final test is left out and the thread ends as if asked to.
ReturnsQuietly ==
  /\ Goto("after", "returned")
  /\ UNCHANGED <<kRetry, hadWrite, writesDone, status, pubHand, fruitless,
                 streamVars, flagVars, exportQueue>>

\* Behind the retry loop: an end nobody asked for is an exception.
PubAfter ==
  /\ Goto("after", IF keepRunning THEN "threw" ELSE "returned")
  /\ UNCHANGED <<kRetry, hadWrite, writesDone, status, pubHand, fruitless,
                 streamVars, flagVars, exportQueue>>

PubNext ==
  \/ PubTop \/ PubWaitPredicate \/ PubBlocks \/ PubWaitTimesOut \/ PubRecheck
  \/ PubConnect \/ PubPoll \/ PubPop
  \/ PubWriteSucceeds \/ PubWriteFails
  \/ PubClosing \/ PubFinish \/ PubAfter

-----------------------------------------------------------------------------
(* The far end: external, as publishSynchronously uses it. *)

ProxyReceives ==
  /\ rpc = "open"
  /\ wire # <<>>
  /\ proxy' = Append(proxy, Head(wire))
  /\ wire' = Tail(wire)
  /\ UNCHANGED <<rpc, lost, pubVars, flagVars, exportQueue>>

\* The stream fails: what the transport still held is never received.
StreamBreaks ==
  /\ rpc = "open"
  /\ pubPc \in {"poll", "pop", "write", "closing", "finish"}
  /\ rpc' = "broken"
  /\ lost' = lost \cup Elements(wire)
  /\ wire' = <<>>
  /\ UNCHANGED <<proxy, pubVars, flagVars, exportQueue>>

StreamNext == ProxyReceives \/ StreamBreaks

\* mShutdownCondition.notify_all as the publisher sees it: without effect
\* unless the thread is asleep.
Notified(pc) == IF pc = "waiting" THEN "woken" ELSE pc

-----------------------------------------------------------------------------
PubTypeOK ==
  /\ keepRunning \in BOOLEAN
  /\ shutdownRequested \in BOOLEAN
  /\ exportQueue \in Seq(Packets)
  /\ pubPc \in {"top", "waitPred", "blocking", "waiting", "woken", "recheck",
                "connect", "poll", "pop", "write", "closing", "finish", "after"}
               \cup PubFinal
  /\ kRetry \in -1..RetryCount
  /\ hadWrite \in BOOLEAN
  /\ writesDone \in BOOLEAN
  /\ status \in Statuses
  /\ pubHand \in Nat
  /\ rpc \in {"open", "broken"}
  /\ wire \in Seq(Packets)
  /\ proxy \in Seq(Packets)
  /\ lost \in SUBSET Packets
  /\ fruitless \in Nat

\* Finish is never called on a live stream that was not half closed, which
\* would block the thread, and with it Process::stop, until the server gives
\* up.  It rests on two reads of mKeepRunning, the one that ends the write
\* loop and the one before WritesDone.
FinishNeverHangs ==
  pubPc = "finish" /\ rpc = "open" => writesDone

\* No silent end: a publisher that ends normally was told to.
EndsOnlyWhenTold ==
  pubPc = "returned" => ~keepRunning

\* The publisher never ends without a reason.  By an exception it ends only when
\* the whole schedule of retries went by without one packet written, or on a
\* code that is not retried; without one, only when it was told to; and it
\* never spends more attempts than the schedule has.
GivesUpOnlyWhenSpent ==
  /\ pubPc = "threw" => fruitless >= RetryCount \/ status = "OTHER"
  /\ EndsOnlyWhenTold
  /\ fruitless <= RetryCount + 1

\* What makes these inductive: a live stream is left only after the
\* process was told to stop, and kRetry counts the fruitless attempts, one of
\* them spared after a success.
ClosesWhenTold == pubPc = "closing" /\ rpc = "open" => ~keepRunning

RetriesCount ==
  /\ pubPc \notin {"after"} \cup PubFinal
       => kRetry <= fruitless /\ fruitless <= kRetry + 1
  /\ pubPc = "after" => fruitless >= RetryCount \/ status = "OTHER" \/ ~keepRunning

PubInv ==
  /\ FinishNeverHangs /\ GivesUpOnlyWhenSpent
  /\ ClosesWhenTold /\ RetriesCount
=============================================================================
