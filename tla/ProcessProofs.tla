----------------------------- MODULE ProcessProofs -----------------------------
(***************************************************************************)
(* Proofs about the main thread among the others: it stops for a reason,   *)
(* never waits on a future it has fetched, and does not return before      *)
(* every thread is over, whatever the schedule of retries, the capacities  *)
(* and the moment of a signal.                                             *)
(***************************************************************************)
EXTENDS Process, PacketOrderProofs

-----------------------------------------------------------------------------
(* The futures. *)

LEMMA Futures ==
  /\ Entries \subseteq Nat /\ Len(mFutures) \in Nat /\ Len(mFutures) >= 3
  /\ \A i \in Entries :
       /\ mFutures[i] \in {"windows", "tabulator", "publisher", "seedlink"}
       /\ mFutures[i] = "windows" => ExportMetrics
  /\ \A f \in {"tabulator", "publisher", "seedlink"} :
       \E i \in Entries : mFutures[i] = f
<1>1. CASE ExportMetrics
  <2>1. mFutures = <<"windows", "tabulator", "publisher", "seedlink">>
        /\ Entries = 1..4 /\ Len(mFutures) = 4
    BY <1>1 DEF mFutures, Entries
  <2>2. mFutures[2] = "tabulator" /\ mFutures[3] = "publisher"
        /\ mFutures[4] = "seedlink" /\ mFutures[1] = "windows"
    BY <2>1
  <2>3. QED
    BY <1>1, <2>1, <2>2
<1>2. CASE ~ExportMetrics
  <2>1. mFutures = <<"tabulator", "publisher", "seedlink">>
        /\ Entries = 1..3 /\ Len(mFutures) = 3
    BY <1>2 DEF mFutures, Entries
  <2>2. mFutures[1] = "tabulator" /\ mFutures[2] = "publisher"
        /\ mFutures[3] = "seedlink"
    BY <2>1
  <2>3. QED
    BY <2>1, <2>2
<1>3. QED
  BY <1>1, <1>2

LEMMA AnyThrew == AnyThreadThrew <=> pubPc = "threw" \/ srcPc = "threw"
  BY Futures DEF AnyThreadThrew, Threw

-----------------------------------------------------------------------------
(* The pipeline inside the process. *)

\* What the main thread does beside its shutdown sequence.
Quiet ==
  /\ ThreadsUnchanged
  /\ UNCHANGED <<clientRunning, keepRunning, pubVars>>
  /\ shutdownRequested' \in {shutdownRequested, TRUE}

LEMMA StepKinds ==
  ASSUME [ProcNext]_processVars
  PROVE  Next \/ Quiet
<1> USE DEF Quiet, ThreadsUnchanged
<1>1. CASE ThreadsNext
  BY <1>1 DEF Next
<1>2. CASE MainNotifies \/ MainStopsRunning \/ MainStopsClient
  BY <1>2 DEF Next, ShutdownNext, MainNotifies, MainStopsRunning, MainStopsClient
<1>3. CASE MainLoop \/ MainDecides \/ MainPauseTimesOut
  BY <1>3 DEF MainLoop, MainDecides, MainPauseTimesOut, RequestShutdown, flagVars
<1>4. CASE MainJoins \/ MainJoinThrows \/ MainJoined \/ MainEnds
  BY <1>4 DEF MainJoins, MainJoinThrows, MainJoined, MainEnds, JoinUnchanged,
              publisherVars, flagVars
<1>5. CASE MainChecksFuture \/ Signal \/ WinNext \/ UNCHANGED processVars
  BY <1>5 DEF MainChecksFuture, Signal, WinNext, WinLoop, WinWaitPredicate, WinBlocks,
              WinWaitTimesOut, WinStep, processVars, pipelineVars, publisherVars, flagVars
<1>6. QED
  BY <1>1, <1>2, <1>3, <1>4, <1>5 DEF ProcNext, MainNext

LEMMA QuietKeeps ==
  ASSUME TypeInv, PubInv, Quiet
  PROVE  TypeInv' /\ PubInv'
<1> USE DEF Quiet
<1>1. PubTypeOK' /\ PubHandFull' /\ RetriesBounded'
  <2>1. UNCHANGED <<exportQueue, pubPc, kRetry, hadWrite, writesDone, status, pubHand,
                    rpc, wire, proxy, lost, fruitless, keepRunning>>
    BY DEF ThreadsUnchanged, pubVars, streamVars
  <2>2. shutdownRequested \in BOOLEAN /\ shutdownRequested' \in BOOLEAN
    BY DEF TypeInv, TypeOK, PubTypeOK
  <2>3. PubTypeOK'
    BY <2>1, <2>2 DEF TypeInv, TypeOK, PubTypeOK
  <2>4. PubHandFull' /\ RetriesBounded'
    BY <2>1 DEF TypeInv, HandsFull, PubHandFull, RetriesBounded
  <2>5. QED
    BY <2>3, <2>4
<1>2. SrcTypeOK' /\ TabTypeOK' /\ QueueTypeOK' /\ SrcHandFull' /\ TabHandFull'
  BY DEF TypeInv, TypeOK, HandsFull, SrcTypeOK, TabTypeOK, QueueTypeOK,
         SrcHandFull, TabHandFull, ThreadsUnchanged, srcVars, tabVars
<1>3. TypeInv'
  BY <1>1, <1>2 DEF TypeInv, TypeOK, HandsFull
<1>4. PubNumbers
  BY DEF TypeInv, TypeOK, PubTypeOK, PubNumbers
<1>5. PubInv'
  BY <1>4, PubInvOthers DEF ThreadsUnchanged, pubVars, streamVars
<1>6. QED
  BY <1>3, <1>5

LEMMA PipelineKeeps ==
  ASSUME TypeInv, PubInv, [ProcNext]_processVars
  PROVE  TypeInv' /\ PubInv'
  BY StepKinds, QuietKeeps, TypeInvNext, PubInvNext

-----------------------------------------------------------------------------
(* Threads that are over stay over. *)

LEMMA ThreadsMonotone ==
  ASSUME ThreadsNext
  PROVE  /\ UNCHANGED <<keepRunning, clientRunning, mainPc>>
         /\ srcPc \in SrcFinal => srcPc' = srcPc
         /\ tabPc = "returned" => tabPc' = tabPc
         /\ pubPc \in PubFinal => pubPc' = pubPc
         /\ srcPc' = "returned" => srcPc = "returned" \/ ~clientRunning
         /\ tabPc' = "returned" => tabPc = "returned" \/ ~keepRunning
<1>1. CASE SrcNext \/ SrcCollect \/ SrcIsTerminated
  <2>1. /\ UNCHANGED <<keepRunning, clientRunning, mainPc, tabPc, pubPc>>
        /\ srcPc \notin SrcFinal
        /\ srcPc' = "returned" => ~clientRunning
    BY <1>1 DEF SrcNext, SrcCollect, SrcIsTerminated, SrcRecover, SrcPoll,
         SrcGetsNothing, SrcHandOver, SrcBatchDone, SrcSize, SrcEvict, SrcPush,
         SrcLeave, SrcStep, SrcFinal, tabVars, publisherVars, flagVars, pubVars
  <2>2. QED
    BY <2>1
<1>2. CASE TabNext
  <2>1. /\ UNCHANGED <<keepRunning, clientRunning, mainPc, srcPc, pubPc>>
        /\ tabPc # "returned"
        /\ tabPc' = "returned" => ~keepRunning
    BY <1>2 DEF TabNext, TabLoop, TabPop, TabSize, TabEvict, TabPush, TabStep,
         srcVars, pubVars, flagVars
  <2>2. QED
    BY <2>1
<1>3. CASE PubNext /\ PipelineUnchanged
  <2>1. UNCHANGED <<clientRunning, mainPc, srcPc, tabPc>>
    BY <1>3 DEF PipelineUnchanged, srcVars, tabVars
  <2>2. UNCHANGED keepRunning /\ pubPc \notin PubFinal
    BY <1>3 DEF PubNext, PubTop, PubWaitPredicate, PubBlocks, PubWaitTimesOut,
       PubRecheck, PubConnect, PubPoll, PubPop, PubWriteSucceeds, PubWriteFails,
       PubClosing, PubFinish, PubAfter, Goto, flagVars, PubFinal
  <2>3. QED
    BY <2>1, <2>2
<1>4. CASE StreamNext /\ PipelineUnchanged
  BY <1>4 DEF PipelineUnchanged, srcVars, tabVars, StreamNext, ProxyReceives,
     StreamBreaks, pubVars, flagVars
<1>5. QED
  BY <1>1, <1>2, <1>3, <1>4 DEF ThreadsNext

\* What a step of the main thread leaves of the threads.
LEMMA MainMonotone ==
  ASSUME MainNext
  PROVE  /\ keepRunning' \in {keepRunning, FALSE}
         /\ clientRunning' \in {clientRunning, FALSE}
         /\ UNCHANGED <<srcPc, tabPc, interrupted>>
         /\ pubPc' \in {pubPc, Notified(pubPc)} /\ winPc' \in {winPc, Notified(winPc)}
<1> USE DEF ThreadsUnchanged, srcVars, tabVars, pubVars, flagVars, mainVars
<1>1. CASE MainLoop \/ MainDecides \/ MainPauseTimesOut
  BY <1>1 DEF MainLoop, MainDecides, MainPauseTimesOut, RequestShutdown
<1>2. CASE MainNotifies \/ MainStopsRunning \/ MainStopsClient
  BY <1>2 DEF MainNotifies, MainStopsRunning, MainStopsClient, NotifyShutdown,
              StopRunning, StopClient
<1>3. CASE MainJoins \/ MainJoinThrows \/ MainJoined \/ MainEnds
  BY <1>3 DEF MainJoins, MainJoinThrows, MainJoined, MainEnds, JoinUnchanged,
              publisherVars
<1>4. CASE MainChecksFuture
  BY <1>4 DEF MainChecksFuture, pipelineVars, publisherVars
<1>5. QED
  BY <1>1, <1>2, <1>3, <1>4 DEF MainNext

LEMMA WinMonotone ==
  ASSUME WinNext \/ Signal
  PROVE  /\ UNCHANGED <<keepRunning, clientRunning, srcPc, tabPc, pubPc, mainVars,
                        mainPc>>
         /\ interrupted => interrupted'
         /\ winPc = "returned" => winPc' = winPc
         /\ winPc' = "returned" => winPc = "returned" \/ ~keepRunning
  BY DEF WinNext, WinLoop, WinWaitPredicate, WinBlocks, WinWaitTimesOut, WinStep,
         Signal, pipelineVars, publisherVars, srcVars, tabVars, pubVars, flagVars

\* Once over, always over; a thread that threw has thrown.
LEMMA Monotone ==
  ASSUME ProcInv, [ProcNext]_processVars
  PROVE  /\ keepRunning' => keepRunning
         /\ clientRunning' => clientRunning
         /\ interrupted => interrupted'
         /\ AnyThreadThrew => AnyThreadThrew'
         /\ \A i \in Entries : Ready(mFutures[i]) => Ready(mFutures[i])'
         /\ ReturnsOnlyWhenTold'
<1>0. /\ keepRunning \in BOOLEAN /\ clientRunning \in BOOLEAN
      /\ ReturnsOnlyWhenTold
  BY DEF ProcInv, ProcTypeOK, TypeOK, PubTypeOK, SrcTypeOK
<1>1. /\ keepRunning' => keepRunning
      /\ clientRunning' => clientRunning
      /\ interrupted => interrupted'
      /\ srcPc \in SrcFinal => srcPc' = srcPc
      /\ tabPc = "returned" => tabPc' = tabPc
      /\ pubPc \in PubFinal => pubPc' = pubPc
      /\ winPc = "returned" => winPc' = winPc
      /\ srcPc' = "returned" => srcPc = "returned" \/ ~clientRunning
      /\ tabPc' = "returned" => tabPc = "returned" \/ ~keepRunning
      /\ winPc' = "returned" => winPc = "returned" \/ ~keepRunning
  <2>1. CASE MainNext
    <3>1. (keepRunning' => keepRunning) /\ (clientRunning' => clientRunning)
      <4>1. /\ keepRunning' = keepRunning \/ keepRunning' = FALSE
            /\ clientRunning' = clientRunning \/ clientRunning' = FALSE
        BY <2>1, MainMonotone
      <4>2. QED
        BY <4>1
    <3>2. UNCHANGED <<srcPc, tabPc, interrupted>>
      BY <2>1, MainMonotone
    <3>3. pubPc \in PubFinal => pubPc' = pubPc
      BY <2>1, MainMonotone DEF Notified, PubFinal
    <3>4. /\ winPc = "returned" => winPc' = winPc
          /\ winPc' = "returned" => winPc = "returned"
      BY <2>1, MainMonotone DEF Notified
    <3>5. QED
      BY <3>1, <3>2, <3>3, <3>4
  <2>2. CASE Signal \/ WinNext
    BY <2>2, WinMonotone
  <2>3. CASE ThreadsNext /\ ProcessUnchanged
    BY <2>3, ThreadsMonotone DEF ProcessUnchanged
  <2>4. CASE UNCHANGED processVars
    BY <2>4 DEF processVars, pipelineVars, publisherVars, srcVars, tabVars, pubVars,
                flagVars
  <2>5. QED
    BY <2>1, <2>2, <2>3, <2>4 DEF ProcNext
<1>2. AnyThreadThrew => AnyThreadThrew'
  <2>1. AnyThreadThrew' <=> pubPc' = "threw" \/ srcPc' = "threw"
    BY Futures DEF AnyThreadThrew, Threw
  <2>2. QED
    BY <2>1, <1>1, AnyThrew DEF PubFinal, SrcFinal
<1>3. \A i \in Entries : Ready(mFutures[i]) => Ready(mFutures[i])'
  BY <1>1, Futures DEF Ready
<1>4. ReturnsOnlyWhenTold'
  BY <1>0, <1>1 DEF ReturnsOnlyWhenTold
<1>5. QED
  BY <1>1, <1>2, <1>3, <1>4

-----------------------------------------------------------------------------
(* The invariant. *)

LEMMA ProcInvInit == ProcInit => ProcInv
<1> SUFFICES ASSUME ProcInit PROVE ProcInv
  OBVIOUS
<1>1. Init
  BY DEF ProcInit, Init
<1>2. TypeInv /\ PubInv
  BY <1>1, TypeInvInit, PubInvInit
<1>3. ProcTypeOK
  <2>1. TypeOK
    BY <1>2 DEF TypeInv
  <2>2. valid \in [Entries -> BOOLEAN] /\ atFuture \in 1..(Len(mFutures) + 1)
    BY Futures DEF ProcInit
  <2>3. /\ interrupted \in BOOLEAN /\ isOkay \in BOOLEAN /\ unwinding \in BOOLEAN
        /\ mainPc = "loop" /\ winPc \in {"loop", "returned"} /\ exit = "none"
    BY DEF ProcInit
  <2>4. QED
    BY <2>1, <2>2, <2>3 DEF ProcTypeOK
<1>4. ReturnsOnlyWhenTold
  BY DEF ProcInit, ThreadsInit, ReturnsOnlyWhenTold
<1>5. MainRuns /\ MainJoinsAll
  BY DEF ProcInit, ThreadsInit, MainRuns, MainJoinsAll
<1>6. QED
  BY <1>2, <1>3, <1>4, <1>5 DEF ProcInv

LEMMA ProcTypeNext ==
  ASSUME ProcInv, [ProcNext]_processVars
  PROVE  ProcTypeOK'
<1>1. TypeOK'
  BY PipelineKeeps DEF ProcInv, TypeInv
<1>2. ProcTypeOK
  BY DEF ProcInv
<1> USE <1>1, <1>2 DEF ProcTypeOK
<1>3. CASE MainLoop
  BY <1>3, Futures DEF MainLoop, MainStep
<1>4. CASE MainChecksFuture
  <2>1. atFuture + 1 \in 1..(Len(mFutures) + 1)
    BY <1>4, Futures DEF MainChecksFuture, Entries
  <2>2. valid' \in [Entries -> BOOLEAN] /\ isOkay' \in BOOLEAN
    <3>1. (valid[atFuture] /\ ~Ready(mFutures[atFuture])) \in BOOLEAN
          /\ (isOkay /\ StaysOkay(atFuture)) \in BOOLEAN
      OBVIOUS
    <3>2. QED
      BY <3>1, <1>4 DEF MainChecksFuture
  <2>3. QED
    BY <2>1, <2>2, <1>4 DEF MainChecksFuture, pipelineVars
<1>5. CASE MainDecides \/ MainPauseTimesOut \/ MainStopsClient
  BY <1>5 DEF MainDecides, MainPauseTimesOut, MainStopsClient, MainStep, mainVars
<1>6. CASE MainNotifies
  BY <1>6 DEF MainNotifies, MainStep, mainVars, Notified
<1>7. CASE MainStopsRunning
  BY <1>7, Futures DEF MainStopsRunning, MainStep
<1>8. CASE MainJoins
  BY <1>8, Futures DEF MainJoins, JoinUnchanged, Entries
<1>9. CASE MainJoinThrows
  BY <1>9 DEF MainJoinThrows, JoinUnchanged
<1>10. CASE MainJoined \/ MainEnds
  BY <1>10 DEF MainJoined, MainEnds, MainStep, JoinUnchanged, mainVars
<1>11. CASE Signal
  BY <1>11 DEF Signal, pipelineVars, mainVars
<1>12. CASE WinNext
  BY <1>12 DEF WinNext, WinLoop, WinWaitPredicate, WinBlocks, WinWaitTimesOut,
               WinStep, pipelineVars, mainVars
<1>13. CASE ThreadsNext /\ ProcessUnchanged
  BY <1>13, ThreadsMonotone DEF ProcessUnchanged, mainVars
<1>14. CASE UNCHANGED processVars
  BY <1>14 DEF processVars, pipelineVars, mainVars
<1>15. QED
  BY <1>3, <1>4, <1>5, <1>6, <1>7, <1>8, <1>9, <1>10, <1>11, <1>12, <1>13, <1>14
  DEF ProcNext, MainNext

\* In a running process only a thread that threw is over.
LEMMA ReadyMeansThrew ==
  ASSUME ProcInv, keepRunning, clientRunning, NEW i \in Entries,
         Ready(mFutures[i])
  PROVE  Threw(mFutures[i])
<1>1. EndsOnlyWhenTold /\ ReturnsOnlyWhenTold
  BY DEF ProcInv, PubInv, GivesUpOnlyWhenSpent
<1>2. mFutures[i] \in {"windows", "tabulator", "publisher", "seedlink"}
      /\ (mFutures[i] = "windows" => ExportMetrics)
  BY Futures
<1>3. QED
  BY <1>1, <1>2 DEF Ready, Threw, EndsOnlyWhenTold, ReturnsOnlyWhenTold, PubFinal,
                    SrcFinal

\* Steps that leave the main thread where it is.
LEMMA OthersKeepMain ==
  ASSUME ProcInv, [ProcNext]_processVars,
         UNCHANGED <<mainPc, mainVars, keepRunning, clientRunning>>
  PROVE  MainRuns' /\ MainJoinsAll'
<1>1. UNCHANGED <<valid, atFuture, isOkay, exit>>
  BY DEF mainVars
<1>2. MainRuns /\ MainJoinsAll
  BY DEF ProcInv
<1>3. MainRuns'
  BY <1>1, <1>2, Monotone DEF MainRuns
<1>4. MainJoinsAll'
  BY <1>1, <1>2, Monotone DEF MainJoinsAll
<1>5. QED
  BY <1>3, <1>4

LEMMA MainRunsNext ==
  ASSUME ProcInv, MainNext, [ProcNext]_processVars
  PROVE  MainRuns'
<1>0. /\ MainRuns
      /\ valid \in [Entries -> BOOLEAN] /\ isOkay \in BOOLEAN
      /\ atFuture \in 1..(Len(mFutures) + 1)
  BY DEF ProcInv, ProcTypeOK
<1> USE DEF MainStep
<1>1. interrupted => interrupted'
  BY Monotone
<1>2. AnyThreadThrew => AnyThreadThrew'
  BY Monotone
<1>3. CASE MainLoop
  <2>1. CASE interrupted
    BY <1>1, <1>3, <2>1 DEF MainLoop, MainRuns
  <2>2. CASE ~interrupted
    <3>1. UNCHANGED <<keepRunning, clientRunning, valid>>
          /\ mainPc = "loop" /\ mainPc' = "check" /\ isOkay'
      BY <1>3, <2>2 DEF MainLoop, flagVars
    <3>2. QED
      BY <1>0, <3>1 DEF MainRuns
  <2>3. QED
    BY <2>1, <2>2
<1>4. CASE MainChecksFuture
  <2>1. /\ mainPc = "check" /\ mainPc' = "check" /\ atFuture \in Entries
        /\ atFuture' = atFuture + 1
        /\ UNCHANGED <<keepRunning, clientRunning>>
        /\ valid' = [valid EXCEPT ![atFuture] =
                       valid[atFuture] /\ ~Ready(mFutures[atFuture])]
        /\ isOkay' = (isOkay /\ StaysOkay(atFuture))
    BY <1>4 DEF MainChecksFuture, pipelineVars, publisherVars, flagVars
  <2>2. /\ keepRunning /\ clientRunning
        /\ \A i \in Entries : i >= atFuture \/ isOkay => valid[i]
        /\ ~isOkay => AnyThreadThrew
    BY <1>0, <2>1 DEF MainRuns
  <2>3. atFuture \in Nat /\ Entries \subseteq Nat
    BY <2>1, Futures
  <2>4. valid[atFuture]
    BY <2>1, <2>2, <2>3
  <2>5. CASE Ready(mFutures[atFuture])
    <3>1. Threw(mFutures[atFuture])
      BY <2>1, <2>2, <2>5, ReadyMeansThrew
    <3>2. ~isOkay' /\ AnyThreadThrew'
      BY <2>1, <2>5, <3>1, <1>2 DEF StaysOkay, AnyThreadThrew
    <3>3. \A i \in Entries : i >= atFuture + 1 => valid'[i]
      BY <1>0, <2>1, <2>2, <2>3
    <3>4. QED
      BY <2>1, <2>2, <3>2, <3>3 DEF MainRuns
  <2>6. CASE ~Ready(mFutures[atFuture])
    <3>1. valid' = valid
      <4>1. (valid[atFuture] /\ ~Ready(mFutures[atFuture])) = valid[atFuture]
        BY <1>0, <2>1, <2>4, <2>6
      <4>2. QED
        BY <4>1, <1>0, <2>1
    <3>2. isOkay' = isOkay
      <4>1. StaysOkay(atFuture)
        BY <2>4, <2>6 DEF StaysOkay
      <4>2. QED
        BY <4>1, <1>0, <2>1
    <3>3. \A i \in Entries : i >= atFuture + 1 => i >= atFuture
      BY <2>3
    <3>4. \A i \in Entries : i >= atFuture + 1 \/ isOkay => valid'[i]
      BY <2>2, <3>1, <3>3
    <3>5. QED
      BY <2>1, <2>2, <3>2, <3>4, <1>2 DEF MainRuns
  <2>7. QED
    BY <2>5, <2>6
<1>5. CASE MainDecides
  <2>1. mainPc = "check" /\ UNCHANGED <<valid, isOkay, keepRunning, clientRunning>>
    BY <1>5 DEF MainDecides, mainVars, flagVars, RequestShutdown
  <2>2. CASE isOkay
    BY <1>0, <1>5, <2>1, <2>2 DEF MainDecides, MainRuns
  <2>3. CASE ~isOkay
    BY <1>0, <1>2, <1>5, <2>1, <2>3 DEF MainDecides, MainRuns
  <2>4. QED
    BY <2>2, <2>3
<1>6. CASE MainPauseTimesOut
  BY <1>0, <1>6 DEF MainPauseTimesOut, MainRuns, mainVars, flagVars
<1>7. CASE MainNotifies \/ MainStopsRunning \/ MainStopsClient \/ MainJoins
           \/ MainJoinThrows \/ MainJoined \/ MainEnds
  <2>1. mainPc \notin {"loop", "check", "pause"}
        /\ mainPc' \notin {"loop", "check", "pause"}
    BY <1>7 DEF MainNotifies, MainStopsRunning, MainStopsClient, MainJoins,
                MainJoinThrows, MainJoined, MainEnds
  <2>2. interrupted \/ AnyThreadThrew
    BY <1>0, <2>1 DEF MainRuns
  <2>3. QED
    BY <1>1, <1>2, <2>1, <2>2 DEF MainRuns
<1>8. QED
  BY <1>3, <1>4, <1>5, <1>6, <1>7 DEF MainNext

LEMMA MainJoinsAllNext ==
  ASSUME ProcInv, MainNext, exit = "none", [ProcNext]_processVars
  PROVE  MainJoinsAll'
<1>0. /\ MainJoinsAll
      /\ valid \in [Entries -> BOOLEAN]
      /\ atFuture \in 1..(Len(mFutures) + 1)
  BY DEF ProcInv, ProcTypeOK
<1> USE DEF MainStep
<1>1. \A i \in Entries : Ready(mFutures[i]) => Ready(mFutures[i])'
  BY Monotone
<1>2. \A i \in Entries : ~valid[i] => Ready(mFutures[i])'
  BY <1>0, <1>1 DEF MainJoinsAll
<1>3. CASE MainLoop \/ MainDecides \/ MainPauseTimesOut \/ MainNotifies
           \/ MainStopsRunning
  <2>1. UNCHANGED <<valid, exit>>
    BY <1>3 DEF MainLoop, MainDecides, MainPauseTimesOut, MainNotifies,
                MainStopsRunning, mainVars
  <2>2. mainPc' \in {"check", "notify", "pause", "loop", "clearRunning", "stopClient"}
        /\ (mainPc' = "stopClient" => atFuture' = 1)
    BY <1>3 DEF MainLoop, MainDecides, MainPauseTimesOut, MainNotifies,
                MainStopsRunning
  <2>3. QED
    BY <1>2, <2>1, <2>2 DEF MainJoinsAll
<1>4. CASE MainChecksFuture
  <2>1. /\ mainPc' = "check" /\ UNCHANGED exit
        /\ \A i \in Entries : ~valid'[i] => ~valid[i] \/ Ready(mFutures[i])
    BY <1>0, <1>4 DEF MainChecksFuture, pipelineVars
  <2>2. QED
    BY <1>1, <1>2, <2>1 DEF MainJoinsAll
<1>5. CASE MainStopsClient
  <2>1. UNCHANGED <<valid, exit, atFuture>> /\ atFuture = 1 /\ mainPc' = "join"
    BY <1>0, <1>5 DEF MainStopsClient, mainVars, MainJoinsAll
  <2>2. \A i \in Entries : ~(i < atFuture')
    BY <2>1, Futures DEF Entries
  <2>3. QED
    BY <1>2, <2>1, <2>2 DEF MainJoinsAll
<1>6. CASE MainJoins
  <2>1. /\ mainPc = "join" /\ mainPc' = "join" /\ UNCHANGED exit
        /\ atFuture \in Entries /\ atFuture' = atFuture + 1
        /\ valid[atFuture] => Ready(mFutures[atFuture])
        /\ valid' = [valid EXCEPT ![atFuture] = FALSE]
    BY <1>6 DEF MainJoins
  <2>2. Ready(mFutures[atFuture])
    BY <1>0, <2>1 DEF MainJoinsAll
  <2>3. \A i \in Entries : ~valid'[i] => Ready(mFutures[i])
    BY <1>0, <2>1, <2>2 DEF MainJoinsAll
  <2>4. \A i \in Entries : i < atFuture' => Ready(mFutures[i])
    <3>1. \A i \in Entries : i < atFuture + 1 => i < atFuture \/ i = atFuture
      BY <2>1, Futures
    <3>2. QED
      BY <1>0, <2>1, <2>2, <3>1 DEF MainJoinsAll
  <2>5. QED
    BY <1>1, <2>1, <2>3, <2>4 DEF MainJoinsAll
<1>7. CASE MainJoinThrows
  <2>1. /\ mainPc' \in {"over", "clearRunning"}
        /\ exit' \in {"none", "terminate"}
        /\ atFuture \in Entries /\ Ready(mFutures[atFuture])
        /\ valid' = [valid EXCEPT ![atFuture] = FALSE]
    BY <1>7 DEF MainJoinThrows
  <2>2. \A i \in Entries : ~valid'[i] => Ready(mFutures[i])
    BY <1>0, <2>1 DEF MainJoinsAll
  <2>3. QED
    BY <1>1, <2>1, <2>2 DEF MainJoinsAll
<1>8. CASE MainJoined
  <2>1. /\ mainPc = "join" /\ mainPc' = "cleanup" /\ UNCHANGED <<valid, exit>>
        /\ atFuture \notin Entries
    BY <1>8 DEF MainJoined, mainVars
  <2>2. \A i \in Entries : i < atFuture
    BY <1>0, <2>1, Futures DEF Entries
  <2>3. \A i \in Entries : Ready(mFutures[i])
    BY <1>0, <2>1, <2>2 DEF MainJoinsAll
  <2>4. QED
    BY <1>1, <1>2, <2>1, <2>3 DEF MainJoinsAll
<1>9. CASE MainEnds
  <2>1. mainPc = "cleanup" /\ mainPc' = "over" /\ UNCHANGED valid
    BY <1>9 DEF MainEnds
  <2>2. \A i \in Entries : Ready(mFutures[i])
    BY <1>0, <2>1 DEF MainJoinsAll
  <2>3. QED
    BY <1>1, <1>2, <2>1, <2>2 DEF MainJoinsAll
<1>10. QED
  BY <1>3, <1>4, <1>5, <1>6, <1>7, <1>8, <1>9 DEF MainNext

LEMMA ProcInvNext == ProcInv /\ [ProcNext]_processVars => ProcInv'
<1> SUFFICES ASSUME ProcInv, [ProcNext]_processVars PROVE ProcInv'
  OBVIOUS
<1>1. TypeInv' /\ PubInv'
  BY PipelineKeeps DEF ProcInv
<1>2. ProcTypeOK' /\ ReturnsOnlyWhenTold'
  BY ProcTypeNext, Monotone
<1>3. MainRuns' /\ MainJoinsAll'
  <2>1. CASE MainNext /\ exit = "none"
    BY <2>1, MainRunsNext, MainJoinsAllNext
  <2>2. CASE Signal \/ WinNext
    BY <2>2, WinMonotone, OthersKeepMain
  <2>3. CASE ThreadsNext /\ ProcessUnchanged
    BY <2>3, ThreadsMonotone, OthersKeepMain DEF ProcessUnchanged
  <2>4. CASE UNCHANGED processVars
    BY <2>4, OthersKeepMain DEF processVars, pipelineVars, publisherVars, flagVars
  <2>5. QED
    BY <2>1, <2>2, <2>3, <2>4 DEF ProcNext
<1>4. QED
  BY <1>1, <1>2, <1>3 DEF ProcInv

LEMMA ProcInvAlways == ProcSpec => []ProcInv
  BY ProcInvInit, ProcInvNext, PTL DEF ProcSpec

-----------------------------------------------------------------------------
\* Types of the whole process.
THEOREM ProcTypesCorrect == ProcSpec => []ProcTypeOK
<1>1. ProcInv => ProcTypeOK
  BY DEF ProcInv
<1>2. QED
  BY <1>1, ProcInvAlways, PTL

\* wait_for of checkFuturesOkay never sees a future that was fetched before.
THEOREM NeverWaitsOnFetched == ProcSpec => []NoWaitOnFetchedFuture
<1>1. ProcInv => NoWaitOnFetchedFuture
  <2> SUFFICES ASSUME ProcInv, mainPc = "check", atFuture \in Entries
               PROVE  valid[atFuture]
    BY DEF NoWaitOnFetchedFuture
  <2>1. atFuture >= atFuture
    BY Futures
  <2>2. QED
    BY <2>1 DEF ProcInv, MainRuns
<1>2. QED
  BY <1>1, ProcInvAlways, PTL

\* mKeepRunning goes down only behind a signal or an exception of a thread.
THEOREM OnlyStopsForAReason == ProcSpec => []StopsForAReason
<1>1. ProcInv => StopsForAReason
  BY DEF ProcInv, MainRuns, StopsForAReason
<1>2. QED
  BY <1>1, ProcInvAlways, PTL

\* A main that returns leaves no thread behind, whatever was thrown on the way.
THEOREM AlwaysReturnsLast == ProcSpec => []ReturnsAfterAllThreads
<1>1. ProcInv => ReturnsAfterAllThreads
  BY DEF ProcInv, MainJoinsAll, ReturnsAfterAllThreads
<1>2. QED
  BY <1>1, ProcInvAlways, PTL

-----------------------------------------------------------------------------
(* The process lets the threads do what they do in PacketPipeline. *)

LEMMA ShutdownInOrderNext ==
  ASSUME ProcInv, ShutdownInOrder, [ProcNext]_processVars
  PROVE  ShutdownInOrder'
<1> USE DEF ShutdownInOrder
<1>1. (keepRunning' => keepRunning) /\ (clientRunning' => clientRunning)
  BY Monotone
<1>2. keepRunning' \in BOOLEAN /\ clientRunning' \in BOOLEAN /\ unwinding \in BOOLEAN
  BY ProcInvNext DEF ProcInv, ProcTypeOK, TypeOK, PubTypeOK, SrcTypeOK
<1>3. CASE UNCHANGED <<mainPc, unwinding>>
  BY <1>1, <1>3
<1>4. CASE MainLoop \/ MainDecides \/ MainPauseTimesOut \/ MainNotifies
  BY <1>4 DEF MainLoop, MainDecides, MainPauseTimesOut, MainNotifies, MainStep, mainVars
<1>5. CASE MainStopsRunning
  BY <1>1, <1>5 DEF MainStopsRunning, MainStep, StopRunning
<1>6. CASE MainStopsClient
  BY <1>1, <1>6 DEF MainStopsClient, MainStep, StopClient, mainVars
<1>7. CASE MainJoinThrows
  BY <1>1, <1>7 DEF MainJoinThrows
<1>8. CASE MainJoined \/ MainEnds
  BY <1>1, <1>8 DEF MainJoined, MainEnds, MainStep, mainVars
<1>9. CASE MainJoins \/ MainChecksFuture
  BY <1>3, <1>9 DEF MainJoins, MainChecksFuture, pipelineVars
<1>10. CASE Signal \/ WinNext \/ (ThreadsNext /\ ProcessUnchanged) \/ UNCHANGED processVars
  BY <1>3, <1>10, ThreadsMonotone, WinMonotone
     DEF ProcessUnchanged, processVars, pipelineVars, mainVars
<1>11. QED
  BY <1>4, <1>5, <1>6, <1>7, <1>8, <1>9, <1>10 DEF ProcNext, MainNext

LEMMA ShutdownInOrderAlways == ProcSpec => []ShutdownInOrder
<1>1. ProcInit => ShutdownInOrder
  BY DEF ProcInit, ShutdownInOrder
<1>2. ProcInv /\ ShutdownInOrder /\ [ProcNext]_processVars => ShutdownInOrder'
  BY ShutdownInOrderNext
<1>3. QED
  BY <1>1, <1>2, ProcInvAlways, PTL DEF ProcSpec

\* A step of a thread within the process is that of the pipeline.
LEMMA ThreadsRun ==
  ASSUME ThreadsNext, ShutdownStage' = ShutdownStage
  PROVE  Pipeline!ThreadsNext
<1> USE DEF NoPacket, Pipeline!NoPacket, Elements, Pipeline!Elements, HasRoom,
            Pipeline!HasRoom, MustEvict, Pipeline!MustEvict, srcVars, Pipeline!srcVars,
            tabVars, Pipeline!tabVars, pubVars, Pipeline!pubVars, streamVars,
            Pipeline!streamVars, flagVars, Pipeline!flagVars, publisherVars,
            Pipeline!publisherVars
<1>1. ASSUME NEW from, NEW to, SrcStep(from, to) PROVE Pipeline!SrcStep(from, to)
  BY <1>1 DEF SrcStep, Pipeline!SrcStep
<1>2. ASSUME NEW from, NEW to, TabStep(from, to) PROVE Pipeline!TabStep(from, to)
  BY <1>2 DEF TabStep, Pipeline!TabStep
<1>3. PipelineUnchanged => Pipeline!PipelineUnchanged
  BY DEF PipelineUnchanged, Pipeline!PipelineUnchanged
<1>4. SrcNext => Pipeline!SrcNext
  <2>1. SrcRecover => Pipeline!SrcRecover
    BY <1>1 DEF SrcRecover, Pipeline!SrcRecover
  <2>2. SrcPoll => Pipeline!SrcPoll
    BY <1>1 DEF SrcPoll, Pipeline!SrcPoll
  <2>3. SrcGetsNothing => Pipeline!SrcGetsNothing
    BY <1>1 DEF SrcGetsNothing, Pipeline!SrcGetsNothing
  <2>4. SrcHandOver => Pipeline!SrcHandOver
    BY <1>1 DEF SrcHandOver, Pipeline!SrcHandOver
  <2>5. SrcBatchDone => Pipeline!SrcBatchDone
    BY <1>1 DEF SrcBatchDone, Pipeline!SrcBatchDone
  <2>6. SrcSize => Pipeline!SrcSize
    BY <1>1 DEF SrcSize, Pipeline!SrcSize
  <2>7. SrcEvict => Pipeline!SrcEvict
    BY <1>1 DEF SrcEvict, Pipeline!SrcEvict
  <2>8. SrcPush => Pipeline!SrcPush
    BY <1>1 DEF SrcPush, Pipeline!SrcPush
  <2>9. SrcLeave => Pipeline!SrcLeave
    BY <1>1 DEF SrcLeave, Pipeline!SrcLeave
  <2>10. QED
    BY <2>1, <2>2, <2>3, <2>4, <2>5, <2>6, <2>7, <2>8, <2>9
       DEF SrcNext, Pipeline!SrcNext
<1>5. /\ SrcCollect => Pipeline!SrcCollect
      /\ SrcIsTerminated => Pipeline!SrcIsTerminated
  BY <1>1 DEF SrcCollect, Pipeline!SrcCollect, SrcIsTerminated, Pipeline!SrcIsTerminated
<1>6. TabNext => Pipeline!TabNext
  <2>1. TabLoop => Pipeline!TabLoop
    BY <1>2 DEF TabLoop, Pipeline!TabLoop
  <2>2. TabPop => Pipeline!TabPop
    BY <1>2 DEF TabPop, Pipeline!TabPop
  <2>3. TabSize => Pipeline!TabSize
    BY <1>2 DEF TabSize, Pipeline!TabSize
  <2>4. TabEvict => Pipeline!TabEvict
    BY <1>2 DEF TabEvict, Pipeline!TabEvict
  <2>5. TabPush => Pipeline!TabPush
    BY <1>2 DEF TabPush, Pipeline!TabPush
  <2>6. QED
    BY <2>1, <2>2, <2>3, <2>4, <2>5 DEF TabNext, Pipeline!TabNext
<1>7. PubNext => Pipeline!PubNext
  <2>1. PubTop => Pipeline!PubTop
    BY DEF PubTop, Pipeline!PubTop, Goto, Pipeline!Goto
  <2>2. PubWaitPredicate => Pipeline!PubWaitPredicate
    BY DEF PubWaitPredicate, Pipeline!PubWaitPredicate, Goto, Pipeline!Goto
  <2>3. PubBlocks => Pipeline!PubBlocks
    BY DEF PubBlocks, Pipeline!PubBlocks, Goto, Pipeline!Goto
  <2>4. PubWaitTimesOut => Pipeline!PubWaitTimesOut
    BY DEF PubWaitTimesOut, Pipeline!PubWaitTimesOut, Goto, Pipeline!Goto
  <2>5. PubRecheck => Pipeline!PubRecheck
    BY DEF PubRecheck, Pipeline!PubRecheck, Goto, Pipeline!Goto
  <2>6. PubConnect => Pipeline!PubConnect
    BY DEF PubConnect, Pipeline!PubConnect, Goto, Pipeline!Goto
  <2>7. PubPoll => Pipeline!PubPoll
    BY DEF PubPoll, Pipeline!PubPoll, Goto, Pipeline!Goto
  <2>8. PubPop => Pipeline!PubPop
    BY DEF PubPop, Pipeline!PubPop, Goto, Pipeline!Goto
  <2>9. PubWriteSucceeds => Pipeline!PubWriteSucceeds
    BY DEF PubWriteSucceeds, Pipeline!PubWriteSucceeds, Goto, Pipeline!Goto
  <2>10. PubWriteFails => Pipeline!PubWriteFails
    BY DEF PubWriteFails, Pipeline!PubWriteFails, Goto, Pipeline!Goto
  <2>11. PubClosing => Pipeline!PubClosing
    BY DEF PubClosing, Pipeline!PubClosing, Goto, Pipeline!Goto
  <2>12. PubFinish => Pipeline!PubFinish
    BY DEF PubFinish, Pipeline!PubFinish, Goto, Pipeline!Goto, Statuses, Pipeline!Statuses,
           FinishReturns, Pipeline!FinishReturns, LeavesLoop, Pipeline!LeavesLoop,
           NextRetry, Pipeline!NextRetry
  <2>13. PubAfter => Pipeline!PubAfter
    BY DEF PubAfter, Pipeline!PubAfter, Goto, Pipeline!Goto
  <2>14. QED
    BY <2>1, <2>2, <2>3, <2>4, <2>5, <2>6, <2>7, <2>8, <2>9, <2>10, <2>11, <2>12,
       <2>13
       DEF PubNext, Pipeline!PubNext
<1>8. StreamNext => Pipeline!StreamNext
  BY DEF StreamNext, Pipeline!StreamNext, ProxyReceives, Pipeline!ProxyReceives,
         StreamBreaks, Pipeline!StreamBreaks
<1>9. QED
  BY <1>3, <1>4, <1>5, <1>6, <1>7, <1>8 DEF ThreadsNext, Pipeline!ThreadsNext

LEMMA Stutters ==
  ASSUME UNCHANGED <<clientRunning, srcVars, importQueue, tabVars, refused,
                     publisherVars>>,
         ShutdownStage' = ShutdownStage
  PROVE  UNCHANGED Pipeline!pipelineVars
  BY DEF srcVars, tabVars, publisherVars, pubVars, streamVars, flagVars,
         Pipeline!pipelineVars, Pipeline!srcVars, Pipeline!tabVars,
         Pipeline!publisherVars, Pipeline!pubVars, Pipeline!streamVars,
         Pipeline!flagVars

LEMMA ThreadsStill ==
  ASSUME ThreadsUnchanged
  PROVE  Pipeline!ThreadsUnchanged
  BY DEF ThreadsUnchanged, srcVars, tabVars, streamVars, Pipeline!ThreadsUnchanged,
         Pipeline!srcVars, Pipeline!tabVars, Pipeline!streamVars

\* The main thread's steps are those of the pipeline's shutdown the first time
\* it stops, and nothing the threads could notice otherwise.
LEMMA MainRunsPipeline ==
  ASSUME ProcInv, ShutdownInOrder, MainNext
  PROVE  [Pipeline!Next]_(Pipeline!pipelineVars)
<1>0. keepRunning \in BOOLEAN /\ clientRunning \in BOOLEAN
  BY DEF ProcInv, ProcTypeOK, TypeOK, PubTypeOK, SrcTypeOK
<1> USE ThreadsStill
    DEF ShutdownInOrder, ShutdownStage, Pipeline!MainStep, pubVars, flagVars,
        Pipeline!pubVars, Pipeline!flagVars
<1>1. ASSUME RequestShutdown, mainPc \in {"loop", "check"}, mainPc' = "notify",
             UNCHANGED unwinding
      PROVE  Pipeline!ShutdownNext
  <2>1. Pipeline!RequestShutdown
    BY <1>1 DEF RequestShutdown, Pipeline!RequestShutdown
  <2>2. ShutdownStage = "loop" /\ ShutdownStage' = "notify"
    BY <1>1
  <2>3. QED
    BY <2>1, <2>2 DEF Pipeline!ShutdownNext
<1>2. ASSUME UNCHANGED <<clientRunning, flagVars, pubVars>>, ThreadsUnchanged,
             ShutdownStage' = ShutdownStage
      PROVE  UNCHANGED Pipeline!pipelineVars
  BY <1>2, Stutters DEF ThreadsUnchanged, publisherVars
<1>3. CASE MainLoop
  <2>1. CASE interrupted
    BY <1>1, <1>3, <2>1 DEF MainLoop, MainStep, Pipeline!Next
  <2>2. CASE ~interrupted
    BY <1>2, <1>3, <2>2 DEF MainLoop, MainStep
  <2>3. QED
    BY <2>1, <2>2
<1>4. CASE MainDecides
  <2>1. CASE isOkay
    BY <1>2, <1>4, <2>1 DEF MainDecides, MainStep, mainVars
  <2>2. CASE ~isOkay
    BY <1>1, <1>4, <2>2 DEF MainDecides, MainStep, mainVars, Pipeline!Next
  <2>3. QED
    BY <2>1, <2>2
<1>5. CASE MainPauseTimesOut
  BY <1>2, <1>5 DEF MainPauseTimesOut, MainStep, mainVars
<1>6. CASE MainNotifies
  <2>1. NotifyShutdown /\ mainPc = "notify" /\ mainPc' = "clearRunning"
        /\ UNCHANGED unwinding
    BY <1>6 DEF MainNotifies, MainStep, mainVars
  <2>2. Pipeline!NotifyShutdown
    BY <2>1 DEF NotifyShutdown, Pipeline!NotifyShutdown, Notified, Pipeline!Notified
  <2>3. ShutdownStage = "notify" /\ ShutdownStage' = "clearRunning"
    BY <2>1
  <2>4. QED
    BY <2>2, <2>3 DEF Pipeline!ShutdownNext, Pipeline!Next
<1>7. CASE MainStopsRunning
  <2>1. StopRunning /\ mainPc = "clearRunning" /\ mainPc' = "stopClient"
        /\ UNCHANGED unwinding
    BY <1>7 DEF MainStopsRunning, MainStep
  <2>2. CASE unwinding
    BY <1>0, <1>2, <2>1, <2>2 DEF StopRunning
  <2>3. CASE ~unwinding
    <3>1. Pipeline!StopRunning
      BY <2>1 DEF StopRunning, Pipeline!StopRunning
    <3>2. ShutdownStage = "clearRunning" /\ ShutdownStage' = "stopClient"
      BY <2>1, <2>3
    <3>3. QED
      BY <3>1, <3>2 DEF Pipeline!ShutdownNext, Pipeline!Next
  <2>4. QED
    BY <2>2, <2>3
<1>8. CASE MainStopsClient
  <2>1. StopClient /\ mainPc = "stopClient" /\ mainPc' = "join" /\ UNCHANGED unwinding
    BY <1>8 DEF MainStopsClient, MainStep, mainVars
  <2>2. CASE unwinding
    BY <1>0, <1>2, <2>1, <2>2 DEF StopClient
  <2>3. CASE ~unwinding
    <3>1. Pipeline!StopClient
      BY <2>1 DEF StopClient, Pipeline!StopClient
    <3>2. ShutdownStage = "stopClient" /\ ShutdownStage' = "join"
      BY <2>1, <2>3
    <3>3. QED
      BY <3>1, <3>2 DEF Pipeline!ShutdownNext, Pipeline!Next
  <2>4. QED
    BY <2>2, <2>3
<1>9. CASE MainJoins \/ MainJoinThrows \/ MainJoined \/ MainEnds
  <2>1. ShutdownStage' = ShutdownStage
    BY <1>9 DEF MainJoins, MainJoinThrows, MainJoined, MainEnds, MainStep, mainVars
  <2>2. QED
    BY <1>9, <2>1, Stutters DEF MainJoins, MainJoinThrows, MainJoined, MainEnds,
                                JoinUnchanged
<1>10. CASE MainChecksFuture
  BY <1>10, Stutters DEF MainChecksFuture, pipelineVars
<1>11. QED
  BY <1>3, <1>4, <1>5, <1>6, <1>7, <1>8, <1>9, <1>10 DEF MainNext

LEMMA StepRunsPipeline ==
  ASSUME ProcInv, ShutdownInOrder, [ProcNext]_processVars
  PROVE  [Pipeline!Next]_(Pipeline!pipelineVars)
<1>1. CASE MainNext
  BY <1>1, MainRunsPipeline
<1>2. CASE ThreadsNext /\ ProcessUnchanged
  <2>1. ShutdownStage' = ShutdownStage
    BY <1>2, ThreadsMonotone DEF ProcessUnchanged, mainVars, ShutdownStage
  <2>2. QED
    BY <1>2, <2>1, ThreadsRun DEF Pipeline!Next
<1>3. CASE Signal \/ WinNext \/ UNCHANGED processVars
  <2>1. UNCHANGED <<pipelineVars, mainVars>>
    BY <1>3 DEF Signal, WinNext, WinLoop, WinWaitPredicate, WinBlocks,
                WinWaitTimesOut, WinStep, processVars
  <2>2. QED
    BY <2>1, Stutters DEF pipelineVars, mainVars, ShutdownStage
<1>4. QED
  BY <1>1, <1>2, <1>3 DEF ProcNext

\* The whole process implements the packet path: what PacketPipeline promises
\* under any shutdown, the threads keep under the one this main thread performs,
\* interrupted by a signal, begun by a failed future, or run twice because stop
\* threw and the destructor stopped once more.
THEOREM ProcessRunsPipeline == ProcSpec => RunsPipeline
<1>1. ProcInit => Pipeline!Init
  BY DEF ProcInit, ThreadsInit, PubInit, NoPacket, ShutdownStage, Pipeline!Init,
         Pipeline!ThreadsInit, Pipeline!PubInit, Pipeline!NoPacket
<1>2. ProcInv /\ ShutdownInOrder /\ [ProcNext]_processVars
        => [Pipeline!Next]_(Pipeline!pipelineVars)
  BY StepRunsPipeline
<1>3. QED
  BY <1>1, <1>2, ProcInvAlways, ShutdownInOrderAlways, PTL
     DEF ProcSpec, RunsPipeline, Pipeline!Spec

-----------------------------------------------------------------------------
(* What the packets are promised, in the whole process. *)

PacketInv == Ordered /\ Conserved /\ Pressed /\ NewestIsAdmitted

LEMMA PacketInvNext ==
  ASSUME ProcInv, PacketInv, [ProcNext]_processVars
  PROVE  PacketInv' /\ (Takes \/ Delivers \/ Thins)
<1> USE DEF PacketInv
<1>1. TypeInv
  BY DEF ProcInv
<1>2. CASE Next
  BY <1>1, <1>2, OrderedNext, ConservedNext, PressedNext, AdmissionNext
<1>3. CASE Quiet
  <2>1. UNCHANGED stageVars /\ UNCHANGED placeVars
    BY <1>3 DEF Quiet, ThreadsUnchanged, srcVars, tabVars, pubVars, streamVars,
                stageVars, placeVars
  <2>2. Pressed' /\ NewestIsAdmitted'
    BY <1>3 DEF Quiet, ThreadsUnchanged, srcVars, tabVars, Pressed,
                EvictsOnlyUnderPressure, FoundFull, NewestIsAdmitted, HasRoom
  <2>3. QED
    BY <2>1, <2>2, QuietStep, QuietPlaces
<1>4. QED
  BY <1>2, <1>3, StepKinds

LEMMA PacketInvAlways == ProcSpec => []PacketInv
<1>1. ProcInit => PacketInv
  <2>1. SUFFICES ASSUME ProcInit PROVE PacketInv
    OBVIOUS
  <2>2. Init
    BY <2>1 DEF ProcInit, Init
  <2>3. Pressed /\ NewestIsAdmitted
    BY <2>2 DEF Init, ThreadsInit, Pressed, EvictsOnlyUnderPressure, FoundFull,
                NewestIsAdmitted
  <2>4. QED
    BY <2>2, <2>3, OrderedInit, ConservedInit DEF PacketInv
<1>2. ProcInv /\ PacketInv /\ [ProcNext]_processVars => PacketInv'
  BY PacketInvNext
<1>3. QED
  BY <1>1, <1>2, ProcInvAlways, PTL DEF ProcSpec

\* Through a signal, a failing thread and a shutdown run twice, each packet that
\* was handed over is in one place, or gone for one reason.
THEOREM NothingVanishesInProcess == ProcSpec => []Conserved
<1>1. PacketInv => Conserved
  BY DEF PacketInv
<1>2. QED
  BY <1>1, PacketInvAlways, PTL

\* No full queue refuses the newest packet, whenever the main thread stops the
\* threads on either side of it.
THEOREM NewestAdmittedInProcess == ProcSpec => []NewestIsAdmitted
<1>1. PacketInv => NewestIsAdmitted
  BY DEF PacketInv
<1>2. QED
  BY <1>1, PacketInvAlways, PTL

\* Nor is a packet evicted but from under a full queue.
THEOREM UnderPressureInProcess == ProcSpec => []EvictsOnlyUnderPressure
<1>1. PacketInv => EvictsOnlyUnderPressure
  BY DEF PacketInv, Pressed
<1>2. QED
  BY <1>1, PacketInvAlways, PTL

\* The program as a whole is a lossy channel.
THEOREM ProcessIsLossyFifo == ProcSpec => IsLossyFifo
<1>1. ProcInit => Channel!Init
  BY ChannelInit DEF ProcInit, Init
<1>2. ProcInv /\ PacketInv /\ [ProcNext]_processVars
        => [Channel!Next]_(Channel!channelVars)
  BY PacketInvNext, ChannelStep
<1>3. QED
  BY <1>1, <1>2, ProcInvAlways, PacketInvAlways, PTL
     DEF ProcSpec, IsLossyFifo, Channel!Spec

\* In the whole process too, Finish is called only where it returns, and the
\* publisher gives up only with its schedule spent.
THEOREM FinishReturnsInProcess ==
  ProcSpec => [](FinishNeverHangs /\ GivesUpOnlyWhenSpent)
<1>1. ProcInv => FinishNeverHangs /\ GivesUpOnlyWhenSpent
  BY DEF ProcInv, PubInv
<1>2. QED
  BY <1>1, ProcInvAlways, PTL

-----------------------------------------------------------------------------
(* The process at its joins. *)

LEMMA StepsLeftNatural == TypeInv => StepsLeft \in Nat
<1> SUFFICES ASSUME TypeInv PROVE StepsLeft \in Nat
  OBVIOUS
<1>1. Len(importQueue) + Len(exportQueue) \in Nat /\ batch \in Nat
  BY QueueLengths
<1>2. SrcLevel \in Nat /\ TabStepsLeft \in Nat /\ PubStepsLeft \in Nat
  BY PipelineAssumption DEF SrcLevel, TabStepsLeft, PubStepsLeft
<1>3. SrcStepsLeft \in Nat
  <2>1. \A b, l \in Nat : 6 * b + l \in Nat
    OBVIOUS
  <2>2. QED
    BY <1>1, <1>2, <2>1 DEF SrcStepsLeft
<1>4. \A a, b, c, d \in Nat : a + b + c + 2 * d \in Nat
  OBVIOUS
<1>5. QED
  BY <1>1, <1>2, <1>3, <1>4 DEF StepsLeft

LEMMA StepsLeftStays ==
  ASSUME UNCHANGED threadVars
  PROVE  StepsLeft' = StepsLeft
<1>1. UNCHANGED <<srcPc, batch, tabPc, pubPc, importQueue, exportQueue>>
  BY DEF threadVars, srcVars, tabVars, pubVars
<1>2. /\ SrcStepsLeft' = SrcStepsLeft /\ TabStepsLeft' = TabStepsLeft
      /\ PubStepsLeft' = PubStepsLeft
  BY <1>1 DEF SrcStepsLeft, SrcLevel, TabStepsLeft, PubStepsLeft
<1>3. QED
  BY <1>1, <1>2 DEF StepsLeft

LEMMA MainStepsNatural == atFuture \in 1..(Len(mFutures) + 1) => MainStepsLeft \in Nat
<1> SUFFICES ASSUME atFuture \in 1..(Len(mFutures) + 1) PROVE MainStepsLeft \in Nat
  OBVIOUS
<1>1. Len(mFutures) \in Nat /\ SecondStop \in Nat
  BY Futures DEF SecondStop
<1>2. CASE mainPc = "join"
  <2>1. Len(mFutures) + 3 - atFuture \in Nat
    BY <1>1
  <2>2. QED
    BY <1>1, <1>2, <2>1 DEF MainStepsLeft
<1>3. CASE mainPc # "join"
  BY <1>1, <1>3 DEF MainStepsLeft
<1>4. QED
  BY <1>2, <1>3

\* The main thread's steps behind its first stop, the second one of the
\* destructor among them, leave the threads alone and bring it nearer its end.
LEMMA MainAdvances ==
  ASSUME ProcInv, MainNext, ShutdownInOrder, ShutdownStage = "join"
  PROVE  UNCHANGED <<threadVars, winPc>> /\ MainStepsLeft' < MainStepsLeft
<1> DEFINE n == Len(mFutures)
<1>1. /\ n \in Nat /\ Entries = 1..n /\ atFuture \in 1..(n + 1)
      /\ unwinding \in BOOLEAN
      /\ n + 3 - atFuture \in Nat /\ n + 3 - atFuture >= 2
  <2>1. n \in Nat /\ Entries = 1..n /\ atFuture \in 1..(n + 1) /\ unwinding \in BOOLEAN
    BY Futures DEF Entries, ProcInv, ProcTypeOK
  <2> HIDE DEF n
  <2>2. QED
    BY <2>1
<1>2. ~(MainLoop \/ MainChecksFuture \/ MainDecides \/ MainPauseTimesOut
         \/ MainNotifies)
  BY DEF MainLoop, MainChecksFuture, MainDecides, MainPauseTimesOut, MainNotifies,
         MainStep, ShutdownStage, ShutdownInOrder
<1>3. CASE MainStopsRunning
  <2>1. /\ mainPc = "clearRunning" /\ mainPc' = "stopClient"
        /\ UNCHANGED <<threadVars, winPc>>
    BY <1>3 DEF MainStopsRunning, MainStep, StopRunning, ThreadsUnchanged, threadVars
  <2>2. MainStepsLeft = n + 4 /\ MainStepsLeft' = n + 3
    BY <2>1 DEF MainStepsLeft, mFutures
  <2>3. QED
    BY <1>1, <2>1, <2>2
<1>4. CASE MainStopsClient
  <2>1. /\ mainPc = "stopClient" /\ mainPc' = "join" /\ unwinding /\ unwinding'
        /\ atFuture = 1 /\ atFuture' = 1
        /\ UNCHANGED <<threadVars, winPc>>
    BY <1>4 DEF MainStopsClient, MainStep, StopClient, ThreadsUnchanged, threadVars,
                ShutdownStage, mainVars, ProcInv, MainJoinsAll
  <2>2. MainStepsLeft = n + 3 /\ MainStepsLeft' = n + 2
    <3>1. MainStepsLeft = n + 3 /\ MainStepsLeft' = n + 3 - 1 + 0
      BY <2>1 DEF MainStepsLeft, SecondStop, mFutures
    <3> HIDE DEF n
    <3>2. QED
      BY <1>1, <3>1
  <2>3. QED
    BY <1>1, <2>1, <2>2
<1>5. CASE MainJoins
  <2>1. /\ mainPc = "join" /\ mainPc' = "join" /\ unwinding' = unwinding
        /\ atFuture' = atFuture + 1
        /\ UNCHANGED <<threadVars, winPc>>
    BY <1>5 DEF MainJoins, JoinUnchanged, threadVars, publisherVars
  <2>2. MainStepsLeft = n + 3 - atFuture + SecondStop
    BY <2>1 DEF MainStepsLeft
  <2>3. MainStepsLeft' = n + 3 - (atFuture + 1) + SecondStop
    <3>1. SecondStop' = SecondStop
      BY <2>1 DEF SecondStop, mFutures
    <3>2. QED
      BY <2>1, <3>1 DEF MainStepsLeft, mFutures
  <2>4. SecondStop \in Nat
    BY <1>1 DEF SecondStop
  <2> HIDE DEF n
  <2>5. MainStepsLeft' < MainStepsLeft
    BY <1>1, <2>2, <2>3, <2>4
  <2>6. QED
    BY <2>1, <2>5
<1>6. CASE MainJoinThrows
  <2>1. /\ mainPc = "join" /\ unwinding' = TRUE
        /\ mainPc' = IF unwinding THEN "over" ELSE "clearRunning"
        /\ UNCHANGED <<threadVars, winPc>>
    BY <1>6 DEF MainJoinThrows, JoinUnchanged, threadVars, publisherVars
  <2>2. MainStepsLeft = n + 3 - atFuture + SecondStop
    BY <2>1 DEF MainStepsLeft
  <2>3. MainStepsLeft' = SecondStop
    BY <2>1 DEF MainStepsLeft, SecondStop, mFutures
  <2>4. SecondStop \in Nat
    BY <1>1 DEF SecondStop
  <2> HIDE DEF n
  <2>5. MainStepsLeft' < MainStepsLeft
    BY <1>1, <2>2, <2>3, <2>4
  <2>6. QED
    BY <2>1, <2>5
<1>7. CASE MainJoined
  <2>1. /\ mainPc = "join" /\ mainPc' = "cleanup"
        /\ UNCHANGED <<threadVars, winPc>>
    BY <1>7 DEF MainJoined, MainStep, JoinUnchanged, threadVars, publisherVars
  <2>2. MainStepsLeft = n + 3 - atFuture + SecondStop
    BY <2>1 DEF MainStepsLeft
  <2>3. MainStepsLeft' = 1
    BY <2>1 DEF MainStepsLeft
  <2>4. SecondStop \in Nat
    BY <1>1 DEF SecondStop
  <2> HIDE DEF n
  <2>5. MainStepsLeft' < MainStepsLeft
    BY <1>1, <2>2, <2>3, <2>4
  <2>6. QED
    BY <2>1, <2>5
<1>8. CASE MainEnds
  <2>1. /\ mainPc = "cleanup" /\ mainPc' = "over"
        /\ UNCHANGED <<threadVars, winPc>>
    BY <1>8 DEF MainEnds, MainStep, JoinUnchanged, threadVars, publisherVars
  <2>2. MainStepsLeft = 1 /\ MainStepsLeft' = 0
    BY <2>1 DEF MainStepsLeft
  <2>3. QED
    BY <2>1, <2>2
<1>9. QED
  BY <1>2, <1>3, <1>4, <1>5, <1>6, <1>7, <1>8 DEF MainNext

\* The windows thread, told to stop, ends its wait and its loop.
LEMMA WinAdvances ==
  ASSUME ~keepRunning, WinNext
  PROVE  /\ UNCHANGED <<threadVars, mainPc, mainVars>>
         /\ WinStepsLeft' < WinStepsLeft
<1>1. UNCHANGED <<threadVars, mainPc, mainVars>>
  BY DEF WinNext, WinLoop, WinWaitPredicate, WinBlocks, WinWaitTimesOut, WinStep,
         pipelineVars, publisherVars, threadVars
<1>2. \/ winPc = "loop" /\ winPc' = "returned"
      \/ winPc \in {"waitPred", "woken"} /\ winPc' \in {"loop", "blocking"}
      \/ winPc = "blocking" /\ winPc' = "waiting"
      \/ winPc = "waiting" /\ winPc' = "loop"
  BY DEF WinNext, WinLoop, WinWaitPredicate, WinBlocks, WinWaitTimesOut, WinStep
<1>3. WinStepsLeft' < WinStepsLeft
  BY <1>2 DEF WinStepsLeft
<1>4. QED
  BY <1>1, <1>3

\* A sum falls with one of its terms.
LEMMA SumFalls ==
  ASSUME NEW s \in Nat, NEW w \in Nat, NEW m \in Nat, NEW less \in Nat
  PROVE  /\ less < s => less + w + m < s + w + m
         /\ less < w => s + less + m < s + w + m
         /\ less < m => s + w + less < s + w + m
  OBVIOUS

LEMMA StepRunsDown ==
  ASSUME ProcInv, ProcInv', ShutdownInOrder, ProcNext, ShutdownStage = "join"
  PROVE  \/ ProcStepsLeft' < ProcStepsLeft
         \/ UNCHANGED <<threadVars, winPc, mainPc, mainVars>>
<1>1. StepsLeft \in Nat /\ StepsLeft' \in Nat
  <2>1. TypeInv /\ TypeInv'
    BY DEF ProcInv
  <2>2. TypeInv' => (StepsLeft \in Nat)'
    BY StepsLeftNatural, PTL
  <2>3. QED
    BY <2>1, <2>2, StepsLeftNatural
<1>2. WinStepsLeft \in Nat /\ WinStepsLeft' \in Nat
  BY DEF WinStepsLeft
<1>3. MainStepsLeft \in Nat /\ MainStepsLeft' \in Nat
  <2>1. MainStepsLeft \in Nat
    BY MainStepsNatural DEF ProcInv, ProcTypeOK
  <2>2. (atFuture \in 1..(Len(mFutures) + 1))' => (MainStepsLeft \in Nat)'
    BY MainStepsNatural, PTL
  <2>3. QED
    BY <2>1, <2>2 DEF ProcInv, ProcTypeOK
<1>4. ~keepRunning /\ ~clientRunning
  BY DEF ShutdownStage, ShutdownInOrder
<1>5. CASE MainNext
  <2>1. UNCHANGED <<threadVars, winPc>> /\ MainStepsLeft' < MainStepsLeft
    BY <1>5, MainAdvances
  <2>2. StepsLeft' = StepsLeft /\ WinStepsLeft' = WinStepsLeft
    BY <2>1, StepsLeftStays DEF WinStepsLeft
  <2>3. ProcStepsLeft' = StepsLeft + WinStepsLeft + MainStepsLeft'
    BY <2>2 DEF ProcStepsLeft
  <2>4. MainStepsLeft' < MainStepsLeft
    BY <2>1
  <2>5. ProcStepsLeft = StepsLeft + WinStepsLeft + MainStepsLeft
    BY DEF ProcStepsLeft
  <2>6. ProcStepsLeft' < ProcStepsLeft
    BY <1>1, <1>2, <1>3, <2>3, <2>4, <2>5, SumFalls
  <2>7. QED
    BY <2>6
<1>6. CASE WinNext
  <2>1. /\ UNCHANGED <<threadVars, mainPc, mainVars>> /\ WinStepsLeft' < WinStepsLeft
    BY <1>4, <1>6, WinAdvances
  <2>2. StepsLeft' = StepsLeft /\ MainStepsLeft' = MainStepsLeft
    BY <2>1, StepsLeftStays DEF MainStepsLeft, SecondStop, mainVars, mFutures
  <2>3. ProcStepsLeft' = StepsLeft + WinStepsLeft' + MainStepsLeft
    BY <2>2 DEF ProcStepsLeft
  <2>4. WinStepsLeft' < WinStepsLeft
    BY <2>1
  <2>5. ProcStepsLeft = StepsLeft + WinStepsLeft + MainStepsLeft
    BY DEF ProcStepsLeft
  <2>6. ProcStepsLeft' < ProcStepsLeft
    BY <1>1, <1>2, <1>3, <2>3, <2>4, <2>5, SumFalls
  <2>7. QED
    BY <2>6
<1>7. CASE ThreadsNext /\ ProcessUnchanged
  <2>1. UNCHANGED <<winPc, mainPc, mainVars>>
    BY <1>7, ThreadsMonotone DEF ProcessUnchanged
  <2>2. CASE UNCHANGED threadVars
    BY <2>1, <2>2
  <2>3. CASE StepsLeft' < StepsLeft
    <3>1. WinStepsLeft' = WinStepsLeft /\ MainStepsLeft' = MainStepsLeft
      BY <2>1 DEF WinStepsLeft, MainStepsLeft, SecondStop, mainVars, mFutures
    <3>2. ProcStepsLeft' = StepsLeft' + WinStepsLeft + MainStepsLeft
      BY <3>1 DEF ProcStepsLeft
    <3>3. ProcStepsLeft = StepsLeft + WinStepsLeft + MainStepsLeft
      BY DEF ProcStepsLeft
    <3>4. ProcStepsLeft' < ProcStepsLeft
      BY <1>1, <1>2, <1>3, <2>3, <3>2, <3>3, SumFalls
    <3>5. QED
      BY <3>4
  <2>4. QED
    BY <1>4, <1>7, <2>2, <2>3, ThreadsAdvance DEF ProcInv
<1>8. CASE Signal
  BY <1>8 DEF Signal, pipelineVars, publisherVars, threadVars
<1>9. QED
  BY <1>5, <1>6, <1>7, <1>8 DEF ProcNext

\* Whatever the threads hold and the futures bring, the process at its joins has
\* a number of steps left that each of its own steps lowers: it cannot stop and
\* unwind for ever, nor wait for a thread that begins something anew.
THEOREM ProcessRunsDown == ProcSpec => ShutdownRunsDown
<1>1. ProcInv /\ ProcInv' /\ ShutdownInOrder /\ [ProcNext]_processVars
        => [ShutdownStage = "join" =>
              \/ ProcStepsLeft' < ProcStepsLeft
              \/ UNCHANGED <<threadVars, winPc, mainPc, mainVars>>]_processVars
  BY StepRunsDown
<1>2. QED
  BY <1>1, ProcInvAlways, ShutdownInOrderAlways, PTL DEF ProcSpec, ShutdownRunsDown
=============================================================================
