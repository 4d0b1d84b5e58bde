------------------------------- MODULE Process -------------------------------
(***************************************************************************)
(* The whole process: the main thread (Process::handleMainThread,          *)
(* checkFuturesOkay, stop, the destructor and the end of main) around the  *)
(* threads of module PacketPipeline, the thread that rolls the metrics'    *)
(* windows (updateWindowedMetrics, its waiting only), and the signals.     *)
(*                                                                         *)
(* mainPc: loop (the head of the loop: mInterrupted), check (wait_for and  *)
(* get of one future), pause (mStopCondition.wait_for), notify,            *)
(* clearRunning, stopClient, join (stop), cleanup, over.  unwinding says   *)
(* that stop is run by the destructor, an exception being on its way.      *)
(***************************************************************************)
EXTENDS PacketPipeline

CONSTANTS
  ExportMetrics   \* mOptions.exportMetrics

ASSUME ProcessAssumption == ExportMetrics \in BOOLEAN

VARIABLES
  interrupted,   \* mInterrupted
  winPc,         \* the windowed metrics thread
  valid,         \* future.valid(), for every entry of mFutures
  atFuture,      \* the loop variable of checkFuturesOkay and stop
  isOkay,        \* isOkay of checkFuturesOkay
  unwinding,     \* ~Process runs because an exception left start()
  exit           \* how the program ended

mainVars == <<valid, atFuture, isOkay, unwinding, exit>>
processVars == <<pipelineVars, interrupted, winPc, mainVars>>

\* mFutures, in the order of the push_backs of start().
mFutures == IF ExportMetrics THEN <<"windows", "tabulator", "publisher", "seedlink">>
                             ELSE <<"tabulator", "publisher", "seedlink">>
Entries == 1..Len(mFutures)

Ready(f) ==
  CASE f = "windows"   -> winPc = "returned"
    [] f = "tabulator" -> tabPc = "returned"
    [] f = "publisher" -> pubPc \in PubFinal
    [] f = "seedlink"  -> srcPc \in SrcFinal

\* get() rethrows what ended the thread.
Threw(f) ==
  \/ f = "publisher" /\ pubPc = "threw"
  \/ f = "seedlink" /\ srcPc = "threw"

-----------------------------------------------------------------------------
ProcInit ==
  /\ ThreadsInit
  /\ mainPc = "loop"
  /\ interrupted = FALSE
  /\ winPc = IF ExportMetrics THEN "loop" ELSE "returned"
  /\ valid = [i \in Entries |-> TRUE]
  /\ atFuture = 1
  /\ isOkay = TRUE
  /\ unwinding = FALSE
  /\ exit = "none"

\* A slip: the handler stops the threads itself, ahead of the main thread.
HandlerStopsThreads ==
  /\ ~interrupted
  /\ interrupted' = TRUE
  /\ keepRunning' = FALSE
  /\ UNCHANGED <<clientRunning, srcVars, importQueue, tabVars, refused, mainPc, pubVars,
                 streamVars, shutdownRequested, exportQueue, winPc, mainVars>>

\* SIGINT or SIGTERM: signalHandler only stores a flag.
Signal ==
  /\ ~interrupted
  /\ interrupted' = TRUE
  /\ UNCHANGED <<pipelineVars, winPc, mainVars>>

-----------------------------------------------------------------------------
(* updateWindowedMetrics *)

WinStep(from, to) ==
  /\ winPc = from
  /\ winPc' = to
  /\ UNCHANGED <<pipelineVars, interrupted, mainVars>>

WinLoop == WinStep("loop", IF keepRunning THEN "waitPred" ELSE "returned")

WinWaitPredicate ==
  \E pc \in {"waitPred", "woken"} :
    WinStep(pc, IF shutdownRequested THEN "loop" ELSE "blocking")

WinBlocks == WinStep("blocking", "waiting")

WinWaitTimesOut == WinStep("waiting", "loop")

WinNext == WinLoop \/ WinWaitPredicate \/ WinBlocks \/ WinWaitTimesOut

-----------------------------------------------------------------------------
(* The main thread. *)

\* The loop's head: mInterrupted is looked at first, and on it the futures are
\* not checked any more.
MainLoop ==
  /\ UNCHANGED <<interrupted, winPc, valid, unwinding, exit>>
  /\ atFuture' = 1
  /\ isOkay' = TRUE
  /\ IF interrupted
     THEN MainStep("loop", "notify") /\ RequestShutdown
     ELSE MainStep("loop", "check") /\ ThreadsUnchanged
            /\ UNCHANGED <<clientRunning, flagVars, pubVars>>

\* A slip: the exception is logged and forgotten.
FailureForgotten(i) == TRUE

\* wait_for throws on a future that was fetched before, get() rethrows; both
\* are caught and logged, and the result of the check is false.
StaysOkay(i) == valid[i] /\ ~(Ready(mFutures[i]) /\ Threw(mFutures[i]))

\* One future of checkFuturesOkay.
MainChecksFuture ==
  /\ mainPc = "check"
  /\ atFuture \in Entries
  /\ valid' = [valid EXCEPT ![atFuture] = @ /\ ~Ready(mFutures[atFuture])]
  /\ isOkay' = (isOkay /\ StaysOkay(atFuture))
  /\ atFuture' = atFuture + 1
  /\ UNCHANGED <<pipelineVars, interrupted, winPc, unwinding, exit>>

\* Behind the loop over the futures.
MainDecides ==
  /\ mainPc = "check"
  /\ atFuture \notin Entries
  /\ IF isOkay
     THEN MainStep("check", "pause") /\ ThreadsUnchanged
            /\ UNCHANGED <<clientRunning, flagVars, pubVars>>
     ELSE MainStep("check", "notify") /\ RequestShutdown
  /\ UNCHANGED <<interrupted, winPc, mainVars>>

\* A slip: the pause is a wait without a time limit, and no handler notifies.
PausesForever == MainStep("pause", "loop") /\ interrupted /\ ~interrupted

\* mStopCondition.wait_for: nothing in the program notifies it, the time limit
\* is what brings the main thread back to the signal flag.
MainPauseTimesOut ==
  /\ MainStep("pause", "loop")
  /\ ThreadsUnchanged
  /\ UNCHANGED <<clientRunning, flagVars, pubVars, interrupted, winPc, mainVars>>

MainNotifies ==
  /\ MainStep("notify", "clearRunning")
  /\ NotifyShutdown
  /\ winPc' = Notified(winPc)
  /\ UNCHANGED <<interrupted, mainVars>>

MainStopsRunning ==
  /\ MainStep("clearRunning", "stopClient")
  /\ StopRunning
  /\ atFuture' = 1
  /\ UNCHANGED <<interrupted, winPc, valid, isOkay, unwinding, exit>>

MainStopsClient ==
  /\ MainStep("stopClient", "join")
  /\ StopClient
  /\ UNCHANGED <<interrupted, winPc, mainVars>>

JoinUnchanged ==
  UNCHANGED <<clientRunning, srcVars, importQueue, tabVars, refused,
              publisherVars, interrupted, winPc, isOkay>>

\* A slip: behind a fetched future, as behind an erased one, the loop skips one.
JoinsOverFetched ==
  /\ mainPc = "join"
  /\ atFuture \in Entries
  /\ valid[atFuture] =>
       Ready(mFutures[atFuture]) /\ ~Threw(mFutures[atFuture])
  /\ valid' = [valid EXCEPT ![atFuture] = FALSE]
  /\ atFuture' = atFuture + (IF valid[atFuture] THEN 1 ELSE 2)
  /\ UNCHANGED <<mainPc, unwinding, exit>>
  /\ JoinUnchanged

\* if (future.valid()){future.get();} where nothing is thrown.
MainJoins ==
  /\ mainPc = "join"
  /\ atFuture \in Entries
  /\ valid[atFuture] =>
       Ready(mFutures[atFuture]) /\ ~Threw(mFutures[atFuture])
  /\ valid' = [valid EXCEPT ![atFuture] = FALSE]
  /\ atFuture' = atFuture + 1
  /\ UNCHANGED <<mainPc, unwinding, exit>>
  /\ JoinUnchanged

\* A slip: the destructor leaves the joins out, for start() has done them.
DestructorSkipsJoins ==
  /\ mainPc = "join"
  /\ atFuture \in Entries
  /\ valid[atFuture] /\ Ready(mFutures[atFuture]) /\ Threw(mFutures[atFuture])
  /\ valid' = [valid EXCEPT ![atFuture] = FALSE]
  /\ mainPc' = "cleanup"
  /\ unwinding' = TRUE
  /\ UNCHANGED <<atFuture, exit>>
  /\ JoinUnchanged

\* A slip: the destructor catches what its stop() throws and stops once more.
StopsOnceMore ==
  /\ mainPc = "join"
  /\ atFuture \in Entries
  /\ valid[atFuture] /\ Ready(mFutures[atFuture]) /\ Threw(mFutures[atFuture])
  /\ valid' = [valid EXCEPT ![atFuture] = FALSE]
  /\ mainPc' = "clearRunning"
  /\ unwinding' = TRUE
  /\ UNCHANGED <<atFuture, exit>>
  /\ JoinUnchanged

\* get() rethrows.  The first time the exception leaves stop() and start(),
\* and the destructor runs stop() again; out of a destructor it is the end.
MainJoinThrows ==
  /\ mainPc = "join"
  /\ atFuture \in Entries
  /\ valid[atFuture] /\ Ready(mFutures[atFuture]) /\ Threw(mFutures[atFuture])
  /\ valid' = [valid EXCEPT ![atFuture] = FALSE]
  /\ mainPc' = IF unwinding THEN "over" ELSE "clearRunning"
  /\ exit' = IF unwinding THEN "terminate" ELSE exit
  /\ unwinding' = TRUE
  /\ UNCHANGED atFuture
  /\ JoinUnchanged

MainJoined ==
  /\ MainStep("join", "cleanup")
  /\ atFuture \notin Entries
  /\ UNCHANGED mainVars
  /\ JoinUnchanged

\* Metrics and logger are cleaned up, the destructor finds nothing to join.
MainEnds ==
  /\ MainStep("cleanup", "over")
  /\ exit' = IF unwinding THEN "failure" ELSE "success"
  /\ UNCHANGED <<valid, atFuture, unwinding>>
  /\ JoinUnchanged

MainNext ==
  \/ MainLoop \/ MainChecksFuture \/ MainDecides \/ MainPauseTimesOut
  \/ MainNotifies \/ MainStopsRunning \/ MainStopsClient
  \/ MainJoins \/ MainJoinThrows \/ MainJoined \/ MainEnds

-----------------------------------------------------------------------------
ProcessUnchanged == UNCHANGED <<interrupted, winPc, mainVars>>

\* When main returns, what still ran is gone.
ProcNext ==
  /\ exit = "none"
  /\ \/ MainNext
     \/ Signal
     \/ WinNext
     \/ ThreadsNext /\ ProcessUnchanged

ProcFairness ==
  /\ WF_processVars(MainNext)
  /\ WF_processVars(WinNext)
  /\ WF_processVars(SrcNext /\ ProcessUnchanged)
  /\ WF_processVars(TabNext /\ ProcessUnchanged)
  /\ WF_processVars(PubNext /\ PipelineUnchanged /\ ProcessUnchanged)

ProcSpec == ProcInit /\ [][ProcNext]_processVars
FairProcSpec == ProcSpec /\ ProcFairness

-----------------------------------------------------------------------------
ProcTypeOK ==
  /\ TypeOK
  /\ mainPc \in {"loop", "check", "pause", "notify", "clearRunning",
                 "stopClient", "join", "cleanup", "over"}
  /\ interrupted \in BOOLEAN
  /\ winPc \in {"loop", "waitPred", "blocking", "waiting", "woken", "returned"}
  /\ valid \in [Entries -> BOOLEAN]
  /\ atFuture \in 1..(Len(mFutures) + 1)
  /\ isOkay \in BOOLEAN
  /\ unwinding \in BOOLEAN
  /\ exit \in {"none", "success", "failure", "terminate"}

AnyThreadThrew == \E i \in Entries : Threw(mFutures[i])

\* checkFuturesOkay never waits on a future it has fetched before: threads
\* only become ready in a running process by an exception, and then the main
\* loop is left.
NoWaitOnFetchedFuture ==
  mainPc = "check" /\ atFuture \in Entries => valid[atFuture]

\* The service stops of itself only for a reason: a signal or a thread that
\* threw.  No thread ends quietly and takes the process with it.
StopsForAReason ==
  ~keepRunning => interrupted \/ AnyThreadThrew

\* When main returns no thread is left that could touch the queues, the
\* metrics or the logger being destroyed.
ReturnsAfterAllThreads ==
  exit \in {"success", "failure"} => \A i \in Entries : Ready(mFutures[i])

\* Where PacketPipeline sees the main thread: before its shutdown all is one, and
\* behind the joins, or in the second stop of the destructor, nothing is left
\* that the threads could notice.
ShutdownStage ==
  IF unwinding \/ mainPc \in {"cleanup", "over"} THEN "join"
  ELSE IF mainPc \in {"check", "pause"} THEN "loop" ELSE mainPc

\* The process around them lets the threads do only what they do in
\* PacketPipeline: flags and the notification come once, in that order, whatever
\* signals, futures, exceptions and the second stop do.
Pipeline == INSTANCE PacketPipeline WITH mainPc <- ShutdownStage
RunsPipeline == Pipeline!Spec

\* The main thread deals with every exception of a thread: the process never
\* ends by std::terminate.
NeverTerminates == exit # "terminate"

\* A signal ends the process, unless the proxy stalls.
SignalEndsProcess == ProxyStalls \/ (interrupted ~> exit # "none")

\* A thread that fails ends the process, whatever the other threads wait for,
\* unless the proxy stalls.
FailureEndsProcess == ProxyStalls \/ (AnyThreadThrew ~> exit # "none")

-----------------------------------------------------------------------------
\* What the process has left to do at its joins: its threads, the windows thread,
\* and the main thread, which may have to stop everything once more.
WinStepsLeft ==
  CASE winPc \in {"waitPred", "woken"} -> 4
    [] winPc = "blocking"              -> 3
    [] winPc = "waiting"               -> 2
    [] winPc = "loop"                  -> 1
    [] OTHER                           -> 0
SecondStop == IF unwinding THEN 0 ELSE Len(mFutures) + 4
MainStepsLeft ==
  CASE mainPc = "clearRunning" -> Len(mFutures) + 4
    [] mainPc = "stopClient"   -> Len(mFutures) + 3
    [] mainPc = "join"         -> Len(mFutures) + 3 - atFuture + SecondStop
    [] mainPc = "cleanup"      -> 1
    [] OTHER                   -> 0
ProcStepsLeft == StepsLeft + WinStepsLeft + MainStepsLeft

\* From the first join on the process runs down: an exception out of stop(), the
\* second stop of the destructor, a signal that comes late and whatever the
\* threads still hold, each step is one of those left, and only the network may
\* move on without using one up.
ShutdownRunsDown ==
  [][ShutdownStage = "join" =>
       \/ ProcStepsLeft' < ProcStepsLeft
       \/ UNCHANGED <<threadVars, winPc, mainPc, mainVars>>]_processVars

-----------------------------------------------------------------------------
\* What makes the safety properties inductive.  In a running process a thread
\* ends by an exception only.
ReturnsOnlyWhenTold ==
  /\ srcPc = "returned" => ~clientRunning
  /\ tabPc = "returned" => ~keepRunning
  /\ ExportMetrics /\ winPc = "returned" => ~keepRunning

\* Until it begins its shutdown the main thread has fetched no future but that
\* of a thread that threw, and it begins one only for a reason.
MainRuns ==
  /\ mainPc \in {"loop", "check", "pause"} => keepRunning /\ clientRunning
  /\ mainPc \in {"loop", "pause"} => \A i \in Entries : valid[i]
  /\ mainPc = "check" =>
       /\ \A i \in Entries : i >= atFuture \/ isOkay => valid[i]
       /\ ~isOkay => AnyThreadThrew
  /\ mainPc \notin {"loop", "check", "pause"} => interrupted \/ AnyThreadThrew

\* A future is only fetched when its thread is over, and the loop of stop()
\* leaves none behind that is not.
MainJoinsAll ==
  /\ \A i \in Entries : ~valid[i] => Ready(mFutures[i])
  /\ mainPc = "stopClient" => atFuture = 1
  /\ mainPc = "join" => \A i \in Entries : i < atFuture => Ready(mFutures[i])
  /\ mainPc = "cleanup" \/ exit \in {"success", "failure"} =>
       \A i \in Entries : Ready(mFutures[i])

\* What a shutdown has begun it has done when it comes to the joins, and only
\* there an exception leaves stop().
ShutdownInOrder ==
  /\ mainPc \in {"stopClient", "join", "cleanup", "over"} \/ unwinding => ~keepRunning
  /\ mainPc \in {"join", "cleanup", "over"} \/ unwinding => ~clientRunning
  /\ unwinding => mainPc \in {"clearRunning", "stopClient", "join", "cleanup", "over"}

ProcInv ==
  /\ TypeInv /\ PubInv /\ ProcTypeOK
  /\ ReturnsOnlyWhenTold /\ MainRuns /\ MainJoinsAll
=============================================================================
