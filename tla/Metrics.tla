-------------------------------- MODULE Metrics --------------------------------
(***************************************************************************)
(* MetricsSingleton and the threads that share it: the tabulator thread    *)
(* counts every packet and adds it to its stream's window                  *)
(* (tabulateMetrics), the windows thread turns the windows into averages   *)
(* (updateAndResetWindowedMetrics), the publisher counts what it wrote, and *)
(* the exporter of the telemetry library reads the counters one by one     *)
(* through the observe functions, in the order Process registered them.    *)
(* mMutex is taken and released inside each member function, so a member   *)
(* function is one step and a sequence of calls is not.                    *)
(*                                                                         *)
(* Packets are numbered by the tabulator.  A window, and the averages      *)
(* computed from it, stand for the set of packets they were computed from. *)
(* Of the clock only this matters: whose window has lasted its interval.   *)
(*                                                                         *)
(* tabPc: pop, total (toKeyName and the total), times (the checks), future, *)
(* expired, valid (the counters), window, push.  winPc: loop (reading the  *)
(* clock), update.  obsPc: the counter the exporter reads next.            *)
(***************************************************************************)
EXTENDS Integers, FiniteSets

CONSTANTS
  Streams,      \* keys of the maps
  NoStream,     \* a packet for which toKeyName throws
  MaxPackets    \* bound: packets of a behaviour

ASSUME MetricsAssumption ==
  /\ NoStream \notin Streams
  /\ MaxPackets \in Nat

VARIABLES
  tabPc,        \* the tabulator thread
  key,          \* the stream of the packet it has in hand
  mReceivedPacketsCounter,
  forwarded,    \* packets put on the export queue
  mSentPacketsCounter,
  mTotal,       \* mTotalPacketsCounterMap; a missing entry is 0
  mReceived,    \* mReceivedPacketsCounterMap
  mFuture,      \* mFuturePacketsCounterMap
  mExpired,     \* mExpiredPacketsCounterMap
  malformed,    \* history: packets the checks of tabulateMetrics rejected
  unsummed,     \* history: packets counted as valid whose sums threw
  windows,      \* mWindowedMetricsMap: the packets in the sums
  due,          \* streams whose window has lasted its interval
  averages,     \* the maps of averages; {} is the value of a quiet stream
  averaged,     \* history: packets that were in some average
  winPc,        \* the windows thread
  winDue,       \* what its reading of the clock says is due
  obsPc,        \* the exporter
  seenParts,    \* valid, future and expired packets, as read for this report
  seenTotal,    \* the total, as read for this report
  seenSent      \* the packets sent, as read for the report just made

rejectVars == <<malformed, unsummed>>
tabVars == <<tabPc, key, mReceivedPacketsCounter, forwarded, rejectVars>>
countVars == <<mTotal, mReceived, mFuture, mExpired>>
windowVars == <<windows, due, averages, averaged>>
winVars == <<winPc, winDue>>
obsVars == <<obsPc, seenParts, seenTotal, seenSent>>
metricsVars == <<tabVars, mSentPacketsCounter, countVars, windowVars, winVars,
                 obsVars>>

Zero == [s \in Streams |-> 0]
Empty == [s \in Streams |-> {}]

\* map.find(key), insert 1 or add 1.
Increment(map) == [map EXCEPT ![key] = @ + 1]

-----------------------------------------------------------------------------
Init ==
  /\ tabPc = "pop"
  /\ key = NoStream
  /\ mReceivedPacketsCounter = 0
  /\ forwarded = 0
  /\ mSentPacketsCounter = 0
  /\ mTotal = Zero
  /\ mReceived = Zero
  /\ mFuture = Zero
  /\ mExpired = Zero
  /\ malformed = Zero
  /\ unsummed = Zero
  /\ windows = Empty
  /\ due = {}
  /\ averages = Empty
  /\ averaged = Empty
  /\ winPc = "loop"
  /\ winDue = {}
  /\ obsPc = "valid"
  /\ seenParts = Zero
  /\ seenTotal = Zero
  /\ seenSent = 0

-----------------------------------------------------------------------------
(* The tabulator thread. *)

TabStep(from, to) ==
  /\ tabPc = from
  /\ tabPc' = to
  /\ UNCHANGED <<mSentPacketsCounter, winVars, obsVars>>

\* A packet is there: incrementReceivedPacketsCounter().
Receive ==
  /\ TabStep("pop", "total")
  /\ mReceivedPacketsCounter < MaxPackets
  /\ mReceivedPacketsCounter' = mReceivedPacketsCounter + 1
  /\ key' \in Streams \cup {NoStream}
  /\ UNCHANGED <<forwarded, rejectVars, countVars, windowVars>>

\* A slip: a packet without a key is left out of the total, but goes on.
CountAnyway ==
  /\ TabStep("total", "times")
  /\ mTotal' = IF key \in Streams THEN Increment(mTotal) ELSE mTotal
  /\ UNCHANGED <<key, mReceivedPacketsCounter, forwarded, rejectVars, mReceived,
                 mFuture, mExpired, windowVars>>

\* toKeyName, which throws on an incomplete identifier, and the total.
CountTotal ==
  /\ IF key \in Streams
     THEN TabStep("total", "times") /\ mTotal' = Increment(mTotal)
     ELSE TabStep("total", "push") /\ UNCHANGED mTotal
  /\ UNCHANGED <<key, mReceivedPacketsCounter, forwarded, rejectVars, mReceived,
                 mFuture, mExpired, windowVars>>

\* The checks of the samples, the rate and the times.
CheckTimes ==
  /\ \/ \E verdict \in {"future", "expired", "valid"} : TabStep("times", verdict)
          /\ UNCHANGED malformed
     \/ TabStep("times", "push") /\ malformed' = Increment(malformed)
  /\ UNCHANGED <<key, mReceivedPacketsCounter, forwarded, unsummed, countVars,
                 windowVars>>

\* A slip: the return behind the counter is missing.
CountFutureAndGoOn ==
  /\ TabStep("future", "valid")
  /\ mFuture' = Increment(mFuture)
  /\ UNCHANGED <<key, mReceivedPacketsCounter, forwarded, rejectVars, mTotal,
                 mReceived, mExpired, windowVars>>

CountFuture ==
  /\ TabStep("future", "push")
  /\ mFuture' = Increment(mFuture)
  /\ UNCHANGED <<key, mReceivedPacketsCounter, forwarded, rejectVars, mTotal,
                 mReceived, mExpired, windowVars>>

CountExpired ==
  /\ TabStep("expired", "push")
  /\ mExpired' = Increment(mExpired)
  /\ UNCHANGED <<key, mReceivedPacketsCounter, forwarded, rejectVars, mTotal,
                 mReceived, mFuture, windowVars>>

CountReceived ==
  /\ TabStep("valid", "window")
  /\ mReceived' = Increment(mReceived)
  /\ UNCHANGED <<key, mReceivedPacketsCounter, forwarded, rejectVars, mTotal,
                 mFuture, mExpired, windowVars>>

\* WindowedMetrics::update of the stream's window, made on its first packet.  The
\* sums come first, and throw on samples that do not fit their label: then the
\* packet enters no window, and a window made for it is not inserted.
UpdateWindow ==
  /\ TabStep("window", "push")
  /\ \/ /\ windows' = [windows EXCEPT ![key] = @ \cup {mReceivedPacketsCounter}]
        /\ UNCHANGED unsummed
     \/ /\ unsummed' = Increment(unsummed)
        /\ UNCHANGED windows
  /\ UNCHANGED <<key, mReceivedPacketsCounter, forwarded, malformed, countVars,
                 due, averages, averaged>>

\* Metrics or not, the packet goes on to the export queue.
Forward ==
  /\ TabStep("push", "pop")
  /\ forwarded' = forwarded + 1
  /\ key' = NoStream
  /\ UNCHANGED <<mReceivedPacketsCounter, rejectVars, countVars, windowVars>>

TabNext ==
  \/ Receive \/ CountTotal \/ CheckTimes \/ CountFuture \/ CountExpired
  \/ CountReceived \/ UpdateWindow \/ Forward

-----------------------------------------------------------------------------
(* The publisher, the windows thread and the exporter. *)

\* incrementSentPacketsCounter, behind a Write that succeeded.
Send ==
  /\ mSentPacketsCounter < forwarded
  /\ mSentPacketsCounter' = mSentPacketsCounter + 1
  /\ UNCHANGED <<tabVars, countVars, windowVars, winVars, obsVars>>

\* Time passes: the window of a stream that has one has lasted its interval.
IntervalElapses(s) ==
  /\ windows[s] \cup averaged[s] # {}
  /\ s \notin due
  /\ due' = due \cup {s}
  /\ UNCHANGED <<tabVars, mSentPacketsCounter, countVars, windows, averages,
                 averaged, winVars, obsVars>>

\* updateAndResetWindowedMetrics reads the clock before it takes the mutex.
ReadClock ==
  /\ winPc = "loop"
  /\ winPc' = "update"
  /\ winDue' = due
  /\ UNCHANGED <<tabVars, mSentPacketsCounter, countVars, windowVars, obsVars>>

\* The windows in S become averages and start over.
ResetWindows(S) ==
  /\ winPc = "update"
  /\ winPc' = "loop"
  /\ averages' = [s \in Streams |-> IF s \in S THEN windows[s] ELSE averages[s]]
  /\ averaged' = [s \in Streams |->
                    IF s \in S THEN averaged[s] \cup windows[s] ELSE averaged[s]]
  /\ windows' = [s \in Streams |-> IF s \in S THEN {} ELSE windows[s]]
  /\ due' = due \ S
  /\ winDue' = {}
  /\ UNCHANGED <<tabVars, mSentPacketsCounter, countVars, obsVars>>

\* A slip: the loop over the streams ends behind the first that was due.
UpdateFirst ==
  ResetWindows(IF winDue = {} THEN {} ELSE {CHOOSE s \in winDue : TRUE})

\* A slip: the sums of the window are not reset.
UpdateWithoutReset ==
  /\ winPc = "update"
  /\ winPc' = "loop"
  /\ averages' = [s \in Streams |-> IF s \in winDue THEN windows[s] ELSE averages[s]]
  /\ averaged' = [s \in Streams |->
                    IF s \in winDue THEN averaged[s] \cup windows[s]
                                    ELSE averaged[s]]
  /\ due' = due \ winDue
  /\ winDue' = {}
  /\ UNCHANGED <<tabVars, mSentPacketsCounter, countVars, windows, obsVars>>

UpdateAndReset == ResetWindows(winDue)

WinNext == ReadClock \/ UpdateAndReset

ObsStep(from, to) ==
  /\ obsPc = from
  /\ obsPc' = to
  /\ UNCHANGED <<tabVars, mSentPacketsCounter, countVars, windowVars, winVars>>

Plus(f, g) == [s \in Streams |-> f[s] + g[s]]

ObserveValid ==
  /\ ObsStep("valid", "future")
  /\ seenParts' = mReceived
  /\ seenSent' = 0
  /\ UNCHANGED seenTotal

ObserveFuture ==
  /\ ObsStep("future", "expired")
  /\ seenParts' = Plus(seenParts, mFuture)
  /\ UNCHANGED <<seenTotal, seenSent>>

ObserveExpired ==
  /\ ObsStep("expired", "total")
  /\ seenParts' = Plus(seenParts, mExpired)
  /\ UNCHANGED <<seenTotal, seenSent>>

ObserveTotal ==
  /\ ObsStep("total", "sent")
  /\ seenTotal' = mTotal
  /\ UNCHANGED <<seenParts, seenSent>>

\* getSentPacketsCount returns the counter of the packets received.
ObserveSent ==
  /\ ObsStep("sent", "valid")
  /\ seenSent' = mReceivedPacketsCounter
  /\ seenParts' = Zero
  /\ seenTotal' = Zero

ObsNext ==
  \/ ObserveValid \/ ObserveFuture \/ ObserveExpired \/ ObserveTotal
  \/ ObserveSent

-----------------------------------------------------------------------------
Next ==
  \/ TabNext \/ Send \/ WinNext \/ ObsNext
  \/ \E s \in Streams : IntervalElapses(s)

\* The windows thread runs and time passes, whether packets arrive or not.
Fairness ==
  /\ WF_metricsVars(WinNext)
  /\ \A s \in Streams : WF_metricsVars(IntervalElapses(s))

Spec == Init /\ [][Next]_metricsVars
FairSpec == Spec /\ Fairness

-----------------------------------------------------------------------------
Counts == [Streams -> Nat]
Sets == [Streams -> SUBSET Nat]

TypeOK ==
  /\ tabPc \in {"pop", "total", "times", "future", "expired", "valid", "window",
                "push"}
  /\ key \in Streams \cup {NoStream}
  /\ tabPc \in {"times", "future", "expired", "valid", "window"} => key \in Streams
  /\ mReceivedPacketsCounter \in Nat /\ forwarded \in Nat
  /\ mSentPacketsCounter \in Nat /\ seenSent \in Nat
  /\ mTotal \in Counts /\ mReceived \in Counts /\ mFuture \in Counts
  /\ mExpired \in Counts /\ malformed \in Counts /\ unsummed \in Counts
  /\ windows \in Sets /\ averages \in Sets /\ averaged \in Sets
  /\ due \subseteq Streams /\ winDue \subseteq Streams
  /\ winPc \in {"loop", "update"}
  /\ obsPc \in {"valid", "future", "expired", "total", "sent"}
  /\ seenParts \in Counts /\ seenTotal \in Counts

\* The total of a stream is what its other counters add up to, but for the
\* packets the checks reject and the one being tabulated.
TotalsAddUp ==
  \A s \in Streams :
    mTotal[s] = mReceived[s] + mFuture[s] + mExpired[s] + malformed[s]
                + (IF key = s /\ tabPc \in {"times", "future", "expired", "valid"}
                   THEN 1 ELSE 0)

\* No report contradicts itself: the exporter reads the four counters of a
\* stream at four different moments, and still never reports more valid,
\* future and expired packets than packets.  It rests on the order of the
\* writes, the total first, and on the order of the reads, the total last.
ReportAddsUp ==
  obsPc = "sent" => \A s \in Streams : seenParts[s] <= seenTotal[s]

\* Every valid packet enters one average, and only one: the packets of a
\* stream counted as valid are those of its window and those of its past
\* averages, no packet in both, and the packets whose sums threw behind the count.
OneWindowEach ==
  \A s \in Streams :
    /\ windows[s] \cap averaged[s] = {}
    /\ mReceived[s] = Cardinality(windows[s] \cup averaged[s]) + unsummed[s]
                      + (IF key = s /\ tabPc = "window" THEN 1 ELSE 0)

\* What makes ReportAddsUp inductive: the parts read so far are no more than
\* the counters they were read from.
PartsRead ==
  \A s \in Streams :
    /\ obsPc = "future" => seenParts[s] <= mReceived[s]
    /\ obsPc = "expired" => seenParts[s] <= mReceived[s] + mFuture[s]
    /\ obsPc = "total" => seenParts[s] <= mReceived[s] + mFuture[s] + mExpired[s]

\* What makes OneWindowEach inductive: the windows hold packets tabulated, and
\* the one in hand is in none.
WindowsHoldThePast ==
  /\ tabPc # "pop" => mReceivedPacketsCounter # 0
  /\ \A s \in Streams :
       /\ windows[s] \cup averaged[s] \subseteq 1..mReceivedPacketsCounter
       /\ tabPc \notin {"pop", "push"}
            => mReceivedPacketsCounter \notin windows[s] \cup averaged[s]

\* Also when the telemetry falls silent: a packet in a window gets into an
\* average, without another packet having to arrive.
EveryWindowAveraged ==
  \A s \in Streams : \A p \in 1..MaxPackets :
    p \in windows[s] ~> p \in averaged[s]

\* The packets reported as sent were sent.
SentMeansSent == seenSent <= mSentPacketsCounter
=============================================================================
