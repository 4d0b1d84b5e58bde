----------------------------- MODULE MetricsProofs -----------------------------
(***************************************************************************)
(* Proofs about the counters and the windows, for any streams and any      *)
(* number of packets, threads interleaved in any way.                      *)
(***************************************************************************)
EXTENDS Metrics, FiniteSetTheorems, TLAPS

CountInv == TypeOK /\ TotalsAddUp /\ ReportAddsUp /\ PartsRead

WindowInv == OneWindowEach /\ WindowsHoldThePast

-----------------------------------------------------------------------------
\* One more for the stream of the packet in hand, nothing else.
LEMMA IncrementOne ==
  ASSUME NEW map \in Counts, key \in Streams
  PROVE  /\ Increment(map) \in Counts
         /\ \A s \in Streams :
              Increment(map)[s] = IF s = key THEN map[s] + 1 ELSE map[s]
  BY DEF Increment, Counts

LEMMA CountInvInit == Init => CountInv
<1> SUFFICES ASSUME Init PROVE CountInv
  OBVIOUS
<1> USE MetricsAssumption DEF Init, Zero, Empty
<1>1. TypeOK
  BY DEF TypeOK, Counts, Sets
<1>2. TotalsAddUp
  BY DEF TotalsAddUp
<1>3. ReportAddsUp /\ PartsRead
  BY DEF ReportAddsUp, PartsRead
<1>4. QED
  BY <1>1, <1>2, <1>3 DEF CountInv

\* The steps of the tabulator that count nothing by stream.
LEMMA PassingKeeps ==
  ASSUME CountInv, Receive \/ UpdateWindow \/ Forward
  PROVE  CountInv'
<1> USE MetricsAssumption DEF CountInv
<1>1. /\ UNCHANGED <<countVars, malformed, obsVars, winVars, mSentPacketsCounter>>
      /\ tabPc \in {"pop", "window", "push"} /\ tabPc' \in {"total", "push", "pop"}
      /\ key' \in Streams \cup {NoStream}
      /\ mReceivedPacketsCounter' \in Nat /\ forwarded' \in Nat
      /\ due' = due /\ averages' = averages /\ averaged' = averaged
  BY DEF Receive, UpdateWindow, Forward, TabStep, TypeOK, windowVars, rejectVars
<1>2. windows' \in Sets /\ unsummed' \in Counts
  <2>1. CASE UpdateWindow
    <3>1. key \in Streams /\ windows \in Sets /\ unsummed \in Counts
      BY <2>1 DEF UpdateWindow, TabStep, TypeOK
    <3>2. mReceivedPacketsCounter \in Nat
      BY DEF TypeOK
    <3>3. [windows EXCEPT ![key] = @ \cup {mReceivedPacketsCounter}] \in Sets
      BY <3>1, <3>2 DEF Sets
    <3>4. Increment(unsummed) \in Counts
      BY <3>1, IncrementOne
    <3>5. QED
      BY <2>1, <3>1, <3>3, <3>4 DEF UpdateWindow
  <2>2. CASE Receive \/ Forward
    BY <2>2 DEF Receive, Forward, TypeOK, windowVars, rejectVars
  <2>3. QED
    BY <2>1, <2>2
<1>3. TypeOK'
  BY <1>1, <1>2 DEF TypeOK, countVars, obsVars, winVars
<1>4. TotalsAddUp'
  BY <1>1 DEF TotalsAddUp, countVars, TypeOK, Counts
<1>5. ReportAddsUp' /\ PartsRead'
  BY <1>1 DEF ReportAddsUp, PartsRead, countVars, obsVars
<1>6. QED
  BY <1>3, <1>4, <1>5

\* The total goes up before the packet is told valid, future or expired.
LEMMA CountTotalKeeps ==
  ASSUME CountInv, CountTotal
  PROVE  CountInv'
<1> USE MetricsAssumption DEF CountInv
<1>1. /\ UNCHANGED <<key, mReceived, mFuture, mExpired, malformed, unsummed, obsVars,
                     winVars, windowVars, mSentPacketsCounter,
                     mReceivedPacketsCounter, forwarded>>
      /\ tabPc = "total"
  BY DEF CountTotal, TabStep, rejectVars
<1>2. CASE key \in Streams
  <2>1. tabPc' = "times" /\ mTotal' = Increment(mTotal)
    BY <1>2 DEF CountTotal, TabStep
  <2>2. /\ mTotal' \in Counts
        /\ \A s \in Streams : mTotal'[s] = IF s = key THEN mTotal[s] + 1 ELSE mTotal[s]
    BY <1>2, <2>1, IncrementOne DEF TypeOK
  <2>3. TypeOK'
    BY <1>1, <1>2, <2>1, <2>2 DEF TypeOK, obsVars, winVars, windowVars
  <2>4. TotalsAddUp'
    BY <1>1, <2>1, <2>2 DEF TotalsAddUp, TypeOK, Counts
  <2>5. ReportAddsUp' /\ PartsRead'
    BY <1>1 DEF ReportAddsUp, PartsRead, obsVars
  <2>6. QED
    BY <2>3, <2>4, <2>5
<1>3. CASE key \notin Streams
  <2>1. tabPc' = "push" /\ mTotal' = mTotal
    BY <1>3 DEF CountTotal, TabStep
  <2>2. TypeOK'
    BY <1>1, <2>1 DEF TypeOK, obsVars, winVars, windowVars
  <2>3. TotalsAddUp'
    BY <1>1, <2>1 DEF TotalsAddUp
  <2>4. ReportAddsUp' /\ PartsRead'
    BY <1>1 DEF ReportAddsUp, PartsRead, obsVars
  <2>5. QED
    BY <2>2, <2>3, <2>4
<1>4. QED
  BY <1>2, <1>3

\* The packet in hand moves from one count to another, or is found malformed.
LEMMA VerdictKeeps ==
  ASSUME CountInv, CheckTimes \/ CountFuture \/ CountExpired \/ CountReceived
  PROVE  CountInv'
<1> USE MetricsAssumption DEF CountInv
<1>1. /\ UNCHANGED <<key, mTotal, obsVars, winVars, windowVars, mSentPacketsCounter,
                     mReceivedPacketsCounter, forwarded, unsummed>>
      /\ key \in Streams
  BY DEF CheckTimes, CountFuture, CountExpired, CountReceived, TabStep, TypeOK,
         countVars, rejectVars
<1>2. mReceived \in Counts /\ mFuture \in Counts /\ mExpired \in Counts
      /\ malformed \in Counts /\ mTotal \in Counts
  BY DEF TypeOK
<1>3. CASE CheckTimes /\ tabPc' # "push"
  <2>1. UNCHANGED <<countVars, malformed>> /\ tabPc = "times"
        /\ tabPc' \in {"future", "expired", "valid"}
    BY <1>3 DEF CheckTimes, TabStep
  <2>2. TypeOK' /\ TotalsAddUp'
    BY <1>1, <2>1
       DEF TypeOK, TotalsAddUp, countVars, obsVars, winVars, windowVars
  <2>3. ReportAddsUp' /\ PartsRead'
    BY <1>1, <2>1 DEF ReportAddsUp, PartsRead, obsVars, countVars
  <2>4. QED
    BY <2>2, <2>3
<1>4. CASE CheckTimes /\ tabPc' = "push"
  <2>1. UNCHANGED countVars /\ tabPc = "times" /\ malformed' = Increment(malformed)
    BY <1>4 DEF CheckTimes, TabStep
  <2>2. /\ malformed' \in Counts
        /\ \A s \in Streams :
             malformed'[s] = IF s = key THEN malformed[s] + 1 ELSE malformed[s]
    BY <1>1, <1>2, <2>1, IncrementOne
  <2>3. TypeOK'
    BY <1>1, <1>4, <2>1, <2>2 DEF TypeOK, countVars, obsVars, winVars, windowVars
  <2>4. TotalsAddUp'
    BY <1>1, <1>2, <1>4, <2>1, <2>2 DEF TotalsAddUp, countVars, Counts
  <2>5. ReportAddsUp' /\ PartsRead'
    BY <1>1, <2>1 DEF ReportAddsUp, PartsRead, obsVars, countVars
  <2>6. QED
    BY <2>3, <2>4, <2>5
<1>5. CASE CountFuture
  <2>1. UNCHANGED <<mReceived, mExpired, malformed>> /\ tabPc = "future"
        /\ tabPc' = "push" /\ mFuture' = Increment(mFuture)
    BY <1>5 DEF CountFuture, TabStep, rejectVars
  <2>2. /\ mFuture' \in Counts
        /\ \A s \in Streams :
             mFuture'[s] = IF s = key THEN mFuture[s] + 1 ELSE mFuture[s]
    BY <1>1, <1>2, <2>1, IncrementOne
  <2>3. TypeOK'
    BY <1>1, <2>1, <2>2 DEF TypeOK, obsVars, winVars, windowVars
  <2>4. TotalsAddUp'
    <3>1. SUFFICES ASSUME NEW s \in Streams
                   PROVE  mTotal[s] = mReceived[s] + mFuture'[s] + mExpired[s]
                                      + malformed[s] + 0
      BY <1>1, <2>1 DEF TotalsAddUp
    <3>2. mTotal[s] = mReceived[s] + mFuture[s] + mExpired[s] + malformed[s]
                      + (IF key = s THEN 1 ELSE 0)
      BY <2>1 DEF TotalsAddUp
    <3>3. mReceived[s] \in Nat /\ mFuture[s] \in Nat /\ mExpired[s] \in Nat
          /\ malformed[s] \in Nat
      BY <1>2 DEF Counts
    <3>4. mFuture'[s] = mFuture[s] + (IF key = s THEN 1 ELSE 0)
      BY <2>2, <3>3
    <3>5. QED
      BY <3>2, <3>3, <3>4
  <2>5. ReportAddsUp' /\ PartsRead'
    BY <1>1, <1>2, <2>1, <2>2 DEF ReportAddsUp, PartsRead, obsVars, TypeOK, Counts
  <2>6. QED
    BY <2>3, <2>4, <2>5
<1>6. CASE CountExpired
  <2>1. UNCHANGED <<mReceived, mFuture, malformed>> /\ tabPc = "expired"
        /\ tabPc' = "push" /\ mExpired' = Increment(mExpired)
    BY <1>6 DEF CountExpired, TabStep, rejectVars
  <2>2. /\ mExpired' \in Counts
        /\ \A s \in Streams :
             mExpired'[s] = IF s = key THEN mExpired[s] + 1 ELSE mExpired[s]
    BY <1>1, <1>2, <2>1, IncrementOne
  <2>3. TypeOK'
    BY <1>1, <2>1, <2>2 DEF TypeOK, obsVars, winVars, windowVars
  <2>4. TotalsAddUp'
    BY <1>1, <1>2, <2>1, <2>2 DEF TotalsAddUp, Counts
  <2>5. ReportAddsUp' /\ PartsRead'
    BY <1>1, <1>2, <2>1, <2>2 DEF ReportAddsUp, PartsRead, obsVars, TypeOK, Counts
  <2>6. QED
    BY <2>3, <2>4, <2>5
<1>7. CASE CountReceived
  <2>1. UNCHANGED <<mFuture, mExpired, malformed>> /\ tabPc = "valid"
        /\ tabPc' = "window" /\ mReceived' = Increment(mReceived)
    BY <1>7 DEF CountReceived, TabStep, rejectVars
  <2>2. /\ mReceived' \in Counts
        /\ \A s \in Streams :
             mReceived'[s] = IF s = key THEN mReceived[s] + 1 ELSE mReceived[s]
    BY <1>1, <1>2, <2>1, IncrementOne
  <2>3. TypeOK'
    BY <1>1, <2>1, <2>2 DEF TypeOK, obsVars, winVars, windowVars
  <2>4. TotalsAddUp'
    BY <1>1, <1>2, <2>1, <2>2 DEF TotalsAddUp, Counts
  <2>5. ReportAddsUp' /\ PartsRead'
    BY <1>1, <1>2, <2>1, <2>2 DEF ReportAddsUp, PartsRead, obsVars, TypeOK, Counts
  <2>6. QED
    BY <2>3, <2>4, <2>5
<1>8. QED
  BY <1>3, <1>4, <1>5, <1>6, <1>7

\* The publisher, the windows thread and the passing of time count nothing here.
LEMMA AsideKeeps ==
  ASSUME CountInv,
         Send \/ WinNext \/ (\E s \in Streams : IntervalElapses(s))
  PROVE  CountInv'
<1> USE DEF CountInv
<1>1. UNCHANGED <<tabVars, countVars, obsVars>>
  BY DEF Send, WinNext, ReadClock, UpdateAndReset, ResetWindows, IntervalElapses
<1>2. TypeOK'
  <2>1. mSentPacketsCounter' \in Nat
    BY DEF Send, WinNext, ReadClock, UpdateAndReset, ResetWindows, IntervalElapses,
           TypeOK
  <2>2. due' \subseteq Streams /\ winDue' \subseteq Streams
        /\ winPc' \in {"loop", "update"}
    BY DEF Send, WinNext, ReadClock, UpdateAndReset, ResetWindows, IntervalElapses,
           TypeOK, windowVars, winVars
  <2>3. windows' \in Sets /\ averages' \in Sets /\ averaged' \in Sets
    <3>1. CASE UpdateAndReset
      BY <3>1 DEF UpdateAndReset, ResetWindows, TypeOK, Sets
    <3>2. CASE ~UpdateAndReset
      BY <3>2 DEF Send, WinNext, ReadClock, IntervalElapses, TypeOK, windowVars
    <3>3. QED
      BY <3>1, <3>2
  <2>4. QED
    BY <1>1, <2>1, <2>2, <2>3 DEF TypeOK, tabVars, rejectVars, countVars, obsVars
<1>3. TotalsAddUp' /\ ReportAddsUp' /\ PartsRead'
  BY <1>1 DEF TotalsAddUp, ReportAddsUp, PartsRead, tabVars, rejectVars, countVars,
              obsVars
<1>4. QED
  BY <1>2, <1>3

\* Each reading adds a counter that has only grown since, and the total read
\* last covers them all.
LEMMA ObserveKeeps ==
  ASSUME CountInv, ObsNext
  PROVE  CountInv'
<1> USE DEF CountInv
<1>1. UNCHANGED <<tabVars, countVars, windowVars, winVars, mSentPacketsCounter>>
  BY DEF ObsNext, ObserveValid, ObserveFuture, ObserveExpired, ObserveTotal,
         ObserveSent, ObsStep
<1>2. TypeOK'
  <2>1. obsPc' \in {"valid", "future", "expired", "total", "sent"}
        /\ seenSent' \in Nat
    BY DEF ObsNext, ObserveValid, ObserveFuture, ObserveExpired, ObserveTotal,
           ObserveSent, ObsStep, TypeOK
  <2>2. Zero \in Counts /\ \A f, g \in Counts : Plus(f, g) \in Counts
    BY DEF Zero, Plus, Counts
  <2>3. seenParts' \in Counts /\ seenTotal' \in Counts
    BY <2>2 DEF ObsNext, ObserveValid, ObserveFuture, ObserveExpired, ObserveTotal,
                ObserveSent, TypeOK
  <2>4. QED
    BY <1>1, <2>1, <2>3 DEF TypeOK, tabVars, rejectVars, countVars, windowVars,
                            winVars
<1>3. TotalsAddUp'
  BY <1>1 DEF TotalsAddUp, tabVars, rejectVars, countVars
<1>4. mReceived \in Counts /\ mFuture \in Counts /\ mExpired \in Counts
      /\ malformed \in Counts /\ mTotal \in Counts /\ seenParts \in Counts
  BY DEF TypeOK
<1>5. PartsRead'
  <2>1. CASE ObserveValid
    BY <1>1, <1>4, <2>1 DEF ObserveValid, ObsStep, PartsRead, countVars, Counts
  <2>2. CASE ObserveFuture
    BY <1>1, <1>4, <2>2 DEF ObserveFuture, ObsStep, PartsRead, countVars, Counts, Plus
  <2>3. CASE ObserveExpired
    BY <1>1, <1>4, <2>3
       DEF ObserveExpired, ObsStep, PartsRead, countVars, Counts, Plus
  <2>4. CASE ObserveTotal \/ ObserveSent
    BY <2>4 DEF ObserveTotal, ObserveSent, ObsStep, PartsRead
  <2>5. QED
    BY <2>1, <2>2, <2>3, <2>4 DEF ObsNext
<1>6. ReportAddsUp'
  <2>1. CASE ObserveTotal
    <3>1. obsPc = "total" /\ seenParts' = seenParts /\ seenTotal' = mTotal
      BY <2>1 DEF ObserveTotal, ObsStep
    <3>2. SUFFICES ASSUME NEW s \in Streams PROVE seenParts[s] <= mTotal[s]
      BY <3>1 DEF ReportAddsUp
    <3>3. seenParts[s] <= mReceived[s] + mFuture[s] + mExpired[s]
      BY <3>1 DEF PartsRead
    <3>4. \/ mTotal[s] = mReceived[s] + mFuture[s] + mExpired[s] + malformed[s]
          \/ mTotal[s] = mReceived[s] + mFuture[s] + mExpired[s] + malformed[s] + 1
      BY <1>4 DEF TotalsAddUp, Counts
    <3>5. /\ seenParts[s] \in Nat /\ mReceived[s] \in Nat /\ mFuture[s] \in Nat
          /\ mExpired[s] \in Nat /\ malformed[s] \in Nat
      BY <1>4 DEF Counts
    <3>6. QED
      BY <3>3, <3>4, <3>5
  <2>2. CASE ~ObserveTotal
    BY <2>2 DEF ObsNext, ObserveValid, ObserveFuture, ObserveExpired, ObserveSent,
                ObsStep, ReportAddsUp
  <2>3. QED
    BY <2>1, <2>2
<1>7. QED
  BY <1>2, <1>3, <1>5, <1>6

LEMMA CountInvKept == CountInv /\ [Next]_metricsVars => CountInv'
<1> SUFFICES ASSUME CountInv, [Next]_metricsVars PROVE CountInv'
  OBVIOUS
<1>1. CASE TabNext
  BY <1>1, PassingKeeps, CountTotalKeeps, VerdictKeeps DEF TabNext
<1>2. CASE Send \/ WinNext \/ (\E s \in Streams : IntervalElapses(s))
  BY <1>2, AsideKeeps
<1>3. CASE ObsNext
  BY <1>3, ObserveKeeps
<1>4. CASE UNCHANGED metricsVars
  BY <1>4 DEF metricsVars, CountInv, TypeOK, TotalsAddUp, ReportAddsUp, PartsRead,
              tabVars, rejectVars, countVars, windowVars, winVars, obsVars
<1>5. QED
  BY <1>1, <1>2, <1>3, <1>4 DEF Next

LEMMA CountInvAlways == Spec => []CountInv
  BY CountInvInit, CountInvKept, PTL DEF Spec

\* Types of the counters, the windows and the reports.
THEOREM MetricsTypesCorrect == Spec => []TypeOK
<1>1. CountInv => TypeOK
  BY DEF CountInv
<1>2. QED
  BY <1>1, CountInvAlways, PTL

\* Whatever the threads do, the counters of a stream add up to its total.
THEOREM CountersAddUp == Spec => []TotalsAddUp
<1>1. CountInv => TotalsAddUp
  BY DEF CountInv
<1>2. QED
  BY <1>1, CountInvAlways, PTL

\* The exporter never reports more valid, future and expired packets of a
\* stream than packets, although it reads the counters at different moments.
THEOREM ReportsAddUp == Spec => []ReportAddsUp
<1>1. CountInv => ReportAddsUp
  BY DEF CountInv
<1>2. QED
  BY <1>1, CountInvAlways, PTL

-----------------------------------------------------------------------------
(* The windows. *)

\* The packets of a window and of the averages before it.
Tabulated(s) == windows[s] \cup averaged[s]

LEMMA WindowInvInit == Init => WindowInv
  BY FS_EmptySet DEF Init, WindowInv, OneWindowEach, WindowsHoldThePast, Zero, Empty

LEMMA FiniteBelow ==
  ASSUME NEW n \in Nat, NEW T, T \subseteq 1..n
  PROVE  IsFiniteSet(T) /\ Cardinality(T) \in Nat
<1>1. IsFiniteSet(1..n)
  BY FS_Interval
<1>2. IsFiniteSet(T)
  BY <1>1, FS_Subset
<1>3. QED
  BY <1>2, FS_CardinalityType

\* Steps that leave the windows alone, and the counters of the valid packets.
LEMMA WindowsUntouched ==
  ASSUME TypeOK, WindowInv,
         UNCHANGED <<windows, averaged, mReceived, unsummed>>,
         tabPc # "window", tabPc' # "window",
         \/ /\ UNCHANGED mReceivedPacketsCounter
            /\ tabPc = "pop" => tabPc' = "pop"
            /\ tabPc = "push" => tabPc' \in {"push", "pop"}
         \/ mReceivedPacketsCounter' = mReceivedPacketsCounter + 1
  PROVE  WindowInv'
<1>1. OneWindowEach'
  BY DEF WindowInv, OneWindowEach
<1>2. WindowsHoldThePast'
  <2>0. tabPc' # "pop" => mReceivedPacketsCounter' # 0
    BY DEF WindowInv, WindowsHoldThePast, TypeOK
  <2>1. SUFFICES ASSUME NEW s \in Streams
                 PROVE  /\ Tabulated(s) \subseteq 1..mReceivedPacketsCounter'
                        /\ tabPc' \notin {"pop", "push"}
                             => mReceivedPacketsCounter' \notin Tabulated(s)
    BY <2>0 DEF WindowsHoldThePast, Tabulated
  <2>2. /\ Tabulated(s) \subseteq 1..mReceivedPacketsCounter
        /\ tabPc \notin {"pop", "push"} => mReceivedPacketsCounter \notin Tabulated(s)
    BY DEF WindowInv, WindowsHoldThePast, Tabulated
  <2>3. mReceivedPacketsCounter \in Nat
    BY DEF TypeOK
  <2>4. QED
    BY <2>2, <2>3
<1>3. QED
  BY <1>1, <1>2 DEF WindowInv

\* The packet just counted is the one the window waits for.
LEMMA CountReceivedKeeps ==
  ASSUME TypeOK, WindowInv, CountReceived
  PROVE  WindowInv'
<1>1. /\ UNCHANGED <<windows, averaged, mReceivedPacketsCounter, key, unsummed>>
      /\ tabPc = "valid" /\ tabPc' = "window" /\ key \in Streams
      /\ mReceived' = Increment(mReceived)
  BY DEF CountReceived, TabStep, windowVars, rejectVars, TypeOK
<1>2. \A s \in Streams :
        mReceived'[s] = IF s = key THEN mReceived[s] + 1 ELSE mReceived[s]
  BY <1>1, IncrementOne DEF TypeOK
<1>3. WindowsHoldThePast'
  BY <1>1 DEF WindowInv, WindowsHoldThePast
<1>4. OneWindowEach'
  <2>1. SUFFICES ASSUME NEW s \in Streams
                 PROVE  mReceived'[s] = Cardinality(windows[s] \cup averaged[s])
                                        + unsummed[s] + (IF key = s THEN 1 ELSE 0)
    BY <1>1 DEF WindowInv, OneWindowEach
  <2>2. mReceived[s] = Cardinality(windows[s] \cup averaged[s]) + unsummed[s] + 0
    BY <1>1 DEF WindowInv, OneWindowEach
  <2>3. mReceived[s] \in Nat /\ unsummed[s] \in Nat
    BY DEF TypeOK, Counts
  <2>4. Cardinality(windows[s] \cup averaged[s]) \in Nat
    <3>1. windows[s] \cup averaged[s] \subseteq 1..mReceivedPacketsCounter
      BY DEF WindowInv, WindowsHoldThePast
    <3>2. QED
      BY <3>1, FiniteBelow DEF TypeOK
  <2>5. QED
    BY <1>2, <2>2, <2>3, <2>4
<1>5. QED
  BY <1>3, <1>4 DEF WindowInv

\* The packet enters the window, which did not hold it, or its sums throw and it
\* is written off.
LEMMA UpdateWindowKeeps ==
  ASSUME TypeOK, WindowInv, UpdateWindow
  PROVE  WindowInv'
<1>1. /\ UNCHANGED <<averaged, mReceivedPacketsCounter, key, mReceived>>
      /\ tabPc = "window" /\ tabPc' = "push" /\ key \in Streams
  BY DEF UpdateWindow, TabStep, countVars, TypeOK
<1>2. \A s \in Streams : Tabulated(s) \subseteq 1..mReceivedPacketsCounter
                         /\ mReceivedPacketsCounter \notin Tabulated(s)
  BY <1>1 DEF WindowInv, WindowsHoldThePast, Tabulated
<1>3. mReceivedPacketsCounter \in 1..mReceivedPacketsCounter
  BY <1>1 DEF WindowInv, WindowsHoldThePast, TypeOK
<1>4. ASSUME NEW s \in Streams
      PROVE  /\ windows[s] \cap averaged[s] = {}
             /\ mReceived[s] = Cardinality(Tabulated(s)) + unsummed[s]
                               + (IF s = key THEN 1 ELSE 0)
             /\ IsFiniteSet(Tabulated(s)) /\ Cardinality(Tabulated(s)) \in Nat
             /\ unsummed[s] \in Nat
  <2>1. IsFiniteSet(Tabulated(s)) /\ Cardinality(Tabulated(s)) \in Nat
    BY <1>2, FiniteBelow DEF TypeOK
  <2>2. unsummed[s] \in Nat
    BY DEF TypeOK, Counts
  <2>3. QED
    BY <1>1, <2>1, <2>2 DEF WindowInv, OneWindowEach, Tabulated
<1>5. CASE /\ windows' = [windows EXCEPT ![key] = @ \cup {mReceivedPacketsCounter}]
           /\ UNCHANGED unsummed
  <2>1. \A s \in Streams :
          windows'[s] = IF s = key THEN windows[s] \cup {mReceivedPacketsCounter}
                                   ELSE windows[s]
    BY <1>1, <1>5 DEF TypeOK, Sets
  <2>2. WindowsHoldThePast'
    <3>1. \A s \in Streams : windows'[s] \cup averaged'[s] \subseteq
                              1..mReceivedPacketsCounter
      BY <1>1, <1>2, <1>3, <2>1 DEF Tabulated
    <3>2. mReceivedPacketsCounter # 0
      BY <1>1 DEF WindowInv, WindowsHoldThePast
    <3>3. QED
      BY <1>1, <3>1, <3>2 DEF WindowsHoldThePast
  <2>3. OneWindowEach'
    <3> SUFFICES ASSUME NEW s \in Streams
                 PROVE  /\ windows'[s] \cap averaged[s] = {}
                        /\ mReceived[s] = Cardinality(windows'[s] \cup averaged[s])
                                          + unsummed[s] + 0
      BY <1>1, <1>5 DEF OneWindowEach
    <3>1. windows'[s] \cap averaged[s] = {}
      BY <1>2, <1>4, <2>1 DEF Tabulated
    <3>2. CASE s = key
      <4>1. windows'[s] \cup averaged[s] = Tabulated(s) \cup {mReceivedPacketsCounter}
        BY <2>1, <3>2 DEF Tabulated
      <4>2. Cardinality(windows'[s] \cup averaged[s]) = Cardinality(Tabulated(s)) + 1
        BY <1>2, <1>4, <4>1, FS_AddElement
      <4>3. QED
        BY <1>4, <3>1, <3>2, <4>2
    <3>3. CASE s # key
      <4>1. windows'[s] \cup averaged[s] = Tabulated(s)
        BY <2>1, <3>3 DEF Tabulated
      <4>2. QED
        BY <1>4, <3>1, <3>3, <4>1
    <3>4. QED
      BY <3>2, <3>3
  <2>4. QED
    BY <2>2, <2>3 DEF WindowInv
<1>6. CASE unsummed' = Increment(unsummed) /\ UNCHANGED windows
  <2>1. WindowsHoldThePast'
    BY <1>1, <1>2, <1>6 DEF WindowInv, WindowsHoldThePast, Tabulated
  <2>2. OneWindowEach'
    <3> SUFFICES ASSUME NEW s \in Streams
                 PROVE  /\ windows[s] \cap averaged[s] = {}
                        /\ mReceived[s] = Cardinality(Tabulated(s))
                                          + unsummed'[s] + 0
      BY <1>1, <1>4, <1>6 DEF OneWindowEach, Tabulated
    <3>1. unsummed'[s] = unsummed[s] + (IF s = key THEN 1 ELSE 0)
      <4>1. unsummed'[s] = IF s = key THEN unsummed[s] + 1 ELSE unsummed[s]
        BY <1>1, <1>6, IncrementOne DEF TypeOK
      <4>2. QED
        BY <1>4, <4>1
    <3>2. QED
      BY <1>4, <3>1
  <2>3. QED
    BY <2>1, <2>2 DEF WindowInv
<1>7. QED
  BY <1>5, <1>6 DEF UpdateWindow

\* A window that becomes an average moves its packets and loses none.
LEMMA UpdateAndResetKeeps ==
  ASSUME TypeOK, WindowInv, UpdateAndReset
  PROVE  WindowInv'
<1>1. UNCHANGED <<tabPc, key, mReceived, mReceivedPacketsCounter, unsummed>>
  BY DEF UpdateAndReset, ResetWindows, tabVars, rejectVars, countVars
<1>2. \A s \in Streams :
        \/ windows'[s] = windows[s] /\ averaged'[s] = averaged[s]
        \/ windows'[s] = {} /\ averaged'[s] = averaged[s] \cup windows[s]
  BY DEF UpdateAndReset, ResetWindows
<1>3. \A s \in Streams : windows'[s] \cup averaged'[s] = windows[s] \cup averaged[s]
  BY <1>2
<1>4. \A s \in Streams : windows'[s] \cap averaged'[s] = {}
  BY <1>2 DEF WindowInv, OneWindowEach
<1>5. QED
  BY <1>1, <1>3, <1>4 DEF WindowInv, OneWindowEach, WindowsHoldThePast

LEMMA WindowInvKept == TypeOK /\ WindowInv /\ [Next]_metricsVars => WindowInv'
<1> SUFFICES ASSUME TypeOK, WindowInv, [Next]_metricsVars PROVE WindowInv'
  OBVIOUS
<1>1. CASE Receive \/ CountTotal \/ CheckTimes \/ CountFuture \/ CountExpired \/ Forward
  <2>1. UNCHANGED <<windows, averaged, mReceived, unsummed>>
    BY <1>1 DEF Receive, CountTotal, CheckTimes, CountFuture, CountExpired, Forward,
                windowVars, countVars, rejectVars
  <2>2. tabPc # "window" /\ tabPc' # "window"
    BY <1>1 DEF Receive, CountTotal, CheckTimes, CountFuture, CountExpired, Forward,
                TabStep
  <2>3. \/ /\ UNCHANGED mReceivedPacketsCounter
           /\ tabPc = "pop" => tabPc' = "pop"
           /\ tabPc = "push" => tabPc' \in {"push", "pop"}
        \/ mReceivedPacketsCounter' = mReceivedPacketsCounter + 1
    BY <1>1 DEF Receive, CountTotal, CheckTimes, CountFuture, CountExpired, Forward,
                TabStep
  <2>4. QED
    BY <2>1, <2>2, <2>3, WindowsUntouched
<1>2. CASE CountReceived
  BY <1>2, CountReceivedKeeps
<1>3. CASE UpdateWindow
  BY <1>3, UpdateWindowKeeps
<1>4. CASE UpdateAndReset
  BY <1>4, UpdateAndResetKeeps
<1>5. CASE \/ Send \/ ReadClock \/ ObsNext \/ UNCHANGED metricsVars
           \/ (\E s \in Streams : IntervalElapses(s))
  <2>1. UNCHANGED <<windows, averaged, mReceived, tabVars>>
    BY <1>5 DEF Send, ReadClock, IntervalElapses, ObsNext, ObserveValid,
                ObserveFuture, ObserveExpired, ObserveTotal, ObserveSent, ObsStep,
                metricsVars, windowVars, countVars
  <2>2. QED
    BY <2>1 DEF tabVars, rejectVars, WindowInv, OneWindowEach, WindowsHoldThePast
<1>6. QED
  BY <1>1, <1>2, <1>3, <1>4, <1>5 DEF Next, TabNext, WinNext

\* Every valid packet enters one average and only one, whatever the
\* interleaving of the tabulator and the windows thread.
THEOREM AveragedOnce == Spec => []OneWindowEach
<1>1. CountInv => TypeOK
  BY DEF CountInv
<1>2. WindowInv => OneWindowEach
  BY DEF WindowInv
<1>3. QED
  BY <1>1, <1>2, CountInvAlways, WindowInvInit, WindowInvKept, PTL DEF Spec
=============================================================================
