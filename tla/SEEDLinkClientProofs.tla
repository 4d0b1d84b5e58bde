------------------------- MODULE SEEDLinkClientProofs -------------------------
(***************************************************************************)
(* Proofs about the state file, for every save interval and any number of  *)
(* kills, restarts and reconnects.                                         *)
(***************************************************************************)
EXTENDS SEEDLinkClient, TLAPS

LEMMA ClientInvInit == Init => ClientInv
<1> SUFFICES ASSUME Init PROVE ClientInv
  OBVIOUS
<1>1. TypeOK
  <2>1. useStateFile \in BOOLEAN /\ deleteOnStart \in BOOLEAN
        /\ deleteOnStop \in BOOLEAN /\ running \in BOOLEAN
        /\ uniStation \in BOOLEAN
    BY DEF Init
  <2>2. selectors \in Nat /\ tried \in Nat /\ streams \in Nat
    BY ClientAssumption DEF Init
  <2>3. file \in Nat \cup {Absent}
    BY DEF Init
  <2>4. produced \in Nat /\ cursor \in Nat /\ position \in Nat /\ hand \in Nat
        /\ updateStateFile \in 1..(Interval + 1) /\ since \in Nat
        /\ handled \in SUBSET Nat
    BY ClientAssumption DEF Init, Unset
  <2>5. pc = "down"
    BY DEF Init
  <2>6. QED
    BY <2>1, <2>2, <2>3, <2>4, <2>5 DEF TypeOK, ConfigTypeOK
<1> USE ClientAssumption DEF Init, Absent, Unset
<1>2. SavedMeansHandled /\ NothingSkipped /\ BoundedReplay
  BY DEF SavedMeansHandled, NothingSkipped, BoundedReplay
<1>3. PositionsAgree
  BY DEF PositionsAgree
<1>4. FreshIsUnsaved
  BY DEF FreshIsUnsaved
<1>5. CounterBounds
  BY DEF CounterBounds
<1>6. QED
  BY <1>1, <1>2, <1>3, <1>4, <1>5 DEF ClientInv

\* Construction: only the file can change, and only by going away.
LEMMA ConfiguringKeeps ==
  ASSUME ClientInv, Initialize \/ AddSelector \/ Start
  PROVE  ClientInv'
<1> USE DEF ClientInv
<1>1. /\ pc \in {"down", "configuring"} /\ pc' \in {"configuring", "recover"}
      /\ file' \in {file, Absent} /\ useStateFile' = useStateFile
      /\ UNCHANGED <<produced, cursor, position, hand, updateStateFile, handled,
                     since>>
  BY DEF Initialize, AddSelector, Start, Step, optionVars
<1>2. TypeOK'
  <2>1. ConfigTypeOK'
    <3> USE DEF TypeOK, ConfigTypeOK, Step, optionVars, configVars
    <3>1. CASE Initialize
      BY <3>1 DEF Initialize
    <3>2. CASE AddSelector
      BY <3>2 DEF AddSelector
    <3>3. CASE Start
      BY <3>3 DEF Start
    <3>4. QED
      BY <3>1, <3>2, <3>3
  <2>2. QED
    BY <1>1, <2>1 DEF TypeOK
<1>3. position = Unset /\ cursor = 0 /\ hand = 0
  BY <1>1 DEF PositionsAgree
<1>4. SavedMeansHandled' /\ NothingSkipped' /\ BoundedReplay'
  BY <1>1, <1>3 DEF SavedMeansHandled, NothingSkipped, BoundedReplay, Absent, Unset
<1>5. PositionsAgree'
  BY <1>1, <1>3 DEF PositionsAgree, Unset
<1>6. FreshIsUnsaved'
  BY <1>1, <1>3 DEF FreshIsUnsaved
<1>7. CounterBounds'
  BY <1>1, <1>3 DEF CounterBounds, Unset
<1>8. QED
  BY <1>2, <1>4, <1>5, <1>6, <1>7

\* Stop, the polling thread and the outside leave the configuration alone.
LEMMA ConfigKept ==
  ASSUME ConfigTypeOK, UNCHANGED <<optionVars, configVars, running>>
  PROVE  ConfigTypeOK'
  BY DEF ConfigTypeOK, optionVars, configVars

\* A recovered number is a saved one, so what lies before it was handled.
LEMMA RecoverKeeps ==
  ASSUME ClientInv, RecoverState
  PROVE  ClientInv'
<1> USE ClientAssumption DEF ClientInv
<1>1. /\ pc = "recover" /\ pc' \in {"loop", "threw"}
      /\ position = Unset /\ cursor = 0 /\ hand = 0
      /\ position' = Unset \/ (position' = file /\ file # Absent)
      /\ pc' = "loop" /\ position' = Unset => ~useStateFile \/ file \in {Absent, Unset}
      /\ updateStateFile' = 1
      /\ UNCHANGED <<optionVars, configVars, running, useStateFile, produced, file,
                     cursor, hand, handled, since>>
  BY DEF RecoverState, Step, ThreadUnchanged, optionVars, PositionsAgree
<1>2. file \in Nat \cup {Absent} /\ (~useStateFile => file = Absent)
  BY DEF TypeOK, FreshIsUnsaved
<1>3. position' \in Nat
  BY <1>1, <1>2 DEF Unset
<1>4. TypeOK'
  BY <1>1, <1>2, <1>3, ConfigKept DEF TypeOK
<1>5. SavedMeansHandled' /\ BoundedReplay'
  BY <1>1 DEF SavedMeansHandled, BoundedReplay
<1>6. position' > Unset =>
        since \in 1..file /\ since..file \subseteq handled /\ position' = file
  BY <1>1 DEF SavedMeansHandled, Unset
<1>7. NothingSkipped'
  BY <1>1, <1>6 DEF NothingSkipped
<1>8. handled \subseteq 1..produced /\ produced \in Nat
  BY DEF PositionsAgree, TypeOK
<1>9. position' <= produced
  <2>1. CASE position' = Unset
    BY <1>8, <2>1 DEF Unset
  <2>2. CASE position' # Unset
    <3>1. position' > Unset
      BY <1>3, <2>2 DEF Unset
    <3>2. file \in since..file /\ position' = file
      BY <1>6, <1>3, <3>1
    <3>3. QED
      BY <1>6, <1>8, <3>1, <3>2
  <2>3. QED
    BY <2>1, <2>2
<1>10. PositionsAgree'
  BY <1>1, <1>9 DEF PositionsAgree
<1>11. FreshIsUnsaved'
  BY <1>1, <1>2 DEF FreshIsUnsaved, Absent, Unset
<1>12. CounterBounds'
  BY <1>1, <1>2, <1>6, <1>8 DEF CounterBounds, BoundedReplay, Unset, Absent
<1>13. QED
  BY <1>4, <1>5, <1>7, <1>10, <1>11, <1>12

\* A numbering begins only where nothing is saved and nothing is younger.
LEMMA ConnectKeeps ==
  ASSUME ClientInv, Connect
  PROVE  ClientInv'
<1> USE DEF ClientInv
<1>1. /\ pc = "collect" /\ pc' = "collect" /\ cursor = 0 /\ hand = 0
      /\ cursor' = (IF position = Unset THEN produced ELSE position) + 1
      /\ since' = IF position = Unset THEN cursor' ELSE since
      /\ UNCHANGED <<optionVars, configVars, running, useStateFile, produced, file,
                     position, hand, updateStateFile, handled>>
  BY DEF Connect, Step, ThreadUnchanged, optionVars, PositionsAgree
<1>2. /\ produced \in Nat /\ position \in Nat /\ position <= produced
      /\ handled \subseteq 1..produced /\ since \in Nat
  BY DEF TypeOK, PositionsAgree
<1>3. position = Unset => file \in {Absent, Unset} /\ since' = produced + 1
  BY <1>1 DEF FreshIsUnsaved, TypeOK, Absent, Unset
<1>4. position # Unset => since' = since /\ cursor' = position + 1
  BY <1>1
<1>5. TypeOK'
  BY <1>1, <1>2, ConfigKept DEF TypeOK
<1>6. SavedMeansHandled' /\ BoundedReplay'
  BY <1>1, <1>3, <1>4 DEF SavedMeansHandled, BoundedReplay, Absent, Unset
<1>7. NothingSkipped'
  BY <1>1, <1>4 DEF NothingSkipped, Unset
<1>8. PositionsAgree'
  BY <1>1, <1>2, <1>3, <1>4 DEF PositionsAgree, Unset
<1>9. FreshIsUnsaved'
  BY <1>1, <1>2, <1>3 DEF FreshIsUnsaved, Unset
<1>10. CounterBounds'
  BY <1>1, <1>4 DEF CounterBounds, Unset
<1>11. QED
  BY <1>5, <1>6, <1>7, <1>8, <1>9, <1>10

\* The payload received is the one behind the last.
LEMMA CollectKeeps ==
  ASSUME ClientInv, Collect
  PROVE  ClientInv'
<1> USE ClientAssumption DEF ClientInv
<1>1. /\ pc = "collect" /\ pc' = "convert" /\ hand = 0 /\ cursor \in 1..produced
      /\ position' = cursor /\ hand' = cursor /\ cursor' = cursor + 1
      /\ UNCHANGED <<optionVars, configVars, running, useStateFile, produced, file,
                     updateStateFile, handled, since>>
  BY DEF Collect, Step, ThreadUnchanged, optionVars, PositionsAgree
<1>2. /\ produced \in Nat /\ position \in Nat /\ cursor \in Nat /\ since \in Nat
      /\ file \in Nat \cup {Absent} /\ handled \subseteq Nat
      /\ updateStateFile \in 1..(Interval + 1)
      /\ cursor = IF position = Unset THEN since ELSE position + 1
  BY <1>1 DEF TypeOK, PositionsAgree, CounterBounds
<1>3. position = Unset => file <= Unset /\ \A p \in handled : p < since
  BY <1>1, <1>2 DEF FreshIsUnsaved, TypeOK
<1>4. position # Unset =>
        since \in 1..position /\ since..position \subseteq handled \cup {0}
  BY <1>1, <1>2 DEF NothingSkipped, Unset
<1>5. TypeOK'
  BY <1>1, <1>2, ConfigKept DEF TypeOK
<1>6. SavedMeansHandled' /\ BoundedReplay'
  BY <1>1 DEF SavedMeansHandled, BoundedReplay
<1>7. NothingSkipped'
  <2>1. since \in 1..cursor
    BY <1>1, <1>2, <1>4 DEF Unset
  <2>2. \A p \in since..cursor : p \in handled \cup {cursor}
    BY <1>1, <1>2, <1>4 DEF Unset
  <2>3. QED
    BY <1>1, <2>1, <2>2 DEF NothingSkipped
<1>8. PositionsAgree'
  BY <1>1, <1>2 DEF PositionsAgree, Unset
<1>9. FreshIsUnsaved'
  BY <1>1, <1>2 DEF FreshIsUnsaved, Unset
<1>10. file > Unset => position # Unset /\ position < file + updateStateFile
  BY <1>1, <1>3, <1>2 DEF CounterBounds, Unset, Absent
<1>11. file > Unset => cursor <= file + updateStateFile
  BY <1>1, <1>2, <1>10 DEF Unset
<1>12. \A p \in handled : p >= since => p <= cursor + Interval + 1
  <2>1. CASE position = Unset
    BY <1>2, <1>3, <2>1
  <2>2. CASE position # Unset
    BY <1>2, <2>2 DEF CounterBounds, Unset
  <2>3. QED
    BY <2>1, <2>2
<1>13. CounterBounds'
  BY <1>1, <1>2, <1>11, <1>12 DEF CounterBounds
<1>14. QED
  BY <1>5, <1>6, <1>7, <1>8, <1>9, <1>13

\* What was in hand is now handled, and at most Interval + 1 behind the file.
LEMMA ConvertKeeps ==
  ASSUME ClientInv, Convert
  PROVE  ClientInv'
<1> USE ClientAssumption DEF ClientInv
<1>1. /\ pc = "convert" /\ pc' = IF useStateFile THEN "interval" ELSE "loop"
      /\ handled' = handled \cup {hand} /\ hand' = 0
      /\ hand = position /\ hand # 0 /\ hand <= produced
      /\ UNCHANGED <<optionVars, configVars, running, useStateFile, produced, file,
                     cursor, position, updateStateFile, since>>
  BY DEF Convert, Step, ThreadUnchanged, optionVars, PositionsAgree
<1>2. /\ produced \in Nat /\ position \in Nat /\ since \in Nat /\ hand \in Nat
      /\ file \in Nat \cup {Absent} /\ handled \subseteq Nat
      /\ updateStateFile \in 1..(Interval + 1)
  BY DEF TypeOK, CounterBounds
<1>3. since \in 1..position /\ since..position \subseteq handled'
  BY <1>1, <1>2 DEF NothingSkipped, Unset
<1>4. file > Unset => position <= file + Interval + 1
  BY <1>1, <1>2 DEF CounterBounds, Unset, Absent
<1>5. TypeOK'
  BY <1>1, <1>2, ConfigKept DEF TypeOK
<1>6. SavedMeansHandled' /\ NothingSkipped'
  BY <1>1, <1>3 DEF SavedMeansHandled, NothingSkipped
<1>7. BoundedReplay'
  BY <1>1, <1>2, <1>4 DEF BoundedReplay, Unset, Absent
<1>8. PositionsAgree'
  BY <1>1, <1>2 DEF PositionsAgree, Unset
<1>9. FreshIsUnsaved'
  BY <1>1, <1>2 DEF FreshIsUnsaved, Unset
<1>10. ~useStateFile => file = Absent
  BY DEF FreshIsUnsaved
<1>11. CounterBounds'
  BY <1>1, <1>2, <1>10 DEF CounterBounds, Unset, Absent
<1>12. QED
  BY <1>5, <1>6, <1>7, <1>8, <1>9, <1>11

\* The save, or the count.
LEMMA UpdateKeeps ==
  ASSUME ClientInv, UpdateStateFile
  PROVE  ClientInv'
<1> USE ClientAssumption DEF ClientInv
<1>1. /\ pc = "interval" /\ pc' = "loop" /\ hand = 0 /\ useStateFile
      /\ file' = IF updateStateFile > Interval THEN position ELSE file
      /\ updateStateFile' = IF updateStateFile > Interval THEN 1
                                                          ELSE updateStateFile + 1
      /\ UNCHANGED <<optionVars, configVars, running, useStateFile, produced, cursor,
                     position, hand, handled, since>>
  BY DEF UpdateStateFile, Step, ThreadUnchanged, optionVars, PositionsAgree,
         FreshIsUnsaved
<1>2. /\ position \in Nat /\ position > Unset /\ since \in Nat
      /\ file \in Nat \cup {Absent} /\ handled \subseteq Nat
      /\ updateStateFile \in 1..(Interval + 1)
  BY <1>1 DEF TypeOK, CounterBounds, PositionsAgree
<1>3. since \in 1..position /\ since..position \subseteq handled
  BY <1>1, <1>2 DEF NothingSkipped, Unset
<1>4. TypeOK'
  BY <1>1, <1>2, ConfigKept DEF TypeOK
<1>5. SavedMeansHandled' /\ NothingSkipped'
  BY <1>1, <1>3 DEF SavedMeansHandled, NothingSkipped
<1>6. BoundedReplay'
  BY <1>1, <1>2 DEF BoundedReplay, CounterBounds
<1>7. PositionsAgree' /\ FreshIsUnsaved'
  BY <1>1, <1>2 DEF PositionsAgree, FreshIsUnsaved, Unset
<1>8. CounterBounds'
  BY <1>1, <1>2 DEF CounterBounds, Unset, Absent
<1>9. QED
  BY <1>4, <1>5, <1>6, <1>7, <1>8

\* What is at most one ahead of a number is at most one ahead of a larger one.
LEMMA StillBehind ==
  ASSUME NEW a \in Nat, NEW b \in Nat, NEW c \in Nat, c <= a + 1, a <= b
  PROVE  c <= b + 1 /\ 0 <= b + 1
  OBVIOUS

\* The end of the loop, the purge, the stop and the outside: the position stays
\* and the file goes at most away.
LEMMA OthersKeep ==
  ASSUME ClientInv,
         Poll \/ CollectsNothing \/ Leave \/ Stop \/ ServerProduces \/ NetworkFails
  PROVE  ClientInv'
<1> USE ClientAssumption DEF ClientInv
<1>1. /\ file' \in {file, Absent}
      /\ \/ pc' = pc
         \/ pc \in {"loop", "collect"} /\ pc' \in {"loop", "collect", "leaving"}
         \/ pc = "leaving" /\ pc' \in {"threw", "returned"}
      /\ cursor' \in {cursor, 0}
      /\ produced' \in {produced, produced + 1}
      /\ UNCHANGED <<optionVars, configVars, useStateFile, position, hand,
                     updateStateFile, handled, since>>
  BY DEF Poll, CollectsNothing, Leave, Stop, ServerProduces, NetworkFails, Step,
         ThreadUnchanged, optionVars
<1>2. running' = running \/ running' = FALSE
  BY DEF Poll, CollectsNothing, Leave, Stop, ServerProduces, NetworkFails, ThreadUnchanged
<1>3. ConfigTypeOK'
  BY <1>1, <1>2 DEF TypeOK, ConfigTypeOK, optionVars, configVars
<1>4. TypeOK'
  BY <1>1, <1>3 DEF TypeOK
<1>5. SavedMeansHandled' /\ NothingSkipped' /\ BoundedReplay'
  BY <1>1 DEF SavedMeansHandled, NothingSkipped, BoundedReplay, Absent, Unset
<1>6. PositionsAgree'
  <2>1. produced \in Nat /\ produced' \in Nat /\ produced <= produced'
        /\ cursor \in Nat /\ hand \in Nat /\ position \in Nat /\ handled \subseteq Nat
    BY <1>1 DEF TypeOK
  <2>2. hand' # 0 <=> pc' = "convert"
    BY <1>1 DEF PositionsAgree
  <2>3. /\ pc' = "interval" => position' > Unset
        /\ pc' \in {"down", "configuring", "recover"}
             => position' = Unset /\ cursor' = 0
        /\ hand' # 0 => hand' = position'
    BY <1>1, <2>1 DEF PositionsAgree
  <2>4. cursor' > 0 => cursor' = IF position' = Unset THEN since' ELSE position' + 1
    BY <1>1 DEF PositionsAgree
  <2>5. cursor' <= produced' + 1 /\ hand' <= produced' /\ position' <= produced'
        /\ handled' \subseteq 1..produced'
    <3>1. cursor <= produced + 1 /\ hand <= produced /\ position <= produced
      BY DEF PositionsAgree
    <3>2. produced \in Nat /\ produced' \in Nat /\ produced <= produced'
          /\ cursor \in Nat /\ hand \in Nat /\ position \in Nat
      BY <2>1
    <3>3. cursor <= produced' + 1 /\ 0 <= produced' + 1
      BY ONLY <3>1, <3>2, StillBehind
    <3>4. cursor' <= produced' + 1
      BY <1>1, <3>3
    <3>5. hand' <= produced' /\ position' <= produced'
      BY <1>1, <3>1, <3>2
    <3>6. 1..produced \subseteq 1..produced'
      BY <3>2
    <3>7. handled' \subseteq 1..produced'
      BY <1>1, <3>6 DEF PositionsAgree
    <3>8. QED
      BY <3>4, <3>5, <3>7
  <2>6. QED
    BY <2>2, <2>3, <2>4, <2>5 DEF PositionsAgree
<1>7. FreshIsUnsaved'
  BY <1>1 DEF FreshIsUnsaved, TypeOK, Absent, Unset
<1>8. CounterBounds'
  BY <1>1 DEF CounterBounds, Absent, Unset
<1>9. QED
  BY <1>4, <1>5, <1>6, <1>7, <1>8

\* A constructor that throws ends its life as a kill at that place does.
LEMMA ThrowIsCrash == InitializeThrows => Crash
BY DEF InitializeThrows, Crash

\* A kill leaves the file, an ordinary end puts the position into it.
LEMMA ForgetKeeps ==
  ASSUME ClientInv, Disconnect \/ Crash
  PROVE  ClientInv'
<1> USE ClientAssumption DEF ClientInv
<1>1. /\ pc' = "down" /\ running' = FALSE /\ cursor' = 0 /\ tried' = 0
      /\ streams' = 0 /\ uniStation' = FALSE /\ position' = Unset /\ hand' = 0
      /\ updateStateFile' = 1 /\ UNCHANGED <<optionVars, produced, handled, since>>
  BY DEF Disconnect, Crash, Forget
<1>2. file' = file \/ (useStateFile /\ file' = position /\ hand = 0)
  BY DEF Disconnect, Crash, PositionsAgree
<1>3. useStateFile' = useStateFile
  BY <1>1 DEF optionVars
<1>4. file' \in Nat \cup {Absent}
  BY <1>2 DEF TypeOK
<1>5. TypeOK'
  <2>1. ConfigTypeOK'
    <3>1. selectors' \in Nat /\ tried' \in Nat /\ streams' \in Nat
      BY <1>1 DEF TypeOK, ConfigTypeOK, optionVars
    <3>2. UNCHANGED optionVars /\ running' = FALSE /\ uniStation' = FALSE
      BY <1>1
    <3>3. QED
      BY <3>1, <3>2 DEF TypeOK, ConfigTypeOK, optionVars
  <2>2. QED
    BY <1>1, <1>4, <2>1 DEF TypeOK, Unset
<1>6. SavedMeansHandled'
  <2>1. CASE file' = file
    BY <1>1, <2>1 DEF SavedMeansHandled
  <2>2. CASE file' = position /\ hand = 0
    BY <1>1, <2>2 DEF NothingSkipped, SavedMeansHandled, TypeOK, Unset
  <2>3. QED
    BY <1>2, <2>1, <2>2
<1>7. BoundedReplay'
  BY <1>1, <1>2 DEF BoundedReplay, CounterBounds, TypeOK
<1>8. NothingSkipped' /\ PositionsAgree'
  BY <1>1 DEF NothingSkipped, PositionsAgree, TypeOK, Unset
<1>9. FreshIsUnsaved' /\ CounterBounds'
  BY <1>1, <1>2, <1>3 DEF FreshIsUnsaved, CounterBounds, Unset
<1>10. QED
  BY <1>5, <1>6, <1>7, <1>8, <1>9

LEMMA ClientInvNext == ClientInv /\ [Next]_clientVars => ClientInv'
<1> SUFFICES ASSUME ClientInv, [Next]_clientVars PROVE ClientInv'
  OBVIOUS
<1>1. CASE UNCHANGED clientVars
  <2> USE <1>1 DEF clientVars, ClientInv
  <2>1. TypeOK'
    BY DEF TypeOK, ConfigTypeOK, optionVars, configVars
  <2>2. SavedMeansHandled' /\ NothingSkipped' /\ BoundedReplay'
    BY DEF SavedMeansHandled, NothingSkipped, BoundedReplay
  <2>3. PositionsAgree' /\ CounterBounds'
    BY DEF PositionsAgree, CounterBounds
  <2>4. FreshIsUnsaved'
    BY DEF FreshIsUnsaved, optionVars
  <2>5. QED
    BY <2>1, <2>2, <2>3, <2>4
<1>2. QED
  BY <1>1, ConfiguringKeeps, RecoverKeeps, ConnectKeeps, CollectKeeps, ConvertKeeps,
     UpdateKeeps, OthersKeep, ForgetKeeps, ThrowIsCrash DEF Next, ClientNext

LEMMA ClientInvAlways == Spec => []ClientInv
  BY ClientInvInit, ClientInvNext, PTL DEF Spec

\* Types of the client, its state file and the positions, over any number of
\* kills and restarts: the update counter never passes the interval.
THEOREM ClientTypesCorrect == Spec => []TypeOK
<1>1. ClientInv => TypeOK
  BY DEF ClientInv
<1>2. QED
  BY <1>1, ClientInvAlways, PTL

\* For every interval, over any number of kills and restarts: what the state
\* file holds has gone to the callback, so that resuming from it skips nothing.
THEOREM SavedAlwaysHandled == Spec => []SavedMeansHandled
<1>1. ClientInv => SavedMeansHandled
  BY DEF ClientInv
<1>2. QED
  BY <1>1, ClientInvAlways, PTL

\* Neither a reconnect nor a recovery leaves a payload out.
THEOREM NeverSkips == Spec => []NothingSkipped
<1>1. ClientInv => NothingSkipped
  BY DEF ClientInv
<1>2. QED
  BY <1>1, ClientInvAlways, PTL

\* The file is never more than Interval + 1 payloads behind.
THEOREM ReplayIsBounded == Spec => []BoundedReplay
<1>1. ClientInv => BoundedReplay
  BY DEF ClientInv
<1>2. QED
  BY <1>1, ClientInvAlways, PTL

-----------------------------------------------------------------------------
(* The client as a reader that resumes. *)

SavedNumber == IF file > Unset THEN file ELSE 0

\* Where the mapping puts the reader, as far as the steps below need it.
LEMMA Places ==
  ASSUME ClientInv
  PROVE  /\ hand # 0 => NextPayload = hand /\ position = hand /\ pc = "convert"
         /\ hand = 0 /\ position # Unset
              => NextPayload = position + 1 /\ position >= since
         /\ hand = 0 /\ position = Unset => NextPayload = cursor
         /\ pc \in {"down", "configuring", "recover"} => NextPayload = 0 /\ hand = 0
         /\ file \in Nat \cup {Absent} /\ position \in Nat /\ cursor \in Nat
         /\ hand \in Nat /\ since \in Nat
<1>1. /\ file \in Nat \cup {Absent} /\ position \in Nat /\ cursor \in Nat
      /\ hand \in Nat /\ since \in Nat
  BY DEF ClientInv, TypeOK
<1>2. position # Unset => since \in 1..position
  BY <1>1 DEF ClientInv, NothingSkipped, Unset
<1>3. /\ hand # 0 <=> pc = "convert"
      /\ hand # 0 => hand = position
      /\ pc \in {"down", "configuring", "recover"} => position = Unset /\ cursor = 0
  BY DEF ClientInv, PositionsAgree
<1>4. QED
  BY <1>1, <1>2, <1>3 DEF NextPayload, Unset

LEMMA ReaderAt ==
  ASSUME ClientInv, NEW n, n = NextPayload,
         NextPayload' = n \/ NextPayload' = 0,
         UNCHANGED <<handled, since>>,
         file' \in {file, Absent, Unset} \/ (file' = n - 1 /\ n - 1 >= since /\ n > 1)
  PROVE  Reader!Next
<1>1. file \in Nat \cup {Absent} /\ since \in Nat
  BY Places
<1>2. SavedNumber' \in {SavedNumber, 0} \cup {k \in {n - 1} : k >= since}
  BY DEF SavedNumber, Unset, Absent
<1>3. Reader!SavesOrLoses
  BY <1>2 DEF Reader!SavesOrLoses, SavedNumber
<1>4. QED
  BY <1>3 DEF Reader!Next, Reader!Save, Reader!Interrupt

LEMMA ReaderStep ==
  ASSUME ClientInv, [Next]_clientVars
  PROVE  [Reader!Next]_(Reader!readerVars)
<1> USE ClientAssumption DEF Unset, Absent
<1>0. /\ produced \in Nat /\ handled \subseteq 1..produced
      /\ updateStateFile \in 1..(Interval + 1)
  BY DEF ClientInv, TypeOK, PositionsAgree
<1>1. CASE Initialize \/ AddSelector \/ Start
  <2>1. /\ file' \in {file, Absent} /\ pc \in {"down", "configuring"}
        /\ UNCHANGED <<cursor, position, hand, handled, since>>
    BY <1>1 DEF Initialize, AddSelector, Start, Step
  <2>2. NextPayload' = NextPayload
    BY <2>1 DEF NextPayload
  <2>3. QED
    BY <2>1, <2>2, ReaderAt
<1>2. CASE RecoverState
  <2>1. /\ pc = "recover" /\ UNCHANGED <<file, cursor, hand, handled, since>>
        /\ position' \in {position, Unset} \/ (position' = file /\ file # Absent)
    BY <1>2 DEF RecoverState, Step
  <2>2. NextPayload = 0 /\ hand = 0 /\ cursor = 0 /\ position = Unset
    <3>1. cursor = 0 /\ position = Unset
      BY <2>1 DEF ClientInv, PositionsAgree
    <3>2. QED
      BY <2>1, <3>1, Places
  <2>3. CASE position' = Unset
    BY <2>1, <2>2, <2>3, ReaderAt DEF NextPayload
  <2>4. CASE position' # Unset
    <3>1. file > Unset /\ position' = file
      BY <2>1, <2>2, <2>4, Places
    <3>2. NextPayload' = file + 1
      BY <2>1, <2>2, <3>1 DEF NextPayload
    <3>3. QED
      BY <2>1, <2>2, <3>1, <3>2 DEF Reader!Next, Reader!Resume
  <2>5. QED
    BY <2>3, <2>4
<1>3. CASE Connect
  <2>1. /\ pc = "collect" /\ cursor = 0 /\ hand = 0
        /\ UNCHANGED <<file, position, hand, handled>>
        /\ cursor' = (IF position = Unset THEN produced ELSE position) + 1
        /\ since' = IF position = Unset THEN cursor' ELSE since
    BY <1>3 DEF Connect, Step, ClientInv, PositionsAgree
  <2>2. CASE position = Unset
    <3>1. NextPayload = 0 /\ NextPayload' = produced + 1 /\ since' = produced + 1
      BY <2>1, <2>2 DEF NextPayload
    <3>2. ~(file > Unset)
      BY <2>1, <2>2, Places DEF ClientInv, FreshIsUnsaved
    <3>3. \A p \in handled : p < produced + 1
      BY <1>0
    <3>4. produced + 1 \in Nat \ {0}
      BY <1>0
    <3>5. Reader!Begin
      BY <2>1, <3>1, <3>2, <3>3, <3>4 DEF Reader!Begin
    <3>6. QED
      BY <3>5 DEF Reader!Next
  <2>3. CASE position # Unset
    <3>1. NextPayload' = NextPayload /\ since' = since
      BY <2>1, <2>3, Places DEF NextPayload
    <3>2. QED
      BY <2>1, <3>1, ReaderAt
  <2>4. QED
    BY <2>2, <2>3
<1>4. CASE Collect
  <2>1. /\ hand = 0 /\ cursor > 0 /\ hand' = cursor /\ UNCHANGED <<file, handled, since>>
        /\ cursor \in Nat /\ pc = "collect"
    BY <1>0, <1>4 DEF Collect, Step, ClientInv, PositionsAgree
  <2>2. position # Unset => cursor = position + 1
    BY <2>1 DEF ClientInv, PositionsAgree
  <2>3. NextPayload = cursor /\ NextPayload' = cursor
    BY <2>1, <2>2, Places DEF NextPayload
  <2>4. QED
    BY <2>1, <2>3, ReaderAt
<1>5. CASE Convert
  <2>1. /\ pc = "convert" /\ handled' = handled \cup {hand} /\ hand' = 0
        /\ UNCHANGED <<file, position, since>>
    BY <1>5 DEF Convert, Step
  <2>2. hand # 0 /\ position = hand /\ NextPayload = hand
    BY <2>1, Places DEF ClientInv, PositionsAgree
  <2>3. NextPayload' = hand + 1
    BY <2>1, <2>2, Places DEF NextPayload
  <2>4. file > Unset => hand <= file + (Interval + 1)
    BY <1>0, <2>1, <2>2, Places DEF ClientInv, CounterBounds
  <2>5. QED
    BY <2>1, <2>2, <2>3, <2>4, Places DEF Reader!Next, Reader!Deliver
<1>6. CASE UpdateStateFile
  <2>1. /\ pc = "interval" /\ file' \in {file, position}
        /\ UNCHANGED <<cursor, position, hand, handled, since>>
    BY <1>6 DEF UpdateStateFile, Step
  <2>2. hand = 0 /\ position > Unset
    BY <2>1 DEF ClientInv, PositionsAgree
  <2>3. NextPayload' = NextPayload
    BY <2>1 DEF NextPayload
  <2>4. QED
    BY <2>1, <2>2, <2>3, Places, ReaderAt
<1>7. CASE Poll \/ CollectsNothing \/ Leave \/ Stop \/ ServerProduces
  <2>1. /\ file' \in {file, Absent}
        /\ UNCHANGED <<cursor, position, hand, handled, since>>
    BY <1>7 DEF Poll, CollectsNothing, Leave, Stop, ServerProduces, Step
  <2>2. NextPayload' = NextPayload
    BY <2>1 DEF NextPayload
  <2>3. QED
    BY <2>1, <2>2, ReaderAt
<1>8. CASE NetworkFails
  <2>1. cursor' = 0 /\ UNCHANGED <<file, position, hand, handled, since>>
    BY <1>8 DEF NetworkFails
  <2>2. NextPayload' = NextPayload \/ NextPayload' = 0
    BY <2>1 DEF NextPayload
  <2>3. QED
    BY <2>1, <2>2, ReaderAt
<1>9. CASE Disconnect \/ Crash
  <2>1. /\ position' = Unset /\ cursor' = 0 /\ hand' = 0 /\ UNCHANGED <<handled, since>>
        /\ file' = file \/ (file' = position /\ pc \in {"returned", "threw"})
    BY <1>9 DEF Disconnect, Crash, Forget
  <2>2. NextPayload' = 0
    BY <2>1 DEF NextPayload
  <2>3. CASE file' = file \/ file' = Unset
    BY <2>1, <2>2, <2>3, ReaderAt
  <2>4. CASE file' = position /\ pc \in {"returned", "threw"} /\ position # Unset
    <3>1. NextPayload = position + 1 /\ position >= since /\ position \in Nat
      BY <2>4, Places
    <3>2. QED
      BY <2>1, <2>2, <2>4, <3>1, ReaderAt
  <2>5. QED
    BY <2>1, <2>3, <2>4
<1>10. CASE UNCHANGED clientVars
  BY <1>10 DEF clientVars, NextPayload, Reader!readerVars
<1>11. QED
  BY <1>1, <1>2, <1>3, <1>4, <1>5, <1>6, <1>7, <1>8, <1>9, <1>10, ThrowIsCrash
     DEF Next, ClientNext

\* For every save interval, over any number of kills, restarts and reconnects:
\* the callback gets payload after payload and none is left out; whoever resumes
\* does so behind the number saved, at most Interval + 1 payloads back.
THEOREM ClientIsResumableReader == Spec => IsResumableReader
<1>1. Init => Reader!Init
  BY DEF Init, NextPayload, Unset, Absent, Reader!Init
<1>2. ClientInv /\ [Next]_clientVars => [Reader!Next]_(Reader!readerVars)
  BY ReaderStep
<1>3. QED
  BY <1>1, <1>2, ClientInvAlways, PTL DEF Spec, IsResumableReader, Reader!Spec
=============================================================================
