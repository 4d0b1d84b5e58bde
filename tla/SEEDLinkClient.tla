---------------------------- MODULE SEEDLinkClient ----------------------------
(***************************************************************************)
(* One SEEDLink client over several lives of the process: configuration    *)
(* (initialize), the polling thread (packetToCallback), stop and the       *)
(* destructor, with the state file that carries the sequence numbers from  *)
(* one life to the next.  The process may be killed between any two steps. *)
(*                                                                         *)
(* The server numbers its miniSEED payloads 1, 2, ... (one of another kind *)
(* or too large for the buffer counts with the payload before it);         *)
(* sl_collect, sl_savestate and sl_recoverstate belong to libslink and are *)
(* modelled as the code relies on them: sl_collect advances the            *)
(* connection's sequence number when it returns a payload, and a           *)
(* connection without one starts at the next data.                         *)
(*                                                                         *)
(* pc: down, configuring (the loop over the selectors), recover, loop      *)
(* (while (mKeepRunning)), collect (sl_collect), convert (unpacking and    *)
(* the callbacks), interval (the save every so many payloads), leaving     *)
(* (the purge), returned, threw.                                           *)
(***************************************************************************)
EXTENDS Integers, FiniteSets

CONSTANTS
  Interval,       \* mStateFileUpdateInterval
  MaxSelectors,   \* bound: stream selectors of the configuration
  MaxSequence     \* bound: payloads the server ever has

ASSUME ClientAssumption ==
  /\ Interval \in Nat
  /\ MaxSelectors \in Nat
  /\ MaxSequence \in Nat

VARIABLES
  useStateFile,   \* mUseStateFile
  deleteOnStart,  \* options.deleteStateFileOnStart()
  deleteOnStop,   \* mDeleteStateFileOnStop
  selectors,      \* how many selectors the options hold
  file,           \* the state file: Absent, Unset or the number it holds
  produced,       \* the newest payload the server has
  cursor,         \* the payload the server sends next, 0 without connection
  pc,             \* see above
  running,        \* mKeepRunning
  tried,          \* selectors of this life tried so far
  streams,        \* entries of mSEEDLinkConnection->streams
  uniStation,     \* sl_set_allstation_params was called
  position,       \* the sequence number of mSEEDLinkConnection, or Unset
  hand,           \* the payload in seedLinkBuffer, or 0
  updateStateFile,   \* the local counter of packetToCallback
  handled,        \* history: payloads unpacked and handed to the callback
  since           \* history: where the numbering in use began, or 0

optionVars == <<useStateFile, deleteOnStart, deleteOnStop, selectors>>
configVars == <<tried, streams, uniStation>>
clientVars == <<optionVars, configVars, file, produced, cursor, pc, running,
                position, hand, updateStateFile, handled, since>>

Absent == -1
Unset == 0

-----------------------------------------------------------------------------
Init ==
  /\ useStateFile \in BOOLEAN
  /\ deleteOnStart \in BOOLEAN
  /\ deleteOnStop \in BOOLEAN
  /\ selectors \in 0..MaxSelectors
  /\ file = Absent
  /\ produced = 0
  /\ cursor = 0
  /\ pc = "down"
  /\ running = FALSE
  /\ tried = 0
  /\ streams = 0
  /\ uniStation = FALSE
  /\ position = Unset
  /\ hand = 0
  /\ updateStateFile = 1
  /\ handled = {}
  /\ since = 0

Step(from, to) ==
  /\ pc = from
  /\ pc' = to
  /\ UNCHANGED <<optionVars, produced>>

\* The memory of the process is gone, the file is not.
Forget ==
  /\ pc' = "down"
  /\ running' = FALSE
  /\ cursor' = 0
  /\ tried' = 0
  /\ streams' = 0
  /\ uniStation' = FALSE
  /\ position' = Unset
  /\ hand' = 0
  /\ updateStateFile' = 1
  /\ UNCHANGED <<optionVars, produced, handled, since>>

-----------------------------------------------------------------------------
(* Construction and start. *)

\* initialize: the old state file is removed if the options say so, which may
\* fail with a warning.
Initialize ==
  /\ Step("down", "configuring")
  /\ file' \in IF useStateFile /\ deleteOnStart THEN {file, Absent} ELSE {file}
  /\ UNCHANGED <<configVars, cursor, running, position, hand, updateStateFile,
                 handled, since>>

\* One round of the loop over the selectors; one that sl_add_stream refuses is
\* logged and left out.
AddSelector ==
  /\ Step("configuring", "configuring")
  /\ tried < selectors
  /\ tried' = tried + 1
  /\ streams' \in {streams, streams + 1}
  /\ UNCHANGED <<uniStation, file, cursor, running, position, hand,
                 updateStateFile, handled, since>>

\* Behind that loop: every station if no stream was added, then start().
Start ==
  /\ Step("configuring", "recover")
  /\ tried = selectors
  /\ uniStation' = (streams = 0)
  /\ running' = TRUE
  /\ UNCHANGED <<tried, streams, file, cursor, position, hand, updateStateFile,
                 handled, since>>

\* Behind that loop initialize throws if uni-station mode is refused, and in a
\* debug build if the server does not answer.  It is called by a constructor: no
\* destructor runs, and the process ends without a word to the file.
InitializeThrows ==
  /\ pc = "configuring" /\ tried = selectors
  /\ UNCHANGED file
  /\ Forget

-----------------------------------------------------------------------------
(* The polling thread. *)

ThreadUnchanged == UNCHANGED <<configVars, running>>

\* sl_recoverstate fills in the number of the file; without a file it has none
\* to fill in; a file it cannot read is an exception.
RecoverState ==
  /\ \/ /\ Step("recover", "loop")
        /\ position' = IF useStateFile /\ file # Absent THEN file ELSE Unset
     \/ /\ useStateFile /\ file # Absent
        /\ Step("recover", "threw")
        /\ UNCHANGED position
  /\ updateStateFile' = 1
  /\ ThreadUnchanged
  /\ UNCHANGED <<file, cursor, hand, handled, since>>

\* while (mKeepRunning)
Poll ==
  /\ Step("loop", IF running THEN "collect" ELSE "leaving")
  /\ ThreadUnchanged
  /\ UNCHANGED <<file, cursor, position, hand, updateStateFile, handled, since>>

\* Inside sl_collect: the connection is made, or made again, and data are
\* asked for from the number behind the last one, or from the next data on.
Connect ==
  /\ Step("collect", "collect")
  /\ cursor = 0
  /\ cursor' = (IF position = Unset THEN produced ELSE position) + 1
  /\ since' = IF position = Unset THEN cursor' ELSE since
  /\ ThreadUnchanged
  /\ UNCHANGED <<file, position, hand, updateStateFile, handled>>

\* A slip: the state is saved as soon as the payload is there.
CollectAndSave ==
  /\ Step("collect", "convert")
  /\ cursor \in 1..produced
  /\ position' = cursor
  /\ hand' = cursor
  /\ cursor' = cursor + 1
  /\ file' = IF useStateFile /\ updateStateFile > Interval THEN cursor ELSE file
  /\ ThreadUnchanged
  /\ UNCHANGED <<updateStateFile, handled, since>>

\* A slip: a payload that arrives after the stop is thrown away.
CollectOrQuit ==
  /\ Step("collect", IF running THEN "convert" ELSE "leaving")
  /\ cursor \in 1..produced
  /\ position' = cursor
  /\ hand' = IF running THEN cursor ELSE 0
  /\ cursor' = cursor + 1
  /\ ThreadUnchanged
  /\ UNCHANGED <<file, updateStateFile, handled, since>>

\* sl_collect returns SLPACKET.
Collect ==
  /\ Step("collect", "convert")
  /\ cursor \in 1..produced
  /\ position' = cursor
  /\ hand' = cursor
  /\ cursor' = cursor + 1
  /\ ThreadUnchanged
  /\ UNCHANGED <<file, updateStateFile, handled, since>>

\* A slip: a payload the callback throws on stays in the buffer for another try.
ConvertsAgain ==
  \E again \in BOOLEAN :
    /\ Step("convert", IF again THEN "convert"
                       ELSE IF useStateFile THEN "interval" ELSE "loop")
    /\ handled' = handled \cup {hand}
    /\ hand' = IF again THEN hand ELSE 0
    /\ ThreadUnchanged
    /\ UNCHANGED <<file, cursor, position, updateStateFile, since>>

\* The records are unpacked and handed to the callback; a payload that cannot
\* be unpacked is skipped with a warning.
Convert ==
  /\ Step("convert", IF useStateFile THEN "interval" ELSE "loop")
  /\ handled' = handled \cup {hand}
  /\ hand' = 0
  /\ ThreadUnchanged
  /\ UNCHANGED <<file, cursor, position, updateStateFile, since>>

\* A slip: one payload more than the interval allows.
SavesLate ==
  /\ Step("interval", "loop")
  /\ file' = IF updateStateFile > Interval + 1 THEN position ELSE file
  /\ updateStateFile' = IF updateStateFile > Interval + 1 THEN 1
                                                          ELSE updateStateFile + 1
  /\ ThreadUnchanged
  /\ UNCHANGED <<cursor, position, hand, handled, since>>

\* if (updateStateFile > mStateFileUpdateInterval), and the counting.
UpdateStateFile ==
  /\ Step("interval", "loop")
  /\ file' = IF updateStateFile > Interval THEN position ELSE file
  /\ updateStateFile' = IF updateStateFile > Interval THEN 1
                                                      ELSE updateStateFile + 1
  /\ ThreadUnchanged
  /\ UNCHANGED <<cursor, position, hand, handled, since>>

\* sl_collect returns no packet, or the end: SLTERMINATE.
CollectsNothing ==
  /\ \E next \in {"loop", "leaving"} : Step("collect", next)
  /\ ThreadUnchanged
  /\ UNCHANGED <<file, cursor, position, hand, updateStateFile, handled, since>>

\* Behind the loop: the purge, which may fail, and the check that the end was
\* asked for.
Leave ==
  /\ ThreadUnchanged
  /\ UNCHANGED <<cursor, position, hand, updateStateFile, handled, since>>
  /\ \/ /\ useStateFile /\ deleteOnStop
        /\ \/ Step("leaving", IF running THEN "threw" ELSE "returned")
                /\ file' = Absent
           \/ Step("leaving", "threw") /\ file # Absent /\ UNCHANGED file
     \/ /\ ~(useStateFile /\ deleteOnStop)
        /\ Step("leaving", IF running THEN "threw" ELSE "returned")
        /\ UNCHANGED file

-----------------------------------------------------------------------------
(* The rest of the process, the server and the network. *)

\* Process::stop.
Stop ==
  /\ running
  /\ running' = FALSE
  /\ UNCHANGED <<optionVars, configVars, file, produced, cursor, pc, position,
                 hand, updateStateFile, handled, since>>

\* ~SEEDLinkClientImpl, after the thread was joined: disconnect() saves the
\* state once more.
Disconnect ==
  /\ pc \in {"returned", "threw"}
  /\ file' = IF useStateFile THEN position ELSE file
  /\ Forget

\* The process is killed.
Crash ==
  /\ pc # "down"
  /\ UNCHANGED file
  /\ Forget

ServerProduces ==
  /\ produced < MaxSequence
  /\ produced' = produced + 1
  /\ UNCHANGED <<optionVars, configVars, file, cursor, pc, running, position,
                 hand, updateStateFile, handled, since>>

NetworkFails ==
  /\ cursor # 0
  /\ cursor' = 0
  /\ UNCHANGED <<optionVars, configVars, file, produced, pc, running, position,
                 hand, updateStateFile, handled, since>>

-----------------------------------------------------------------------------
ClientNext ==
  \/ AddSelector \/ Start \/ InitializeThrows \/ RecoverState \/ Poll \/ Connect
  \/ Collect \/ CollectsNothing \/ Convert \/ UpdateStateFile \/ Leave \/ Disconnect

Next ==
  \/ ClientNext \/ Initialize \/ Stop \/ Crash \/ ServerProduces \/ NetworkFails

Spec == Init /\ [][Next]_clientVars

-----------------------------------------------------------------------------
ConfigTypeOK ==
  /\ useStateFile \in BOOLEAN
  /\ deleteOnStart \in BOOLEAN
  /\ deleteOnStop \in BOOLEAN
  /\ running \in BOOLEAN
  /\ uniStation \in BOOLEAN
  /\ selectors \in Nat /\ tried \in Nat /\ streams \in Nat

TypeOK ==
  /\ ConfigTypeOK
  /\ file \in Nat \cup {Absent}
  /\ produced \in Nat /\ cursor \in Nat /\ position \in Nat
  /\ hand \in Nat /\ updateStateFile \in 1..(Interval + 1) /\ since \in Nat
  /\ pc \in {"down", "configuring", "recover", "loop", "collect", "convert",
             "interval", "leaving", "returned", "threw"}
  /\ handled \in SUBSET Nat

\* What the state file claims has happened: every payload from the start of
\* the numbering up to the number saved went to the callback.  A kill at any
\* moment therefore costs no payload, whatever was saved when.
SavedMeansHandled ==
  file > Unset => since \in 1..file /\ since..file \subseteq handled

\* The same of the live connection: nothing is skipped between the payloads
\* of one life or over a reconnect.
NothingSkipped ==
  position > Unset =>
    since \in 1..position /\ since..position \subseteq handled \cup {hand}

\* A kill repeats at most Interval + 1 payloads, over any number of lives.
BoundedReplay ==
  file > Unset /\ handled # {}
    => \A p \in handled : p >= since => p <= file + Interval + 1

\* Over all its lives the client is a reader that resumes where it saved: the
\* callback gets one payload after the other, also again after a kill, and none
\* is left out on the way from the file to the connection and back.
NextPayload ==
  IF hand # 0 THEN hand ELSE IF position > Unset THEN position + 1 ELSE cursor
Reader == INSTANCE ResumableReader
            WITH Lag <- Interval + 1, delivered <- handled, start <- since,
                 next <- NextPayload, saved <- IF file > Unset THEN file ELSE 0
IsResumableReader == Reader!Spec

\* What makes these inductive: where the payload in hand and the next one of
\* the server stand, that a life without a number began without a saved one,
\* and that the counter bounds how far the file is behind.
PositionsAgree ==
  /\ hand # 0 <=> pc = "convert"
  /\ hand # 0 => hand = position
  /\ pc = "interval" => position > Unset
  /\ pc \in {"down", "configuring", "recover"} => position = Unset /\ cursor = 0
  /\ cursor > 0 =>
       cursor = IF position = Unset THEN since ELSE position + 1
  /\ cursor <= produced + 1 /\ handled \subseteq 1..produced
  /\ hand <= produced /\ position <= produced

FreshIsUnsaved ==
  /\ ~useStateFile => file = Absent
  /\ pc = "interval" => useStateFile
  /\ pc \in {"loop", "collect", "convert", "interval"} /\ position = Unset
       => file <= Unset
  /\ cursor > 0 /\ position = Unset => \A p \in handled : p < since

CounterBounds ==
  /\ file > Unset /\ pc \in {"loop", "collect"} => position < file + updateStateFile
  /\ file > Unset /\ pc \in {"convert", "interval"}
       => position <= file + updateStateFile
  /\ position > Unset
       => \A p \in handled : p >= since => p <= position + Interval + 1

ClientInv ==
  /\ TypeOK /\ SavedMeansHandled /\ NothingSkipped /\ BoundedReplay
  /\ PositionsAgree /\ FreshIsUnsaved /\ CounterBounds

\* After enableDeleteStateFileOnStop an ordinary shutdown leaves no state file.
StopDeletesStateFile ==
  [][pc = "returned" /\ pc' = "down" /\ useStateFile /\ deleteOnStop
       => file' = Absent]_clientVars

\* The state file is updated after Interval payloads.
SavedEveryInterval ==
  pc = "loop" /\ useStateFile => updateStateFile <= Interval
=============================================================================
