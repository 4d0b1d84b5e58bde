--------------------------- MODULE ResumableReader ---------------------------
(***************************************************************************)
(* What a client that keeps its place in a numbered stream promises to the *)
(* callback behind it: it hands over one number after the other, leaves    *)
(* none out, and after an interruption goes on behind the place it saved,  *)
(* which is at most Lag numbers back.  With no place saved it begins anew, *)
(* behind everything it has ever handed over.                              *)
(***************************************************************************)
EXTENDS Integers

CONSTANT Lag   \* how far it may get ahead of the place it saved

VARIABLES
  delivered,   \* the numbers handed over so far
  start,       \* where it last began anew, 0 if it never did
  next,        \* the number it hands over next, 0 while it has no place
  saved        \* the last number handed over when it saved its place, or 0

readerVars == <<delivered, start, next, saved>>

Init ==
  /\ delivered = {}
  /\ start = 0
  /\ next = 0
  /\ saved = 0

Begin ==
  /\ next = 0
  /\ saved = 0
  /\ next' \in Nat \ {0}
  /\ \A p \in delivered : p < next'
  /\ start' = next'
  /\ UNCHANGED <<delivered, saved>>

Resume ==
  /\ next = 0
  /\ saved > 0
  /\ next' = saved + 1
  /\ UNCHANGED <<delivered, start, saved>>

Deliver ==
  /\ next > 0
  /\ saved > 0 => next <= saved + Lag
  /\ delivered' = delivered \cup {next}
  /\ next' = next + 1
  /\ UNCHANGED <<start, saved>>

\* The place is saved, or lost, or stays as it is.
SavesOrLoses == saved' \in {saved, 0} \cup {n \in {next - 1} : n >= start}

Save ==
  /\ SavesOrLoses
  /\ UNCHANGED <<delivered, start, next>>

Interrupt ==
  /\ next' = 0
  /\ SavesOrLoses
  /\ UNCHANGED <<delivered, start>>

Next == Begin \/ Resume \/ Deliver \/ Save \/ Interrupt

Spec == Init /\ [][Next]_readerVars
=============================================================================
