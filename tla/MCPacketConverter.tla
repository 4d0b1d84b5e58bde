--------------------------- MODULE MCPacketConverter ---------------------------
(***************************************************************************)
(* A good record of each type, and one with each defect.                   *)
(***************************************************************************)
EXTENDS PacketConverter

Good == [reclen |-> 3, parses |-> TRUE, samprate |-> 1, numsamples |-> 2,
         sid |-> TRUE, codes |-> Codes, starttime |-> 1, sampletype |-> "i",
         samples |-> <<11, -11>>]

\* Squares within eight bits, their sum not; squares outside, in either type.
MCRecords ==
  {Good,
   [Good EXCEPT !.starttime = 2, !.reclen = 2],
   [Good EXCEPT !.samples = <<12, 100>>],
   [Good EXCEPT !.sampletype = "f", !.samples = <<12, 100>>],
   [Good EXCEPT !.sampletype = "d", !.numsamples = 1, !.samples = <<-128>>],
   [Good EXCEPT !.sampletype = "t"],
   [Good EXCEPT !.sampletype = "other"],
   [Good EXCEPT !.samprate = 0],
   [Good EXCEPT !.samprate = -1],
   [Good EXCEPT !.numsamples = 0, !.samples = <<>>, !.reclen = 2],
   [Good EXCEPT !.sid = FALSE, !.codes = {}],
   [Good EXCEPT !.parses = FALSE]}
  \cup {[Good EXCEPT !.codes = Codes \ {code}] : code \in Codes}
=============================================================================
