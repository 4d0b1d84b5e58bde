---------------------------- MODULE PacketConverter ----------------------------
(***************************************************************************)
(* What becomes of one SEEDLink payload: miniSEEDToPackets reads its       *)
(* records one behind the other and converts them, and packetToCallback    *)
(* sorts the packets by time and calls the callback with each.  Then the   *)
(* sums computeSumAndSumSquared makes of a packet for the metrics.         *)
(*                                                                         *)
(* A record stands for its bytes: its length, whether msr3_parse takes it  *)
(* when it is all there, and what MS3Record then says of it.  The payload  *)
(* may be cut off anywhere; behind it seedLinkBuffer holds what earlier    *)
(* payloads left there.  Samples are integers: rounding is left out, the   *)
(* width of int is not.                                                    *)
(***************************************************************************)
EXTENDS Integers, Sequences, FiniteSets

CONSTANTS
  Records,       \* the records of payloads
  MaxRecords,    \* bound: of them in the buffer
  MINRECLEN,     \* of libmseed
  SizeBits,      \* width of uint64_t, and
  IntBits        \* of int

Codes == {"network", "station", "channel"}

RecordType ==
  [reclen : Nat, parses : BOOLEAN, samprate : Int, numsamples : Nat,
   sid : BOOLEAN,             \* ms_sid2nslc_n can unpack the identifier
   codes : SUBSET Codes,      \* those of it that are not blank
   starttime : Int, sampletype : {"i", "f", "d", "t", "other"},
   samples : Seq(Int)]

ASSUME RecordsAssumption ==
  /\ Records \subseteq RecordType
  /\ MINRECLEN \in Nat
  /\ \A r \in Records : r.reclen > MINRECLEN /\ Len(r.samples) = r.numsamples
ASSUME WidthAssumption ==
  /\ {MaxRecords, SizeBits, IntBits} \subseteq Nat \ {0}
  /\ \A r \in Records : MaxRecords * r.reclen < 2^SizeBits

VARIABLES
  pc,             \* loop, calling, done
  buffer,         \* the records in seedLinkBuffer
  bufferLength,   \* where the payload ends
  offset,
  iRecord,        \* the record at the offset
  packets,        \* dataPackets, later sorted
  failedPackets,
  called          \* the packets the callback was called with

vars == <<pc, buffer, bufferLength, offset, iRecord, packets, failedPackets, called>>

-----------------------------------------------------------------------------
(* convert *)

\* A slip: floats are labelled as doubles.
FloatsAsDoubles == [i |-> "INTEGER_32", f |-> "DOUBLE", d |-> "DOUBLE", t |-> "TEXT"]

DataType == [i |-> "INTEGER_32", f |-> "FLOAT", d |-> "DOUBLE", t |-> "TEXT"]

\* pack: so many samples of the type they are stored in.
PackedSize(sampletype, n) ==
  n * CASE sampletype = "t" -> 1 [] sampletype = "d" -> 8 [] OTHER -> 4

\* It throws for all others.
Convertible(record) ==
  /\ record.samprate > 0
  /\ record.numsamples > 0
  /\ record.sid
  /\ record.codes = Codes
  /\ record.sampletype \in DOMAIN DataType

\* The packet made of it; from: which record it was.
Converted(record, i) ==
  [sampling_rate |-> record.samprate, number_of_samples |-> record.numsamples,
   start_time |-> record.starttime, identifier |-> record.codes,
   data_type |-> DataType[record.sampletype],
   size |-> PackedSize(record.sampletype, record.numsamples),
   data |-> record.samples, from |-> i]

-----------------------------------------------------------------------------
(* miniSEEDToPackets *)

Ends ==
  LET end[i \in 0..Len(buffer)] ==
        IF i = 0 THEN 0 ELSE end[i - 1] + buffer[i].reclen
  IN end

\* sl_collect has returned a miniSEED payload.
Init ==
  /\ pc = "loop"
  /\ \E n \in 1..MaxRecords : buffer \in [1..n -> Records]
  /\ bufferLength \in 0..Ends[Len(buffer)]
  /\ offset = 0
  /\ iRecord = 1
  /\ packets = <<>>
  /\ failedPackets = 0
  /\ called = <<>>

\* bufferLength - offset, in uint64_t.
Remaining == (bufferLength - offset) % 2^SizeBits

\* A slip: the library is given the length of the whole payload.
WholeLength == bufferLength

\* What msr3_parse is told there is at the offset.
Available == Remaining

Parses ==
  /\ iRecord <= Len(buffer)
  /\ buffer[iRecord].parses
  /\ buffer[iRecord].reclen <= Available

InLoop == pc = "loop" /\ Remaining > MINRECLEN

NextRecord ==
  /\ offset' = offset + buffer[iRecord].reclen
  /\ iRecord' = iRecord + 1
  /\ UNCHANGED <<pc, buffer, bufferLength, called>>

ConvertSucceeds ==
  /\ InLoop /\ Parses
  /\ Convertible(buffer[iRecord])
  /\ packets' = Append(packets, Converted(buffer[iRecord], iRecord))
  /\ NextRecord
  /\ UNCHANGED failedPackets

\* A slip: the offset moves on only behind a record that was converted.
FailsInPlace ==
  /\ InLoop /\ Parses
  /\ ~Convertible(buffer[iRecord])
  /\ failedPackets' = failedPackets + 1
  /\ UNCHANGED <<pc, buffer, bufferLength, offset, iRecord, packets, called>>

ConvertFails ==
  /\ InLoop /\ Parses
  /\ ~Convertible(buffer[iRecord])
  /\ failedPackets' = failedPackets + 1
  /\ NextRecord
  /\ UNCHANGED packets

\* Two slips: the record is tried again; what was unpacked before it is kept.
TriesAgain == InLoop /\ ~Parses /\ UNCHANGED vars

KeepsTheRest ==
  /\ InLoop /\ ~Parses
  /\ pc' = "calling"
  /\ UNCHANGED <<buffer, bufferLength, offset, iRecord, packets, failedPackets, called>>

\* The exception takes the packets unpacked before along.
ParseFails ==
  /\ InLoop /\ ~Parses
  /\ pc' = "done"
  /\ packets' = <<>>
  /\ UNCHANGED <<buffer, bufferLength, offset, iRecord, failedPackets, called>>

-----------------------------------------------------------------------------
(* packetToCallback *)

Orders(n) == {f \in [1..n -> 1..n] : \A i, j \in 1..n : i # j => f[i] # f[j]}

InTimeOrder(q) ==
  \A i \in 1..(Len(q) - 1) : q[i].start_time <= q[i + 1].start_time

\* std::sort: packets of one time may come in any order.
Sort ==
  /\ pc = "loop" /\ Remaining <= MINRECLEN
  /\ pc' = "calling"
  /\ \E order \in Orders(Len(packets)) :
       packets' = [i \in 1..Len(packets) |-> packets[order[i]]]
  /\ InTimeOrder(packets')
  /\ UNCHANGED <<buffer, bufferLength, offset, iRecord, failedPackets, called>>

\* An exception of the callback is logged; the next packet has its turn.
CallCallback ==
  /\ pc = "calling" /\ Len(called) < Len(packets)
  /\ called' = Append(called, packets[Len(called) + 1])
  /\ UNCHANGED <<pc, buffer, bufferLength, offset, iRecord, packets, failedPackets>>

PayloadDone ==
  /\ pc = "calling" /\ Len(called) = Len(packets)
  /\ pc' = "done"
  /\ UNCHANGED <<buffer, bufferLength, offset, iRecord, packets, failedPackets, called>>

Next ==
  \/ ConvertSucceeds \/ ConvertFails \/ ParseFails
  \/ Sort \/ CallCallback \/ PayloadDone

\* The thread goes on with a payload it has begun.
Spec == Init /\ [][Next]_vars /\ WF_vars(Next)

-----------------------------------------------------------------------------
(* computeSumAndSumSquared *)

SizeOf == [INTEGER_32 |-> 4, FLOAT |-> 4, DOUBLE |-> 8, TEXT |-> 1]

\* What an int holds of a number.
Wrapped(x) == ((x + 2^(IntBits - 1)) % 2^IntBits) - 2^(IntBits - 1)

\* A slip: the sums are of the type of the samples.
AddInSampleType(data_type, x, y) ==
  IF data_type = "INTEGER_32" THEN Wrapped(x + y) ELSE x + y

\* Both sums are doubles whatever the samples are.
Add(data_type, x, y) == x + y

\* The square of an int is an int: past its width the result is undefined,
\* wrapped or, computed in something wider, exact.
Squares(data_type, x) ==
  IF data_type = "INTEGER_32" THEN {x * x, Wrapped(x * x)} ELSE {x * x}

Sum(packet) ==
  LET sum[i \in 0..packet.number_of_samples] ==
        IF i = 0 \/ packet.data_type = "TEXT" THEN 0
        ELSE Add(packet.data_type, sum[i - 1], packet.data[i])
  IN sum[packet.number_of_samples]

\* All it may be.
SumSquared(packet) ==
  LET sums[i \in 0..packet.number_of_samples] ==
        IF i = 0 \/ packet.data_type = "TEXT" THEN {0}
        ELSE {Add(packet.data_type, x, y) :
                x \in sums[i - 1], y \in Squares(packet.data_type, packet.data[i])}
  IN sums[packet.number_of_samples]

\* tabulateMetrics and the update of the window throw for no such packet.
Tabulates(packet) ==
  /\ packet.identifier = Codes
  /\ packet.number_of_samples > 0
  /\ packet.sampling_rate > 0
  /\ packet.data_type # "TEXT" =>
       packet.size = packet.number_of_samples * SizeOf[packet.data_type]

-----------------------------------------------------------------------------
\* Types.
TypeOK ==
  /\ pc \in {"loop", "calling", "done"}
  /\ Len(buffer) <= MaxRecords /\ \A i \in 1..Len(buffer) : buffer[i] \in Records
  /\ {bufferLength, offset} \subseteq 0..(2^SizeBits - 1)
  /\ iRecord \in 1..(Len(buffer) + 1)
  /\ failedPackets \in 0..MaxRecords
  /\ Len(called) <= Len(packets) /\ Len(packets) <= MaxRecords

\* The offset never passes the end of the payload, wherever that was cut: the
\* unsigned difference the loop tests would turn huge and the loop read on into
\* what earlier payloads left in the buffer.
OffsetInBuffer == offset <= bufferLength

\* When the thread is done with a payload the callback has been called once for
\* each record that converts, in the order of time, or for none at all when one
\* of them does not parse or is cut off; up to MINRECLEN bytes at the end are
\* passed over.  Bad records and callbacks that throw cost the others nothing.
Reached == {i \in 1..Len(buffer) : Ends[i - 1] + MINRECLEN < bufferLength}
Readable(i) == buffer[i].parses /\ Ends[i] <= bufferLength
PayloadAllOrNothing ==
  pc = "done" =>
    IF \E i \in Reached : ~Readable(i) THEN called = <<>>
    ELSE LET good == {i \in Reached : Convertible(buffer[i])}
         IN /\ {called[k].from : k \in 1..Len(called)} = good
            /\ Len(called) = Cardinality(good)
            /\ InTimeOrder(called)
            /\ failedPackets = Cardinality(Reached \ good)

\* The metrics can make something of every packet the converter lets through:
\* no check of theirs throws, the size of the data fits its label.
EveryPacketTabulates == \A k \in 1..Len(called) : Tabulates(called[k])

\* While no square passes the width of int the sums are those of the samples,
\* however large they get.
Total(values) ==
  LET total[i \in 0..Len(values)] == IF i = 0 THEN 0 ELSE total[i - 1] + values[i]
  IN total[Len(values)]
SquaresOf(packet) == [i \in DOMAIN packet.data |-> packet.data[i] * packet.data[i]]
IsExact(packet) ==
  /\ Sum(packet) = Total(packet.data)
  /\ SumSquared(packet) = {Total(SquaresOf(packet))}
SumsExactInRange ==
  \A k \in 1..Len(called) :
    LET packet == called[k]
    IN packet.data_type # "TEXT"
         /\ (packet.data_type = "INTEGER_32" =>
               \A i \in DOMAIN packet.data : SquaresOf(packet)[i] < 2^(IntBits - 1))
       => IsExact(packet)

\* Every payload is dealt with in the end, whatever is in it.
PayloadEnds == <>(pc = "done")

\* Every step of the thread brings it nearer to the end of its payload, which it
\* reaches within a number of steps that the length of the payload bounds: each
\* way through the loop moves the offset on, a record that does not convert and
\* a callback that throws included, and no packet has its turn twice.
PayloadLeft ==
  CASE pc = "loop" -> 2 * (bufferLength - offset) + Len(packets) + 2
    [] pc = "calling" -> Len(packets) - Len(called) + 1
    [] OTHER -> 0
PayloadRunsDown == [][PayloadLeft' \in 0..(PayloadLeft - 1)]_vars

\* What the converter's test asks for: the sums are those of the samples.
SumSquaredExact ==
  \A k \in 1..Len(called) : called[k].data_type # "TEXT" => IsExact(called[k])
=============================================================================
