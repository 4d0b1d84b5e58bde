# uSEEDLinkToDataPacketImportProxy in TLA+

The program polls a SEEDLink server for miniSEED payloads, converts them to
data packets and publishes them, over a client-streaming gRPC call, to an import
proxy. Packets cross three threads and two bounded queues; a fourth thread rolls
the metrics' windows, the main thread watches for signals and failed threads,
and a telemetry library reads the metrics from a thread of its own.

Before any of that starts, an initialization file becomes the options of the
client and of the channel to the proxy.

File names below are those under `src/`, modules under `src/modules/`;
`PROJECT.json` maps every definition to its lines.

## Inventory

| component | state | operations | talks to |
|---|---|---|---|
| SEEDLink client (`seedLinkClient.cpp`) | connection with the last sequence number, state file, `mKeepRunning`, the save counter | `initialize`, `start`, `packetToCallback`, `stop`, `disconnect`, destructor | libslink; calls `Process::addPacketCallback` for every packet |
| packet path (`main.cpp` 336-410) | import queue, export queue (`tbb::concurrent_bounded_queue`) | `addPacketCallback`, `tabulateMetricsAndPropagatePackets` | two producer/consumer pairs; metrics |
| publisher (`main.cpp` 208-296, `packetWriter.cppm`) | `kRetry`, the RPC, the packet in hand | `sendPacketsToProxy`, `publishSynchronously` | gRPC, import proxy, shutdown condition variable |
| main thread (`main.cpp` 149-206, 444-480, end of `main`) | `mFutures`, `mInterrupted`, `mKeepRunning`, `mShutdownRequested` | `start`, `handleMainThread`, `checkFuturesOkay`, `stop`, destructor, `signalHandler` | all threads through futures, flags and notifications |
| metrics (`metrics.cppm`, `main.cpp` 302-331) | maps of counters, windows and averages behind `mMutex`; two atomics | `tabulateMetrics`, `updateAndResetWindowedMetrics`, the getters and observers | tabulator, windows thread, publisher, telemetry exporter |
| packet converter (`packetConverter.cppm`) | none | `miniSEEDToPackets` and helpers | called by the SEEDLink thread |
| stream selectors (`streamSelector.cpp`) | the codes of one selector | setters, `getSelector`, `fromString` | the client's options |
| options (`seedLinkClientOptions.cpp`, `grpcOptions.cpp`, `programOptions.cppm`) | values | setters, getters, parsing of the ini file | read once at the start |
| logger, log export, version, protobuf API | - | output, constants, generated code | - |

### What is hard here

* **Interleavings.** `size()` and the `try_pop` or `try_push` behind it are
  separate calls; the consumer may come in between. The shutdown flag is a plain
  `bool` set, and its condition variable notified, without the mutex the waiters
  hold, so notifications get lost. Notification comes before `mKeepRunning` is
  lowered, so a waiter may wake up and carry on.
* **Failure.** The stream breaks at any time and is noticed only by a `Write`,
  which costs the packet it was given; `Finish` on a live stream that was not
  half closed would never return; exceptions travel through futures, and a
  second one meets a destructor.
* **Crashes.** The state file is saved every so many payloads and on an ordinary
  end; the process may be killed between any two steps.
* **Stale reads.** The windows thread reads its clock before it takes the mutex;
  the exporter reads the counters of one report at different moments. The files
  the initialization file names are tested for existence and read later, and the
  GRPC section is read twice.
* **Parsing.** A payload may be cut anywhere, in a buffer that still holds what
  earlier payloads left; records may be unreadable, or readable and of no use.
  Unsigned differences bound the loop. Selectors are numbered with gaps, and
  spelled in many ways that ask for the same thing.

### What makes each component correct

* Packet path: each packet is in exactly one place; a full queue gives up the
  oldest packet and never the newest; order and uniqueness survive; nothing
  waits for ever.
* Publisher: it never blocks in `Finish`, gives up only after its schedule, and
  never ends without being told to.
* Main thread: a signal or a failed thread ends the process, nothing else does,
  and the threads are gone before what they use is destroyed.
* SEEDLink client: the file is never ahead of what was handed to the callback;
  nothing is skipped; what a kill repeats is bounded.
* Metrics: the counters add up, reports are consistent, each valid packet is
  averaged once, also when the telemetry falls silent.
* Packet converter: it stays inside the payload and ends; a payload's good
  records all become packets, in order of time, or the payload none; whatever
  becomes a packet the metrics can read, and its sums are right.
* Options and selectors: the server's address, certificate and token reach the
  channel of a start that has read its file; every selector of the file is
  asked for, once, and for no less than its line says.

`PROJECT.json` lists the hazards line by line with the properties aimed at them.

## Modules

```
Publisher <- PacketPipeline <- Process        EXTENDS, top to bottom of main.cpp
                  |               |  Pipeline == INSTANCE PacketPipeline WITH ...
                  |               v
                  |          PacketPipeline    what the process lets the threads do
                  |   Channel == INSTANCE LossyFifo WITH ...
                  v
             LossyFifo                         what the packet path promises
SEEDLinkClient                                 one client, over its lives
     |   Reader == INSTANCE ResumableReader WITH ...
     v
ResumableReader                                what the client promises
StreamSelector <- ProgramOptions               the start
PacketConverter     Metrics                    one payload; the counters
*Proofs             MC*                        theorems; instances for TLC
```

**Publisher** is `sendPacketsToProxy` and `publishSynchronously`: `pubPc` names
the place in the code (its comment lists them), one action per shared read,
library call or branch. The wait on the shutdown condition is three steps,
evaluating the predicate, falling asleep and being woken or timing out, so that
a notification without the mutex can be lost as it can in the code. gRPC and the
proxy are external: the transport buffers up to `Window` packets, `Write` blocks
while it is full and returns false once the stream is broken, `Finish` returns
any status on a broken stream and OK on a half-closed one that was read to its
end. `fruitless` is a history variable: RPCs in a row that wrote nothing.

**PacketPipeline** adds the SEEDLink thread as a source of packets
(`srcPc`), the tabulator (`tabPc`), the two queues and the part of the shutdown
the threads see. Every call on a queue is one step. Packets are numbered as
`addPacketCallback` gets them. `importEvicted`, `exportEvicted`, `refused` and
`lost` keep account of where packets went.

**LossyFifo** is the promise: packets go in numbered, may be dropped at any
moment, and come out each at most once and in order. `PacketPipeline` implements
it under the mapping accepted <- arrived, inFlight <- everything in a hand, a
queue or the transport, delivered <- what the proxy has.

**Process** puts the main thread around the pipeline: the signal flag, the
futures and `valid()`, `checkFuturesOkay` one future at a time, `stop` with its
joins, the exception out of `stop` and the second `stop` of the destructor, and
the waiting of the windows thread. `RunsPipeline` says that it implements
`PacketPipeline` under the mapping mainPc <- `ShutdownStage`: the loop, the check
of the futures and the pause are the pipeline's "loop", and the second stop, the
cleanup and the end are its "join". What `PacketPipeline` assumes of a shutdown,
which flag falls when and that each falls once, is thereby shown of the main
thread that performs it.

**SEEDLinkClient** is one client over several lives of the process. Payloads are
numbered by the server; a payload of another kind or too large for the buffer is
counted with the one before it, since neither is saved or handed over. libslink
is external: `sl_collect` advances the connection's number, a connection
without one starts at the next data. `Crash` may come between any two steps and
leaves only the file; a constructor that throws while it configures the library
(`InitializeThrows`) does the same, since no destructor runs behind it. Which
options are on is chosen in `Init`. The state file
holds one number: one stream.

**ResumableReader** is what the callback behind the client may rely on: number
after number, none left out, and after an interruption on from behind the number
saved, at most `Lag` back; with nothing saved, from somewhere behind everything
that was ever handed over. `SEEDLinkClient` implements it with `Lag` =
`Interval` + 1 under delivered <- `handled`, start <- `since`, saved <- the number
in the file, next <- the payload in hand, else the one behind the connection's
number, else the server's cursor (`NextPayload`).

**Metrics** has the members of the singleton that take `mMutex` as one step each
and their callers as sequences of steps. Windows and averages stand for the set
of packets they were computed from. `WindowedMetrics::update` may throw behind
the count, for samples that do not fit their number: such a packet is counted as
valid and enters no window (`unsummed`). Packets of the converter never take
that branch; that is `EveryPacketTabulates`. Of the clock only the verdicts matter: what
the checks of a packet's times said, whose window has lasted its interval. The
tabulator, publisher and queue are reduced to the order in which they call the
metrics. The exporter reads the counters in the order `Process` registered them.

**StreamSelector** is `streamSelector.cpp` as operators: the setters with what
they refuse, `getSelector`, and `fromString` with its split at single blanks.
Text is a sequence of words with their lengths and capital forms, and the set of
places where it has a second tab, which `fromString` does not erase. `Request`
is what a selector asks the server for, and `Named` and `Selected` the streams a
line names and a selector gets: the reference the properties compare with.

**ProgramOptions** is `parseIniFile`: the initialization file itself, which was
there when the command line was read and may be gone by now, in which case the
program starts with its defaults, a plain channel to localhost:50000; then the
GRPC section, the SEEDLink section, the GRPC section again, one step per test of
a file, reading of a file and setting. `FileChanges` may come between any two of them: the files belong to
others. A setting whose text does not convert is one that is not there, as
`get` has it. Which selectors are duplicates is decided as
`seedLinkClientOptions.cpp` does. `CreateChannel` is what `packetWriter.cppm`
makes of the options: the address, the three fields of `SslCredentialsOptions`,
of which it sets one, and whether a token goes with each call.
`ServerSettingsReachChannel` is about the server's side of it only: its address,
its certificate and the token. What the headers say of the client's key and
certificate, and of a server key, the code does not do: see Findings.

**PacketConverter** is one payload: `miniSEEDToPackets` record by record, the
sort and the callbacks of `packetToCallback`. A record stands for its bytes: its
length, whether libmseed takes it, and what it then says of it. The buffer holds
records up to and beyond the end of the payload, which may cut one in two. The
offset and the bound of the loop are in `SizeBits` bits, as `uint64_t` is in the
code. `ComputeSumAndSumSquared` squares in the type of the sample, `IntBits`
wide for integers.

Operators introduced with "A slip:" are not part of any specification; they are
plausible mistakes in the definition that follows them, used to see that a
property notices.

## Runs

| run | instance | distinct states | shows |
|---|---|---|---|
| packet_path | 3 packets in payloads of up to 2, queues of 2 and 1, a schedule of 1 wait, a transport of 1 | 322,679 | `Conserved`, `NewestIsAdmitted`, `EvictsOnlyUnderPressure`, `Ordered`, the refinement of `LossyFifo`, `FinishNeverHangs`, `GivesUpOnlyWhenSpent` of the publisher, `ShutdownAdvances` of all threads, and `EveryPacketDecided` |
| process | 1 packet, queues of 1, the windows thread | 118,385 | `NoWaitOnFetchedFuture`, `StopsForAReason`, `ReturnsAfterAllThreads`, `SignalEndsProcess`, `FailureEndsProcess`, `ThreadsEnd`, `ShutdownRunsDown`, and the refinement of `PacketPipeline` |
| state_file | 6 payloads, interval 2, any options | 666,204 | `SavedMeansHandled`, `NothingSkipped`, `BoundedReplay`, and the refinement of `ResumableReader` |
| metrics | 2 streams, 2 packets | 95,390 | `TotalsAddUp`, `ReportAddsUp`, `OneWindowEach`, `EveryWindowAveraged` |
| configuration | every GRPC section with files that change; SEEDLink sections of up to two selectors | 52,143 | `ServerSettingsReachChannel`, `EverySelectorAsked`, `NeverTooNarrow` |
| converter | buffers of up to 3 records of 15 kinds, cut anywhere | 148,016 | `OffsetInBuffer`, `PayloadAllOrNothing`, `EveryPacketTabulates`, `SumsExactInRange`, `PayloadEnds`, `PayloadRunsDown` |
| second_exception, delete_on_stop, save_interval, sent_counter, client_certificate, sum_squared | as above | | a documented behaviour the code does not have, see Findings |

Bounds, and why they are enough:

* *Three packets, capacities 2 and 1*: both queues overflow, the import queue
  also while the tabulator is inside its own eviction; every pair of neighbouring
  stages is occupied together. The capacities differ so that a mix-up of the two
  would show. Every safety property of this run is proved for all sizes (below).
* *Schedule of 1 wait*: the code's default has three. One wait takes each branch,
  with a success that resets it. `GivesUpOnlyWhenSpent` is proved for every
  length. Each attempt against a broken stream costs a packet.
* *Window of 1*: `Write` blocks, and a stream that breaks loses what it buffered.
* *One packet in `process`*: what the main thread does depends on the ends of
  the threads, not on how many packets they moved; with a packet each thread is
  caught at every place of its loop. The safety properties are proved for any
  number.
* *Six payloads, interval 2*: two saves in one life, and a save after a life that
  began from one. One selector, since two behave as one does.
* *Two streams, two packets*: one stream's window is reset while the other's
  fills, or a stream's second packet falls between two windows. The run of the
  sent counter takes three packets, with `Streams` a symmetry set; the run with
  a liveness property uses no symmetry. The invariants are proved for any number.
* *Initialization files*: the two sections share no state but the order they are
  read in, so the instance varies one at a time. Two selectors are enough for a
  duplicate; the second is numbered next, in the same setting or behind a gap.
* *Three records of 15 kinds*: a good record of every type, one with each defect,
  and any of them before, between and behind others; three so that a bad one has
  a neighbour on either side. Eight bits stand for both widths: the
  buffer is far below the width of its offset, as in the code (`WidthAssumption`),
  and squares are on both sides of that of `int`.
* Deadlock checks are off: all behaviours are allowed to end, with every thread
  over, the start done or the bound of packets reached. That they end in the
  right place is what the liveness properties say.

### Fairness

* Every thread of the process is scheduled (weak fairness of its next-state
  relation), which covers timed waits: they end.
* The main thread goes through with a shutdown once it began one.
* Time passes, for the windows. The loop of the converter goes on.
* Not fair: that data arrive, the proxy reads, the stream breaks, a signal comes,
  `sl_collect` ends by itself, the retry waits are notified.

The RPC has no deadline (`packetWriter.cppm` 161): against a proxy that keeps
the connection and never again reads, `Write` or `Finish` blocks, and the
program cannot be stopped. `ProxyStalls` says so of a behaviour, and
it is the only excuse the liveness properties of the packet path and the process
admit: in every other behaviour they hold.

## Proofs

Checked with `tlapm`, for every value of the constants under the assumptions
`PublisherAssumption`, `PipelineAssumption`, `ProcessAssumption`,
`ClientAssumption` and `MetricsAssumption` (capacities and window positive,
counts natural, a switch a Boolean, `NoStream` no stream), for the start
`WordsAssumption` and `InisAssumption` (words have lengths and capital forms,
`None` is no setting), and for the converter `RecordsAssumption` and
`WidthAssumption` (records have positive lengths and one sample for each they
announce, a full buffer is within the width of the offset). Every safety
property, action property and refinement that a passing run checks is proved.

| module | theorem | argument |
|---|---|---|
| PacketPipelineProofs | `TypeCorrect` | `TypeInv`: the types, that a thread has a packet in hand exactly where its code does (`HandsFull`), and that the body of the retry loop has an index in the schedule (`RetriesBounded`). Without the last two `Append(queue, hand)` and `kRetry + 1` leave their types. |
| | `NewestAlwaysAdmitted` | each queue has one producer; a consumer only makes room |
| | `FinishNeverBlocksForever`, `GivesUpOnlyAfterSchedule` | `PubInv` adds that a live stream is closed only after the process was told to stop (`ClosesWhenTold`) and that `kRetry` follows the fruitless attempts (`RetriesCount`) |
| | `NothingStartsOver` | behind a stop `StepsLeft` is a measure of the threads together: a payload in hand costs a fixed number of steps for each packet, a queued packet two, and both flags are down (`FlagsFall`), so no way leads back but from a shorter queue; one lemma per thread (`SrcAdvances`, `TabAdvances`, `PubAdvances`). It is the safety half of `ThreadsEnd` and bounds how much a thread still does. |
| PacketOrderProofs | `AlwaysOrdered` | `Ordered` is inductive over `TypeInv`: any stage holds packets younger than those of all stages before it, so each move of a head to the next tail keeps it |
| | `NothingVanishes` | the eleven places partition what arrived; a step enters one packet or moves some from one place to another (`MovedConserves`). A pop takes its packet out of the queue altogether because `Ordered` allows no copy behind it. |
| | `AlwaysUnderPressure` | `FoundFull`: from the `size()` that found the queue full until the `try_pop`, what was evicted, a full queue and the packet in hand fit into what arrived, whatever the consumer takes meanwhile; counted with `Conserved` and `Ordered` |
| | `ForwarderIsLossyFifo`, `ProxyReceivesInOrder` | every step maps to Accept, Drop, Deliver or a stutter of the channel; delivering needs `Ordered`, that the head of the wire is the oldest in flight |
| LossyFifoProofs | `ChannelInOrder` | for the abstract channel alone |
| ProcessProofs | `ProcTypesCorrect`, `NeverWaitsOnFetched`, `OnlyStopsForAReason`, `AlwaysReturnsLast` | `ProcInv` puts together `TypeInv`, `PubInv` and three parts: in a running process a thread ends by an exception only (`ReturnsOnlyWhenTold`); before its shutdown the main thread has fetched no future but that of a thread that threw (`MainRuns`); a future is fetched only when its thread is over, and the joins leave none behind (`MainJoinsAll`), which also carries over the exception out of `stop` |
| | `ProcessRunsPipeline` | every step of the process is one of the pipeline or leaves it alone. `ShutdownInOrder`: what a shutdown has begun it has done when it comes to the joins, and only there an exception leaves `stop`; so the second `stop` changes nothing the threads can see. One lemma per kind of step: threads (`ThreadsRun`), main thread (`MainRunsPipeline`). |
| | `ProcessIsLossyFifo`, `NothingVanishesInProcess`, `NewestAdmittedInProcess`, `UnderPressureInProcess`, `FinishReturnsInProcess` | the promises of the packet path hold in the whole process: a step of it is one of `PacketPipeline` or touches no packet (`StepKinds`), so the inductive invariants of the packet path carry over (`PacketInv`) |
| | `ProcessRunsDown` | from the first join on the steps left of the threads, of the windows thread and of the main thread have a sum that every step lowers (`SumFalls`): the main thread stops at most once more, out of the destructor (`MainAdvances`), the windows thread goes its last round (`WinAdvances`), and for the others it is `ThreadsAdvance` with the flags that `ShutdownInOrder` has down |
| SEEDLinkClientProofs | `ClientTypesCorrect`, `SavedAlwaysHandled`, `NeverSkips`, `ReplayIsBounded` | `ClientInv` adds where the payload in hand and the server's cursor stand (`PositionsAgree`), that a life without a number began without a saved one (`FreshIsUnsaved`), and how far the file may be behind (`CounterBounds`) |
| | `ClientIsResumableReader` | step by step over `ClientInv`: a payload goes from the cursor to the hand to the position without the reader's `next` moving; a reconnect stutters, a kill interrupts, a life with a number resumes and one without begins anew, which `FreshIsUnsaved` allows; the lag is `CounterBounds` |
| PacketConverterProofs | `TypeCorrect`, `NeverReadsPastEnd`, `AllOrNothing`, `EveryPacketUsable` | `ConvInv`: at the head of the loop the offset is the end of a record (`AtRecordEnd`), each record behind it is a packet or counted as failed (`UnpackedPassed`), and in the loop over the callbacks what was called and what is left are the sorted packets (`CallsInOrder`). The unsigned difference does not wrap because the buffer is within its width and the offset within the buffer (`ModSmall`). |
| | `PayloadAlwaysRunsDown` | with `AtRecordEnd` a record read moves the offset on by a positive length within the payload, which counts two of the steps left of the loop (`LoopFalls`); a packet made of it costs one of them back, its call |
| | `SumsAreExact` | both recursive sums agree with the reference at every sample; the squares stay below 2^(`IntBits` - 1), where `Wrapped` is the identity |
| MetricsProofs | `MetricsTypesCorrect`, `CountersAddUp`, `ReportsAddUp`, `AveragedOnce` | the parts read are bounded by the counters they were read from (`PartsRead`), which only grow, the total first; windows hold packets already tabulated (`WindowsHoldThePast`) |
| ProgramOptionsProofs | `TypeCorrect`, `ServerSettingsAlwaysReachChannel` | `ChannelInv`: at each point of the section what is known of address, certificate and token, in either reading, for any change of the files; they are set one after the other and not touched afterwards |
| | `AlwaysDistinct` | a selector is added only if its request is new |
| | `EveryLineAsked` | `AlwaysDistinct`, and `SelectorInv`: what was read so far (`ReadLines`) is asked for and nothing else, and the second pass of the GRPC section leaves it alone |
| | `AlwaysWideEnough` | from `SelectorInv`, and that `FromString` keeps or widens each field of a line it does not refuse |

The sums, the ends of the records in a buffer and the powers of two are recursive
functions. What they are at every index is proved without an induction theorem
that takes a predicate: a set of indices where the claim fails, were it not
empty, would have a least element (`Induction`, from the well-foundedness of <),
and powers of two are numbers of subsets (`PowerDoubles`).

Only model-checked: the liveness properties, which like ENABLED are out of the
prover's reach, and of course the violations below. Of `ThreadsEnd`,
of `SignalEndsProcess` and `FailureEndsProcess` from the first join on, and of
`PayloadEnds` the part that is safety is proved as `NothingStartsOver`,
`ProcessRunsDown` and `PayloadAlwaysRunsDown`: no step of the program leads back
and their number is bounded. That they are taken is fairness, and TLC's.

## Findings

1. **A second exception terminates the program** (`main.cpp` 177). `stop`
   rethrows the first exception out of `start`; `~Process` calls `stop` again
   and the next `future.get()` throws out of a destructor. Two failing threads,
   which one dead network can cause, and a signal end in `std::terminate`
   although the main thread is to "deal with exceptions". The signal is needed:
   it ends the loop before `checkFuturesOkay` looks, which otherwise fetches
   every exception that is there and logs it.
2. **The state file survives `deleteStateFileOnStop`** (`seedLinkClient.cpp` 82).
   The polling thread purges it, then the destructor's `disconnect` saves again.
3. **The state file is written one payload late** (`seedLinkClient.cpp` 392).
4. **Notes on credentials the channel does not keep** (`packetWriter.cppm` 82,
   103; run client_certificate). Of the server certificate `grpcOptions.hpp` 42
   says "The server key must also be set for gRPC to use this": there is no
   server key to set, and the certificate alone makes the channel secure. Of the
   client's certificate and key, lines 45 and 53 say they are for "a full key
   exchange" and that gRPC uses the key when the certificate is set too: they are
   read from their files, the start fails if they cannot be, and the channel gets
   neither. `SomeCredentialNoteHolds` says that one of the two holds of the
   channel; TLC's counterexample, a start with all three files, refutes both.
5. **Sent packets are counted as received ones** (`metrics.cppm` 614).
6. **Squares of integer samples overflow** (`packetConverter.cppm` 151). The
   square is taken in the type of the sample and only then added to a double;
   beyond 46340 it passes the width of `int`, which is undefined and wraps in
   practice, so the variance reported is not that of the samples.

## What is abstracted, and what is not modelled

* The `bool` shutdown flag is raced on. A stale read is the read of a moment
  before the write, since the notification and the atomics that follow order it;
  the read in the predicate can come before or after the write in the model.
* libslink's blocking and dial-up modes, its timeouts and the logging that
  `initialize` sets are passed to it and change nothing the client looks at.
* `std::async` without a launch policy may defer a thread's function until its
  future is fetched. With the standard library of the build it starts a thread,
  and its futures join in their destructors too, in whatever order the members
  are destroyed; the model does not count on that, so that a destructor of
  `Process` without its `stop` breaks `ReturnsAfterAllThreads`.
* Lengths of waits are left out, as is `printSummary`, which only logs.
* A kill in the middle of writing the state file is up to libslink.
* Packet contents in the paths behind the converter: nothing there depends on
  them but the metrics' verdicts.
* The averages: real arithmetic, which TLC has not; windows stand for the sets
  of packets they are made of. The observers of the averages only read them, and
  nothing combines what they read. `setUpdateInterval` is called once, with the
  tabulator running; either value gives a window of a legal length.
* The General and OTel sections of the initialization file are assignments of
  numbers and addresses without an order that matters; that the capacities are
  positive, which they check, is `PipelineAssumption`. `stateFileUpdateInterval`
  is read and never handed on, so that SEEDLinkClient has the interval as a
  constant.
* Setters of the client's options that nobody calls.
* Putting text together or apart (`makeAddress`, source identifiers, times).
* The logger and the log export are output; the version is constants; the
  protobuf API is code generated from the `.proto` files.

What is left of these is output, arithmetic on reals or assignment. Where
`PROJECT.json` lists a hazard without a property its note says why.

Seen while modelling, without a property, because the repository says nothing of
what ought to happen or says it so that it can be read both ways:

* If the library refuses every selector the client asks for all stations, as if
  none had been given (`seedLinkClient.cpp` 220). "If no streams were specified",
  line 219, may mean the options or the connection.
* The comment at `programOptions.cppm` 208-209 shows selectors with dots,
  `UU.FORK.HH?.01`. Such a line is one word, a network of the wrong length, and
  ends the start; no instance has one, but `EverySelectorAsked` covers any line
  that `fromString` refuses: it ends the start, it is never skipped.
* An initialization file that goes after the command line was read means the
  defaults, a plain channel to localhost (`programOptions.cppm` 423).
* Bessel's correction is applied to the standard deviation instead of the
  variance (`metrics.cppm` 299).
* libmseed gives very slow streams a negative rate, and such records are refused
  (`packetConverter.cppm` 245).
* Repeated tabs in a selector shift its fields (`streamSelector.cpp` 292).
* Without `SEEDLink.host` the whole section is passed over
  (`programOptions.cppm` 653).
* The default of the summary interval is read in seconds and kept in minutes
  (`programOptions.cppm` 453).
* Two threads wait on one condition variable with two mutexes (`main.cpp` 225,
  322), which the standard leaves undefined: the models let each wait be
  notified, time out or miss its notification.
