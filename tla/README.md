# Verification of the PUS library

TLA+ models of the TOLOSAT PUS library: telecommand reception, routing and
execution, telemetry, and the services that keep state (time-based scheduling,
housekeeping, files, system), with the model checking (TLC) and the proofs
(TLAPS) of what makes them correct. Paths are relative to the root of the
repository.

## 1. The system

The library is linked into a flight software that provides tasks, signals,
buffers (queues), peripherals and files through `kernel.h` (not in this
repository). Its functions are called by tasks of that software.

| Component | State it keeps | Operations | What is hard |
|---|---|---|---|
| `tc_parser.c` | indices in the RX circular buffer | `ParseBuffer`, `CheckTCValidity` | telecommands cut anywhere, noise, wrap-around, leftovers of the previous lap |
| `tc_management.c` | `read_index`; buffers and signals of the tasks | `ReceiveTC`, `ExecuteTC` (with `ProcessValidTC` and the acknowledgements) | receiver, executing tasks and telemetry sender interleave; full buffers |
| `pus1.c` | none | `BuildS1SS1/2/7/8` | reports built from bytes in two orders |
| `tables_managements.c` | routing and execution tables (constant after `Init`) | `RouteSearch`, `ExecutionSearch`, two `Init` | unsigned binary search, order check |
| `tm_management.c` | telemetry counter, status and TM of the sender | `InitTMSendContext`, `SendTM`, `BuildTM`, `FormatTM` | counter shared without a lock, failing link, TMs that come while the sender runs |
| `schedule_management.c` | schedule file: header and ten list nodes | `PushActivityInSchedule`, `PopActivityInSchedule` | several writes per call to a file that survives a restart |
| `pus11.c` | table file: header and ten slots; enabled flag; delayed TC buffer | TC(11,1) to TC(11,4), `TryReleaseDelayedTC`, `InitS11` | two files to keep in step, clock changes, errors half way |
| `pus3.c` | housekeeping table, cycle | `InitS3`, `EmitHKs`, TC(3,5), TC(3,6), TC(3,9), TC(3,31) | table changed by one task while another walks over it, cycle that wraps, requests that stop half way |
| `pus6.c` | none (files) | TC(6,1), TC(6,3) | requests of several blocks that stop half way, overlap, or are cut by a reboot |
| `pus5.c`, `pus9.c`, `pus17.c` | none | one event, the clock, one echo | - |
| `pus160.c` | initialised flag; the system context, which survives reboots | `InitS160`; TC(160,1) reboot, TC(160,2) choice of a software, TC(160,23) reset of the error report, six requests of reports | the context is read, modified and written back while devices fail and crashes come |
| `crc_computation.c` | none | `computeCRC` | - |

Interactions: the peripheral fills the RX buffer and signals the receiver task;
`ReceiveTC` parses, acknowledges to the ACK buffer, writes the telecommand to
the buffer of a task and signals it; `ExecuteTC` in that task calls the handler
of the service, reports to the ACK buffer and writes telemetry to the TM
buffer; the sender task empties both (`SendTM`). A handler of service 11 writes
the two files; `TryReleaseDelayedTC` takes what is due out of them and writes it
to the delayed TC buffer, which a receiver task of type buffer reads. A periodic
task calls `EmitHKs` on the table that the handlers of service 3 change.
TC(160,1) ends whatever another task is doing, a load of service 6 for instance.

What makes each part correct, in one line each:

* parser: every valid telecommand is found once, in order, whatever the cuts;
* management: each telecommand is run once by its task, and what the ground is
  told about it is true, consistent and eventually complete;
* schedule: a priority queue by date, first in first out among equal dates, and
  a file that no interruption makes dangerous to read;
* service 11: what is released was asked for, once, when due, while enabled;
  the two files agree;
* tables: only ordered tables are searched, and the search is exact;
* telemetry: what a task built arrives in its order, once, numbered so that a gap
  is a loss, well formed, and nothing stays in a buffer;
* housekeeping: reports come at the rate asked for and only when asked for, and
  a request does what its answer says;
* files and context: the answers alone tell the ground what they may hold.

`PROJECT.json` lists the hazards line by line, with the property that would
catch each one, or why none does yet.

## 2. Modules

| Module | Models |
|---|---|
| `Schedule` | `schedule_management.c`: one action per write to the file, one per step of the walk |
| `ScheduleOrder` | observer of `Schedule`: the list as a sequence (`order`), and whether an interruption fell between exposed writes (`torn`); the list invariants |
| `AbstractSchedule` | what a schedule promises: a queue ordered by date |
| `Pus11` | `pus11.c` on top of `ScheduleOrder`, whose actions and observer it shares: one action per write to the table |
| `DelayedCommands` | what service 11 promises to the ground |
| `TcParser` | the peripheral branch of `ReceiveTC` and `tc_parser.c`: receiver and peripheral interleave |
| `TcManagement` | `ReceiveTC`, `ProcessValidTC`, `ExecuteTC`, reports of `pus1.c`: receiver, tasks, ground and sender interleave |
| `Tables` | `tables_managements.c`: the check of a table and the search in it, one action per row looked at |
| `Telemetry` | `tm_management.c`: the tasks that build telemetry (`pus5.c`, `pus17.c`, the reports of `pus1.c`, the handlers) and the sender, one action per access to the counter, to a buffer, to a signal or to the link |
| `Housekeeping` | `pus3.c`: `EmitHKs` and the handlers interleave, one action per access to the table |
| `Files` | `pus6.c`: one action per call of the file system |
| `Pus160` | `pus160.c`: one action per call of a device |
| `Services` | composes `Files` and `Pus160`: a reboot or a crash ends what both are doing |
| `ScheduleProofs`, `Pus11Proofs`, `TablesProofs`, `TelemetryProofs`, `HousekeepingProofs`, `ServicesProofs`, `TcManagementProofs`, `TcParserProofs` | the theorems (section 5) |
| `MC*` | instances for TLC |

State and actions follow the code: a variable has the name of the field or the
local it stands for, an action that of its function when it is the whole of it,
and a name for the write when a function makes several. `pc` (`step` in
`Pus11`) says where the call in progress is, so that another actor, an error
or a power loss may come between any two writes.

What is abstracted, and why it keeps the properties:

* *NULL pointer checks* are left out: no caller of the repository passes one.
* *A file read past its end fails.* `pus6.c:193` relies on it. It is what
  happens to a node index `0xffffffff` and to a slot index past the table.
* *A write of a header, of a node or of a slot is atomic.* Each is one
  `DeviceWrite` of at most one slot. The zero fill of the schedule (232 bytes) is one
  write; that of the table, 512 bytes at a time in the code, is taken slot by
  slot.
* *Calls of service 11 are serialised.* The library takes no lock, so this is
  a hypothesis on the flight software: one task both executes TC(11,x) and
  calls `TryReleaseDelayedTC`. See hazards and plan.
* *Telecommands* are model values with a date; an entry of TC(11,4) whose size
  does not fit is the value `Malformed`.
* *The RX buffer* is made of cells of a few bytes; a cell says whether it
  passes for a packet id and what length it gives where one is expected. The
  CRC is perfect: only a whole valid packet passes. The receiver keeps up with
  the peripheral (`HasRoom`). A declared length beyond the local array of `ParseOneTC`
  (`tc_max`, for TC_MAX_SIZE) writes over the stack before anything rejects it: nothing
  can be said of what follows, and the model stops there (`Overrun`, pc "outside").
* *Signals* (external) are flags, as their names are bits of a mask
  (`pus_constants.h:26`): two signals that come before the task runs are one.
* *The packets between receiver and tasks* keep their identity and their byte order, in
  every buffer and every hand they go through; `about` in a report, which is auxiliary,
  is the telecommand that occasioned it, so that the two can be compared.
* *Tables* are their keys; what a row holds besides is its index. `length_t` is taken
  no wider than the indices (`MaxSize < Word`).
* *The copy of the write index* that `ReceiveTC` makes before its loop is
  an action of its own (`CountReceived`): what arrives later is for the next call.
* *Failures of DeviceIoctl on a buffer* (`IOCTL_BUFFER_GET_RECEIVER`,
  `IOCTL_BUFFER_GET_COUNT`) are left out of `TcManagement`; `Pus11`
  (`SignalFails`), `Telemetry` and `Housekeeping` (`SignalSender`) have the one
  that follows a write.
* *A telemetry* is its number, its byte order, the bytes its CRC was computed over and
  the field its size was computed from. The 14 bits of the count and the 2 bits of the
  flags above it are kept as they are in the word (`Quarter` for 2^14), and so is the
  18-bit mask that lets the count carry into the flags. The increment without a lock
  may write one more than the value read before or than the value now. A task builds
  TMs of two kinds, reports and others, each kind with its buffer (`BufferOf`), and
  may hold one of each: `ExecuteTC` builds the TM of the handler, then builds and
  writes its report, then writes the first (`After`).
* *Housekeeping parameters* are an identifier, a status and a rate; `sound` stands
  for a size and a pointer that `InitS3` accepts. The cycle wraps at
  `CycleModulus` in place of 2^32. A request tells whether N announces more items than
  a TC has room for; N larger than the items sent, but within a TC, is left out
  (the code then reads what the buffer held before).
* *Files* are made of cells; a header of a block takes one cell and so does each
  datum. The bounds are checked with sums that wrap at `Word`, in place of 2^32
  (`Sum32`); a length they let through by mistake ends the handler (`Overrun`, pc
  "outside"), as what a `memcpy` or a read out of its array does is undefined.
  `length_t` is taken as 32 bits. A write that fails may have written any prefix of
  its data, none and all included. Any call may fail, and a `DeviceClose` that failed
  has left its device open (`notClosed`).
* *The system context* is four parts: the state, the two software identifiers, and
  whether the error part is filled. A write of it that fails has been done or not.
  The contents of the reports of service 160 are not kept.
* *What the ground knows* (`known` in `Pus160`, `loaded` in `Files`) is
  computed from the requests and their answers only, never from what the handlers do
  inside, so that it can be compared with what they did.

## 3. What the runs check

Every property of a passing run has a mutant of the code in the module (the
definitions commented "Mutant"), listed in `PROJECT.json`, that TLC finds to
violate it. `CHECK_DEADLOCK FALSE` is set where the system really may stop: a table
may be refused for ever (`tables`); the ground has a bounded number of packets or
telecommands (`MaxPackets`, `SentLimit`) and the tasks a bounded number of
telemetries (`MaxTM`), and the system stops when they are processed
(`tc_parser`, `tc_management`, `telemetry`). The others never stop.

### schedule

Three nodes, two dates and two payloads: enough for an insertion at the head, between
two nodes, at the tail and among equal dates, for the write index to wrap and skip
occupied nodes, for a full schedule, and for a list with a head, a middle and a
tail to be cut at each link. `Interrupt` comes up to twice (`InterruptionLimit`)
between two resets: at any point of a call the next device access fails or
the power goes; the file keeps what was written.

`ListIntact` holds at *every write*, not only between calls: `order` is the list,
links agree in both directions up to the one or two that the write in progress has not
made yet, dates do not decrease, the header's head and count agree; and it says
precisely which interruptions are harmless: between the writes named `Exposed` in
`ScheduleOrder` the file is inconsistent (`torn`), anywhere else the list stays
intact. `NoNodeLeaks` (occupied nodes are those of the list and the one being
inserted) and `NoErrorWithoutFault` (no full circle, no full lap, no read past the
end) are claimed as long as no call was interrupted since the last complete reset: an
interruption may leave an occupied node that is in no list, and they say that a reset
cures what it left. `ScheduleTypeOK`: every index in the file names a node or none, so
no later access is computed outside the file. `CallReturns`: every call ends, also on
lists made circular (a zeroed node's next is node 0). `ImplementsQueue` maps the file
to `AbstractSchedule` (the sequence of activities; what was delivered last): a push
inserts after all the activities that are not later, a pop takes the first one, which
is due, and an interruption changes nothing or tears the queue until the next reset.

### pus11, and two violations

Three telecommands of two different dates, three slots and three nodes (equal, as
in the code: 10 and 10), requests of up to two entries, a delayed buffer of one,
a clock that TC(9,128) may set forward or back between any two steps, and one
fault (`FaultLimit`) between two complete TC(11,3): an error at any write, a
failed signal or a restart. (`InterruptionLimit`, the bound that `ScheduleOrder` puts
on the interruptions between two resets, is no lower, so that it excludes none
of them.) `ActivitiesHaveTheirTC`: until a fault every activity has
a slot of its own that holds the telecommand of its date. `CountsAgree`:
between calls the table counts its used slots. `DataCountCoversSchedule`: even
after a fault the table never counts fewer telecommands than the schedule
holds, so the unsigned count is never decremented below zero. `KeepsPromise` is the
refinement of `DelayedCommands`: only pending telecommands are released, at most
once, not before their date and only while enabled, and what is released goes
to the buffer or, if that is full, is lost. `ServiceAnswers`: every call ends.

* `pus11_allocation` (violation): the loop of `AllocateDataSlot` has a condition
  that is false at once and the write index never wraps. After as many
  allocations as there are slots, every TC(11,4) fails until TC(11,3).
* `pus11_on_time` (violation): with one fault, and a clock that never goes back.
  `PopActivityInSchedule` zeroes the oldest node (`schedule_management.c:379`) before
  it writes the header (line 400). Interrupted in between, the header still points to
  that node, which the next pop reads as an activity of date 0, in slot 0: it is due,
  and the telecommand in slot 0, whose own activity is still in the list, is released
  before its date.

### tc_parser, and one violation

Valid packets of two and four cells, one that has no route, noise without a header
whose bytes, read as a length, exceed the parser's array, and corrupted packets with a
false header in the middle whose declared length reaches far into the packets behind;
up to four packets in a buffer of eight and an array of six, hence up to two laps,
with each possible cut between two calls. 86,806 states. `AcceptedOnceInOrder`: no
packet is parsed twice or overtakes another. `NoFalseNack`: valid packets only, no
TM(1,2). `EveryTCAccepted`: each valid packet that is in the buffer while the receiver
is told of data, or parses, is then accepted, with three exceptions that the property
names and the code has:

* a telecommand before it that cannot be processed ended the loop of `ReceiveTC`, and
  no signal has come since (pc "left"): it is left behind;
* a false header before it declares more than has come (`HeldBack`): `HasFullTC` answers
  that it is partial, the parser waits, and everything behind it waits too;
* a declared length beyond the parser's array (`Overrun`): the code corrupts its stack. A
  telecommand cut after its packet id, or a false header, reads such a length from what
  the buffer held before.

All packets have an even number of cells and packet ids on odd ones, so that no false
header falls on the last place of a buffer of eight; outside this restriction the code
fails in a fourth way:

* `tc_parser_edge` (violation): a false header on the last place of the buffer, with a
  length that fits the array, is rejected, and `read_index` becomes `buffer_size`:
  `FindTCHeader` looks for a packet id behind the buffer and, unless the memory there
  passes for one, goes on at place 1. A valid telecommand that begins on place 0 is
  never accepted.

### tc_management, and one violation

Two tasks; six telecommands of which the ground sends any three (`SentLimit`): three
for one task, one for the other, one without a route and an incorrect one. One
handler succeeds, one may succeed or fail without an error code, one fails, and one
telecommand is not in the execution table. The buffers of the tasks and of the reports
hold two, that of telemetry one, and all overflow. The receiver reads a peripheral,
parsing all that had arrived when it looked, or a buffer, taking one telecommand per call
(`RxTypes`); all signals are flags. 341,394 states.

`ExecutedAsForwarded`: what a task was given is what it ran, then what it has in
hand, then what is in its buffer, in order. `ReportsConsistent`: each telecommand
occasions at most one acceptance and one execution report, in this order, though
three tasks write them. `ReportsTruthful`: TM(1,7) only after a success, TM(1,8)
only after a failure, and what was refused is never run. Both speak of the telecommand
that occasioned a report (`about`), for every report. `ReportsNameTheirTC`: the
telecommand that a report names, after the conversions of its byte order and its way
through a buffer and a task, is the one that occasioned it, with one exception, the
TM(1,2) of an incorrect telecommand (next run).
`EveryTCReported`: each correct telecommand that was sent ends in a TM(1,2), (1,7) or
(1,8), although `nb_message` is read before the handler runs and is old when
it is used, except where the code leaves the ground without an answer:

* the buffer of its task, or that of its report, was full;
* its handler failed without an error code, or succeeded and no TM(1,7) was asked for;
* it is in the buffer of a task whose last call ended on an error, and no signal has
  come since (`LeftInBuffer`);
* it has arrived, and no signal has come since: the last call of the receiver ended on
  an error, or two signals were one and the receiver reads a buffer (`LeftInRx`).

* `tc_management_refused` (violation): `ParseBuffer` leaves `tc` alone when it fails,
  and the TM(1,2) that `ReceiveTC` then sends is built from the telecommand parsed
  before it in the same call. A correct telecommand is given to its task and refused;
  of the incorrect one nothing is said.

### telemetry

Two tasks that build telemetry and two buffers of two: one task writes its reports to
one and its other TMs to the other, the second task writes both kinds to the first. Up
to three telemetries in all (`MaxTM`) and a count modulo 2 (`Quarter`), so that the
count wraps and carries through the flags. 531,681 states. The link may send, fail, or
answer that it is not available; each open, write, read and signal may fail.
`OrderKept`: what the ground receives of one task and one kind comes in order and
once. Between the two kinds no order is kept, as `ExecuteTC` writes its report before
the TM that its handler built first (`tc_management.c:272-286`), and the sender goes
round the buffers. `NumbersConsecutive`: as long as no two tasks were in `BuildTM` at
once, the n-th telemetry has the number n - 1, the carry into the flags
notwithstanding; when they overlap, two may have the same number (below).
`WellFormed`: byte order, CRC and size are those of the bytes sent, though `FormatTM`
swaps the field that the size is computed from and works in place on a context that is
used again. `EveryTMLeaves`: nothing stays in a buffer, unless its signal failed, or a
failed read of a buffer (`ReadFails`) or a failure of the link ended `SendTM` with its
signal consumed; a telemetry written to a buffer that the sender has passed is caught
by its own signal.

### housekeeping

Tables of three lines with rates 1 and 3 and a cycle modulo 4, which no rate of 3
divides, so that the wrap changes the phase; five tables that `InitS3`
refuses; 24 requests, among them identifiers that do not exist, that mean
every line or that come twice, rates of zero, and N too large; TM(3,10) with room
for two. `NeverLate`: an enabled line is reported at least once in as many calls as
its rate, whatever the ground changes in other lines, wherever a telecommand
falls within a call, and at the wrap; a failure excuses the lines it cut.
`EmittedIfAsked`: no report of a line that was not enabled and due at some moment of
the call. `RequestApplied`: against `Wanted`, which states what a request
asks for without a loop: the items up to the first wrong one, the last of two for the
same line, and nothing else, and the answer tells so. `HousekeepingTypeOK`
includes that the service never divides by a rate of zero.

### services

A file of two cells and loads and dumps of two blocks that overlap, pass the end of
the file, of the TC or of the TM, or whose length makes the sum wrap (`Word` is 8);
two software images and nine requests of service 160; `InitS160` may come again
between two requests; any call of a device fails, and a reboot or a crash comes
between any two. 4,298,112 states. `ServicesTypeOK`: a handler leaves its TC, its
array or its TM only by a length whose sum wraps. `FilesAsLoaded`: after a load
answered as executed each cell holds the last datum sent for it; after one that failed
or was not answered, that or what it held before. `DumpFaithful`: a dump that succeeds
holds what the sections hold. `DevicesClosed`: the device of a request is open while
it works, and afterwards only if `DeviceClose` failed, which no answer tells.
`ContextAsCommanded`: each part of the context holds the value of the last request
answered as executed, or of one since then that may have been done; after a reboot
with no failed device, the state asked for, and SAFE when the request was malformed.
`SilentOnlyOnDeviceFailure`: a handler of service 160 that fails with NO_ERROR, for
which no TM(1,8) is sent, has met a device that failed.

### tables

Every table of up to five rows with keys 0 to 6, and indices of three bits
that wrap as those of 32 do. `AcceptedIsUsable`: what passes the check has increasing
keys and every device open, although three reasons end the same loop.
`SearchIsExact` and `ReadsInside`: the search finds exactly the keys
that are there and reads no other memory, although `right` becomes the greatest
index when it goes below zero. `SearchEnds`. `ExecutionSearch`, and
`GetLinenoFromHKID` of `pus3.c`, are the same text.

### Divergences seen in the code without a run

Telecommands:

* A full table makes TC(11,4) skip an entry, set an error code and still return
  `RET_SUCCESSFUL` (`pus11.c:498`; action `EntryDropped`).
* The TM(1,2) of an invalid telecommand that comes first in its call is built from
  zeros (`tc_management.c:145`; `Rejected`). From a buffer, it
  is built from an unformatted telecommand: packet id and sequence come out
  with their bytes swapped (`tc_management.c:167`).
* A telecommand whose processing fails ends the loop of `ReceiveTC`; what is
  behind it waits for the next signal (`tc_management.c:132`; `LeftInRx`). So does a
  telecommand in a buffer whose signal came together with another one, as a call reads one
  (line 153).
* The parser copies as many bytes as a header declares to an array of TC_MAX_SIZE
  before it looks at the length (`tc_parser.c:345`; `Overrun`). `HasFullTC` then
  refuses only what exceeds the buffer, which is larger.
* A handler that fails and leaves `PUS_EXECUTION_NO_ERROR` gets no TM(1,8):
  `BuildS1SS8` refuses the code (`AfterHandler`, outcome "silent"). TC(11,3) does so
  when service 11 is not initialised (`pus11.c:251`), and TC(160,x) when a device
  fails (`pus160.c:171`).
* A telecommand is acknowledged before it is written to its task's buffer; if
  this is full it is dropped without another report (`tc_management.c:365`;
  `ForwardTC`).
* `InitS11` is documented to return always success (`pus11.h:118`) and does not;
  `InitTMSendContext` is documented to return `RET_ERROR` and returns
  `RET_SUCCESSFUL` when its device fails, with the status in error
  (`tm_management.h:65`).

Telemetry:

* The increment of the counter in `BuildTM` takes no lock: two tasks may number
  two telemetries alike (`tm_management.c:131`; `CountTM`). Its mask has 18 bits,
  so that from 0x4000 on it adds to the sequence flags, the sum being cut to
  16 bits (`Sequence`).
* `SendTM` takes RET_NOT_AVAILABLE of the link for an empty buffer and returns
  success, and the telemetry is lost (`LinkNotAvailable`). Its inner loop goes on
  while its buffer has messages: a fast producer keeps the later ones waiting. A read
  of a buffer that fails ends it with the signal consumed (line 98; `ReadFails`).
* The TM of a handler has a lower number than its report and leaves after it
  (`tc_management.c:272-286`; `After`).

Housekeeping:

* TC(3,5) with an identifier that does not exist returns `RET_NOT_AVAILABLE`
  where `pus3.h` documents `RET_INVALID_PARAM`.
* An error while a line is emitted ends `EmitHKs`: the lines behind it
  miss the cycle, which is counted all the same (`WriteTM`, `SignalSender`).
* `EmitHKs` reads the rate and then the status of a line without a lock: a
  TC(3,31) between them lets a line through by its former rate (`ReadRate`).
* N larger than the items sent makes the handlers read what the buffer held before, in
  services 3 and 6 alike. TM(3,10) copies the whole entry, its pointer included.

Files and system:

* `ExecuteS6SS3` returns an undocumented `RET_NOT_AVAILABLE`. The sums that the bounds
  are checked with wrap (`pus6.c:66`, `69`, `176`; `Overrun`): a length close to 2^32
  passes, and the `memcpy` or the read leaves its array.
* The result of `DeviceClose` is ignored (`pus6.c:111`, `235`): a request is answered as
  executed and its file stays open.
* `InitS160` has no guard: called again, it turns a service that works into one in error
  when a device fails (`pus160.c:45-75`; `InitS160`).
* TC(160,1) copies the software state without the check that TC(160,2) makes: any
  value reaches the context (`pus160.c:117`; `StateToReboot`).
* `BuildS160SS18` and `BuildS160SS20` hand `BuildTM` the address of their own
  parameter instead of the context (`pus160.c:587`, `612`); the reports of TC(160,19) and
  TC(160,21) carry subservice 18 (`612`, `638`); the loop of `BuildS160SS38` runs to
  the size of the report in bytes instead of the number of tasks (`725`).

## 4. Fairness

* `WF(Continue)`, `WF(ServiceContinues)`: a call once started is carried on by
  its task. Nothing is assumed on when calls start.
* `WF(ReceiverStep)`, `WF(TaskStep(t))`: a task waiting for a signal runs when
  it has one, and goes on until it waits again. `WF(PeripheralWrites)`: a packet
  begun on the uplink is sent to its end. `WF(SenderStep)`, `WF(Sender)`: the
  sender empties its buffers. `WF(Produce(p))`: a task that has begun a telemetry
  finishes it; none has to begin one. `WF(SearchStep)`: a loop goes on.

None is strong: no action is enabled and disabled for ever by another actor.
`Housekeeping` and `Services` state no liveness, hence no fairness: a crash or a
reboot may always come, and `NeverLate` counts the calls of `EmitHKs` instead.

## 5. What is proved

For every value of the constants under these assumptions, which TLC evaluates in each
run: `ScheduleAssumption` (at least one node, `UNEXISTING_NODE_INDEX` not a node, 0 a
possible date and payload, as a zeroed node holds them), `TablesAssumption` (`MaxSize`
below `Word`, natural keys), `TelemetryAssumption` (at least one buffer, with room,
each task writing to one of them per kind of TM it builds), `HousekeepingAssumption`
(well-formed tables and requests), `FilesAssumption` and `Pus160Assumption`
(well-formed telecommands; 0 is what a cell may hold), `TcManagementAssumption`
(routes to tasks or to none, at least one outcome of each handler, buffers with room),
`Pus11Assumption` (at least one slot, a date for each telecommand, a delayed buffer
with room, unsigned counts wider than the table), `InterruptionAssumption` and
`FaultLimit` (any natural bound), `TcParserAssumption` (an array of the parser smaller
than the buffer, as `InitTCReceiveContext` checks; a declared length of at least the
headers, as `EXTRACT_TC_LENGTH` adds them; a valid packet begins with a packet id and
its length, which says its size, and fits the array).

* `FaultyTypeCorrect == FaultySpec => []ScheduleTypeOK` (`ScheduleProofs`). The
  type invariant is not inductive as it stands: that `nb_activities` does not
  exceed the number of nodes when it is incremented needs to know what the
  call in progress saw when it started, and that it is not decremented below
  zero likewise; the strengthening, `CallFacts`, says this and which of the locals
  name nodes at which step. It holds with interruptions
  anywhere, for every size.
* `ListStaysIntact == OrderedFaultySpec => []ListIntact` (`ScheduleProofs`),
  in two halves. Between two calls and at each write, `order` has no
  repetition, is linked, sorted and counted by the header, except for the
  links in progress; the walk is at a position of `order` such that all before it
  are not later. A push then adds the node in the gap it found, a pop removes
  the first. Interruptions at a write that is not `Exposed` leave the file as it
  was; the others set `torn`, under which nothing is claimed until the
  next reset. The inductive invariant (`ListInv`) is `ListIntact`, which already says
  what the list looks like at each step (`NewNodeAside`, `WalkPosition`,
  `InsertionPoint`), with the type invariant and its strengthening beside it: the
  indices a step follows must be known to name nodes.
* `NodesNeverLeak` and `ErrorsComeFromFaults` (`ScheduleProofs`), inductive together
  (`CleanInv`). A schedule that is not full has a node to give (`FreeNodeExists`) because
  the occupied nodes are those of `order`, which the header counts: this is why the
  search of `GetAvailableNode` always ends on a node, the walk on a position, and
  no read passes the end of the file while no call has been interrupted. Both theorems
  claim nothing after an interruption, exposed or not, until the next complete reset.
* `FileImplementsQueue == OrderedFaultySpec => ImplementsQueue` (`ScheduleProofs`). Under
  `QueueInv` (the list invariant, and a torn file stands for the empty queue) each
  write maps to a step of `AbstractSchedule` or to none: a push is done at its last
  write, of the header (`CountIsPush`), a pop at its first, of the oldest node
  (`FreeIsPop`), an interruption that tears the file is the loss of the queue
  (`InterruptBreaks`), and every other write changes nothing of it (`WorkIsUnseen`).
* `Pus11TypeCorrect`, `CountCoversSchedule`, `ActivitiesAreOwned`, `CountsStayEqual`
  and `ServiceKeepsPromise` (`Pus11Proofs`), all from `Pus11FaultySpec`, that is with
  errors at any write, failed signals and restarts. What the schedule does within a
  call is not proved again: each step of the service is a step of the schedule or
  leaves it alone (`ScheduleStep`), so that `ListInv` carries over. The first two come
  from `Pus11TypeInv`: at which step of the service the schedule may be at which step
  of its own (`Phases`), and that the table's count is ahead of the schedule's by the
  one in hand (`CountsApart`: it goes up first and down last, so that a fault between
  leaves it too high and never too low). The next two need `OwnedInv`: as long as
  there was no fault, each activity has a slot of its own, the slot that the call in
  progress fills or empties belongs to no activity, and no telecommand is in two
  slots. The refinement of `DelayedCommands` rests on it: a push that ends is an
  addition (`pending` is what the slots of the scheduled nodes hold), the freeing of
  the oldest node is a release, which is due, and the earliest because the list is
  sorted. A fault suspends the promise up to the end of the next TC(11,3), from which
  it holds again.
* `AcceptedTablesAreUsable`, `ReadsStayInside` and `SearchAnswersExactly`
  (`TablesProofs`), for every table, every key and every `Word` above the size
  of the table. The inductive invariant says that the rows
  before `i` were seen in order while the table is checked, and that during a
  search (`Narrowed`) every row before `left` is below the key, every row after
  `right` above it, and `right` is a row or the wrapped -1, in which case `left`
  is 0. `MiddleBetween` is the arithmetic: the middle of two indices in order
  does not wrap.
* `TypeCorrect`, `NeverLateHolds` and `EmittedIfAskedHolds` (`HousekeepingProofs`).
  That an age is below the rate is not inductive: at the wrap of the cycle, which
  the rate need not divide, the argument is that a line is younger than its
  place in its period (`YoungAt`: the cycle is a multiple of the rate, or the age is below
  the remainder), and that the remainder grows by one or falls to zero
  (`NextRemainder`), at the wrap as elsewhere. During a call the lines passed are served
  or need nothing (`ServedSoFar`), through every write of the other task
  (`WriteLineKeeps`).
* `RequestAppliedHolds` (`HousekeepingProofs`). `Wanted` says without a loop what a
  request asks for: which items are honoured is a maximum over prefixes, and the last
  item that names a line decides. The invariant (`Applying`) turns this into what the
  loop knows at item `i`: the items still to do make of the table, as it is now, what
  is wanted (`ToDo`), the report has the lines read so far (`Reported`), and the
  identifiers of the lines never change. That the maximum exists is the
  well-foundedness of the naturals.
* `FilesAsLoadedHolds`, `DumpFaithfulHolds` and `DevicesClosedHolds` (`ServicesProofs`).
  The invariant follows a load block by block: each cell holds what it may have
  held, if no block so far covers it, or the datum of the last that does
  (`LoadedBefore`); after a failure or a restart it holds one of these or another
  datum of the request (`LoadedInPart`). Every path tries to close what it opened; what is
  open after an answer is `notClosed`.
* `ServicesTypeCorrect` (`ServicesProofs`): beyond types, no block is read past the TC
  nor written past the TM (`Room`), unless its length wraps the sum that its bound is
  checked with: the offset moves only by what is `Inside`, and what passes `Fits` and
  is not reaches `Word`.
* `ContextAsCommandedHolds` and `SilentOnlyOnDeviceFailureHolds` (`ServicesProofs`). The
  context changes in the last step of a handler only, so that before it the context is as
  known, and after it as asked, or as known or asked when a device failed
  (`Progress`); the copy a handler writes back is still the context
  (`Handlers`), because one handler at a time runs and a crash ends it.
* `TypeCorrect`, `OrderKeptHolds`, `NumbersConsecutiveHolds` and `WellFormedHolds`
  (`TelemetryProofs`). Everything on its way is sound (`OnTheWay`), the ground is
  ahead of the sender, that of the buffers, these of the tasks, for each task and each
  kind of TM by itself (`Ordered`): a task may hold two at once (`Hands`), but of
  different kinds, and the counter is the number of telemetries counted while calls do
  not overlap (`Counts`). `CountOfSequence` is the arithmetic of the carry: the 14
  bits below the flags are right although the sum overflows into them.
* `ExecutedAsForwardedHolds`, `ReportsTruthfulHolds`, `ReportsNameTheirTCHolds` and
  `ReportsConsistentHolds` (`TcManagementProofs`), for any number of tasks and
  telecommands and any buffers. None is inductive: a telecommand is in one place only
  on its way to its task (`OnTheWay`), a task has what it was given in order, each
  packet in the byte order of the processor and with its identity, in its hands and in
  its buffer (`InOrder`), and what it has to report was just run and is not reported
  yet (`JustRan`, `Reporting`). A report, once true, stays so (`StillTold`: what was
  run stays run, and no telecommand comes back), and two reports about one telecommand
  agree because nothing is reported of one that is still to be read (`NothingYet`) or
  to be run (`NotRunNotReported`). All but `ReportsNameTheirTC` are about the
  telecommand that occasioned a report, without exception; the one it names is that
  one, but for the TM(1,2) of an incorrect telecommand (`Told`).
* `TcParserTypeCorrect`, `AcceptedOnceInOrderHolds` and `NoFalseNackHolds`
  (`TcParserProofs`), for any buffer, any packets and any number of laps, with no
  hypothesis but the specification. Everything is said of the cells that are not
  parsed yet, counted from the read index (`Nth`, `Unread`), so that the arithmetic
  modulo the size of the buffer is done once (`AheadMoves`, `AheadGrows`): the reader
  drops cells at the front, the peripheral adds one behind. The unread cells come in
  the order sent (`UnreadInOrder`) and what was accepted is before them
  (`AcceptedBefore`). The state that `SkipOne` leaves behind the last place does not
  break this: a header is rejected only when as many cells as it declares have
  arrived, two at least, so that the write index is not 0 (`EndFits`) and the places
  from the first one on are new; telecommands may be lost there (run
  `tc_parser_edge`), never accepted twice. While only valid packets come, the read
  index is at the start of a packet and the unread cells are contiguous (`NoNoise`),
  so that what `FindTCHeader` finds is at offset 0 and is a valid telecommand or the
  beginning of one (`NothingRejected`); of a beginning whose length has not arrived,
  what is read there is a length that waits, or one that overruns the array, after
  which nothing is rejected.

Model-checked only: liveness (`CallReturns`, `ServiceAnswers`, `SearchEnds`,
`EveryTCAccepted`, `EveryTCReported`, `EveryTMLeaves`), which needs fairness and
`ENABLED` and is out of the prover's reach. Every other property of a passing run
is the subject of a theorem.

## 6. Plan

Done: `Schedule`, `Pus11`, `TcParser`, `TcManagement`, `Tables`, `Telemetry`,
`Housekeeping`, `Files` with `Pus160`, and the proofs about each of them.

Next, in this order:

1. `ConcurrentPus11`: the release task and the executing task on the
   same files without a lock; which interleavings keep `ActivitiesHaveTheirTC`.
2. The parser with the repairs its findings call for (the read index that wraps, the
   length checked when it has arrived and before the copy): two exceptions of
   `EveryTCAccepted` should go.
3. `InitS11` on incomplete files, as an action.
4. `Telemetry` in place of the sender of `TcManagement`.

### Not modelled

`crc_computation.c` is bit arithmetic over bytes, taken as perfect by `TcParser`;
`pus_types.h`, `pus_constants.h` and the build files have no behaviour; the bytes
of the reports of services 3 and 160 are not kept. `pus5.c`, `pus9.c` and `pus17.c`
keep no state: the first and the last are one call of `BuildTM` each, a producer of
`Telemetry`, and the effect of the second on the rest is the clock of `Pus11`. NULL
pointers are outside every model. What the code does once it wrote or read out of an array
is not followed: the models stop there (`Overrun` in `TcParser` and `Files`).
