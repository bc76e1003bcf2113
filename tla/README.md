# A TLA+ model of slsdet

slsdet is an asyn port driver for Jungfrau detectors that are controlled with the
slsDetectorPackage of PSI. Its core is a port whose single thread serves the requests of an
EPICS IOC, and one driver per detector module whose worker thread makes the library calls.
Around it are the record database, the iocsh command that configures the ports, and the
headers of slsDetectorPackage 4.1.1, of which the functions with a body in the repository are
modelled too. This directory holds the specifications, the TLC configurations that check
them on small instances, and proofs that `tlapm` checks for every value of the constants.

## Inventory

| component | source | state | operations | modelled in |
|---|---|---|---|---|
| SlsDetMessage | `slsDetMessage.{h,cpp}` | message type, data type, a union | constructors, set, get, as | `SlsDetMessage`, `SlsDetMessageCell` |
| SlsDetDriver: the caller's side | `slsDetDriver.cpp` 541-600 | `_request`, `_reply`, `_pending` | `request`, `flush`, `reply` | `SlsDetDriver`, `RequestReply` |
| SlsDetDriver: the worker | 55-534, 602-826 | `_det`, the library's error mask | `run`, `initialize`, `process`, the handlers | `SlsDetDriver`, `SlsDetHandlers` |
| SlsDetDriver: its end | 38-53, 567-589, 828-836 | `_running`, shared memory, string cache | destructor, `stop`, `shutdown`, `cacheStr` | `SlsDetLifecycle` |
| SlsDet: the port | `drvAsynSlsDetPort.cpp` | parameters, `_dets` | `connect`, `disconnect`, reads, writes, the ENABLED switch | `SlsDet` |
| SlsDet: its end | 15-18, 221-235, 346-353 | | exit handler, destructor, `shutdown` | `SlsDetLifecycle` |
| enumerations | 56-164, 355-371, 732-787 | constant tables, a scratch buffer | `updateEnums`, `readEnum` | `SlsDetEnums` |
| SlsDetConfigure | 790-808, 264 | the ports, ids of shared memory | splits the hostnames, numbers the modules | `SlsDetConfig` |
| records | `Db/slsDetector.template` | switch, status, poll | I/O Intr processing, forward links, the poll | `SlsDetRecords` |
| names of the package | `sls_*_defs.h`, `slsDetectorBase.h`, `slsDetectorUsers.h` | constant tables | value to name, name to value | `SlsDetDefs`, `SlsDetNames` |
| function numbers | `sls_*_funcs.h` | constant lists | | `SlsDetFuncs` |
| error masks | `error_defs.h`, `multiSlsDetectorCommand.h` | a mask per module, one for all | raise, tell, combine | `SlsErrors` |
| fileIO, fileIOStatic | `fileIO.h`, `fileIOStatic.h` | members, mutex, file names, data files | setters, getters, names, readers, writers | `SlsFileNames`, `SlsFileIO`, `SlsDataFile` |
| bad channels | `badChannelCorrections.h` | a list | two readers | `SlsBadChannels` |
| stream and readout switches | `slsDetectorUtils.h`, `slsDetectorBase.h`, `postProcessing.h` | streams, flags | enable, set ports and modes | `SlsDetUtils` |
| compiled library, asyn, EPICS base | outside | registers, error mask; connection state; ring buffers | | external choices |
| build files | `Makefile`s, `configure/` | | | no behaviour at run time |

How they interact. asynManager runs every handler of the port, for all its addresses, on one
port thread. A handler that needs the module calls `request()` of the driver of its address,
which puts a message into `_request` and blocks on `_reply`, each for at most a timeout. The
worker takes messages from `_request`, makes the library call and puts an answer into
`_reply`, without a timeout. A timeout leaves an answer behind: `_pending` counts it, and
`flush()` throws it away before the next request is sent. Whatever the port learns goes into
parameters and, on a failure, into `uninitialize()`, which drops the connection. Parameters
reach the records through callbacks; a record computes from the switch and the status whether
to poll, and the poll is what makes asynManager call `connect()` again. The exit handler of
the IOC calls `shutdown()` from a thread of its own.

What is hard about it: a caller that gives up while the worker goes on; a counter kept in two
functions that decides which answers are thrown away; an error mask that stays set until some
handlers clear it; an initialization that fails half way; a count shared by all addresses and
written back after a blocking call; one thread that every address depends on; an object that
three threads may delete; a string that the worker owns and the port copies; a status that may
be lost on its way to the record that decides about the poll; setters that unlock before they
read their result. `PROJECT.json` lists these hazards line by line, with the properties that
cover each.

## Modules

### The driver

- **`SlsDetMessage`**: message and data types, messages, the accessors that check the data
  type. A payload is an integer; a Float64 counts tenths of a millidegree.
- **`SlsDetMessageCell`**: the same class with its storage: a union that queues copy, and a
  string that is a pointer to somebody else's text.
- **`SlsDetHandlers`**: `process()` and its handlers as functions of the request, the return
  value of the library and the error mask. The sixteen handlers differ in three ways only: the
  type of the answer, whether they compare the return value (`Verifying`) and whether they
  forgive the sub-detector's own error bit (`Forgiving`).
- **`SlsDetDriver`**: the drivers of a port.
  - `RequestBegin` .. `RequestReturn` are `request()` and `flush()`, one action for every
    point where another thread can come between;
  - `WorkerReceive`, `WorkerInitialize`, `Process*` and `WorkerReply` are one round of `run()`;
  - `Trouble` is the module: while it is in trouble, calls may be slow (so timeouts may
    fire), lose writes, set any error bits, throw or find too few sub-detectors. A module out
    of trouble answers and may only refuse a value.
  - A message carries the serial of its `request()`. The code has none; the properties use it
    to tell whose answer an answer is.
- **`RequestReply`**: what `request()` promises, with no queue, no counter and no worker. A job
  is handed over, served at most once, truthfully, and answered to the call it belongs to, or
  dropped. `SlsDetDriver!RPC` maps a driver to it.
- **`SlsDetLifecycle`**: one driver again, with what `SlsDetDriver` abstracts from: who owns the
  detector object, its shared memory, the strings and the queues. `shutdown()` takes no lock,
  so each of its four steps is an action, for each of the three threads that run it: the exit
  handler, the thread that deletes the port, and the worker inside `initialize()`. A call of
  the library is a point at which the worker rests. A use of something deleted is undefined
  behaviour: `mishap` records it and the model stops there.

### The port and its records

- **`SlsDet`**: the port, extending the drivers. A handler that blocks is a `Begin` action
  (up to the call of `request()`) and an `End` action (from its return); others are one action.
  `enabled`, `connStatus`, `numDet` and `params` are asyn parameters, with `Undefined` until
  first set. `asynConn` is what asynManager was told with exceptionConnect and
  exceptionDisconnect.
- **`SlsDetRecords`**: the records of a module, extending the port, so the driver below it runs
  as well. A status change goes through asyn's ring buffer, which loses its oldest value when
  it is full; a chain of forward links inside one lock set is one step. asynManager calls
  `connect()` before it hands a request to a disconnected device.
- **`SlsDetEnums`**: `updateEnums()` pushes seven tables through one scratch buffer; `readEnum()`
  copies one up to a limit; a record keeps the menu it got last, and cuts it at the number of
  states of its type.
- **`SlsDetConfig`**: `SlsDetConfigure` splits a line at '+', makes a port, and the drivers name
  their shared memory after the port's id and the address. The library serves a call from the
  hostname it finds in that memory.

### The headers of slsDetectorPackage

- **`SlsDetDefs`**, **`SlsDetNames`**: the enumerations and the functions between values and
  names, kept as three copies by three classes; a program prints with one class and another
  program reads with another.
- **`SlsDetFuncs`**: the function numbers, and a server built from an older list.
- **`SlsErrors`**: the errors of a module, the messages told of a mask, and the bit `1<<id` of a
  module in the 64 bit mask of the whole detector, for ids beyond an int as well.
- **`SlsBadChannels`**: the two readers of a file of bad channels.
- **`SlsDetUtils`**: data streams that have to be restarted when a port or address changes, and
  readout modes of which some exclude each other.
- **`SlsFileNames`**: composing a file name and the readers that take it apart, with the
  variables a caller passes by reference holding what they held before. The reader of an object
  of class fileIO passes its index and frame index on in the other order (`Exchanged`). The
  reader of the file index looks for the last '.', which is that of an extension or one in the
  name (`HasPoint`): in the root, or in a scan that is printed with digits after the point.
- **`SlsFileIO`**: the members of class fileIO, the mutex, and threads inside its functions; a
  text is copied in two halves.
- **`SlsDataFile`**: writers and readers of the data files, a reader on a file that is still
  being written included. A number in a file is what the text keeps of it: no writer sets a
  precision, so a double has six significant digits (`SixDigits`), and an exponent from a million
  on (`OfDouble`); an int reader stops at the point, and so after one digit of such a number
  (`Stop`).

### Proofs and model checking

Eight modules hold the theorems:

| module | about | extends |
|---|---|---|
| `SlsDetDriver_proofs` | the handlers, `request()`, the worker and the answers | `SlsDetDriver` |
| `SlsDetRefinement_proofs` | drivers implement `RequestReply` | the one above |
| `SlsDet_proofs` | types of the port, the switch, the shared count, what connected, read and written mean | `SlsDet`, `SlsDetDriver_proofs` |
| `SlsDetRecords_proofs` | the records on top of the port | `SlsDetRecords`, `SlsDet_proofs` |
| `SlsDetLifecycle_proofs` | the end of a driver | `SlsDetLifecycle` |
| `SlsFileIO_proofs` | the mutex of fileIO | `SlsFileIO` |
| `SlsFiles_proofs` | file names and data files | `SlsFileNames`, `SlsDataFile` |
| `SlsTables_proofs` | configuration, message, streams and modes, error masks, function numbers, menus, bad channels | the seven modules |

**`MCSlsDetDriver`**, **`MCSlsDet`**, **`MCSlsDetRecords`** and **`MCSlsDetConfig`** hold the
constants for TLC. **`MCSlsTables`** and **`MCSlsFiles`** each put several components into one
run. These share no state: a behaviour is one of one component (`part`), and the variables of
the others do not change. The components that theorems are about are extended (TLC then
evaluates their assumptions and checks the very definitions the theorems name), and rest in an
initial state where another part runs; `SlsDetNames` is instantiated, and rests at `Off`.

Some modules hold operators commented `Fault:`. No specification uses them: each is a
plausible mistake in one operation, and the property listed with it in `PROJECT.json` is
violated when it takes the operation's place.

## Runs

| run | configuration | question | states |
|---|---|---|---|
| driver | `MCSlsDetDriver.cfg` | is the counter exact, does every answer reach its own call, is an Ok true, can a late write land behind a newer request, does `request()` return, is `RequestReply` implemented | 214,112 |
| driver_connected | `MCSlsDetDriverConnected.cfg` | *violated:* is a message processed only after a successful connection | |
| port | `MCSlsDet.cfg` | what does it mean to be connected, to have read, to have written | about 1.12 million |
| port_two | `MCSlsDetTwo.cfg` | does the shared count ever claim a missing module | about 1.11 million |
| port_count | `MCSlsDetCount.cfg` | *violated:* is it the number of connected modules | |
| port_live | `MCSlsDetLive.cfg` | does the port thread always come back, does a recovered module reconnect, does an answer fit the parameter it fills | 112,864 |
| lifecycle | `MCSlsDetLifecycle.cfg` | is an end safe and clean, is a string alive while it is copied, do the destructors return | 456,184 |
| lifecycle_shutdown | `MCSlsDetShutdown.cfg` | *violated:* does `shutdown()` leave no shared memory behind | |
| records | `MCSlsDetRecords.cfg` | do the records agree with the port, does the poll bring a lost module back | 192,920 |
| tables | `MCSlsTables.cfg` | configuration, menus, messages, names, function numbers, error masks, bad channels, streams | 379,706 |
| files | `MCSlsFiles.cfg` | file names, the mutex of fileIO, data files | 308,466 |
| config_ids | `MCSlsDetConfigIds.cfg` | *violated:* are unique ids enough to keep shared memories apart | |

The bounds and why they are enough:

- **Drivers.** Drivers share no state, so one is enough to check a driver. Two addresses are
  the least at which the shared count can go wrong, and enough for it: its hazards are a reset
  by one address while another is counted, and a copy held over a blocking call.
- **Capacity = 4**, as in the code. The queues never hold more than one message
  (`PendingCountsInFlight`; with `stop()`, one more), and the theorems hold for every capacity
  of at least one.
- **Serials.** Two are enough: a request differs from the one before it, and no more than one
  message is ever in flight, so an answer can only be the last request's or an earlier one's.
- **Requests.** One of every kind `process()` tells apart: the online check, a sensor, a
  setting that is verified with final errors (high voltage) and with forgiven errors (gain
  mode), one that is not verified, with a threshold of two and a half millidegrees so that
  truncation shows, a negative write, and an unsupported message. The other settings differ
  only by name. `port_live` has a read of every data type, because of `ReplyFitsParameter`.
  `port_two` sends nothing but online checks: the count depends on nothing else (a read that
  fails disconnects like `Disconnect`). A message of `SlsDetLifecycle` is a string read or not.
- **InitOutcomes.** All four results of `initialize()`; fewer in `port_two` and `records`.
- **Cells = 2.** The string that is copied and the one that replaces it.
- **RingSize = 1.** The smallest ring buffer loses the most.
- **MaxPorts = 2, ports of up to two modules, ids 0 to 2.** Ids that are equal, neighbours and
  further apart. Lines of up to five characters have every arrangement of empty names.
- **Five menus of two addresses**: one of two entries, the three longest and a short one after
  them, so that the buffer holds a longer menu when a shorter one follows.
- **Modules 30, 31 and 62, at most two errors in all masks together.** Module 30 is the last one with
  a bit of its own; the shift for 31 sets the sign of an int, which fills the upper half of the
  mask; the one for 62 comes out as that for 30. Two errors show one that hides another.
- **MaxLines = 3; Channels 0, 1, 3.** A blank line between two others, a range that overlaps.
- **fileIO: two threads, two calls each.** An interference needs two threads; a member of each
  kind is enough, as members share nothing but the mutex: a number that the setter refuses (0
  frames per file), one that is incremented by what is given (0 or 1), a text. The theorems
  hold for any number of threads and calls.
- **File names: roots that look like tags; MaxIndex = 1.** A root that ends in what a format
  takes for a detector, a frame or nothing, and one with a '.' in it. Precisions 0 and 1 have a
  rounded and an exact scan variable, the second with a point.
- **Data files: -1.5, 100000.5 and -1234567 as doubles, 1 and 40000 as ints.** Six digits hold the
  first, lose the half of the second and the last digit of the third, which also has an
  exponent; its error, twice as much, too. 40000 is no short int. Two channels show their
  order, and a second file is written over the first (`MaxFiles` = 2). One reader reads a file
  as it is: readers change nothing, so two find what each would.

The driver, the port, its records and the lifecycle count no steps and bound no counter: their
state spaces are finite as they are. Deadlock is checked in every run whose system does not
come to an end: the exit, the bounded tables and files do.

Fairness. The steps of the caller that wait for nobody are weakly fair: the port thread runs.
A timeout is strongly fair: a timer that keeps being armed fires in the end. The worker is
weakly fair only while its module is out of trouble: the library may block for as long as
the module likes, so nothing about the caller may rest on it. For `Reconnects`, asynManager
offers `connect()` again and again to a disconnected device (autoConnect and the poll
record), hence strong fairness on `ConnectBegin`. Its premise is a module that is enabled and
out of trouble from some time on. `RecordsReconnect` does without that: `connect()` is called
only for a request that was queued, and the only request of a lost module is the one of the
poll record. The scan thread is weakly fair; the queue of the port serves requests of several
records, hence strong fairness on each being served. In `SlsDetLifecycle` the threads are weakly
fair, the worker only out of trouble; the exit handler and the caller are not needed. The
threads of fileIO are weakly fair: nothing keeps a thread from going on but the mutex.

### What the runs show

`driver` and `port` hold: through every mixture of timeouts, late answers,
failed initializations and sticky error bits, an answer goes to the call that asked for it, an
acknowledged high voltage, chip power, clock divider or gain mode is in the register, and a
write that timed out cannot land once the address is connected again, because the online
check itself must first flush the late answer.

`AnswerIsTrue` has the side condition `det = "ready"`. Without it the property is false: after
a `setHostname()` that threw, a driver has an object without sub-detector, which answers the
online check with success and a read with -1.

`lifecycle` shows that the end is safe exactly when nothing overlaps with it: `QuietEndIsSafe`
allows a mishap only if a request was in flight at some time between the start of the end and
the end. That includes the request that `stop()` itself sends, which makes a new detector
object in a driver that has none; the destructor's own `shutdown()` deletes it. When a request
does overlap, the exit handler may delete the object that the worker is using, and the
destructor, whose wait for the worker has a timeout in that case, may destroy the queues the
worker sleeps in. These are consequences of the code as it stands, and not stated as findings
because nothing in the repository says otherwise.

`records` shows that the poll is on exactly for an enabled module that is not connected, as
soon as nothing is on its way, even with a ring buffer of one: a lost status is always followed
by a later one. While something is on its way the two can disagree.

Four checks fail, and are listed as findings:

- `ProcessOnlyIfConnected`: the comment at slsDetDriver.cpp:807 says that a message is
  processed if the connection was successful; the code tests only that the object exists.
- `NumDetCountsConnected` with two addresses: SLS_NUM_DETS, described as the number of modules
  in the multi-detector, is reset to 0 when a second address makes its driver. With one
  address the property holds (run `port`), and with two the count is never too high
  (run `port_two`).
- `ShutdownCleansUp`: drvAsynSlsDetPort.h:40 says that `shutdown()` cleans up the resources of
  the package; a request that is served after it makes the shared memory anew.
- `UniqueMemoryIsOwn`: the README asks for a unique id per port because the shared memory is
  named after it, but the port uses one id per module. `SpacedMemoryIsOwn` (run `tables`)
  holds for ids that leave room for all modules of a port.

### Seen while reading

No run states these, because nothing in the repository promises otherwise or the instances
stay clear of them:

- `fileIO::getVariablesFromFileName` (fileIO.h:84) passes its file index and frame index to
  `fileIOStatic` in the other order. A caller that reads names through an object gets them
  swapped, and a frame that the name does not have leaves the index alone and resets nothing;
  `ReadersAgree` says so.
- `getFileIndexFromFileName` (fileIOStatic.h:109) gives up with -1 on a name without extension, unless
  it has a '.' elsewhere, as in the root or in a scan of 2.5: then it finds the index.
- Doubles are written with the six digits of a stream's default (fileIOStatic.h:405, 409, 417). A
  value of 100000.5 is read back as 100000, one of 1234567 as 1.23457e+06, and of that an
  int reader takes the 1. `DataIsReadBack` states what is read back of such numbers, and that
  the shorter ones are exact.
- The getters of fileIO and the results of its setters read texts without the mutex
  (fileIO.h:186, 416), so a text that is returned can be a mixture. `QuietTextsAreWhole` is
  about the member, not about such a copy. The increments do not lock either: one of two at
  the same time can be lost.
- `getNameFromReceiverFilePrefix` and its neighbours keep the detector index in a name that is
  said to stand for all detectors (fileIOStatic.h:314, 344).
- A root with a segment that is a bare letter (`run_p`) lets a reader take that letter for a
  position or a scan, with the number it has read before (fileIOStatic.h:224-250): two readings of
  one name can differ, and `verifySameFrame` may then not know its own frame. `FramesAreKept` is
  restricted to roots without such a segment (`Clear`).
- The frame and the detector of a name that has none are what the caller passed
  (fileIOStatic.h:207), so they can be those of a file that was read before. `MissingAreLeft` states
  it; `FramesAreKept` is about names that have a frame.
- The readers of short ints return after the first line (fileIOStatic.h:724).
- `1<<id` (multiSlsDetectorCommand.h:39) has 32 bits, and error_defs.h:21 assumes up to 63
  detectors. The shift sets bits of other modules from id 31 on, as the machine computes it: a
  failure of 62 is told as one of 30, one of 31 as one of all from 31 on. `ErrorsAreTold` says
  up to which module the mask is right: a failed one below 32 is always named, and no other is
  while the failed ones are up to 30.
- Two errors have a bit and no message (error_defs.h:89, 100).
- The last line of a file of bad channels is lost without its newline, and a blank line
  repeats the channel before it (badChannelCorrections.h:42): `BadChannelsAreListed` excludes
  other channels only for files without such a line.
- Two detector types print as "Unknown", and one state of `slsDetectorUsers` (line 859) as
  "stoppped", which no reader knows. `SlsDetNames` states which names are read back.

## Proofs

Every theorem holds for all values of the constants that satisfy the named ASSUMEs of the
module it is about. TLC checked each invariant on the instances above before it was proved.

### Driver

`SlsDetDriver_proofs` and `SlsDetRefinement_proofs` show, for any set of drivers, requests,
serials and readings and any capacity of at least one:

- `DriverTypeCorrect`: type correctness. `pending` stays natural only because a waiting caller
  is owed an answer, so the type invariant is strengthened with `Owing`.
- `PendingIsExact`: `_pending` is the number of messages in flight and at most one.
- `ReplyIsToTheCall`: `request()` returns a timeout or the answer to this request.
- `LateWritesAreFenced`: while a caller waits, only its own request changes registers.
- `AnswersAreTrue`: an Ok that `request()` returns is true of the register at that moment.
- `DriversImplementRequestReply`: the drivers implement `RequestReply`.

`PendingIsExact`, `ReplyIsToTheCall` and `LateWritesAreFenced` rest on one inductive invariant,
`DriverIInv`: types and, for every driver, `Counted` (the counter is exact and at most one),
`Owed` (a caller that waits is owed exactly one answer, and whatever is in flight, in either
queue or in the worker, carries its serial) and `Matches` (so does what it returns). `Counted`
alone does not say whose answer is in flight, and `Matches` alone does not say why the head of
the reply queue is the right one; `Owed` is what flushing to zero before sending establishes. A
step of one driver leaves the others alone (`OthersUnchanged`), so the step is proved per
driver, first for the caller and then for the worker.

`AnswersAreTrue` follows the answer from the handler that makes it, on top of `DriverIInv`:
`TrueAtWorker` (the answer in the worker is true of the request it has), `TrueOnTheWay` (what
is in flight while the caller waits is the caller's own request, or a true answer to it) and
`TrueAtCaller` (what an Ok says is true, and nothing is in flight that could change it). The
last part needs the counter: only because an Ok leaves `pending` at 0 can no late write
overtake it.

`DriversImplementRequestReply` rests on `JobIsSomewhere`: because the counter is exact and at
most one, the one job is in the request queue, in the worker (served or not), in the reply
queue, or nowhere. Each step then moves it from one place to the next, which is one step of
`RequestReply` (`MapInvoke` .. `MapReturn`, `MapProcess`) or invisible (`MapReceive`,
`MapReply`).

### Port

`SlsDet_proofs` shows, for any finite set of addresses:

- `DriversUnderPort`: the port uses its drivers as `SlsDetDriver` allows, so their invariant,
  and with it all that is proved from it, holds under the port.
- `PortTypeCorrect`: type correctness of the port.
- `DisabledStaysDisconnected`: a module that was switched off is not connected.
- `CountNeverOvercounts`: SLS_NUM_DETS never claims a module that is not there.
- `ConnectedStaysUsable`: between two handlers, the driver of a connected address has its
  detector, no error and nothing in flight.
- `AcknowledgedWritesHold`, `SetpointsAreWritten`: what a write acknowledges is in the register,
  and the setpoint agrees with it.
- `ReadsAreCurrent`: a successful read leaves what the module holds at that moment.
- `RepliesFitParameters`: an answer has the type of the parameter it fills.
- `OnlyCurrentWritesLand`: the registers of a connected address change only for the write the
  port is busy with.
- `OneAddressIsCounted`: with one address, and only then (run `port_count`), the count is exact.
  That is the hypothesis `OneAddress`.

Types, the switch and the count rest on `PortIInv`. `DisabledIsDisconnected` is not inductive: a
`connect()` that blocks could return to an address that was switched off meanwhile. It cannot,
because the one port thread is busy (`HandlerKeepsItsAddress`). `NumDetNeverOvercounts` needs
the same for the copy of the count, which stays a lower bound while the thread is blocked, and
needs to know that the count is set as soon as any address has a driver (`ConnectedAreMade`),
or an `uninitialize()` would count down from an undefined parameter.

The others rest on `PortSound`, which is `PortIInv`, the invariants of the drivers
(`DriversSound`) and how the port uses them (`UseIInv`): `CallIsHandlers` (a driver is called
exactly while a handler of its address runs, with that handler's request), `HandlerAsks` (which
request that is, and the parameter a write has set before), `QuietBefore` (until a connected
address has sent its request nothing is on its way) and `LateIsOwn` (what is on its way when a
call is over is that call's). `ConnectedIsUsable` alone is not inductive: it says nothing while
a handler runs, when it is `QuietBefore` and `LateIsOwn` that carry it over. The interesting
case is a timeout: the handler disconnects the address, and before it can be connected again
the online check has to flush the late answer.

### Records

`RecordsDoSettle` shows, for any addresses and any size of the ring buffers, that record, status
and poll agree once nothing is on its way. It rests on `StatusArrives` (the newest value in the
ring, or the record's own when the ring is empty, is the port's status: a full ring loses its
oldest value, never that one) and `PollFollows` (only a write of ENABLED that the port has not
served is ahead of the poll). `RecordsKeepThePort` shows that every step of the records is a
step of the port or none (`RecordStepsArePortSteps`), so the port's invariants hold under them.

### The end of a driver

`SlsDetLifecycle_proofs` shows, for any cells, serials and capacity:

- `LifecycleTypeCorrect`: types; `_pending`, unsigned in the code, never wraps.
- `StringsAreAlive`: an answer's string is the one its request asked for until it is copied.
  From `StringInv`: `HeldAtWorker`, `HeldOnTheWay` and `HeldAtCaller` follow the string from
  the cache to the caller. A string is freed only by a later request, and none is left in
  flight when the caller has its answer (`Counted`); an end does not change that, because only
  a port that nobody deletes has a caller (`CallerOwns`).
- `QuietEndsAreSafe`, `QuietEndsAreClean`: an end that overlaps with no request makes no mishap
  and leaves nothing behind. From `EndInv`, which says of an end that nothing has overlapped
  with yet: `ObjectsOwned` (what a thread finds at each step of `shutdown()`), `WorkerKeeps`,
  `ExitKeeps` and `OwnerKeeps` (where the three threads can be, and what is gone by then). Only
  one thread is ever inside `shutdown()`, and the worker has ended before the destructor shuts
  the driver down for the second time (`QuietFacts`).

### Configuration

- `ModulesFollowTheLine`: the modules of a port are the names between the '+' of its line, in
  their order, for lines of any length.
- `SpacedIdsKeepMemory`: ids that leave room for every module of a port keep the shared
  memories apart, for any number of ports.

The first is about a loop. That it ends and is one function (`SplitExists`), and what it computes
from each token on (`SplitStep`), is shown by induction over a set of numbers (`SetInduction`,
from `WFMin` of the library, which takes a set and not an operator): a turn pushes the name
that starts there, if there is one (`NameThenLater`), before the names of the later turns
(`NameListedFirst`). `SpacedIdsKeepMemory` needs the first for the types only; its own argument
is that a write to the memory of one module is not to that of another (`SpacedIdsDiffer`).

### Menus

- `MenusServed`: a record that has a menu shows every answer of its module by one entry, and no
  name stands for two values (but for the two types called "Unknown", which nobody writes),
  for any addresses and any of the parameters.

The invariant is `MenusInv`: a record holds nothing or a whole table of its own parameter. It
holds although `updateEnums()` cuts a menu at the size of the buffer and at the record's states
and the buffer still holds a longer one, because every table fits both limits (`TableWhole`) and
fills the part of the buffer that is passed on (`PushedWhole`). That a whole table serves its
record is then a fact about the fourteen rows of `SlsDetEnums` (`AllServe`), from the values
the enumerations of the package give to their symbols (`StatusesAre`, `TypesAre`, `SettingsAre`).

### The message and the headers of the package

- `GotIsSet`: a value got from a message is the one that was set. From `StandsForLast`: the member
  of the union that the data type names holds the last value, in every buffer and copy.
- `SettingsDoHold`: streams run as they were last set, and the readout flags have one flag of each
  group, the one last asked for (`FlagsAsAsked`).
- `ErrorsAreToldOfTheModules`: for any modules, the combined mask tells that there are errors,
  names every failed module below 32 and, while the failed ones are up to 30, no other; the
  messages of a mask are those of its errors (`MessagesOfTheErrors`), because no two errors
  share a bit (`BitsAreDistinct`). The invariant is that the mask is made of the bits of the
  failed modules (`MaskOfFailed`), wherever the shift puts them.
- `MeantOrRefused`: a server executes the function that was meant or refuses the number.
- `BadListed`: a module gets every channel and range that the lines of its file name, and nothing
  else if no line is empty, for any channels, lines and offsets. The list is what a loop over the
  lines has appended, the specification a flattened sequence; both are found by induction over
  the number of lines, and `Agrees` compares them turn by turn.

### fileIO

`SlsFileIO_proofs` shows, for any number of threads, members, arguments and calls:

- `TextsAreWhole`: two setters of a text never mix theirs.
- `SettersReturnRecent`: what a setter of a number returns is what the member held at its store or
  something stored after it, and frames per file are never less than one.

Both rest on `IOInv`: types, what a thread may be calling at each place (`CallFits`,
`PlaceFits`), that a thread between lock and unlock has the mutex (`Holds`), that the half of a
text its setter has stored stays there until it stores the other (`HalfStored`, which is where
the mutex is needed), and that from its store on a setter knows all the values the member has
had (`Followed`), and that frames per file are some (`FramesAreSome`), which holds
because their setter alone stores them and refuses the others. `QuietTextsAreWhole` is not
inductive without `HalfStored`: the second half may only be put next to the setter's own
first one. `SettersReturnRecent` needs no mutex at
all, which is why reading the member after unlocking does no harm.

### File names and data files

`SlsFiles_proofs` shows, for any roots, numbers, channels and stale variables:

- `NamesRead`: unless the root ends in what looks like a variable, a reader returns what the
  composer put into a name, resets a position or a scan that the name has not and leaves a frame
  or a detector as it was; whatever the root, every reader finds the same file index and puts
  it where its code says; a receiver's prefix gives its root back.
- `FramesKept`: files of one acquisition differ in name, and `verifySameFrame` recognises exactly
  those of one frame.
- `DataRead`: the readers of doubles and ints get, of the channels they ask for, the first that
  have been written, in order, and all of them once the file is closed; of each the digits that
  the text has: a double of up to six digits as it was, a longer one to half a unit of the
  sixth; an int reader gets the whole part of the first, the nearest whole number of a longer
  one, and one digit of what is written with an exponent.

A reader is a loop over formats or lines, written as a recursive function; that it is one
function, and what a turn does to it, is shown by induction over the number of turns
(`ScanUnfolds`, `ChannelsUnfold`). A name is a root and then one part after the other
(`NameIsParts`), and the formats take it apart from its end: a format whose part is there cuts it
off and keeps its number (`PresentScanned`), one whose part is missing changes nothing
(`AbsentScanned`). So the name and the formats run against each other (`FormatsInTurn`), until
the root is left, where only a root that looks like a variable can still match (`PlainIsRead`).
`NamesInv` says of the acquisition that variables which are fresh were read from the name of
the current file, over whatever they held before: the reader resets four of its six variables,
and the other two are why `verifySameFrame` is shown for two readings side by side (`SamePut`,
`AlikeScanned`). It is true only of roots whose letters are followed by a number: an empty one
gives a reading the number that the reading before it left behind.

Of a data file `DataInv` says that an open one has the lines of its first channels and a closed one
all of them. What a reader has after so many lines (`DoubleStep`, `IntStep`) is the first so
many of the channels it wants (`ReaderGets`), which a longer file only extends (`FilledGrows`).
That a number of up to six digits stays what it is, and how far a longer one may move, is
arithmetic of `SixDigits` (`FewDigitsStay`, `SixDigitsAreTheSame`); what an int reader takes of
it is `DoubleIsTaken`. `DataIsReadBack` is an action property: it follows from `DataInv` for
the step that reads.

### Assumptions

The named ASSUMEs, which TLC evaluates on the instances: those of `SlsDetDriver` (requests are
messages, capacity is positive, two serials exist, initialization may succeed, readings are
integers), of `SlsDet` (finitely many addresses, the online check is a request, `Undefined` is
no integer), of `SlsDetLifecycle` and `SlsDetRecords` (queues and ring buffers hold something),
`ConfigLines` and `ConfigIds` (lines are texts, ids integers), `FileIOConstants` (arguments are
integers, the members are those of the class, no thread is called `Nobody`), and `CellConstants`,
`ErrorsConstants`, `FuncsConstants`, `BadChannelsConstants`, `FileNamesConstants` and
`DataFileConstants` (types of the constants of the tables and files, and doubles up to a hundred
million, `Largest`), and `EnumsConstants` (each of
the watched parameters has a table). `NamesFit` is no assumption on a constant but a fact about
literals, no name of a menu has more than 25 characters: the provers do not know the length of
a string, and TLC evaluates it. One theorem has a hypothesis of its own, `OneAddress`.

### Only model-checked

- The liveness properties (`CallReturns` of the driver and of fileIO, `PortNeverHangs`,
  `Reconnects`, `RecordsReconnect`, `DestructorReturns`): out of the prover's reach.
- `NamesAreKept`: `SlsDetNames` has no constants and exchanges every value of every enumeration
  between every two classes, so the run is complete.
- Among the theorems, `OneAddressIsCounted` covers one address; with more, the count is only shown
  never to be too high.

## Not modelled

- Message size and queue errors (`nbytes != sizeof`): both ends send whole messages. The send
  timeout of `request()`: `PendingIsExact` shows that there is always room.
- The compiled library and the module, beyond the choices above. Most of
  `multiSlsDetector.h`, `slsDetectorUtils.h`, `slsDetectorBase.h`, `slsDetectorUsers.h` and
  `angularConversion.h` declares functions of that library; there is no code to model.
- The parameters that the base class of the port serves, asynPrint, and the order of parameter
  callbacks.
- Wrappers of fileIO that only pass its members on to `fileIOStatic`; the counters of
  postProcessing, which nothing in the repository calls.
- Setpoint records beyond `Setpoint` of `SlsDetRecords`, and the display records of the
  templates: they read and write one parameter each.
- Access to one shared memory from several programs at the same time: `SlsDetConfig` has the
  memories of one IOC.

## Plan

1. *Done:* messages, handlers, driver, `RequestReply`, port, their runs and theorems.
2. *Done:* lifecycle, records, enumerations, configuration, and the headers of the package that
   have code, with their runs; the theorems about fileIO.
3. *Done:* the theorems about the port, its records, the end of a driver, the configuration,
   the message, the streams and modes, the error masks and the function numbers.
4. *Done:* the theorems about the menus, the bad channels, the file names and the data files.
   Every invariant that a run checks is now proved, but for `NamesAreKept`.
5. *Left:* liveness stays with TLC. The setpoint records of the templates and the parameters
   the base class serves would be the next components, should they get behaviour of their own.
