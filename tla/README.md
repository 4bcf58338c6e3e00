# A TLA+ verification of the openport-j2534 driver

The driver (`src/src/*.c`) is a J2534 library: an application calls
`PassThruOpen`, `PassThruConnect`, `PassThruReadMsgs` and so on, from any number
of threads, and the library talks to an OpenPort 2.0 cable over a USB pipe or a
serial line. The cable speaks a line protocol (`docs/PROTOCOL.md`): numbered
commands `at...`, replies `ar...` that echo the number, and frames of received
traffic, all on one byte stream. A reader thread of the library parses that
stream; application threads send commands and take messages out of queues.

This directory holds the model of that program: TLA+ modules translated from the
C source, TLC configurations that check them on small instances, and TLAPS
proofs of their safety properties, for every value of the constants.
`PROJECT.json` maps each definition to the lines it stands for.

## 1. The system

| Part (source) | State it keeps | Operations | Talks to |
|---|---|---|---|
| Command exchange (`op_device.c`: `cmd_exchange`, `stash_reply`) | `cmd_lock`, the reply slot (`cmd_waiting`, `reply_valid`, `seq_pending`, `cmd_verb`, `reply`), `seq_next` | `op_device_cmd`, `op_device_send_nowait` | reader thread, through `lock` and `reply_cv`; transport |
| Reply storage (`op_device.h`: `reply_text`, `reply_data`) | two buffers that every reply shares | filled by `stash_reply`, read by `PassThruOpen` and `ioctl_init` | command exchange |
| Session and reader thread (`op_device.c`) | `open`, `lost`, `reader_stop`, `reader`, `t` | `op_device_open`, `sync_device`, `op_device_close`, `reader_main`; `PassThruOpen`, `PassThruClose` | everything |
| Receive queue (`op_device.c`, `op_j2534.c`) | per channel: byte ring, count, `dropped` | `queue_push`, `op_device_pop`, `op_device_take_dropped`, flush; `PassThruReadMsgs` | reader thread, `rx_cv` |
| Reassembly (`absorb_frame`) | per channel: `partial`, `partial_active`, `ext_announced` | one call per parsed frame; open, close and flush of channels | receive queue |
| Record of the cable (`op_j2534.c`) | open channels, `periodic[]`, pins grounded and powered | Connect, Disconnect, Start/StopPeriodicMsg, CLEAR_PERIODIC_MSGS, SetProgrammingVoltage | command exchange |
| Inbound parser (`op_proto.c`, `consume_accum`) | the accumulator | `op_parse`, `op_resync_offset` | reader thread |
| Writing (`PassThruWriteMsgs`) | none between calls | budgets, per-message waits | command exchange |
| Filters, GET/SET_CONFIG, K-line inits, voltages read | none | lists of commands, one at a time | command exchange |
| USB transport (`op_usb.c`) | posted reads, host ring, event thread | `rx_start`, `rx_done`, `usb_read`, `rx_stop`, `usb_write` | libusb, reader thread |
| Serial transport (`op_serial.c`) | one descriptor | poll, read, write | reader thread |
| Encoders, error text, log, recording, tools, tests | – | – | – |

What is hard here is concurrency and loss. Several application threads, the
reader thread and the libusb event thread share one device; the library uses two
mutexes and leaves some state to neither. A command may time out and be answered
later; a reply may carry no number; frames and replies may be lost; the cable
may be unplugged and the process may have died in the middle of the last
session. `PROJECT.json` lists these hazards at their lines, each with the
properties that would catch it.

## 2. Modules

**CommandExchange** – one session's commands. One action per critical section of
`lock`; `cmd_lock` is a variable because it is held over several. A thread goes
`idle → called → begun → claimed → written → idle` (`Call`, `Begin` or `Refuse`,
`Claim`, `Write`/`WriteNowait`/`WriteFails`, `TakeReply`/`WakeGone`/`TimeOut`).
The reader is `StashReply` (all of `stash_reply`, its early returns in order as
`NobodyWaits`, `InitForAnother`, `NumberMismatch`, `StaleInit`) and `ReaderLost`;
the teardown is `CloseBegin` and `CloseEnd`. The cable (external) answers in
order, with the number or without it where the protocol notes allow, or not at
all. Every command has a history ordinal, so "my reply" can be stated.

**CommandService** – what `op_device_cmd` promises, without wire, numbers or
slot. `CommandExchange!ImplementsService` is the refinement.

**ReplyStorage** – composes CommandExchange with `reply_text` and `reply_data`:
`StashInto` is `StashReply` with what it writes to them, `TakeInto` is
`TakeReply` with what the caller has still to read through the pointers it was
given, after both locks are released.

**SessionLifecycle** – `op_device_open` in its steps (reset without a lock, the
transport's factory, `pthread_create`, `open = 1`, `sync_device`), `op_device_close`
in its steps, the reader thread's two ends, and an exclusive cable that is
unplugged and replaced. The reader gives a session up when reads fail, fifty in a
row: all of them do once the cable is gone (`ReaderLoses`), and a stalled pipe may
fail as long with the cable still held (`ReaderGivesUp`). Any of the owners may open
and close at any time; `raced` remembers whether an open overlapped another open or
a close. A command is reduced to "checks the session, then uses the transport while
it holds `cmd_lock`".

**RxQueue** – the byte ring of one channel with real positions and wrap, and any
number of `PassThruReadMsgs` on it: popping, sleeping, the deadline, the report
of an overrun. Flush, connect, disconnect, close, loss and reopening happen
anywhere. **RxFifo** is its abstract specification, `Contents` the refinement
mapping (it decodes the bytes). `starts`, where each queued message begins, is a
history variable: the code finds it again by walking the ring from `head`.

**Reassembly** – `absorb_frame` for K-line, raw CAN and ISO 15765 channels. A
byte is known by its transfer and place, so duplicated, missing or mixed bytes
show. The cable's frames are external.

**CableLedger** – what the driver records of the cable against the cable itself.
Each call is: checks, one command, what the reply makes it record; none of the
three is under a lock in the code. With `KeptApart` the application lets no two calls
overlap that `Conflict` (about one channel, two about the pins, or one about the pins
and a Connect); without it, its threads call as they like. A command, or its reply,
may be lost: `unsureChannels` and `unsurePins` remember what the loss was about, until
a connect, a disconnect, a clear or a voltage for it is answered, or the session is
opened anew. The cable's side is external and keeps to PROTOCOL.md sections 5, 8 and
10; it has a limit of its own for periodic messages (`FirmwareLimit`).

**UsbReceive** – the libusb receive path: posted reads, callbacks in the event
thread, the host ring, errors reported and reads posted again, and the stop that
cancels, waits a second, joins and frees. libusb is external: completions in
submission order, cancellation in any order or never.

**InboundStream** – from bytes to replies: `ser_read` with its hang-up, the loop of
`reader_main` and its failures, `consume_accum` with its compaction, `op_parse`
and `op_resync_offset`. The parser is a set of operators over real byte sequences
(`Parse`, `ParseAscii`, `ParseFrame`, `Resync`, ...); the cable's stream is a
script of records without a separator, met in the middle of the first one if an
earlier session left it so, and cut into reads at every place. The accumulator
holds positions of the stream instead of bytes, so every reply handed on is known
by the very bytes it was made of; `since` remembers from where the stream is in
step with its records. One step is one iteration of the loop.

**ChannelCalls** – the calls that keep no state in the driver: `PassThruWriteMsgs`
with its Timeout, filters, GET_CONFIG and SET_CONFIG, voltages read, inits. A call
is a list of commands; a command is `AskNext`, `Enter` (cmd_lock, the session's
check), the transfers of `usb_write` or `ser_write`, and the answer, a timeout or
the loss; then `AfterWrite` or `AfterOther` says how the call goes on. Time is a
number of milliseconds; the wall clock the code reads may be stepped away from it.
The cable is external: whole commands it has yet to run, the start of one that
was torn, its configuration and its filters.

**MC…** modules hold model values and symmetry. A **…Proofs** module extends the
module it is named after and holds its inductive invariant, lemmas and theorems;
CommandExchangeProofs also holds those of ReplyStorage.

Composition: ReplyStorage extends CommandExchange. SessionLifecycle, RxQueue and
CableLedger use the exchange through its service (commands one at a time, each
returning with or without a reply). RxQueue's arrivals are what Reassembly
queues. UsbReceive delivers the stream that InboundStream parses, a dropped read
of the one being `DropRead` of the other; what InboundStream hands on are the
whole replies and frames, in order, that CommandExchange's wire and Reassembly's
cable assume. ChannelCalls assumes that an answered command got its own answer,
which is `OwnReply` of CommandExchange, and opens up its `Write` into transfers.

## 3. Runs

Every property has a mutant in `PROJECT.json`: a plausible bug in a mapped
definition with which TLC finds the property violated.

| Run | Bounds | Shows |
|---|---|---|
| `storage` | 2 threads, 2 calls, numbers 2..4, one thread makes inits, up to 1 reply of the session before in the pipe | replies, and the data behind them, are the caller's own; the slot has an owner; the transport outlives commands; every call returns; an accepted reply is returned; refinement of CommandService |
| `exchange_late_init` | 2 threads, 2 calls, unnumbered `arw` | **violation** of NEWS.md:27 |
| `storage_shared` | 2 threads, 2 calls, both make inits | **violation** of op_device.h:137-139 |
| `session` | 3 threads, two of them open and close; 2 sessions, 1 unplugging | in an application whose opens overlap no other open or close: commands keep their transport, no handle leaks, an open session is served, losses are noticed, every call returns |
| `session_two_owners` | the same threads, 3 sessions, 2 unpluggings | **violation** of op_device.c:594-596 when opens overlap |
| `rxqueue` | 2 readers, 5-byte ring, messages of 2 or 3 bytes, 3 arrivals | the ring spells whole messages; refinement of RxFifo; overrun count, marked holes, wake-ups, the end of a session ends its reads |
| `reassembly` | 3 channels, 3 transfers of up to 2 data frames, 2 losses, 3 resets | without losses, order, completeness and address flags; with them, a message with no byte of a transfer that lost a frame is one transfer, whole and in order, and a message whose START arrived has no byte of an earlier one. (What is left of transfers that lost frames may be joined: the code cannot tell.) |
| `ledger` | 2 threads, conflicting calls kept apart; channels 3, 7, pins 7, 15, 3 periodic ids, 2 slots, 3 messages at the cable, 1 loss | the record is true, no line in use is grounded, one pin is powered, but for what the loss was about and only until an answer settles it; nothing running is forgotten |
| `ledger_pins_race` | 2 threads that call as they like; channels 3, 4 | **violation** of docs/API.md:76-79 |
| `usb_receive` | 3 reads of up to 2 bytes, host ring of 3, 4 bytes, 2 errors | the stream is kept, the pipe never deaf, closes end, nothing is freed under libusb |
| `stream` | 3 records of 6 kinds, or the longest frame; reads of up to 4 bytes, an accumulator of 30, 1 dropped read, a hang-up, 2 failures | replies are found as sent however the reads cut the stream; nothing is made up; a read always fits |
| `calls` | 2 calls of sixteen: up to 3 messages, Timeouts at the edges of 4-bit ints and 7-bit longs, 2 parameters, 1 lost answer, 1 clock step, 1 unplugging | the count of a write is honest, its Timeout kept, the cable is as the call says |

Why the bounds are enough. A reply can go wrong only between a command and one
sent before it: two calls give a command that timed out and the next one, the
stale reply stands for all that came before, and the three sequence numbers wrap
within the run, which starts from each of them. A session gives out two of the three:
the stale reply may carry the third. That it carries one of the two, when the clock
that `seq_next` starts from let the sessions' numbers meet, is excluded. In
ReplyStorage one thread reads while another is served. The ring of 5 bytes under messages of 2 and 3 wraps at
every place, is filled to the last byte and refuses with room left; two readers
are the fewest that can empty a queue under each other. Two sessions are the
fewest in which a reopening meets what the first left. Two transfers meet on a
channel only through what the first left behind, and a third shows that this is
gone. In CableLedger there is a K-line and an L-line with its pin each, two threads
suffice for a check and an update of another's to fall between, 2 slots for the last
message to move into the slot of the first, and a third id, which the cable would
take, for the driver's own limit to be what stops a start; the slots
stand for `OP_PERIODIC_PER_CH`, and `UnsignedMax` is what `nperiodic` would wrap
to. `PartialMax` is just above one transfer and is exceeded after a lost END. In
UsbReceive three reads keep one completing, one posted again and one failing.
In InboundStream the records are longer than a read, so each is met split at every
place, beginning and ending in the middle of reads; the first of three is what
stale bytes are the end of, the second what the parser finds its way with, the
third shows that it is in step. The accumulator's size keeps the relation to the
longest record that `SizesAssumption` states of the real ones. In ChannelCalls the
second call meets everything a first can leave: commands still to be run, a torn
line, filters nobody knows, late answers, a lost cable. The widths are small but in
the order of the real ones (`ChannelAssumption`), and the Timeouts lie where
`remaining * 1000`, an `unsigned` and a `long` each come to their end.

`CHECK_DEADLOCK FALSE` stands where the system may stop: RxQueue, Reassembly,
InboundStream and UsbReceive once their bounded arrivals, calls or session are used up, and
SessionLifecycle because overlapping opens can really hang the driver (section 5).

Symmetry is used only where threads are interchangeable and only in runs without
liveness properties.

### Fairness

- CommandExchange, ReplyStorage, SessionLifecycle: weak fairness of each application thread
  inside the library. Its waits are timed (`pthread_cond_timedwait`), and writes
  have a time limit. `cmd_lock` needs no more: the calls are finitely many, so
  it is free for good in the end. The reader's loop turns every 10 ms
  (`ReaderStops`, `ReaderLoses`). Nothing is assumed of the cable, of replies, of
  unplugging, or of reads that fail while the cable is there (`ReaderGivesUp`).
- RxQueue: a thread that is awake goes on. Deadlines are *not* assumed to pass.
- UsbReceive: the driver's own threads run; libusb may never complete anything.
  `ErrorIsReported` also rests on the bounded stream: a cable that sends without
  end could keep the host ring non-empty, and usb_read reports errors only when
  it is empty.
- Reassembly, CableLedger, InboundStream, ChannelCalls: safety only.

## 4. What is proved

TLAPS checks these for every value of the constants: any number of threads, calls,
messages, sizes, losses. The only assumptions are the modules' named ones (that sizes
and bounds are numbers, that sets of threads are finite, and those given below) and
the hypotheses written in the theorems. Each proof is the same argument: an
inductive invariant, one step of proof per action and part of it, and a last step
from it to the property the runs check. TLC checked every invariant on a run of its
module first.

**CommandExchangeProofs.** Assumptions: sequence numbers that last the session
(`FirstNumber + MaxCalls < NumberLimit`, from 2^32 - 256 numbers), and stale replies
carry a number only if this session will not give it out (`seq_next` starts from
the clock for that). `TypeCorrect` needs `CountInv`: issued commands and those still on
their way to the slot fit in the calls made. `RepliesAreOwn` (`Spec => []OwnReply`)
is not inductive: that a reply with the pending number is the pending command's own
depends on every number in use being different. `IInv` has these parts:

- `LockInv`: who is inside a transaction is who holds `cmd_lock`, and the command
  in the slot is the last one issued;
- `NumberInv`: numbers in use lie, on the circle of 2^32 - 256 numbers, between the
  session's first and `seq_next`, and no two commands share one, although the
  counter wraps;
- `CommandInv`: a command line on the wire carries its command's number;
- `ReplyInv`: a reply on the wire has its command's number, none, or one this
  session does not reach;
- `SlotInv`: what is pending in the slot is the holder's number and verb, and a
  valid reply of a plain command is that command's.

From it follow `SlotIsOwned` and `AcceptedIsReturned`, and with `SessionInv` (the
transport goes with the reader's join, after `open` was cleared, and whoever is
inside a transaction still has it) `TransportIsSafe`.
`InitRepliesAreOwn` supposes that the cable numbers its init replies
(`UnnumberedInits = {}`; run `exchange_late_init` shows what happens otherwise) and
adds `WireInv`, what kinds of reply a verb can have on the wire. `ServiceIsKept` is the
step simulation of CommandService: each step is one of the service's or a stutter.
It stops short of the service's fairness, which the run checks.

The same module proves ReplyStorage, which composes the exchange with the buffers:
`StorageTypes`, `StoredRepliesAreOwn` and `InitDataAreStable`. The buffers add nothing to what the exchange does
(`StorageStep`), so its invariants carry over. `InitDataAreStable` supposes numbered
init replies and one initiating thread, and rests on `DataInv`: while an accepted init
reply is in the slot, the data in the shared buffer are that reply's. Run
`storage_shared` shows what two initiators do.

**SessionLifecycleProofs.** The invariant's second half supposes `Orderly`, as the
properties do: no open has overlapped another open or a close. `SoloInv` says so of
the threads inside; `OpenInv`, `TransportInv` and `ReaderInv` then tie `open`, `d->t` with
the one handle, and the reader thread to the phase of the thread that raises or tears
down. From these: `TransportOutlivesEveryCommand`, `ReaderIsJoinedFirst`,
`HandlesAreReleased`, `OpenSessionIsServed`.

**RxQueueProofs.** `Invariance` proves `CountInv` (refused arrivals have numbers of
their own, so `dropped = Cardinality(unreported)` is inductive) and `SleepInv` (the
types of the calls, and that a sleeper is on an empty queue of an open device): from
them `CountIsExact`, `NoWakeupLost` (for any number of readers, with broadcasts after
every arrival, loss and close) and `HolesAreMarked`, an action property. The ring itself
needs `RingInv`: `starts` lie one behind the other round the buffer from `head` to
`tail` and use `used` bytes (`PlacesInv`), the bytes from each are the header and the
body of a message (`LiesInv`), whose ids ascend (`OrderInv`). The work is in the lemmas on
circular addresses: what `queue_push` writes behind `tail` touches no byte of a queued
message. `RingIsWhole` follows, and `RingIsFifo`, the step simulation of RxFifo.

**CableLedgerProofs.** All three suppose `KeptApart`, for any number of threads; run
`ledger_pins_race` shows what calls that conflict do to each other. The argument has
the shape of the assumption. `Stable` says what a step of one call leaves alone
(`StepStable`): every channel but its own, the pins unless it is about them. So what
another call checked before its command still holds when its reply is there
(`OthersHold`; `HoldInv`), which is all `StoppedBeforeForgotten` needs. `TruthInv` has
the cable ahead of the record, channel by channel, by exactly what the call about that
channel has yet to record (`Opened`, `Closed`, `LiveAfter`), and pin by pin (`PinHas`).
It leaves out the channels and the pins in doubt. A lost reply adds its own call's, so
the others are as before; an answer that settles one says by itself how the cable has
it (`Settled`), whatever was true before. `RecordIsTheTruth` is the case of a channel
or a pin with no call about it. `PinsAreRespected` follows from the same invariant: a
line is open at the cable, and a pin has its voltage, because it is recorded so or
because a call has just done it (`OpenedLines`, `SetPins`), and of every two of these the
record keeps the rule (`PinsInv`), or the call checked the record, or the two calls
conflict.

**UsbReceiveProofs.** `SlotInv` (a read is in one place at libusb), `PhaseInv`, `RunInv` (while
no error waits every read is posted), `OrderInv` (bytes ascend through what was handed
out, the host ring and the completions) and `WholeInv` (none is missing but the dropped).
`StreamIsKept`, `PipeIsNeverDeaf`, `NothingFreedUnderLibusb`.

**ChannelCallsProofs.** `IInv` says at every point of a call what it has made of the
cable: `HandedInv` (which messages were handed over, how often, in which order),
`QueueInv` and `BusInv` (what the cable has yet to run, and what has run: a torn line and
whatever it swallowed may be missing, nothing else), `TimeInv` (what is left of the
budget for the wait in hand), `SetInv` and `ToldInv` (what was set and what was told). A step is
of six classes (`Begins`, `Ends`, `Moves`, `Sends`, `Settles`, `CableRuns`: `StepKinds`), and the parts
are proved class by class. `WritesAreCounted`, `TimeoutIsKept` and `CableIsAsTold` are
about any calls; the run takes sixteen.

**ReassemblyProofs.** Per channel: `SendInv` (of a transfer none of whose frames was lost,
what is in progress is its first frames, the id in front once, with the flag of its
address), `PartInv` (anything else in progress has lost a frame), `PureInv` (what is in
progress is not of a later transfer, nor of an earlier one than a START), `QueueInv` and
`FaithInv` (what was queued; without losses one message for each transfer, in order).
A step keeps the channels it is not about (`KeepsInv`); on its own the frame is lost
(`LossInv`), begins a transfer, goes on with it (`GoingOn`) or ends it (`Ending`).
`MessagesAreWhole`, `AllAreDelivered`, `StartsAreClean`, `AddressesAreMarked`. The assumption
is that a transfer fits `partial.Data`; `J2534_MSG_DATA_MAX` is 4128 and the longest
ISO 15765 message 4095 bytes and the id.

**InboundStreamProofs.** What the real records are made of is a hypothesis, not a
definition: `RecordsAreUnderstood` says of a script that each of its records, alone, is
parsed as what was meant, and `RecordsStandAlone` that no other place in the stream
parses as a record. Both are about the pure function `Parse` on finite sequences; TLC
evaluates them for every script of the run (`MCScriptsAssumption`). `ScriptsAssumption`
says that a script's records have bytes. The proofs are about everything else: reads that
end anywhere, the accumulator, its compaction, junk and lost reads. Of `Parse` and `Resync`
they show, for every sequence of bytes, what they may consume (`ParseUsed`,
`ResyncRange`), and that a record understood alone is waited for up to its last byte and
then understood the same whatever is behind it (`UnderstoodIsFound`).

- `AccumInv`: what the parser leaves has at most `LineMax` bytes, or is a frame or a
  finished line that wants more, so one more read fits: `ReadsAlwaysFit`. This rests on
  `InitMax <= LineMax` (255 and 256 in the code): behind a line that has only just ended
  fewer raw bytes are awaited than an endless line may have.
- `OrderInv`, `HeldIsTheStream`: bytes go through the accumulator in the order of the
  stream, without a gap while no read is dropped: `NoByteTwice`.
- `StepInv`: from the place where the stream is in step the parser stands, whenever it
  looks, at the end of a record (`InStep`), or once, before the first one, at garbage
  that `op_resync_offset` skips to the byte (`GarbageAhead`). With `LostInv` it gives
  `InStepForGood`. `NothingIsMadeUp` needs the second hypothesis as well.

**Model-checked only.** Liveness under fairness is out of the prover's reach:
`CallsReturn`, `LossIsNoticed`, `EndedMeansReturned`, `CloseEnds`, `ErrorIsReported` and the
fairness of CommandService. What `Parse` makes of a record for every record of the
protocol is induction over data (numbers are read by a recursive function, scripts are
joined by a fold): the two hypotheses above are evaluated for the scripts of the run.
Every safety property that a passing run checks is stated by a theorem.

## 5. Where the code and its documentation disagree

Each numbered item is a run that ends in a violation, with the quoted line in
`PROJECT.json`.

1. `storage_shared`: `*reply` holds pointers into storage of the device, which the
   next accepted reply overwrites. Two K-line inits on two threads can get each
   other's answers; an open can fail on another thread's command.
2. `session_two_owners`: `op_device_open` takes neither lock. Overlapping another
   open it empties `d->t` under that one's commands and leaks the handle;
   overlapping a close that is joining the reader it clears `reader_stop`, and the
   close waits for ever.
3. `exchange_late_init`: an unnumbered `arw` is matched by the verb alone, so the
   key bytes of a timed-out init answer the next init.
4. `ledger_pins_race`: the checks of pins and channels are not atomic with the
   command, so a line in use can be grounded from a second thread.

The properties that hold name what they need, and these conditions matter:

- `PinsRespected` and `RecordIsTrue` say nothing of a channel or a pin whose command
  or reply was lost, until a later answer settles it: a voltage that the cable applied
  but whose reply was lost is not in `pins_powered`, and the next call powers a second
  pin; a channel that was opened so is not known to be open. They, and
  `ForgottenOnlyWhenStopped`, also need the application to keep conflicting calls
  apart (`KeptApart`), which neither the code nor docs/API.md says: on one channel,
  an `atm` answered before another thread's `atl` but recorded after it leaves an id
  that no longer runs.
- `InitDataStays` needs numbered init replies as well as one initiator:
  `stash_reply` overwrites `d->reply` before it notices a stale init number, so a
  reply accepted but not yet taken can be replaced. It needs two inits in a row to
  time out.
- `HoleIsMarked` says that a hole is reported, not that there is none: `queue_push`
  refuses only what does not fit, so a shorter message can be queued behind a
  refused one before the overflow is reported (op_device.c:111-113 hopes otherwise).
  And it speaks of an open device: an overrun nobody was told of is forgotten when
  another thread closes the device.
- `RepliesInStep` begins where a read begins at a record, or where the garbage
  before one holds nothing that could begin it and the record's first three bytes
  come in the same read: `op_resync_offset` throws away one or two bytes of a
  record's head that end a read of garbage. After a dropped read
  (op_usb.c:275-276) a frame can be completed with bytes of the records behind it.
- `NothingInvented` is about records whose data do not hold the head of another one:
  when the stream is met in the middle of such data, the parser cannot tell.
- `TimeoutKept` bounds a write by its Timeout and the last command begun: the wait
  for `cmd_lock` before it and each of its transfers come on top, since `op_write`
  gets all the time that is left and the wait for the reply begins anew
  (op_j2534.c:606 says that Timeout bounds the whole call). It speaks of Timeouts
  below 2^32. `J_U32` has 64 bits here: a larger value loses its upper half, a
  multiple of 2^32 acts as 0 and one above LONG_MAX times out at once.
- `CountIsHonest`: a message that failed may still be sent, after the count was
  handed back. `usb_write` returns STALLED also when a part of the command has gone
  out, which op_transport.h calls "nothing sent"; the cable then holds the start of a
  line, and the next command may be lost to it.
- `CableAsTold`: a filter whose answer came too late stays set, its id known to
  nobody, until CLEAR_MSG_FILTERS.

## 6. Not modelled

- USB enumeration, interface claiming and modem lines, opening and configuring the
  serial port: thin layers over the system without state of the driver's own; what
  their opening does to `d->t` and the exclusive cable is in SessionLifecycle.
- The wording of commands, error text, log and recording: formatting without
  control. What the encoders refuse is in the callers' checks in ChannelCalls.
- Null pointers and calls on closed channels, refused before anything is done.
- In ChannelCalls, replies of a kind the cable does not give to the command, and
  calls of several threads at once, which meet in CommandExchange and are the time
  others hold `cmd_lock` here. In InboundStream, the bytes no decision looks at.
- Timestamps, ExtraDataIndex and the echo's numbering in Reassembly.
- Compiler-level data races other than through the interleavings of the modelled
  steps (each field read without a lock is read in one step).

## 7. Plan

Done: CommandExchange with its service and proofs; ReplyStorage;
SessionLifecycle; RxQueue with RxFifo and proofs; Reassembly; CableLedger;
UsbReceive; InboundStream; ChannelCalls. Every part of the driver with control of
its own has a module.

Proved: every safety property that the passing runs check (section 4). Next: the other
direction of the parser, that each encoder's line is one the cable understands; and
ReplyStorage as an implementation of a service that hands out values instead of pointers.

## 8. Running

```
tlc -workers 2 -config ReplyStorage.cfg MCReplyStorage
tlapm CommandExchangeProofs.tla
```

Each run in `PROJECT.json` names its module and configuration.
