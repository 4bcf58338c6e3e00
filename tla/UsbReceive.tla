----------------------------- MODULE UsbReceive -----------------------------
(***************************************************************************)
(* The receive side of the libusb transport (op_usb.c): reads kept posted, *)
(* rx_done called for them by the event thread, the ring usb_read drains,  *)
(* errors reported and the pipe posted anew, and rx_stop at close.         *)
(*                                                                         *)
(* libusb is external: posted reads complete in the order they were        *)
(* submitted (one bulk pipe), a cancelled one in any order or never, and   *)
(* callbacks run only in the event thread.  A byte of the stream is its    *)
(* number; the ring is the sequence of its bytes.                          *)
(***************************************************************************)
EXTENDS Integers, Sequences, FiniteSets, SequencesExt

CONSTANTS
    Transfers,   \* USB_RX_TRANSFERS: the number of reads kept posted
    RxLen,       \* USB_RX_LEN
    RingBytes,   \* USB_RING_BYTES
    ReadCap,     \* what the reader thread asks for at once
    MaxBytes,    \* bound: bytes the cable sends
    MaxErrors    \* bound: reads that fail or cannot be posted

ASSUME UsbAssumption ==
    /\ Transfers \in Nat \ {0} /\ RxLen \in Nat \ {0} /\ ReadCap \in Nat \ {0}
    /\ RingBytes \in Nat /\ MaxBytes \in Nat /\ MaxErrors \in Nat

Slots == 1 .. Transfers
Stream == 1 .. MaxBytes
Statuses == {"completed", "error", "no_device", "cancelled"}

VARIABLES
    phase,      \* "opening", "running", "failed", "stopping", "joined", "closed"
    flying,     \* the slots submitted whose callback has not run
    rxError, ring, dropped,
    pipe,       \* libusb: the slots posted, oldest first
    done,       \* libusb: the reads completed whose callback has not run
    cancelled,  \* libusb: the slots asked to be cancelled
    sent,       \* bytes the cable has sent
    present,    \* the cable is plugged in
    delivered,  \* the bytes usb_read handed out
    freed,      \* the transfers given back to libusb
    errors

libusb == <<pipe, done, cancelled, sent, present>>
vars == <<phase, flying, rxError, ring, dropped, libusb, delivered, freed, errors>>

TypeOK ==
    /\ phase \in {"opening", "running", "failed", "stopping", "joined", "closed"}
    /\ flying \subseteq Slots /\ freed \subseteq Slots /\ cancelled \subseteq Slots
    /\ rxError \in {"ok", "io", "no_device"}
    /\ ring \in Seq(Stream) /\ Len(ring) <= RingBytes
    /\ dropped \subseteq Stream
    /\ pipe \in Seq(Slots)
    /\ done \in Seq([slot : Slots, status : Statuses, data : Seq(Stream)])
    /\ sent \in 0 .. MaxBytes /\ present \in BOOLEAN
    /\ delivered \in Seq(Stream)
    /\ errors \in 0 .. MaxErrors

Init ==
    /\ phase = "opening"
    /\ flying = {} /\ rxError = "ok" /\ ring = <<>> /\ dropped = {}
    /\ pipe = <<>> /\ done = <<>> /\ cancelled = {} /\ sent = 0 /\ present = TRUE
    /\ delivered = <<>> /\ freed = {} /\ errors = 0

(***************************************************************************)
(* Posting reads.                                                          *)
(***************************************************************************)
\* rx_fail: the loss of the cable is kept.
Failed(st) == IF rxError = "no_device" THEN rxError ELSE st

\* libusb_submit_transfer on the given slots in order: the first n are posted;
\* if there are more, the next one failed and the rest were not tried.
PostAll(slots, n) ==
    /\ pipe' = pipe \o SubSeq(slots, 1, n)
    /\ IF n = Len(slots)
         THEN rxError' = "ok" /\ UNCHANGED errors
         ELSE \/ ~present /\ rxError' = "no_device" /\ UNCHANGED errors
              \/ errors < MaxErrors /\ errors' = errors + 1 /\ rxError' = "io"

Ascending(s) == \A m, n \in DOMAIN s : m < n => s[m] < s[n]

\* The slots of a set in the order of the loop over them.
InOrder(slots) ==
    {s \in [1 .. Cardinality(slots) -> slots] : Ascending(s) /\ ToSet(s) = slots}

RxStart ==
    /\ phase = "opening"
    /\ \E n \in 0 .. Transfers :
          /\ PostAll([k \in Slots |-> k], n)
          /\ flying' = 1 .. n
    /\ phase' = IF rxError' = "ok" THEN "running" ELSE "failed"
    /\ UNCHANGED <<ring, dropped, done, cancelled, sent, present, delivered, freed>>

(***************************************************************************)
(* rx_done, in the event thread.                                           *)
(***************************************************************************)
Fits(bytes) == Len(bytes) <= RingBytes - Len(ring)

RingPut(bytes) ==
    IF Fits(bytes) THEN ring' = ring \o bytes /\ UNCHANGED dropped
    ELSE dropped' = dropped \cup ToSet(bytes) /\ UNCHANGED ring

EventsRun == phase \notin {"opening", "joined", "closed"} /\ done # <<>>

Next1 == Head(done)

Popped == done' = Tail(done) /\ UNCHANGED <<phase, cancelled, sent, present, delivered, freed>>

\* A completed read is posted again, unless the transport is stopping.
DoneCompleted ==
    /\ EventsRun /\ Next1.status = "completed" /\ Popped
    /\ RingPut(Next1.data)
    /\ \/ /\ phase # "stopping"
          /\ pipe' = Append(pipe, Next1.slot)
          /\ UNCHANGED <<flying, rxError, errors>>
       \/ /\ phase # "stopping" /\ ~present
          /\ rxError' = "no_device" /\ flying' = flying \ {Next1.slot}
          /\ UNCHANGED <<pipe, errors>>
       \/ /\ phase # "stopping" /\ errors < MaxErrors
          /\ rxError' = Failed("io") /\ flying' = flying \ {Next1.slot}
          /\ errors' = errors + 1 /\ UNCHANGED pipe
       \/ /\ phase = "stopping"
          /\ flying' = flying \ {Next1.slot}
          /\ UNCHANGED <<pipe, rxError, errors>>

\* Mutant: a failed read is not reported.
FailsQuietly(status) == rxError

\* What rx_done reports for a read that did not complete.
Reported(status) ==
    CASE status = "cancelled" -> rxError
      [] status = "no_device" -> "no_device"
      [] status = "error" -> Failed("io")

DoneOther ==
    /\ EventsRun /\ Next1.status # "completed" /\ Popped
    /\ rxError' = Reported(Next1.status)
    /\ flying' = flying \ {Next1.slot}
    /\ UNCHANGED <<ring, dropped, pipe, errors>>

(***************************************************************************)
(* usb_read, in the reader thread.  Its wait ends after 10 ms anyway.      *)
(***************************************************************************)
\* Mutant: the bytes handed out stay in the ring.
RingGetKeeps(n) == ring

RingGet(n) == SubSeq(ring, n + 1, Len(ring))

ReadBytes ==
    /\ phase = "running" /\ ring # <<>>
    /\ LET n == IF Len(ring) < ReadCap THEN Len(ring) ELSE ReadCap IN
       /\ delivered' = delivered \o SubSeq(ring, 1, n)
       /\ ring' = RingGet(n)
    /\ UNCHANGED <<phase, flying, rxError, dropped, libusb, freed, errors>>

\* Mutant: the error reported is not cleared, so nothing is posted.
RepostNothing == UNCHANGED <<rxError, flying, pipe, errors>>

\* The error is reported, and what failed is posted again.
Repost ==
    \E slots \in InOrder(Slots \ flying) : \E n \in 0 .. Len(slots) :
       /\ PostAll(slots, n)
       /\ flying' = flying \cup ToSet(SubSeq(slots, 1, n))

ReadError ==
    /\ phase = "running" /\ ring = <<>> /\ rxError \notin {"ok", "no_device"}
    /\ Repost
    /\ UNCHANGED <<phase, ring, dropped, done, cancelled, sent, present, delivered, freed>>

(***************************************************************************)
(* rx_stop.  The reader thread has been joined.                            *)
(***************************************************************************)
RxStop ==
    /\ phase \in {"running", "failed"}
    /\ phase' = "stopping"
    /\ cancelled' = flying
    /\ UNCHANGED <<flying, rxError, ring, dropped, pipe, done, sent, present, delivered, freed, errors>>

\* Mutant: only the callbacks end the wait.
WaitForAll == flying = {}

\* The wait for the callbacks ends when all have run, or after a second.
WaitEnds == TRUE

\* The event thread is stopped and joined; no callback runs afterwards.
JoinEvents ==
    /\ phase = "stopping" /\ WaitEnds
    /\ phase' = "joined"
    /\ UNCHANGED <<flying, rxError, ring, dropped, libusb, delivered, freed, errors>>

\* Mutant: everything is freed.
FreeAll == Slots

\* A read whose callback never came is left allocated.
Landed == Slots \ flying

FreeTransfers ==
    /\ phase = "joined"
    /\ phase' = "closed"
    /\ freed' = Landed
    /\ UNCHANGED <<flying, rxError, ring, dropped, libusb, delivered, errors>>

(***************************************************************************)
(* libusb and the cable.                                                   *)
(***************************************************************************)
Complete(status, bytes) ==
    /\ pipe # <<>>
    /\ pipe' = Tail(pipe)
    /\ done' = Append(done, [slot |-> Head(pipe), status |-> status, data |-> bytes])
    /\ UNCHANGED <<phase, flying, rxError, ring, dropped, cancelled, delivered, freed>>

Receive ==
    /\ present
    /\ \E n \in 0 .. RxLen :
          /\ sent + n <= MaxBytes /\ sent' = sent + n
          /\ Complete("completed", [k \in 1 .. n |-> sent + k])
    /\ UNCHANGED <<present, errors>>

Break ==
    /\ present /\ errors < MaxErrors /\ errors' = errors + 1
    /\ Complete("error", <<>>)
    /\ UNCHANGED <<sent, present>>

Gone == ~present /\ Complete("no_device", <<>>) /\ UNCHANGED <<sent, present, errors>>

CancelEnds ==
    /\ \E i \in DOMAIN pipe :
          /\ pipe[i] \in cancelled
          /\ pipe' = RemoveAt(pipe, i)
          /\ done' = Append(done, [slot |-> pipe[i], status |-> "cancelled", data |-> <<>>])
    /\ UNCHANGED <<phase, flying, rxError, ring, dropped, cancelled, sent, present,
                   delivered, freed, errors>>

Unplug ==
    /\ present /\ present' = FALSE
    /\ UNCHANGED <<phase, flying, rxError, ring, dropped, pipe, done, cancelled, sent,
                   delivered, freed, errors>>

RxDone == DoneCompleted \/ DoneOther
Read == ReadBytes \/ ReadError
Close == JoinEvents \/ FreeTransfers

Next ==
    \/ RxStart \/ RxDone \/ Read \/ RxStop \/ Close
    \/ Receive \/ Break \/ Gone \/ CancelEnds \/ Unplug

\* The driver's threads run.  libusb may never complete a read.
Spec ==
    /\ Init /\ [][Next]_vars
    /\ WF_vars(RxDone) /\ WF_vars(Read) /\ WF_vars(Close)

(***************************************************************************)
(* Properties.                                                             *)
(***************************************************************************)
Precedes(s, t) == \A m \in DOMAIN s, n \in DOMAIN t : s[m] < t[n]

\* The bytes that reached the host and were not dropped.
Kept == ToSet(delivered) \cup ToSet(ring) \cup UNION {ToSet(done[n].data) : n \in DOMAIN done}

\* The stream is kept: what usb_read handed out, then the ring, then the reads
\* whose callback is due, one after the other, is the cable's stream in order,
\* without repetition and without a gap but for the reads that were dropped.
StreamKept ==
    /\ TypeOK
    /\ Ascending(delivered) /\ Ascending(ring) /\ Precedes(delivered, ring)
    /\ \A n \in DOMAIN done :
          /\ Ascending(done[n].data)
          /\ Precedes(delivered, done[n].data) /\ Precedes(ring, done[n].data)
          /\ \A m \in 1 .. n - 1 : Precedes(done[m].data, done[n].data)
    /\ Kept \cap dropped = {} /\ Kept \cup dropped = 1 .. sent

\* The slots libusb has, posted or with a callback due.
Held == ToSet(pipe) \cup {done[n].slot : n \in DOMAIN done}

\* The pipe is never left deaf: while no error waits to be reported every read
\* is posted or its callback is due, and the driver's flags say so.
EveryReadPosted ==
    phase = "running" /\ rxError = "ok" => flying = Slots /\ Held = Slots

\* Nothing is freed under libusb.
FreedAreLanded == freed \cap Held = {}

\* A close ends, even when a cancelled read never comes back.
CloseEnds == phase = "stopping" ~> phase = "closed"

\* An error is reported and the pipe posted anew, or the loss of the cable
\* stays for every later read to report (the cable's stream being finite).
ErrorIsReported ==
    phase = "running" /\ rxError = "io" ~> phase # "running" \/ rxError # "io"
=============================================================================
