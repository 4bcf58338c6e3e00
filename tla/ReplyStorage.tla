---------------------------- MODULE ReplyStorage ----------------------------
(***************************************************************************)
(* The storage behind a reply: reply_text and reply_data (op_device.h).    *)
(*                                                                         *)
(* cmd_exchange hands the caller a copy of d->reply, but the text of a     *)
(* version reply and the data of an init reply stay in the device's two    *)
(* buffers, which the caller reads after both locks are released.  This    *)
(* module adds the buffers and that reading to CommandExchange: the reader *)
(* thread writes them with each reply it accepts, whoever still reads.     *)
(***************************************************************************)
EXTENDS CommandExchange

CONSTANT Initiators     \* the threads that make K-line inits

ASSUME InitiatorsAssumption == Initiators \subseteq Threads

VARIABLES
    replyText, replyData,   \* the command whose text and data they hold, or 0
    reading                 \* what each thread has yet to read of its reply

storageVars == <<replyText, replyData, reading>>

\* Types, those of the exchange included; and nobody reads a text or data that
\* its reply does not have.
StorageTypeOK ==
    /\ TypeOK
    /\ replyText \in 0 .. MaxCalls /\ replyData \in 0 .. MaxCalls
    /\ reading \in [Threads -> {"nothing", "text", "data"}]
    /\ \A t \in Threads :
          /\ reading[t] = "text" => outcome[t].reply.kind = "info"
          /\ reading[t] = "data" => outcome[t].reply.kind \in InitKinds

StorageInit ==
    /\ Init
    /\ replyText = 0 /\ replyData = 0
    /\ reading = [t \in Threads |-> "nothing"]

\* An accepted reply clears the text, and fills it when it has some.
TextAfter(r) == CASE Discarded(r) -> replyText
                  [] r.kind = "info" -> r.cmd
                  [] OTHER -> 0

\* The data change with an init reply only.  Mutant: they are cleared first,
\* as the text is.
DataCleared(r) == CASE Discarded(r) -> replyData
                    [] r.kind \in InitKinds /\ ~StaleInit(r) -> r.cmd
                    [] OTHER -> 0
DataAfter(r) == IF r.kind \notin InitKinds \/ Discarded(r) \/ StaleInit(r)
                THEN replyData ELSE r.cmd

StashInto ==
    /\ StashReply
    /\ replyText' = TextAfter(Head(fromDev))
    /\ replyData' = DataAfter(Head(fromDev))
    /\ UNCHANGED reading

\* What the caller reads of a reply that has just been handed to it.
ToRead(t) == CASE verb[t] = "version" /\ reply.kind = "info" -> "text"
               [] verb[t] \in InitVerbs /\ reply.kind \in InitKinds -> "data"
               [] OTHER -> "nothing"

TakeInto(t) ==
    /\ TakeReply(t)
    /\ reading' = [reading EXCEPT ![t] = ToRead(t)]
    /\ UNCHANGED <<replyText, replyData>>

Reads(t, what) ==
    /\ reading[t] = what
    /\ reading' = [reading EXCEPT ![t] = "nothing"]
    /\ UNCHANGED <<vars, replyText, replyData>>

\* PassThruOpen parses the version, ioctl_init copies the ECU's answer.
ReadText(t) == Reads(t, "text")
ReadData(t) == Reads(t, "data")

\* A thread makes its next call when it has read the reply of the last one.
CallAgain(t, v, w) ==
    /\ reading[t] = "nothing"
    /\ v \in InitVerbs => t \in Initiators
    /\ Call(t, v, w)

CloseAgain(t) == reading[t] = "nothing" /\ CloseBegin(t)

StepWithin(t) ==
    \/ Begin(t) \/ Refuse(t) \/ Claim(t)
    \/ Write(t) \/ WriteNowait(t) \/ WriteFails(t)
    \/ WakeGone(t) \/ TimeOut(t)
    \/ CloseEnd(t)

StorageNext ==
    \/ StashInto
    \/ \E t \in Threads : TakeInto(t) \/ ReadText(t) \/ ReadData(t)
    \/ /\ \/ \E t \in Threads :
                \/ \E v \in Verbs, w \in BOOLEAN : CallAgain(t, v, w)
                \/ CloseAgain(t) \/ StepWithin(t)
          \/ DeviceAnswer \/ DeviceSwallow \/ ReaderLost \/ Done
       /\ UNCHANGED storageVars

\* Scheduling, as for the exchange alone: a thread inside the library keeps
\* running.  When a caller reads what it was given is its own business.
StorageFairness ==
    \A t \in Threads :
        WF_<<vars, storageVars>>(\/ StepWithin(t) /\ UNCHANGED storageVars
                                 \/ TakeInto(t))

StorageSpec ==
    StorageInit /\ [][StorageNext]_<<vars, storageVars>> /\ StorageFairness
-----------------------------------------------------------------------------
\* The answer of the ECU that a K-line init is about to copy out is that of
\* the reply it was handed: no other command's reply has replaced it since
\* (op_j2534.c:1026-1031).
InitDataStays ==
    \A t \in Threads :
        reading[t] = "data" => replyData = outcome[t].reply.cmd

\* The same for all that a caller reads through its reply: the version text
\* too, which PassThruOpen is about to parse, "stays valid after return"
\* (op_device.h:138-139).
ReplyStaysValid ==
    /\ InitDataStays
    /\ \A t \in Threads :
          reading[t] = "text" => replyText = outcome[t].reply.cmd
=============================================================================
