------------------------------- MODULE Telemetry -------------------------------
(***************************************************************************)
(* The way of a telemetry to the ground (components/core/src/              *)
(* tm_management.c).  Several tasks build TMs with BuildTM, which numbers  *)
(* them with one static counter and takes no lock, write them to a buffer  *)
(* and signal the sender: the acknowledgements of tc_management.c, the     *)
(* reports of EmitHKs, the events of service 5, the TMs of the handlers.   *)
(* ExecuteTC may hold two at once: it builds the TM of the handler, then   *)
(* builds and writes the report of the execution, and only then writes the *)
(* former, to another buffer or to the same.  The sender calls SendTM,     *)
(* which empties the buffers of its table in turn into a link that may     *)
(* fail.  One action is one access to what is shared.                      *)
(***************************************************************************)
EXTENDS Naturals, Sequences

CONSTANTS
    Producer,      \* the tasks that build TMs
    Buffer,        \* number of buffers in send_table
    BufferOf,      \* the buffer each producer writes each kind of TM to
    BufferSize,    \* messages a buffer holds
    Quarter,       \* 2^14: the count has 14 bits and the flags the 2 above
    MaxTM          \* bound: TMs built

(* A report of service 1, or the TM that a handler or a service builds. *)
Kind == {"report", "specific"}

ASSUME TelemetryAssumption ==
    /\ Buffer \in Nat \ {0}
    /\ BufferOf \in [Producer -> UNION {[K -> 1..Buffer] : K \in SUBSET Kind}]
    /\ BufferSize \in Nat \ {0} /\ Quarter \in Nat \ {0} /\ MaxTM \in Nat

VARIABLES
    tm_counter,       \* static, of BuildTM: a uint16_t
    producer,         \* each producer: pc, its tm, the one it keeps
                      \* for after it, the counter it has read
    buffer, signal,   \* the buffers, and SIGNAL_TM of the sender
    sender,           \* SendTM: pc, i, and the tm of pusSendContext_t
    status,           \* of pusSendContext_t
    built,            \* auxiliary: number of TMs built
    overlapped,       \* auxiliary: two calls of BuildTM have overlapped
    downlink,         \* what the ground received
    dropped           \* auxiliary: TMs that were not written, or that a
                      \* failure may have left without a signal

prodVars == <<tm_counter, producer, built, overlapped>>
sendVars == <<sender, status, downlink>>
vars     == <<prodVars, buffer, signal, sendVars, dropped>>

WordSize == 4 * Quarter

(* Mutant: the sum is not truncated to the 16 bits of the field. *)
SequenceTooWide(counter) == 3 * Quarter + counter

(* packet_sequence_control: the mask of 18 bits lets the counter carry     *)
(* into the flags, 0b11, from 0x4000 on.                                   *)
Sequence(counter) == (3 * Quarter + counter) % WordSize

Count(tm) == tm.sequence % Quarter

NoTM == [id |-> 0, from |-> "none", kind |-> "none", sequence |-> 0,
         order |-> "host", crc |-> "none"]

NotProducing == [pc |-> "idle", tm |-> NoTM, kept |-> NoTM, held |-> 0]

Init ==
    /\ tm_counter = 0
    /\ producer = [p \in Producer |-> NotProducing]
    /\ buffer = [b \in 1..Buffer |-> <<>>] /\ signal = FALSE
    /\ sender = [pc |-> "init", i |-> 0, tm |-> NoTM]
    /\ status = "PUS_NOT_INITIALIZED"
    /\ built = 0 /\ overlapped = FALSE /\ downlink = <<>> /\ dropped = {}

IDs(b)   == {buffer[b][n].id : n \in DOMAIN buffer[b]}
Buffered == UNION {IDs(b) : b \in 1..Buffer}

-----------------------------------------------------------------------------
(* The producers.  BuildTM reads the counter for the header, then          *)
(* increments it: without a lock the compiler may add one to what was read *)
(* or read again.                                                          *)

ProducerAt(p, pc)   == producer[p].pc = pc
ProducerGoes(p, pc) == producer' = [producer EXCEPT ![p].pc = pc, ![p].held = 0]

(* The task goes on with the TM it kept, if it kept one. *)
After(task) ==
    IF task.kept = NoTM THEN NotProducing
    ELSE [NotProducing EXCEPT !.pc = "write", !.tm = task.kept]

ProducerDone(p) == producer' = [producer EXCEPT ![p] = After(@)]

(* The report of an execution is built after the TM of the handler. *)
BuildTM(p, kind) ==
    /\ kind \in DOMAIN BufferOf[p] /\ built < MaxTM
    /\ \/ ProducerAt(p, "idle")
       \/ ProducerAt(p, "built") /\ kind = "report"
    /\ producer' = [producer EXCEPT ![p] =
         [pc |-> "count", held |-> tm_counter, kept |-> producer[p].tm,
          tm |-> [NoTM EXCEPT !.id = built + 1, !.from = p, !.kind = kind,
                              !.sequence = Sequence(tm_counter)]]]
    /\ built' = built + 1
    /\ overlapped' = (overlapped \/ \E q \in Producer \ {p} : ProducerAt(q, "count"))
    /\ UNCHANGED <<tm_counter, buffer, signal, sendVars, dropped>>

(* Mutant: the counter is not static. *)
CountedAnew(p) == {0}

Counted(p) == {(c + 1) % WordSize : c \in {producer[p].held, tm_counter}}

CountTM(p) ==
    /\ ProducerAt(p, "count")
    /\ tm_counter' \in Counted(p)
    /\ ProducerGoes(p, IF producer[p].tm.kind = "specific" THEN "built" ELSE "write")
    /\ UNCHANGED <<built, overlapped, buffer, signal, sendVars, dropped>>

(* The write fails when the buffer is full, and may fail otherwise. *)
WriteTM(p) ==
    /\ ProducerAt(p, "write") \/ ProducerAt(p, "built")
    /\ \/ LET b == BufferOf[p][producer[p].tm.kind] IN
            /\ Len(buffer[b]) < BufferSize
            /\ buffer' = [buffer EXCEPT ![b] = Append(@, producer[p].tm)]
            /\ ProducerGoes(p, "signal") /\ UNCHANGED dropped
       \/ /\ dropped' = dropped \union {producer[p].tm.id}
          /\ ProducerDone(p) /\ UNCHANGED buffer
    /\ UNCHANGED <<tm_counter, built, overlapped, signal, sendVars>>

(* Mutant: a signal that comes while the sender runs is lost. *)
RaisedIfWaiting == sender.pc = "wait"

Raised == TRUE

SignalSender(p) ==
    /\ ProducerAt(p, "signal")
    /\ \/ signal' = (signal \/ Raised) /\ UNCHANGED dropped
       \/ UNCHANGED signal /\ dropped' = dropped \union {producer[p].tm.id}
    /\ ProducerDone(p)
    /\ UNCHANGED <<tm_counter, built, overlapped, buffer, sendVars>>

-----------------------------------------------------------------------------
(* The sender. *)

SenderAt(pc)      == sender.pc = pc
SenderGoes(pc, i) == sender' = [sender EXCEPT !.pc = pc, !.i = i]

(* A device that does not open leaves the context in error. *)
InitTMSendContext ==
    /\ SenderAt("init") /\ SenderGoes("wait", 0)
    /\ status' \in {"PUS_INITIALIZED", "PUS_ERROR"}
    /\ UNCHANGED <<prodVars, buffer, signal, downlink, dropped>>

SendTM ==
    /\ SenderAt("wait") /\ signal
    /\ signal' = FALSE
    /\ IF status = "PUS_INITIALIZED" THEN SenderGoes("read", 1) ELSE UNCHANGED sender
    /\ UNCHANGED <<prodVars, buffer, status, downlink, dropped>>

NextBuffer ==
    IF sender.i < Buffer THEN SenderGoes("read", sender.i + 1) ELSE SenderGoes("wait", 0)

ReadTM ==
    /\ SenderAt("read") /\ buffer[sender.i] # <<>>
    /\ sender' = [sender EXCEPT !.pc = "send", !.tm = Head(buffer[sender.i])]
    /\ buffer' = [buffer EXCEPT ![sender.i] = Tail(@)]
    /\ UNCHANGED <<prodVars, signal, status, downlink, dropped>>

(* Mutant: the result of the read is not looked at. *)
SendItAgain == SenderGoes("send", sender.i)

NothingRead == NextBuffer

BufferEmpty ==
    /\ SenderAt("read") /\ buffer[sender.i] = <<>>
    /\ NothingRead
    /\ UNCHANGED <<prodVars, buffer, signal, status, downlink, dropped>>

(* A read that fails otherwise ends SendTM: the TMs wait for a new signal. *)
ReadFails ==
    /\ SenderAt("read") /\ SenderGoes("wait", 0)
    /\ dropped' = dropped \union Buffered
    /\ UNCHANGED <<prodVars, buffer, signal, status, downlink>>

Swap(order)  == IF order = "host" THEN "network" ELSE "host"

(* FormatTM: the fields are swapped, then the CRC is computed over them.   *)
FormatTM(tm) ==
    [tm EXCEPT !.order = Swap(@), !.crc = Swap(tm.order)]

(* The size to send is computed from a field that FormatTM swaps. *)
SizeOf(tm) == IF tm.order = "host" THEN "its own" ELSE "another"

(* Mutant: the size is computed once the TM is formatted. *)
SizeAfterFormat(tm) == SizeOf(FormatTM(tm))

SizeToSend(tm) == SizeOf(tm)

(* The write on the link: sent; an error that ends SendTM; or an answer    *)
(* that is taken for an empty buffer.  In the last two the TM is gone.     *)
Sent ==
    /\ downlink' = Append(downlink, [tm |-> FormatTM(sender.tm), size |-> SizeToSend(sender.tm)])
    /\ sender' = [sender EXCEPT !.pc = "read", !.tm = FormatTM(@)]
    /\ UNCHANGED dropped

LinkError ==
    /\ dropped' = dropped \union {sender.tm.id} \union Buffered
    /\ sender' = [sender EXCEPT !.pc = "wait", !.i = 0, !.tm = FormatTM(@)]
    /\ UNCHANGED downlink

LinkNotAvailable ==
    /\ dropped' = dropped \union {sender.tm.id} \union IDs(sender.i)
    /\ sender' = [sender EXCEPT !.pc = IF sender.i < Buffer THEN "read" ELSE "wait",
                                !.i = IF sender.i < Buffer THEN @ + 1 ELSE 0,
                                !.tm = FormatTM(@)]
    /\ UNCHANGED downlink

SendOnLink ==
    /\ SenderAt("send")
    /\ Sent \/ LinkError \/ LinkNotAvailable
    /\ UNCHANGED <<prodVars, buffer, signal, status>>

-----------------------------------------------------------------------------

Produce(p) == CountTM(p) \/ WriteTM(p) \/ SignalSender(p)
Sender     == InitTMSendContext \/ SendTM \/ ReadTM \/ BufferEmpty \/ ReadFails \/ SendOnLink

Next ==
    \/ Sender
    \/ \E p \in Producer : Produce(p) \/ \E kind \in Kind : BuildTM(p, kind)

(* The scheduler runs every task that is ready; nobody has to build a TM.  *)
Spec ==
    /\ Init /\ [][Next]_vars
    /\ WF_vars(Sender) /\ \A p \in Producer : WF_vars(Produce(p))

-----------------------------------------------------------------------------

(* The variables keep their types, the fields their 16 bits. *)
TelemetryTypeOK ==
    /\ tm_counter \in 0..(WordSize - 1)
    /\ \A p \in Producer : /\ producer[p].pc \in {"idle", "count", "built", "write", "signal"}
                           /\ producer[p].tm.sequence \in 0..(WordSize - 1)
    /\ \A b \in 1..Buffer : Len(buffer[b]) <= BufferSize
    /\ sender.i \in 0..Buffer /\ (sender.i = 0) = (sender.pc \in {"init", "wait"})
    /\ built \in 0..MaxTM

(* The ground receives the reports of one task in the order in which they  *)
(* were built, and once, and so its other TMs, whatever is dropped on the  *)
(* way.  Between the two kinds no order is kept: ExecuteTC writes the      *)
(* report before the TM of the handler, built first, and SendTM empties    *)
(* their buffers one after the other.                                      *)
OrderKept ==
    \A m, n \in DOMAIN downlink :
      LET t == downlink[m].tm
          u == downlink[n].tm
      IN  m < n /\ t.from = u.from /\ t.kind = u.kind => t.id < u.id

(* As long as no two tasks were in BuildTM at once, the count of the n-th  *)
(* TM is n - 1 modulo 2^14, even where the counter carries into the flags, *)
(* so that a gap on the ground is a TM lost.                               *)
NumbersConsecutive ==
    ~ overlapped => \A n \in DOMAIN downlink :
                      Count(downlink[n].tm) = (downlink[n].tm.id - 1) % Quarter

(* A TM leaves in the byte order of the network, with the CRC of these     *)
(* bytes and its own size, however its context was used before (FormatTM). *)
WellFormed ==
    \A n \in DOMAIN downlink :
      /\ downlink[n].tm.order = "network" /\ downlink[n].tm.crc = "network"
      /\ downlink[n].size = "its own"

(* A TM that is in a buffer leaves it, unless its signal failed, or a read *)
(* of a buffer or a write on the link that failed left it there: a signal  *)
(* raised while SendTM runs is not lost.                                   *)
EveryTMLeaves ==
    \A id \in 1..MaxTM :
      id \in Buffered /\ status = "PUS_INITIALIZED" ~> id \notin Buffered \/ id \in dropped
=============================================================================
