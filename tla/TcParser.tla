------------------------------ MODULE TcParser ------------------------------
(***************************************************************************)
(* Reception of telecommands from a peripheral: the receiver task          *)
(* (ReceiveTC, components/core/src/tc_management.c) parses a circular      *)
(* buffer (components/utils/src/tc_parser.c) that the peripheral keeps     *)
(* filling.                                                                *)
(*                                                                         *)
(* A cell of the buffer stands for a few bytes of a packet: cell 1 for the *)
(* packet id FindTCHeader looks for, cell 2 for the length, the others for *)
(* the rest.  Each cell says whether it passes for a packet id and which   *)
(* total length is read from it where a length is expected, so that data   *)
(* and leftovers of the previous lap may be mistaken for headers.  The CRC *)
(* is taken as perfect: only a whole valid packet passes CheckTCValidity.  *)
(***************************************************************************)
EXTENDS Naturals, Sequences, FiniteSets

CONSTANTS
    buffer_size,   \* cells of the RX buffer
    tc_max,        \* cells of the array ParseOneTC copies a TC to, TC_MAX_SIZE
    Packet,        \* the kinds of packets on the uplink
    Cells,         \* the cells of each: [header : BOOLEAN, length : Nat]
    Valid,         \* those that pass CheckTCValidity
    Routable,      \* those the routing table and the task's buffer take
    EmptyLength,   \* the length read from zeroed cells
    MaxPackets     \* bound: packets sent

(* A length is at least that of the headers, two cells.  No valid packet   *)
(* is longer than the array, which InitTCReceiveContext wants smaller than *)
(* the buffer.                                                             *)
ASSUME TcParserAssumption ==
    /\ buffer_size \in Nat /\ tc_max \in Nat /\ 1 < tc_max /\ tc_max < buffer_size
    /\ MaxPackets \in Nat /\ EmptyLength \in Nat \ {0, 1}
    /\ Valid \subseteq Packet /\ Routable \subseteq Valid
    /\ \A p \in Packet :
          Cells[p] \in Seq([header : BOOLEAN, length : Nat \ {0, 1}]) /\ Cells[p] # <<>>
    /\ \A p \in Valid :
          /\ Len(Cells[p]) \in 2 .. tc_max /\ Cells[p][1].header
          /\ Cells[p][2].length = Len(Cells[p])

VARIABLES
    sent,         \* the packets sent so far, the last one maybe in part
    arrived,      \* cells of the last packet that are in the buffer
    rx_buffer,    \* which cell of which packet sent each place holds
    rx_count,     \* where the peripheral writes next
    signal,       \* the receiver is told of new data
    pc,           \* "parse" inside the loop of ReceiveTC, "wait", or "left"
                  \* when a TC that could not be processed ended the loop,
                  \* or "outside" its array
    write_index,  \* the receiver's copy of rx_count
    read_index,   \* receive_context->read_index
    tc,           \* the packet last copied out in this call, or 0
    accepted,     \* packets handed to ProcessValidTC, in order
    nacked        \* packets named in the TM(1,2) of invalid TCs

uplink   == <<sent, arrived, rx_buffer, rx_count>>
receiver == <<pc, write_index, read_index, tc, accepted, nacked>>
vars     == <<uplink, receiver, signal>>

Place   == 0 .. (buffer_size - 1)
Nowhere == [of |-> 0, at |-> 0]

Init ==
    /\ sent = <<>> /\ arrived = 0
    /\ rx_buffer = [i \in Place |-> Nowhere]
    /\ rx_count = 0
    /\ signal = FALSE
    /\ pc = "wait" /\ write_index = 0 /\ read_index = 0 /\ tc = 0
    /\ accepted = <<>> /\ nacked = {}

-----------------------------------------------------------------------------
(* The uplink and the peripheral. *)

PacketComplete ==
    arrived = IF sent = <<>> THEN 0 ELSE Len(Cells[sent[Len(sent)]])

SendPacket(p) ==
    /\ PacketComplete
    /\ Len(sent) < MaxPackets
    /\ sent' = Append(sent, p)
    /\ arrived' = 0
    /\ UNCHANGED <<rx_buffer, rx_count, signal, receiver>>

(* The cells from place i up to place j, and those not yet parsed. *)
Ahead(i, j) == (j + buffer_size - i) % buffer_size
Reader == read_index % buffer_size
Unread == Ahead(Reader, rx_count)

(* The receiver keeps up: data it did not read is not overwritten. *)
HasRoom == (rx_count + 1) % buffer_size # Reader

PeripheralWrites ==
    /\ ~PacketComplete
    /\ HasRoom
    /\ arrived' = arrived + 1
    /\ rx_buffer' = [rx_buffer EXCEPT ![rx_count] =
                        [of |-> Len(sent), at |-> arrived + 1]]
    /\ rx_count' = (rx_count + 1) % buffer_size
    /\ signal' = TRUE
    /\ UNCHANGED <<sent, receiver>>

-----------------------------------------------------------------------------
(* The buffer as the parser reads it. *)

Cell(i) ==
    IF rx_buffer[i] = Nowhere THEN [header |-> FALSE, length |-> EmptyLength]
    ELSE Cells[sent[rx_buffer[i].of]][rx_buffer[i].at]

(* FindTCHeader goes through Distance places, from the read index to the   *)
(* write index; a read index equal to buffer_size is outside the buffer.   *)
Distance ==
    IF read_index = buffer_size
      THEN IF write_index = 0 THEN buffer_size ELSE write_index
      ELSE Ahead(read_index, write_index)

Visited(k) == IF k = 0 THEN read_index ELSE (read_index + k) % buffer_size

(* What is read outside the buffer may pass for a packet id or not. *)
MayBeHeader(i)    == IF i \in Place THEN Cell(i).header ELSE TRUE
MayNotBeHeader(i) == IF i \in Place THEN ~Cell(i).header ELSE TRUE

HeaderOffset(k) ==
    /\ k \in 0 .. (Distance - 1)
    /\ MayBeHeader(Visited(k))
    /\ \A j \in 0 .. (k - 1) : MayNotBeHeader(Visited(j))

Start(k)         == (read_index + k) % buffer_size
TCLength(start)  == Cell((start + 1) % buffer_size).length
Available(start) == Ahead(start, write_index)

(* The n cells from start are a whole valid packet, the m-th one sent. *)
Holds(start, n, m) ==
    /\ sent[m] \in Valid
    /\ n = Len(Cells[sent[m]])
    /\ \A j \in 1 .. n :
          rx_buffer[(start + j - 1) % buffer_size] = [of |-> m, at |-> j]

(* Mutant: one byte more than the TC is asked for. *)
FullTCAndMore(start) == Available(start) > TCLength(start)

(* HasFullTC; it also refuses lengths that have already left the array.    *)
FullTC(start)    == Available(start) >= TCLength(start)
PartialTC(start) == Available(start) < TCLength(start)

ValidTC(start, m) == FullTC(start) /\ Holds(start, TCLength(start), m)

(* Mutants: the read index does not wrap, or does not move. *)
AfterTCWithoutWrap(start) == start + TCLength(start)
SameTCAgain(start) == start

AfterTC(start) == (start + TCLength(start)) % buffer_size

(* The next pass starts one place further. *)
SkipOne(start) == start + 1

-----------------------------------------------------------------------------
(* ReceiveTC *)

ReceiveTC ==
    /\ pc \in {"wait", "left"}
    /\ signal
    /\ signal' = FALSE
    /\ write_index' = rx_count
    /\ tc' = 0
    /\ pc' = "parse"
    /\ UNCHANGED <<uplink, read_index, accepted, nacked>>

Parsing == pc = "parse" /\ write_index # read_index

Leave(to) == pc' = to /\ tc' = 0 /\ write_index' = 0

NoNewData ==
    /\ pc = "parse"
    /\ write_index = read_index
    /\ Leave("wait")
    /\ UNCHANGED <<uplink, signal, read_index, accepted, nacked>>

(* ParseOneTC copies as many bytes as the header declares before it looks  *)
(* at what has arrived: with more than its array holds it writes over the  *)
(* stack, and nothing can be said of what follows.                         *)
Overrun ==
    /\ Parsing
    /\ \E k \in 0 .. (Distance - 1) : HeaderOffset(k) /\ TCLength(Start(k)) > tc_max
    /\ pc' = "outside"
    /\ UNCHANGED <<uplink, signal, write_index, read_index, tc, accepted, nacked>>

HeaderFits(k) == HeaderOffset(k) /\ TCLength(Start(k)) <= tc_max

(* The parser found a TC.  Its processing may fail: the loop then stops    *)
(* with whatever is left in the buffer.                                    *)
ParseTC ==
    /\ Parsing
    /\ \E k \in 0 .. (Distance - 1), m \in 1 .. Len(sent) :
          /\ HeaderFits(k)
          /\ ValidTC(Start(k), m)
          /\ read_index' = AfterTC(Start(k))
          /\ accepted' = Append(accepted, m)
          /\ IF sent[m] \in Routable
               THEN tc' = m /\ UNCHANGED <<pc, write_index>>
               ELSE Leave("left")
    /\ UNCHANGED <<uplink, signal, nacked>>

(* Mutant: the read index moves although the TC is not complete. *)
WaitForMoreAndSkip ==
    /\ Parsing
    /\ \E k \in 0 .. (Distance - 1) :
          /\ HeaderFits(k) /\ PartialTC(Start(k))
          /\ read_index' = (Start(k) + 1) % buffer_size
    /\ Leave("wait")
    /\ UNCHANGED <<uplink, signal, accepted, nacked>>

WaitForMore ==
    /\ Parsing
    /\ \E k \in 0 .. (Distance - 1) : HeaderFits(k) /\ PartialTC(Start(k))
    /\ Leave("wait")
    /\ UNCHANGED <<uplink, signal, read_index, accepted, nacked>>

(* The TM(1,2) is built from tc, which the parser leaves alone on errors.  *)
Nack == nacked' = nacked \union {tc}

RejectTC ==
    /\ Parsing
    /\ \E k \in 0 .. (Distance - 1) :
          /\ HeaderFits(k)
          /\ ~PartialTC(Start(k))
          /\ ~\E m \in 1 .. Len(sent) : ValidTC(Start(k), m)
          /\ read_index' = SkipOne(Start(k))
    /\ Nack
    /\ UNCHANGED <<uplink, signal, pc, write_index, tc, accepted>>

NoHeader ==
    /\ Parsing
    /\ \A k \in 0 .. (Distance - 1) : MayNotBeHeader(Visited(k))
    /\ read_index' = write_index
    /\ Nack
    /\ UNCHANGED <<uplink, signal, pc, write_index, tc, accepted>>

ReceiverStep ==
    \/ ReceiveTC \/ NoNewData \/ Overrun \/ ParseTC \/ WaitForMore \/ RejectTC \/ NoHeader

Next == (\E p \in Packet : SendPacket(p)) \/ PeripheralWrites \/ ReceiverStep

(* The receiver task runs when told to, a packet begun is sent to its end. *)
Spec ==
    /\ Init /\ [][Next]_vars
    /\ WF_vars(ReceiverStep) /\ WF_vars(PeripheralWrites)

-----------------------------------------------------------------------------
TcParserTypeOK ==
    /\ sent \in Seq(Packet) /\ Len(sent) <= MaxPackets
    /\ arrived \in Nat
    /\ rx_buffer \in [Place -> [of : 0 .. MaxPackets, at : Nat]]
    /\ rx_count \in Place /\ write_index \in Place
    /\ read_index \in 0 .. buffer_size
    /\ signal \in BOOLEAN /\ pc \in {"wait", "left", "parse", "outside"}
    /\ tc \in 0 .. MaxPackets
    /\ accepted \in Seq(1 .. MaxPackets)
    /\ nacked \subseteq 0 .. MaxPackets

(* Each packet is processed at most once and in the order sent: the loop   *)
(* parses new data only (tc_management.c:115), never what was read before. *)
AcceptedOnceInOrder ==
    \A j, k \in 1 .. Len(accepted) : j < k => accepted[j] < accepted[k]

Whole(m) == m < Len(sent) \/ (m = Len(sent) /\ PacketComplete)

(* The receiver is told of data, or parses, and the m-th packet is valid   *)
(* and in the buffer as a whole.                                           *)
ReceiverTold(m) ==
    /\ m <= Len(sent) /\ Whole(m) /\ sent[m] \in Valid
    /\ signal \/ pc = "parse"

Accepted(m) == \E k \in 1 .. Len(accepted) : accepted[k] = m

(* A false header before the packet declares more than has arrived. *)
HeldBack(m) ==
    \E n \in 0 .. (Unread - 1) :
      LET start == (Reader + n) % buffer_size IN
      /\ Cell(start).header /\ rx_buffer[start].of < m
      /\ Unread - n < TCLength(start)

(* Whenever the receiver is told of data, or parses, a valid TC that is in *)
(* the buffer as a whole is then accepted, however its bytes were spread   *)
(* over the calls and whatever noise came before it.  There are three      *)
(* exceptions: a TC before it that cannot be processed ends the loop and   *)
(* leaves it behind until the next signal; a false header before it that   *)
(* declares more bytes than have come holds it back until they come; and a *)
(* declared length beyond the parser's array ends everything.              *)
EveryTCAccepted ==
    \A m \in 1 .. MaxPackets :
       ReceiverTold(m)
          ~> \/ Accepted(m)
             \/ ~signal /\ (pc = "left" \/ (pc = "wait" /\ HeldBack(m)))
             \/ pc = "outside"

(* While only valid TCs come, no TM(1,2) says otherwise, whatever the      *)
(* leftovers of the previous lap declare.                                  *)
NoFalseNack == (\A m \in 1 .. Len(sent) : sent[m] \in Valid) => nacked = {}
=============================================================================
