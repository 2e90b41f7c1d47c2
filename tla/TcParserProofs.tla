--------------------------- MODULE TcParserProofs ---------------------------
(***************************************************************************)
(* The parser of the RX buffer, for any buffer, any uplink and any way in  *)
(* which the bytes are spread over the calls.                              *)
(***************************************************************************)
EXTENDS TcParser, Integers, SequenceTheorems, TLAPS

(* The n-th cell that is not yet parsed, counted from 0, and the next to   *)
(* come.                                                                   *)
Nth(n)      == rx_buffer[(Reader + n) % buffer_size]
NextCell    == [of |-> Len(sent), at |-> arrived + 1]
CellsOf(m)  == Len(Cells[sent[m]])
Earlier(c, d) == c.of < d.of \/ (c.of = d.of /\ c.at < d.at)

(* A place holds a cell that has arrived. *)
Arrived(c) == /\ c.of \in 1 .. Len(sent) /\ c.at \in 1 .. CellsOf(c.of)
              /\ c.of = Len(sent) => c.at <= arrived

Reception ==
    /\ sent = <<>> => arrived = 0
    /\ sent # <<>> => arrived <= CellsOf(Len(sent))
    /\ \A i \in Place : rx_buffer[i] = Nowhere \/ Arrived(rx_buffer[i])

(* A read index that SkipOne has put right behind the buffer: it was put   *)
(* there past a header with two cells at least, so that something is left, *)
(* and the receiver sees that the write index is another place.            *)
EndFits ==
    read_index = buffer_size => /\ rx_count # 0
                                /\ pc = "parse" => write_index # 0

(* What is unread has arrived, and the receiver parses a part of it. *)
Waiting == /\ EndFits
           /\ \A i \in 0 .. (Unread - 1) : Arrived(Nth(i))
           /\ pc = "parse" => Ahead(Reader, write_index) <= Unread

(* What is unread came in the order sent. *)
UnreadInOrder == \A i, j \in 0 .. (Unread - 1) : i < j => Earlier(Nth(i), Nth(j))

(* What was accepted came before what is unread or still to come. *)
AcceptedBefore ==
    \A k \in 1 .. Len(accepted) :
      /\ accepted[k] \in 1 .. Len(sent)
      /\ accepted[k] = Len(sent) => PacketComplete
      /\ \A j \in 0 .. (Unread - 1) : accepted[k] < Nth(j).of

Ordered == Waiting /\ UnreadInOrder /\ AcceptedBefore /\ AcceptedOnceInOrder

-----------------------------------------------------------------------------
(* The cells of a packet lie one behind the other, then comes another one. *)
Stream(j) == IF j < Unread THEN Nth(j) ELSE NextCell

Starts(j) == Stream(j).at = 1 \/ (j = Unread /\ PacketComplete)

Contiguous ==
    \A i \in 0 .. (Unread - 1), j \in 0 .. Unread :
      i <= j =>
       LET c == Nth(i)  end == c.at + (j - i)
       IN /\ end <= CellsOf(c.of) => Stream(j) = [of |-> c.of, at |-> end]
          /\ end = CellsOf(c.of) + 1 => Starts(j)

AllValid == \A m \in 1 .. Len(sent) : sent[m] \in Valid

USE TcParserAssumption

-----------------------------------------------------------------------------

LEMMA Wrap ==
    ASSUME NEW x \in 0 .. (2 * buffer_size - 1)
    PROVE  x % buffer_size = IF x < buffer_size THEN x ELSE x - buffer_size
<1>1. CASE x < buffer_size
  BY <1>1
<1>2. CASE ~ (x < buffer_size)
  <2>1. \A q, k \in Nat : k < buffer_size => (buffer_size * q + k) % buffer_size = k
    OBVIOUS
  <2>2. x = buffer_size * 1 + (x - buffer_size) /\ x - buffer_size \in Nat
        /\ x - buffer_size < buffer_size
    BY <1>2
  <2>3. (buffer_size * 1 + (x - buffer_size)) % buffer_size = x - buffer_size
    BY <2>1, <2>2
  <2> QED
    BY <1>2, <2>2, <2>3
<1> QED
  BY <1>1, <1>2

LEMMA PlaceIs ==
    ASSUME NEW r \in Place, NEW i \in 0 .. buffer_size
    PROVE  /\ (r + i) % buffer_size = IF r + i < buffer_size THEN r + i
                                      ELSE r + i - buffer_size
           /\ (r + i) % buffer_size \in Place
<1>1. r + i \in 0 .. (2 * buffer_size - 1)
  BY DEF Place
<1>2. (r + i) % buffer_size = IF r + i < buffer_size THEN r + i ELSE r + i - buffer_size
  <2>1. PICK x \in 0 .. (2 * buffer_size - 1) : x = r + i
    BY <1>1
  <2>2. x % buffer_size = IF x < buffer_size THEN x ELSE x - buffer_size
    BY Wrap
  <2>3. (r + i) % buffer_size = x % buffer_size
    BY <2>1
  <2>4. (IF x < buffer_size THEN x ELSE x - buffer_size)
          = (IF r + i < buffer_size THEN r + i ELSE r + i - buffer_size)
    BY <2>1 DEF Place
  <2> QED
    BY <2>2, <2>3, <2>4, Zenon
<1> DEFINE m == (r + i) % buffer_size
<1> HIDE DEF m
<1>3. m \in Place
  <2>1. m = IF r + i < buffer_size THEN r + i ELSE r + i - buffer_size
    BY <1>2 DEF m
  <2> QED
    BY <1>1, <2>1 DEF Place
<1> QED
  BY <1>2, <1>3 DEF m

LEMMA AheadIs ==
    ASSUME NEW r \in Place, NEW w \in Place
    PROVE  /\ Ahead(r, w) = IF r <= w THEN w - r ELSE w + buffer_size - r
           /\ Ahead(r, w) \in Place
           /\ (r + Ahead(r, w)) % buffer_size = w
<1>1. w + buffer_size - r \in 0 .. (2 * buffer_size - 1)
  BY DEF Place
<1>2. Ahead(r, w) = IF r <= w THEN w - r ELSE w + buffer_size - r
  <2>1. PICK x \in 0 .. (2 * buffer_size - 1) : x = w + buffer_size - r
    BY <1>1
  <2>2. Ahead(r, w) = IF x < buffer_size THEN x ELSE x - buffer_size
    BY <2>1, Wrap DEF Ahead
  <2> QED
    BY <2>1, <2>2 DEF Place
<1>3. Ahead(r, w) \in Place
  BY <1>2 DEF Place
<1>4. Ahead(r, w) \in 0 .. buffer_size
  BY <1>3 DEF Place
<1>5. (r + Ahead(r, w)) % buffer_size = w
  <2> DEFINE a == Ahead(r, w)
  <2>1. (r + a) % buffer_size = IF r + a < buffer_size THEN r + a
                                ELSE r + a - buffer_size
    BY <1>4, PlaceIs
  <2>2. a = (IF r <= w THEN w - r ELSE w + buffer_size - r)
    BY <1>2
  <2>3. a \in Place
    BY <1>3
  <2> DEFINE m == (r + a) % buffer_size
  <2>4. m = IF r + a < buffer_size THEN r + a ELSE r + a - buffer_size
    BY <2>1
  <2> HIDE DEF a, m
  <2>5. m = w
    BY <2>2, <2>3, <2>4 DEF Place
  <2> QED
    BY <2>5 DEF a, m
<1> QED
  BY <1>2, <1>3, <1>5

(* The reader moves on by d places. *)
LEMMA AheadMoves ==
    ASSUME NEW r \in Place, NEW w \in Place, NEW d \in 0 .. Ahead(r, w)
    PROVE  /\ (r + d) % buffer_size \in Place
           /\ Ahead((r + d) % buffer_size, w) = Ahead(r, w) - d
           /\ \A i \in 0 .. (Ahead(r, w) - d) :
                (((r + d) % buffer_size) + i) % buffer_size = (r + (i + d)) % buffer_size
<1> DEFINE a == Ahead(r, w)
           s == (r + d) % buffer_size
<1>1. a = (IF r <= w THEN w - r ELSE w + buffer_size - r) /\ a \in Place /\ d \in 0 .. a
  BY AheadIs
<1>2. d \in 0 .. buffer_size
  BY <1>1 DEF Place
<1>3. s = (IF r + d < buffer_size THEN r + d ELSE r + d - buffer_size) /\ s \in Place
  BY <1>2, PlaceIs
<1>4. Ahead(s, w) = (IF s <= w THEN w - s ELSE w + buffer_size - s)
  BY <1>3, AheadIs
<1> HIDE DEF a, s
<1>5. Ahead(s, w) = a - d
  BY <1>1, <1>3, <1>4 DEF Place
<1>6. ASSUME NEW i \in 0 .. (a - d)
      PROVE  (s + i) % buffer_size = (r + (i + d)) % buffer_size
  <2>1. i \in 0 .. buffer_size /\ i + d \in 0 .. buffer_size
    BY <1>1, <1>6 DEF Place
  <2>2. /\ (s + i) % buffer_size = IF s + i < buffer_size THEN s + i
                                   ELSE s + i - buffer_size
        /\ (r + (i + d)) % buffer_size =
             IF r + (i + d) < buffer_size THEN r + (i + d) ELSE r + (i + d) - buffer_size
    BY <1>3, <2>1, PlaceIs
  <2> QED
    BY <1>1, <1>3, <1>6, <2>1, <2>2 DEF Place
<1> QED
  BY <1>3, <1>5, <1>6 DEF a, s

(* The writer moves on by one place. *)
LEMMA AheadGrows ==
    ASSUME NEW r \in Place, NEW w \in Place, (w + 1) % buffer_size # r
    PROVE  /\ (w + 1) % buffer_size \in Place
           /\ Ahead(r, (w + 1) % buffer_size) = Ahead(r, w) + 1
           /\ \A i \in 0 .. (Ahead(r, w) - 1) : (r + i) % buffer_size # w
           /\ Ahead(r, w) + 1 \in Place
<1> DEFINE a == Ahead(r, w)
           v == (w + 1) % buffer_size
<1>1. a = (IF r <= w THEN w - r ELSE w + buffer_size - r) /\ a \in Place
  BY AheadIs
<1>2. v = (IF w + 1 < buffer_size THEN w + 1 ELSE w + 1 - buffer_size) /\ v \in Place
  BY PlaceIs
<1>3. Ahead(r, v) = IF r <= v THEN v - r ELSE v + buffer_size - r
  BY <1>2, AheadIs
<1>4. ASSUME NEW i \in 0 .. (a - 1)
      PROVE  (r + i) % buffer_size # w
  <2>1. i \in 0 .. buffer_size
    BY <1>1, <1>4 DEF Place
  <2>2. (r + i) % buffer_size = IF r + i < buffer_size THEN r + i
                                ELSE r + i - buffer_size
    BY <2>1, PlaceIs
  <2> HIDE DEF a
  <2> QED
    BY <1>1, <1>4, <2>1, <2>2 DEF Place
<1>5. v # r
  OBVIOUS
<1> HIDE DEF a, v
<1>6. Ahead(r, v) = a + 1 /\ a + 1 \in Place
  BY <1>1, <1>2, <1>3, <1>5 DEF Place
<1> QED
  BY <1>2, <1>4, <1>6 DEF a, v

-----------------------------------------------------------------------------

Base == TcParserTypeOK /\ Reception

LEMMA WrapInside ==
    ASSUME NEW x \in Nat
    PROVE  x % buffer_size \in Place
BY DEF Place

LEMMA ReaderTyped ==
    ASSUME TcParserTypeOK
    PROVE  /\ Reader \in Place
           /\ read_index \in Place => Reader = read_index
           /\ read_index = buffer_size => Reader = 0
           /\ read_index \notin Place => read_index = buffer_size
<1>1. read_index \in 0 .. buffer_size /\ read_index \in Nat
  BY DEF TcParserTypeOK
<1>2. Reader \in Place
  BY <1>1, WrapInside DEF Reader
<1>3. read_index % buffer_size
        = IF read_index < buffer_size THEN read_index ELSE read_index - buffer_size
  <2>1. read_index \in 0 .. (2 * buffer_size - 1)
    BY <1>1
  <2> QED
    BY <2>1, Wrap
<1> QED
  BY <1>1, <1>2, <1>3 DEF Reader, Place

LEMMA PacketTyped ==
    ASSUME TcParserTypeOK, NEW m \in 1 .. Len(sent)
    PROVE  /\ sent[m] \in Packet /\ CellsOf(m) \in Nat \ {0}
           /\ \A k \in 1 .. CellsOf(m) :
                Cells[sent[m]][k] \in [header : BOOLEAN, length : Nat \ {0, 1}]
<1>1. sent[m] \in Packet
  BY DEF TcParserTypeOK
<1>2. /\ Cells[sent[m]] \in Seq([header : BOOLEAN, length : Nat \ {0, 1}])
      /\ Cells[sent[m]] # <<>>
  BY <1>1
<1>3. CellsOf(m) \in Nat \ {0}
  BY <1>2 DEF CellsOf
<1>4. \A k \in 1 .. CellsOf(m) :
        Cells[sent[m]][k] \in [header : BOOLEAN, length : Nat \ {0, 1}]
  <2> DEFINE S == [header : BOOLEAN, length : Nat \ {0, 1}]
             c == Cells[sent[m]]
  <2>1. c \in Seq(S) /\ CellsOf(m) = Len(c)
    BY <1>2 DEF CellsOf
  <2> HIDE DEF S, c
  <2>2. \A k \in 1 .. Len(c) : c[k] \in S
    BY <2>1, ElementOfSeq
  <2> QED
    BY <2>1, <2>2 DEF S, c
<1> QED
  BY <1>1, <1>3, <1>4

LEMMA CellTyped ==
    ASSUME Base, NEW p \in Place
    PROVE  Cell(p) \in [header : BOOLEAN, length : Nat \ {0, 1}]
<1>1. CASE rx_buffer[p] = Nowhere
  BY <1>1 DEF Cell
<1>2. CASE rx_buffer[p] # Nowhere
  <2>1. Arrived(rx_buffer[p])
    BY <1>2 DEF Base, Reception
  <2>2. /\ rx_buffer[p].of \in 1 .. Len(sent)
        /\ rx_buffer[p].at \in 1 .. CellsOf(rx_buffer[p].of)
    BY <2>1 DEF Arrived
  <2>3. Cells[sent[rx_buffer[p].of]][rx_buffer[p].at]
          \in [header : BOOLEAN, length : Nat \ {0, 1}]
    BY <2>2, PacketTyped DEF Base
  <2> QED
    BY <1>2, <2>3 DEF Cell
<1> QED
  BY <1>1, <1>2

(* Where the receiver may find a telecommand. *)
LEMMA StartTyped ==
    ASSUME Base, NEW k \in 0 .. (Distance - 1)
    PROVE  /\ k \in Nat /\ Distance \in Nat
           /\ Start(k) \in Place /\ TCLength(Start(k)) \in Nat \ {0, 1}
           /\ Available(Start(k)) \in Place
<1>0. write_index \in Place /\ read_index \in 0 .. buffer_size
  BY DEF Base, TcParserTypeOK
<1>1. Distance \in Nat
  <2>1. CASE read_index = buffer_size
    BY <1>0, <2>1 DEF Distance, Place
  <2>2. CASE read_index # buffer_size
    <3>1. write_index + buffer_size - read_index \in Nat
      BY <1>0 DEF Place
    <3>2. (write_index + buffer_size - read_index) % buffer_size \in Place
      BY <3>1, WrapInside
    <3> QED
      BY <2>2, <3>2 DEF Distance, Ahead, Place
  <2> QED
    BY <2>1, <2>2
<1>2. k \in Nat
  BY <1>1
<1>3. Start(k) \in Place
  <2>1. read_index + k \in Nat
    BY <1>0, <1>2
  <2> QED
    BY <2>1, WrapInside DEF Start
<1>4. TCLength(Start(k)) \in Nat \ {0, 1}
  <2>1. Start(k) + 1 \in Nat
    BY <1>3 DEF Place
  <2>2. (Start(k) + 1) % buffer_size \in Place
    BY <2>1, WrapInside
  <2> QED
    BY <2>2, CellTyped DEF TCLength
<1>5. Available(Start(k)) \in Place
  <2>1. write_index + buffer_size - Start(k) \in Nat
    BY <1>0, <1>3 DEF Place
  <2> QED
    BY <2>1, WrapInside DEF Available, Ahead
<1> QED
  BY <1>1, <1>2, <1>3, <1>4, <1>5

LEMMA BaseStarts == Init => Base
<1> SUFFICES ASSUME Init PROVE Base
  OBVIOUS
<1>1. TcParserTypeOK
  <2>1. 0 \in Place /\ 0 \in 0 .. buffer_size /\ 0 \in 0 .. MaxPackets
    BY DEF Place
  <2>2. rx_buffer \in [Place -> [of : 0 .. MaxPackets, at : Nat]]
    BY <2>1 DEF Init, Nowhere
  <2>3. sent \in Seq(Packet) /\ Len(sent) <= MaxPackets /\ accepted \in Seq(1 .. MaxPackets)
    BY DEF Init
  <2> QED
    BY <2>1, <2>2, <2>3 DEF Init, TcParserTypeOK
<1>2. Reception
  BY DEF Init, Reception
<1> QED
  BY <1>1, <1>2 DEF Base

LEMMA SendKeepsBase ==
    ASSUME Base, NEW p \in Packet, SendPacket(p)
    PROVE  Base'
<1>1. /\ sent' = Append(sent, p) /\ arrived' = 0 /\ Len(sent) < MaxPackets
      /\ UNCHANGED <<rx_buffer, rx_count, signal, receiver>>
      /\ sent \in Seq(Packet) /\ Len(sent) \in Nat
  BY DEF SendPacket, Base, TcParserTypeOK
<1>2. /\ sent' \in Seq(Packet) /\ Len(sent') = Len(sent) + 1
      /\ \A m \in 1 .. Len(sent) : sent'[m] = sent[m]
      /\ sent'[Len(sent) + 1] = p
  BY <1>1
<1>3. TcParserTypeOK'
  BY <1>1, <1>2 DEF Base, TcParserTypeOK, receiver
<1>4. arrived' <= CellsOf(Len(sent))'
  <2>1. Len(sent') \in 1 .. Len(sent')
    BY <1>1, <1>2
  <2>2. Cells[sent'[Len(sent')]] \in Seq([header : BOOLEAN, length : Nat \ {0, 1}])
    BY <1>2, <2>1
  <2> QED
    BY <1>1, <2>2 DEF CellsOf
<1>5. ASSUME NEW i \in Place, rx_buffer[i] # Nowhere
      PROVE  Arrived(rx_buffer[i])'
  <2>1. Arrived(rx_buffer[i])
    BY <1>5 DEF Base, Reception
  <2>2. rx_buffer[i].of \in 1 .. Len(sent)
    BY <2>1 DEF Arrived
  <2>3. rx_buffer[i].of # Len(sent') /\ rx_buffer[i].of \in 1 .. Len(sent')
    BY <1>1, <1>2, <2>2
  <2> QED
    BY <1>1, <1>2, <2>1, <2>2, <2>3 DEF Arrived, CellsOf
<1>6. sent' # <<>>
  BY <1>2, <1>1
<1>7. Reception'
  BY <1>1, <1>4, <1>5, <1>6 DEF Reception
<1> QED
  BY <1>3, <1>7 DEF Base

(* The peripheral has a packet, of which a cell is still to come. *)
LEMMA Arriving ==
    ASSUME Base, ~ PacketComplete
    PROVE  /\ sent # <<>> /\ Len(sent) \in 1 .. MaxPackets /\ arrived \in Nat
           /\ arrived < CellsOf(Len(sent)) /\ CellsOf(Len(sent)) \in Nat
<1>1. sent # <<>> /\ sent \in Seq(Packet) /\ arrived \in Nat /\ Len(sent) <= MaxPackets
  BY DEF PacketComplete, Base, Reception, TcParserTypeOK
<1>2. Len(sent) \in 1 .. Len(sent) /\ Len(sent) \in 1 .. MaxPackets
  BY <1>1
<1>3. CellsOf(Len(sent)) \in Nat /\ arrived <= CellsOf(Len(sent))
  BY <1>1, <1>2, PacketTyped DEF Base, Reception
<1>4. arrived # CellsOf(Len(sent))
  BY <1>1 DEF PacketComplete, CellsOf
<1> QED
  BY <1>1, <1>2, <1>3, <1>4

LEMMA WriteKeepsBase ==
    ASSUME Base, PeripheralWrites
    PROVE  Base'
<1>1. /\ arrived' = arrived + 1
      /\ rx_buffer' = [rx_buffer EXCEPT ![rx_count] = NextCell]
      /\ rx_count' = (rx_count + 1) % buffer_size
      /\ signal' = TRUE /\ UNCHANGED <<sent, receiver>> /\ ~ PacketComplete
  BY DEF PeripheralWrites, NextCell
<1>2. /\ sent # <<>> /\ Len(sent) \in 1 .. MaxPackets /\ arrived \in Nat
      /\ arrived < CellsOf(Len(sent)) /\ CellsOf(Len(sent)) \in Nat
  BY <1>1, Arriving
<1>3. /\ rx_count \in Place /\ rx_count' \in Place
      /\ rx_buffer \in [Place -> [of : 0 .. MaxPackets, at : Nat]]
  <2>1. rx_count \in Place
    BY DEF Base, TcParserTypeOK
  <2>2. rx_count + 1 \in Nat
    BY <2>1 DEF Place
  <2> QED
    BY <1>1, <2>1, <2>2, WrapInside DEF Base, TcParserTypeOK
<1>4. NextCell \in [of : 0 .. MaxPackets, at : Nat]
  BY <1>2 DEF NextCell
<1>5. TcParserTypeOK'
  BY <1>1, <1>2, <1>3, <1>4 DEF Base, TcParserTypeOK, receiver
<1>7. ASSUME NEW i \in Place, rx_buffer'[i] # Nowhere
      PROVE  Arrived(rx_buffer[i])'
  <2>1. CASE i = rx_count
    <3>1. rx_buffer'[i] = [of |-> Len(sent), at |-> arrived + 1]
      BY <1>1, <1>3, <2>1 DEF NextCell
    <3>2. /\ rx_buffer'[i].of = Len(sent) /\ rx_buffer'[i].at = arrived'
          /\ arrived' \in 1 .. CellsOf(Len(sent))
      BY <1>1, <1>2, <3>1
    <3> QED
      BY <1>1, <1>2, <3>2 DEF Arrived, CellsOf
  <2>2. CASE i # rx_count
    <3>1. rx_buffer'[i] = rx_buffer[i]
      BY <1>1, <1>3, <2>2
    <3>2. Arrived(rx_buffer[i])
      BY <1>7, <3>1 DEF Base, Reception
    <3>3. rx_buffer[i].at \in Nat
      BY <1>3
    <3> QED
      BY <1>1, <1>2, <3>1, <3>2, <3>3 DEF Arrived, CellsOf
  <2> QED
    BY <2>1, <2>2
<1>8. arrived' <= CellsOf(Len(sent))'
  BY <1>1, <1>2 DEF CellsOf
<1>9. Reception'
  BY <1>1, <1>2, <1>7, <1>8 DEF Reception
<1> QED
  BY <1>5, <1>9 DEF Base

-----------------------------------------------------------------------------

LEMMA BaseUnchanged ==
    ASSUME Base, UNCHANGED vars
    PROVE  Base'
BY DEF Base, TcParserTypeOK, Reception, Arrived, CellsOf, vars, uplink, receiver

LEMMA ReceptionKept ==
    ASSUME Reception, UNCHANGED uplink
    PROVE  Reception'
BY DEF Reception, Arrived, CellsOf, uplink

LEMMA ParseKeepsBase ==
    ASSUME Base, ParseTC
    PROVE  Base'
<1>1. PICK k \in 0 .. (Distance - 1), m \in 1 .. Len(sent) :
          /\ ValidTC(Start(k), m)
          /\ read_index' = AfterTC(Start(k))
          /\ accepted' = Append(accepted, m)
          /\ IF sent[m] \in Routable
               THEN tc' = m /\ UNCHANGED <<pc, write_index>>
               ELSE Leave("left")
  BY DEF ParseTC
<1>2. UNCHANGED <<uplink, signal, nacked>>
  BY DEF ParseTC
<1>3. read_index' \in Place
  <2>1. Start(k) + TCLength(Start(k)) \in Nat
    BY StartTyped DEF Place
  <2> QED
    BY <1>1, <2>1, WrapInside DEF AfterTC
<1>4. m \in 1 .. MaxPackets
  BY DEF Base, TcParserTypeOK
<1>5. accepted' \in Seq(1 .. MaxPackets)
  BY <1>1, <1>4 DEF Base, TcParserTypeOK
<1>6. /\ tc' \in 0 .. MaxPackets /\ write_index' \in Place
      /\ pc' \in {"wait", "left", "parse", "outside"}
  BY <1>1, <1>4 DEF Base, TcParserTypeOK, Leave, Place
<1>7. read_index' \in 0 .. buffer_size
  BY <1>3 DEF Place
<1>8. TcParserTypeOK'
  BY <1>2, <1>5, <1>6, <1>7 DEF Base, TcParserTypeOK, uplink
<1> QED
  BY <1>2, <1>8, ReceptionKept DEF Base

LEMMA ReceiverKeepsBase ==
    ASSUME Base, ReceiverStep
    PROVE  Base'
<1> USE DEF Base, TcParserTypeOK
<1>0. 0 \in Place
  BY DEF Place
<1>1. CASE ReceiveTC
  <2>1. /\ write_index' = rx_count /\ tc' = 0 /\ pc' = "parse" /\ signal' = FALSE
        /\ UNCHANGED <<uplink, read_index, accepted, nacked>>
    BY <1>1 DEF ReceiveTC
  <2>2. UNCHANGED <<sent, arrived, rx_buffer, rx_count>>
    BY <2>1 DEF uplink
  <2>3. write_index' \in Place /\ tc' \in 0 .. MaxPackets /\ pc' = "parse"
    BY <2>1
  <2>4. TcParserTypeOK'
    BY <2>1, <2>2, <2>3
  <2> QED
    BY <2>1, <2>4, ReceptionKept
<1>2. CASE NoNewData
  BY <1>0, <1>2, ReceptionKept DEF NoNewData, Leave, uplink
<1>3. CASE ParseTC
  BY <1>3, ParseKeepsBase
<1>4. CASE WaitForMore
  BY <1>0, <1>4, ReceptionKept DEF WaitForMore, Leave, uplink
<1>5. CASE RejectTC
  <2>1. PICK k \in 0 .. (Distance - 1) : read_index' = SkipOne(Start(k))
    BY <1>5 DEF RejectTC
  <2>2. Start(k) \in Place
    BY StartTyped
  <2>3. read_index' \in 0 .. buffer_size
    BY <2>1, <2>2 DEF SkipOne, Place
  <2>4. /\ nacked' = nacked \union {tc}
        /\ UNCHANGED <<uplink, signal, pc, write_index, tc, accepted>>
    BY <1>5 DEF RejectTC, Nack
  <2> QED
    BY <2>3, <2>4, ReceptionKept DEF uplink
<1>6. CASE NoHeader
  <2>1. /\ nacked' = nacked \union {tc} /\ read_index' = write_index
        /\ UNCHANGED <<uplink, signal, pc, write_index, tc, accepted>>
    BY <1>6 DEF NoHeader, Nack
  <2>2. read_index' \in 0 .. buffer_size
    BY <2>1 DEF Place
  <2> QED
    BY <2>1, <2>2, ReceptionKept DEF uplink
<1>7. CASE Overrun
  BY <1>7, ReceptionKept DEF Overrun, uplink
<1> QED
  BY <1>1, <1>2, <1>3, <1>4, <1>5, <1>6, <1>7 DEF ReceiverStep

LEMMA BaseStep == Base /\ [Next]_vars => Base'
BY BaseUnchanged, SendKeepsBase, WriteKeepsBase, ReceiverKeepsBase DEF Next

LEMMA BaseHolds == Spec => []Base
BY BaseStarts, BaseStep, PTL DEF Spec

(* The variables keep their types, for every buffer and every uplink: the  *)
(* places that the parser computes are in the buffer, except for the read  *)
(* index that SkipOne may put right behind it.                             *)
THEOREM TcParserTypeCorrect == Spec => []TcParserTypeOK
<1>1. Base => TcParserTypeOK
  BY DEF Base
<1> QED
  BY <1>1, BaseHolds, PTL

-----------------------------------------------------------------------------
(* The cells that are unread, when one is parsed and when one arrives. *)

LEMMA UnreadTyped ==
    ASSUME Base
    PROVE  /\ rx_count \in Place /\ write_index \in Place /\ Reader \in Place
           /\ Unread \in Place /\ Unread \in Nat
           /\ \A i \in 0 .. (Unread - 1) : (Reader + i) % buffer_size \in Place
<1>1. rx_count \in Place /\ write_index \in Place /\ Reader \in Place
  BY ReaderTyped DEF Base, TcParserTypeOK
<1>2. Unread \in Place
  BY <1>1, AheadIs DEF Unread
<1>3. \A i \in 0 .. (Unread - 1) : Reader + i \in Nat
  BY <1>1, <1>2 DEF Place
<1> QED
  BY <1>1, <1>2, <1>3, WrapInside DEF Place

LEMMA ReaderMoves ==
    ASSUME Base, UNCHANGED uplink, NEW d \in 0 .. Unread,
           Reader' = (Reader + d) % buffer_size
    PROVE  /\ Unread' = Unread - d
           /\ \A i \in 0 .. (Unread - d - 1) :
                Nth(i)' = Nth(i + d) /\ i + d \in 0 .. (Unread - 1)
<1>1. /\ rx_count \in Place /\ Reader \in Place /\ Unread \in Nat
      /\ UNCHANGED <<rx_count, rx_buffer>>
  BY UnreadTyped DEF uplink
<1>2. /\ Ahead(Reader', rx_count) = Unread - d
      /\ \A i \in 0 .. (Unread - d) :
           (Reader' + i) % buffer_size = (Reader + (i + d)) % buffer_size
  BY <1>1, AheadMoves DEF Unread
<1>3. \A i \in 0 .. (Unread - d - 1) : i \in 0 .. (Unread - d) /\ i + d \in 0 .. (Unread - 1)
  BY <1>1
<1>4. \A i \in 0 .. (Unread - d - 1) : Nth(i)' = Nth(i + d)
  BY <1>1, <1>2, <1>3 DEF Nth
<1>5. Unread' = Unread - d
  <2>1. Unread' = Ahead(Reader', rx_count')
    BY DEF Unread, Ahead
  <2> QED
    BY <1>1, <1>2, <2>1
<1> QED
  BY <1>3, <1>4, <1>5

LEMMA WriterMoves ==
    ASSUME Base, PeripheralWrites
    PROVE  /\ Unread' = Unread + 1
           /\ \A i \in 0 .. (Unread - 1) : Nth(i)' = Nth(i)
           /\ \A i \in {Unread} : Nth(i)' = NextCell
<1>1. /\ rx_count \in Place /\ Reader \in Place /\ Unread \in Nat /\ Unread \in Place
      /\ \A i \in 0 .. (Unread - 1) : (Reader + i) % buffer_size \in Place
      /\ rx_buffer \in [Place -> [of : 0 .. MaxPackets, at : Nat]]
  BY UnreadTyped DEF Base, TcParserTypeOK
<1>2. /\ rx_buffer' = [rx_buffer EXCEPT ![rx_count] = NextCell]
      /\ rx_count' = (rx_count + 1) % buffer_size /\ read_index' = read_index
      /\ (rx_count + 1) % buffer_size # Reader
  BY DEF PeripheralWrites, NextCell, HasRoom, receiver
<1>3. Reader' = Reader
  BY <1>2 DEF Reader
<1>4. /\ Ahead(Reader, (rx_count + 1) % buffer_size) = Unread + 1
      /\ \A i \in 0 .. (Unread - 1) : (Reader + i) % buffer_size # rx_count
      /\ (Reader + Unread) % buffer_size = rx_count
  BY <1>1, <1>2, AheadGrows, AheadIs DEF Unread
<1>5. \A i \in 0 .. (Unread - 1) : Nth(i)' = Nth(i)
  BY <1>1, <1>2, <1>3, <1>4 DEF Nth
<1>6. \A i \in {Unread} : Nth(i)' = NextCell
  BY <1>1, <1>2, <1>3, <1>4 DEF Nth
<1>7. Unread' = Unread + 1
  <2>1. Unread' = Ahead(Reader', rx_count')
    BY DEF Unread, Ahead
  <2> QED
    BY <1>2, <1>3, <1>4, <2>1
<1> QED
  BY <1>5, <1>6, <1>7

(* What FindTCHeader goes through is unread, and so is a telecommand that  *)
(* HasFullTC takes for complete.                                           *)
LEMMA Found ==
    ASSUME Base, pc = "parse", Waiting, NEW k \in 0 .. (Distance - 1)
    PROVE  /\ Distance = Ahead(Reader, write_index)
           /\ Distance \in Nat /\ Distance <= Unread /\ k \in Nat
           /\ Start(k) = (Reader + k) % buffer_size
           /\ Available(Start(k)) = Distance - k
           /\ SkipOne(Start(k)) % buffer_size = (Reader + (k + 1)) % buffer_size
           /\ \A i \in 0 .. (Distance - k) :
                (Start(k) + i) % buffer_size = (Reader + (i + k)) % buffer_size
<1>1. /\ write_index \in Place /\ Reader \in Place /\ Unread \in Nat
      /\ k \in Nat /\ Start(k) \in Place
  BY UnreadTyped, StartTyped
<1>2. Distance = Ahead(Reader, write_index)
  <2>1. CASE read_index \in Place
    <3>1. read_index # buffer_size /\ Reader = read_index
      BY <2>1, ReaderTyped DEF Base, Place
    <3> QED
      BY <3>1 DEF Distance
  <2>2. CASE read_index = buffer_size
    <3>1. Reader = 0 /\ write_index # 0
      BY <2>2, ReaderTyped DEF Base, Waiting, EndFits
    <3>2. Ahead(0, write_index) = write_index - 0
      BY <1>1, <3>1, AheadIs DEF Place
    <3> QED
      BY <1>1, <2>2, <3>1, <3>2 DEF Distance, Place
  <2> QED
    BY <2>1, <2>2, ReaderTyped DEF Base
<1>3. /\ Distance \in Nat /\ Distance <= Unread /\ Distance < buffer_size
      /\ k \in 0 .. Distance /\ k + 1 \in 0 .. Distance
  <2>1. Ahead(Reader, write_index) \in Place
    BY <1>1, AheadIs
  <2>2. Ahead(Reader, write_index) <= Unread
    BY DEF Waiting
  <2> QED
    BY <1>1, <1>2, <2>1, <2>2 DEF Place
<1>4. Start(k) = (Reader + k) % buffer_size
  <2>1. CASE read_index \in Place
    BY <2>1, ReaderTyped DEF Base, Start
  <2>2. CASE read_index = buffer_size
    <3>1. PICK x \in 0 .. (2 * buffer_size - 1) : x = buffer_size + k
      BY <1>3
    <3>2. x % buffer_size = IF x < buffer_size THEN x ELSE x - buffer_size
      BY Wrap
    <3>3. Start(k) = k
      BY <1>3, <2>2, <3>1, <3>2 DEF Start
    <3>4. PICK y \in 0 .. (2 * buffer_size - 1) : y = k
      BY <1>3
    <3>5. y % buffer_size = IF y < buffer_size THEN y ELSE y - buffer_size
      BY Wrap
    <3>6. 0 + k = k /\ Reader = 0
      BY <1>1, <2>2, ReaderTyped DEF Base
    <3> QED
      BY <1>3, <3>3, <3>4, <3>5, <3>6
  <2> QED
    BY <2>1, <2>2, ReaderTyped DEF Base
<1>5. /\ Ahead(Start(k), write_index) = Distance - k
      /\ \A i \in 0 .. (Distance - k) :
           (Start(k) + i) % buffer_size = (Reader + (i + k)) % buffer_size
  BY <1>1, <1>2, <1>3, <1>4, AheadMoves
<1>6. Available(Start(k)) = Distance - k
  BY <1>5 DEF Available
<1>7. SkipOne(Start(k)) % buffer_size = (Reader + (k + 1)) % buffer_size
  <2>1. 1 \in 0 .. (Distance - k) /\ 1 + k = k + 1
    BY <1>1, <1>3
  <2> QED
    BY <1>5, <2>1 DEF SkipOne
<1> QED
  BY <1>1, <1>2, <1>3, <1>4, <1>5, <1>6, <1>7

-----------------------------------------------------------------------------

LEMMA WaitingUnchanged ==
    ASSUME Waiting, UNCHANGED <<uplink, pc, write_index, read_index>>
    PROVE  Waiting'
BY DEF Waiting, EndFits, Unread, Reader, Ahead, Nth, Arrived, CellsOf, uplink

LEMMA NothingUnread ==
    ASSUME Init
    PROVE  Unread = 0 /\ Waiting
<1>1. Unread = 0
  <2>1. Ahead(0, 0) = 0 - 0
    BY AheadIs DEF Place
  <2>2. Reader = 0
    <3>1. 0 \in 0 .. (2 * buffer_size - 1)
      OBVIOUS
    <3> QED
      BY <3>1, Wrap DEF Init, Reader
  <2> QED
    BY <2>1, <2>2 DEF Init, Unread
<1>2. pc = "wait" /\ EndFits
  BY DEF Init, EndFits
<1> QED
  BY <1>1, <1>2 DEF Waiting

LEMMA Sending ==
    ASSUME Base, Waiting, NEW p \in Packet, SendPacket(p)
    PROVE  /\ Len(sent') = Len(sent) + 1 /\ Len(sent) \in Nat
           /\ \A m \in 1 .. Len(sent) : sent'[m] = sent[m] /\ CellsOf(m)' = CellsOf(m)
           /\ Unread' = Unread /\ (\A i : Nth(i)' = Nth(i))
           /\ \A i \in 0 .. (Unread - 1) : Nth(i).of \in 1 .. Len(sent)
           /\ UNCHANGED <<rx_buffer, rx_count, signal, receiver>>
           /\ arrived' = 0 /\ PacketComplete /\ Waiting'
<1>1. /\ sent' = Append(sent, p) /\ arrived' = 0 /\ PacketComplete
      /\ UNCHANGED <<rx_buffer, rx_count, signal, receiver>>
      /\ sent \in Seq(Packet)
  BY DEF SendPacket, Base, TcParserTypeOK
<1>2. /\ Len(sent') = Len(sent) + 1 /\ Len(sent) \in Nat
      /\ \A m \in 1 .. Len(sent) : sent'[m] = sent[m]
  BY <1>1
<1>3. \A m \in 1 .. Len(sent) : CellsOf(m)' = CellsOf(m)
  BY <1>2 DEF CellsOf
<1>4. Unread' = Unread /\ \A i : Nth(i)' = Nth(i)
  BY <1>1 DEF Unread, Reader, Ahead, Nth, receiver
<1>5. \A i \in 0 .. (Unread - 1) : Nth(i).of \in 1 .. Len(sent)
  BY DEF Waiting, Arrived
<1>6. ASSUME NEW i \in 0 .. (Unread - 1)
      PROVE  Arrived(Nth(i))'
  <2>1. Nth(i).of # Len(sent') /\ Nth(i).of \in 1 .. Len(sent')
    BY <1>2, <1>5
  <2>2. Nth(i).at \in 1 .. CellsOf(Nth(i).of)
    BY DEF Waiting, Arrived
  <2> QED
    BY <1>3, <1>4, <1>5, <2>1, <2>2 DEF Arrived
<1>7. Waiting'
  BY <1>1, <1>4, <1>6 DEF Waiting, EndFits, Reader, Ahead, receiver
<1> QED
  BY <1>1, <1>2, <1>3, <1>4, <1>5, <1>7

LEMMA Writing ==
    ASSUME Base, Waiting, PeripheralWrites
    PROVE  /\ Unread' = Unread + 1 /\ Unread \in Nat
           /\ \A i \in 0 .. (Unread - 1) :
                /\ Nth(i)' = Nth(i) /\ Nth(i).of \in 1 .. Len(sent) /\ Nth(i).at \in Nat
                /\ Nth(i).of = Len(sent) => Nth(i).at <= arrived
           /\ \A i \in {Unread} : Nth(i)' = NextCell
           /\ \A i \in 0 .. (Unread' - 1) : i \in 0 .. (Unread - 1) \/ i = Unread
           /\ NextCell.of = Len(sent) /\ NextCell.at = arrived + 1
           /\ Len(sent) \in 1 .. MaxPackets /\ arrived \in Nat
           /\ arrived < CellsOf(Len(sent)) /\ CellsOf(Len(sent)) \in Nat
           /\ arrived' = arrived + 1 /\ ~ PacketComplete
           /\ UNCHANGED <<sent, pc, write_index, read_index, tc, accepted, nacked>>
           /\ Waiting'
<1>1. /\ arrived' = arrived + 1 /\ ~ PacketComplete
      /\ UNCHANGED <<sent, pc, write_index, read_index, tc, accepted, nacked>>
  BY DEF PeripheralWrites, receiver
<1>2. /\ Unread' = Unread + 1 /\ Unread \in Nat
      /\ \A i \in 0 .. (Unread - 1) : Nth(i)' = Nth(i)
      /\ \A i \in {Unread} : Nth(i)' = NextCell
  BY WriterMoves, UnreadTyped
<1>3. /\ Len(sent) \in 1 .. MaxPackets /\ arrived \in Nat
      /\ arrived < CellsOf(Len(sent)) /\ CellsOf(Len(sent)) \in Nat
  BY <1>1, Arriving
<1>4. NextCell.of = Len(sent) /\ NextCell.at = arrived + 1
  BY DEF NextCell
<1>5. \A i \in 0 .. (Unread' - 1) : i \in 0 .. (Unread - 1) \/ i = Unread
  BY <1>2
<1>6. \A i \in 0 .. (Unread - 1) :
        /\ Arrived(Nth(i)) /\ Nth(i).of \in 1 .. Len(sent) /\ Nth(i).at \in Nat
        /\ Nth(i).of = Len(sent) => Nth(i).at <= arrived
  <2> TAKE i \in 0 .. (Unread - 1)
  <2>1. Arrived(Nth(i))
    BY DEF Waiting
  <2>2. Nth(i).of \in 1 .. Len(sent) /\ CellsOf(Nth(i).of) \in Nat
    BY <2>1, PacketTyped DEF Arrived, Base
  <2> QED
    BY <2>1, <2>2 DEF Arrived
<1>7. ASSUME NEW i \in 0 .. (Unread' - 1)
      PROVE  Arrived(Nth(i))'
  <2>1. CASE i \in 0 .. (Unread - 1)
    <3>1. Nth(i)' = Nth(i) /\ Arrived(Nth(i))
      BY <1>2, <1>6, <2>1
    <3> QED
      BY <1>1, <1>3, <1>6, <2>1, <3>1 DEF Arrived, CellsOf
  <2>2. CASE i = Unread
    <3>1. Nth(i)'.of = Len(sent) /\ Nth(i)'.at = arrived + 1
      BY <1>2, <1>4, <2>2
    <3>2. arrived + 1 \in 1 .. CellsOf(Len(sent))
      BY <1>3
    <3> QED
      BY <1>1, <1>3, <3>1, <3>2 DEF Arrived, CellsOf
  <2> QED
    BY <1>5, <2>1, <2>2
<1>8. ASSUME pc' = "parse"
      PROVE  Ahead(Reader, write_index)' <= Unread'
  <2>1. Ahead(Reader, write_index) <= Unread
    BY <1>1, <1>8 DEF Waiting
  <2>2. Ahead(Reader, write_index) \in Nat
    <3>1. write_index \in Place /\ Reader \in Place
      BY UnreadTyped
    <3>2. Ahead(Reader, write_index) \in Place
      BY <3>1, AheadIs
    <3> QED
      BY <3>2 DEF Place
  <2>3. Ahead(Reader, write_index)' = Ahead(Reader, write_index)
    BY <1>1 DEF Ahead, Reader
  <2> QED
    BY <1>2, <2>1, <2>2, <2>3
<1>10. EndFits'
  <2> SUFFICES ASSUME read_index = buffer_size
               PROVE  rx_count' # 0 /\ (pc = "parse" => write_index # 0)
    BY <1>1 DEF EndFits
  <2>1. Reader = 0 /\ rx_count' = (rx_count + 1) % buffer_size
    BY ReaderTyped DEF Base, PeripheralWrites
  <2>2. (rx_count + 1) % buffer_size # Reader
    BY DEF PeripheralWrites, HasRoom
  <2> QED
    BY <2>1, <2>2 DEF Waiting, EndFits
<1>9. Waiting'
  BY <1>7, <1>8, <1>10 DEF Waiting
<1> QED
  BY <1>1, <1>2, <1>3, <1>4, <1>5, <1>6, <1>9

LEMMA Moving ==
    ASSUME Base, Waiting, UNCHANGED uplink, EndFits',
           NEW d \in 0 .. Unread, Reader' = (Reader + d) % buffer_size,
           pc' = "parse" => pc = "parse" /\ UNCHANGED write_index
                            /\ d <= Ahead(Reader, write_index)
    PROVE  /\ Unread' = Unread - d /\ Unread \in Nat
           /\ \A i \in 0 .. (Unread - d - 1) :
                Nth(i)' = Nth(i + d) /\ i + d \in 0 .. (Unread - 1)
           /\ Waiting'
<1>1. /\ Unread' = Unread - d /\ Unread \in Nat
      /\ \A i \in 0 .. (Unread - d - 1) :
           Nth(i)' = Nth(i + d) /\ i + d \in 0 .. (Unread - 1)
  BY ReaderMoves, UnreadTyped
<1>2. ASSUME NEW i \in 0 .. (Unread' - 1)
      PROVE  Arrived(Nth(i))'
  <2>1. Arrived(Nth(i + d)) /\ Nth(i)' = Nth(i + d)
    BY <1>1, <1>2 DEF Waiting
  <2>2. UNCHANGED <<sent, arrived>>
    BY DEF uplink
  <2> QED
    BY <2>1, <2>2 DEF Arrived, CellsOf
<1>3. ASSUME pc' = "parse"
      PROVE  Ahead(Reader, write_index)' <= Unread'
  <2>1. /\ Ahead(Reader, write_index) \in Nat /\ write_index \in Place
        /\ Reader \in Place /\ Ahead(Reader, write_index) <= Unread
    BY <1>3, UnreadTyped, AheadIs DEF Place, Waiting
  <2>2. d \in 0 .. Ahead(Reader, write_index)
    BY <1>1, <1>3, <2>1
  <2>3. Ahead(Reader', write_index) = Ahead(Reader, write_index) - d
    BY <2>1, <2>2, AheadMoves
  <2>4. Ahead(Reader, write_index)' = Ahead(Reader', write_index)
    BY <1>3 DEF Ahead
  <2> QED
    BY <1>1, <2>1, <2>3, <2>4
<1> QED
  BY <1>1, <1>2, <1>3 DEF Waiting

(* A telecommand is accepted: its cells are the next that are unread.      *)
LEMMA AcceptedCells ==
    ASSUME Base, pc = "parse", Waiting,
           NEW k \in 0 .. (Distance - 1), NEW m \in 1 .. Len(sent),
           ValidTC(Start(k), m), read_index' = AfterTC(Start(k))
    PROVE  \E n \in Nat \ {0} :
             /\ n = CellsOf(m) /\ k + n \in 0 .. Distance /\ Distance <= Unread
             /\ k \in Nat /\ k \in 0 .. (Unread - 1) /\ k + n - 1 \in 0 .. (Unread - 1)
             /\ read_index' = (Reader + (k + n)) % buffer_size
             /\ Nth(k) = [of |-> m, at |-> 1]
             /\ Nth(k + n - 1) = [of |-> m, at |-> n]
<1> DEFINE n == CellsOf(m)
<1>1. /\ Distance \in Nat /\ Distance <= Unread /\ k \in Nat /\ Unread \in Nat
      /\ Available(Start(k)) = Distance - k
      /\ \A i \in 0 .. (Distance - k) :
           (Start(k) + i) % buffer_size = (Reader + (i + k)) % buffer_size
  BY Found, UnreadTyped
<1>2. n \in Nat \ {0} /\ Start(k) \in Place
  BY PacketTyped, StartTyped DEF Base
<1>3. /\ TCLength(Start(k)) = n /\ n <= Available(Start(k))
      /\ \A j \in 1 .. n :
           rx_buffer[(Start(k) + j - 1) % buffer_size] = [of |-> m, at |-> j]
  BY <1>2, StartTyped DEF ValidTC, FullTC, Holds, CellsOf, Place
<1> HIDE DEF n
<1>4. n <= Distance - k
  BY <1>1, <1>3
<1>5. k + n \in 0 .. Distance /\ k \in 0 .. (Unread - 1) /\ k + n - 1 \in 0 .. (Unread - 1)
  BY <1>1, <1>2, <1>4
<1>6. read_index' = (Reader + (k + n)) % buffer_size
  <2>1. n \in 0 .. (Distance - k) /\ n + k = k + n
    BY <1>1, <1>2, <1>4
  <2> QED
    BY <1>1, <1>3, <2>1 DEF AfterTC
<1>7. ASSUME NEW j \in 1 .. n
      PROVE  Nth(k + j - 1) = [of |-> m, at |-> j]
  <2>1. j - 1 \in 0 .. (Distance - k) /\ (j - 1) + k = k + j - 1
        /\ Start(k) + j - 1 = Start(k) + (j - 1)
    BY <1>1, <1>2, <1>4 DEF Place
  <2>2. rx_buffer[(Start(k) + (j - 1)) % buffer_size] = [of |-> m, at |-> j]
    BY <1>3, <2>1
  <2>3. (Start(k) + (j - 1)) % buffer_size = (Reader + (k + j - 1)) % buffer_size
    BY <1>1, <2>1
  <2> QED
    BY <2>2, <2>3 DEF Nth
<1>8. Nth(k) = [of |-> m, at |-> 1] /\ Nth(k + n - 1) = [of |-> m, at |-> n]
  <2>1. 1 \in 1 .. n /\ n \in 1 .. n /\ k + 1 - 1 = k
    BY <1>1, <1>2
  <2>2. Nth(k + 1 - 1) = [of |-> m, at |-> 1] /\ Nth(k + n - 1) = [of |-> m, at |-> n]
    BY <1>7, <2>1
  <2> QED
    BY <2>1, <2>2
<1> QED
  BY <1>1, <1>2, <1>5, <1>6, <1>8 DEF n

-----------------------------------------------------------------------------

LEMMA ParseMoves ==
    ASSUME Base, Waiting, ParseTC
    PROVE  \E k \in 0 .. (Distance - 1), m \in 1 .. Len(sent), n \in Nat \ {0} :
             /\ HeaderOffset(k) /\ n = CellsOf(m) /\ k \in Nat
             /\ accepted' = Append(accepted, m) /\ UNCHANGED <<uplink, nacked>>
             /\ k \in 0 .. (Unread - 1) /\ k + n - 1 \in 0 .. (Unread - 1)
             /\ k + n \in 0 .. Unread
             /\ Nth(k) = [of |-> m, at |-> 1] /\ Nth(k + n - 1) = [of |-> m, at |-> n]
             /\ read_index' \in Place /\ Unread' = Unread - (k + n)
             /\ \A i \in 0 .. (Unread - (k + n) - 1) :
                  Nth(i)' = Nth(i + (k + n)) /\ i + (k + n) \in 0 .. (Unread - 1)
             /\ Waiting'
<1>1. PICK k \in 0 .. (Distance - 1), m \in 1 .. Len(sent) :
          /\ HeaderOffset(k) /\ ValidTC(Start(k), m)
          /\ read_index' = AfterTC(Start(k))
          /\ accepted' = Append(accepted, m)
          /\ IF sent[m] \in Routable
               THEN tc' = m /\ UNCHANGED <<pc, write_index>>
               ELSE Leave("left")
  BY DEF ParseTC, HeaderFits
<1>2. pc = "parse" /\ UNCHANGED <<uplink, nacked>>
  BY DEF ParseTC, Parsing
<1>3. PICK n \in Nat \ {0} :
             /\ n = CellsOf(m) /\ k + n \in 0 .. Distance /\ Distance <= Unread
             /\ k \in Nat /\ k \in 0 .. (Unread - 1) /\ k + n - 1 \in 0 .. (Unread - 1)
             /\ read_index' = (Reader + (k + n)) % buffer_size
             /\ Nth(k) = [of |-> m, at |-> 1]
             /\ Nth(k + n - 1) = [of |-> m, at |-> n]
  BY <1>1, <1>2, AcceptedCells
<1>4. PICK d \in 0 .. Unread : d = k + n
  <2>1. Unread \in Nat /\ Distance \in Nat
    BY <1>2, Found, UnreadTyped
  <2> QED
    BY <1>3, <2>1
<1>5. Distance = Ahead(Reader, write_index)
  BY <1>2, Found
<1>6. pc' = "parse" => /\ pc = "parse" /\ UNCHANGED write_index
                       /\ d <= Ahead(Reader, write_index)
  BY <1>1, <1>2, <1>3, <1>4, <1>5 DEF Leave
<1>8. read_index' \in Place /\ Reader' = (Reader + d) % buffer_size /\ EndFits'
  <2>1. Reader + d \in Nat /\ Reader \in Place
    BY <1>4, UnreadTyped DEF Place
  <2>2. read_index' \in Place
    BY <1>3, <1>4, <2>1, WrapInside
  <2>3. read_index' \in 0 .. (2 * buffer_size - 1) /\ read_index' < buffer_size
    BY <2>2 DEF Place
  <2>4. Reader' = read_index'
    BY <2>3, Wrap DEF Reader
  <2> QED
    BY <1>3, <1>4, <2>2, <2>3, <2>4 DEF EndFits
<1>7. /\ Unread' = Unread - d
      /\ \A i \in 0 .. (Unread - d - 1) :
           Nth(i)' = Nth(i + d) /\ i + d \in 0 .. (Unread - 1)
      /\ Waiting'
  BY <1>2, <1>4, <1>6, <1>8, Moving
<1> QED
  BY <1>1, <1>2, <1>3, <1>4, <1>7, <1>8

(* The other steps of the receiver move the read index or leave it. *)
LEMMA ReceiverMoves ==
    ASSUME Base, Waiting, ReceiverStep, ~ ParseTC
    PROVE  /\ UNCHANGED <<uplink, accepted>> /\ Waiting'
           /\ \E d \in 0 .. Unread :
                /\ d = 0 \/ RejectTC \/ NoHeader
                /\ Unread' = Unread - d /\ Unread \in Nat
                /\ \A i \in 0 .. (Unread - d - 1) :
                     Nth(i)' = Nth(i + d) /\ i + d \in 0 .. (Unread - 1)
<1>0. /\ 0 \in 0 .. Unread /\ (Reader + 0) % buffer_size = Reader
      /\ rx_count \in Place /\ write_index \in Place /\ Reader \in Place /\ Unread \in Nat
      /\ read_index \in 0 .. buffer_size
  <2>1. /\ Unread \in Nat /\ rx_count \in Place /\ write_index \in Place /\ Reader \in Place
        /\ read_index \in 0 .. buffer_size
    BY UnreadTyped DEF Base, TcParserTypeOK
  <2>2. 0 \in 0 .. buffer_size /\ Reader + 0 = Reader /\ Reader < buffer_size
    BY <2>1 DEF Place
  <2> QED
    BY <2>1, <2>2, PlaceIs
<1>1. CASE ReceiveTC
  <2>1. /\ pc' = "parse" /\ write_index' = rx_count
        /\ UNCHANGED <<uplink, read_index, accepted>>
    BY <1>1 DEF ReceiveTC
  <2>2. Unread' = Unread /\ (\A i : Nth(i)' = Nth(i))
    BY <2>1 DEF Unread, Reader, Ahead, Nth, uplink
  <2>3. Ahead(Reader, write_index)' = Unread
    BY <2>1 DEF Ahead, Reader, Unread
  <2>4. EndFits'
    BY <2>1 DEF Waiting, EndFits, uplink
  <2>5. Waiting'
    BY <1>0, <2>1, <2>2, <2>3, <2>4 DEF Waiting, Arrived, CellsOf, uplink
  <2>6. Unread' = Unread - 0 /\ \A i \in 0 .. (Unread - 0 - 1) :
          Nth(i)' = Nth(i + 0) /\ i + 0 \in 0 .. (Unread - 1)
    BY <1>0, <2>2
  <2> QED
    BY <1>0, <2>1, <2>5, <2>6
<1>2. CASE NoNewData \/ WaitForMore \/ Overrun
  <2>1. pc' \in {"wait", "outside"} /\ UNCHANGED <<uplink, read_index, accepted>>
    BY <1>2 DEF NoNewData, WaitForMore, Overrun, Leave
  <2>2. Reader' = (Reader + 0) % buffer_size /\ EndFits'
    BY <1>0, <2>1 DEF Reader, Waiting, EndFits, uplink
  <2> QED
    BY <1>0, <2>1, <2>2, Moving
<1>3. CASE RejectTC
  <2>1. PICK k \in 0 .. (Distance - 1) :
           /\ ~ PartialTC(Start(k)) /\ read_index' = SkipOne(Start(k))
    BY <1>3 DEF RejectTC
  <2>2. pc = "parse" /\ UNCHANGED <<uplink, accepted, pc, write_index>>
    BY <1>3 DEF RejectTC, Parsing
  <2>3. /\ Distance = Ahead(Reader, write_index) /\ Distance \in Nat
        /\ Distance <= Unread /\ k \in Nat
        /\ SkipOne(Start(k)) % buffer_size = (Reader + (k + 1)) % buffer_size
        /\ Available(Start(k)) = Distance - k
    BY <2>1, <2>2, Found
  <2>4. /\ k + 1 \in 0 .. Unread /\ k + 1 <= Ahead(Reader, write_index)
        /\ Reader' = (Reader + (k + 1)) % buffer_size
    <3>1. Reader' = SkipOne(Start(k)) % buffer_size
      BY <2>1 DEF Reader
    <3> QED
      BY <1>0, <2>3, <3>1
  <2>5. Distance - k >= 2
    BY <2>1, <2>3, StartTyped DEF PartialTC
  <2>6. ASSUME read_index' = buffer_size
        PROVE  rx_count' # 0 /\ write_index' # 0
    <3>1. Reader' = 0
      <4>1. read_index' \in 0 .. (2 * buffer_size - 1)
        BY <2>6
      <4> QED
        BY <2>6, <4>1, Wrap DEF Reader
    <3>2. Ahead(0, rx_count) = Unread - (k + 1) /\ rx_count' = rx_count
      <4>1. Ahead((Reader + (k + 1)) % buffer_size, rx_count) = Unread - (k + 1)
        BY <1>0, <2>4, AheadMoves DEF Unread
      <4> QED
        BY <2>2, <2>4, <3>1, <4>1 DEF uplink
    <3>3. Ahead(0, write_index) = Distance - (k + 1) /\ write_index' = write_index
      <4>1. k + 1 \in 0 .. Ahead(Reader, write_index)
        BY <2>3, <2>4
      <4>2. Ahead((Reader + (k + 1)) % buffer_size, write_index)
              = Ahead(Reader, write_index) - (k + 1)
        BY <1>0, <4>1, AheadMoves
      <4> QED
        BY <2>2, <2>3, <2>4, <3>1, <4>2
    <3>4. Ahead(0, 0) = 0
      BY AheadIs DEF Place
    <3> QED
      BY <1>0, <2>3, <2>5, <3>2, <3>3, <3>4
  <2>7. EndFits'
    BY <2>6 DEF EndFits
  <2> QED
    BY <1>3, <2>2, <2>4, <2>7, Moving
<1>4. CASE NoHeader
  <2>1. pc = "parse" /\ read_index' = write_index
        /\ UNCHANGED <<uplink, accepted, pc, write_index>>
    BY <1>4 DEF NoHeader, Parsing
  <2>2. Ahead(Reader, write_index) \in Place
        /\ (Reader + Ahead(Reader, write_index)) % buffer_size = write_index
    BY <1>0, AheadIs
  <2>3. Ahead(Reader, write_index) <= Unread
    BY <2>1 DEF Waiting
  <2>4. PICK d \in 0 .. Unread : d = Ahead(Reader, write_index)
    BY <1>0, <2>2, <2>3 DEF Place
  <2>5. d <= Ahead(Reader, write_index)
    BY <1>0, <2>4
  <2>6. Reader' = (Reader + d) % buffer_size /\ EndFits'
    <3>1. write_index \in 0 .. (2 * buffer_size - 1) /\ write_index < buffer_size
      BY <1>0 DEF Place
    <3>2. Reader' = write_index
      BY <2>1, <3>1, Wrap DEF Reader
    <3> QED
      BY <2>1, <2>2, <2>4, <3>1, <3>2 DEF EndFits
  <2> QED
    BY <1>4, <2>1, <2>4, <2>5, <2>6, Moving
<1> QED
  BY <1>1, <1>2, <1>3, <1>4 DEF ReceiverStep

-----------------------------------------------------------------------------
(* Once, and in the order sent. *)

LEMMA OrderedStarts ==
    ASSUME Init
    PROVE  Ordered
<1>1. Unread = 0 /\ Waiting /\ Len(accepted) = 0
  BY NothingUnread DEF Init
<1> QED
  BY <1>1 DEF Ordered, UnreadInOrder, AcceptedBefore, AcceptedOnceInOrder

LEMMA SendKeepsOrder ==
    ASSUME Base, Ordered, NEW p \in Packet, SendPacket(p)
    PROVE  Ordered'
<1>1. /\ Len(sent') = Len(sent) + 1 /\ Len(sent) \in Nat
      /\ Unread' = Unread /\ (\A i : Nth(i)' = Nth(i))
      /\ UNCHANGED receiver /\ Waiting'
  BY Sending DEF Ordered
<1>2. UNCHANGED accepted
  BY <1>1 DEF receiver
<1>3. UnreadInOrder' /\ AcceptedOnceInOrder'
  BY <1>1, <1>2 DEF Ordered, UnreadInOrder, Earlier, AcceptedOnceInOrder
<1>4. AcceptedBefore'
  <2> SUFFICES ASSUME NEW k \in 1 .. Len(accepted)
               PROVE  /\ accepted[k] \in 1 .. Len(sent') /\ accepted[k] # Len(sent')
                      /\ \A j \in 0 .. (Unread - 1) : accepted[k] < Nth(j).of
    BY <1>1, <1>2 DEF AcceptedBefore
  <2>1. /\ accepted[k] \in 1 .. Len(sent)
        /\ \A j \in 0 .. (Unread - 1) : accepted[k] < Nth(j).of
    BY DEF Ordered, AcceptedBefore
  <2> QED
    BY <1>1, <2>1
<1> QED
  BY <1>1, <1>3, <1>4 DEF Ordered

LEMMA WriteKeepsOrder ==
    ASSUME Base, Ordered, PeripheralWrites
    PROVE  Ordered'
<1>1. /\ Unread' = Unread + 1 /\ Unread \in Nat
      /\ \A i \in 0 .. (Unread - 1) :
           /\ Nth(i)' = Nth(i) /\ Nth(i).of \in 1 .. Len(sent) /\ Nth(i).at \in Nat
           /\ Nth(i).of = Len(sent) => Nth(i).at <= arrived
      /\ \A i \in {Unread} : Nth(i)' = NextCell
      /\ \A i \in 0 .. (Unread' - 1) : i \in 0 .. (Unread - 1) \/ i = Unread
      /\ NextCell.of = Len(sent) /\ NextCell.at = arrived + 1
      /\ Len(sent) \in 1 .. MaxPackets /\ arrived \in Nat /\ ~ PacketComplete
      /\ UNCHANGED <<sent, accepted>> /\ Waiting'
  BY Writing DEF Ordered
<1>2. ASSUME NEW i \in 0 .. (Unread' - 1), NEW j \in 0 .. (Unread' - 1), i < j
      PROVE  Earlier(Nth(i), Nth(j))'
  <2>1. i \in 0 .. (Unread - 1)
    BY <1>1, <1>2
  <2>2. CASE j \in 0 .. (Unread - 1)
    <3>1. Nth(i)' = Nth(i) /\ Nth(j)' = Nth(j)
      BY <1>1, <2>1, <2>2
    <3>2. Earlier(Nth(i), Nth(j))
      BY <1>2, <2>1, <2>2 DEF Ordered, UnreadInOrder
    <3> QED
      BY <3>1, <3>2 DEF Earlier
  <2>3. CASE j = Unread
    <3>1. Nth(i)' = Nth(i) /\ Nth(j)' = NextCell
      BY <1>1, <2>1, <2>3
    <3>2. \/ Nth(i).of < Len(sent)
          \/ Nth(i).of = Len(sent) /\ Nth(i).at < arrived + 1
      BY <1>1, <2>1
    <3> QED
      BY <1>1, <3>1, <3>2 DEF Earlier
  <2> QED
    BY <1>1, <2>2, <2>3
<1>3. AcceptedBefore'
  <2> SUFFICES ASSUME NEW k \in 1 .. Len(accepted)
               PROVE  /\ accepted[k] \in 1 .. Len(sent) /\ accepted[k] # Len(sent)
                      /\ \A j \in 0 .. (Unread' - 1) : accepted[k] < Nth(j)'.of
    BY <1>1 DEF AcceptedBefore
  <2>1. /\ accepted[k] \in 1 .. Len(sent) /\ accepted[k] # Len(sent)
        /\ \A j \in 0 .. (Unread - 1) : accepted[k] < Nth(j).of
    BY <1>1 DEF Ordered, AcceptedBefore
  <2>2. accepted[k] < Len(sent)
    BY <1>1, <2>1
  <2> QED
    BY <1>1, <2>1, <2>2
<1>4. AcceptedOnceInOrder'
  BY <1>1 DEF Ordered, AcceptedOnceInOrder
<1> QED
  BY <1>1, <1>2, <1>3, <1>4 DEF Ordered, UnreadInOrder

LEMMA MoveKeepsOrder ==
    ASSUME UnreadInOrder, NEW d \in Nat, Unread \in Nat, Unread' = Unread - d,
           \A i \in 0 .. (Unread - d - 1) :
             Nth(i)' = Nth(i + d) /\ i + d \in 0 .. (Unread - 1)
    PROVE  UnreadInOrder'
<1>1. ASSUME NEW i \in 0 .. (Unread' - 1), NEW j \in 0 .. (Unread' - 1), i < j
      PROVE  Earlier(Nth(i), Nth(j))'
  <2>1. /\ Nth(i)' = Nth(i + d) /\ Nth(j)' = Nth(j + d) /\ i + d < j + d
        /\ i + d \in 0 .. (Unread - 1) /\ j + d \in 0 .. (Unread - 1)
    BY <1>1
  <2> QED
    BY <2>1 DEF UnreadInOrder, Earlier
<1> QED
  BY <1>1 DEF UnreadInOrder

LEMMA ParseKeepsOrder ==
    ASSUME Base, Ordered, ParseTC
    PROVE  Ordered'
<1>1. PICK k \in 0 .. (Distance - 1), m \in 1 .. Len(sent), n \in Nat \ {0} :
             /\ n = CellsOf(m) /\ k \in Nat
             /\ accepted' = Append(accepted, m) /\ UNCHANGED uplink
             /\ k \in 0 .. (Unread - 1) /\ k + n - 1 \in 0 .. (Unread - 1)
             /\ k + n \in 0 .. Unread
             /\ Nth(k) = [of |-> m, at |-> 1] /\ Nth(k + n - 1) = [of |-> m, at |-> n]
             /\ Unread' = Unread - (k + n)
             /\ \A i \in 0 .. (Unread - (k + n) - 1) :
                  Nth(i)' = Nth(i + (k + n)) /\ i + (k + n) \in 0 .. (Unread - 1)
             /\ Waiting'
  BY ParseMoves DEF Ordered
<1> DEFINE d == k + n
<1>2. UNCHANGED uplink
  BY <1>1
<1>3. /\ n = CellsOf(m) /\ k \in Nat /\ k \in 0 .. (Unread - 1)
      /\ k + n - 1 \in 0 .. (Unread - 1)
      /\ Nth(k) = [of |-> m, at |-> 1] /\ Nth(k + n - 1) = [of |-> m, at |-> n]
  BY <1>1
<1>4. d \in 0 .. Unread /\ d \in Nat /\ Unread \in Nat
  BY <1>1, UnreadTyped
<1>5. /\ Unread' = Unread - d
      /\ \A i \in 0 .. (Unread - d - 1) :
           Nth(i)' = Nth(i + d) /\ i + d \in 0 .. (Unread - 1)
  BY <1>1
<1>6. UnreadInOrder'
  BY <1>4, <1>5, MoveKeepsOrder DEF Ordered
<1>7. Waiting'
  BY <1>1
<1>8. /\ accepted \in Seq(1 .. MaxPackets) /\ Len(accepted') = Len(accepted) + 1
      /\ Len(accepted) \in Nat /\ accepted'[Len(accepted) + 1] = m
      /\ \A j \in 1 .. Len(accepted) : accepted'[j] = accepted[j]
  <2>1. accepted \in Seq(1 .. MaxPackets) /\ m \in 1 .. MaxPackets
    BY DEF Base, TcParserTypeOK
  <2> QED
    BY <1>1, <2>1
<1>9. \A j \in 1 .. Len(accepted') : j \in 1 .. Len(accepted) \/ j = Len(accepted) + 1
  BY <1>8
<1>10. \A j \in 1 .. Len(accepted) : accepted[j] < m
  <2>1. \A j \in 1 .. Len(accepted) : accepted[j] < Nth(k).of
    BY <1>3 DEF Ordered, AcceptedBefore
  <2> QED
    BY <1>3, <2>1
<1>11. AcceptedOnceInOrder'
  <2> SUFFICES ASSUME NEW i \in 1 .. Len(accepted'), NEW j \in 1 .. Len(accepted'), i < j
               PROVE  accepted'[i] < accepted'[j]
    BY DEF AcceptedOnceInOrder
  <2>1. i \in 1 .. Len(accepted)
    BY <1>8
  <2> QED
    BY <1>8, <1>9, <1>10, <2>1 DEF Ordered, AcceptedOnceInOrder
<1>12. m = Len(sent) => PacketComplete
  <2> SUFFICES ASSUME m = Len(sent) PROVE PacketComplete
    OBVIOUS
  <2>1. Arrived([of |-> m, at |-> n])
    BY <1>3 DEF Ordered, Waiting
  <2>2. n <= arrived
    BY <2>1 DEF Arrived
  <2>3. sent # <<>> /\ arrived \in Nat
    BY DEF Base, TcParserTypeOK
  <2>4. arrived <= n
    BY <1>3, <2>3 DEF Base, Reception
  <2> QED
    BY <1>3, <2>2, <2>3, <2>4 DEF PacketComplete, CellsOf
<1>13. ASSUME NEW i \in 0 .. (Unread' - 1)
       PROVE  m < Nth(i)'.of
  <2>1. /\ Nth(i)' = Nth(i + d) /\ i + d \in 0 .. (Unread - 1)
        /\ k + n - 1 < i + d
    <3>1. i \in 0 .. (Unread - d - 1) /\ i \in Nat
      BY <1>4, <1>5
    <3>2. k + n - 1 < i + (k + n)
      BY <1>3, <3>1
    <3> QED
      BY <1>5, <3>1, <3>2
  <2>2. Earlier([of |-> m, at |-> n], Nth(i + d)) /\ Arrived(Nth(i + d))
    BY <1>3, <2>1 DEF Ordered, Waiting, UnreadInOrder
  <2>3. m < Nth(i + d).of \/ (m = Nth(i + d).of /\ n < Nth(i + d).at)
    BY <2>2 DEF Earlier
  <2>4. ~ (m = Nth(i + d).of /\ n < Nth(i + d).at)
    BY <1>3, <2>2 DEF Arrived
  <2> QED
    BY <2>1, <2>3, <2>4
<1>14. AcceptedBefore'
  <2> SUFFICES ASSUME NEW j \in 1 .. Len(accepted')
               PROVE  /\ accepted'[j] \in 1 .. Len(sent)
                      /\ accepted'[j] = Len(sent) => PacketComplete
                      /\ \A i \in 0 .. (Unread' - 1) : accepted'[j] < Nth(i)'.of
    BY <1>2 DEF AcceptedBefore, PacketComplete, uplink
  <2>1. CASE j = Len(accepted) + 1
    BY <1>8, <1>12, <1>13, <2>1
  <2>2. CASE j \in 1 .. Len(accepted)
    <3>1. accepted'[j] = accepted[j]
      BY <1>8, <2>2
    <3>2. /\ accepted[j] \in 1 .. Len(sent)
          /\ accepted[j] = Len(sent) => PacketComplete
          /\ \A i \in 0 .. (Unread - 1) : accepted[j] < Nth(i).of
      BY <2>2 DEF Ordered, AcceptedBefore
    <3> QED
      BY <1>5, <3>1, <3>2, <1>4
  <2> QED
    BY <1>9, <2>1, <2>2
<1> QED
  BY <1>6, <1>7, <1>11, <1>14 DEF Ordered

LEMMA ReceiverKeepsOrder ==
    ASSUME Base, Ordered, ReceiverStep
    PROVE  Ordered'
<1>1. CASE ParseTC
  BY <1>1, ParseKeepsOrder
<1>2. CASE ~ ParseTC
  <2>1. UNCHANGED <<uplink, accepted>> /\ Waiting'
    BY <1>2, ReceiverMoves DEF Ordered
  <2>2. PICK d \in 0 .. Unread :
           /\ Unread' = Unread - d /\ Unread \in Nat
           /\ \A i \in 0 .. (Unread - d - 1) :
                Nth(i)' = Nth(i + d) /\ i + d \in 0 .. (Unread - 1)
    BY <1>2, ReceiverMoves DEF Ordered
  <2>3. UnreadInOrder'
    BY <2>2, MoveKeepsOrder DEF Ordered
  <2>4. AcceptedBefore'
    <3> SUFFICES ASSUME NEW k \in 1 .. Len(accepted)
                 PROVE  /\ accepted[k] \in 1 .. Len(sent)
                        /\ accepted[k] = Len(sent) => PacketComplete
                        /\ \A j \in 0 .. (Unread' - 1) : accepted[k] < Nth(j)'.of
      BY <2>1 DEF AcceptedBefore, PacketComplete, uplink
    <3> QED
      BY <2>2 DEF Ordered, AcceptedBefore
  <2> QED
    BY <2>1, <2>3, <2>4 DEF Ordered, AcceptedOnceInOrder
<1> QED
  BY <1>1, <1>2

LEMMA OrderedStep ==
    Base /\ Ordered /\ [Next]_vars => Ordered'
<1> SUFFICES ASSUME Base, Ordered, [Next]_vars
             PROVE  Ordered'
  OBVIOUS
<1>1. CASE UNCHANGED vars
  <2>1. UNCHANGED <<uplink, pc, write_index, read_index, accepted>>
    BY <1>1 DEF vars, receiver
  <2>2. Waiting'
    BY <2>1, WaitingUnchanged DEF Ordered
  <2> QED
    BY <2>1, <2>2 DEF uplink, Ordered, UnreadInOrder, AcceptedBefore,
         AcceptedOnceInOrder, Unread, Reader, Ahead, Nth, Earlier, PacketComplete
<1> QED
  BY <1>1, SendKeepsOrder, WriteKeepsOrder, ReceiverKeepsOrder DEF Next

(* Each packet is accepted at most once and in the order sent, for every   *)
(* buffer, every uplink and every cut of it, also when the read index is   *)
(* put right behind the buffer (tc_parser.c:85): the parser then goes on   *)
(* with the first places, which are new.                                   *)
THEOREM AcceptedOnceInOrderHolds == Spec => []AcceptedOnceInOrder
<1>1. Ordered => AcceptedOnceInOrder
  BY DEF Ordered
<1>2. Init => Ordered
  BY OrderedStarts
<1> QED
  BY <1>1, <1>2, BaseHolds, OrderedStep, PTL DEF Spec

-----------------------------------------------------------------------------

(* What holds while only valid packets come. *)
NoNoise == /\ read_index \in Place /\ nacked = {}
           /\ Waiting /\ Contiguous /\ Starts(0)

LEMMA NextInStream ==
    ASSUME Contiguous, NEW i \in 0 .. (Unread - 1), NEW j \in 0 .. Unread, i <= j
    PROVE  /\ Nth(i).at + (j - i) <= CellsOf(Nth(i).of)
                => Stream(j) = [of |-> Nth(i).of, at |-> Nth(i).at + (j - i)]
           /\ Nth(i).at + (j - i) = CellsOf(Nth(i).of) + 1 => Starts(j)
BY DEF Contiguous

LEMMA NoNoiseStarts ==
    ASSUME Init
    PROVE  NoNoise
<1>1. Unread = 0 /\ Waiting
  BY NothingUnread
<1>2. read_index \in Place /\ nacked = {} /\ arrived = 0
  BY DEF Init, Place
<1>3. Contiguous
  BY <1>1 DEF Contiguous
<1>4. Starts(0)
  BY <1>1, <1>2 DEF Starts, Stream, NextCell
<1> QED
  BY <1>1, <1>2, <1>3, <1>4 DEF NoNoise

LEMMA SendKeepsNoNoise ==
    ASSUME Base, NoNoise, NEW p \in Packet, SendPacket(p)
    PROVE  NoNoise'
<1>1. /\ Len(sent') = Len(sent) + 1 /\ Len(sent) \in Nat
      /\ \A m \in 1 .. Len(sent) : CellsOf(m)' = CellsOf(m)
      /\ Unread' = Unread /\ (\A i : Nth(i)' = Nth(i))
      /\ \A i \in 0 .. (Unread - 1) : Nth(i).of \in 1 .. Len(sent)
      /\ UNCHANGED receiver /\ arrived' = 0 /\ PacketComplete /\ Waiting'
  BY Sending DEF NoNoise
<1>2. Unread \in Nat
  BY UnreadTyped
<1>3. \A j \in 0 .. Unread : j # Unread => Stream(j)' = Stream(j) /\ Stream(j) = Nth(j)
  BY <1>1, <1>2 DEF Stream
<1>4. \A j \in {Unread} : Starts(j)'
  BY <1>1, <1>2 DEF Starts, Stream, NextCell
<1>5. ASSUME NEW j \in 0 .. Unread, Starts(j)
      PROVE  Starts(j)'
  <2>1. CASE j = Unread
    BY <1>4, <2>1
  <2>2. CASE j # Unread
    BY <1>3, <1>5, <2>2 DEF Starts
  <2> QED
    BY <2>1, <2>2
<1>6. ASSUME NEW i \in 0 .. (Unread - 1), NEW j \in 0 .. Unread, i <= j
      PROVE  /\ Nth(i).at + (j - i) <= CellsOf(Nth(i).of)
                  => Stream(j)' = [of |-> Nth(i).of, at |-> Nth(i).at + (j - i)]
             /\ Nth(i).at + (j - i) = CellsOf(Nth(i).of) + 1 => Starts(j)'
  <2> DEFINE c == Nth(i)
  <2>1. /\ c.at + (j - i) <= CellsOf(c.of)
             => Stream(j) = [of |-> c.of, at |-> c.at + (j - i)]
        /\ c.at + (j - i) = CellsOf(c.of) + 1 => Starts(j)
    BY <1>6, NextInStream DEF NoNoise
  <2>2. CASE j # Unread
    BY <1>3, <1>5, <2>1, <2>2
  <2>3. CASE j = Unread
    <3>1. Stream(j) = NextCell
      BY <1>2, <2>3 DEF Stream
    <3>2. ~ (c.at + (j - i) <= CellsOf(c.of))
      <4> SUFFICES ASSUME c.at + (j - i) <= CellsOf(c.of) PROVE FALSE
        OBVIOUS
      <4>1. Len(sent) = c.of /\ arrived + 1 = c.at + (j - i)
        BY <2>1, <3>1 DEF NextCell
      <4>2. sent # <<>> /\ arrived \in Nat /\ Len(sent) \in 1 .. Len(sent)
        BY <1>1, <4>1 DEF Base, TcParserTypeOK
      <4>3. arrived = CellsOf(Len(sent))
        BY <1>1, <4>2 DEF PacketComplete, CellsOf
      <4> QED
        BY <4>1, <4>2, <4>3
    <3> QED
      BY <1>4, <2>3, <3>2
  <2> QED
    BY <2>2, <2>3
<1>7. Contiguous'
  BY <1>1, <1>6 DEF Contiguous
<1>8. Starts(0)'
  BY <1>2, <1>5 DEF NoNoise
<1> QED
  BY <1>1, <1>2, <1>7, <1>8 DEF NoNoise, receiver

LEMMA WriteKeepsNoNoise ==
    ASSUME Base, NoNoise, PeripheralWrites
    PROVE  NoNoise'
<1>1. /\ Unread' = Unread + 1 /\ Unread \in Nat
      /\ \A i \in 0 .. (Unread - 1) :
           /\ Nth(i)' = Nth(i) /\ Nth(i).of \in 1 .. Len(sent) /\ Nth(i).at \in Nat
           /\ Nth(i).of = Len(sent) => Nth(i).at <= arrived
      /\ \A i \in {Unread} : Nth(i)' = NextCell
      /\ \A i \in 0 .. (Unread' - 1) : i \in 0 .. (Unread - 1) \/ i = Unread
      /\ NextCell.of = Len(sent) /\ NextCell.at = arrived + 1
      /\ Len(sent) \in 1 .. MaxPackets /\ arrived \in Nat /\ ~ PacketComplete
      /\ arrived < CellsOf(Len(sent)) /\ CellsOf(Len(sent)) \in Nat
      /\ arrived' = arrived + 1
      /\ UNCHANGED <<sent, read_index, nacked>> /\ Waiting'
  BY Writing DEF NoNoise
<1>2. \A m : CellsOf(m)' = CellsOf(m)
  BY <1>1 DEF CellsOf
<1>3. \A j \in 0 .. Unread : Stream(j)' = Stream(j)
  BY <1>1 DEF Stream
<1>4. \A j \in {Unread + 1} : Stream(j)' = [of |-> Len(sent), at |-> arrived + 2]
  BY <1>1 DEF Stream, NextCell
<1>5. \A j \in {Unread + 1} : CellsOf(Len(sent)) = arrived + 1 => Starts(j)'
  <2>1. CellsOf(Len(sent)) = arrived + 1 => PacketComplete'
    <3>1. sent # <<>>
      BY <1>1 DEF PacketComplete
    <3> QED
      BY <1>1, <3>1 DEF PacketComplete, CellsOf
  <2> QED
    BY <1>1, <2>1 DEF Starts
<1>6. \A j \in 0 .. Unread : Starts(j) => Starts(j)'
  BY <1>1, <1>3 DEF Starts
<1>7. Stream(Unread) = NextCell
  BY <1>1 DEF Stream
<1>8. ASSUME NEW i \in 0 .. (Unread' - 1), NEW j \in 0 .. Unread', i <= j
      PROVE  /\ Nth(i)'.at + (j - i) <= CellsOf(Nth(i)'.of)
                  => Stream(j)' = [of |-> Nth(i)'.of, at |-> Nth(i)'.at + (j - i)]
             /\ Nth(i)'.at + (j - i) = CellsOf(Nth(i)'.of) + 1 => Starts(j)'
  <2>0. j \in 0 .. Unread \/ j = Unread + 1
    BY <1>1
  <2>1. CASE i \in 0 .. (Unread - 1)
    <3> DEFINE c == Nth(i)
    <3>1. Nth(i)' = c /\ c.at \in Nat /\ c.of \in 1 .. Len(sent)
      BY <1>1, <2>1
    <3>2. CASE j \in 0 .. Unread
      <4>1. /\ c.at + (j - i) <= CellsOf(c.of)
                 => Stream(j) = [of |-> c.of, at |-> c.at + (j - i)]
            /\ c.at + (j - i) = CellsOf(c.of) + 1 => Starts(j)
        BY <1>8, <2>1, <3>2, NextInStream DEF NoNoise
      <4> QED
        BY <1>3, <1>6, <3>1, <3>2, <4>1
    <3>3. CASE j = Unread + 1
      <4>0. c.at + (Unread - i) <= CellsOf(c.of)
              => Stream(Unread) = [of |-> c.of, at |-> c.at + (Unread - i)]
        <5>1. Unread \in 0 .. Unread /\ i <= Unread
          BY <1>1, <2>1
        <5> QED
          BY <2>1, <5>1, NextInStream DEF NoNoise
      <4>1. ASSUME c.at + (Unread - i) <= CellsOf(c.of)
            PROVE  Len(sent) = c.of /\ arrived + 1 = c.at + (Unread - i)
        BY <1>7, <4>0, <4>1 DEF NextCell
      <4>2. CellsOf(c.of) \in Nat /\ i \in Nat /\ j - i = (Unread - i) + 1
        BY <1>1, <2>1, <3>1, <3>3, PacketTyped DEF Base
      <4>5. PICK a \in Nat : a = c.at
        BY <3>1
      <4>6. PICK u \in Nat : u = Unread - i /\ j - i = u + 1
        BY <1>1, <2>1, <4>2
      <4> HIDE DEF c
      <4>3. ASSUME c.at + (j - i) <= CellsOf(c.of)
            PROVE  Stream(j)' = [of |-> c.of, at |-> c.at + (j - i)]
        <5>1. c.at + (Unread - i) <= CellsOf(c.of)
          BY <4>2, <4>3, <4>5, <4>6
        <5>2. arrived + 2 = c.at + (j - i) /\ Len(sent) = c.of
          BY <1>1, <4>1, <4>5, <4>6, <5>1
        <5> QED
          BY <1>4, <3>3, <5>2
      <4>4. ASSUME c.at + (j - i) = CellsOf(c.of) + 1
            PROVE  Starts(j)'
        <5>1. c.at + (Unread - i) <= CellsOf(c.of) /\ c.at + (Unread - i) = CellsOf(c.of)
          BY <4>2, <4>4, <4>5, <4>6
        <5>2. CellsOf(Len(sent)) = arrived + 1
          BY <4>1, <5>1
        <5> QED
          BY <1>5, <3>3, <5>2
      <4> QED
        BY <3>1, <4>3, <4>4
    <3> QED
      BY <2>0, <3>2, <3>3
  <2>2. CASE i = Unread
    <3>1. Nth(i)'.of = Len(sent) /\ Nth(i)'.at = arrived + 1
      BY <1>1, <2>2
    <3>2. CASE j = Unread
      <4>1. Stream(j)' = [of |-> Len(sent), at |-> arrived + 1]
        BY <1>1, <1>3, <1>7, <3>2 DEF NextCell
      <4>2. j - i = 0
        BY <1>1, <2>2, <3>2
      <4> QED
        BY <1>1, <3>1, <4>1, <4>2
    <3>3. CASE j = Unread + 1
      <4>1. j - i = 1
        BY <1>1, <2>2, <3>3
      <4>2. Stream(j)' = [of |-> Len(sent), at |-> arrived + 2]
        BY <1>4, <3>3
      <4>3. (arrived + 1) + (j - i) = arrived + 2
        BY <1>1, <4>1
      <4>4. arrived + 2 = CellsOf(Len(sent)) + 1 => Starts(j)'
        BY <1>1, <1>5, <3>3
      <4> QED
        BY <3>1, <4>2, <4>3, <4>4
    <3> QED
      BY <1>1, <1>8, <2>0, <2>2, <3>2, <3>3
  <2> QED
    BY <1>1, <2>1, <2>2
<1>9. Contiguous'
  BY <1>2, <1>8 DEF Contiguous
<1>10. Starts(0)'
  BY <1>1, <1>6 DEF NoNoise
<1> QED
  BY <1>1, <1>9, <1>10 DEF NoNoise

-----------------------------------------------------------------------------

(* The receiver moves by d places, up to the start of a packet. *)
LEMMA MoveKeepsNoNoise ==
    ASSUME NoNoise, UNCHANGED <<uplink, nacked>>, read_index' \in Place, Waiting',
           NEW d \in 0 .. Unread, Unread \in Nat, Unread' = Unread - d, Starts(d),
           \A i \in 0 .. (Unread - d - 1) :
             Nth(i)' = Nth(i + d) /\ i + d \in 0 .. (Unread - 1)
    PROVE  NoNoise'
<1>1. (\A m : CellsOf(m)' = CellsOf(m)) /\ NextCell' = NextCell
      /\ PacketComplete' = PacketComplete
  BY DEF CellsOf, NextCell, PacketComplete, uplink
<1>2. ASSUME NEW j \in 0 .. Unread'
      PROVE  Stream(j)' = Stream(j + d)
  <2>1. CASE j < Unread'
    <3>1. j \in 0 .. (Unread - d - 1) /\ j + d < Unread
      BY <1>2, <2>1
    <3> QED
      BY <2>1, <3>1 DEF Stream
  <2>2. CASE ~ (j < Unread')
    <3>1. ~ (j + d < Unread)
      BY <1>2, <2>2
    <3> QED
      BY <1>1, <2>2, <3>1 DEF Stream
  <2> QED
    BY <2>1, <2>2
<1>3. ASSUME NEW j \in 0 .. Unread', Starts(j + d)
      PROVE  Starts(j)'
  <2>1. j + d = Unread => j = Unread'
    BY <1>3
  <2> QED
    BY <1>1, <1>2, <1>3, <2>1 DEF Starts
<1>4. ASSUME NEW i \in 0 .. (Unread' - 1), NEW j \in 0 .. Unread', i <= j
      PROVE  /\ Nth(i)'.at + (j - i) <= CellsOf(Nth(i)'.of)
                  => Stream(j)' = [of |-> Nth(i)'.of, at |-> Nth(i)'.at + (j - i)]
             /\ Nth(i)'.at + (j - i) = CellsOf(Nth(i)'.of) + 1 => Starts(j)'
  <2>1. /\ Nth(i)' = Nth(i + d) /\ i + d \in 0 .. (Unread - 1)
        /\ j + d \in 0 .. Unread /\ i + d <= j + d /\ (j + d) - (i + d) = j - i
    BY <1>4
  <2>2. /\ Nth(i + d).at + (j - i) <= CellsOf(Nth(i + d).of)
             => Stream(j + d) = [of |-> Nth(i + d).of, at |-> Nth(i + d).at + (j - i)]
        /\ Nth(i + d).at + (j - i) = CellsOf(Nth(i + d).of) + 1 => Starts(j + d)
    <3>1. PICK a \in 0 .. (Unread - 1), b \in 0 .. Unread : a = i + d /\ b = j + d
      BY <2>1
    <3>2. a <= b /\ b - a = j - i
      BY <2>1, <3>1
    <3> QED
      BY <3>1, <3>2, NextInStream DEF NoNoise
  <2> QED
    BY <1>2, <1>3, <2>1, <2>2
<1>5. Contiguous'
  BY <1>1, <1>4 DEF Contiguous
<1>6. Starts(0)'
  <2>1. 0 \in 0 .. Unread' /\ 0 + d = d
    OBVIOUS
  <2> QED
    BY <1>3, <2>1
<1> QED
  BY <1>5, <1>6 DEF NoNoise

(* At the read index a telecommand starts, so FindTCHeader stops there. *)
LEMMA HeaderFirst ==
    ASSUME Base, AllValid, NoNoise, Parsing
    PROVE  /\ Unread \in Nat \ {0} /\ Distance \in Nat \ {0} /\ Nth(0).at = 1
           /\ Nth(0).of \in 1 .. Len(sent)
           /\ Nth(0) = [of |-> Nth(0).of, at |-> 1]
           /\ 0 \in 0 .. (Distance - 1) /\ Distance <= Unread
           /\ ~ MayNotBeHeader(Visited(0)) /\ Start(0) = read_index
           /\ \A k \in 0 .. (Distance - 1) : HeaderOffset(k) => k = 0
<1>1. /\ read_index \in Place /\ write_index \in Place /\ Unread \in Nat
      /\ pc = "parse" /\ write_index # read_index /\ Reader = read_index
  BY UnreadTyped, ReaderTyped DEF NoNoise, Parsing, Base
<1>2. (read_index + 0) % buffer_size = read_index
  <2>1. 0 \in 0 .. buffer_size /\ read_index + 0 = read_index /\ read_index < buffer_size
    BY <1>1 DEF Place
  <2> QED
    BY <1>1, <2>1, PlaceIs
<1>3. Distance = Ahead(read_index, write_index)
  <2>1. read_index # buffer_size
    BY <1>1 DEF Place
  <2> QED
    BY <2>1 DEF Distance
<1>4. Distance \in Nat \ {0} /\ Distance <= Unread
  <2>1. /\ Ahead(read_index, write_index) \in Place
        /\ (read_index + Ahead(read_index, write_index)) % buffer_size = write_index
    BY <1>1, AheadIs
  <2>2. Ahead(read_index, write_index) # 0
    BY <1>1, <1>2, <2>1
  <2>3. Ahead(read_index, write_index) <= Unread
    BY <1>1 DEF NoNoise, Waiting
  <2> QED
    BY <1>3, <2>1, <2>2, <2>3 DEF Place
<1>5. Unread # 0 /\ 0 < Unread /\ 0 \in 0 .. (Unread - 1)
  BY <1>1, <1>4
<1>6. Nth(0).at = 1
  BY <1>5 DEF NoNoise, Starts, Stream
<1>7. Arrived(Nth(0)) /\ Nth(0) = rx_buffer[read_index]
  BY <1>1, <1>2, <1>5 DEF NoNoise, Waiting, Nth
<1>8. Nth(0).of \in 1 .. Len(sent) /\ Nth(0) \in [of : 0 .. MaxPackets, at : Nat]
  BY <1>1, <1>7 DEF Arrived, Base, TcParserTypeOK
<1>9. Nth(0) = [of |-> Nth(0).of, at |-> 1]
  BY <1>6, <1>8
<1>10. Cell(read_index) = Cells[sent[Nth(0).of]][1]
  <2>1. rx_buffer[read_index] # Nowhere
    BY <1>7, <1>8 DEF Nowhere
  <2> QED
    BY <1>6, <1>7, <2>1 DEF Cell
<1>11. sent[Nth(0).of] \in Valid
  BY <1>8 DEF AllValid
<1>12. Cell(read_index).header
  BY <1>10, <1>11
<1>13. ~ MayNotBeHeader(Visited(0))
  BY <1>1, <1>12 DEF MayNotBeHeader, Visited
<1>14. ASSUME NEW k \in 0 .. (Distance - 1), HeaderOffset(k)
       PROVE  k = 0
  <2>1. \A j \in 0 .. (k - 1) : MayNotBeHeader(Visited(j))
    BY <1>14 DEF HeaderOffset
  <2>2. 0 \notin 0 .. (k - 1)
    BY <1>13, <2>1
  <2> QED
    BY <1>4, <2>2
<1>15. 0 \in 0 .. (Distance - 1) /\ Start(0) = read_index
  BY <1>2, <1>4 DEF Start
<1> QED
  BY <1>1, <1>4, <1>5, <1>6, <1>8, <1>9, <1>13, <1>14, <1>15

(* What starts at the read index is a valid telecommand, or a part of one. *)
LEMMA NothingRejected ==
    ASSUME Base, AllValid, NoNoise, Parsing
    PROVE  /\ ~ NoHeader /\ ~ RejectTC
<1>1. /\ Unread \in Nat \ {0} /\ Distance \in Nat \ {0}
      /\ Nth(0).of \in 1 .. Len(sent) /\ Nth(0) = [of |-> Nth(0).of, at |-> 1]
      /\ 0 \in 0 .. (Distance - 1) /\ Distance <= Unread
      /\ ~ MayNotBeHeader(Visited(0)) /\ Start(0) = read_index
      /\ \A k \in 0 .. (Distance - 1) : HeaderOffset(k) => k = 0
  BY HeaderFirst
<1>2. ~ NoHeader
  BY <1>1 DEF NoHeader
<1>3. ASSUME ~ PartialTC(Start(0))
      PROVE  \E m \in 1 .. Len(sent) : ValidTC(Start(0), m)
  <2> DEFINE m == Nth(0).of
             n == CellsOf(m)
  <2>1. /\ sent[m] \in Valid /\ n \in Nat /\ n > 1
        /\ Cells[sent[m]][2].length = n
    <3>1. sent[m] \in Valid
      BY <1>1 DEF AllValid
    <3>2. n \in Nat
      BY <1>1, PacketTyped DEF Base
    <3> QED
      BY <3>1, <3>2 DEF CellsOf
  <2>2. Available(Start(0)) = Distance /\ read_index \in Place /\ Reader = read_index
    <3>1. /\ read_index \in Place /\ pc = "parse" /\ Waiting /\ Reader = read_index
      BY ReaderTyped DEF NoNoise, Parsing, Base
    <3>2. Available(Start(0)) = Distance - 0
      BY <1>1, <3>1, Found
    <3> QED
      BY <1>1, <3>1, <3>2
  <2>3. TCLength(read_index) \in Nat \ {0, 1}
    BY <1>1, StartTyped
  <2>4. FullTC(Start(0)) /\ TCLength(read_index) <= Distance
    BY <1>1, <1>3, <2>2, <2>3 DEF PartialTC, FullTC
  <2>5. Unread > 1 /\ 1 \in 0 .. Unread
    BY <1>1, <2>3, <2>4
  <2> HIDE DEF n
  <2>6. ASSUME NEW j \in 0 .. (Unread - 1), j < n
        PROVE  Nth(j) = [of |-> m, at |-> j + 1]
    <3>1. 0 \in 0 .. (Unread - 1) /\ j \in 0 .. Unread /\ 0 <= j /\ j < Unread
      BY <1>1, <2>6
    <3>2. Nth(0).at + (j - 0) = j + 1 /\ j + 1 <= n
      BY <1>1, <2>1, <2>6
    <3>3. Stream(j) = [of |-> m, at |-> j + 1]
      BY <3>1, <3>2, NextInStream DEF NoNoise, n
    <3> QED
      BY <3>1, <3>3 DEF Stream
  <2>7. TCLength(read_index) = n
    <3>0. 1 \in 0 .. (Unread - 1) /\ 1 < n /\ 1 + 1 = 2
      BY <1>1, <2>1, <2>5
    <3>1. Nth(1) = [of |-> m, at |-> 1 + 1]
      BY <3>0, <2>6
    <3>2. rx_buffer[(read_index + 1) % buffer_size] = [of |-> m, at |-> 2]
      BY <2>2, <3>0, <3>1 DEF Nth
    <3>3. [of |-> m, at |-> 2] # Nowhere
      BY <1>1 DEF Nowhere
    <3>4. Cell((read_index + 1) % buffer_size) = Cells[sent[m]][2]
      BY <3>2, <3>3 DEF Cell
    <3> QED
      BY <2>1, <3>4 DEF TCLength
  <2>8. ASSUME NEW j \in 1 .. n
        PROVE  rx_buffer[(read_index + j - 1) % buffer_size] = [of |-> m, at |-> j]
    <3>0. n <= Unread
      BY <1>1, <2>1, <2>4, <2>7
    <3>1. j - 1 \in 0 .. (Unread - 1) /\ j - 1 < n /\ (j - 1) + 1 = j
          /\ read_index + (j - 1) = read_index + j - 1
      <4>1. j \in Nat /\ 1 <= j /\ j <= n
        BY <2>1, <2>8
      <4>2. read_index \in Nat
        BY <2>2 DEF Place
      <4>3. n \in Nat /\ Unread \in Nat
        BY <1>1, <2>1
      <4>4. j - 1 \in 0 .. (Unread - 1) /\ j - 1 < n /\ (j - 1) + 1 = j
        BY <3>0, <4>1, <4>3
      <4>5. read_index + (j - 1) = read_index + j - 1
        BY <4>1, <4>2
      <4> QED
        BY <4>4, <4>5
    <3>2. Nth(j - 1) = [of |-> m, at |-> j]
      BY <2>6, <3>1
    <3> QED
      BY <2>2, <3>1, <3>2 DEF Nth
  <2>9. ValidTC(Start(0), m)
    BY <1>1, <2>1, <2>4, <2>7, <2>8 DEF ValidTC, Holds, n, CellsOf
  <2> QED
    BY <1>1, <2>9
<1>4. ~ RejectTC
  BY <1>1, <1>3 DEF RejectTC, HeaderFits
<1> QED
  BY <1>2, <1>4

LEMMA ReceiverKeepsNoNoise ==
    ASSUME Base, AllValid, NoNoise, ReceiverStep
    PROVE  NoNoise'
<1>0. ~ NoHeader /\ ~ RejectTC
  BY NothingRejected DEF NoHeader, RejectTC
<1>1. CASE ParseTC
  <2>1. Parsing /\ read_index \in Place /\ Waiting
    BY <1>1 DEF ParseTC, NoNoise
  <2>2. PICK k \in 0 .. (Distance - 1), m \in 1 .. Len(sent), n \in Nat \ {0} :
             /\ HeaderOffset(k) /\ n = CellsOf(m)
             /\ UNCHANGED <<uplink, nacked>>
             /\ k + n \in 0 .. Unread /\ k \in 0 .. (Unread - 1)
             /\ Nth(k) = [of |-> m, at |-> 1]
             /\ read_index' \in Place /\ Unread' = Unread - (k + n)
             /\ \A i \in 0 .. (Unread - (k + n) - 1) :
                  Nth(i)' = Nth(i + (k + n)) /\ i + (k + n) \in 0 .. (Unread - 1)
             /\ Waiting'
    BY <1>1, <2>1, ParseMoves
  <2>3. k = 0 /\ Unread \in Nat
    BY <2>1, <2>2, HeaderFirst
  <2>4. n \in 0 .. Unread /\ k + n = n
    BY <2>2, <2>3
  <2>5. Starts(n)
    <3>1. Nth(0).at + (n - 0) = CellsOf(Nth(0).of) + 1 /\ 0 <= n /\ 0 \in 0 .. (Unread - 1)
      BY <2>2, <2>3
    <3> QED
      BY <2>4, <3>1, NextInStream DEF NoNoise
  <2> QED
    BY <2>2, <2>3, <2>4, <2>5, MoveKeepsNoNoise
<1>2. CASE ~ ParseTC
  <2>1. UNCHANGED <<read_index, nacked>>
    BY <1>0, <1>2 DEF ReceiverStep, ReceiveTC, NoNewData, WaitForMore, Overrun
  <2>2. read_index \in Place /\ read_index' \in Place
    BY <2>1 DEF NoNoise, Place
  <2>3. UNCHANGED uplink /\ Waiting'
    BY <1>2, <2>2, ReceiverMoves DEF NoNoise
  <2>4. Unread' = Unread /\ Unread \in Nat /\ (\A i : Nth(i)' = Nth(i))
    BY <2>1, <2>2, <2>3, UnreadTyped DEF Unread, Reader, Ahead, Nth, uplink
  <2>5. 0 \in 0 .. Unread /\ Unread' = Unread - 0 /\ Starts(0)
    BY <2>4 DEF NoNoise
  <2>6. \A i \in 0 .. (Unread - 0 - 1) :
          Nth(i)' = Nth(i + 0) /\ i + 0 \in 0 .. (Unread - 1)
    BY <2>4
  <2> QED
    BY <2>1, <2>2, <2>3, <2>4, <2>5, <2>6, MoveKeepsNoNoise
<1> QED
  BY <1>1, <1>2

LEMMA NoNoiseStep ==
    Base /\ (AllValid => NoNoise) /\ [Next]_vars => (AllValid => NoNoise)'
<1> SUFFICES ASSUME Base, AllValid => NoNoise, [Next]_vars, AllValid'
             PROVE  NoNoise'
  OBVIOUS
<1>1. ASSUME NEW p \in Packet, SendPacket(p)
      PROVE  NoNoise'
  <2>1. /\ Len(sent') = Len(sent) + 1 /\ Len(sent) \in Nat
        /\ \A m \in 1 .. Len(sent) : sent'[m] = sent[m]
    <3>1. sent' = Append(sent, p) /\ sent \in Seq(Packet)
      BY <1>1 DEF SendPacket, Base, TcParserTypeOK
    <3> QED
      BY <3>1
  <2>2. AllValid
    BY <2>1 DEF AllValid
  <2> QED
    BY <1>1, <2>2, SendKeepsNoNoise
<1>2. CASE UNCHANGED sent
  <2>1. AllValid /\ NoNoise
    BY <1>2 DEF AllValid
  <2>2. CASE UNCHANGED vars
    <3>1. UNCHANGED <<uplink, pc, write_index, read_index, nacked>>
      BY <2>2 DEF vars, receiver
    <3>2. Waiting'
      BY <2>1, <3>1, WaitingUnchanged DEF NoNoise
    <3> QED
      BY <2>1, <3>1, <3>2 DEF uplink, NoNoise, Contiguous, Starts, Stream, Unread, Reader,
           Ahead, Nth, NextCell, CellsOf, PacketComplete, Place
  <2> QED
    BY <1>1, <2>1, <2>2, WriteKeepsNoNoise, ReceiverKeepsNoNoise DEF Next
<1>3. CASE ReceiverStep \/ PeripheralWrites \/ UNCHANGED vars
  <2>1. UNCHANGED sent
    BY <1>3 DEF ReceiverStep, ReceiveTC, NoNewData, Overrun, ParseTC, WaitForMore, RejectTC,
                NoHeader, PeripheralWrites, uplink, vars
  <2> QED
    BY <1>2, <2>1
<1> QED
  BY <1>1, <1>3 DEF Next

(* While only valid telecommands come, however they are cut and whatever   *)
(* is read as a length where one has only begun to arrive, none of them is *)
(* reported to the ground as invalid (tc_parser.c:340-370).                *)
THEOREM NoFalseNackHolds == Spec => []NoFalseNack
<1>1. (AllValid => NoNoise) => NoFalseNack
  BY DEF AllValid, NoNoise, NoFalseNack
<1>2. Init => (AllValid => NoNoise)
  BY NoNoiseStarts
<1>3. Base /\ (AllValid => NoNoise) /\ [Next]_vars => (AllValid => NoNoise)'
  BY NoNoiseStep
<1> QED
  BY <1>1, <1>2, <1>3, BaseHolds, PTL DEF Spec

=============================================================================
