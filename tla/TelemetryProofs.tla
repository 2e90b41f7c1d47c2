---------------------------- MODULE TelemetryProofs ----------------------------
(***************************************************************************)
(* The way of a telemetry, for any tasks, any buffers, any width of the    *)
(* counter and any failure of the link.                                    *)
(***************************************************************************)
EXTENDS Telemetry, Integers, TLAPS

Word == 0..(WordSize - 1)

TM == [id : Nat, from : Producer \union {"none"}, kind : Kind \union {"none"},
       sequence : Word, order : {"host", "network"}, crc : {"none", "host", "network"}]

Task == [pc : {"idle", "count", "built", "write", "signal"}, tm : TM, kept : TM, held : Word]

Down == [tm : TM, size : {"its own", "another"}]

Shapes ==
    /\ tm_counter \in Word /\ built \in 0..MaxTM /\ overlapped \in BOOLEAN
    /\ producer \in [Producer -> Task]
    /\ buffer \in [1..Buffer -> Seq(TM)]
    /\ \A b \in 1..Buffer : Len(buffer[b]) <= BufferSize
    /\ sender \in [pc : {"init", "wait", "read", "send"}, i : 0..Buffer, tm : TM]
    /\ (sender.i = 0) <=> (sender.pc \in {"init", "wait"})
    /\ downlink \in Seq(Down)

(* Of one task and one kind, t was built before u. *)
Precedes(t, u) == t.from = u.from /\ t.kind = u.kind => t.id < u.id

Numbered(tm) == Count(tm) = (tm.id - 1) % Quarter

Built(tm) ==
    /\ tm.from \in Producer /\ tm.kind \in DOMAIN BufferOf[tm.from]
    /\ tm.id \in 1..built /\ (~ overlapped => Numbered(tm))

Sound(tm) == Built(tm) /\ tm.order = "host"

Building(p) == producer[p].pc \in {"count", "built", "write"}
Keeping(p)  == producer[p].kept # NoTM
Sending     == sender.pc = "send"

(* t is built by the task and not yet written. *)
Holds(p, t) ==
    \/ Building(p) /\ t = producer[p].tm
    \/ Keeping(p) /\ t = producer[p].kept

(* What a task keeps is the TM of a handler, behind the report it writes.  *)
Hands ==
    \A p \in Producer :
      /\ ProducerAt(p, "idle") => producer[p].tm = NoTM
      /\ ProducerAt(p, "built") => producer[p].tm.kind = "specific"
      /\ Keeping(p) => producer[p].kept.kind = "specific"
      /\ Keeping(p) /\ Building(p) => producer[p].tm.kind = "report"

(* The buffer of its task for its kind. *)
Place(t) == BufferOf[t.from][t.kind]

(* Everything on its way is sound, and in the buffer of its task. *)
OnTheWay ==
    /\ \A p \in Producer : \A t : Holds(p, t) => t.from = p /\ Sound(t)
    /\ \A b \in 1..Buffer : \A n \in DOMAIN buffer[b] :
         Sound(buffer[b][n]) /\ Place(buffer[b][n]) = b
    /\ Sending => Sound(sender.tm)
    /\ \A n \in DOMAIN downlink :
         /\ Built(downlink[n].tm) /\ downlink[n].size = "its own"
         /\ downlink[n].tm.order = "network" /\ downlink[n].tm.crc = "network"

(* The ground is ahead of the sender, that of the buffers, these of the    *)
(* tasks.                                                                  *)
Ordered ==
    /\ \A m, n \in DOMAIN downlink : m < n => Precedes(downlink[m].tm, downlink[n].tm)
    /\ \A b \in 1..Buffer : \A m, n \in DOMAIN buffer[b] :
         m < n => Precedes(buffer[b][m], buffer[b][n])
    /\ Sending => \A n \in DOMAIN downlink : Precedes(downlink[n].tm, sender.tm)
    /\ \A b \in 1..Buffer : \A n \in DOMAIN buffer[b] :
         /\ Sending => Precedes(sender.tm, buffer[b][n])
         /\ \A m \in DOMAIN downlink : Precedes(downlink[m].tm, buffer[b][n])
    /\ \A p \in Producer : \A t : Holds(p, t) =>
         /\ Sending => Precedes(sender.tm, t)
         /\ \A m \in DOMAIN downlink : Precedes(downlink[m].tm, t)
         /\ \A b \in 1..Buffer : \A n \in DOMAIN buffer[b] : Precedes(buffer[b][n], t)

(* While calls of BuildTM do not overlap, the counter is the number of the *)
(* TMs counted.                                                            *)
Counts ==
    ~ overlapped =>
      \/ /\ \A p \in Producer : ~ ProducerAt(p, "count")
         /\ tm_counter = built % WordSize
      \/ \E p \in Producer :
           /\ ProducerAt(p, "count") /\ built >= 1
           /\ \A q \in Producer \ {p} : ~ ProducerAt(q, "count")
           /\ tm_counter = (built - 1) % WordSize /\ producer[p].held = tm_counter

TelemetryInv == Shapes /\ Hands /\ OnTheWay /\ Ordered /\ Counts

-----------------------------------------------------------------------------
(* The numbers. *)

LEMMA Division ==
    ASSUME NEW a \in Nat, NEW d \in Nat \ {0}
    PROVE  /\ a \div d \in Nat /\ (a % d) \in 0..(d - 1)
           /\ a = d * (a \div d) + (a % d)
BY SMT

LEMMA SameRest ==
    ASSUME NEW a \in Nat, NEW d \in Nat \ {0}, NEW q \in Int, NEW r \in 0..(d - 1),
           a = d * q + r
    PROVE  (a % d) = r
<1> DEFINE e == q - (a \div d)
<1>1. d * e = (a % d) - r /\ e \in Int
  BY Division
<1>2. e >= 1 => d * e >= d
  BY <1>1
<1>3. e <= -1 => d * e <= -d
  BY <1>1
<1>4. (a % d) - r < d /\ (a % d) - r > -d
  BY Division
<1>5. e = 0
  BY <1>1, <1>2, <1>3, <1>4
<1> QED
  BY <1>1, <1>5

LEMMA WordFacts ==
    /\ Quarter \in Nat \ {0} /\ WordSize \in Nat \ {0} /\ WordSize = Quarter * 4
    /\ 0 \in Word /\ \A a \in Nat : (a % WordSize) \in Word
BY Division, TelemetryAssumption DEF WordSize, Word

LEMMA NextCount == \A k \in Nat : (((k % WordSize) + 1) % WordSize) = ((k + 1) % WordSize)
<1> SUFFICES ASSUME NEW k \in Nat
             PROVE  (((k % WordSize) + 1) % WordSize) = ((k + 1) % WordSize)
  OBVIOUS
<1> DEFINE c == (k % WordSize)   r == ((c + 1) % WordSize)
           x == k \div WordSize  y == (c + 1) \div WordSize
<1>1. WordSize \in Nat \ {0}
  BY WordFacts
<1>2. c \in Nat /\ c + 1 \in Nat /\ x \in Nat /\ k = WordSize * x + c
  BY <1>1, Division
<1>3. r \in 0..(WordSize - 1) /\ y \in Nat /\ c + 1 = WordSize * y + r
  BY <1>1, <1>2, Division
<1> HIDE DEF c, r, x, y
<1>4. x + y \in Int /\ WordSize * (x + y) = WordSize * x + WordSize * y
  BY <1>1, <1>2, <1>3
<1>5. k + 1 \in Nat /\ k + 1 = WordSize * (x + y) + r
  BY <1>1, <1>2, <1>3, <1>4
<1>6. ((k + 1) % WordSize) = r
  BY <1>1, <1>3, <1>4, <1>5, SameRest
<1> QED
  BY <1>6 DEF r, c

(* The carry into the flags leaves the count right. *)
LEMMA CountOfSequence ==
    \A k \in Nat : /\ Sequence((k % WordSize)) \in Word
                   /\ (Sequence((k % WordSize)) % Quarter) = (k % Quarter)
<1> SUFFICES ASSUME NEW k \in Nat
             PROVE  /\ Sequence((k % WordSize)) \in Word
                    /\ (Sequence((k % WordSize)) % Quarter) = (k % Quarter)
  OBVIOUS
<1> DEFINE c == (k % WordSize)           x == k \div WordSize
           s == Sequence(c)              y == (3 * Quarter + c) \div WordSize
           r == (c % Quarter)            z == c \div Quarter
<1>1. WordSize \in Nat \ {0} /\ Quarter \in Nat \ {0} /\ WordSize = Quarter * 4
  BY WordFacts
<1>2. c \in Nat /\ x \in Nat /\ k = WordSize * x + c
  <2>1. x \in Nat /\ c \in 0..(WordSize - 1) /\ k = WordSize * x + c
    <3> HIDE DEF s, y, r, z
    <3> QED
      BY <1>1, Division
  <2> QED
    BY <1>1, <2>1
<1>3. 3 * Quarter + c \in Nat
  BY <1>1, <1>2
<1>4. s \in 0..(WordSize - 1) /\ y \in Nat /\ 3 * Quarter + c = WordSize * y + s
  BY <1>1, <1>3, Division DEF Sequence
<1>5. r \in 0..(Quarter - 1) /\ z \in Nat /\ c = Quarter * z + r
  BY <1>1, <1>2, Division
<1> HIDE DEF c, s, r, x, y, z
<1>6. WordSize * x = Quarter * (4 * x) /\ WordSize * y = Quarter * (4 * y)
  BY <1>1, <1>2, <1>4
<1>7. k = Quarter * (4 * x + z) + r /\ 4 * x + z \in Int
  BY <1>1, <1>2, <1>5, <1>6
<1>8. s = Quarter * (3 + z - 4 * y) + r /\ 3 + z - 4 * y \in Int
  BY <1>1, <1>4, <1>5, <1>6
<1>9. (k % Quarter) = r
  BY <1>1, <1>5, <1>7, SameRest
<1>10. s \in Nat /\ (s % Quarter) = r
  BY <1>1, <1>4, <1>5, <1>8, SameRest
<1> QED
  BY <1>4, <1>9, <1>10 DEF s, c, Word

-----------------------------------------------------------------------------
(* What the steps do to a TM and to a task. *)

LEMMA NoTMShape == NoTM \in TM
BY WordFacts DEF NoTM, TM, Kind

LEMMA Formatted ==
    ASSUME NEW tm \in TM
    PROVE  /\ FormatTM(tm) \in TM
           /\ FormatTM(tm).id = tm.id /\ FormatTM(tm).from = tm.from
           /\ FormatTM(tm).sequence = tm.sequence /\ FormatTM(tm).kind = tm.kind
           /\ SizeToSend(tm) \in {"its own", "another"}
           /\ tm.order = "host" => /\ FormatTM(tm).order = "network" /\ FormatTM(tm).crc = "network"
                                  /\ SizeToSend(tm) = "its own"
<1>1. Swap(tm.order) \in {"host", "network"} /\ (tm.order = "host" => Swap(tm.order) = "network")
  BY DEF Swap
<1>2. /\ FormatTM(tm).id = tm.id /\ FormatTM(tm).from = tm.from
      /\ FormatTM(tm).sequence = tm.sequence /\ FormatTM(tm).order = Swap(tm.order)
      /\ FormatTM(tm).kind = tm.kind
      /\ FormatTM(tm).crc = Swap(tm.order)
  BY DEF FormatTM, TM
<1>3. FormatTM(tm) \in TM
  BY <1>1 DEF FormatTM, TM
<1>4. /\ SizeToSend(tm) \in {"its own", "another"}
      /\ tm.order = "host" => SizeToSend(tm) = "its own"
  BY DEF SizeToSend, SizeOf
<1> QED
  BY <1>1, <1>2, <1>3, <1>4

LEMMA Moves ==
    ASSUME Shapes, NEW p \in Producer, NEW pc \in {"idle", "count", "built", "write", "signal"}
    PROVE  /\ ProducerGoes(p, pc) =>
                /\ producer' \in [Producer -> Task]
                /\ producer'[p].pc = pc /\ producer'[p].tm = producer[p].tm
                /\ producer'[p].kept = producer[p].kept
                /\ \A q \in Producer \ {p} : producer'[q] = producer[q]
           /\ ProducerDone(p) =>
                /\ producer' \in [Producer -> Task]
                /\ producer'[p].kept = NoTM
                /\ \/ producer'[p].pc = "idle" /\ producer'[p].tm = NoTM
                   \/ /\ producer'[p].pc = "write" /\ Keeping(p)
                      /\ producer'[p].tm = producer[p].kept
                /\ \A q \in Producer \ {p} : producer'[q] = producer[q]
<1>1. producer \in [Producer -> Task] /\ producer[p] \in Task
  BY DEF Shapes
<1>2. ASSUME ProducerGoes(p, pc)
      PROVE  /\ producer' \in [Producer -> Task]
             /\ producer'[p].pc = pc /\ producer'[p].tm = producer[p].tm
             /\ producer'[p].kept = producer[p].kept
             /\ \A q \in Producer \ {p} : producer'[q] = producer[q]
  <2> DEFINE new == [producer[p] EXCEPT !.pc = pc, !.held = 0]
  <2>1. producer' = [producer EXCEPT ![p] = new]
    BY <1>1, <1>2 DEF ProducerGoes, Task
  <2>2. new \in Task /\ new.pc = pc /\ new.tm = producer[p].tm /\ new.kept = producer[p].kept
    BY <1>1, WordFacts DEF Task
  <2> HIDE DEF new
  <2> QED
    BY <1>1, <2>1, <2>2
<1>3. ASSUME ProducerDone(p)
      PROVE  /\ producer' \in [Producer -> Task] /\ producer'[p].kept = NoTM
             /\ \/ producer'[p].pc = "idle" /\ producer'[p].tm = NoTM
                \/ /\ producer'[p].pc = "write" /\ Keeping(p)
                   /\ producer'[p].tm = producer[p].kept
             /\ \A q \in Producer \ {p} : producer'[q] = producer[q]
  <2> DEFINE new == After(producer[p])
  <2>1. producer' = [producer EXCEPT ![p] = new]
    BY <1>3 DEF ProducerDone
  <2>2. producer[p].kept \in TM
    BY <1>1 DEF Task
  <2>3. /\ new \in Task /\ new.kept = NoTM
        /\ \/ new.pc = "idle" /\ new.tm = NoTM
           \/ new.pc = "write" /\ Keeping(p) /\ new.tm = producer[p].kept
    <3>1. 0 \in Word /\ NoTM \in TM
      BY NoTMShape, WordFacts
    <3>2. CASE producer[p].kept = NoTM
      <4>1. new = [pc |-> "idle", tm |-> NoTM, kept |-> NoTM, held |-> 0]
        BY <3>2 DEF After, NotProducing
      <4> HIDE DEF new
      <4> QED
        BY <3>1, <4>1 DEF Task
    <3>3. CASE producer[p].kept # NoTM
      <4>1. new = [pc |-> "write", tm |-> producer[p].kept, kept |-> NoTM, held |-> 0]
        BY <3>3 DEF After, NotProducing
      <4> HIDE DEF new
      <4> QED
        BY <2>2, <3>1, <3>3, <4>1 DEF Task, Keeping
    <3> QED
      BY <3>2, <3>3
  <2> HIDE DEF new
  <2> QED
    BY <1>1, <2>1, <2>3
<1> QED
  BY <1>2, <1>3

LEMMA TelemetryStart == Init => TelemetryInv
<1> SUFFICES ASSUME Init
             PROVE  TelemetryInv
  OBVIOUS
<1>1. \A p \in Producer : /\ producer[p].pc = "idle"
                         /\ producer[p].tm = NoTM /\ producer[p].kept = NoTM
  BY DEF Init, NotProducing
<1>2. /\ tm_counter = 0 /\ built = 0 /\ sender.pc = "init" /\ sender.i = 0
      /\ downlink = <<>> /\ \A b \in 1..Buffer : buffer[b] = <<>>
  BY DEF Init
<1>3. NotProducing \in Task
  BY NoTMShape, WordFacts DEF NotProducing, Task
<1>4. producer \in [Producer -> Task]
  BY <1>3 DEF Init
<1>5. sender \in [pc : {"init", "wait", "read", "send"}, i : 0..Buffer, tm : TM]
  BY NoTMShape, TelemetryAssumption DEF Init
<1>6. /\ buffer \in [1..Buffer -> Seq(TM)] /\ downlink \in Seq(Down)
      /\ \A b \in 1..Buffer : Len(buffer[b]) <= BufferSize
  BY TelemetryAssumption DEF Init
<1>a. overlapped \in BOOLEAN
  BY DEF Init
<1>b. tm_counter \in Word /\ built \in 0..MaxTM
  BY <1>2, WordFacts, TelemetryAssumption
<1>7. Shapes
  BY <1>2, <1>4, <1>5, <1>6, <1>a, <1>b DEF Shapes
<1>8. OnTheWay /\ Ordered
  BY <1>1, <1>2 DEF OnTheWay, Ordered, Holds, Building, Keeping, Sending
<1>c. Hands
  BY <1>1 DEF Hands, Building, Keeping, ProducerAt
<1>9. (0 % WordSize) = 0
  BY WordFacts
<1>10. Counts
  BY <1>1, <1>2, <1>9 DEF Counts, ProducerAt
<1> QED
  BY <1>7, <1>8, <1>c, <1>10 DEF TelemetryInv

-----------------------------------------------------------------------------
(* Each action keeps the invariant. *)

LEMMA KeepsBuild ==
    ASSUME TelemetryInv, NEW p \in Producer, NEW kind \in Kind, BuildTM(p, kind)
    PROVE  TelemetryInv'
<1>a. PICK tm : tm = [NoTM EXCEPT !.id = built + 1, !.from = p, !.kind = kind,
                                  !.sequence = Sequence(tm_counter)]
  OBVIOUS
<1>0. /\ Shapes /\ Hands /\ OnTheWay /\ Ordered /\ Counts
      /\ UNCHANGED <<tm_counter, buffer, sender, downlink>>
      /\ \/ producer[p].pc = "idle"
         \/ producer[p].pc = "built" /\ kind = "report"
      /\ kind \in DOMAIN BufferOf[p]
      /\ built < MaxTM /\ built' = built + 1
      /\ producer' = [producer EXCEPT ![p] = [pc |-> "count", held |-> tm_counter,
                                             kept |-> producer[p].tm, tm |-> tm]]
  BY <1>a DEF TelemetryInv, BuildTM, ProducerAt, sendVars
<1>1. built \in Nat /\ built' \in 0..MaxTM
  BY <1>0, TelemetryAssumption DEF Shapes
<1>2. /\ overlapped' \in BOOLEAN
      /\ ~ overlapped' => ~ overlapped /\ \A q \in Producer \ {p} : producer[q].pc # "count"
  BY <1>0 DEF BuildTM, ProducerAt, Shapes
<1>3. tm_counter \in Nat /\ tm_counter = (tm_counter % WordSize)
  <2>1. tm_counter \in 0..(WordSize - 1) /\ tm_counter \in Nat
    BY <1>0, WordFacts DEF Shapes, Word
  <2>2. tm_counter = WordSize * 0 + tm_counter
    BY <2>1, WordFacts
  <2> QED
    BY <2>1, <2>2, WordFacts, SameRest
<1>4. Sequence(tm_counter) \in Word
  BY <1>3, CountOfSequence
<1>b. tm = [id |-> built + 1, from |-> p, kind |-> kind, sequence |-> Sequence(tm_counter),
            order |-> "host", crc |-> "none"]
  BY <1>a DEF NoTM
<1>5. tm \in TM
  <2>1. built + 1 \in Nat
    BY <1>1
  <2> QED
    BY <1>4, <1>b, <2>1 DEF TM
<1>6. /\ tm.id = built + 1 /\ tm.from = p /\ tm.kind = kind
      /\ tm.sequence = Sequence(tm_counter) /\ tm.order = "host"
  BY <1>b
<1>7. /\ producer' \in [Producer -> Task]
      /\ producer'[p].pc = "count" /\ producer'[p].tm = tm /\ producer'[p].held = tm_counter
      /\ producer'[p].kept = producer[p].tm
      /\ \A q \in Producer \ {p} : producer'[q] = producer[q]
  <2> DEFINE new == [pc |-> "count", held |-> tm_counter, kept |-> producer[p].tm, tm |-> tm]
  <2>0. producer[p].tm \in TM /\ tm_counter \in Word
    BY <1>0 DEF Shapes, Task
  <2>1. /\ new \in Task /\ new.pc = "count" /\ new.tm = tm /\ new.held = tm_counter
        /\ new.kept = producer[p].tm
    BY <1>5, <2>0 DEF Task
  <2>2. producer \in [Producer -> Task]
    BY <1>0 DEF Shapes
  <2> HIDE DEF new
  <2> QED
    BY <1>0, <2>1, <2>2 DEF new
<1>c. \A q \in Producer : \A t : Holds(q, t)' => Holds(q, t) \/ (q = p /\ t = tm)
  <2>1. Keeping(p)' => Building(p)
    BY <1>0, <1>7 DEF Keeping, Building, Hands, ProducerAt
  <2>2. \A t : Holds(p, t)' => Holds(p, t) \/ t = tm
    BY <1>7, <2>1 DEF Holds
  <2>3. \A q \in Producer \ {p} : \A t : Holds(q, t)' => Holds(q, t)
    BY <1>7 DEF Holds, Keeping, Building
  <2> QED
    BY <2>2, <2>3
<1>d. Hands'
  <2>1. \A q \in Producer \ {p} :
          /\ ProducerAt(q, "idle")' => producer'[q].tm = NoTM
          /\ ProducerAt(q, "built")' => producer'[q].tm.kind = "specific"
          /\ Keeping(q)' => producer'[q].kept.kind = "specific"
          /\ (Keeping(q) /\ Building(q))' => producer'[q].tm.kind = "report"
    BY <1>0, <1>7 DEF Hands, ProducerAt, Keeping, Building
  <2>2. Keeping(p)' => producer[p].pc = "built"
    BY <1>0, <1>7 DEF Hands, ProducerAt, Keeping
  <2>3. Keeping(p)' => producer'[p].kept.kind = "specific" /\ producer'[p].tm.kind = "report"
    BY <1>0, <1>6, <1>7, <2>2 DEF Hands, ProducerAt
  <2> QED
    BY <1>7, <2>1, <2>3 DEF Hands, ProducerAt
<1>8. \A t : Built(t) => Built(t)'
  BY <1>1, <1>2, <1>0 DEF Built, Numbered, Count
<1>9. \A t : Sound(t) => Sound(t)'
  BY <1>8 DEF Sound
<1>10. ~ overlapped' => tm_counter = (built % WordSize)
  BY <1>0, <1>2 DEF Counts, ProducerAt
<1>11. Sound(tm)'
  <2>1. ~ overlapped' => (Count(tm) = ((built + 1 - 1) % Quarter))
    <3>1. built + 1 - 1 = built
      BY <1>1
    <3> QED
      BY <1>1, <1>6, <1>10, <3>1, CountOfSequence DEF Count
  <2> QED
    BY <1>0, <1>1, <1>6, <2>1 DEF Sound, Built, Numbered
<1>12. Shapes'
  BY <1>0, <1>1, <1>2, <1>7 DEF Shapes
<1>13. OnTheWay'
  <2>1. \A q \in Producer : \A t : Holds(q, t)' => t.from = q /\ Sound(t)'
    BY <1>0, <1>6, <1>9, <1>c, <1>11 DEF OnTheWay
  <2>2. \A b \in 1..Buffer : \A n \in DOMAIN buffer[b] :
          Sound(buffer[b][n])' /\ Place(buffer'[b][n]) = b
    BY <1>0, <1>9 DEF OnTheWay
  <2>3. \A n \in DOMAIN downlink :
          /\ Built(downlink[n].tm)' /\ downlink'[n].size = "its own"
          /\ downlink'[n].tm.order = "network" /\ downlink'[n].tm.crc = "network"
    BY <1>0, <1>8 DEF OnTheWay
  <2>4. Sending' => Sound(sender.tm)'
    BY <1>0, <1>9 DEF OnTheWay, Sending
  <2> QED
    BY <1>0, <2>1, <2>2, <2>3, <2>4 DEF OnTheWay
<1>14. \A t : Built(t) => Precedes(t, tm)
  BY <1>1, <1>6 DEF Built, Precedes
<1>15. Ordered'
  <2>1. /\ Sending => Precedes(sender.tm, tm)
        /\ \A m \in DOMAIN downlink : Precedes(downlink[m].tm, tm)
        /\ \A b \in 1..Buffer : \A n \in DOMAIN buffer[b] : Precedes(buffer[b][n], tm)
    BY <1>0, <1>14 DEF OnTheWay, Sound
  <2>2. \A q \in Producer : \A t : Holds(q, t)' =>
         /\ Sending => Precedes(sender.tm, t)
         /\ \A m \in DOMAIN downlink : Precedes(downlink[m].tm, t)
         /\ \A b \in 1..Buffer : \A n \in DOMAIN buffer[b] : Precedes(buffer[b][n], t)
    BY <1>0, <1>c, <2>1 DEF Ordered
  <2>3. /\ \A m, n \in DOMAIN downlink : m < n => Precedes(downlink[m].tm, downlink[n].tm)
        /\ \A b \in 1..Buffer : \A m, n \in DOMAIN buffer[b] :
             m < n => Precedes(buffer[b][m], buffer[b][n])
        /\ Sending => \A n \in DOMAIN downlink : Precedes(downlink[n].tm, sender.tm)
        /\ \A b \in 1..Buffer : \A n \in DOMAIN buffer[b] :
             /\ Sending => Precedes(sender.tm, buffer[b][n])
             /\ \A m \in DOMAIN downlink : Precedes(downlink[m].tm, buffer[b][n])
    BY <1>0 DEF Ordered
  <2> QED
    BY <1>0, <2>2, <2>3 DEF Ordered, Sending
<1>16. Counts'
  <2>1. built' >= 1 /\ built' - 1 = built
    BY <1>0, <1>1
  <2> QED
    BY <1>0, <1>2, <1>7, <1>10, <2>1 DEF Counts, ProducerAt
<1> QED
  BY <1>12, <1>13, <1>15, <1>16, <1>d DEF TelemetryInv

(* A task goes on or ends, with the TM it had, and nothing else moves.     *)
LEMMA KeepsTask ==
    ASSUME TelemetryInv, NEW p \in Producer, UNCHANGED <<built, overlapped, buffer, sendVars>>,
           producer' \in [Producer -> Task], tm_counter' \in Word,
           \A t : Holds(p, t)' => Holds(p, t),
           \A q \in Producer \ {p} : producer'[q] = producer[q]
    PROVE  Shapes' /\ OnTheWay' /\ Ordered'
<1>0. /\ Shapes /\ OnTheWay /\ Ordered
      /\ UNCHANGED <<built, overlapped, buffer, sender, downlink>>
  BY DEF TelemetryInv, sendVars
<1>1. \A q \in Producer : \A t : Holds(q, t)' => Holds(q, t)
  BY DEF Holds, Building, Keeping
<1>2. \A t : (Built(t)' <=> Built(t)) /\ (Sound(t)' <=> Sound(t))
  BY <1>0 DEF Sound, Built
<1>3. Shapes'
  BY <1>0 DEF Shapes
<1>4. OnTheWay'
  <2>1. \A q \in Producer : \A t : Holds(q, t)' => t.from = q /\ Sound(t)
    BY <1>0, <1>1 DEF OnTheWay
  <2>2. \A b \in 1..Buffer : \A n \in DOMAIN buffer'[b] :
          Sound(buffer'[b][n]) /\ Place(buffer'[b][n]) = b
    <3>1. \A b \in 1..Buffer : \A n \in DOMAIN buffer[b] :
            Sound(buffer[b][n]) /\ Place(buffer[b][n]) = b
      BY <1>0 DEF OnTheWay
    <3>2. buffer' = buffer
      BY <1>0
    <3> QED
      BY <3>1, <3>2
  <2>3. \A n \in DOMAIN downlink' :
          /\ Built(downlink'[n].tm) /\ downlink'[n].size = "its own"
          /\ downlink'[n].tm.order = "network" /\ downlink'[n].tm.crc = "network"
    BY <1>0 DEF OnTheWay
  <2>4. Sending' => Sound(sender'.tm)
    BY <1>0 DEF OnTheWay, Sending
  <2> QED
    BY <1>2, <2>1, <2>2, <2>3, <2>4 DEF OnTheWay
<1>5. Ordered'
  BY <1>0, <1>1 DEF Ordered, Sending
<1> QED
  BY <1>3, <1>4, <1>5

(* What it has in hand stays as it should be. *)
LEMMA HandsStay ==
    ASSUME Hands, NEW p \in Producer, \A q \in Producer \ {p} : producer'[q] = producer[q],
           producer'[p].pc = "idle" => producer'[p].tm = NoTM,
           producer'[p].pc = "built" => producer'[p].tm.kind = "specific",
           Keeping(p)' => /\ Keeping(p) /\ producer'[p].kept = producer[p].kept
                          /\ Building(p)' => Building(p) /\ producer'[p].tm = producer[p].tm
    PROVE  Hands'
<1>1. \A q \in Producer \ {p} :
        /\ ProducerAt(q, "idle")' => producer'[q].tm = NoTM
        /\ ProducerAt(q, "built")' => producer'[q].tm.kind = "specific"
        /\ Keeping(q)' => producer'[q].kept.kind = "specific"
        /\ (Keeping(q) /\ Building(q))' => producer'[q].tm.kind = "report"
  BY DEF Hands, ProducerAt, Keeping, Building
<1>2. /\ Keeping(p)' => producer'[p].kept.kind = "specific"
      /\ (Keeping(p) /\ Building(p))' => producer'[p].tm.kind = "report"
  BY DEF Hands
<1> QED
  BY <1>1, <1>2 DEF Hands, ProducerAt

(* A TM that is written, or lost, is no longer in hand. *)
LEMMA TaskDone ==
    ASSUME Shapes, Hands, NEW p \in Producer, ProducerDone(p)
    PROVE  /\ Hands' /\ ~ ProducerAt(p, "count")' /\ producer' \in [Producer -> Task]
           /\ \A t : Holds(p, t)' => Holds(p, t)
           /\ \A q \in Producer \ {p} : producer'[q] = producer[q]
<1>1. /\ producer' \in [Producer -> Task] /\ producer'[p].kept = NoTM
      /\ \/ producer'[p].pc = "idle" /\ producer'[p].tm = NoTM
         \/ producer'[p].pc = "write" /\ Keeping(p) /\ producer'[p].tm = producer[p].kept
      /\ \A q \in Producer \ {p} : producer'[q] = producer[q]
  BY Moves
<1>2. ~ Keeping(p)'
  BY <1>1 DEF Keeping
<1>3. Hands'
  BY <1>1, <1>2, HandsStay
<1>4. \A t : Holds(p, t)' => Holds(p, t)
  BY <1>1, <1>2 DEF Holds, Building
<1> QED
  BY <1>1, <1>3, <1>4 DEF ProducerAt

LEMMA KeepsCount == ASSUME TelemetryInv, NEW p \in Producer, CountTM(p) PROVE TelemetryInv'
<1>a. PICK pc \in {"built", "write"} :
         pc = IF producer[p].tm.kind = "specific" THEN "built" ELSE "write"
  OBVIOUS
<1>0. /\ Shapes /\ Hands /\ Counts /\ UNCHANGED <<built, overlapped, buffer, sendVars>>
      /\ producer[p].pc = "count" /\ ProducerGoes(p, pc)
  BY <1>a DEF TelemetryInv, CountTM, ProducerAt
<1>1. /\ producer' \in [Producer -> Task]
      /\ producer'[p].pc = pc /\ producer'[p].tm = producer[p].tm
      /\ producer'[p].kept = producer[p].kept
      /\ \A q \in Producer \ {p} : producer'[q] = producer[q]
  BY <1>0, Moves
<1>b. Hands'
  <2>1. producer'[p].pc = "built" => producer'[p].tm.kind = "specific"
    BY <1>a, <1>1
  <2>2. Building(p)
    BY <1>0 DEF Building
  <2> QED
    BY <1>0, <1>1, <2>1, <2>2, HandsStay DEF Keeping
<1>c. \A t : Holds(p, t)' => Holds(p, t)
  BY <1>0, <1>1 DEF Holds, Building, Keeping
<1>2. producer[p].held \in Word /\ tm_counter \in Word
  BY <1>0 DEF Shapes, Task
<1>3. /\ tm_counter' = ((producer[p].held + 1) % WordSize)
         \/ tm_counter' = ((tm_counter + 1) % WordSize)
  BY DEF CountTM, Counted
<1>4. tm_counter' \in Word
  <2>1. producer[p].held + 1 \in Nat /\ tm_counter + 1 \in Nat
    BY <1>2, WordFacts DEF Word
  <2> QED
    BY <1>3, <2>1, WordFacts
<1>5. Shapes' /\ OnTheWay' /\ Ordered'
  BY <1>0, <1>1, <1>4, <1>c, KeepsTask
<1>6. Counts'
  <2> SUFFICES ASSUME ~ overlapped
               PROVE  /\ \A q \in Producer : ~ ProducerAt(q, "count")'
                      /\ tm_counter' = (built % WordSize)
    BY <1>0 DEF Counts
  <2>1. /\ built >= 1 /\ \A q \in Producer \ {p} : ~ ProducerAt(q, "count")
        /\ tm_counter = ((built - 1) % WordSize) /\ producer[p].held = tm_counter
    BY <1>0 DEF Counts, ProducerAt
  <2>2. built - 1 \in Nat /\ (built - 1) + 1 = built
    BY <1>0, <2>1, TelemetryAssumption DEF Shapes
  <2>3. tm_counter' = (built % WordSize)
    BY <1>3, <2>1, <2>2, NextCount
  <2> QED
    BY <1>1, <2>1, <2>3 DEF ProducerAt
<1> QED
  BY <1>5, <1>6, <1>b DEF TelemetryInv

(* A task that is done with BuildTM: the count does not see it. *)
LEMMA CountsStay ==
    ASSUME Counts, NEW p \in Producer, ~ ProducerAt(p, "count"),
           UNCHANGED <<tm_counter, built, overlapped>>, ~ ProducerAt(p, "count")',
           \A q \in Producer \ {p} : producer'[q] = producer[q]
    PROVE  Counts'
<1>1. \A q \in Producer : ProducerAt(q, "count")' <=> ProducerAt(q, "count")
  BY DEF ProducerAt
<1>2. \A q \in Producer : ProducerAt(q, "count") => producer'[q] = producer[q]
  OBVIOUS
<1> QED
  BY <1>1, <1>2 DEF Counts

LEMMA KeepsWrite == ASSUME TelemetryInv, NEW p \in Producer, WriteTM(p) PROVE TelemetryInv'
<1> DEFINE tm == producer[p].tm   b == BufferOf[p][tm.kind]
<1>0. /\ Shapes /\ Hands /\ OnTheWay /\ Ordered /\ Counts
      /\ producer[p].pc \in {"built", "write"}
      /\ UNCHANGED <<tm_counter, built, overlapped, sender, downlink>>
  BY DEF TelemetryInv, WriteTM, ProducerAt, sendVars
<1>1. CASE ProducerDone(p) /\ UNCHANGED buffer
  <2>1. /\ Hands' /\ ~ ProducerAt(p, "count")' /\ producer' \in [Producer -> Task]
        /\ \A t : Holds(p, t)' => Holds(p, t)
        /\ \A q \in Producer \ {p} : producer'[q] = producer[q]
    BY <1>0, <1>1, TaskDone
  <2>2. UNCHANGED <<built, overlapped, buffer, sendVars>> /\ tm_counter' \in Word
    BY <1>0, <1>1 DEF WriteTM, Shapes
  <2>3. Shapes' /\ OnTheWay' /\ Ordered'
    BY <2>1, <2>2, KeepsTask
  <2>4. Counts'
    BY <1>0, <2>1, CountsStay DEF ProducerAt
  <2> QED
    BY <2>1, <2>3, <2>4 DEF TelemetryInv
<1>2. CASE /\ Len(buffer[b]) < BufferSize
           /\ buffer' = [buffer EXCEPT ![b] = Append(@, tm)] /\ ProducerGoes(p, "signal")
  <2>1. /\ producer' \in [Producer -> Task]
        /\ producer'[p].pc = "signal" /\ producer'[p].tm = producer[p].tm
        /\ producer'[p].kept = producer[p].kept
        /\ \A q \in Producer \ {p} : producer'[q] = producer[q]
    BY <1>0, <1>2, Moves
  <2>a. Building(p) /\ Holds(p, tm)
    BY <1>0 DEF Building, Holds
  <2>2. \A q \in Producer : \A t : Holds(q, t)' =>
           /\ Holds(q, t)
           /\ q = p => t.kind = "specific" /\ tm.kind = "report"
    <3>1. \A t : Holds(p, t)' => /\ Holds(p, t) /\ t.kind = "specific"
                               /\ tm.kind = "report"
      BY <1>0, <2>1, <2>a DEF Holds, Keeping, Building, Hands
    <3>2. \A q \in Producer \ {p} : \A t : Holds(q, t)' => Holds(q, t)
      BY <2>1 DEF Holds, Keeping, Building
    <3> QED
      BY <3>1, <3>2
  <2>b. Hands'
    <3>1. ~ Building(p)' /\ (Keeping(p)' => Keeping(p))
      BY <2>1 DEF Building, Keeping
    <3>2. /\ producer'[p].pc # "idle" /\ producer'[p].pc # "built"
          /\ Hands /\ \A q \in Producer \ {p} : producer'[q] = producer[q]
          /\ Keeping(p)' => /\ Keeping(p) /\ producer'[p].kept = producer[p].kept
                            /\ Building(p)' => Building(p) /\ producer'[p].tm = producer[p].tm
      BY <1>0, <2>1, <3>1
    <3> HIDE DEF tm, b
    <3> QED
      BY <3>2, HandsStay
  <2>c. tm.from = p /\ Sound(tm) /\ tm.kind \in DOMAIN BufferOf[p]
    <3> HIDE DEF tm, b
    <3>1. tm.from = p /\ Sound(tm)
      BY <1>0, <2>a DEF OnTheWay
    <3> QED
      BY <3>1 DEF Sound, Built
  <2>d. b \in 1..Buffer
    <3>1. PICK K \in SUBSET Kind : BufferOf[p] \in [K -> 1..Buffer]
      BY TelemetryAssumption
    <3> QED
      BY <2>c, <3>1
  <2>3. /\ b \in 1..Buffer /\ buffer \in [1..Buffer -> Seq(TM)] /\ tm \in TM
        /\ Building(p) /\ tm.from = p /\ Sound(tm) /\ Holds(p, tm)
    BY <1>0, <2>a, <2>c, <2>d DEF Shapes, Task
  <2>e. Place(tm) = b
    BY <2>c DEF Place
  <2> HIDE DEF b, tm
  <2>4. /\ buffer' \in [1..Buffer -> Seq(TM)]
        /\ buffer'[b] = Append(buffer[b], tm)
        /\ \A c \in 1..Buffer : c # b => buffer'[c] = buffer[c]
    <3>1. Append(buffer[b], tm) \in Seq(TM)
      BY <2>3
    <3> QED
      BY <1>2, <2>3, <3>1
  <2>5. /\ Len(buffer[b]) \in Nat /\ Len(buffer'[b]) = Len(buffer[b]) + 1
        /\ \A n \in DOMAIN buffer'[b] :
             \/ n \in DOMAIN buffer[b] /\ n <= Len(buffer[b]) /\ buffer'[b][n] = buffer[b][n]
             \/ n = Len(buffer[b]) + 1 /\ buffer'[b][n] = tm
    BY <2>3, <2>4
  <2>6. \A c \in 1..Buffer : \A n \in DOMAIN buffer'[c] :
           \/ n \in DOMAIN buffer[c] /\ buffer'[c][n] = buffer[c][n]
           \/ buffer'[c][n] = tm /\ c = b /\ n = Len(buffer[b]) + 1
    BY <2>4, <2>5
  <2>7. Shapes'
    <3>1. \A c \in 1..Buffer : Len(buffer'[c]) <= BufferSize
      BY <1>0, <1>2, <2>4, <2>5, TelemetryAssumption DEF Shapes
    <3> QED
      BY <1>0, <2>1, <2>4, <3>1 DEF Shapes
  <2>8. \A t : (Built(t)' <=> Built(t)) /\ (Sound(t)' <=> Sound(t))
    BY <1>0 DEF Sound, Built
  <2>9. OnTheWay'
    <3>1. \A q \in Producer : \A t : Holds(q, t)' => t.from = q /\ Sound(t)
      BY <1>0, <2>2 DEF OnTheWay
    <3>2. \A c \in 1..Buffer : \A n \in DOMAIN buffer'[c] :
            Sound(buffer'[c][n]) /\ Place(buffer'[c][n]) = c
      <4>1. \A c \in 1..Buffer : \A n \in DOMAIN buffer[c] :
              Sound(buffer[c][n]) /\ Place(buffer[c][n]) = c
        BY <1>0 DEF OnTheWay
      <4> QED
        BY <2>3, <2>6, <2>e, <4>1
    <3>3. Sending' => Sound(sender'.tm)
      BY <1>0 DEF OnTheWay, Sending
    <3>4. \A n \in DOMAIN downlink' :
            /\ Built(downlink'[n].tm) /\ downlink'[n].size = "its own"
            /\ downlink'[n].tm.order = "network" /\ downlink'[n].tm.crc = "network"
      BY <1>0 DEF OnTheWay
    <3> QED
      BY <2>8, <3>1, <3>2, <3>3, <3>4 DEF OnTheWay
  <2>10. /\ Sending => Precedes(sender.tm, tm)
         /\ \A m \in DOMAIN downlink : Precedes(downlink[m].tm, tm)
         /\ \A c \in 1..Buffer : \A n \in DOMAIN buffer[c] : Precedes(buffer[c][n], tm)
    BY <1>0, <2>3 DEF Ordered
  <2>11. \A q \in Producer : \A t : Holds(q, t)' => Precedes(tm, t)
    <3> SUFFICES ASSUME NEW q \in Producer, NEW t, Holds(q, t)'
                 PROVE  Precedes(tm, t)
      OBVIOUS
    <3>1. CASE q = p
      <4>1. t.kind # tm.kind
        BY <2>2, <3>1
      <4> QED
        BY <4>1 DEF Precedes
    <3>2. CASE q # p
      <4>1. t.from = q
        BY <1>0, <2>2 DEF OnTheWay
      <4> QED
        BY <2>3, <3>2, <4>1 DEF Precedes
    <3> QED
      BY <3>1, <3>2
  <2>12. Ordered'
    <3>1. \A c \in 1..Buffer : \A m, n \in DOMAIN buffer'[c] :
            m < n => Precedes(buffer'[c][m], buffer'[c][n])
      <4> SUFFICES ASSUME NEW c \in 1..Buffer, NEW m \in DOMAIN buffer'[c],
                          NEW n \in DOMAIN buffer'[c], m < n
                   PROVE  Precedes(buffer'[c][m], buffer'[c][n])
        OBVIOUS
      <4>1. \A i, j \in DOMAIN buffer[c] : i < j => Precedes(buffer[c][i], buffer[c][j])
        BY <1>0 DEF Ordered
      <4>2. CASE c # b
        BY <2>4, <4>1, <4>2
      <4>3. CASE c = b
        <5>1. m \in DOMAIN buffer[b] /\ buffer'[b][m] = buffer[b][m]
          BY <2>3, <2>4, <2>5, <4>3
        <5> QED
          BY <2>3, <2>5, <2>10, <4>1, <4>3, <5>1
      <4> QED
        BY <4>2, <4>3
    <3>2. \A c \in 1..Buffer : \A n \in DOMAIN buffer'[c] :
            /\ Sending => Precedes(sender.tm, buffer'[c][n])
            /\ \A m \in DOMAIN downlink : Precedes(downlink[m].tm, buffer'[c][n])
            /\ \A q \in Producer : \A t : Holds(q, t)' => Precedes(buffer'[c][n], t)
      <4>1. \A c \in 1..Buffer : \A n \in DOMAIN buffer[c] :
              /\ Sending => Precedes(sender.tm, buffer[c][n])
              /\ \A m \in DOMAIN downlink : Precedes(downlink[m].tm, buffer[c][n])
              /\ \A q \in Producer : \A t : Holds(q, t) => Precedes(buffer[c][n], t)
        BY <1>0 DEF Ordered
      <4> QED
        BY <2>2, <2>6, <2>10, <2>11, <4>1
    <3>3. \A q \in Producer : \A t : Holds(q, t)' =>
            /\ Sending => Precedes(sender.tm, t)
            /\ \A m \in DOMAIN downlink : Precedes(downlink[m].tm, t)
            /\ \A c \in 1..Buffer : \A n \in DOMAIN buffer'[c] :
                 Precedes(buffer'[c][n], t)
      BY <1>0, <2>2, <3>2 DEF Ordered
    <3>4. Sending' <=> Sending
      BY <1>0 DEF Sending
    <3>5. /\ \A m, n \in DOMAIN downlink : m < n => Precedes(downlink[m].tm, downlink[n].tm)
          /\ Sending => \A n \in DOMAIN downlink : Precedes(downlink[n].tm, sender.tm)
      BY <1>0 DEF Ordered
    <3> QED
      BY <1>0, <3>1, <3>2, <3>3, <3>4, <3>5 DEF Ordered
  <2>13. Counts'
    BY <1>0, <2>1, CountsStay DEF ProducerAt
  <2> QED
    BY <2>7, <2>9, <2>12, <2>13, <2>b DEF TelemetryInv
<1> QED
  BY <1>1, <1>2 DEF WriteTM

LEMMA KeepsSignal == ASSUME TelemetryInv, NEW p \in Producer, SignalSender(p) PROVE TelemetryInv'
<1>0. /\ Shapes /\ Hands /\ Counts /\ producer[p].pc = "signal" /\ ProducerDone(p)
      /\ UNCHANGED <<tm_counter, built, overlapped, buffer, sendVars>>
  BY DEF TelemetryInv, SignalSender, ProducerAt
<1>1. /\ Hands' /\ ~ ProducerAt(p, "count")' /\ producer' \in [Producer -> Task]
      /\ \A t : Holds(p, t)' => Holds(p, t)
      /\ \A q \in Producer \ {p} : producer'[q] = producer[q]
  BY <1>0, TaskDone
<1>2. tm_counter' \in Word
  BY <1>0 DEF Shapes
<1>3. Shapes' /\ OnTheWay' /\ Ordered'
  BY <1>0, <1>1, <1>2, KeepsTask
<1>4. Counts'
  BY <1>0, <1>1, CountsStay DEF ProducerAt
<1> QED
  BY <1>1, <1>3, <1>4 DEF TelemetryInv

(* The tasks, while the sender moves. *)
LEMMA HandsSame ==
    ASSUME Hands, producer' = producer
    PROVE  Hands' /\ \A p \in Producer : \A t : Holds(p, t)' <=> Holds(p, t)
<1>1. Hands'
  BY DEF Hands, ProducerAt, Building, Keeping
<1>2. ASSUME NEW p \in Producer, NEW t
      PROVE  Holds(p, t)' <=> Holds(p, t)
  BY DEF Holds, Building, Keeping
<1> QED
  BY <1>1, <1>2

(* The sender, while no TM is in its hands. *)
LEMMA KeepsQuiet ==
    ASSUME TelemetryInv, UNCHANGED prodVars, UNCHANGED <<buffer, downlink>>,
           sender' \in [pc : {"init", "wait", "read", "send"}, i : 0..Buffer, tm : TM],
           sender'.pc # "send", (sender'.i = 0) <=> (sender'.pc \in {"init", "wait"})
    PROVE  TelemetryInv'
<1>0. /\ Shapes /\ Hands /\ OnTheWay /\ Ordered /\ Counts
      /\ UNCHANGED <<tm_counter, producer, built, overlapped, buffer, downlink>>
  BY DEF TelemetryInv, prodVars
<1>1. \A t : (Built(t)' <=> Built(t)) /\ (Sound(t)' <=> Sound(t))
  BY <1>0 DEF Sound, Built
<1>2. ~ Sending'
  BY DEF Sending
<1>3. Hands' /\ \A p \in Producer : \A t : Holds(p, t)' <=> Holds(p, t)
  BY <1>0, HandsSame
<1>4. Shapes'
  BY <1>0 DEF Shapes
<1>a. Counts'
  BY <1>0 DEF Counts, ProducerAt
<1>5. OnTheWay'
  <2>1. \A p \in Producer : \A t : Holds(p, t)' => t.from = p /\ Sound(t)
    BY <1>0, <1>3 DEF OnTheWay
  <2>2. \A b \in 1..Buffer : \A n \in DOMAIN buffer'[b] :
          Sound(buffer'[b][n]) /\ Place(buffer'[b][n]) = b
    <3>1. \A b \in 1..Buffer : \A n \in DOMAIN buffer[b] :
            Sound(buffer[b][n]) /\ Place(buffer[b][n]) = b
      BY <1>0 DEF OnTheWay
    <3>2. buffer' = buffer
      BY <1>0
    <3> QED
      BY <3>1, <3>2
  <2>3. \A n \in DOMAIN downlink' :
          /\ Built(downlink'[n].tm) /\ downlink'[n].size = "its own"
          /\ downlink'[n].tm.order = "network" /\ downlink'[n].tm.crc = "network"
    BY <1>0 DEF OnTheWay
  <2>4. \A p \in Producer : \A t : Holds(p, t)' => t.from = p /\ Sound(t)'
    BY <1>0, <1>1, <2>1
  <2>5. \A b \in 1..Buffer : \A n \in DOMAIN buffer'[b] :
          Sound(buffer[b][n])' /\ Place(buffer'[b][n]) = b
    BY <1>0, <1>1, <2>2
  <2>6. \A n \in DOMAIN downlink' :
          /\ Built(downlink[n].tm)' /\ downlink'[n].size = "its own"
          /\ downlink'[n].tm.order = "network" /\ downlink'[n].tm.crc = "network"
    BY <1>0, <1>1, <2>3
  <2> QED
    BY <1>2, <2>4, <2>5, <2>6 DEF OnTheWay
<1>6. Ordered'
  <2>1. /\ \A m, n \in DOMAIN downlink : m < n => Precedes(downlink[m].tm, downlink[n].tm)
        /\ \A b \in 1..Buffer : \A m, n \in DOMAIN buffer[b] :
             m < n => Precedes(buffer[b][m], buffer[b][n])
        /\ \A b \in 1..Buffer : \A n \in DOMAIN buffer[b] :
             \A m \in DOMAIN downlink : Precedes(downlink[m].tm, buffer[b][n])
        /\ \A p \in Producer : \A t : Holds(p, t) =>
             /\ \A m \in DOMAIN downlink : Precedes(downlink[m].tm, t)
             /\ \A b \in 1..Buffer : \A n \in DOMAIN buffer[b] : Precedes(buffer[b][n], t)
    BY <1>0 DEF Ordered
  <2> QED
    BY <1>0, <1>2, <1>3, <2>1 DEF Ordered
<1> QED
  BY <1>3, <1>4, <1>5, <1>6, <1>a DEF TelemetryInv

LEMMA KeepsRead == ASSUME TelemetryInv, ReadTM PROVE TelemetryInv'
<1> DEFINE i == sender.i   tm == Head(buffer[i])
<1>0. /\ Shapes /\ Hands /\ OnTheWay /\ Ordered /\ Counts
      /\ UNCHANGED <<tm_counter, producer, built, overlapped, downlink>>
      /\ sender.pc = "read" /\ buffer[i] # <<>>
      /\ sender' = [sender EXCEPT !.pc = "send", !.tm = tm]
      /\ buffer' = [buffer EXCEPT ![i] = Tail(@)]
  BY DEF TelemetryInv, ReadTM, SenderAt, prodVars
<1>1. /\ i \in 1..Buffer /\ buffer \in [1..Buffer -> Seq(TM)]
      /\ sender \in [pc : {"init", "wait", "read", "send"}, i : 0..Buffer, tm : TM]
  BY <1>0, TelemetryAssumption DEF Shapes
<1>2. /\ tm \in TM /\ tm = buffer[i][1] /\ 1 \in DOMAIN buffer[i]
      /\ Tail(buffer[i]) \in Seq(TM) /\ Len(Tail(buffer[i])) <= Len(buffer[i])
      /\ \A n \in DOMAIN Tail(buffer[i]) :
           n + 1 \in DOMAIN buffer[i] /\ 1 < n + 1 /\ Tail(buffer[i])[n] = buffer[i][n + 1]
      /\ \A m, n \in DOMAIN Tail(buffer[i]) : m < n => m + 1 < n + 1
      /\ Len(buffer[i]) \in Nat /\ Len(Tail(buffer[i])) \in Nat
  BY <1>0, <1>1
<1> HIDE DEF i, tm
<1>3. /\ sender' \in [pc : {"init", "wait", "read", "send"}, i : 0..Buffer, tm : TM]
      /\ sender'.pc = "send" /\ sender'.i = i /\ sender'.tm = tm
  BY <1>0, <1>1, <1>2 DEF i
<1>4. /\ buffer' \in [1..Buffer -> Seq(TM)] /\ buffer'[i] = Tail(buffer[i])
      /\ \A c \in 1..Buffer : c # i => buffer'[c] = buffer[c]
  BY <1>0, <1>1, <1>2
<1>5. \A n \in DOMAIN buffer'[i] :
         n + 1 \in DOMAIN buffer[i] /\ 1 < n + 1 /\ buffer'[i][n] = buffer[i][n + 1]
  BY <1>2, <1>4
<1>6. \A c \in 1..Buffer : \A n \in DOMAIN buffer'[c] :
         \E k \in DOMAIN buffer[c] : buffer'[c][n] = buffer[c][k]
  <2> SUFFICES ASSUME NEW c \in 1..Buffer, NEW n \in DOMAIN buffer'[c]
               PROVE  \E k \in DOMAIN buffer[c] : buffer'[c][n] = buffer[c][k]
    OBVIOUS
  <2>1. CASE c = i
    BY <1>5, <2>1
  <2>2. CASE c # i
    BY <1>4, <2>2
  <2> QED
    BY <2>1, <2>2
<1>7. Shapes'
  <2>1. \A c \in 1..Buffer : Len(buffer'[c]) <= BufferSize
    <3>1. Len(buffer[i]) <= BufferSize /\ BufferSize \in Nat
      BY <1>0, <1>1, TelemetryAssumption DEF Shapes
    <3>2. Len(buffer'[i]) <= BufferSize
      BY <1>2, <1>4, <3>1
    <3> QED
      BY <1>0, <1>4, <3>2 DEF Shapes
  <2>2. i # 0
    BY <1>1
  <2> QED
    BY <1>0, <1>3, <1>4, <2>1, <2>2 DEF Shapes
<1>8. Counts'
  BY <1>0 DEF Counts, ProducerAt
<1>9. \A t : (Built(t)' <=> Built(t)) /\ (Sound(t)' <=> Sound(t))
  BY <1>0 DEF Sound, Built
<1>10. Hands' /\ \A p \in Producer : \A t : Holds(p, t)' <=> Holds(p, t)
  BY <1>0, HandsSame
<1>11. \A b \in 1..Buffer : \A n \in DOMAIN buffer[b] :
          Sound(buffer[b][n]) /\ Place(buffer[b][n]) = b
  BY <1>0 DEF OnTheWay
<1>12. OnTheWay'
  <2>1. \A p \in Producer : \A t : Holds(p, t) => t.from = p /\ Sound(t)
    BY <1>0 DEF OnTheWay
  <2>2. \A b \in 1..Buffer : \A n \in DOMAIN buffer'[b] :
          Sound(buffer'[b][n]) /\ Place(buffer'[b][n]) = b
    BY <1>6, <1>11
  <2>3. Sound(sender'.tm)
    BY <1>1, <1>2, <1>3, <1>11
  <2>4. \A n \in DOMAIN downlink :
          /\ Built(downlink[n].tm) /\ downlink[n].size = "its own"
          /\ downlink[n].tm.order = "network" /\ downlink[n].tm.crc = "network"
    BY <1>0 DEF OnTheWay
  <2> QED
    BY <1>0, <1>9, <1>10, <2>1, <2>2, <2>3, <2>4 DEF OnTheWay
<1>13. Ordered'
  <2>1. /\ \A m, n \in DOMAIN downlink : m < n => Precedes(downlink[m].tm, downlink[n].tm)
        /\ \A b \in 1..Buffer : \A m, n \in DOMAIN buffer[b] :
             m < n => Precedes(buffer[b][m], buffer[b][n])
        /\ \A b \in 1..Buffer : \A n \in DOMAIN buffer[b] :
             \A m \in DOMAIN downlink : Precedes(downlink[m].tm, buffer[b][n])
        /\ \A p \in Producer : \A t : Holds(p, t) =>
             /\ \A m \in DOMAIN downlink : Precedes(downlink[m].tm, t)
             /\ \A b \in 1..Buffer : \A n \in DOMAIN buffer[b] : Precedes(buffer[b][n], t)
    BY <1>0 DEF Ordered
  <2>2. \A b \in 1..Buffer : \A m, n \in DOMAIN buffer'[b] :
           m < n => Precedes(buffer'[b][m], buffer'[b][n])
    <3> SUFFICES ASSUME NEW b \in 1..Buffer, NEW m \in DOMAIN buffer'[b],
                        NEW n \in DOMAIN buffer'[b], m < n
                 PROVE  Precedes(buffer'[b][m], buffer'[b][n])
      OBVIOUS
    <3>1. CASE b = i
      <4>1. m + 1 < n + 1
        BY <1>2, <1>4, <3>1
      <4> QED
        BY <1>1, <1>5, <2>1, <3>1, <4>1
    <3>2. CASE b # i
      BY <1>4, <2>1, <3>2
    <3> QED
      BY <3>1, <3>2
  <2>3. \A b \in 1..Buffer : \A n \in DOMAIN buffer'[b] :
           /\ Precedes(tm, buffer'[b][n])
           /\ \A m \in DOMAIN downlink : Precedes(downlink[m].tm, buffer'[b][n])
           /\ \A p \in Producer : \A t : Holds(p, t) => Precedes(buffer'[b][n], t)
    <3> SUFFICES ASSUME NEW b \in 1..Buffer, NEW n \in DOMAIN buffer'[b]
                 PROVE  /\ Precedes(tm, buffer'[b][n])
                        /\ \A m \in DOMAIN downlink : Precedes(downlink[m].tm, buffer'[b][n])
                        /\ \A p \in Producer : \A t : Holds(p, t) => Precedes(buffer'[b][n], t)
      OBVIOUS
    <3>a. PICK k \in DOMAIN buffer[b] : buffer'[b][n] = buffer[b][k]
      BY <1>6
    <3>1. /\ \A m \in DOMAIN downlink : Precedes(downlink[m].tm, buffer'[b][n])
          /\ \A p \in Producer : \A t : Holds(p, t) => Precedes(buffer'[b][n], t)
      BY <2>1, <3>a
    <3>2. CASE b = i
      <4>1. Precedes(buffer[i][1], buffer[i][n + 1])
        BY <1>1, <1>2, <1>5, <2>1, <3>2
      <4> QED
        BY <1>2, <1>5, <3>1, <3>2, <4>1
    <3>3. CASE b # i
      <4>1. Place(tm) # Place(buffer'[b][n])
        BY <1>1, <1>2, <1>11, <3>3, <3>a
      <4> QED
        BY <3>1, <4>1 DEF Precedes, Place
    <3> QED
      BY <3>2, <3>3
  <2>4. /\ \A n \in DOMAIN downlink : Precedes(downlink[n].tm, tm)
        /\ \A p \in Producer : \A t : Holds(p, t) => Precedes(tm, t)
    BY <1>1, <1>2, <2>1
  <2> QED
    BY <1>0, <1>3, <1>10, <2>1, <2>2, <2>3, <2>4 DEF Ordered
<1> QED
  BY <1>7, <1>8, <1>10, <1>12, <1>13 DEF TelemetryInv

LEMMA Appended ==
    ASSUME NEW S, NEW d \in Seq(S), NEW e \in S
    PROVE  /\ Append(d, e) \in Seq(S) /\ Len(Append(d, e)) = Len(d) + 1
           /\ \A n \in 1..Len(d) : Append(d, e)[n] = d[n]
           /\ Append(d, e)[Len(d) + 1] = e
OBVIOUS

LEMMA KeepsSent ==
    ASSUME TelemetryInv, SenderAt("send"), Sent, UNCHANGED <<prodVars, buffer>>
    PROVE  TelemetryInv'
<1> DEFINE tm == sender.tm
<1>a. PICK down : down = [tm |-> FormatTM(tm), size |-> SizeToSend(tm)]
  OBVIOUS
<1>0. /\ Shapes /\ Hands /\ OnTheWay /\ Ordered /\ Counts /\ Sending
      /\ UNCHANGED <<tm_counter, producer, built, overlapped, buffer>>
      /\ sender.pc = "send" /\ downlink' = Append(downlink, down)
      /\ sender' = [sender EXCEPT !.pc = "read", !.tm = FormatTM(tm)]
      /\ sender \in [pc : {"init", "wait", "read", "send"}, i : 0..Buffer, tm : TM]
  BY <1>a DEF TelemetryInv, Shapes, Sent, SenderAt, Sending, prodVars
<1>1. tm \in TM /\ Sound(tm) /\ sender.i # 0
  BY <1>0 DEF OnTheWay, Shapes
<1>2. /\ FormatTM(tm) \in TM /\ FormatTM(tm).id = tm.id /\ FormatTM(tm).from = tm.from
      /\ FormatTM(tm).sequence = tm.sequence /\ FormatTM(tm).order = "network"
      /\ FormatTM(tm).kind = tm.kind
      /\ FormatTM(tm).crc = "network" /\ SizeToSend(tm) = "its own"
  BY <1>1, Formatted DEF Sound
<1>3. /\ down \in Down /\ down.tm.id = tm.id /\ down.tm.from = tm.from /\ down.tm.kind = tm.kind
      /\ down.size = "its own" /\ down.tm.order = "network" /\ down.tm.crc = "network"
  BY <1>2, <1>a DEF Down
<1>4. Built(down.tm)
  BY <1>1, <1>2, <1>a DEF Sound, Built, Numbered, Count
<1>5. /\ sender' \in [pc : {"init", "wait", "read", "send"}, i : 0..Buffer, tm : TM]
      /\ sender'.pc = "read" /\ sender'.i = sender.i
  BY <1>0, <1>2
<1>6. /\ downlink \in Seq(Down) /\ downlink' \in Seq(Down) /\ Len(downlink) \in Nat
      /\ \A n \in DOMAIN downlink' :
           \/ n \in DOMAIN downlink /\ n <= Len(downlink) /\ downlink'[n] = downlink[n]
           \/ n = Len(downlink) + 1 /\ downlink'[n] = down
  <2>1. downlink \in Seq(Down) /\ Len(downlink) \in Nat
    BY <1>0 DEF Shapes
  <2>2. /\ Append(downlink, down) \in Seq(Down)
        /\ Len(Append(downlink, down)) = Len(downlink) + 1
        /\ \A n \in 1..Len(downlink) : Append(downlink, down)[n] = downlink[n]
        /\ Append(downlink, down)[Len(downlink) + 1] = down
    <3>1. down \in Down
      BY <1>3
    <3> QED
      BY <2>1, <3>1, Appended
  <2>3. DOMAIN downlink = 1..Len(downlink) /\ DOMAIN downlink' = 1..(Len(downlink) + 1)
    BY <1>0, <2>1, <2>2
  <2> QED
    BY <1>0, <2>1, <2>2, <2>3
<1> HIDE DEF tm
<1>7. Shapes'
  BY <1>0, <1>1, <1>5, <1>6 DEF Shapes
<1>8. Counts'
  BY <1>0 DEF Counts, ProducerAt
<1>9. \A t : (Built(t)' <=> Built(t)) /\ (Sound(t)' <=> Sound(t))
  BY <1>0 DEF Sound, Built
<1>10. /\ ~ Sending' /\ Hands'
       /\ \A p \in Producer : \A t : Holds(p, t)' <=> Holds(p, t)
  BY <1>0, <1>5, HandsSame DEF Sending
<1>11. OnTheWay'
  <2>1. \A p \in Producer : \A t : Holds(p, t)' => t.from = p /\ Sound(t)'
    BY <1>0, <1>9, <1>10 DEF OnTheWay
  <2>2. \A b \in 1..Buffer : \A n \in DOMAIN buffer'[b] :
          Sound(buffer[b][n])' /\ Place(buffer'[b][n]) = b
    <3>1. \A b \in 1..Buffer : \A n \in DOMAIN buffer[b] :
            Sound(buffer[b][n]) /\ Place(buffer[b][n]) = b
      BY <1>0 DEF OnTheWay
    <3> QED
      BY <1>0, <1>9, <3>1
  <2>3. \A n \in DOMAIN downlink :
          /\ Built(downlink[n].tm) /\ downlink[n].size = "its own"
          /\ downlink[n].tm.order = "network" /\ downlink[n].tm.crc = "network"
    BY <1>0 DEF OnTheWay
  <2>4. \A n \in DOMAIN downlink' :
          /\ Built(downlink'[n].tm) /\ downlink'[n].size = "its own"
          /\ downlink'[n].tm.order = "network" /\ downlink'[n].tm.crc = "network"
    BY <1>3, <1>4, <1>6, <2>3
  <2>5. \A n \in DOMAIN downlink' :
          /\ Built(downlink[n].tm)' /\ downlink'[n].size = "its own"
          /\ downlink'[n].tm.order = "network" /\ downlink'[n].tm.crc = "network"
    BY <1>9, <2>4
  <2> QED
    BY <1>10, <2>1, <2>2, <2>5 DEF OnTheWay
<1>12. Ordered'
  <2>1. /\ \A m, n \in DOMAIN downlink : m < n => Precedes(downlink[m].tm, downlink[n].tm)
        /\ \A n \in DOMAIN downlink : Precedes(downlink[n].tm, tm)
        /\ \A b \in 1..Buffer : \A m, n \in DOMAIN buffer[b] :
             m < n => Precedes(buffer[b][m], buffer[b][n])
        /\ \A b \in 1..Buffer : \A n \in DOMAIN buffer[b] :
             /\ Precedes(tm, buffer[b][n])
             /\ \A m \in DOMAIN downlink : Precedes(downlink[m].tm, buffer[b][n])
        /\ \A p \in Producer : \A t : Holds(p, t) =>
             /\ Precedes(tm, t)
             /\ \A m \in DOMAIN downlink : Precedes(downlink[m].tm, t)
             /\ \A b \in 1..Buffer : \A n \in DOMAIN buffer[b] : Precedes(buffer[b][n], t)
    BY <1>0 DEF Ordered, tm
  <2>2. \A t : /\ Precedes(tm, t) <=> Precedes(down.tm, t)
               /\ Precedes(t, tm) <=> Precedes(t, down.tm)
    BY <1>3 DEF Precedes
  <2>3. \A m, n \in DOMAIN downlink' : m < n => Precedes(downlink'[m].tm, downlink'[n].tm)
    <3> SUFFICES ASSUME NEW m \in DOMAIN downlink', NEW n \in DOMAIN downlink', m < n
                 PROVE  Precedes(downlink'[m].tm, downlink'[n].tm)
      OBVIOUS
    <3>1. n <= Len(downlink) + 1 /\ m \in Nat /\ n \in Nat
      BY <1>6
    <3>2. m \in DOMAIN downlink /\ downlink'[m] = downlink[m]
      BY <1>6, <3>1
    <3> QED
      BY <1>6, <2>1, <2>2, <3>2
  <2>4. \A b \in 1..Buffer : \A n \in DOMAIN buffer[b] :
           \A m \in DOMAIN downlink' : Precedes(downlink'[m].tm, buffer[b][n])
    BY <1>6, <2>1, <2>2
  <2>5. \A p \in Producer : \A t : Holds(p, t) =>
           \A m \in DOMAIN downlink' : Precedes(downlink'[m].tm, t)
    BY <1>6, <2>1, <2>2
  <2> QED
    BY <1>0, <1>10, <2>1, <2>3, <2>4, <2>5 DEF Ordered
<1> QED
  BY <1>7, <1>8, <1>10, <1>11, <1>12 DEF TelemetryInv

(* Nothing moves. *)
LEMMA KeepsStill ==
    ASSUME TelemetryInv,
           UNCHANGED <<tm_counter, producer, built, overlapped, buffer, sender, downlink>>
    PROVE  TelemetryInv'
<1>1. /\ \A t : (Built(t)' <=> Built(t)) /\ (Sound(t)' <=> Sound(t))
      /\ Hands' /\ \A p \in Producer : \A t : Holds(p, t)' <=> Holds(p, t)
      /\ Sending' <=> Sending
  BY HandsSame DEF TelemetryInv, Sound, Built, Sending
<1>2. Shapes' /\ Counts'
  BY DEF TelemetryInv, Shapes, Counts, ProducerAt
<1>3. OnTheWay'
  <2>1. \A b \in 1..Buffer : \A n \in DOMAIN buffer'[b] :
          Sound(buffer[b][n])' /\ Place(buffer'[b][n]) = b
    <3>1. \A b \in 1..Buffer : \A n \in DOMAIN buffer[b] :
            Sound(buffer[b][n]) /\ Place(buffer[b][n]) = b
      BY DEF TelemetryInv, OnTheWay
    <3> QED
      BY <1>1, <3>1
  <2>2. \A p \in Producer : \A t : Holds(p, t)' => t.from = p /\ Sound(t)'
    BY <1>1 DEF TelemetryInv, OnTheWay
  <2>3. Sending' => Sound(sender.tm)'
    BY <1>1 DEF TelemetryInv, OnTheWay
  <2>4. \A n \in DOMAIN downlink' :
          /\ Built(downlink[n].tm)' /\ downlink'[n].size = "its own"
          /\ downlink'[n].tm.order = "network" /\ downlink'[n].tm.crc = "network"
    BY <1>1 DEF TelemetryInv, OnTheWay
  <2> QED
    BY <2>1, <2>2, <2>3, <2>4 DEF OnTheWay
<1>4. Ordered'
  BY <1>1 DEF TelemetryInv, Ordered
<1> QED
  BY <1>1, <1>2, <1>3, <1>4 DEF TelemetryInv

LEMMA SenderMoves ==
    ASSUME Shapes, NEW pc \in {"wait", "read"}, NEW i \in 0..Buffer, SenderGoes(pc, i)
    PROVE  /\ sender' \in [pc : {"init", "wait", "read", "send"}, i : 0..Buffer, tm : TM]
           /\ sender'.pc = pc /\ sender'.i = i
BY DEF Shapes, SenderGoes

LEMMA TelemetryStep == TelemetryInv /\ [Next]_vars => TelemetryInv'
<1> SUFFICES ASSUME TelemetryInv, [Next]_vars
             PROVE  TelemetryInv'
  OBVIOUS
<1> DEFINE Shape == [pc : {"init", "wait", "read", "send"}, i : 0..Buffer, tm : TM]
<1>0. sender \in Shape /\ Buffer \in Nat \ {0}
      /\ ((sender.i = 0) <=> (sender.pc \in {"init", "wait"}))
  BY TelemetryAssumption DEF TelemetryInv, Shapes
<1>1. CASE InitTMSendContext \/ SendTM \/ BufferEmpty \/ ReadFails
  <2>1. UNCHANGED prodVars /\ UNCHANGED <<buffer, downlink>> /\ sender.pc # "send"
    BY <1>1 DEF InitTMSendContext, SendTM, BufferEmpty, ReadFails, SenderAt
  <2>2. CASE sender' = sender
    BY <1>0, <2>1, <2>2, KeepsQuiet
  <2>3. CASE sender' # sender
    <3>1. \/ SenderGoes("wait", 0)
          \/ sender.i < Buffer /\ SenderGoes("read", sender.i + 1)
          \/ SenderGoes("read", 1)
      BY <1>1, <2>3 DEF InitTMSendContext, SendTM, BufferEmpty, ReadFails, NothingRead, NextBuffer
    <3>2. \E pc \in {"wait", "read"}, i \in 0..Buffer :
             SenderGoes(pc, i) /\ ((i = 0) <=> (pc = "wait"))
      BY <1>0, <3>1
    <3> QED
      BY <2>1, <3>2, SenderMoves, KeepsQuiet DEF TelemetryInv
  <2> QED
    BY <2>2, <2>3
<1>2. CASE SendOnLink
  <2>1. UNCHANGED prodVars /\ UNCHANGED buffer /\ SenderAt("send") /\ sender.pc = "send"
    BY <1>2 DEF SendOnLink, SenderAt
  <2>2. FormatTM(sender.tm) \in TM
    BY <1>0, Formatted
  <2>3. CASE LinkError \/ LinkNotAvailable
    <3>1. UNCHANGED downlink
      BY <2>3 DEF LinkError, LinkNotAvailable
    <3>2. CASE LinkError
      <4>a. PICK i \in 0..Buffer : i = 0
        BY <1>0
      <4>1. sender' = [sender EXCEPT !.pc = "wait", !.i = i, !.tm = FormatTM(@)]
        BY <3>2, <4>a DEF LinkError
      <4>2. sender'.pc = "wait" /\ sender'.i = 0
        BY <1>0, <4>1, <4>a
      <4>3. sender' \in Shape
        BY <1>0, <2>2, <4>1
      <4> QED
        BY <2>1, <3>1, <4>2, <4>3, KeepsQuiet
    <3>3. CASE LinkNotAvailable
      <4>1. PICK pc \in {"wait", "read"}, i \in 0..Buffer :
               /\ pc = IF sender.i < Buffer THEN "read" ELSE "wait"
               /\ i = IF sender.i < Buffer THEN sender.i + 1 ELSE 0
        BY <1>0
      <4>2. sender' = [sender EXCEPT !.pc = pc, !.i = i, !.tm = FormatTM(@)]
        BY <3>3, <4>1 DEF LinkNotAvailable
      <4>3. sender'.pc = pc /\ sender'.i = i
        BY <1>0, <4>2
      <4>4. sender' \in Shape
        BY <1>0, <2>2, <4>2
      <4>5. (i = 0) <=> (pc = "wait")
        BY <1>0, <4>1
      <4> QED
        BY <2>1, <3>1, <4>3, <4>4, <4>5, KeepsQuiet
    <3> QED
      BY <2>3, <3>2, <3>3
  <2> QED
    BY <1>2, <2>1, <2>3, KeepsSent DEF SendOnLink
<1>3. CASE UNCHANGED vars
  <2>1. /\ UNCHANGED prodVars /\ UNCHANGED <<buffer, sender, downlink>>
    BY <1>3 DEF vars, sendVars
  <2>2. CASE sender.pc # "send"
    BY <1>0, <2>1, <2>2, KeepsQuiet
  <2>3. CASE sender.pc = "send"
    <3>1. UNCHANGED <<tm_counter, producer, built, overlapped, buffer, sender, downlink>>
      BY <2>1 DEF prodVars
    <3> QED
      BY <3>1, KeepsStill
  <2> QED
    BY <2>2, <2>3
<1> QED
  BY <1>1, <1>2, <1>3, KeepsRead, KeepsBuild, KeepsCount, KeepsWrite, KeepsSignal
     DEF Next, Sender, Produce

LEMMA TelemetryInvariant == Spec => []TelemetryInv
BY TelemetryStart, TelemetryStep, PTL DEF Spec

-----------------------------------------------------------------------------

(* The counter and the fields keep their 16 bits, the indices stay in the  *)
(* table of buffers (TelemetryTypeOK).                                     *)
THEOREM TypeCorrect == Spec => []TelemetryTypeOK
<1>1. TelemetryInv => TelemetryTypeOK
  <2> SUFFICES ASSUME TelemetryInv
               PROVE  TelemetryTypeOK
    OBVIOUS
  <2>1. \A p \in Producer : /\ producer[p].pc \in {"idle", "count", "built", "write", "signal"}
                           /\ producer[p].tm.sequence \in Word
    BY DEF TelemetryInv, Shapes, Task, TM
  <2> QED
    BY <2>1 DEF TelemetryInv, Shapes, TelemetryTypeOK, Word
<1> QED
  BY <1>1, TelemetryInvariant, PTL

(* The TMs of one kind that a task built arrive in their order and once,   *)
(* whatever the buffers and the link drop (OrderKept).                     *)
THEOREM OrderKeptHolds == Spec => []OrderKept
<1>1. TelemetryInv => OrderKept
  BY DEF TelemetryInv, Ordered, Precedes, OrderKept
<1> QED
  BY <1>1, TelemetryInvariant, PTL

(* Without overlapping calls of BuildTM the counts are consecutive, for    *)
(* every width of the count and through the carry into the flags           *)
(* (NumbersConsecutive).                                                   *)
THEOREM NumbersConsecutiveHolds == Spec => []NumbersConsecutive
<1>1. TelemetryInv => NumbersConsecutive
  BY DEF TelemetryInv, OnTheWay, Built, Numbered, NumbersConsecutive
<1> QED
  BY <1>1, TelemetryInvariant, PTL

(* Whatever its context was used for before, a TM leaves well formed       *)
(* (WellFormed).                                                           *)
THEOREM WellFormedHolds == Spec => []WellFormed
<1>1. TelemetryInv => WellFormed
  BY DEF TelemetryInv, OnTheWay, WellFormed
<1> QED
  BY <1>1, TelemetryInvariant, PTL
=============================================================================
