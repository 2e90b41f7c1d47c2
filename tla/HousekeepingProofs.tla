-------------------------- MODULE HousekeepingProofs --------------------------
(***************************************************************************)
(* The reports of housekeeping for every table, every set of requests and  *)
(* every length of the cycle: a report is never late and is emitted only   *)
(* if it was asked for.  The second half shows that a request leads to the *)
(* table that it asks for.                                                 *)
(***************************************************************************)
EXTENDS Housekeeping, SequenceTheorems, WellFoundedInduction, TLAPS

USE HousekeepingAssumption

-----------------------------------------------------------------------------
(* The remainder, counted up one by one. *)

LEMMA RemainderRange ==
    ASSUME NEW c \in Nat, NEW r \in Nat \ {0}
    PROVE  (c % r) \in 0 .. (r - 1)
OBVIOUS

LEMMA Division ==
    ASSUME NEW c \in Nat, NEW r \in Nat \ {0}
    PROVE  c = r * (c \div r) + (c % r) /\ c \div r \in Nat
OBVIOUS

LEMMA RemainderOf ==
    ASSUME NEW q \in Nat, NEW r \in Nat \ {0}, NEW k \in 0 .. (r - 1)
    PROVE  (r * q + k) % r = k
OBVIOUS

LEMMA NextRemainder ==
    ASSUME NEW c \in Nat, NEW r \in Nat \ {0}
    PROVE  (c + 1) % r = 0 \/ (c + 1) % r = (c % r) + 1
<1> DEFINE q == c \div r
           m == c % r
<1>1. m \in 0 .. (r - 1) /\ c = r * q + m /\ q \in Nat
  BY Division
<1> HIDE DEF q, m
<1>2. CASE m + 1 < r
  <2>1. c + 1 = r * q + (m + 1) /\ m + 1 \in 0 .. (r - 1)
    BY <1>1, <1>2
  <2>2. (r * q + (m + 1)) % r = m + 1
    BY <1>1, <2>1, RemainderOf
  <2> QED
    BY <2>1, <2>2 DEF m
<1>3. CASE m + 1 = r
  <2>1. c + 1 = r * (q + 1) + 0 /\ q + 1 \in Nat /\ 0 \in 0 .. (r - 1)
    BY <1>1, <1>3
  <2>2. (r * (q + 1) + 0) % r = 0
    BY <2>1, RemainderOf
  <2> QED
    BY <2>1, <2>2
<1> QED
  BY <1>1, <1>2, <1>3

-----------------------------------------------------------------------------
(* The inductive invariant. *)

Pc == {"idle", "rate", "status", "write", "signal", "end"}

Types ==
    /\ hk_table \in Seq(HKParam)
    /\ status \in {"PUS_NOT_INITIALIZED", "PUS_INITIALIZED"}
    /\ cycle \in 0 .. (CycleModulus - 1)
    /\ emitter \in [pc : Pc, i : Nat, failed : BOOLEAN]
    /\ age \in [Line(hk_table) -> Int]
    /\ seen \in [enabled : SUBSET Line(hk_table), due : SUBSET Line(hk_table)]

(* Where EmitHKs may be. *)
Position ==
    /\ emitter.pc = "idle" => emitter.i = 0
    /\ emitter.pc = "rate" => emitter.i \in 1 .. (Len(hk_table) + 1)
    /\ emitter.pc \in {"status", "write", "signal", "end"}
         => emitter.i \in Line(hk_table)
    /\ emitter.failed <=> emitter.pc = "end"

(* The service runs on a table that was checked. *)
Initialised ==
    /\ status = "PUS_INITIALIZED" => \A l \in Line(hk_table) : EntryUsable(l)
    /\ status # "PUS_INITIALIZED" =>
         emitter.pc = "idle" /\ \A l \in Line(hk_table) : age[l] = 0

(* A line is younger than its place in its period: when it is due again,   *)
(* its age is still below its rate.                                        *)
YoungAt(a, c, r) == a < r /\ (c % r = 0 \/ a < c % r)

AllYoung ==
    /\ \A l \in Line(hk_table) : age[l] >= -1
    /\ status = "PUS_INITIALIZED" => \A l \in Line(hk_table) :
         YoungAt(age[l], cycle, hk_table[l].collection_rate)

(* The lines the call has passed need no report, or had one. *)
Served(l) == age[l] = -1 \/ ~ Due(l) \/ ~ Enabled(l)

ServedSoFar ==
    /\ Calling => \A l \in Line(hk_table) : l < emitter.i => Served(l)
    /\ emitter.pc = "signal" => age[emitter.i] = -1

Witnessed ==
    /\ Calling => \A l \in Line(hk_table) : /\ Enabled(l) => l \in seen.enabled
                                            /\ Due(l) => l \in seen.due
    /\ emitter.pc \in {"status", "write"} => emitter.i \in seen.due
    /\ emitter.pc = "write" => emitter.i \in seen.enabled

EmitterInv == Types /\ Position /\ Initialised /\ AllYoung /\ ServedSoFar /\ Witnessed

(* What the handlers hold while they run. *)
HandlerRequest == TC3 \union {NoRequest}
HandlerError   == {"NO_ERROR", "UNEXPECTED_DATA", "UNAVAILABLE"}

Handler == [pc : {"idle", "item", "all", "answer"}, request : HandlerRequest,
            i : Nat, k : Nat, report : Seq(HKParam),
            error : HandlerError]

Handling ==
    /\ executor \in Handler
    /\ executor.pc \in {"item", "all"} =>
         /\ status = "PUS_INITIALIZED"
         /\ executor.request \in TC3
         /\ executor.i # 0
    /\ executor.pc = "all" => /\ executor.k # 0
                              /\ executor.request.subservice \in {5, 6}
                              /\ executor.i <= Len(executor.request.items)

HousekeepingInv == EmitterInv /\ Handling

-----------------------------------------------------------------------------
(* One call later a line that needed no report is still young, whether the *)
(* cycle goes on or wraps.                                                 *)
LEMMA StillYoung ==
    ASSUME NEW c \in 0 .. (CycleModulus - 1), NEW r \in Nat \ {0}, NEW a \in Int,
           YoungAt(a, c, r), c % r # 0
    PROVE  YoungAt(a + 1, (c + 1) % CycleModulus, r)
<1>1. (c % r) \in 0 .. (r - 1) /\ a < (c % r)
  BY RemainderRange DEF YoungAt
<1>2. a + 1 < r
  BY <1>1
<1>3. CASE c + 1 = CycleModulus
  <2>1. (c + 1) % CycleModulus = 0 /\ 0 % r = 0
    BY <1>3, RemainderOf
  <2> QED
    BY <1>2, <2>1 DEF YoungAt
<1>4. CASE c + 1 < CycleModulus
  <2>1. (c + 1) % CycleModulus = c + 1
    BY <1>4
  <2>2. (c + 1) % r = 0 \/ (c + 1) % r = (c % r) + 1
    BY NextRemainder
  <2> QED
    BY <1>1, <1>2, <2>1, <2>2 DEF YoungAt
<1> QED
  BY <1>3, <1>4

(* A line that was just reported or changed is young, at any cycle. *)
LEMMA NewIsYoung ==
    ASSUME NEW c \in Nat, NEW r \in Nat \ {0}, NEW a \in {-1, 0}
    PROVE  YoungAt(a, c, r)
BY RemainderRange DEF YoungAt

LEMMA LineTyped ==
    ASSUME Types, NEW l \in Line(hk_table)
    PROVE  /\ hk_table[l] \in HKParam
           /\ hk_table[l].hkid \in Nat /\ hk_table[l].collection_rate \in Nat
           /\ Len(hk_table) \in Nat /\ l \in 1 .. Len(hk_table)
<1>1. hk_table[l] \in HKParam /\ Len(hk_table) \in Nat
  BY DEF Types, Line
<1> QED
  BY <1>1 DEF HKParam, Line

LEMMA IdleTyped == Idle \in Handler
<1>1. NoRequest \in HandlerRequest /\ <<>> \in Seq(HKParam) /\ "NO_ERROR" \in HandlerError
  BY DEF HandlerRequest, HandlerError
<1> QED
  BY <1>1 DEF Idle, Handler

LEMMA InitInv == Init => HousekeepingInv
<1> SUFFICES ASSUME Init PROVE HousekeepingInv
  OBVIOUS
<1> USE DEF Init
<1>1. Types
  BY DEF Types, Pc, Line, Nothing
<1>2. Position /\ Initialised /\ AllYoung
  BY DEF Position, Initialised, AllYoung
<1>3. ServedSoFar /\ Witnessed
  BY DEF ServedSoFar, Witnessed, Calling
<1>4. Handling
  BY IdleTyped DEF Handling, Idle
<1> QED
  BY <1>1, <1>2, <1>3, <1>4 DEF HousekeepingInv, EmitterInv

LEMMA InitS3Keeps ==
    ASSUME HousekeepingInv, InitS3
    PROVE  HousekeepingInv'
<1> USE DEF HousekeepingInv, EmitterInv
<1>1. /\ status' = "PUS_INITIALIZED" /\ cycle' = 0
      /\ status # "PUS_INITIALIZED" /\ emitter.pc = "idle"
      /\ executor.pc = "idle"
      /\ \A l \in Line(hk_table) : EntryUsable(l)
      /\ UNCHANGED <<hk_table, emitter, executor, age, seen>>
  BY DEF InitS3
<1>2. Types'
  BY <1>1 DEF Types
<1>3. Position' /\ Initialised'
  BY <1>1 DEF Position, Initialised, EntryUsable, Line
<1>4. AllYoung'
  <2>1. SUFFICES ASSUME NEW l \in Line(hk_table)
                 PROVE  YoungAt(age[l], 0, hk_table[l].collection_rate)
    BY <1>1 DEF AllYoung, Line
  <2>2. hk_table[l].collection_rate \in Nat \ {0} /\ age[l] = 0
    BY <1>1, LineTyped DEF EntryUsable, Initialised
  <2> QED
    BY <2>2, NewIsYoung
<1>5. ServedSoFar' /\ Witnessed' /\ Handling'
  BY <1>1 DEF ServedSoFar, Witnessed, Handling, Calling
<1> QED
  BY <1>2, <1>3, <1>4, <1>5

-----------------------------------------------------------------------------
(* The emitter. *)

LEMMA EmitHKsKeeps ==
    ASSUME HousekeepingInv, EmitHKs
    PROVE  HousekeepingInv'
<1> USE DEF HousekeepingInv, EmitterInv
<1>1. /\ emitter' = [emitter EXCEPT !.pc = "rate", !.i = 1]
      /\ emitter.pc = "idle" /\ status = "PUS_INITIALIZED"
      /\ seen' = [enabled |-> {l \in Line(hk_table) : Enabled(l)},
                  due |-> {l \in Line(hk_table) : Due(l)}]
      /\ UNCHANGED <<status, cycle, hk_table, executor, age>>
  BY DEF EmitHKs, EmitterAt, EmitterGoes
<1>2. emitter'.pc = "rate" /\ emitter'.i = 1 /\ emitter'.failed = emitter.failed
  BY <1>1 DEF Types
<1>3. Types'
  BY <1>1, <1>2 DEF Types, Pc, Line
<1>4. Position'
  BY <1>1, <1>2 DEF Position, Types, Line
<1>5. Initialised' /\ AllYoung' /\ Handling'
  BY <1>1 DEF Initialised, AllYoung, Handling, EntryUsable, Line
<1>6. ServedSoFar'
  BY <1>1, <1>2 DEF ServedSoFar, Line
<1>7. Witnessed'
  BY <1>1, <1>2 DEF Witnessed, Line, Enabled, Due
<1> QED
  BY <1>3, <1>4, <1>5, <1>6, <1>7

(* The steps of the loop leave everything but the emitter and the age of   *)
(* the line it is at.                                                      *)
LEMMA LoopKeeps ==
    ASSUME HousekeepingInv, ReadRate \/ ReadStatus \/ SignalSender \/ WriteTM
    PROVE  HousekeepingInv'
<1> USE DEF HousekeepingInv, EmitterInv
<1>1. /\ emitter.pc \in {"rate", "status", "write", "signal"}
      /\ emitter.i \in Line(hk_table) /\ Calling /\ status = "PUS_INITIALIZED"
      /\ UNCHANGED <<status, cycle, hk_table, executor, seen>>
  BY DEF ReadRate, ReadStatus, SignalSender, WriteTM, EmitterAt, EmitterIdle,
         Position, Calling, Initialised
<1>0. emitter \in [pc : Pc, i : Nat, failed : BOOLEAN]
  BY DEF Types
<1>2. \/ /\ emitter' = [emitter EXCEPT !.pc = "rate", !.i = emitter.i + 1]
         /\ Served(emitter.i) /\ UNCHANGED age
      \/ /\ emitter' = [emitter EXCEPT !.pc = "status", !.i = emitter.i]
         /\ Due(emitter.i) /\ UNCHANGED age
      \/ /\ emitter' = [emitter EXCEPT !.pc = "write", !.i = emitter.i]
         /\ emitter.pc = "status" /\ Enabled(emitter.i) /\ UNCHANGED age
      \/ /\ emitter' = [emitter EXCEPT !.pc = "signal", !.i = emitter.i]
         /\ age' = [age EXCEPT ![emitter.i] = -1]
      \/ /\ emitter' = [emitter EXCEPT !.pc = "end", !.failed = TRUE]
         /\ UNCHANGED age
  BY DEF ReadRate, ReadStatus, SignalSender, WriteTM, EmitterAt, EmitterGoes,
         NextLine, EmitterFails, Served, ServedSoFar, ToReport
<1>3. Types' /\ emitter'.pc \in {"rate", "status", "write", "signal", "end"}
  <2>1. emitter.i + 1 \in Nat /\ emitter.i \in Nat /\ emitter.failed \in BOOLEAN
    BY DEF Types
  <2>2. emitter' \in [pc : Pc, i : Nat, failed : BOOLEAN]
        /\ emitter'.pc \in {"rate", "status", "write", "signal", "end"}
    BY <1>2, <2>1 DEF Types, Pc
  <2>3. age' \in [Line(hk_table) -> Int]
    BY <1>2 DEF Types
  <2> QED
    BY <1>1, <2>2, <2>3 DEF Types, Line
<1>4. Position'
  <2>1. Len(hk_table) \in Nat /\ emitter.i \in 1 .. Len(hk_table)
        /\ emitter.failed = FALSE
    BY <1>1, LineTyped DEF Types, Position
  <2>2. \/ emitter'.pc = "rate" /\ emitter'.i = emitter.i + 1
        \/ emitter'.pc \in {"status", "write", "signal", "end"} /\ emitter'.i = emitter.i
    BY <1>0, <1>2
  <2>3. emitter'.failed <=> emitter'.pc = "end"
    BY <1>0, <1>2, <2>1
  <2> QED
    BY <1>1, <2>1, <2>2, <2>3 DEF Position, Line
<1>5. Initialised' /\ Handling'
  BY <1>1 DEF Initialised, Handling, EntryUsable, Line
<1>6. AllYoung'
  <2>1. \A l \in Line(hk_table) : age'[l] = age[l] \/ age'[l] = -1
    BY <1>1, <1>2 DEF Types
  <2>2. \A l \in Line(hk_table) : hk_table[l].collection_rate \in Nat \ {0}
    BY <1>1, LineTyped DEF Initialised, EntryUsable
  <2>3. \A l \in Line(hk_table) : YoungAt(-1, cycle, hk_table[l].collection_rate)
    BY <2>2, NewIsYoung DEF Types
  <2> QED
    BY <1>1, <2>1, <2>3 DEF AllYoung, Line
<1>7. ServedSoFar'
  <2>1. \A l \in Line(hk_table) : Served(l) => Served(l)'
    BY <1>1, <1>2 DEF Types, Served, Due, Enabled
  <2>2. \A l \in Line(hk_table) : l < emitter.i => Served(l)
    BY <1>1 DEF ServedSoFar
  <2>3. emitter'.i \in {emitter.i, emitter.i + 1}
        /\ (emitter'.i = emitter.i + 1 => Served(emitter.i))
    <3>1. \/ emitter'.i = emitter.i + 1 /\ Served(emitter.i)
          \/ emitter'.i = emitter.i
      BY <1>0, <1>2, Zenon
    <3>2. emitter.i # emitter.i + 1
      BY <1>0
    <3> QED
      BY <3>1, <3>2
  <2>4. emitter'.pc = "signal" => age'[emitter'.i] = -1
    BY <1>1, <1>2 DEF Types
  <2>5. \A l \in Line(hk_table) : l < emitter'.i => l < emitter.i \/ l = emitter.i
    BY <1>1, <2>3 DEF Types, Line
  <2> QED
    BY <1>1, <2>1, <2>2, <2>3, <2>4, <2>5 DEF ServedSoFar, Line
<1>8. Witnessed'
  BY <1>1, <1>2 DEF Witnessed, Types, Line, Enabled, Due, Calling
<1> QED
  BY <1>3, <1>4, <1>5, <1>6, <1>7, <1>8

LEMMA EndCycleKeeps ==
    ASSUME HousekeepingInv, EndCycle
    PROVE  HousekeepingInv'
<1> USE DEF HousekeepingInv, EmitterInv
<1>1. /\ emitter' = [pc |-> "idle", i |-> 0, failed |-> FALSE]
      /\ cycle' = (cycle + 1) % CycleModulus
      /\ age' = [l \in Line(hk_table) |-> Older(l)]
      /\ seen' = Nothing /\ Calling /\ status = "PUS_INITIALIZED"
      /\ UNCHANGED <<status, hk_table, executor>>
  BY DEF EndCycle, EmitterAt, Calling, Initialised
<1>2. cycle \in Nat /\ cycle + 1 \in Nat /\ cycle' \in 0 .. (CycleModulus - 1)
  BY <1>1, RemainderRange DEF Types
<1>3. \A l \in Line(hk_table) : Older(l) \in Int
  BY DEF Types, Older
<1>4. Types'
  BY <1>1, <1>2, <1>3 DEF Types, Pc, Line, Nothing
<1>5. Position' /\ Initialised' /\ Handling'
  BY <1>1 DEF Position, Initialised, Handling, EntryUsable, Line
<1>6. ServedSoFar' /\ Witnessed'
  BY <1>1 DEF ServedSoFar, Witnessed, Calling
<1>7. AllYoung'
  <2>1. SUFFICES ASSUME NEW l \in Line(hk_table)
                 PROVE  /\ Older(l) >= -1
                        /\ YoungAt(Older(l), cycle', hk_table[l].collection_rate)
    BY <1>1 DEF AllYoung, Line
  <2>2. /\ hk_table[l].collection_rate \in Nat \ {0} /\ age[l] \in Int
        /\ age[l] >= -1 /\ YoungAt(age[l], cycle, hk_table[l].collection_rate)
    BY <1>1, LineTyped DEF Types, Initialised, EntryUsable, AllYoung
  <2>3. CASE Older(l) = 0
    BY <1>2, <2>2, <2>3, NewIsYoung
  <2>4. CASE Older(l) # 0
    <3>1. Enabled(l) /\ ~ Missed(l) /\ Older(l) = age[l] + 1
      BY <2>4 DEF Older
    <3>2. l < emitter.i
      <4>1. CASE emitter.failed
        BY <3>1, <4>1 DEF Missed, Types, Line
      <4>2. CASE ~ emitter.failed
        BY <4>2 DEF EndCycle, EmitterAt, Position, Types, Line
      <4> QED
        BY <4>1, <4>2
    <3>3. Served(l)
      BY <1>1, <3>2 DEF ServedSoFar
    <3>4. age[l] # -1
      BY <2>2, <2>4, <3>1
    <3>5. cycle % hk_table[l].collection_rate # 0
      BY <3>1, <3>3, <3>4 DEF Served, Due
    <3>6. YoungAt(age[l] + 1, cycle', hk_table[l].collection_rate)
      BY <1>1, <2>2, <3>5, StillYoung DEF Types
    <3> QED
      BY <2>2, <3>1, <3>6
  <2> QED
    BY <2>3, <2>4
<1> QED
  BY <1>4, <1>5, <1>6, <1>7

-----------------------------------------------------------------------------
(* The executor: it writes usable lines, one at a time, or none. *)

LEMMA WriteLineKeeps ==
    ASSUME EmitterInv, status = "PUS_INITIALIZED",
           NEW l \in Line(hk_table), NEW line \in HKParam,
           line.hkid = hk_table[l].hkid, line.sound = hk_table[l].sound,
           line.collection_rate # 0,
           UNCHANGED <<status, cycle, emitter>>, WriteLine(l, line)
    PROVE  EmitterInv'
<1> USE DEF EmitterInv
<1>1. /\ hk_table' = [hk_table EXCEPT ![l] = line]
      /\ age' = [age EXCEPT ![l] = IF Calling THEN -1 ELSE 0]
  BY DEF WriteLine
<1>2. /\ hk_table' \in Seq(HKParam) /\ Len(hk_table') = Len(hk_table)
      /\ Line(hk_table)' = Line(hk_table)
      /\ hk_table'[l] = line
      /\ \A j \in Line(hk_table) : j # l => hk_table'[j] = hk_table[j]
  BY <1>1, ExceptSeq DEF Types, Line
<1>3. /\ age' \in [Line(hk_table) -> Int] /\ age'[l] \in {-1, 0}
      /\ Calling => age'[l] = -1
      /\ \A j \in Line(hk_table) : j # l => age'[j] = age[j]
  BY <1>1 DEF Types
<1>4. /\ seen' \in [enabled : SUBSET Line(hk_table), due : SUBSET Line(hk_table)]
      /\ seen.enabled \subseteq seen'.enabled /\ seen.due \subseteq seen'.due
      /\ Calling => /\ Enabled(l)' => l \in seen'.enabled
                    /\ Due(l)' => l \in seen'.due
  BY DEF WriteLine, Types, Line
<1>5. Types'
  BY <1>2, <1>3, <1>4 DEF Types
<1>6. Position'
  BY <1>2 DEF Position
<1>7. Initialised'
  <2>1. \A j \in Line(hk_table) : hk_table'[j].hkid = hk_table[j].hkid
    BY <1>2
  <2>2. \A j \in Line(hk_table) : EntryUsable(j)'
    <3>1. \A j \in Line(hk_table) : j # 1 => j - 1 \in Line(hk_table)
      BY LineTyped DEF Line
    <3>2. \A j \in Line(hk_table) : EntryUsable(j)
      BY DEF Initialised
    <3> QED
      BY <1>2, <2>1, <3>1, <3>2 DEF EntryUsable
  <2> QED
    BY <1>2, <2>2 DEF Initialised, Position, Types
<1>8. AllYoung'
  <2>1. line.collection_rate \in Nat \ {0} /\ cycle \in Nat
    BY DEF HKParam, Types
  <2>2. YoungAt(age'[l], cycle, line.collection_rate)
    BY <1>3, <2>1, NewIsYoung
  <2> QED
    BY <1>2, <1>3, <2>2 DEF AllYoung
<1>9. ServedSoFar'
  <2>1. \A j \in Line(hk_table) : Calling /\ Served(j) => Served(j)'
    BY <1>2, <1>3 DEF Served, Due, Enabled
  <2>2. emitter.pc = "signal" => age'[emitter.i] = -1
    BY <1>3 DEF ServedSoFar, Position, Calling
  <2> QED
    BY <1>2, <2>1, <2>2 DEF ServedSoFar, Calling
<1>10. Witnessed'
  <2>1. \A j \in Line(hk_table) : j # l => Enabled(j)' = Enabled(j) /\ Due(j)' = Due(j)
    BY <1>2 DEF Enabled, Due
  <2> QED
    BY <1>2, <1>4, <2>1 DEF Witnessed, Calling
<1> QED
  BY <1>5, <1>6, <1>7, <1>8, <1>9, <1>10

LEMMA KeepLinesKeeps ==
    ASSUME EmitterInv, UNCHANGED <<status, cycle, emitter>>, KeepLines
    PROVE  EmitterInv'
BY DEF EmitterInv, KeepLines, Types, Position, Initialised, AllYoung,
       ServedSoFar, Witnessed, Served, Due, Enabled, Calling, EntryUsable, Line

(* What TC(3,5), TC(3,6) and TC(3,31) make of a line can be written. *)
LEMMA CommandedIsUsable ==
    ASSUME NEW subservice \in {5, 6, 31}, NEW line \in HKParam,
           NEW item \in [hkid : Nat, rate : Nat],
           line.collection_rate # 0, subservice = 31 => item.rate # 0
    PROVE  /\ Commanded(subservice, line, item) \in HKParam
           /\ Commanded(subservice, line, item).hkid = line.hkid
           /\ Commanded(subservice, line, item).sound = line.sound
           /\ Commanded(subservice, line, item).collection_rate # 0
<1>1. CASE subservice = 5
  BY <1>1 DEF Commanded, HKParam
<1>2. CASE subservice = 6
  BY <1>2 DEF Commanded, HKParam
<1>3. CASE subservice = 31
  BY <1>3 DEF Commanded, HKParam
<1> QED
  BY <1>1, <1>2, <1>3

LEMMA ItemTyped ==
    ASSUME Request \in TC3, executor.i \in Nat \ {0}, executor.i <= Len(Request.items)
    PROVE  Item \in [hkid : Nat, rate : Nat]
<1>1. Request.items \in Seq([hkid : Nat, rate : Nat])
  BY DEF TC3
<1>2. executor.i \in 1 .. Len(Request.items)
  BY <1>1
<1> QED
  BY <1>1, <1>2, ElementOfSeq DEF Item

LEMMA HandlerStarts ==
    ASSUME NEW r \in TC3, NEW pc \in {"item", "answer"}, NEW i \in Nat,
           NEW error \in HandlerError
    PROVE  [pc |-> pc, request |-> r, i |-> i, k |-> 0, error |-> error,
            report |-> <<>>] \in Handler
<1>1. r \in HandlerRequest /\ <<>> \in Seq(HKParam)
  BY DEF HandlerRequest
<1> QED
  BY <1>1 DEF Handler

(* The next item, after one that was served in one of three ways. *)
LEMMA HandlerGoesOn ==
    ASSUME NEW h \in Handler, NEW n, NEW report \in Seq(HKParam),
           \/ n = [h EXCEPT !.i = h.i + 1] /\ h.pc = "item"
           \/ n = [h EXCEPT !.i = h.i + 1, !.report = report] /\ h.pc = "item"
           \/ n = [h EXCEPT !.pc = "item", !.i = h.i + 1, !.k = 0]
    PROVE  n \in Handler /\ n.pc = "item" /\ n.request = h.request /\ n.i = h.i + 1
<1>1. h.i + 1 \in Nat
  BY DEF Handler
<1>2. CASE n = [h EXCEPT !.i = h.i + 1] /\ h.pc = "item"
  BY <1>1, <1>2 DEF Handler
<1>3. CASE n = [h EXCEPT !.i = h.i + 1, !.report = report] /\ h.pc = "item"
  BY <1>1, <1>3 DEF Handler
<1>4. CASE n = [h EXCEPT !.pc = "item", !.i = h.i + 1, !.k = 0]
  BY <1>1, <1>4 DEF Handler
<1> QED
  BY <1>2, <1>3, <1>4

LEMMA AnswerTyped ==
    ASSUME executor \in Handler,
           NEW error \in {"NO_ERROR", "UNEXPECTED_DATA", "UNAVAILABLE"}, Answer(error)
    PROVE  executor' \in Handler /\ executor'.pc = "answer"
BY DEF Answer, Handler, HandlerError

LEMMA ExecutorKeeps ==
    ASSUME HousekeepingInv, Executor
    PROVE  HousekeepingInv'
<1> USE DEF HousekeepingInv
<1>1. UNCHANGED <<status, cycle, emitter>>
  BY DEF Executor, ExecuteS3, EndRequest, RefuseItem, ServeItem, EveryLine,
         ServeEveryLine, Return, ExecutorIdle
<1>2. ASSUME NEW r \in Requests, ExecuteS3(r) PROVE HousekeepingInv'
  <2>1. KeepLines
    BY <1>2 DEF ExecuteS3, KeepLines
  <2>2. Handling'
    <3>1. r \in TC3
      OBVIOUS
    <3>2. CASE executor' = [Idle EXCEPT !.pc = "item", !.request = r, !.i = 1]
      <4>1. executor' \in Handler /\ executor'.pc = "item"
            /\ executor'.request = r /\ executor'.i = 1
        <5>1. executor' = [pc |-> "item", request |-> r, i |-> 1, k |-> 0,
                           error |-> "NO_ERROR", report |-> <<>>]
          BY <3>2 DEF Idle
        <5>2. 1 \in Nat /\ "NO_ERROR" \in HandlerError
          BY DEF HandlerError
        <5> QED
          BY <3>1, <5>1, <5>2, HandlerStarts
      <4>2. status = "PUS_INITIALIZED"
        BY <1>2, <4>1 DEF ExecuteS3, Idle
      <4> QED
        BY <1>1, <3>1, <4>1, <4>2 DEF Handling
    <3>3. CASE \E error \in {"UNEXPECTED_DATA", "UNAVAILABLE"} :
                 executor' = [Idle EXCEPT !.pc = "answer", !.request = r, !.error = error]
      <4>1. executor' \in Handler /\ executor'.pc = "answer"
        <5>1. PICK error \in {"UNEXPECTED_DATA", "UNAVAILABLE"} :
                executor' = [pc |-> "answer", request |-> r, i |-> 0, k |-> 0,
                             error |-> error, report |-> <<>>]
          BY <3>3 DEF Idle
        <5>2. 0 \in Nat /\ error \in HandlerError
          BY DEF HandlerError
        <5> QED
          BY <3>1, <5>1, <5>2, HandlerStarts
      <4> QED
        BY <4>1 DEF Handling
    <3> QED
      BY <1>2, <3>2, <3>3 DEF ExecuteS3
  <2> QED
    BY <1>1, <2>1, <2>2, KeepLinesKeeps
<1>3. CASE EndRequest \/ RefuseItem \/ Return
  <2>1. KeepLines
    BY <1>3 DEF EndRequest, RefuseItem, Return
  <2>2. executor'.pc \in {"idle", "answer"} /\ executor' \in Handler
    <3>1. CASE Return
      BY <3>1, IdleTyped DEF Return, Idle
    <3>2. CASE EndRequest
      BY <3>2, AnswerTyped DEF EndRequest, Handling
    <3>3. CASE RefuseItem
      BY <3>3, AnswerTyped DEF RefuseItem, Handling
    <3> QED
      BY <1>3, <3>1, <3>2, <3>3
  <2>4. Handling'
    BY <2>2 DEF Handling
  <2> QED
    BY <1>1, <2>1, <2>4, KeepLinesKeeps
<1>4. CASE ServeItem
  <2>1. /\ executor.pc = "item" /\ executor.i <= Len(Request.items)
        /\ ~ ZeroRefused(Request.subservice, Item)
        /\ status = "PUS_INITIALIZED" /\ Request \in TC3 /\ executor.i \in Nat \ {0}
    BY <1>4 DEF ServeItem, ExecutorAt, NoMoreItems, Handling, Handler, Request, TC3
  <2>2. Item \in [hkid : Nat, rate : Nat]
    BY <2>1, ItemTyped
  <2>3. PICK l \in Line(hk_table) :
           IF Request.subservice = 9
             THEN /\ executor' = [executor EXCEPT !.i = @ + 1,
                                         !.report = Append(@, hk_table[l])]
                  /\ KeepLines
             ELSE /\ WriteLine(l, Commanded(Request.subservice, hk_table[l], Item))
                  /\ NextItem
    BY <1>4 DEF ServeItem
  <2>4. Handling'
    <3>1. executor'.pc = "item" /\ executor'.request = executor.request
          /\ executor'.i = executor.i + 1 /\ executor' \in Handler
      <4>1. executor \in Handler /\ hk_table[l] \in HKParam
        BY LineTyped DEF Handling, EmitterInv
      <4>2. Append(executor.report, hk_table[l]) \in Seq(HKParam)
        BY <4>1, AppendProperties DEF Handler
      <4>3. \/ executor' = [executor EXCEPT !.i = executor.i + 1]
            \/ executor' = [executor EXCEPT !.i = executor.i + 1,
                              !.report = Append(executor.report, hk_table[l])]
        BY <2>3, <4>1 DEF NextItem, Handler
      <4> QED
        BY <2>1, <4>1, <4>2, <4>3, HandlerGoesOn DEF ExecutorAt
    <3> QED
      BY <1>1, <2>1, <3>1 DEF Handling, Request
  <2>5. CASE Request.subservice = 9
    BY <1>1, <2>3, <2>4, <2>5, KeepLinesKeeps
  <2>6. CASE Request.subservice # 9
    <3>1. Request.subservice \in {5, 6, 31}
      BY <2>1, <2>6 DEF TC3
    <3>2. hk_table[l] \in HKParam /\ hk_table[l].collection_rate # 0
      BY <2>1, LineTyped DEF EmitterInv, Initialised, EntryUsable
    <3>3. Request.subservice = 31 => Item.rate # 0
      BY <2>1 DEF ZeroRefused
    <3>4. LET line == Commanded(Request.subservice, hk_table[l], Item)
          IN  /\ line \in HKParam /\ line.hkid = hk_table[l].hkid
              /\ line.sound = hk_table[l].sound /\ line.collection_rate # 0
      BY <2>2, <3>1, <3>2, <3>3, CommandedIsUsable
    <3> QED
      BY <1>1, <2>1, <2>3, <2>4, <2>6, <3>4, WriteLineKeeps
  <2> QED
    BY <2>5, <2>6
<1>5. CASE EveryLine
  <2>1. KeepLines
    BY <1>5 DEF EveryLine
  <2>2. Handling'
    <3>1. /\ executor.pc = "item" /\ ~ NoMoreItems /\ Request.subservice \in {5, 6}
          /\ executor' = [executor EXCEPT !.pc = "all", !.k = 1]
          /\ executor \in Handler /\ executor.i \in Nat
      BY <1>5 DEF EveryLine, Handling, Handler, ExecutorAt
    <3>2. executor' \in Handler /\ executor'.pc = "all" /\ executor'.k = 1
          /\ executor'.request = executor.request /\ executor'.i = executor.i
      BY <3>1 DEF Handler
    <3>3. status = "PUS_INITIALIZED" /\ executor.request \in TC3 /\ executor.i # 0
      BY <3>1 DEF Handling
    <3>4. executor.i <= Len(Request.items)
      BY <3>1, <3>3 DEF NoMoreItems, Request, TC3
    <3> QED
      BY <1>1, <3>1, <3>2, <3>3, <3>4 DEF Handling, Request
  <2> QED
    BY <1>1, <2>1, <2>2, KeepLinesKeeps
<1>6. CASE ServeEveryLine
  <2>1. /\ executor.pc = "all" /\ status = "PUS_INITIALIZED" /\ Request \in TC3
        /\ executor.i \in Nat \ {0} /\ executor.i <= Len(Request.items)
        /\ executor.k \in Nat \ {0} /\ Request.subservice \in {5, 6}
    BY <1>6 DEF ServeEveryLine, ExecutorAt, Handling, Handler, Request
  <2>2. Item \in [hkid : Nat, rate : Nat]
    BY <2>1, ItemTyped
  <2>3. CASE AllServed
    <3>1. Handling'
      <4>1. executor \in Handler
            /\ executor' = [executor EXCEPT !.pc = "item", !.i = executor.i + 1, !.k = 0]
        BY <1>6, <2>3 DEF ServeEveryLine, Handling, Handler
      <4>0. <<>> \in Seq(HKParam)
        OBVIOUS
      <4>2. executor' \in Handler /\ executor'.pc = "item"
            /\ executor'.request = executor.request /\ executor'.i = executor.i + 1
        BY <4>1, <4>0, HandlerGoesOn
      <4> QED
        BY <1>1, <2>1, <4>2 DEF Handling, Request
    <3> QED
      BY <1>1, <1>6, <2>3, <3>1, KeepLinesKeeps DEF ServeEveryLine
  <2>4. CASE ~ AllServed
    <3>1. executor.k \in Line(hk_table)
      BY <2>1, <2>4 DEF AllServed, Line, EmitterInv, Types
    <3>2. hk_table[executor.k] \in HKParam /\ hk_table[executor.k].collection_rate # 0
      BY <2>1, <3>1, LineTyped DEF EmitterInv, Initialised, EntryUsable
    <3>3. WriteLine(executor.k, Commanded(Request.subservice, hk_table[executor.k], Item))
      BY <1>6, <2>4 DEF ServeEveryLine
    <3>4. Handling'
      BY <1>1, <1>6, <2>1, <2>4 DEF ServeEveryLine, Handling, Handler, Request
    <3>5. LET line == Commanded(Request.subservice, hk_table[executor.k], Item)
          IN  /\ line \in HKParam /\ line.hkid = hk_table[executor.k].hkid
              /\ line.sound = hk_table[executor.k].sound /\ line.collection_rate # 0
      BY <2>1, <2>2, <3>2, CommandedIsUsable
    <3> QED
      BY <1>1, <2>1, <3>1, <3>3, <3>4, <3>5, WriteLineKeeps
  <2> QED
    BY <2>3, <2>4
<1> QED
  BY <1>2, <1>3, <1>4, <1>5, <1>6 DEF Executor

LEMMA NextKeeps == HousekeepingInv /\ [Next]_vars => HousekeepingInv'
<1> SUFFICES ASSUME HousekeepingInv, [Next]_vars PROVE HousekeepingInv'
  OBVIOUS
<1>1. CASE UNCHANGED vars
  <2>1. EmitterInv'
    BY <1>1, KeepLinesKeeps DEF vars, KeepLines, HousekeepingInv
  <2>2. Handling'
    BY <1>1 DEF vars, Handling, HousekeepingInv
  <2> QED
    BY <2>1, <2>2 DEF HousekeepingInv
<1> QED
  BY <1>1, InitS3Keeps, EmitHKsKeeps, LoopKeeps, EndCycleKeeps, ExecutorKeeps
     DEF Next, Emitter

THEOREM InvariantHolds == Spec => []HousekeepingInv
BY InitInv, NextKeeps, PTL DEF Spec

-----------------------------------------------------------------------------
(* The variables keep their types and EmitHKs never divides by zero, for   *)
(* every table and every request (the checks of InitS3 and ExecuteS3SS31). *)
THEOREM TypeCorrect == Spec => []HousekeepingTypeOK
<1>1. HousekeepingInv => HousekeepingTypeOK
  <2> SUFFICES ASSUME HousekeepingInv PROVE HousekeepingTypeOK
    OBVIOUS
  <2> USE DEF HousekeepingInv, EmitterInv
  <2>1. Len(hk_table) \in Nat /\ emitter.i \in 0 .. (Len(hk_table) + 1)
    BY DEF Types, Position, Line, Pc
  <2>2. seen.enabled \union seen.due \subseteq Line(hk_table)
    BY DEF Types
  <2>3. status = "PUS_INITIALIZED" => \A l \in Line(hk_table) :
          /\ EntryUsable(l) /\ hk_table[l].collection_rate \in Nat \ {0}
          /\ hk_table[l].status \in {"ENABLE", "DISABLE"}
    BY LineTyped DEF Initialised, EntryUsable, HKParam
  <2> QED
    BY <2>1, <2>2, <2>3 DEF HousekeepingTypeOK, Types, AllYoung
<1> QED
  BY <1>1, InvariantHolds, PTL

(* A line is reported within its rate, for every length of the cycle, that *)
(* is wherever the uint32_t of EmitHKs wraps, and whatever the ground      *)
(* changes meanwhile.                                                      *)
THEOREM NeverLateHolds == Spec => []NeverLate
<1>1. HousekeepingInv => NeverLate
  BY DEF HousekeepingInv, EmitterInv, AllYoung, YoungAt, NeverLate
<1> QED
  BY <1>1, InvariantHolds, PTL

(* EmitHKs reports a line only if it was enabled, and due, at some moment  *)
(* of the call, for every interleaving with the changes of the ground.     *)
THEOREM EmittedIfAskedHolds == Spec => EmittedIfAsked
<1>1. HousekeepingInv /\ [Next]_vars =>
        [emitter.pc = "write" /\ emitter'.pc = "signal"
           => emitter.i \in seen.enabled \intersect seen.due]_vars
  BY DEF HousekeepingInv, EmitterInv, Witnessed
<1> QED
  BY <1>1, InvariantHolds, PTL DEF Spec, EmittedIfAsked

-----------------------------------------------------------------------------
(* The least and the greatest of a set of numbers. *)

LEMMA LeastOf ==
    ASSUME NEW S \in SUBSET Nat, S # {}
    PROVE  \E m \in S : \A n \in S : m <= n
<1> DEFINE R == OpToRel(<, Nat)
<1>1. IsWellFoundedOn(R, Nat)
  BY NatLessThanWellFounded
<1>2. \A x, y \in Nat : x < y => <<x, y>> \in R
  BY DEF OpToRel
<1> HIDE DEF R
<1>3. \E m \in S : \A n \in S : ~ (<<n, m>> \in R)
  <2>1. S \subseteq Nat
    OBVIOUS
  <2>2. \A Q : IsWellFoundedOn(Q, Nat) => \E m \in S : \A n \in S : ~ (<<n, m>> \in Q)
    BY <2>1, WFMin, Zenon
  <2> QED
    BY <1>1, <2>2
<1>4. \A x, y \in Nat : ~ (<<x, y>> \in R) => y <= x
  <2>1. \A x, y \in Nat : ~ (x < y) => y <= x
    OBVIOUS
  <2> QED
    BY <1>2, <2>1
<1> QED
  BY <1>3, <1>4

LEMMA MaxOf ==
    ASSUME NEW S \in SUBSET Nat, S # {}, NEW bound \in Nat, \A n \in S : n <= bound
    PROVE  Max(S) \in S /\ \A n \in S : n <= Max(S)
<1> DEFINE T == {bound - n : n \in S}
<1>0. PICK s \in S : TRUE
  OBVIOUS
<1>1. T \in SUBSET Nat /\ T # {}
  <2>1. \A n \in S : bound - n \in Nat
    OBVIOUS
  <2>2. bound - s \in T
    OBVIOUS
  <2> QED
    BY <2>1, <2>2
<1>2. PICK m \in T : \A n \in T : m <= n
  BY <1>1, LeastOf
<1>3. PICK k \in S : m = bound - k
  BY <1>2
<1>4. \A n \in S : k >= n
  <2>1. \A n \in S : bound - n \in T
    OBVIOUS
  <2>2. \A n \in S : bound - k <= bound - n
    BY <1>2, <1>3, <2>1
  <2> QED
    BY <2>2
<1>5. \E x \in S : \A y \in S : x >= y
  BY <1>4
<1> QED
  BY <1>5 DEF Max

LEMMA MaxIs ==
    ASSUME NEW S \in SUBSET Nat, NEW m \in S, \A n \in S : n <= m
    PROVE  Max(S) = m
<1>1. m >= m /\ \A n \in S : m >= n
  OBVIOUS
<1>2. \A x \in S : (\A y \in S : x >= y) => x = m
  BY <1>1
<1> QED
  BY <1>1, <1>2 DEF Max

-----------------------------------------------------------------------------
(* What a handler has done and has still to do, by the identifiers of the  *)
(* lines, which never change.                                              *)

IDs(t) == [l \in 1 .. Len(t) |-> t[l].hkid]

NamesBy(d, item, l) == item.hkid = 0 \/ item.hkid = d[l]
NamedBy(d, item)    == CHOOSE l \in DOMAIN d : NamesBy(d, item, l)

AcceptableBy(d, subservice, item) ==
    /\ item.hkid = 0 => subservice \in {5, 6}
    /\ item.hkid # 0 => \E l \in DOMAIN d : d[l] = item.hkid
    /\ subservice = 31 => item.rate # 0

Prefixes(d, r) ==
    {n \in 0 .. Room(r) :
       \A j \in 1 .. n : AcceptableBy(d, r.subservice, r.items[j])}

HonouredBy(d, r) == Max(Prefixes(d, r))

(* The last item that names a line, among those from i on. *)
LastFrom(d, r, i, m, l) ==
    /\ NamesBy(d, r.items[m], l)
    /\ \A j \in i .. HonouredBy(d, r) : NamesBy(d, r.items[j], l) => j <= m

(* The items from i on make of the table t what is wanted. *)
ToDo(d, r, i, t, w) ==
    \A l \in DOMAIN d :
      /\ (\A j \in i .. HonouredBy(d, r) : ~ NamesBy(d, r.items[j], l))
           => w[l] = t[l]
      /\ \A m \in i .. HonouredBy(d, r) :
           LastFrom(d, r, i, m, l)
             => w[l] = Commanded(r.subservice, t[l], r.items[m])

Reported(d, r, i, t, report, w) ==
    IF r.subservice # 9 THEN report = <<>> /\ w = <<>>
    ELSE /\ w = [j \in 1 .. HonouredBy(d, r) |-> t[NamedBy(d, r.items[j])]]
         /\ Len(report) = i - 1
         /\ \A j \in 1 .. (i - 1) : report[j] = t[NamedBy(d, r.items[j])]

Doing(d, r, h, t, w) ==
    /\ h.error = "NO_ERROR"
    /\ h.i - 1 \in Prefixes(d, r)
    /\ w.ok = (HonouredBy(d, r) = Len(r.items) /\ ~ r.more)
    /\ w.table = [l \in DOMAIN d |-> w.table[l]]
    /\ ToDo(d, r, h.i, t, w.table)
    /\ Reported(d, r, h.i, t, h.report, w.report)
    /\ h.pc = "all" =>
         /\ r.items[h.i].hkid = 0
         /\ \A l \in DOMAIN d :
              l < h.k => t[l] = Commanded(r.subservice, t[l], r.items[h.i])

Applying ==
    /\ executor.pc = "idle" => executor = Idle /\ wanted = Unchanged(hk_table)
    /\ executor.pc \in {"item", "all"} =>
         Doing(IDs(hk_table), Request, executor, hk_table, wanted)
    /\ RequestApplied

LEMMA MinOfTwo ==
    ASSUME NEW a \in Nat, NEW b \in Nat
    PROVE  Min({a, b}) \in {a, b} /\ Min({a, b}) <= a /\ Min({a, b}) <= b
<1>1. \E x \in {a, b} : \A y \in {a, b} : x <= y
  BY DEF Min
<1> QED
  BY <1>1 DEF Min

LEMMA RoomTyped ==
    ASSUME NEW r \in TC3
    PROVE  /\ Len(r.items) \in Nat /\ Room(r) \in Nat /\ Room(r) <= Len(r.items)
           /\ r.subservice = 9 => Room(r) <= TMRoom
           /\ r.subservice # 9 => Room(r) = Len(r.items)
           /\ Room(r) \in {TMRoom, Len(r.items)}
<1>1. Len(r.items) \in Nat /\ TMRoom \in Nat
  BY HousekeepingAssumption DEF TC3
<1> QED
  BY <1>1, MinOfTwo DEF Room

LEMMA HonouredFacts ==
    ASSUME NEW d, NEW r \in TC3
    PROVE  /\ Prefixes(d, r) \subseteq Nat
           /\ HonouredBy(d, r) \in Prefixes(d, r)
           /\ \A n \in Prefixes(d, r) : n <= HonouredBy(d, r)
           /\ HonouredBy(d, r) \in Nat /\ 0 \in Prefixes(d, r)
           /\ HonouredBy(d, r) <= Room(r)
<1>1. /\ Prefixes(d, r) \in SUBSET Nat /\ 0 \in Prefixes(d, r)
      /\ \A n \in Prefixes(d, r) : n <= Room(r)
  BY RoomTyped DEF Prefixes
<1>2. /\ Max(Prefixes(d, r)) \in Prefixes(d, r)
      /\ \A n \in Prefixes(d, r) : n <= Max(Prefixes(d, r))
  <2>1. Prefixes(d, r) # {} /\ Room(r) \in Nat
    BY <1>1, RoomTyped
  <2> QED
    BY <1>1, <2>1, MaxOf
<1> QED
  BY <1>1, <1>2 DEF HonouredBy

LEMMA PrefixGrows ==
    ASSUME NEW d, NEW r \in TC3, NEW i \in Nat \ {0}, i - 1 \in Prefixes(d, r),
           i <= Room(r), AcceptableBy(d, r.subservice, r.items[i])
    PROVE  i \in Prefixes(d, r)
<1>1. \A j \in 1 .. i : j \in 1 .. (i - 1) \/ j = i
  OBVIOUS
<1>2. i \in 0 .. Room(r)
  BY RoomTyped
<1> QED
  BY <1>1, <1>2 DEF Prefixes

LEMMA PrefixEnds ==
    ASSUME NEW d, NEW r \in TC3, NEW i \in Nat \ {0}, i - 1 \in Prefixes(d, r),
           ~ (i <= Room(r) /\ AcceptableBy(d, r.subservice, r.items[i]))
    PROVE  HonouredBy(d, r) = i - 1
<1>1. \A n \in Prefixes(d, r) : n <= i - 1
  <2> SUFFICES ASSUME NEW n \in Prefixes(d, r), ~ (n <= i - 1)
               PROVE  FALSE
    OBVIOUS
  <2>1. /\ n \in Nat /\ n <= Room(r)
        /\ \A j \in 1 .. n : AcceptableBy(d, r.subservice, r.items[j])
    BY RoomTyped DEF Prefixes
  <2>2. i \in 1 .. n /\ i <= Room(r)
    BY <2>1, RoomTyped
  <2> QED
    BY <2>1, <2>2
<1> QED
  BY <1>1, HonouredFacts, MaxIs DEF HonouredBy

LEMMA Overwritten ==
    ASSUME NEW subservice \in {5, 6, 31}, NEW line \in HKParam,
           NEW a \in [hkid : Nat, rate : Nat], NEW b
    PROVE  Commanded(subservice, Commanded(subservice, line, a), b)
             = Commanded(subservice, line, b)
<1>1. CASE subservice = 5
  <2>1. PICK x \in HKParam : x = [line EXCEPT !.status = "ENABLE"]
    BY DEF HKParam
  <2>2. Commanded(subservice, line, a) = x
    BY <1>1, <2>1 DEF Commanded
  <2>3. [x EXCEPT !.status = "ENABLE"] = [line EXCEPT !.status = "ENABLE"]
    BY <2>1 DEF HKParam
  <2>4. /\ Commanded(subservice, x, b) = [x EXCEPT !.status = "ENABLE"]
        /\ Commanded(subservice, line, b) = [line EXCEPT !.status = "ENABLE"]
    BY <1>1 DEF Commanded
  <2> QED
    BY <2>2, <2>3, <2>4
<1>2. CASE subservice = 6
  <2>1. PICK x \in HKParam : x = [line EXCEPT !.status = "DISABLE"]
    BY DEF HKParam
  <2>2. Commanded(subservice, line, a) = x
    BY <1>2, <2>1 DEF Commanded
  <2>3. [x EXCEPT !.status = "DISABLE"] = [line EXCEPT !.status = "DISABLE"]
    BY <2>1 DEF HKParam
  <2>4. /\ Commanded(subservice, x, b) = [x EXCEPT !.status = "DISABLE"]
        /\ Commanded(subservice, line, b) = [line EXCEPT !.status = "DISABLE"]
    BY <1>2 DEF Commanded
  <2> QED
    BY <2>2, <2>3, <2>4
<1>3. CASE subservice = 31
  <2>1. PICK x \in HKParam : x = [line EXCEPT !.collection_rate = a.rate]
    BY DEF HKParam
  <2>2. Commanded(subservice, line, a) = x
    BY <1>3, <2>1 DEF Commanded
  <2>3. [x EXCEPT !.collection_rate = b.rate] = [line EXCEPT !.collection_rate = b.rate]
    BY <2>1 DEF HKParam
  <2>4. /\ Commanded(subservice, x, b) = [x EXCEPT !.collection_rate = b.rate]
        /\ Commanded(subservice, line, b) = [line EXCEPT !.collection_rate = b.rate]
    BY <1>3 DEF Commanded
  <2> QED
    BY <2>2, <2>3, <2>4
<1> QED
  BY <1>1, <1>2, <1>3

(* An item was served. *)
LEMMA ToDoNext ==
    ASSUME NEW d, NEW r \in TC3, NEW i \in Nat \ {0}, i \in Prefixes(d, r),
           NEW t, NEW u, NEW w, ToDo(d, r, i, t, w),
           \A l \in DOMAIN d :
             /\ ~ NamesBy(d, r.items[i], l) => u[l] = t[l]
             /\ NamesBy(d, r.items[i], l)
                  => u[l] = Commanded(r.subservice, t[l], r.items[i])
             /\ \A m \in Nat : Commanded(r.subservice, u[l], r.items[m])
                                 = Commanded(r.subservice, t[l], r.items[m])
    PROVE  ToDo(d, r, i + 1, u, w)
<1> DEFINE H == HonouredBy(d, r)
<1>1. H \in Nat /\ i <= H
  BY HonouredFacts
<1> HIDE DEF H
<1>2. \A j \in i .. H : j = i \/ j \in i + 1 .. H
  BY <1>1
<1>3. i \in i .. H /\ \A j \in i + 1 .. H : j \in i .. H /\ i <= j /\ j \in Nat
  BY <1>1
<1> SUFFICES ASSUME NEW l \in DOMAIN d
             PROVE  /\ (\A j \in i + 1 .. H : ~ NamesBy(d, r.items[j], l))
                         => w[l] = u[l]
                    /\ \A m \in i + 1 .. H : LastFrom(d, r, i + 1, m, l)
                         => w[l] = Commanded(r.subservice, u[l], r.items[m])
  BY DEF ToDo, H
<1>4. ASSUME \A j \in i + 1 .. H : ~ NamesBy(d, r.items[j], l)
      PROVE  w[l] = u[l]
  <2>1. CASE NamesBy(d, r.items[i], l)
    <3>1. LastFrom(d, r, i, i, l)
      BY <1>1, <1>2, <1>4, <2>1 DEF LastFrom, H
    <3> QED
      BY <1>3, <2>1, <3>1 DEF ToDo, H
  <2>2. CASE ~ NamesBy(d, r.items[i], l)
    BY <1>2, <1>4, <2>2 DEF ToDo, H
  <2> QED
    BY <2>1, <2>2
<1>5. ASSUME NEW m \in i + 1 .. H, LastFrom(d, r, i + 1, m, l)
      PROVE  w[l] = Commanded(r.subservice, u[l], r.items[m])
  <2>1. LastFrom(d, r, i, m, l)
    BY <1>2, <1>3, <1>5 DEF LastFrom, H
  <2> QED
    BY <1>3, <2>1 DEF ToDo, H
<1> QED
  BY <1>4, <1>5

(* A part of an item that names every line was served. *)
LEMMA ToDoSame ==
    ASSUME NEW d, NEW r \in TC3, NEW i \in Nat \ {0}, i \in Prefixes(d, r),
           NEW t, NEW u, NEW w, ToDo(d, r, i, t, w),
           \A l \in DOMAIN d :
             /\ NamesBy(d, r.items[i], l)
             /\ \A m \in Nat : Commanded(r.subservice, u[l], r.items[m])
                                 = Commanded(r.subservice, t[l], r.items[m])
    PROVE  ToDo(d, r, i, u, w)
<1>1. HonouredBy(d, r) \in Nat /\ i <= HonouredBy(d, r)
  BY HonouredFacts
<1>2. i \in i .. HonouredBy(d, r) /\ \A m \in i .. HonouredBy(d, r) : m \in Nat
  BY <1>1
<1> QED
  BY <1>2 DEF ToDo

LEMMA NothingToDo ==
    ASSUME NEW d, NEW r \in TC3, NEW i \in Nat, HonouredBy(d, r) = i - 1,
           NEW t, NEW w, ToDo(d, r, i, t, w)
    PROVE  \A l \in DOMAIN d : w[l] = t[l]
<1>1. \A j : j \notin i .. (i - 1)
  OBVIOUS
<1> QED
  BY <1>1 DEF ToDo

-----------------------------------------------------------------------------
(* What Wanted says in the terms of the table is the same by identifiers. *)

LEMMA IDsOf ==
    ASSUME Types
    PROVE  /\ DOMAIN IDs(hk_table) = Line(hk_table)
           /\ DOMAIN hk_table = Line(hk_table)
           /\ \A l \in Line(hk_table) : IDs(hk_table)[l] = hk_table[l].hkid
BY DEF IDs, Types, Line

(* InitS3 compares neighbours only; no two lines have the same identifier. *)
LEMMA IDsIncrease ==
    ASSUME Types, \A l \in Line(hk_table) : EntryUsable(l),
           NEW j \in Line(hk_table), NEW k \in Line(hk_table), j < k
    PROVE  hk_table[j].hkid < hk_table[k].hkid
<1> DEFINE S == {n \in Nat : /\ j < n /\ n <= Len(hk_table)
                             /\ ~ (hk_table[j].hkid < hk_table[n].hkid)}
<1>0. Len(hk_table) \in Nat /\ \A l \in 1 .. Len(hk_table) : hk_table[l].hkid \in Nat
  BY LineTyped DEF Types, Line
<1>1. SUFFICES ASSUME S # {} PROVE FALSE
  BY <1>0 DEF Line
<1>2. S \in SUBSET Nat
  OBVIOUS
<1>3. PICK n \in S : \A m \in S : n <= m
  <2> HIDE DEF S
  <2> QED
    BY <1>1, <1>2, LeastOf
<1>4. /\ n \in 1 .. Len(hk_table) /\ n - 1 \in 1 .. Len(hk_table) /\ n # 1
      /\ j <= n - 1 /\ n - 1 \notin S
  BY <1>0, <1>3 DEF Line
<1>5. hk_table[j].hkid <= hk_table[n - 1].hkid
  BY <1>0, <1>4 DEF Line
<1>6. hk_table[n].hkid > hk_table[n - 1].hkid
  BY <1>4 DEF EntryUsable, Line
<1>7. /\ hk_table[j].hkid \in Nat /\ hk_table[n].hkid \in Nat
      /\ hk_table[n - 1].hkid \in Nat
  BY <1>0, <1>4 DEF Line
<1>8. hk_table[j].hkid < hk_table[n].hkid
  BY <1>5, <1>6, <1>7
<1> QED
  BY <1>3, <1>8

LEMMA UniqueIDs ==
    ASSUME Types, \A l \in Line(hk_table) : EntryUsable(l)
    PROVE  /\ \A j, k \in Line(hk_table) :
                hk_table[j].hkid = hk_table[k].hkid => j = k
           /\ \A l \in Line(hk_table) : hk_table[l].hkid # 0
<1>1. ASSUME NEW j \in Line(hk_table), NEW k \in Line(hk_table),
             hk_table[j].hkid = hk_table[k].hkid
      PROVE  j = k
  <2>1. hk_table[j].hkid \in Nat /\ j \in Nat /\ k \in Nat
    BY LineTyped DEF Line
  <2>2. ~ (j < k) /\ ~ (k < j)
    BY <1>1, <2>1, IDsIncrease
  <2> QED
    BY <2>1, <2>2
<1>2. ASSUME NEW l \in Line(hk_table)
      PROVE  hk_table[l].hkid # 0
  <2>1. EntryUsable(l) /\ Len(hk_table) \in Nat /\ l \in 1 .. Len(hk_table)
    BY LineTyped
  <2>2. CASE l = 1
    BY <2>1, <2>2, LineTyped DEF EntryUsable
  <2>3. CASE l # 1
    <3>1. l - 1 \in Line(hk_table)
      BY <2>1, <2>3 DEF Line
    <3>2. hk_table[l - 1].hkid \in Nat /\ hk_table[l].hkid \in Nat
      BY <3>1, LineTyped
    <3> QED
      BY <2>1, <2>3, <3>2 DEF EntryUsable
  <2> QED
    BY <2>2, <2>3
<1> QED
  BY <1>1, <1>2

LEMMA SameAcceptable ==
    ASSUME Types, NEW subservice \in {5, 6, 9, 31}, NEW item
    PROVE  Acceptable(subservice, item)
             <=> AcceptableBy(IDs(hk_table), subservice, item)
<1>1. KnownID(item.hkid)
        <=> \E l \in DOMAIN IDs(hk_table) : IDs(hk_table)[l] = item.hkid
  <2>1. /\ DOMAIN IDs(hk_table) = Line(hk_table)
        /\ \A l \in Line(hk_table) : IDs(hk_table)[l] = hk_table[l].hkid
    BY IDsOf
  <2> QED
    BY <2>1, Zenon DEF KnownID
<1>2. CASE subservice = 5
  BY <1>1, <1>2 DEF Acceptable, AcceptableBy
<1>3. CASE subservice = 6
  BY <1>1, <1>3 DEF Acceptable, AcceptableBy
<1>4. CASE subservice = 9
  BY <1>1, <1>4 DEF Acceptable, AcceptableBy
<1>5. CASE subservice = 31
  BY <1>1, <1>5 DEF Acceptable, AcceptableBy
<1> QED
  BY <1>2, <1>3, <1>4, <1>5

LEMMA SameHonoured ==
    ASSUME Types, NEW r \in TC3
    PROVE  Honoured(r) = HonouredBy(IDs(hk_table), r)
<1>1. r.subservice \in {5, 6, 9, 31}
  BY DEF TC3
<1>2. \A i : Acceptable(r.subservice, r.items[i])
               <=> AcceptableBy(IDs(hk_table), r.subservice, r.items[i])
  BY <1>1, SameAcceptable
<1>3. {n \in 0 .. Room(r) : \A i \in 1 .. n : Acceptable(r.subservice, r.items[i])}
        = Prefixes(IDs(hk_table), r)
  BY <1>2 DEF Prefixes
<1> QED
  BY <1>3 DEF Honoured, HonouredBy

LEMMA SameNames ==
    ASSUME Types, NEW item
    PROVE  /\ \A l \in Line(hk_table) :
                Names(item, l) <=> NamesBy(IDs(hk_table), item, l)
           /\ (CHOOSE l \in Line(hk_table) : Names(item, l))
                = NamedBy(IDs(hk_table), item)
<1>1. \A l \in Line(hk_table) : Names(item, l) <=> NamesBy(IDs(hk_table), item, l)
  BY IDsOf DEF Names, NamesBy
<1>2. DOMAIN IDs(hk_table) = Line(hk_table)
  BY IDsOf
<1>3. (CHOOSE l \in Line(hk_table) : Names(item, l))
        = (CHOOSE l \in Line(hk_table) : NamesBy(IDs(hk_table), item, l))
  BY <1>1
<1> QED
  BY <1>1, <1>2, <1>3 DEF NamedBy

(* At the start of a handler what is wanted is what it has to do. *)
LEMMA WantedIsToDo ==
    ASSUME Types, NEW r \in TC3, ~ r.short, status = "PUS_INITIALIZED"
    PROVE  /\ Wanted(r).ok = (HonouredBy(IDs(hk_table), r) = Len(r.items) /\ ~ r.more)
           /\ Wanted(r).table = [l \in Line(hk_table) |-> Wanted(r).table[l]]
           /\ ToDo(IDs(hk_table), r, 1, hk_table, Wanted(r).table)
           /\ Wanted(r).report =
                IF r.subservice # 9 THEN <<>>
                ELSE [j \in 1 .. HonouredBy(IDs(hk_table), r) |->
                        hk_table[NamedBy(IDs(hk_table), r.items[j])]]
<1> DEFINE d == IDs(hk_table)
           H == HonouredBy(d, r)
           naming(l) == {i \in 1 .. H : Names(r.items[i], l)}
<1>0. H = Honoured(r) /\ H \in Nat
  BY SameHonoured, HonouredFacts
<1>1. Wanted(r) =
       [table |-> [l \in Line(hk_table) |->
                IF naming(l) = {} THEN hk_table[l]
                ELSE Commanded(r.subservice, hk_table[l], r.items[Max(naming(l))])],
        ok |-> H = Len(r.items) /\ ~ r.more,
        report |-> IF r.subservice # 9 THEN <<>>
                   ELSE [i \in 1 .. H |->
                          hk_table[CHOOSE l \in Line(hk_table) : Names(r.items[i], l)]]]
  BY <1>0 DEF Wanted
<1>2. \A i : (CHOOSE l \in Line(hk_table) : Names(r.items[i], l)) = NamedBy(d, r.items[i])
  BY SameNames
<1> HIDE DEF d, H
<1>3. ASSUME NEW l \in Line(hk_table)
      PROVE  /\ (\A j \in 1 .. H : ~ NamesBy(d, r.items[j], l))
                  => Wanted(r).table[l] = hk_table[l]
             /\ \A m \in 1 .. H : LastFrom(d, r, 1, m, l)
                  => Wanted(r).table[l] = Commanded(r.subservice, hk_table[l], r.items[m])
  <2>1. \A j : Names(r.items[j], l) <=> NamesBy(d, r.items[j], l)
    BY SameNames DEF d
  <2>2. Wanted(r).table[l] =
          IF naming(l) = {} THEN hk_table[l]
          ELSE Commanded(r.subservice, hk_table[l], r.items[Max(naming(l))])
    BY <1>1
  <2>3. ASSUME NEW m \in 1 .. H, LastFrom(d, r, 1, m, l)
        PROVE  m \in naming(l) /\ Max(naming(l)) = m
    <3>1. m \in naming(l) /\ \A j \in naming(l) : j <= m
      BY <2>1, <2>3 DEF LastFrom, H
    <3>2. naming(l) \in SUBSET Nat
      BY <1>0
    <3> QED
      <4> HIDE DEF naming
      <4> QED
        BY <3>1, <3>2, MaxIs
  <2>4. (\A j \in 1 .. H : ~ NamesBy(d, r.items[j], l)) => naming(l) = {}
    BY <2>1
  <2> HIDE DEF naming
  <2> QED
    BY <2>2, <2>3, <2>4
<1>4. DOMAIN d = Line(hk_table)
  BY IDsOf DEF d
<1>5. ToDo(d, r, 1, hk_table, Wanted(r).table)
  BY <1>3, <1>4 DEF ToDo, H
<1>6. Wanted(r).report =
        IF r.subservice # 9 THEN <<>>
        ELSE [j \in 1 .. H |-> hk_table[NamedBy(d, r.items[j])]]
  <2> DEFINE first(i) == CHOOSE l \in Line(hk_table) : Names(r.items[i], l)
  <2>1. Wanted(r).report = IF r.subservice # 9 THEN <<>>
                           ELSE [j \in 1 .. H |-> hk_table[first(j)]]
    BY <1>1
  <2>2. \A j : first(j) = NamedBy(d, r.items[j])
    BY <1>2
  <2> HIDE DEF first
  <2> QED
    BY <2>1, <2>2
<1>7. Wanted(r).ok = (H = Len(r.items) /\ ~ r.more)
  BY <1>1
<1>8. Wanted(r).table = [l \in Line(hk_table) |-> Wanted(r).table[l]]
  <2> HIDE DEF naming
  <2> QED
    BY <1>1
<1> QED
  BY <1>5, <1>6, <1>7, <1>8 DEF d, H

-----------------------------------------------------------------------------
(* The handlers keep Applying. *)

LEMMA ApplyingStarts == Init => Applying
<1> SUFFICES ASSUME Init PROVE Applying
  OBVIOUS
<1>1. executor = Idle /\ wanted = Unchanged(hk_table)
  BY DEF Init
<1>2. Idle.pc = "idle" /\ Idle.error = "NO_ERROR" /\ Idle.report = <<>>
  BY DEF Idle
<1>3. /\ Unchanged(hk_table).table = hk_table /\ Unchanged(hk_table).ok = TRUE
      /\ Unchanged(hk_table).report = <<>>
  BY DEF Unchanged
<1> QED
  BY <1>1, <1>2, <1>3 DEF Applying, RequestApplied

LEMMA ApplyingKept ==
    ASSUME Applying, UNCHANGED <<hk_table, executor, wanted>>
    PROVE  Applying'
BY DEF Applying, RequestApplied, Request

(* What is known when a handler is at an item. *)
LEMMA AtAnItem ==
    ASSUME HousekeepingInv, Applying, executor.pc \in {"item", "all"}
    PROVE  /\ Types /\ status = "PUS_INITIALIZED"
           /\ \A l \in Line(hk_table) : EntryUsable(l) /\ hk_table[l] \in HKParam
           /\ executor \in Handler /\ Request \in TC3
           /\ executor.i \in Nat \ {0} /\ executor.i - 1 \in Nat
           /\ Doing(IDs(hk_table), Request, executor, hk_table, wanted)
           /\ DOMAIN IDs(hk_table) = Line(hk_table)
           /\ DOMAIN hk_table = Line(hk_table)
<1>1. /\ Types /\ status = "PUS_INITIALIZED" /\ Request \in TC3
      /\ executor \in Handler /\ executor.i # 0
      /\ \A l \in Line(hk_table) : EntryUsable(l)
  BY DEF HousekeepingInv, EmitterInv, Handling, Initialised, Request
<1>2. executor.i \in Nat \ {0} /\ executor.i - 1 \in Nat
  BY <1>1 DEF Handler
<1> QED
  BY <1>1, <1>2, LineTyped, IDsOf DEF Applying

(* A handler that answers has nothing left to do. *)
LEMMA AnswerApplies ==
    ASSUME HousekeepingInv, Applying, executor.pc = "item",
           HonouredBy(IDs(hk_table), Request) = executor.i - 1,
           NEW error, Answer(error), UNCHANGED <<hk_table, wanted>>,
           (error = "NO_ERROR") = wanted.ok,
           wanted.ok => executor.report = wanted.report
    PROVE  Applying'
<1>1. Doing(IDs(hk_table), Request, executor, hk_table, wanted)
      /\ Types /\ Request \in TC3 /\ executor.i \in Nat /\ executor \in Handler
      /\ DOMAIN IDs(hk_table) = Line(hk_table)
      /\ DOMAIN hk_table = Line(hk_table)
  BY AtAnItem
<1>2. /\ wanted.table = [l \in Line(hk_table) |-> wanted.table[l]]
      /\ ToDo(IDs(hk_table), Request, executor.i, hk_table, wanted.table)
  BY <1>1 DEF Doing
<1>3. \A l \in Line(hk_table) : wanted.table[l] = hk_table[l]
  BY <1>1, <1>2, NothingToDo
<1>4. hk_table = [l \in Line(hk_table) |-> hk_table[l]]
  BY <1>1 DEF Types, Line
<1>6. hk_table = wanted.table
  BY <1>2, <1>3, <1>4
<1>7. executor'.pc = "answer" /\ executor'.error = error /\ executor'.report = executor.report
  BY <1>1 DEF Answer, Handler
<1> QED
  BY <1>6, <1>7 DEF Applying, RequestApplied

LEMMA StartApplies ==
    ASSUME HousekeepingInv, Applying, NEW r \in Requests, ExecuteS3(r)
    PROVE  Applying'
<1>1. Types /\ r \in TC3 /\ wanted' = Wanted(r) /\ UNCHANGED hk_table
  BY HousekeepingAssumption DEF HousekeepingInv, EmitterInv, ExecuteS3
<1>2. CASE r.short \/ status # "PUS_INITIALIZED"
  <2>1. wanted' = [table |-> hk_table, ok |-> FALSE, report |-> <<>>]
    BY <1>1, <1>2 DEF Wanted
  <2>2. executor'.pc = "answer" /\ executor'.error # "NO_ERROR"
    <3>1. CASE r.short
      <4>1. executor' = [pc |-> "answer", request |-> r, i |-> 0, k |-> 0,
                         error |-> "UNEXPECTED_DATA", report |-> <<>>]
        BY <3>1 DEF ExecuteS3, Idle
      <4> QED
        BY <4>1
    <3>2. CASE ~ r.short
      <4>1. executor' = [pc |-> "answer", request |-> r, i |-> 0, k |-> 0,
                         error |-> "UNAVAILABLE", report |-> <<>>]
        BY <1>2, <3>2 DEF ExecuteS3, Idle
      <4> QED
        BY <4>1
    <3> QED
      BY <3>1, <3>2
  <2>3. wanted'.table = hk_table /\ wanted'.ok = FALSE
    BY <2>1
  <2>4. (executor'.error = "NO_ERROR") = wanted'.ok
    BY <2>2, <2>3
  <2> QED
    BY <1>1, <2>2, <2>3, <2>4 DEF Applying, RequestApplied
<1>3. CASE ~ r.short /\ status = "PUS_INITIALIZED"
  <2> DEFINE d == IDs(hk_table)
  <2>1. executor' = [pc |-> "item", request |-> r, i |-> 1, k |-> 0,
                     error |-> "NO_ERROR", report |-> <<>>]
    BY <1>3 DEF ExecuteS3, Idle
  <2>2. /\ wanted'.ok = (HonouredBy(d, r) = Len(r.items) /\ ~ r.more)
        /\ wanted'.table = [l \in Line(hk_table) |-> wanted'.table[l]]
        /\ ToDo(d, r, 1, hk_table, wanted'.table)
        /\ wanted'.report = IF r.subservice # 9 THEN <<>>
                            ELSE [j \in 1 .. HonouredBy(d, r) |->
                                    hk_table[NamedBy(d, r.items[j])]]
    BY <1>1, <1>3, WantedIsToDo
  <2>3. DOMAIN d = Line(hk_table) /\ 0 \in Prefixes(d, r)
    BY <1>1, IDsOf, HonouredFacts
  <2>4. Reported(d, r, 1, hk_table, <<>>, wanted'.report)
    <3>1. Len(<<>>) = 1 - 1 /\ \A j : j \notin 1 .. (1 - 1)
      OBVIOUS
    <3> QED
      BY <2>2, <3>1 DEF Reported
  <2>5. Doing(d, r, executor', hk_table, wanted')
    BY <2>1, <2>2, <2>3, <2>4 DEF Doing
  <2> QED
    BY <1>1, <2>1, <2>5 DEF Applying, RequestApplied, Request
<1> QED
  BY <1>2, <1>3

LEMMA EndApplies ==
    ASSUME HousekeepingInv, Applying, EndRequest
    PROVE  Applying'
<1> DEFINE d == IDs(hk_table)
<1>1. /\ executor.pc = "item" /\ executor.i > Len(Request.items)
      /\ Answer(IF Request.more THEN "UNEXPECTED_DATA" ELSE "NO_ERROR")
      /\ UNCHANGED <<hk_table, wanted>>
  BY DEF EndRequest, ExecutorAt, NoMoreItems, KeepLines
<1>2. /\ Doing(d, Request, executor, hk_table, wanted) /\ Request \in TC3
      /\ executor.i \in Nat \ {0} /\ executor \in Handler
  BY <1>1, AtAnItem
<1>3. executor.i - 1 \in Prefixes(d, Request)
  BY <1>2 DEF Doing
<1>4. /\ Len(Request.items) \in Nat /\ Room(Request) \in Nat
      /\ Room(Request) <= Len(Request.items)
  BY <1>2, RoomTyped
<1>5. executor.i - 1 <= Room(Request)
  BY <1>3 DEF Prefixes
<1>6. executor.i - 1 = Len(Request.items) /\ ~ (executor.i <= Room(Request))
  BY <1>1, <1>2, <1>4, <1>5
<1>7. HonouredBy(d, Request) = executor.i - 1
  BY <1>2, <1>3, <1>6, PrefixEnds
<1>8. /\ wanted.ok = ~ Request.more
      /\ Reported(d, Request, executor.i, hk_table, executor.report, wanted.report)
  BY <1>2, <1>6, <1>7 DEF Doing, TC3
<1>9. executor.report = wanted.report
  <2>1. CASE Request.subservice # 9
    BY <1>8, <2>1 DEF Reported
  <2>2. CASE Request.subservice = 9
    <3> DEFINE H == HonouredBy(d, Request)
               line(j) == hk_table[NamedBy(d, Request.items[j])]
               s == executor.report
    <3>1. /\ wanted.report = [j \in 1 .. H |-> line(j)] /\ Len(s) = H
          /\ \A j \in 1 .. H : s[j] = line(j)
      BY <1>7, <1>8, <2>2 DEF Reported
    <3>2. s \in Seq(HKParam)
      BY <1>2 DEF Handler
    <3> HIDE DEF H, line, s
    <3>3. s = [j \in 1 .. Len(s) |-> s[j]]
      BY <3>2
    <3>4. s = [j \in 1 .. H |-> line(j)]
      BY <3>1, <3>3
    <3> QED
      BY <3>1, <3>4 DEF s
  <2> QED
    BY <2>1, <2>2
<1>10. Request.more \in BOOLEAN
  BY <1>2 DEF TC3
<1> QED
  BY <1>1, <1>7, <1>8, <1>9, <1>10, AnswerApplies

LEMMA RefuseApplies ==
    ASSUME HousekeepingInv, Applying, RefuseItem
    PROVE  Applying'
<1> DEFINE d == IDs(hk_table)
<1>1. /\ executor.pc = "item" /\ ~ (executor.i > Len(Request.items))
      /\ Answer("UNEXPECTED_DATA") /\ UNCHANGED <<hk_table, wanted>>
      /\ \/ Request.subservice = 9 /\ executor.i > TMRoom
         \/ ZeroRefused(Request.subservice, Item)
         \/ Item.hkid # 0 /\ ~ KnownID(Item.hkid)
  BY DEF RefuseItem, ExecutorAt, NoMoreItems, NoRoomInTM, KeepLines
<1>2. /\ Doing(d, Request, executor, hk_table, wanted) /\ Request \in TC3
      /\ executor.i \in Nat \ {0} /\ Types
  BY <1>1, AtAnItem
<1>3. executor.i - 1 \in Prefixes(d, Request)
  BY <1>2 DEF Doing
<1>4. /\ Len(Request.items) \in Nat /\ Room(Request) \in Nat
      /\ Room(Request) <= Len(Request.items)
      /\ Request.subservice = 9 => Room(Request) <= TMRoom
  BY <1>2, RoomTyped
<1>5. ~ (/\ executor.i <= Room(Request)
         /\ AcceptableBy(d, Request.subservice, Request.items[executor.i]))
  <2>1. CASE Request.subservice = 9 /\ executor.i > TMRoom
    BY <1>2, <1>4, <2>1, HousekeepingAssumption
  <2>2. CASE ZeroRefused(Request.subservice, Item)
    BY <2>2 DEF ZeroRefused, AcceptableBy, Item
  <2>3. CASE Item.hkid # 0 /\ ~ KnownID(Item.hkid)
    <3>1. ~ \E l \in DOMAIN d : d[l] = Item.hkid
      BY <1>2, <2>3, IDsOf DEF KnownID
    <3> QED
      BY <2>3, <3>1 DEF AcceptableBy, Item
  <2> QED
    BY <1>1, <2>1, <2>2, <2>3
<1>6. HonouredBy(d, Request) = executor.i - 1
  BY <1>2, <1>3, <1>5, PrefixEnds
<1>7. HonouredBy(d, Request) # Len(Request.items)
  BY <1>1, <1>2, <1>4, <1>6
<1>8. wanted.ok = FALSE
  BY <1>2, <1>7 DEF Doing
<1> QED
  BY <1>1, <1>6, <1>8, AnswerApplies

LEMMA ReturnApplies ==
    ASSUME Return
    PROVE  Applying'
BY DEF Return, KeepLines, Applying, RequestApplied, Idle, Unchanged

(* A handler goes on to the next item. *)
LEMMA NextItemApplies ==
    ASSUME HousekeepingInv, Applying, executor.pc \in {"item", "all"},
           executor.i \in Prefixes(IDs(hk_table), Request),
           IDs(hk_table') = IDs(hk_table), UNCHANGED wanted,
           executor' \in Handler, executor'.pc = "item",
           executor'.request = executor.request, executor'.i = executor.i + 1,
           executor'.error = executor.error,
           ToDo(IDs(hk_table), Request, executor.i + 1, hk_table', wanted.table),
           Reported(IDs(hk_table), Request, executor.i + 1, hk_table',
                    executor'.report, wanted.report)
    PROVE  Applying'
<1>1. Doing(IDs(hk_table), Request, executor, hk_table, wanted)
      /\ executor.i \in Nat
  BY AtAnItem
<1>2. (executor.i + 1) - 1 = executor.i
  BY <1>1
<1>3. Doing(IDs(hk_table), Request, executor', hk_table', wanted)
  BY <1>1, <1>2 DEF Doing
<1> QED
  BY <1>3 DEF Applying, RequestApplied, Request

(* The handlers never change an identifier. *)
LEMMA LineWritten ==
    ASSUME Types, NEW l \in Line(hk_table), NEW line, WriteLine(l, line),
           line.hkid = hk_table[l].hkid
    PROVE  /\ IDs(hk_table') = IDs(hk_table)
           /\ hk_table'[l] = line
           /\ \A x \in Line(hk_table) : x # l => hk_table'[x] = hk_table[x]
<1>1. /\ hk_table' = [hk_table EXCEPT ![l] = line]
      /\ hk_table \in Seq(HKParam) /\ l \in DOMAIN hk_table
  BY DEF WriteLine, Types, Line
<1>2. Len(hk_table') = Len(hk_table) /\ DOMAIN hk_table = 1 .. Len(hk_table)
  <2>1. DOMAIN hk_table' = DOMAIN hk_table
    BY <1>1
  <2>2. \E n \in Nat : DOMAIN hk_table = 1 .. n
    BY <1>1
  <2> QED
    BY <1>1, <2>1, <2>2
<1>3. \A x \in 1 .. Len(hk_table) :
        hk_table'[x] = IF x = l THEN line ELSE hk_table[x]
  BY <1>1, <1>2
<1>4. \A x \in 1 .. Len(hk_table) : hk_table'[x].hkid = hk_table[x].hkid
  BY <1>3
<1> QED
  BY <1>1, <1>2, <1>3, <1>4 DEF IDs, Line

LEMMA ServeApplies ==
    ASSUME HousekeepingInv, HousekeepingInv', Applying, ServeItem
    PROVE  Applying'
<1> DEFINE d == IDs(hk_table)
           i == executor.i
           ss == Request.subservice
<1>1. /\ executor.pc = "item" /\ ~ (executor.i > Len(Request.items))
      /\ UNCHANGED wanted
      /\ ~ NoRoomInTM /\ ~ ZeroRefused(Request.subservice, Item)
  BY DEF ServeItem, ExecutorAt, NoMoreItems
<1>2. PICK l \in Line(hk_table) :
         /\ hk_table[l].hkid = Item.hkid
         /\ IF Request.subservice = 9
              THEN /\ executor' = [executor EXCEPT !.i = @ + 1,
                                          !.report = Append(@, hk_table[l])]
                   /\ KeepLines
              ELSE /\ WriteLine(l, Commanded(Request.subservice, hk_table[l], Item))
                   /\ NextItem
  BY DEF ServeItem
<1>3. /\ Types /\ Request \in TC3 /\ executor \in Handler
      /\ \A x \in Line(hk_table) : EntryUsable(x) /\ hk_table[x] \in HKParam
      /\ i \in Nat \ {0} /\ i - 1 \in Nat
      /\ Doing(d, Request, executor, hk_table, wanted)
      /\ DOMAIN d = Line(hk_table)
  BY <1>1, AtAnItem
<1>4. /\ \A j, k \in Line(hk_table) : hk_table[j].hkid = hk_table[k].hkid => j = k
      /\ \A x \in Line(hk_table) : hk_table[x].hkid # 0
      /\ \A x \in Line(hk_table) : d[x] = hk_table[x].hkid
  BY <1>3, UniqueIDs, IDsOf
<1>5. Item = Request.items[i] /\ Item \in [hkid : Nat, rate : Nat] /\ ss \in {5, 6, 9, 31}
  <2>1. executor.i <= Len(Request.items)
    BY <1>1, <1>3, RoomTyped
  <2> QED
    BY <1>3, <2>1, ItemTyped DEF Item, TC3
<1>6. \A x \in DOMAIN d : NamesBy(d, Request.items[i], x) <=> x = l
  BY <1>2, <1>3, <1>4, <1>5 DEF NamesBy
<1>7. /\ ToDo(d, Request, i, hk_table, wanted.table) /\ i - 1 \in Prefixes(d, Request)
      /\ Reported(d, Request, i, hk_table, executor.report, wanted.report)
  BY <1>3 DEF Doing
<1>8. i \in Prefixes(d, Request)
  <2>1. i <= Room(Request)
    <3>1. ss = 9 => i <= TMRoom
      BY <1>1, <1>3, HousekeepingAssumption DEF NoRoomInTM
    <3>2. i <= Len(Request.items)
      BY <1>1, <1>3, RoomTyped
    <3> QED
      BY <1>3, <3>1, <3>2, RoomTyped
  <2>2. AcceptableBy(d, ss, Request.items[i])
    BY <1>1, <1>2, <1>3, <1>4, <1>5 DEF AcceptableBy, ZeroRefused
  <2> QED
    BY <1>3, <1>7, <2>1, <2>2, PrefixGrows
<1>9. CASE ss = 9
  <2>1. executor' = [executor EXCEPT !.i = @ + 1, !.report = Append(@, hk_table[l])]
        /\ UNCHANGED hk_table
    BY <1>2, <1>9 DEF KeepLines
  <2>2. /\ executor' \in Handler /\ executor'.pc = "item"
        /\ executor'.request = executor.request /\ executor'.i = i + 1
        /\ executor'.error = executor.error
        /\ executor'.report = Append(executor.report, hk_table[l])
        /\ executor.report \in Seq(HKParam)
    <3>1. executor.report \in Seq(HKParam) /\ hk_table[l] \in HKParam
      BY <1>3 DEF Handler
    <3>2. Append(executor.report, hk_table[l]) \in Seq(HKParam)
      BY <3>1
    <3>3. PICK report \in Seq(HKParam) : report = Append(executor.report, hk_table[l])
      BY <3>2
    <3>4. executor' = [executor EXCEPT !.i = executor.i + 1, !.report = report]
      BY <2>1, <3>3
    <3>5. /\ executor' \in Handler /\ executor'.pc = "item"
          /\ executor'.request = executor.request /\ executor'.i = i + 1
      BY <1>1, <1>3, <3>4, HandlerGoesOn
    <3>6. executor'.error = executor.error /\ executor'.report = report
      BY <1>3, <3>4 DEF Handler
    <3> QED
      BY <3>1, <3>3, <3>5, <3>6
  <2>3. ToDo(d, Request, i + 1, hk_table, wanted.table)
    <3>1. \A x \in DOMAIN d : NamesBy(d, Request.items[i], x)
            => hk_table[x] = Commanded(ss, hk_table[x], Request.items[i])
      BY <1>9 DEF Commanded
    <3> HIDE DEF d, i
    <3> QED
      BY <1>3, <1>7, <1>8, <3>1, ToDoNext
  <2>4. NamedBy(d, Request.items[i]) = l
    <3>1. l \in DOMAIN d
      BY <1>3
    <3> QED
      BY <1>6, <3>1 DEF NamedBy
  <2>5. Reported(d, Request, i + 1, hk_table, executor'.report, wanted.report)
    <3> DEFINE s == executor.report
               line == hk_table[l]
    <3>1. /\ Len(s) = i - 1 /\ s \in Seq(HKParam) /\ line \in HKParam
          /\ \A j \in 1 .. (i - 1) : s[j] = hk_table[NamedBy(d, Request.items[j])]
          /\ wanted.report = [j \in 1 .. HonouredBy(d, Request) |->
                                hk_table[NamedBy(d, Request.items[j])]]
      BY <1>3, <1>7, <1>9, <2>2 DEF Reported
    <3>2. /\ Len(Append(s, line)) = (i + 1) - 1 /\ Append(s, line)[i] = line
          /\ \A j \in 1 .. (i - 1) : Append(s, line)[j] = s[j]
      <4> HIDE DEF s, line, d, i
      <4> QED
        BY <1>3, <3>1
    <3>3. \A j \in 1 .. ((i + 1) - 1) : j \in 1 .. (i - 1) \/ j = i
      BY <1>3
    <3>4. \A j \in 1 .. ((i + 1) - 1) :
            Append(s, line)[j] = hk_table[NamedBy(d, Request.items[j])]
      <4> HIDE DEF s, d, i
      <4> QED
        BY <2>4, <3>1, <3>2, <3>3
    <3> QED
      BY <1>9, <2>2, <3>1, <3>2, <3>4 DEF Reported
  <2> QED
    BY <1>1, <1>8, <2>1, <2>2, <2>3, <2>5, NextItemApplies
<1>10. CASE ss # 9
  <2> DEFINE line == Commanded(ss, hk_table[l], Item)
  <2>1. WriteLine(l, line) /\ executor' = [executor EXCEPT !.i = @ + 1]
    BY <1>2, <1>10 DEF NextItem
  <2>2. /\ executor' \in Handler /\ executor'.pc = "item"
        /\ executor'.request = executor.request /\ executor'.i = i + 1
        /\ executor'.error = executor.error /\ executor'.report = executor.report
    BY <1>1, <1>3, <2>1 DEF Handler
  <2>3. ss \in {5, 6, 31} /\ hk_table[l] \in HKParam /\ hk_table[l].collection_rate # 0
        /\ (ss = 31 => Item.rate # 0)
    BY <1>1, <1>3, <1>5, <1>10 DEF EntryUsable, ZeroRefused
  <2>4. line.hkid = hk_table[l].hkid
    BY <1>5, <2>3, CommandedIsUsable
  <2>5. /\ IDs(hk_table') = d /\ hk_table'[l] = line
        /\ \A x \in Line(hk_table) : x # l => hk_table'[x] = hk_table[x]
    <3> HIDE DEF line
    <3> QED
      BY <1>3, <2>1, <2>4, LineWritten
  <2>6. ToDo(d, Request, i + 1, hk_table', wanted.table)
    <3>1. \A x \in DOMAIN d :
             /\ ~ NamesBy(d, Request.items[i], x) => hk_table'[x] = hk_table[x]
             /\ NamesBy(d, Request.items[i], x)
                  => hk_table'[x] = Commanded(ss, hk_table[x], Request.items[i])
      BY <1>3, <1>5, <1>6, <2>5
    <3>2. \A b : Commanded(ss, line, b) = Commanded(ss, hk_table[l], b)
      BY <1>5, <2>3, Overwritten
    <3>3. \A x \in DOMAIN d : \A m \in Nat :
            Commanded(ss, hk_table'[x], Request.items[m])
              = Commanded(ss, hk_table[x], Request.items[m])
      <4> SUFFICES ASSUME NEW x \in DOMAIN d, NEW m \in Nat
                   PROVE  Commanded(ss, hk_table'[x], Request.items[m])
                            = Commanded(ss, hk_table[x], Request.items[m])
        OBVIOUS
      <4> HIDE DEF line, d
      <4>1. CASE x = l
        BY <2>5, <3>2, <4>1
      <4>2. CASE x # l
        BY <1>3, <2>5, <4>2
      <4> QED
        BY <4>1, <4>2
    <3> HIDE DEF d, i
    <3> QED
      BY <1>3, <1>7, <1>8, <3>1, <3>3, ToDoNext
  <2>7. Reported(d, Request, i + 1, hk_table', executor'.report, wanted.report)
    BY <1>7, <1>10, <2>2 DEF Reported
  <2> QED
    BY <1>1, <1>8, <2>2, <2>5, <2>6, <2>7, NextItemApplies
<1> QED
  BY <1>9, <1>10

LEMMA EveryApplies ==
    ASSUME HousekeepingInv, HousekeepingInv', Applying, EveryLine
    PROVE  Applying'
<1> DEFINE d == IDs(hk_table)
<1>1. /\ executor.pc = "item" /\ Item.hkid = 0
      /\ executor' = [executor EXCEPT !.pc = "all", !.k = 1]
      /\ UNCHANGED <<hk_table, wanted>>
  BY DEF EveryLine, ExecutorAt, KeepLines
<1>2. /\ executor \in Handler /\ Doing(d, Request, executor, hk_table, wanted)
      /\ DOMAIN d = Line(hk_table)
  BY <1>1, AtAnItem
<1>3. /\ executor'.pc = "all" /\ executor'.request = executor.request
      /\ executor'.i = executor.i /\ executor'.k = 1
      /\ executor'.error = executor.error /\ executor'.report = executor.report
  BY <1>1, <1>2 DEF Handler
<1>4. \A l \in DOMAIN d : ~ (l < 1)
  BY <1>2 DEF Line
<1>5. Doing(d, Request, executor', hk_table, wanted)
  BY <1>1, <1>2, <1>3, <1>4 DEF Doing, Item
<1> QED
  BY <1>1, <1>3, <1>5 DEF Applying, RequestApplied, Request

LEMMA ServeEveryApplies ==
    ASSUME HousekeepingInv, HousekeepingInv', Applying, ServeEveryLine
    PROVE  Applying'
<1> DEFINE d == IDs(hk_table)
           i == executor.i
           ss == Request.subservice
<1>1. executor.pc = "all" /\ UNCHANGED wanted
  BY DEF ServeEveryLine, ExecutorAt
<1>2. /\ Types /\ Request \in TC3 /\ executor \in Handler
      /\ \A x \in Line(hk_table) : EntryUsable(x) /\ hk_table[x] \in HKParam
      /\ i \in Nat \ {0} /\ i - 1 \in Nat
      /\ Doing(d, Request, executor, hk_table, wanted)
      /\ DOMAIN d = Line(hk_table)
  BY <1>1, AtAnItem
<1>3. ss \in {5, 6} /\ i <= Len(Request.items) /\ executor.k \in Nat \ {0}
  BY <1>1, <1>2 DEF HousekeepingInv, Handling, Request, Handler
<1>4. Item = Request.items[i] /\ Item \in [hkid : Nat, rate : Nat]
  BY <1>2, <1>3, ItemTyped DEF Item
<1>5. /\ ToDo(d, Request, i, hk_table, wanted.table) /\ i - 1 \in Prefixes(d, Request)
      /\ Reported(d, Request, i, hk_table, executor.report, wanted.report)
      /\ Request.items[i].hkid = 0
      /\ \A l \in DOMAIN d : l < executor.k
           => hk_table[l] = Commanded(ss, hk_table[l], Request.items[i])
  BY <1>1, <1>2 DEF Doing
<1>6. i \in Prefixes(d, Request)
  <2>1. i <= Room(Request)
    BY <1>2, <1>3, RoomTyped
  <2>2. AcceptableBy(d, ss, Request.items[i])
    BY <1>3, <1>5 DEF AcceptableBy
  <2> QED
    BY <1>2, <1>5, <2>1, <2>2, PrefixGrows
<1>7. \A x \in DOMAIN d : NamesBy(d, Request.items[i], x)
  BY <1>5 DEF NamesBy
<1>8. CASE AllServed
  <2>1. executor' = [executor EXCEPT !.pc = "item", !.i = executor.i + 1, !.k = 0]
        /\ UNCHANGED hk_table
    BY <1>8 DEF ServeEveryLine, KeepLines
  <2>2. /\ executor' \in Handler /\ executor'.pc = "item"
        /\ executor'.request = executor.request /\ executor'.i = i + 1
        /\ executor'.error = executor.error /\ executor'.report = executor.report
    <3>1. i + 1 \in Nat
      BY <1>2
    <3> QED
      BY <1>2, <2>1, <3>1 DEF Handler
  <2>3. ToDo(d, Request, i + 1, hk_table, wanted.table)
    <3>1. \A x \in DOMAIN d : x < executor.k
      BY <1>2, <1>3, <1>8, LineTyped DEF AllServed
    <3>2. \A x \in DOMAIN d :
            hk_table[x] = Commanded(ss, hk_table[x], Request.items[i])
      BY <1>5, <3>1
    <3> HIDE DEF d, i
    <3> QED
      BY <1>2, <1>5, <1>6, <1>7, <3>2, ToDoNext
  <2>4. Reported(d, Request, i + 1, hk_table, executor'.report, wanted.report)
    BY <1>3, <1>5, <2>2 DEF Reported
  <2> QED
    BY <1>1, <1>6, <2>1, <2>2, <2>3, <2>4, NextItemApplies
<1>9. CASE ~ AllServed
  <2> DEFINE l == executor.k
             line == Commanded(ss, hk_table[l], Item)
  <2>1. WriteLine(l, line) /\ executor' = [executor EXCEPT !.k = executor.k + 1]
    BY <1>9 DEF ServeEveryLine
  <2>2. /\ executor' \in Handler /\ executor'.pc = "all"
        /\ executor'.request = executor.request /\ executor'.i = i
        /\ executor'.k = l + 1
        /\ executor'.error = executor.error /\ executor'.report = executor.report
    <3>1. l + 1 \in Nat
      BY <1>3
    <3> QED
      BY <1>1, <1>2, <2>1, <3>1 DEF Handler
  <2>3. l \in Line(hk_table) /\ Len(hk_table) \in Nat
    BY <1>2, <1>3, <1>9 DEF AllServed, Line, Types
  <2>4. hk_table[l] \in HKParam /\ hk_table[l].collection_rate # 0
    BY <1>2, <2>3 DEF EntryUsable
  <2>5. line.hkid = hk_table[l].hkid
    BY <1>3, <1>4, <2>4, CommandedIsUsable
  <2>6. /\ IDs(hk_table') = d /\ hk_table'[l] = line
        /\ \A x \in Line(hk_table) : x # l => hk_table'[x] = hk_table[x]
    <3> HIDE DEF line, l
    <3> QED
      BY <1>2, <2>1, <2>3, <2>5, LineWritten
  <2>7. \A b : Commanded(ss, line, b) = Commanded(ss, hk_table[l], b)
    BY <1>3, <1>4, <2>4, Overwritten
  <2>8. ToDo(d, Request, i, hk_table', wanted.table)
    <3>1. \A x \in DOMAIN d : \A m \in Nat :
            Commanded(ss, hk_table'[x], Request.items[m])
              = Commanded(ss, hk_table[x], Request.items[m])
      <4> SUFFICES ASSUME NEW x \in DOMAIN d, NEW m \in Nat
                   PROVE  Commanded(ss, hk_table'[x], Request.items[m])
                            = Commanded(ss, hk_table[x], Request.items[m])
        OBVIOUS
      <4> HIDE DEF line, l, d
      <4>1. CASE x = l
        BY <2>6, <2>7, <4>1
      <4>2. CASE x # l
        BY <1>2, <2>6, <4>2
      <4> QED
        BY <4>1, <4>2
    <3> HIDE DEF d, i
    <3> QED
      BY <1>2, <1>5, <1>6, <1>7, <3>1, ToDoSame
  <2>9. \A x \in DOMAIN d : x < l + 1
          => hk_table'[x] = Commanded(ss, hk_table'[x], Request.items[i])
    <3> SUFFICES ASSUME NEW x \in DOMAIN d, x < l + 1
                 PROVE  hk_table'[x] = Commanded(ss, hk_table'[x], Request.items[i])
      OBVIOUS
    <3>1. CASE x = l
      <4>1. Commanded(ss, line, Item) = line
        BY <2>7
      <4> HIDE DEF line, l, d
      <4> QED
        BY <1>4, <2>6, <3>1, <4>1
    <3>2. CASE x # l
      <4>1. x < l
        BY <1>2, <1>3, <3>2 DEF Line
      <4> HIDE DEF line
      <4> QED
        BY <1>2, <1>5, <2>6, <3>2, <4>1
    <3> QED
      BY <3>1, <3>2
  <2>10. Reported(d, Request, i, hk_table', executor'.report, wanted.report)
    BY <1>3, <1>5, <2>2 DEF Reported
  <2>11. Doing(d, Request, executor', hk_table', wanted)
    <3> HIDE DEF line
    <3> QED
      BY <1>1, <1>2, <1>5, <2>2, <2>8, <2>9, <2>10 DEF Doing
  <2> QED
    BY <1>1, <2>2, <2>6, <2>11 DEF Applying, RequestApplied, Request
<1> QED
  BY <1>8, <1>9

LEMMA ApplyingStep == HousekeepingInv /\ Applying /\ [Next]_vars => Applying'
<1> SUFFICES ASSUME HousekeepingInv, Applying, [Next]_vars
             PROVE  Applying'
  OBVIOUS
<1>1. HousekeepingInv'
  BY NextKeeps
<1>2. ASSUME UNCHANGED <<hk_table, executor, wanted>>
      PROVE  Applying'
  BY <1>2, ApplyingKept
<1>3. ASSUME NEW r \in Requests, ExecuteS3(r)
      PROVE  Applying'
  BY <1>3, StartApplies
<1>4. CASE Executor
  BY <1>1, <1>3, <1>4, EndApplies, RefuseApplies, ServeApplies, EveryApplies,
     ServeEveryApplies, ReturnApplies DEF Executor
<1>5. CASE InitS3
  BY <1>2, <1>5 DEF InitS3
<1>6. CASE EmitHKs
  BY <1>2, <1>6 DEF EmitHKs
<1>7. CASE ReadRate \/ ReadStatus \/ WriteTM \/ SignalSender
  BY <1>2, <1>7 DEF ReadRate, ReadStatus, WriteTM, SignalSender, EmitterIdle
<1>8. CASE EndCycle
  BY <1>2, <1>8 DEF EndCycle
<1>9. CASE UNCHANGED vars
  BY <1>2, <1>9 DEF vars
<1> QED
  BY <1>4, <1>5, <1>6, <1>7, <1>8, <1>9 DEF Next, Emitter

(* Whatever EmitHKs does meanwhile, a handler answers with the table that  *)
(* its request asks for: the items before the first wrong one, the later   *)
(* over the earlier, and nothing else, for every table that InitS3 accepts *)
(* and every list of items.                                                *)
THEOREM RequestAppliedHolds == Spec => []RequestApplied
<1>1. Applying => RequestApplied
  BY DEF Applying
<1>2. Spec => []HousekeepingInv
  BY InvariantHolds
<1> QED
  BY <1>1, <1>2, ApplyingStarts, ApplyingStep, PTL DEF Spec
=============================================================================
