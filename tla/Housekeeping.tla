----------------------------- MODULE Housekeeping -----------------------------
(***************************************************************************)
(* Service 3, housekeeping (components/services/src/pus3.c).  A periodic   *)
(* task calls EmitHKs, which reports every line of the table that is       *)
(* enabled and due in this cycle.  The task that executes telecommands     *)
(* meanwhile enables and disables lines (TC(3,5), TC(3,6)), changes their  *)
(* rates (TC(3,31)) and reports their parameters (TC(3,9)), without a      *)
(* lock: one action is one access to the table or to the device.  The      *)
(* bisection GetLinenoFromHKID is the one of Tables; here it is its result.*)
(***************************************************************************)
EXTENDS Integers, Sequences, FiniteSetsExt

CONSTANTS
    HKTables,       \* the tables a project may configure
    Requests,       \* the TCs of the ground: their items, and whether N
                    \* announces more items than a TC has room for
    CycleModulus,   \* bound: the cycle is a uint32_t
    TMRoom          \* lines a TM(3,10) has room for

Line(table) == 1..Len(table)

HKParam == [hkid : Nat, status : {"ENABLE", "DISABLE"},
            collection_rate : Nat, sound : BOOLEAN]
TC3     == [subservice : {5, 6, 9, 31}, short : BOOLEAN,
            items : Seq([hkid : Nat, rate : Nat]), more : BOOLEAN]

ASSUME HousekeepingAssumption ==
    /\ HKTables \subseteq Seq(HKParam) /\ Requests \subseteq TC3
    /\ CycleModulus \in Nat \ {0} /\ TMRoom \in Nat

VARIABLES
    status, cycle,   \* of pus3Env_t
    hk_table,        \* of pus3Env_t: sound says that size and p_addr are
    emitter,         \* EmitHKs: pc, the line i, whether something failed
    executor,        \* ExecuteS3SSx: pc, request, items done, line k of
                     \* "every HK", error_code, and the lines of TM(3,10)
    wanted,          \* auxiliary: what the request should lead to
    age,             \* auxiliary: calls of EmitHKs since the line was last
                     \* reported, changed or missed; -1 during such a call
    seen             \* auxiliary: lines that were enabled, and that were
                     \* due, at some moment of the current call

emitVars == <<cycle, emitter>>
vars     == <<status, cycle, hk_table, emitter, executor, wanted, age, seen>>

Enabled(l) == hk_table[l].status = "ENABLE"

(* Mutant: lines are due at the end of their period. *)
DueAtTheEnd(l) == cycle % hk_table[l].collection_rate = hk_table[l].collection_rate - 1

Due(l) == cycle % hk_table[l].collection_rate = 0

NoRequest == [subservice |-> 0, short |-> FALSE, items |-> <<>>, more |-> FALSE]
Idle      == [pc |-> "idle", request |-> NoRequest, i |-> 0, k |-> 0,
              error |-> "NO_ERROR", report |-> <<>>]
Unchanged(table) == [table |-> table, ok |-> TRUE, report |-> <<>>]
Nothing   == [enabled |-> {}, due |-> {}]

Init ==
    /\ hk_table \in HKTables
    /\ status = "PUS_NOT_INITIALIZED" /\ cycle = 0
    /\ emitter = [pc |-> "idle", i |-> 0, failed |-> FALSE]
    /\ executor = Idle /\ wanted = Unchanged(hk_table)
    /\ age = [l \in Line(hk_table) |-> 0] /\ seen = Nothing

-----------------------------------------------------------------------------
(* InitS3: the device, then the first entry, then each entry and the order. *)

EntryUsable(l) ==
    /\ hk_table[l].hkid > (IF l = 1 THEN 0 ELSE hk_table[l - 1].hkid)
    /\ hk_table[l].collection_rate # 0
    /\ hk_table[l].sound

InitS3 ==
    /\ status # "PUS_INITIALIZED" /\ emitter.pc = "idle" /\ executor.pc = "idle"
    /\ Len(hk_table) # 0 /\ \A l \in Line(hk_table) : EntryUsable(l)
    /\ status' = "PUS_INITIALIZED" /\ cycle' = 0
    /\ UNCHANGED <<hk_table, emitter, executor, wanted, age, seen>>

-----------------------------------------------------------------------------
(* EmitHKs.  For each line: the rate, then the status, then the write of   *)
(* the TM(3,25) and the signal to its sender.  A call that finds the       *)
(* service uninitialised returns at once.  A failure ends the loop, and    *)
(* the lines behind it miss this cycle.                                    *)

EmitterAt(pc)      == emitter.pc = pc
EmitterGoes(pc, i) == emitter' = [emitter EXCEPT !.pc = pc, !.i = i]
NextLine           == EmitterGoes("rate", emitter.i + 1)
EmitterFails       == emitter' = [emitter EXCEPT !.pc = "end", !.failed = TRUE]
Calling            == emitter.pc # "idle"

EmitHKs ==
    /\ EmitterAt("idle") /\ status = "PUS_INITIALIZED"
    /\ EmitterGoes("rate", 1)
    /\ seen' = [enabled |-> {l \in Line(hk_table) : Enabled(l)},
                due |-> {l \in Line(hk_table) : Due(l)}]
    /\ UNCHANGED <<status, cycle, hk_table, executor, wanted, age>>

EmitterIdle == UNCHANGED <<status, cycle, hk_table, executor, wanted, seen>>

ReadRate ==
    /\ EmitterAt("rate") /\ emitter.i \in Line(hk_table)
    /\ IF Due(emitter.i) THEN EmitterGoes("status", emitter.i) ELSE NextLine
    /\ UNCHANGED age /\ EmitterIdle

(* Mutant: a line is reported whatever its status. *)
StatusForgotten(l) == TRUE

ToReport(l) == Enabled(l)

ReadStatus ==
    /\ EmitterAt("status")
    /\ IF ToReport(emitter.i) THEN EmitterGoes("write", emitter.i) ELSE NextLine
    /\ UNCHANGED age /\ EmitterIdle

WriteTM ==
    /\ EmitterAt("write")
    /\ \/ EmitterGoes("signal", emitter.i) /\ age' = [age EXCEPT ![emitter.i] = -1]
       \/ EmitterFails /\ UNCHANGED age
    /\ EmitterIdle

SignalSender ==
    /\ EmitterAt("signal")
    /\ NextLine \/ EmitterFails
    /\ UNCHANGED age /\ EmitterIdle

(* A line that the loop did not serve to its end starts a new count. *)
Missed(l) == emitter.failed /\ l >= emitter.i
Older(l)  == IF Missed(l) \/ ~ Enabled(l) THEN 0 ELSE age[l] + 1

EndCycle ==
    /\ EmitterAt("end") \/ (EmitterAt("rate") /\ emitter.i > Len(hk_table))
    /\ emitter' = [pc |-> "idle", i |-> 0, failed |-> FALSE]
    /\ cycle' = (cycle + 1) % CycleModulus
    /\ age' = [l \in Line(hk_table) |-> Older(l)]
    /\ seen' = Nothing
    /\ UNCHANGED <<status, hk_table, executor, wanted>>

-----------------------------------------------------------------------------
(* What a request asks for, as the reference for its execution: its items  *)
(* up to the first that is not acceptable, each later one over the earlier.*)

Names(item, l) == item.hkid = 0 \/ item.hkid = hk_table[l].hkid
KnownID(hkid)  == \E l \in Line(hk_table) : hk_table[l].hkid = hkid

Acceptable(subservice, item) ==
    CASE subservice \in {5, 6} -> item.hkid = 0 \/ KnownID(item.hkid)
      [] subservice = 9        -> item.hkid # 0 /\ KnownID(item.hkid)
      [] subservice = 31       -> /\ item.hkid # 0 /\ KnownID(item.hkid)
                                  /\ item.rate # 0

Room(r) == IF r.subservice = 9 THEN Min({TMRoom, Len(r.items)}) ELSE Len(r.items)

Honoured(r) ==
    Max({n \in 0..Room(r) : \A i \in 1..n : Acceptable(r.subservice, r.items[i])})

Commanded(subservice, line, item) ==
    CASE subservice = 5  -> [line EXCEPT !.status = "ENABLE"]
      [] subservice = 6  -> [line EXCEPT !.status = "DISABLE"]
      [] subservice = 31 -> [line EXCEPT !.collection_rate = item.rate]
      [] subservice = 9  -> line

Wanted(r) ==
    LET naming(l) == {i \in 1..Honoured(r) : Names(r.items[i], l)}
        named(i)  == CHOOSE l \in Line(hk_table) : Names(r.items[i], l)
    IN IF r.short \/ status # "PUS_INITIALIZED"
       THEN [table |-> hk_table, ok |-> FALSE, report |-> <<>>]
       ELSE [table |-> [l \in Line(hk_table) |->
                IF naming(l) = {} THEN hk_table[l]
                ELSE Commanded(r.subservice, hk_table[l], r.items[Max(naming(l))])],
             ok |-> Honoured(r) = Len(r.items) /\ ~ r.more,
             report |-> IF r.subservice # 9 THEN <<>>
                        ELSE [i \in 1..Honoured(r) |-> hk_table[named(i)]]]

-----------------------------------------------------------------------------
(* ExecuteS3SS5, SS6, SS9 and SS31: one loop over the items of the request.*)

ExecutorAt(pc) == executor.pc = pc
Request        == executor.request
Item           == Request.items[executor.i]
ExecutorIdle   == UNCHANGED <<status, cycle, emitter>>

Answer(error) == executor' = [executor EXCEPT !.pc = "answer", !.error = error]

ExecuteS3(r) ==
    /\ ExecutorAt("idle")
    /\ wanted' = Wanted(r)
    /\ executor' =
         IF r.short THEN [Idle EXCEPT !.pc = "answer", !.request = r, !.error = "UNEXPECTED_DATA"]
         ELSE IF status # "PUS_INITIALIZED"
           THEN [Idle EXCEPT !.pc = "answer", !.request = r, !.error = "UNAVAILABLE"]
         ELSE [Idle EXCEPT !.pc = "item", !.request = r, !.i = 1]
    /\ ExecutorIdle /\ UNCHANGED <<hk_table, age, seen>>

NoMoreItems  == executor.i > Len(Request.items)
NextItem     == executor' = [executor EXCEPT !.i = @ + 1]
NoRoomInTM   == Request.subservice = 9 /\ executor.i > TMRoom

(* One write to the table, and what it means for the auxiliary variables. *)
WriteLine(l, line) ==
    /\ hk_table' = [hk_table EXCEPT ![l] = line]
    /\ age' = [age EXCEPT ![l] = IF Calling THEN -1 ELSE 0]
    /\ seen' = IF ~ Calling THEN seen
               ELSE [enabled |-> seen.enabled \union {j \in {l} : Enabled(j)'},
                     due |-> seen.due \union
                          {j \in {l} : line.collection_rate # 0 /\ Due(j)'}]

KeepLines == UNCHANGED <<hk_table, age, seen>>

EndRequest ==
    /\ ExecutorAt("item") /\ NoMoreItems
    /\ Answer(IF Request.more THEN "UNEXPECTED_DATA" ELSE "NO_ERROR")
    /\ KeepLines /\ ExecutorIdle /\ UNCHANGED wanted

(* Mutant: a rate of zero is accepted. *)
ZeroIDOnly(subservice, item) == subservice \in {9, 31} /\ item.hkid = 0

ZeroRefused(subservice, item) ==
    \/ subservice \in {9, 31} /\ item.hkid = 0
    \/ subservice = 31 /\ item.rate = 0

RefuseItem ==
    /\ ExecutorAt("item") /\ ~ NoMoreItems
    /\ \/ NoRoomInTM
       \/ ZeroRefused(Request.subservice, Item)
       \/ Item.hkid # 0 /\ ~ KnownID(Item.hkid)
    /\ Answer("UNEXPECTED_DATA")
    /\ KeepLines /\ ExecutorIdle /\ UNCHANGED wanted

ServeItem ==
    /\ ExecutorAt("item") /\ ~ NoMoreItems
    /\ ExecutorIdle /\ UNCHANGED wanted
    /\ ~ NoRoomInTM /\ ~ ZeroRefused(Request.subservice, Item)
    /\ \E l \in Line(hk_table) :
         /\ hk_table[l].hkid = Item.hkid
         /\ IF Request.subservice = 9
              THEN /\ executor' = [executor EXCEPT !.i = @ + 1,
                                          !.report = Append(@, hk_table[l])]
                   /\ KeepLines
              ELSE /\ WriteLine(l, Commanded(Request.subservice, hk_table[l], Item))
                   /\ NextItem

(* HKID 0 of TC(3,5) and TC(3,6): every line, one after the other. *)
EveryLine ==
    /\ ExecutorAt("item") /\ ~ NoMoreItems
    /\ Request.subservice \in {5, 6} /\ Item.hkid = 0
    /\ executor' = [executor EXCEPT !.pc = "all", !.k = 1]
    /\ KeepLines /\ ExecutorIdle /\ UNCHANGED wanted

(* Mutant: the loop over the lines stops one line too early. *)
AllButOne == executor.k >= Len(hk_table)

AllServed == executor.k > Len(hk_table)

ServeEveryLine ==
    /\ ExecutorAt("all") /\ ExecutorIdle /\ UNCHANGED wanted
    /\ IF AllServed
         THEN /\ executor' = [executor EXCEPT !.pc = "item", !.i = @ + 1, !.k = 0]
              /\ KeepLines
         ELSE /\ WriteLine(executor.k, Commanded(Request.subservice, hk_table[executor.k], Item))
              /\ executor' = [executor EXCEPT !.k = @ + 1]

(* Back to ExecuteTC, which reports the answer to the ground. *)
Return ==
    /\ ExecutorAt("answer")
    /\ executor' = Idle /\ wanted' = Unchanged(hk_table)
    /\ KeepLines /\ ExecutorIdle

-----------------------------------------------------------------------------

Emitter  == EmitHKs \/ ReadRate \/ ReadStatus \/ WriteTM \/ SignalSender \/ EndCycle
Executor == \/ \E r \in Requests : ExecuteS3(r)
            \/ EndRequest \/ RefuseItem \/ ServeItem
            \/ EveryLine \/ ServeEveryLine \/ Return

Next == InitS3 \/ Emitter \/ Executor
Spec == Init /\ [][Next]_vars

-----------------------------------------------------------------------------

(* The variables keep their types; an initialised service has the table it *)
(* checked, with identifiers in order, and no rate is ever zero: EmitHKs   *)
(* divides by it.                                                          *)
HousekeepingTypeOK ==
    /\ status \in {"PUS_NOT_INITIALIZED", "PUS_INITIALIZED"}
    /\ cycle \in 0..(CycleModulus - 1)
    /\ emitter.i \in 0..(Len(hk_table) + 1)
    /\ \A l \in Line(hk_table) : age[l] >= -1
    /\ seen.enabled \union seen.due \subseteq Line(hk_table)
    /\ status = "PUS_INITIALIZED" =>
         \A l \in Line(hk_table) :
           /\ EntryUsable(l) /\ hk_table[l].collection_rate \in Nat \ {0}
           /\ hk_table[l].status \in {"ENABLE", "DISABLE"}

(* Between two reports of a line, or since the ground last changed it,     *)
(* EmitHKs completes fewer calls than the rate of the line, unless a       *)
(* failure cut one of them short: no change of another line, no moment at  *)
(* which a telecommand falls and no wrap of the cycle makes a report late. *)
NeverLate ==
    \A l \in Line(hk_table) :
      status = "PUS_INITIALIZED" /\ ~ Calling /\ Enabled(l)
        => age[l] < hk_table[l].collection_rate

(* A report is emitted only for a line that was enabled, and was due, at   *)
(* some moment of the call that emits it: the answer to TC(3,6) is the     *)
(* last the ground hears of a line once the current call has ended.        *)
EmittedIfAsked ==
    [][emitter.pc = "write" /\ emitter'.pc = "signal"
         => emitter.i \in seen.enabled \intersect seen.due]_vars

(* When a handler answers, the table holds the items of the request up to  *)
(* the first that is wrong, the last of two items for the same line being  *)
(* the one that counts, and nothing else has changed; the answer is a      *)
(* success exactly if no item was wrong, a failure names its error, and a  *)
(* TM(3,10) holds the parameters of the lines asked for, in order.         *)
RequestApplied ==
    executor.pc \in {"idle", "answer"} =>
      /\ hk_table = wanted.table
      /\ (executor.error = "NO_ERROR") = wanted.ok
      /\ wanted.ok => executor.report = wanted.report
=============================================================================
