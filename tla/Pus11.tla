------------------------------- MODULE Pus11 -------------------------------
(***************************************************************************)
(* Service 11, time-based scheduling (components/services/src/pus11.c): a  *)
(* table file holds the delayed telecommands, the schedule file holds an   *)
(* activity (date, index in the table) for each of them.  This module adds *)
(* the table and the service's calls to the schedule, whose actions it     *)
(* shares with their auxiliary variables (ScheduleOrder).  Nothing here    *)
(* depends on these, except that InterruptionLimit must be no lower than   *)
(* FaultLimit if it is not to exclude faults.                              *)
(*                                                                         *)
(* A TC of the model stands for a telecommand together with the date the   *)
(* ground asks for, DueDate[tc].  One action is one write to a file.  The  *)
(* calls are serialised; the clock and the receiver of the delayed         *)
(* telecommands act between any two steps.                                 *)
(***************************************************************************)
EXTENDS ScheduleOrder, FiniteSets

CONSTANTS
    PUS11_MAXIMUM_DATA,  \* slots in the data table
    TC,                  \* telecommands that may be scheduled
    NoTC,                \* what a zeroed slot holds
    Malformed,           \* an entry of a request whose size does not fit
    DueDate,             \* date requested for each TC
    BufferSize,          \* room in the delayed TC buffer
    MAX_UINT32,          \* what nb_data becomes when it goes below zero
    MaxRequest,          \* bound: entries of one TC(11,4)
    FaultLimit           \* bound: faults between two complete TC(11,3)

SlotIndex == 0 .. (PUS11_MAXIMUM_DATA - 1)

ASSUME Pus11Assumption ==
    /\ PUS11_MAXIMUM_DATA \in Nat \ {0}
    /\ SlotIndex \subseteq Data
    /\ NoTC \notin TC /\ Malformed \notin TC /\ Malformed # NoTC
    /\ DueDate \in [TC -> Time]
    /\ BufferSize \in Nat \ {0} /\ MaxRequest \in Nat
    /\ FaultLimit \in Nat
    /\ MAX_UINT32 \in Nat /\ MAX_UINT32 > PUS11_MAXIMUM_DATA

VARIABLES
    dataInfo,      \* the header of the data table, in its file
    slot,          \* the slots of the data table, in its file
    status,        \* pus11_env->status
    pus11_status,  \* pus11_env->pus11_status
    delayed,       \* the delayed TC buffer
    now,           \* what GetTime answers
    step,          \* where the call in progress is
    request,       \* entries of the TC(11,4) still to add
    item,          \* the TC being added or released
    data_index,    \* the slot being used
    error_code,    \* execution error code of the TC(11,4)
    reply,         \* what the last call returned, until the next one
    faults         \* auxiliary: faults since the last complete TC(11,3)

table       == <<dataInfo, slot>>
call        == <<step, request, item, data_index, error_code>>
environment == <<status, pus11_status, delayed>>
serviceVars == <<table, call, environment, now, reply>>
pus11Vars   == <<orderVars, serviceVars, faults>>

Slot     == [status : {"AVAILABLE", "UNAVAILABLE"}, tc : TC \union {NoTC}]
ZeroSlot == [status |-> "AVAILABLE", tc |-> NoTC]
Used(s)  == slot[s].status = "UNAVAILABLE"

NoReply == [value |-> "RET_SUCCESSFUL", error |-> "NO_ERROR"]

Pus11Init ==
    /\ OrderInit
    /\ dataInfo = [nb_data |-> 0, write_index |-> 0]
    /\ slot = [s \in SlotIndex |-> ZeroSlot]
    /\ status = "PUS_INITIALIZED"
    /\ pus11_status \in {"ENABLE", "DISABLE"}
    /\ delayed = <<>>
    /\ now = 0
    /\ step = "ready" /\ request = <<>> /\ item = NoTC /\ data_index = 0
    /\ error_code = "NO_ERROR"
    /\ reply = NoReply
    /\ faults = 0

Ready == step = "ready" /\ pc = "idle"

(* The call returns to its caller. *)
Reply(value, error) ==
    /\ step' = "ready" /\ request' = <<>> /\ item' = NoTC /\ data_index' = 0
    /\ error_code' = "NO_ERROR"
    /\ reply' = [value |-> value, error |-> error]

GoTo(s) == step' = s

-----------------------------------------------------------------------------
(* TC(11,1), TC(11,2): SetScheduleStatus. *)
SetScheduleStatus(new_status) ==
    /\ Ready
    /\ IF status = "PUS_INITIALIZED"
         THEN /\ pus11_status' = new_status
              /\ Reply("RET_SUCCESSFUL", "NO_ERROR")
         ELSE /\ UNCHANGED pus11_status
              /\ Reply("RET_INVALID_PARAM", "UNAVAILABLE")
    /\ UNCHANGED <<orderVars, table, status, delayed, now>>

ExecuteS11SS1 == SetScheduleStatus("ENABLE")
ExecuteS11SS2 == SetScheduleStatus("DISABLE")

-----------------------------------------------------------------------------

(* Mutant: the schedule file is not cleared. *)
ResetTableOnly ==
    /\ Ready
    /\ status = "PUS_INITIALIZED"
    /\ GoTo("zeroInfo")
    /\ UNCHANGED <<orderVars, table, environment, now, request, item,
                   data_index, error_code, reply>>

(* TC(11,3): ResetScheduleAndData, the schedule file then the table. *)
ExecuteS11SS3 ==
    /\ Ready
    /\ IF status = "PUS_INITIALIZED"
         THEN /\ OrderedReset
              /\ GoTo("zeroInfo") /\ reply' = NoReply
              /\ UNCHANGED <<request, item, data_index, error_code>>
         ELSE /\ Reply("RET_INVALID_PARAM", "NO_ERROR")
              /\ UNCHANGED orderVars
    /\ UNCHANGED <<table, environment, now>>

ZeroDataInfo ==
    /\ step = "zeroInfo"
    /\ dataInfo' = [nb_data |-> 0, write_index |-> 0]
    /\ GoTo("zeroSlots")
    /\ UNCHANGED <<orderVars, slot, request, item, data_index, error_code,
                   environment, now, reply>>

(* The zeros go out 512 bytes at a time; a slot is cleared at a time here. *)
ZeroNextSlot ==
    /\ step = "zeroSlots"
    /\ slot' = [slot EXCEPT ![data_index] = ZeroSlot]
    /\ IF data_index = PUS11_MAXIMUM_DATA - 1
         THEN Reply("RET_SUCCESSFUL", "NO_ERROR")
         ELSE /\ data_index' = data_index + 1
              /\ UNCHANGED <<step, request, item, error_code, reply>>
    /\ UNCHANGED <<orderVars, dataInfo, environment, now>>

-----------------------------------------------------------------------------
(* TC(11,4): entries are added one by one; the first failure stops the     *)
(* request and what was added before it stays.                             *)
ExecuteS11SS4(entries) ==
    /\ Ready
    /\ IF status = "PUS_INITIALIZED" /\ pus11_status = "ENABLE"
         THEN /\ request' = entries
              /\ GoTo("add") /\ reply' = NoReply
              /\ UNCHANGED <<item, data_index, error_code>>
         ELSE Reply("RET_NOT_AVAILABLE", "UNAVAILABLE")
    /\ UNCHANGED <<orderVars, table, environment, now>>

(* Ends the loop over the entries. *)
RequestDone ==
    /\ step = "add"
    /\ request = <<>>
    /\ Reply("RET_SUCCESSFUL", error_code)
    /\ UNCHANGED <<orderVars, table, environment, now>>

EntryMalformed ==
    /\ step = "add"
    /\ request # <<>>
    /\ Head(request) = Malformed
    /\ Reply("RET_INVALID_PARAM", "UNEXPECTED_DATA")
    /\ UNCHANGED <<orderVars, table, environment, now>>

(* AddSingleTC looks at the next well-formed entry. *)
Adding == step = "add" /\ request # <<>> /\ Head(request) # Malformed

EntryOutdated ==
    /\ Adding
    /\ now > DueDate[Head(request)]
    /\ Reply("RET_NOT_AVAILABLE", "UNEXPECTED_DATA")
    /\ UNCHANGED <<orderVars, table, environment, now>>

(* Mutant: the loop does not move to the next entry. *)
EntryDroppedForever ==
    /\ Adding
    /\ now <= DueDate[Head(request)]
    /\ dataInfo.nb_data >= PUS11_MAXIMUM_DATA
    /\ error_code' = "FAILED"
    /\ UNCHANGED <<orderVars, table, environment, now,
                   step, request, item, data_index, reply>>

(* The table counts as full: the error code is set but the call goes on    *)
(* with RET_SUCCESSFUL, the entry is skipped.                              *)
EntryDropped ==
    /\ Adding
    /\ now <= DueDate[Head(request)]
    /\ dataInfo.nb_data >= PUS11_MAXIMUM_DATA
    /\ request' = Tail(request)
    /\ error_code' = "FAILED"
    /\ UNCHANGED <<orderVars, table, environment, now,
                   step, item, data_index, reply>>

Admissible ==
    /\ Adding
    /\ now <= DueDate[Head(request)]
    /\ dataInfo.nb_data < PUS11_MAXIMUM_DATA

(* Mutant: the slot is not counted. *)
AllocateUncounted ==
    /\ Admissible
    /\ dataInfo.write_index \in SlotIndex
    /\ ~Used(dataInfo.write_index)
    /\ data_index' = dataInfo.write_index
    /\ dataInfo' = [dataInfo EXCEPT !.write_index = @ + 1]
    /\ item' = Head(request)
    /\ request' = Tail(request)
    /\ GoTo("store")
    /\ UNCHANGED <<orderVars, slot, error_code, environment, now, reply>>

(* AllocateDataSlot: only the slot at the write index is ever considered,  *)
(* because the loop that looks for another one has its exit condition true *)
(* from the start; the write index moves by one and never wraps.  Past the *)
(* last slot the read of the file fails.                                   *)
AllocateDataSlot ==
    /\ Admissible
    /\ dataInfo.write_index \in SlotIndex
    /\ ~Used(dataInfo.write_index)
    /\ data_index' = dataInfo.write_index
    /\ dataInfo' = [nb_data |-> dataInfo.nb_data + 1,
                    write_index |-> dataInfo.write_index + 1]
    /\ item' = Head(request)
    /\ request' = Tail(request)
    /\ GoTo("store")
    /\ UNCHANGED <<orderVars, slot, error_code, environment, now, reply>>

AllocationFails ==
    /\ Admissible
    /\ \/ /\ dataInfo.write_index \notin SlotIndex
          /\ Reply("RET_ERROR", "FAILED")
       \/ /\ dataInfo.write_index \in SlotIndex
          /\ Used(dataInfo.write_index)
          /\ Reply("RET_NOT_AVAILABLE", "FAILED")
    /\ UNCHANGED <<orderVars, table, environment, now>>

StoreTC ==
    /\ step = "store"
    /\ slot' = [slot EXCEPT ![data_index] =
                   [status |-> "UNAVAILABLE", tc |-> item]]
    /\ GoTo("push")
    /\ UNCHANGED <<orderVars, dataInfo, request, item, data_index,
                   error_code, environment, now, reply>>

CallPush ==
    /\ step = "push"
    /\ OrderedPushStart([timestamp |-> DueDate[item], data |-> data_index])
    /\ GoTo("pushing")
    /\ UNCHANGED <<table, request, item, data_index, error_code, environment,
                   now, reply>>

(* The schedule refused the activity: its slot stays used. *)
PushReturns ==
    /\ step = "pushing" /\ pc = "idle"
    /\ IF return_value = "RET_SUCCESSFUL"
         THEN /\ GoTo("add") /\ item' = NoTC /\ data_index' = 0
              /\ UNCHANGED <<request, error_code, reply>>
         ELSE Reply(return_value, "FAILED")
    /\ UNCHANGED <<orderVars, table, environment, now>>

-----------------------------------------------------------------------------
(* TryReleaseDelayedTC, called by the task that watches the schedule. *)
ReleaseRefused ==
    /\ Ready
    /\ status # "PUS_INITIALIZED" \/ pus11_status # "ENABLE"
    /\ Reply("RET_INVALID_PARAM", "NO_ERROR")
    /\ UNCHANGED <<orderVars, table, environment, now>>

(* Mutant: telecommands are released while the service is disabled. *)
ReleaseWhenDisabled ==
    /\ Ready
    /\ status = "PUS_INITIALIZED"
    /\ OrderedPopStart(now)
    /\ GoTo("popping") /\ reply' = NoReply
    /\ UNCHANGED <<table, request, item, data_index, error_code, environment,
                   now>>

TryReleaseDelayedTC ==
    /\ Ready
    /\ status = "PUS_INITIALIZED" /\ pus11_status = "ENABLE"
    /\ OrderedPopStart(now)
    /\ GoTo("popping") /\ reply' = NoReply
    /\ UNCHANGED <<table, request, item, data_index, error_code, environment,
                   now>>

(* TryPopNextTC: nothing to release, or an index outside the table. *)
PopFails ==
    /\ step = "popping" /\ pc = "idle"
    /\ return_value # "RET_SUCCESSFUL" \/ released.data \notin SlotIndex
    /\ Reply(IF return_value # "RET_SUCCESSFUL" THEN return_value
                                               ELSE "RET_ERROR", "NO_ERROR")
    /\ UNCHANGED <<orderVars, table, environment, now>>

(* Mutant: the telecommand is read from its slot, another one is freed. *)
FreeWrongSlot ==
    /\ step = "popping" /\ pc = "idle"
    /\ return_value = "RET_SUCCESSFUL" /\ released.data \in SlotIndex
    /\ item' = slot[released.data].tc
    /\ slot' = [slot EXCEPT ![data_index] = ZeroSlot]
    /\ GoTo("uncountData")
    /\ UNCHANGED <<orderVars, dataInfo, request, data_index, error_code,
                   environment, now, reply>>

(* Mutant: the slot is emptied but still marked as used. *)
FreeSlotStillUsed ==
    /\ step = "popping" /\ pc = "idle"
    /\ return_value = "RET_SUCCESSFUL" /\ released.data \in SlotIndex
    /\ item' = slot[released.data].tc
    /\ slot' = [slot EXCEPT ![released.data].tc = NoTC]
    /\ GoTo("uncountData")
    /\ UNCHANGED <<orderVars, dataInfo, request, data_index, error_code,
                   environment, now, reply>>

FreeSlot ==
    /\ step = "popping" /\ pc = "idle"
    /\ return_value = "RET_SUCCESSFUL" /\ released.data \in SlotIndex
    /\ item' = slot[released.data].tc
    /\ slot' = [slot EXCEPT ![released.data] = ZeroSlot]
    /\ GoTo("uncountData")
    /\ UNCHANGED <<orderVars, dataInfo, request, data_index, error_code,
                   environment, now, reply>>

UncountData ==
    /\ step = "uncountData"
    /\ dataInfo' = [nb_data |-> IF dataInfo.nb_data = 0 THEN MAX_UINT32
                                ELSE dataInfo.nb_data - 1,
                    write_index |-> dataInfo.write_index]
    /\ GoTo("deliver")
    /\ UNCHANGED <<orderVars, slot, request, item, data_index, error_code,
                   environment, now, reply>>

(* The telecommand has already left the schedule and the table. *)
Deliver ==
    /\ step = "deliver"
    /\ IF Len(delayed) < BufferSize
         THEN /\ delayed' = Append(delayed, item)
              /\ Reply("RET_SUCCESSFUL", "NO_ERROR")
         ELSE /\ UNCHANGED delayed
              /\ Reply("RET_ERROR", "NO_ERROR")
    /\ UNCHANGED <<orderVars, table, status, pus11_status, now>>

-----------------------------------------------------------------------------
(* The schedule's own steps inside a push or a pop. *)
ScheduleWorks == OrderedContinue /\ UNCHANGED serviceVars

(* The receiver takes a delayed telecommand (ReceiveTC). *)
ReceiverTakes ==
    /\ delayed # <<>>
    /\ delayed' = Tail(delayed)
    /\ UNCHANGED <<orderVars, table, call, status, pus11_status, now, reply>>

(* Time passes, or TC(9,128) sets the clock, forward or back. *)
ClockMoves(t) ==
    /\ now' = t
    /\ UNCHANGED <<orderVars, table, call, environment, reply>>

(* The telecommands the ground may ask for: one it asked for before is not *)
(* asked for again while the spacecraft still holds it.                    *)
Held(tc) == \/ \E s \in SlotIndex : slot[s].tc = tc
            \/ \E k \in 1 .. Len(delayed) : delayed[k] = tc

Requests ==
    {entries \in UNION {[1 .. n -> TC \union {Malformed}] : n \in 0 .. MaxRequest} :
        /\ \A k \in 1 .. Len(entries) : ~Held(entries[k])
        /\ \A j, k \in 1 .. Len(entries) : entries[j] = entries[k] => j = k}

ServiceContinues ==
    \/ ZeroDataInfo \/ ZeroNextSlot
    \/ RequestDone \/ EntryMalformed \/ EntryOutdated \/ EntryDropped
    \/ AllocateDataSlot \/ AllocationFails \/ StoreTC \/ CallPush \/ PushReturns
    \/ PopFails \/ FreeSlot \/ UncountData \/ Deliver
    \/ ScheduleWorks

Pus11Next ==
    \/ ExecuteS11SS1 \/ ExecuteS11SS2 \/ ExecuteS11SS3
    \/ \E entries \in Requests : ExecuteS11SS4(entries)
    \/ ReleaseRefused \/ TryReleaseDelayedTC
    \/ ServiceContinues
    \/ ReceiverTakes
    \/ \E t \in Time : ClockMoves(t)

(* A device access of the call in progress fails. *)
DeviceFails ==
    /\ step # "ready"
    /\ OrderedInterrupt
    /\ IF step \in {"zeroInfo", "zeroSlots"}
         THEN Reply("RET_NOT_AVAILABLE", "FAILED")
         ELSE Reply("RET_ERROR", "FAILED")
    /\ UNCHANGED <<table, environment, now>>

(* The telecommand is in the buffer but its receiver cannot be signalled.  *)
SignalFails ==
    /\ step = "deliver"
    /\ Len(delayed) < BufferSize
    /\ delayed' = Append(delayed, item)
    /\ Reply("RET_ERROR", "NO_ERROR")
    /\ UNCHANGED <<orderVars, table, status, pus11_status, now>>

(* The power goes and comes back; InitS11 finds both files complete and    *)
(* keeps them.  What was in memory is lost.                                *)
Restart ==
    /\ OrderedInterrupt
    /\ Reply("RET_SUCCESSFUL", "NO_ERROR")
    /\ delayed' = <<>>
    /\ status' \in {"PUS_INITIALIZED", "PUS_ERROR"}
    /\ pus11_status' \in {"ENABLE", "DISABLE"}
    /\ UNCHANGED <<table, now>>

(* A TC(11,3) that ends without a fault mends what faults did before.      *)
Counted(A) ==
    /\ A
    /\ faults' = IF step = "zeroSlots" /\ step' = "ready" THEN 0 ELSE faults

Fault ==
    /\ DeviceFails \/ Restart
    /\ faults < FaultLimit
    /\ faults' = faults + 1

Pus11Spec == Pus11Init /\ [][Counted(Pus11Next)]_pus11Vars

FaultyStep == Counted(Pus11Next \/ SignalFails) \/ Fault

Pus11FaultySpec ==
    /\ Pus11Init
    /\ [][FaultyStep]_pus11Vars
    /\ WF_pus11Vars(Counted(ServiceContinues))

-----------------------------------------------------------------------------
Pus11TypeOK ==
    /\ ScheduleTypeOK
    /\ dataInfo \in [nb_data : 0 .. PUS11_MAXIMUM_DATA,
                     write_index : 0 .. PUS11_MAXIMUM_DATA]
    /\ slot \in [SlotIndex -> Slot]
    /\ status \in {"PUS_INITIALIZED", "PUS_ERROR"}
    /\ pus11_status \in {"ENABLE", "DISABLE"}
    /\ delayed \in Seq(TC \union {NoTC}) /\ Len(delayed) <= BufferSize
    /\ now \in Time
    /\ request \in Seq(TC \union {Malformed})
    /\ item \in TC \union {NoTC}
    /\ data_index \in SlotIndex
    /\ step # "ready" \/ pc = "idle"

ScheduledSlot(i) == node[i].activity.data

(* Unless a call was interrupted since the last complete reset, every      *)
(* activity of the schedule has a slot of its own, in use, whose           *)
(* telecommand is the one asked for at that date.                          *)
ActivitiesHaveTheirTC ==
    \A i \in NodeIndex : Occupied(i) /\ faults = 0 =>
       /\ ScheduledSlot(i) \in SlotIndex
       /\ Used(ScheduledSlot(i))
       /\ slot[ScheduledSlot(i)].tc \in TC
       /\ node[i].activity.timestamp = DueDate[slot[ScheduledSlot(i)].tc]
       /\ \A j \in NodeIndex :
             Occupied(j) /\ ScheduledSlot(j) = ScheduledSlot(i) => i = j

(* Unless a call was interrupted since the last complete reset, between    *)
(* two calls the table counts its used slots and the schedule has as many  *)
(* activities, unless pushes were refused.                                 *)
CountsAgree ==
    Ready /\ faults = 0 =>
             /\ dataInfo.nb_data =
                  Cardinality({s \in SlotIndex : Used(s)})
             /\ info.nb_activities <= dataInfo.nb_data

(* Whatever was interrupted, the table counts at least as many telecommands*)
(* as the schedule has activities: the count, an unsigned integer, never   *)
(* goes below zero when a telecommand is released.                         *)
DataCountCoversSchedule ==
    step \notin {"zeroInfo", "zeroSlots"} =>
       info.nb_activities
         + (IF step = "popping" /\ pc \in {"report", "idle"} /\ return_value = "RET_SUCCESSFUL" THEN 1 ELSE 0)
         + (IF step = "uncountData" THEN 1 ELSE 0) <= dataInfo.nb_data

(* What an observer sees of the service: the promise holds until a call is *)
(* interrupted, and again from the next complete reset on.                 *)
InHand ==
    IF step \in {"uncountData", "deliver"} THEN item
    ELSE IF step = "popping" /\ (\/ pc \in PopSteps
                                 \/ return_value = "RET_SUCCESSFUL")
      THEN slot[released.data].tc
    ELSE NoTC

Promise == INSTANCE DelayedCommands WITH
    pending <- {slot[ScheduledSlot(i)].tc : i \in {n \in NodeIndex : Occupied(n)}},
    inHand <- InHand,
    buffer <- delayed,
    enabled <- (pus11_status = "ENABLE"),
    broken <- (faults > 0)

KeepsPromise == Promise!Spec

(* A telecommand is popped from the schedule if found to be on time        *)
(* (pus11.h:124): when the clock is looked at, the telecommand in the slot *)
(* that is going to be read is due.                                        *)
ReleasedOnTime ==
    [][(pc = "idle" /\ pc' = "unlink" /\ slot[released'.data].tc \in TC)
          => DueDate[slot[released'.data].tc] <= now]_pus11Vars

(* AllocateDataSlot gives the closest available slot from the write index  *)
(* (pus11.c:513) and fails when none is available (pus11.c:517).           *)
AllocationFindsFreeSlot ==
    Admissible /\ (\E s \in SlotIndex : ~Used(s)) =>
       dataInfo.write_index \in SlotIndex /\ ~Used(dataInfo.write_index)

(* Whatever fails, a call of the service ends: every loop of the handlers  *)
(* and of the schedule under them is bounded.                              *)
ServiceAnswers == step # "ready" ~> step = "ready"
=============================================================================
