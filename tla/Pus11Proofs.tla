----------------------------- MODULE Pus11Proofs -----------------------------
(***************************************************************************)
(* Proofs about service 11, for every capacity of the schedule and of the  *)
(* table, every set of telecommands and dates, and any number of faults.   *)
(* What the schedule does inside a call is not looked at again: a step of  *)
(* the service is a step of the schedule, whose invariants carry over.     *)
(***************************************************************************)
EXTENDS Pus11, ScheduleProofs

Steps == {"ready", "zeroInfo", "zeroSlots", "add", "store", "push", "pushing",
          "popping", "uncountData", "deliver"}

Zeroing == step \in {"zeroInfo", "zeroSlots"}

(* Where the schedule is, given where the service is. *)
Phases ==
    /\ step \in Steps
    /\ pc \in PushSteps => step = "pushing"
    /\ pc \in PopSteps => step = "popping"
    /\ step \in {"store", "push", "pushing"} => item \in TC
    /\ step \in {"ready", "zeroInfo"} => data_index = 0
    /\ step = "ready" \/ Zeroing => request = <<>>
    /\ step # "ready" /\ ~Zeroing => pus11_status = "ENABLE"

(* The count of the table goes up before the schedule's and down after it. *)
CountsApart ==
    /\ info.nb_activities <= dataInfo.nb_data
    /\ Zeroing => info.nb_activities = 0
    /\ \/ step \in {"store", "push", "uncountData"}
       \/ pc \in PushSteps \/ pc = "report"
       \/ step = "popping" /\ pc = "idle" /\ return_value = "RET_SUCCESSFUL"
       => info.nb_activities + 1 <= dataInfo.nb_data

(* The conjuncts of Pus11TypeOK about the service. *)
ServiceTyped ==
    /\ dataInfo \in [nb_data : 0 .. PUS11_MAXIMUM_DATA,
                     write_index : 0 .. PUS11_MAXIMUM_DATA]
    /\ slot \in [SlotIndex -> Slot]
    /\ status \in {"PUS_INITIALIZED", "PUS_ERROR"}
    /\ pus11_status \in {"ENABLE", "DISABLE"}
    /\ delayed \in Seq(TC \union {NoTC}) /\ Len(delayed) <= BufferSize
    /\ now \in Time
    /\ request \in Seq(TC \union {Malformed})
    /\ item \in TC \union {NoTC}
    /\ data_index \in SlotIndex
    /\ step # "ready" \/ pc = "idle"

Pus11TypeInv ==
    /\ TypeInv
    /\ ServiceTyped
    /\ faults \in Nat
    /\ Phases
    /\ CountsApart

-----------------------------------------------------------------------------
(* The service and the schedule under it. *)

(* The steps of the service in which the schedule does nothing. *)
ServiceAlone ==
    \/ ExecuteS11SS1 \/ ExecuteS11SS2
    \/ ExecuteS11SS3 /\ status # "PUS_INITIALIZED"
    \/ ZeroDataInfo \/ ZeroNextSlot
    \/ \E entries \in Requests : ExecuteS11SS4(entries)
    \/ RequestDone \/ EntryMalformed \/ EntryOutdated \/ EntryDropped
    \/ AllocateDataSlot \/ AllocationFails \/ StoreTC \/ PushReturns
    \/ ReleaseRefused \/ PopFails \/ FreeSlot \/ UncountData
    \/ Deliver \/ SignalFails
    \/ ReceiverTakes \/ \E t \in Time : ClockMoves(t)

StartReset == ExecuteS11SS3 /\ status = "PUS_INITIALIZED"

LEMMA FaultySplit ==
    ASSUME FaultyStep
    PROVE  \/ Counted(ServiceAlone)
           \/ Counted(StartReset)
           \/ Counted(CallPush) \/ Counted(TryReleaseDelayedTC)
           \/ Counted(ScheduleWorks)
           \/ Fault
BY DEF FaultyStep, Counted, Pus11Next, ServiceContinues, ServiceAlone,
       StartReset

LEMMA AloneLeavesSchedule ==
    ASSUME ServiceAlone
    PROVE  UNCHANGED orderVars
BY DEF ServiceAlone, ExecuteS11SS1, ExecuteS11SS2, SetScheduleStatus,
       ExecuteS11SS3, ZeroDataInfo, ZeroNextSlot, ExecuteS11SS4, RequestDone,
       EntryMalformed, EntryOutdated, EntryDropped, AllocateDataSlot,
       AllocationFails, StoreTC, PushReturns, ReleaseRefused, PopFails, FreeSlot,
       UncountData, Deliver, SignalFails, ReceiverTakes, ClockMoves

(* A step of the service is a step of the schedule or leaves it alone. *)
LEMMA ScheduleStep ==
    ASSUME Pus11TypeInv, [FaultyStep]_pus11Vars
    PROVE  [OrderedFaultyNext]_orderVars
<1>1. CASE UNCHANGED pus11Vars
  BY <1>1 DEF pus11Vars
<1>2. CASE Counted(ServiceAlone)
  BY <1>2, AloneLeavesSchedule DEF Counted
<1>3. CASE Counted(StartReset)
  BY <1>3 DEF Counted, StartReset, ExecuteS11SS3, OrderedFaultyNext, OrderedNext
<1>4. CASE Counted(CallPush)
  <2>1. /\ step = "push"
        /\ OrderedPushStart([timestamp |-> DueDate[item], data |-> data_index])
    BY <1>4 DEF Counted, CallPush
  <2>2. item \in TC /\ data_index \in Data
    BY <2>1, Pus11Assumption DEF Pus11TypeInv, Phases, ServiceTyped
  <2>3. [timestamp |-> DueDate[item], data |-> data_index] \in Activity
    BY <2>2, Pus11Assumption DEF Activity
  <2> QED
    BY <2>1, <2>3 DEF OrderedFaultyNext, OrderedNext
<1>5. CASE Counted(TryReleaseDelayedTC)
  BY <1>5 DEF Counted, TryReleaseDelayedTC, OrderedFaultyNext, OrderedNext,
              Pus11TypeInv, ServiceTyped
<1>6. CASE Counted(ScheduleWorks)
  BY <1>6 DEF Counted, ScheduleWorks, OrderedFaultyNext, OrderedNext
<1>7. CASE Fault
  BY <1>7 DEF Fault, DeviceFails, Restart, OrderedFaultyNext
<1> QED
  BY <1>1, <1>2, <1>3, <1>4, <1>5, <1>6, <1>7, FaultySplit

-----------------------------------------------------------------------------
(* Types, and the count of the table against that of the schedule.         *)

LEMMA Bounds ==
    ASSUME Pus11TypeInv
    PROVE  /\ info.nb_activities \in Nat
           /\ dataInfo.nb_data \in 0 .. PUS11_MAXIMUM_DATA
           /\ dataInfo.write_index \in 0 .. PUS11_MAXIMUM_DATA
           /\ info.nb_activities <= dataInfo.nb_data
           /\ step \notin {"pushing", "popping"} => pc = "idle"
           /\ PUS11_MAXIMUM_DATA \in Nat /\ 0 \in SlotIndex
<1>1. /\ info.nb_activities \in Nat
      /\ dataInfo.nb_data \in 0 .. PUS11_MAXIMUM_DATA
      /\ dataInfo.write_index \in 0 .. PUS11_MAXIMUM_DATA
  BY ScheduleAssumption
     DEF Pus11TypeInv, ServiceTyped, TypeInv, ScheduleTypeOK, Info
<1>2. PUS11_MAXIMUM_DATA \in Nat /\ 0 \in SlotIndex
  BY Pus11Assumption DEF SlotIndex
<1>3. info.nb_activities <= dataInfo.nb_data
  BY <1>1, <1>2
     DEF Pus11TypeInv, CountsApart, Zeroing
<1>4. step \notin {"pushing", "popping"} => pc = "idle"
  BY DEF Pus11TypeInv, Phases, TypeInv, ScheduleTypeOK
<1> QED
  BY <1>1, <1>2, <1>3, <1>4

LEMMA TypeParts ==
    ASSUME Pus11TypeInv
    PROVE  Pus11TypeOK /\ DataCountCoversSchedule
<1>1. Pus11TypeOK
  BY DEF Pus11TypeInv, Pus11TypeOK, ServiceTyped, TypeInv
<1>2. DataCountCoversSchedule
  <2>1. /\ info.nb_activities \in Nat /\ dataInfo.nb_data \in Nat
        /\ info.nb_activities <= dataInfo.nb_data
    BY Bounds
  <2>2. CASE step = "uncountData"
    <3>1. info.nb_activities + 1 <= dataInfo.nb_data
      BY <2>2 DEF Pus11TypeInv, CountsApart
    <3> QED
      BY <2>1, <2>2, <3>1 DEF DataCountCoversSchedule
  <2>3. CASE /\ step = "popping" /\ pc \in {"report", "idle"}
             /\ return_value = "RET_SUCCESSFUL"
    <3>1. info.nb_activities + 1 <= dataInfo.nb_data
      BY <2>3 DEF Pus11TypeInv, CountsApart
    <3> QED
      BY <2>1, <2>3, <3>1 DEF DataCountCoversSchedule
  <2>4. CASE /\ step # "uncountData"
             /\ ~(/\ step = "popping" /\ pc \in {"report", "idle"}
                  /\ return_value = "RET_SUCCESSFUL")
    BY <2>1, <2>4 DEF DataCountCoversSchedule
  <2> QED
    BY <2>2, <2>3, <2>4
<1> QED
  BY <1>1, <1>2

LEMMA Pus11TypeInit == Pus11Init => Pus11TypeInv
<1> SUFFICES ASSUME Pus11Init PROVE Pus11TypeInv
  OBVIOUS
<1>1. TypeInv
  BY TypeInit DEF Pus11Init, OrderInit
<1>2. ServiceTyped
  BY Pus11Assumption, ScheduleAssumption
     DEF Pus11Init, OrderInit, Init, ServiceTyped, Slot, ZeroSlot, SlotIndex
<1>3. Phases /\ CountsApart /\ faults \in Nat
  BY DEF Pus11Init, OrderInit, Init, Phases, CountsApart, Zeroing, Steps,
         PushSteps, PopSteps, ZeroInfo
<1> QED
  BY <1>1, <1>2, <1>3 DEF Pus11TypeInv

(* A call that returns, having changed nothing but what it replies. *)
LEMMA ReplyTyped ==
    ASSUME Pus11TypeInv, TypeInv', faults' \in Nat,
           NEW v, NEW e, Reply(v, e), pc' = "idle", info' = info,
           UNCHANGED <<table, status, now>>,
           pus11_status' \in {"ENABLE", "DISABLE"},
           delayed' \in Seq(TC \union {NoTC}), Len(delayed') <= BufferSize
    PROVE  Pus11TypeInv'
<1>1. ServiceTyped'
  BY Bounds DEF Pus11TypeInv, ServiceTyped, Reply, table
<1>2. Phases'
  BY DEF Reply, Phases, Steps, PushSteps, PopSteps, Zeroing
<1>3. CountsApart'
  BY Bounds DEF Reply, CountsApart, Zeroing, PushSteps,
                table
<1> QED
  BY <1>1, <1>2, <1>3 DEF Pus11TypeInv

LEMMA AloneTyped ==
    ASSUME Pus11TypeInv, ServiceAlone, TypeInv', faults' \in Nat
    PROVE  Pus11TypeInv'
<1>1. /\ UNCHANGED <<pc, info, return_value, released>>
  BY AloneLeavesSchedule DEF orderVars, scheduleVars, file, locals, output
<1>2. /\ ServiceTyped /\ Phases /\ CountsApart
  BY DEF Pus11TypeInv
<1>3. \/ ExecuteS11SS1 \/ ExecuteS11SS2
      \/ ExecuteS11SS3 /\ status # "PUS_INITIALIZED"
      \/ RequestDone \/ EntryMalformed \/ EntryOutdated
      \/ AllocationFails \/ ReleaseRefused \/ PopFails
      => Pus11TypeInv'
  <2> SUFFICES ASSUME \/ ExecuteS11SS1 \/ ExecuteS11SS2
                      \/ ExecuteS11SS3 /\ status # "PUS_INITIALIZED"
                      \/ RequestDone \/ EntryMalformed \/ EntryOutdated
                      \/ AllocationFails \/ ReleaseRefused \/ PopFails
               PROVE  Pus11TypeInv'
    OBVIOUS
  <2>1. /\ \E v, e : Reply(v, e)
        /\ UNCHANGED <<table, status, now, delayed>>
        /\ pus11_status' \in {pus11_status, "ENABLE", "DISABLE"}
        /\ step \notin {"pushing"} /\ (step = "popping" => pc = "idle")
    BY <1>2 DEF ExecuteS11SS1, ExecuteS11SS2, SetScheduleStatus, ExecuteS11SS3,
           RequestDone, EntryMalformed, EntryOutdated, AllocationFails,
           ReleaseRefused, PopFails, Ready, Adding, Admissible, environment
  <2>2. pc' = "idle"
    BY <1>1, <2>1, Bounds
  <2> QED
    BY <1>1, <1>2, <2>1, <2>2, ReplyTyped DEF ServiceTyped
<1>4. CASE ZeroDataInfo
  <2>1. /\ step = "zeroInfo" /\ step' = "zeroSlots"
        /\ dataInfo' = [nb_data |-> 0, write_index |-> 0]
        /\ UNCHANGED <<slot, request, item, data_index, status, pus11_status,
                       delayed, now>>
    BY <1>4 DEF ZeroDataInfo, GoTo, environment
  <2>2. ServiceTyped'
    BY <1>1, <1>2, <2>1, Bounds DEF ServiceTyped
  <2>3. Phases' /\ CountsApart'
    BY <1>1, <1>2, <2>1, Bounds
       DEF Phases, CountsApart, Zeroing, Steps,
           PushSteps, PopSteps
  <2> QED
    BY <2>2, <2>3 DEF Pus11TypeInv
<1>5. CASE ZeroNextSlot
  <2>1. /\ step = "zeroSlots" /\ UNCHANGED <<dataInfo, status, pus11_status,
                                             delayed, now>>
        /\ slot' = [slot EXCEPT ![data_index] = ZeroSlot]
        /\ pc = "idle" /\ info.nb_activities = 0 /\ request = <<>>
    BY <1>2, <1>5, Bounds
       DEF ZeroNextSlot, environment, CountsApart, Zeroing, Phases
  <2>2. slot' \in [SlotIndex -> Slot]
    BY <1>2, <2>1 DEF ServiceTyped, Slot, ZeroSlot
  <2>3. CASE data_index = PUS11_MAXIMUM_DATA - 1
    <3>1. /\ step' = "ready" /\ request' = <<>> /\ item' = NoTC
          /\ data_index' = 0
      BY <1>5, <2>3 DEF ZeroNextSlot, Reply
    <3>2. ServiceTyped'
      BY <1>1, <1>2, <2>1, <2>2, <3>1, Bounds DEF ServiceTyped
    <3>3. Phases' /\ CountsApart'
      BY <1>1, <1>2, <2>1, <3>1, Bounds
         DEF Phases, CountsApart, Zeroing, Steps,
             PushSteps, PopSteps
    <3> QED
      BY <3>2, <3>3 DEF Pus11TypeInv
  <2>4. CASE data_index # PUS11_MAXIMUM_DATA - 1
    <3>1. /\ data_index' = data_index + 1 /\ UNCHANGED <<step, request, item>>
      BY <1>5, <2>4 DEF ZeroNextSlot
    <3>2. data_index' \in SlotIndex
      BY <1>2, <2>4, <3>1, Bounds DEF ServiceTyped, SlotIndex
    <3>3. ServiceTyped'
      BY <1>1, <1>2, <2>1, <2>2, <3>1, <3>2 DEF ServiceTyped
    <3>4. Phases' /\ CountsApart'
      BY <1>1, <1>2, <2>1, <3>1, Bounds
         DEF Phases, CountsApart, Zeroing, Steps,
             PushSteps, PopSteps
    <3> QED
      BY <3>3, <3>4 DEF Pus11TypeInv
  <2> QED
    BY <2>3, <2>4
<1>6. ASSUME NEW entries \in Requests, ExecuteS11SS4(entries)
      PROVE  Pus11TypeInv'
  <2>1. /\ Ready /\ UNCHANGED <<table, status, pus11_status, delayed, now>>
    BY <1>6 DEF ExecuteS11SS4, environment
  <2>2. CASE status = "PUS_INITIALIZED" /\ pus11_status = "ENABLE"
    <3>1. /\ request' = entries /\ step' = "add"
          /\ UNCHANGED <<item, data_index>>
      BY <1>6, <2>2 DEF ExecuteS11SS4, GoTo
    <3>2. entries \in Seq(TC \union {Malformed})
      <4>1. PICK n \in 0 .. MaxRequest : entries \in [1 .. n -> TC \union {Malformed}]
        BY DEF Requests
      <4> QED
        BY <4>1, Pus11Assumption
    <3>3. ServiceTyped'
      BY <1>1, <1>2, <2>1, <3>1, <3>2 DEF ServiceTyped, table
    <3>4. Phases' /\ CountsApart'
      BY <1>1, <1>2, <2>1, <2>2, <3>1, Bounds
         DEF Phases, CountsApart, Zeroing, Steps,
             PushSteps, PopSteps, Ready, table
    <3> QED
      BY <3>3, <3>4 DEF Pus11TypeInv
  <2>3. CASE ~(status = "PUS_INITIALIZED" /\ pus11_status = "ENABLE")
    <3>1. Reply("RET_NOT_AVAILABLE", "UNAVAILABLE")
      BY <1>6, <2>3 DEF ExecuteS11SS4
    <3> QED
      BY <1>1, <1>2, <2>1, <3>1, ReplyTyped DEF ServiceTyped, Ready
  <2> QED
    BY <2>2, <2>3
<1>7. CASE EntryDropped
  <2>1. /\ step = "add" /\ request # <<>> /\ request' = Tail(request)
        /\ UNCHANGED <<dataInfo, slot, status, pus11_status, delayed, now,
                       step, item, data_index>>
    BY <1>7 DEF EntryDropped, Adding, table, environment
  <2>2. request' \in Seq(TC \union {Malformed})
    BY <1>2, <2>1 DEF ServiceTyped
  <2>3. ServiceTyped'
    BY <1>1, <1>2, <2>1, <2>2 DEF ServiceTyped
  <2>4. Phases' /\ CountsApart'
    BY <1>1, <1>2, <2>1
       DEF Phases, CountsApart, Zeroing, Steps
  <2> QED
    BY <2>3, <2>4 DEF Pus11TypeInv
<1>8. CASE AllocateDataSlot
  <2>1. /\ step = "add" /\ request # <<>> /\ request' = Tail(request)
        /\ Head(request) # Malformed /\ item' = Head(request)
        /\ dataInfo.write_index \in SlotIndex
        /\ dataInfo.nb_data < PUS11_MAXIMUM_DATA
        /\ data_index' = dataInfo.write_index /\ step' = "store"
        /\ dataInfo' = [nb_data |-> dataInfo.nb_data + 1,
                        write_index |-> dataInfo.write_index + 1]
        /\ UNCHANGED <<slot, status, pus11_status, delayed, now>>
    BY <1>8 DEF AllocateDataSlot, Admissible, Adding, GoTo, environment
  <2>2. /\ request' \in Seq(TC \union {Malformed}) /\ item' \in TC
    BY <1>2, <2>1 DEF ServiceTyped
  <2>3. dataInfo' \in [nb_data : 0 .. PUS11_MAXIMUM_DATA,
                       write_index : 0 .. PUS11_MAXIMUM_DATA]
    BY <2>1, Bounds DEF SlotIndex
  <2>4. ServiceTyped'
    BY <1>1, <1>2, <2>1, <2>2, <2>3 DEF ServiceTyped
  <2>5. Phases'
    BY <1>1, <1>2, <2>1, <2>2 DEF Phases, Zeroing, Steps
  <2>6. CountsApart'
    BY <1>1, <2>1, Bounds
       DEF CountsApart, Zeroing, PushSteps
  <2> QED
    BY <2>4, <2>5, <2>6 DEF Pus11TypeInv
<1>9. CASE StoreTC
  <2>1. /\ step = "store" /\ step' = "push"
        /\ slot' = [slot EXCEPT ![data_index] =
                       [status |-> "UNAVAILABLE", tc |-> item]]
        /\ UNCHANGED <<dataInfo, request, item, data_index, status,
                       pus11_status, delayed, now>>
    BY <1>9 DEF StoreTC, GoTo, environment
  <2>2. slot' \in [SlotIndex -> Slot]
    BY <1>2, <2>1 DEF ServiceTyped, Slot
  <2>3. ServiceTyped'
    BY <1>1, <1>2, <2>1, <2>2 DEF ServiceTyped
  <2>4. Phases' /\ CountsApart'
    BY <1>1, <1>2, <2>1
       DEF Phases, CountsApart, Zeroing, Steps
  <2> QED
    BY <2>3, <2>4 DEF Pus11TypeInv
<1>10. CASE PushReturns
  <2>1. /\ step = "pushing" /\ pc = "idle"
        /\ UNCHANGED <<table, status, pus11_status, delayed, now>>
    BY <1>10 DEF PushReturns, environment
  <2>2. CASE return_value = "RET_SUCCESSFUL"
    <3>1. step' = "add" /\ item' = NoTC /\ data_index' = 0 /\ UNCHANGED request
      BY <1>10, <2>2 DEF PushReturns, GoTo
    <3>2. ServiceTyped'
      BY <1>1, <1>2, <2>1, <3>1, Bounds DEF ServiceTyped, table
    <3>3. Phases' /\ CountsApart'
      BY <1>1, <1>2, <2>1, <3>1, Bounds
         DEF Phases, CountsApart, Zeroing, Steps,
             PushSteps, PopSteps, table
    <3> QED
      BY <3>2, <3>3 DEF Pus11TypeInv
  <2>3. CASE return_value # "RET_SUCCESSFUL"
    <3>1. Reply(return_value, "FAILED")
      BY <1>10, <2>3 DEF PushReturns
    <3> QED
      BY <1>1, <1>2, <2>1, <3>1, ReplyTyped DEF ServiceTyped
  <2> QED
    BY <2>2, <2>3
<1>11. CASE FreeSlot
  <2>1. /\ step = "popping" /\ pc = "idle" /\ return_value = "RET_SUCCESSFUL"
        /\ released.data \in SlotIndex /\ item' = slot[released.data].tc
        /\ slot' = [slot EXCEPT ![released.data] = ZeroSlot]
        /\ step' = "uncountData"
        /\ UNCHANGED <<dataInfo, request, data_index, status, pus11_status,
                       delayed, now>>
    BY <1>11 DEF FreeSlot, GoTo, environment
  <2>2. slot' \in [SlotIndex -> Slot] /\ item' \in TC \union {NoTC}
    BY <1>2, <2>1 DEF ServiceTyped, Slot, ZeroSlot
  <2>3. ServiceTyped'
    BY <1>1, <1>2, <2>1, <2>2 DEF ServiceTyped
  <2>4. Phases'
    BY <1>1, <1>2, <2>1 DEF Phases, Zeroing, Steps, PushSteps, PopSteps
  <2>5. CountsApart'
    BY <1>1, <1>2, <2>1, Bounds
       DEF CountsApart, Zeroing, PushSteps
  <2> QED
    BY <2>3, <2>4, <2>5 DEF Pus11TypeInv
<1>12. CASE UncountData
  <2>1. /\ step = "uncountData" /\ step' = "deliver"
        /\ dataInfo' = [nb_data |-> IF dataInfo.nb_data = 0 THEN MAX_UINT32
                                    ELSE dataInfo.nb_data - 1,
                        write_index |-> dataInfo.write_index]
        /\ UNCHANGED <<slot, request, item, data_index, status, pus11_status,
                       delayed, now>>
    BY <1>12 DEF UncountData, GoTo, environment
  <2>2. info.nb_activities + 1 <= dataInfo.nb_data
    BY <1>2, <2>1, Bounds DEF CountsApart
  <2>3. dataInfo' = [nb_data |-> dataInfo.nb_data - 1,
                     write_index |-> dataInfo.write_index]
    <3>1. dataInfo.nb_data # 0
      BY <2>2, Bounds
    <3> QED
      BY <2>1, <3>1
  <2>4. ServiceTyped'
    <3>1. dataInfo' \in [nb_data : 0 .. PUS11_MAXIMUM_DATA,
                         write_index : 0 .. PUS11_MAXIMUM_DATA]
      BY <2>2, <2>3, Bounds
    <3> QED
      BY <1>1, <1>2, <2>1, <3>1 DEF ServiceTyped
  <2>5. Phases'
    BY <1>1, <1>2, <2>1 DEF Phases, Zeroing, Steps, PushSteps, PopSteps
  <2>6. CountsApart'
    <3>1. info'.nb_activities <= dataInfo'.nb_data
      BY <1>1, <2>2, <2>3, Bounds
    <3> QED
      BY <1>1, <2>1, <3>1, Bounds DEF CountsApart, Zeroing, PushSteps
  <2> QED
    BY <2>4, <2>5, <2>6 DEF Pus11TypeInv
<1>13. CASE Deliver \/ SignalFails
  <2>1. /\ step = "deliver" /\ UNCHANGED <<table, status, pus11_status, now>>
        /\ \E v, e : Reply(v, e)
        /\ \/ delayed' = delayed
           \/ delayed' = Append(delayed, item) /\ Len(delayed) < BufferSize
    BY <1>13 DEF Deliver, SignalFails
  <2>2. delayed' \in Seq(TC \union {NoTC}) /\ Len(delayed') <= BufferSize
    <3>1. /\ delayed \in Seq(TC \union {NoTC}) /\ item \in TC \union {NoTC}
          /\ Len(delayed) <= BufferSize /\ BufferSize \in Nat
      BY <1>2, Pus11Assumption DEF ServiceTyped
    <3>2. /\ Append(delayed, item) \in Seq(TC \union {NoTC})
          /\ Len(Append(delayed, item)) = Len(delayed) + 1
      BY <3>1, AppendProperties
    <3>3. Len(delayed) \in Nat
      BY <3>1
    <3> QED
      BY <2>1, <3>1, <3>2, <3>3
  <2>3. pc' = "idle"
    BY <1>1, <2>1, Bounds
  <2> QED
    BY <1>1, <1>2, <2>1, <2>2, <2>3, ReplyTyped DEF ServiceTyped
<1>14. CASE ReceiverTakes \/ \E t \in Time : ClockMoves(t)
  <2>1. /\ UNCHANGED <<dataInfo, slot, step, request, item, data_index,
                       status, pus11_status>>
        /\ now' \in Time
        /\ \/ delayed' = delayed
           \/ delayed # <<>> /\ delayed' = Tail(delayed)
    BY <1>2, <1>14 DEF ReceiverTakes, ClockMoves, ServiceTyped, table, call,
                       environment
  <2>2. delayed' \in Seq(TC \union {NoTC}) /\ Len(delayed') <= BufferSize
    <3>1. /\ delayed \in Seq(TC \union {NoTC})
          /\ Len(delayed) <= BufferSize /\ BufferSize \in Nat
          /\ Len(delayed) \in Nat
      BY <1>2, Pus11Assumption DEF ServiceTyped
    <3>2. delayed # <<>> => /\ Tail(delayed) \in Seq(TC \union {NoTC})
                            /\ Len(Tail(delayed)) = Len(delayed) - 1
      BY <3>1, HeadTailProperties
    <3> QED
      BY <2>1, <3>1, <3>2
  <2>3. ServiceTyped'
    BY <1>1, <1>2, <2>1, <2>2 DEF ServiceTyped
  <2>4. Phases' /\ CountsApart'
    BY <1>1, <1>2, <2>1
       DEF Phases, CountsApart, Zeroing
  <2> QED
    BY <2>3, <2>4 DEF Pus11TypeInv
<1> QED
  BY <1>3, <1>4, <1>5, <1>6, <1>7, <1>8, <1>9, <1>10, <1>11, <1>12, <1>13,
     <1>14 DEF ServiceAlone

(* What a step of the schedule inside a call does to the count. *)
LEMMA ContinueMoves ==
    ASSUME OrderedContinue
    PROVE  \/ pc \in PushSteps /\ pc' \in PushSteps /\ info' = info
           \/ pc \in PushSteps /\ pc' = "idle" /\ info' = info
           \/ /\ pc = "count" /\ pc' = "idle"
              /\ info'.nb_activities = info.nb_activities + 1
           \/ pc = "unlink" /\ pc' = "uncount" /\ info' = info
           \/ /\ pc = "uncount" /\ pc' = "report"
              /\ info'.nb_activities = info.nb_activities - 1
           \/ pc = "report" /\ pc' = "idle" /\ info' = info
<1> USE DEF PushSteps, Return, file
<1>1. CASE Quiet(\/ InsertInEmptySchedule \/ StartWalk \/ WalkReadFails
                 \/ Walk \/ WalkFullLap \/ WriteNewNode
                 \/ LinkNext \/ LinkPrevious)
  BY <1>1 DEF Quiet, InsertInEmptySchedule, StartWalk, WalkReadFails, Walk,
              WalkFullLap, WriteNewNode, LinkNext, LinkPrevious
<1>2. CASE Quiet(PopContinue)
  BY <1>2 DEF Quiet, PopContinue, UnlinkNewOldest, UncountActivity,
              ReportNextDate, ReportReadFails
<1>3. CASE OrderedCount
  BY <1>3 DEF OrderedCount, CountActivity
<1> QED
  BY <1>1, <1>2, <1>3 DEF OrderedContinue, Quiet

LEMMA StartResetTyped ==
    ASSUME Pus11TypeInv, TypeInv', StartReset, faults' = faults
    PROVE  Pus11TypeInv'
<1>1. /\ step = "ready" /\ pc = "idle" /\ step' = "zeroInfo" /\ pc' = "idle"
      /\ info' = ZeroInfo
      /\ UNCHANGED <<dataInfo, slot, status, pus11_status, delayed, now,
                     request, item, data_index>>
  BY DEF StartReset, ExecuteS11SS3, Ready, OrderedReset, Reset, Return, GoTo,
         table, environment
<1>2. ServiceTyped'
  BY <1>1 DEF Pus11TypeInv, ServiceTyped
<1>3. Phases'
  BY <1>1 DEF Pus11TypeInv, Phases, Zeroing, Steps, PushSteps, PopSteps
<1>4. CountsApart'
  BY <1>1, Bounds DEF CountsApart, Zeroing, PushSteps, ZeroInfo
<1> QED
  BY <1>2, <1>3, <1>4 DEF Pus11TypeInv

LEMMA CallPushTyped ==
    ASSUME Pus11TypeInv, TypeInv', CallPush, faults' = faults
    PROVE  Pus11TypeInv'
<1>1. /\ step = "push" /\ step' = "pushing" /\ pc = "idle"
      /\ UNCHANGED <<dataInfo, slot, status, pus11_status, delayed, now,
                     request, item, data_index>>
  BY Bounds DEF CallPush, GoTo, table, environment
<1>2. /\ pc' \in {"idle", "insert"}
      /\ info'.nb_activities = info.nb_activities
  BY DEF CallPush, OrderedPushStart, Quiet, PushStart, PushRefused,
         PushFindsNoNode, GetAvailableNode, Return, file, Pus11TypeInv, TypeInv,
         ScheduleTypeOK, Info
<1>3. ServiceTyped'
  BY <1>1 DEF Pus11TypeInv, ServiceTyped
<1>4. Phases'
  BY <1>1, <1>2 DEF Pus11TypeInv, Phases, Zeroing, Steps, PushSteps, PopSteps
<1>5. CountsApart'
  BY <1>1, <1>2 DEF Pus11TypeInv, CountsApart, Zeroing
<1> QED
  BY <1>1, <1>3, <1>4, <1>5 DEF Pus11TypeInv

LEMMA TryReleaseTyped ==
    ASSUME Pus11TypeInv, TypeInv', TryReleaseDelayedTC, faults' = faults
    PROVE  Pus11TypeInv'
<1>1. /\ step = "ready" /\ step' = "popping" /\ pc = "idle"
      /\ pus11_status = "ENABLE"
      /\ UNCHANGED <<dataInfo, slot, status, pus11_status, delayed, now,
                     request, item, data_index>>
  BY DEF TryReleaseDelayedTC, Ready, GoTo, table, environment
<1>2. /\ info' = info
      /\ \/ pc' = "unlink"
         \/ pc' = "idle" /\ return_value' # "RET_SUCCESSFUL"
  BY DEF TryReleaseDelayedTC, OrderedPopStart, OrderedFree, Quiet, PopNothing,
         PopReadFails, PopTooEarly, FreeOldestNode, Return, file
<1>3. ServiceTyped'
  BY <1>1 DEF Pus11TypeInv, ServiceTyped
<1>4. Phases'
  BY <1>1, <1>2 DEF Pus11TypeInv, Phases, Zeroing, Steps, PushSteps, PopSteps
<1>5. CountsApart'
  BY <1>1, <1>2 DEF Pus11TypeInv, CountsApart, Zeroing, PushSteps
<1> QED
  BY <1>1, <1>3, <1>4, <1>5 DEF Pus11TypeInv

LEMMA WorksTyped ==
    ASSUME Pus11TypeInv, TypeInv', ScheduleWorks, faults' = faults
    PROVE  Pus11TypeInv'
<1>1. UNCHANGED <<dataInfo, slot, status, pus11_status, delayed, now,
                  step, request, item, data_index>>
  BY DEF ScheduleWorks, serviceVars, table, call, environment
<1>2. /\ ServiceTyped /\ Phases /\ CountsApart /\ pc # "idle"
      /\ pc' \in {"idle"} \union PushSteps \union PopSteps
  BY ContinueMoves
     DEF Pus11TypeInv, ScheduleWorks, PushSteps, TypeInv, ScheduleTypeOK
<1>3. ServiceTyped'
  BY <1>1, <1>2 DEF ServiceTyped
<1>4. Phases'
  <2>1. /\ pc' \in PushSteps => pc \in PushSteps
        /\ pc' \in PopSteps => pc \in PopSteps
    BY ContinueMoves DEF ScheduleWorks, PushSteps, PopSteps
  <2> QED
    BY <1>1, <1>2, <2>1 DEF Phases, Zeroing
<1>5. CountsApart'
  <2>1. /\ info.nb_activities \in Nat /\ dataInfo.nb_data \in Nat
        /\ info.nb_activities <= dataInfo.nb_data /\ dataInfo' = dataInfo
        /\ step' = step
    BY <1>1, Bounds
  <2>2. step \in {"pushing", "popping"}
    BY <1>2, Bounds
  <2>3. CASE pc \in PushSteps
    <3>1. info.nb_activities + 1 <= dataInfo.nb_data
      BY <1>2, <2>3 DEF CountsApart
    <3>2. step = "pushing"
      BY <1>2, <2>3 DEF Phases
    <3>3. \/ pc' \in PushSteps /\ info' = info
          \/ pc' = "idle" /\ info' = info
          \/ pc' = "idle" /\ info'.nb_activities = info.nb_activities + 1
      BY <2>3, ContinueMoves DEF ScheduleWorks, PushSteps
    <3> QED
      BY <2>1, <3>1, <3>2, <3>3 DEF CountsApart, Zeroing, PushSteps
  <2>4. CASE pc = "unlink"
    <3>1. pc' = "uncount" /\ info' = info
      BY <2>4, ContinueMoves DEF ScheduleWorks, PushSteps
    <3> QED
      BY <2>1, <2>2, <3>1 DEF CountsApart, Zeroing, PushSteps
  <2>5. CASE pc = "uncount"
    <3>1. pc' = "report" /\ info'.nb_activities = info.nb_activities - 1
      BY <2>5, ContinueMoves DEF ScheduleWorks, PushSteps
    <3> QED
      BY <2>1, <2>2, <3>1 DEF CountsApart, Zeroing, PushSteps
  <2>6. CASE pc = "report"
    <3>1. pc' = "idle" /\ info' = info
      BY <2>6, ContinueMoves DEF ScheduleWorks, PushSteps
    <3>2. info.nb_activities + 1 <= dataInfo.nb_data
      BY <1>2, <2>6 DEF CountsApart
    <3> QED
      BY <2>1, <2>2, <3>1, <3>2 DEF CountsApart, Zeroing, PushSteps
  <2> QED
    BY <2>3, <2>4, <2>5, <2>6, ContinueMoves DEF ScheduleWorks, PushSteps
<1> QED
  BY <1>1, <1>3, <1>4, <1>5 DEF Pus11TypeInv

LEMMA FaultTyped ==
    ASSUME Pus11TypeInv, TypeInv', Fault
    PROVE  Pus11TypeInv'
<1>1. /\ faults' \in Nat /\ info' = info /\ pc' = "idle"
      /\ UNCHANGED <<table, now>> /\ \E v, e : Reply(v, e)
      /\ \/ UNCHANGED <<status, pus11_status, delayed>>
         \/ /\ delayed' = <<>>
            /\ status' \in {"PUS_INITIALIZED", "PUS_ERROR"}
            /\ pus11_status' \in {"ENABLE", "DISABLE"}
  BY DEF Fault, DeviceFails, Restart, OrderedInterrupt, Interrupt, Return, file,
         environment, Pus11TypeInv
<1>2. /\ ServiceTyped
      /\ pus11_status' \in {"ENABLE", "DISABLE"}
      /\ status' \in {"PUS_INITIALIZED", "PUS_ERROR"}
  BY <1>1 DEF Pus11TypeInv, ServiceTyped
<1>3. delayed' \in Seq(TC \union {NoTC}) /\ Len(delayed') <= BufferSize
  <2>1. CASE delayed' = delayed
    BY <1>2, <2>1 DEF ServiceTyped
  <2>2. CASE delayed' = <<>>
    <3>1. <<>> \in Seq(TC \union {NoTC}) /\ Len(<<>>) = 0
      OBVIOUS
    <3>2. BufferSize \in Nat /\ 0 <= BufferSize
      BY Pus11Assumption
    <3> QED
      BY <2>2, <3>1, <3>2
  <2> QED
    BY <1>1, <2>1, <2>2 DEF environment
<1>4. ServiceTyped'
  BY <1>1, <1>2, <1>3, Bounds DEF ServiceTyped, Reply, table
<1>5. Phases'
  BY <1>1 DEF Reply, Phases, Steps, PushSteps, PopSteps, Zeroing
<1>6. CountsApart'
  BY <1>1, Bounds DEF Reply, CountsApart, Zeroing, PushSteps, table
<1> QED
  BY <1>1, <1>4, <1>5, <1>6 DEF Pus11TypeInv

LEMMA Pus11TypeStep ==
    ASSUME Pus11TypeInv, [FaultyStep]_pus11Vars
    PROVE  Pus11TypeInv'
<1>1. TypeInv'
  BY ScheduleStep, OrderedRefines, TypeStep DEF Pus11TypeInv
<1>2. CASE UNCHANGED pus11Vars
  BY <1>1, <1>2
     DEF pus11Vars, orderVars, scheduleVars, serviceVars, file, locals, output,
         table, call, environment, Pus11TypeInv, ServiceTyped, Phases, Zeroing,
         CountsApart
<1>3. CASE Fault
  BY <1>1, <1>3, FaultTyped
<1>4. CASE Counted(ServiceAlone)
  BY <1>1, <1>4, AloneTyped DEF Counted, Pus11TypeInv
<1>5. \/ Counted(StartReset) \/ Counted(CallPush)
      \/ Counted(TryReleaseDelayedTC) \/ Counted(ScheduleWorks)
      => faults' = faults
  BY DEF Counted, StartReset, ExecuteS11SS3, Ready, CallPush,
         TryReleaseDelayedTC, ScheduleWorks, serviceVars, call
<1>6. \/ Counted(StartReset) \/ Counted(CallPush)
      \/ Counted(TryReleaseDelayedTC) \/ Counted(ScheduleWorks)
      => Pus11TypeInv'
  BY <1>1, <1>5, StartResetTyped, CallPushTyped, TryReleaseTyped, WorksTyped
     DEF Counted
<1> QED
  BY <1>2, <1>3, <1>4, <1>6, FaultySplit

(* For every capacity and any number of faults: the service's variables    *)
(* and those of the schedule keep to their ranges; in particular the count *)
(* of the table never wraps below zero.                                    *)
THEOREM Pus11TypeCorrect == Pus11FaultySpec => []Pus11TypeOK
<1>1. Pus11Init => Pus11TypeInv
  BY Pus11TypeInit
<1>2. Pus11TypeInv /\ [FaultyStep]_pus11Vars => Pus11TypeInv'
  BY Pus11TypeStep
<1>3. Pus11TypeInv => Pus11TypeOK
  BY TypeParts
<1> QED
  BY <1>1, <1>2, <1>3, PTL DEF Pus11FaultySpec

(* For every capacity and any number of faults: outside a reset the table  *)
(* counts every activity of the schedule and the one being released.       *)
THEOREM CountCoversSchedule == Pus11FaultySpec => []DataCountCoversSchedule
<1>1. Pus11Init => Pus11TypeInv
  BY Pus11TypeInit
<1>2. Pus11TypeInv /\ [FaultyStep]_pus11Vars => Pus11TypeInv'
  BY Pus11TypeStep
<1>3. Pus11TypeInv => DataCountCoversSchedule
  BY TypeParts
<1> QED
  BY <1>1, <1>2, <1>3, PTL DEF Pus11FaultySpec

-----------------------------------------------------------------------------
(* Each activity has its telecommand.  The invariant holds until a fault,  *)
(* and a reset restores it before it has forgotten that there was one.     *)

Whole == faults = 0 \/ Zeroing

Linking == pc \in {"linkNext", "linkPrevious", "count"}

(* No activity of the schedule is for this slot. *)
Reserved(s) == \A i \in NodeIndex : Occupied(i) => ScheduledSlot(i) # s

(* Stronger than ActivitiesHaveTheirTC: a reset is no exception. *)
ActivitiesOwned ==
    Whole =>
       /\ disturbed = 0
       /\ \A i \in NodeIndex : Occupied(i) =>
             /\ ScheduledSlot(i) \in SlotIndex
             /\ Used(ScheduledSlot(i))
             /\ slot[ScheduledSlot(i)].tc \in TC
             /\ node[i].activity.timestamp = DueDate[slot[ScheduledSlot(i)].tc]
             /\ \A j \in NodeIndex :
                   Occupied(j) /\ ScheduledSlot(j) = ScheduledSlot(i) => i = j

(* What a reset has cleared so far. *)
Cleared ==
    /\ Zeroing => \A i \in NodeIndex : ~Occupied(i)
    /\ step = "zeroSlots" =>
          /\ dataInfo.nb_data = 0
          /\ \A s \in SlotIndex : s < data_index => slot[s] = ZeroSlot

(* The slot of the telecommand being added. *)
BeingAdded ==
    faults = 0 =>
       /\ step = "store" => ~Used(data_index)
       /\ step = "push" \/ pc \in PushSteps =>
             Used(data_index) /\ slot[data_index].tc = item
       /\ pc \in PushSteps =>
             activity = [timestamp |-> DueDate[item], data |-> data_index]
       /\ step = "push" \/ pc \in {"insert", "walk"} => Reserved(data_index)

Popped == pc \in PopSteps \/ (pc = "idle" /\ return_value = "RET_SUCCESSFUL")

(* The slot of the telecommand being released. *)
BeingReleased ==
    faults = 0 =>
       /\ step = "popping" /\ Popped =>
             /\ released.data \in SlotIndex
             /\ Used(released.data)
             /\ slot[released.data].tc \in TC
             /\ Reserved(released.data)
       /\ step \in {"uncountData", "deliver"} => item \in TC

UsedSlots == {s \in SlotIndex : Used(s)}

SlotsCounted ==
    faults = 0 /\ ~Zeroing =>
       dataInfo.nb_data =
          IF step \in {"store", "uncountData"} THEN Cardinality(UsedSlots) + 1
                                               ELSE Cardinality(UsedSlots)

(* A telecommand is in one slot at most, and in none while it is asked for.*)
NoTCTwice ==
    faults = 0 =>
       /\ \A r, s \in SlotIndex :
             slot[r].tc = slot[s].tc /\ slot[s].tc \in TC => r = s
       /\ \A k \in 1 .. Len(request) : request[k] \in TC =>
             /\ \A s \in SlotIndex : slot[s].tc # request[k]
             /\ step = "store" => request[k] # item
             /\ \A j \in 1 .. Len(request) : request[j] = request[k] => j = k
       /\ step = "store" => \A s \in SlotIndex : slot[s].tc # item

OwnedInv ==
    /\ Pus11TypeInv
    /\ CleanInv
    /\ ActivitiesOwned
    /\ Cleared
    /\ BeingAdded
    /\ BeingReleased
    /\ SlotsCounted
    /\ NoTCTwice

-----------------------------------------------------------------------------
(* What the steps of the schedule do to the activities in the nodes. *)

(* Some activities may be gone, the others are where they were. *)
NodesKept == \A i \in NodeIndex :
                Occupied(i)' => /\ Occupied(i)
                                /\ node'[i].activity = node[i].activity

SameNodes == NodesKept /\ \A i \in NodeIndex : Occupied(i) => Occupied(i)'

(* The new node joins the others, which stay as they are. *)
NodeEntered ==
    /\ new_node_index \in NodeIndex /\ ~Occupied(new_node_index)
    /\ node'[new_node_index].status = "OCCUPIED"
    /\ node'[new_node_index].activity = activity
    /\ \A i \in NodeIndex : i # new_node_index => node'[i] = node[i]

(* The oldest node leaves, the others stay as they are. *)
NodeLeft ==
    /\ info.oldest \in NodeIndex /\ Occupied(info.oldest)
    /\ node'[info.oldest].status # "OCCUPIED"
    /\ released' = node[info.oldest].activity
    /\ \A i \in NodeIndex : i # info.oldest => node'[i] = node[i]

USE DEF Occupied

LEMMA CleanFacts ==
    ASSUME CleanInv, disturbed = 0
    PROVE  TypeInv /\ ListParts /\ ~torn /\ return_value # "RET_ERROR"
BY DEF CleanInv, Undisturbed, ListInv, ListIntact, ListParts,
       NoErrorWithoutFault

LEMMA NewNodeIsFree ==
    ASSUME CleanInv, disturbed = 0, pc \in {"insert", "walk"}
    PROVE  new_node_index \in NodeIndex /\ ~Occupied(new_node_index)
<1>1. /\ new_node_index \in NodeIndex
      /\ \A k \in 1 .. L : order[k] # new_node_index
  BY CleanFacts DEF ListParts, NewNodeAside, PushSteps
<1> QED
  BY <1>1 DEF CleanInv, NoNodeLeaks

(* A step of the schedule inside a call: the new node is written, or no    *)
(* activity changes.                                                       *)
LEMMA WorksMoves ==
    ASSUME CleanInv, disturbed = 0, OrderedContinue
    PROVE  /\ released' = released /\ disturbed' = disturbed
           /\ \/ /\ pc \in {"insert", "walk"} /\ Linking'
                 /\ NodeEntered
                 /\ activity' = activity
              \/ /\ SameNodes
                 /\ \/ /\ pc \in PushSteps /\ pc' \in PushSteps
                       /\ pc' \in {"insert", "walk"} => pc \in {"insert", "walk"}
                       /\ activity' = activity
                    \/ pc \in PushSteps /\ pc' = "idle"
                    \/ pc \in PopSteps /\ pc' \in PopSteps \union {"idle"}
<1> USE DEF PushSteps, PopSteps, Return, file, output, Quiet
<1>1. /\ node \in [NodeIndex -> Node]
      /\ next_node_index \in NodeIndex \union {UNEXISTING_NODE_INDEX}
      /\ previous_node_index \in NodeIndex \union {UNEXISTING_NODE_INDEX}
  BY CleanFacts DEF TypeInv, ScheduleTypeOK, Link
<1>2. CASE Quiet(InsertInEmptySchedule) \/ Quiet(WriteNewNode)
  <2>1. /\ pc \in {"insert", "walk"} /\ Linking' /\ activity' = activity
        /\ released' = released /\ disturbed' = disturbed
        /\ \E p, n : node' = [node EXCEPT ![new_node_index] = NewNode(p, n)]
    BY <1>2 DEF InsertInEmptySchedule, WriteNewNode, Linking
  <2>2. NodeEntered
    <3>1. PICK p, n : node' = [node EXCEPT ![new_node_index] = NewNode(p, n)]
      BY <2>1
    <3>2. new_node_index \in NodeIndex /\ ~Occupied(new_node_index)
      BY <2>1, NewNodeIsFree
    <3>3. /\ node'[new_node_index] = NewNode(p, n)
          /\ \A i \in NodeIndex : i # new_node_index => node'[i] = node[i]
      BY <1>1, <3>1, <3>2
    <3> QED
      BY <3>2, <3>3 DEF NodeEntered, NewNode
  <2> QED
    BY <2>1, <2>2
<1>3. CASE Quiet(StartWalk) \/ Quiet(Walk) \/ Quiet(WalkReadFails)
           \/ Quiet(WalkFullLap) \/ OrderedCount
  <2>1. node' = node /\ released' = released /\ disturbed' = disturbed
    BY <1>3 DEF StartWalk, Walk, WalkReadFails, WalkFullLap, OrderedCount,
                CountActivity
  <2>2. SameNodes
    BY <2>1 DEF SameNodes, NodesKept
  <2> QED
    BY <1>3, <2>1, <2>2 DEF StartWalk, Walk, WalkReadFails, WalkFullLap,
                            OrderedCount, CountActivity
<1>4. CASE Quiet(LinkNext) \/ Quiet(LinkPrevious) \/ Quiet(UnlinkNewOldest)
  <2>1. /\ released' = released /\ disturbed' = disturbed
        /\ \/ node' = node
           \/ \E i \in NodeIndex : \E l :
                 node' = [node EXCEPT ![i].previous = l]
           \/ \E i \in NodeIndex : \E l :
                 node' = [node EXCEPT ![i].next = l]
    BY <1>1, <1>4 DEF LinkNext, LinkPrevious, UnlinkNewOldest
  <2>2. SameNodes
    BY <1>1, <2>1 DEF SameNodes, NodesKept, Node
  <2> QED
    BY <1>4, <2>1, <2>2 DEF LinkNext, LinkPrevious, UnlinkNewOldest
<1>5. CASE Quiet(UncountActivity) \/ Quiet(ReportNextDate)
           \/ Quiet(ReportReadFails)
  <2>1. node' = node /\ released' = released /\ disturbed' = disturbed
    BY <1>5 DEF UncountActivity, ReportNextDate, ReportReadFails
  <2>2. SameNodes
    BY <2>1 DEF SameNodes, NodesKept
  <2> QED
    BY <1>5, <2>1, <2>2 DEF UncountActivity, ReportNextDate, ReportReadFails
<1> QED
  BY <1>2, <1>3, <1>4, <1>5 DEF OrderedContinue, PopContinue

(* The first step of a push leaves the nodes alone. *)
LEMMA PushMoves ==
    ASSUME NEW a, OrderedPushStart(a)
    PROVE  /\ UNCHANGED <<node, disturbed, released>>
           /\ pc = "idle"
           /\ \/ pc' = "insert" /\ activity' = a
              \/ pc' = "idle"
BY DEF OrderedPushStart, Quiet, PushStart, PushRefused, PushFindsNoNode,
       GetAvailableNode, Return, file, output

(* The first step of a pop frees the oldest node or leaves them alone. *)
LEMMA PopMoves ==
    ASSUME CleanInv, disturbed = 0, NEW t, OrderedPopStart(t)
    PROVE  /\ pc = "idle" /\ disturbed' = disturbed
           /\ \/ /\ pc' = "unlink" /\ NodeLeft
                 /\ node[info.oldest].activity.timestamp <= t
                 /\ L > 0 /\ info.oldest = order[1]
              \/ /\ pc' = "idle" /\ return_value' # "RET_SUCCESSFUL"
                 /\ node' = node
<1>1. CASE OrderedFree(t)
  <2>1. /\ pc = "idle" /\ pc' = "unlink" /\ disturbed' = disturbed
        /\ info.nb_activities # 0
        /\ released' = node[info.oldest].activity
        /\ node[info.oldest].activity.timestamp <= t
        /\ node' = [node EXCEPT ![info.oldest] = ZeroNode]
    BY <1>1 DEF OrderedFree, FreeOldestNode
  <2>2. /\ L > 0 /\ info.oldest = order[1]
        /\ info.oldest \in NodeIndex /\ Occupied(info.oldest)
    BY <2>1, CleanFacts, OldestExists
  <2>3. NodeLeft
    BY <2>1, <2>2, CleanFacts
       DEF NodeLeft, TypeInv, ScheduleTypeOK, ZeroNode
  <2> QED
    BY <2>1, <2>2, <2>3
<1>2. CASE Quiet(PopNothing \/ PopReadFails \/ PopTooEarly(t))
  BY <1>2 DEF Quiet, PopNothing, PopReadFails, PopTooEarly, Return, file
<1> QED
  BY <1>1, <1>2 DEF OrderedPopStart

-----------------------------------------------------------------------------
(* The activities of the schedule and their slots. *)

FaultsCounted ==
    faults' = IF step = "zeroSlots" /\ step' = "ready" THEN 0 ELSE faults

LEMMA AloneMoves ==
    ASSUME ServiceAlone
    PROVE  /\ UNCHANGED <<node, pc, activity, released, return_value, disturbed,
                          order, info>>
           /\ ZeroNextSlot \/ StoreTC \/ FreeSlot \/ slot' = slot
           /\ Zeroing' => Zeroing
<1>1. UNCHANGED <<node, pc, activity, released, return_value, disturbed, order,
                  info>>
  BY AloneLeavesSchedule DEF orderVars, scheduleVars, file, locals, output
<1>2. /\ ZeroNextSlot \/ StoreTC \/ FreeSlot \/ slot' = slot
      /\ Zeroing' => Zeroing
  BY DEF ServiceAlone, ExecuteS11SS1, ExecuteS11SS2, SetScheduleStatus,
         ExecuteS11SS3, ZeroDataInfo, ZeroNextSlot, ExecuteS11SS4, RequestDone,
         EntryMalformed, EntryOutdated, EntryDropped, AllocateDataSlot,
         AllocationFails, StoreTC, PushReturns, ReleaseRefused, PopFails,
         UncountData, Deliver, SignalFails, ReceiverTakes, ClockMoves, table,
         call, Reply, GoTo, Zeroing, FreeSlot
<1> QED
  BY <1>1, <1>2

(* Without a fault, what holds until a fault held before the step. *)
LEMMA WholeBefore ==
    ASSUME FaultsCounted
    PROVE  /\ faults' = 0 => Whole
           /\ (Zeroing' => Zeroing) => (Whole' => Whole)
BY DEF FaultsCounted, Whole, Zeroing

LEMMA OwnedKept ==
    ASSUME ActivitiesOwned, NodesKept, Whole' => Whole,
           disturbed' = disturbed,
           \A i \in NodeIndex : Occupied(i)' =>
              slot'[ScheduledSlot(i)] = slot[ScheduledSlot(i)]
    PROVE  ActivitiesOwned'
<1> SUFFICES ASSUME Whole' PROVE ActivitiesOwned'
  BY DEF ActivitiesOwned
<1>1. disturbed' = 0
  BY DEF ActivitiesOwned
<1>2. \A i \in NodeIndex : Occupied(i)' =>
         Occupied(i) /\ ScheduledSlot(i)' = ScheduledSlot(i)
  BY DEF NodesKept, ScheduledSlot
<1>3. ASSUME NEW i \in NodeIndex, Occupied(i)'
      PROVE  /\ ScheduledSlot(i)' \in SlotIndex
             /\ Used(ScheduledSlot(i))'
             /\ slot'[ScheduledSlot(i)'].tc \in TC
             /\ node'[i].activity.timestamp = DueDate[slot'[ScheduledSlot(i)'].tc]
             /\ \A j \in NodeIndex :
                   Occupied(j)' /\ ScheduledSlot(j)' = ScheduledSlot(i)' => i = j
  <2>1. /\ Occupied(i) /\ ScheduledSlot(i)' = ScheduledSlot(i)
        /\ slot'[ScheduledSlot(i)] = slot[ScheduledSlot(i)]
        /\ node'[i].activity = node[i].activity
    BY <1>2, <1>3 DEF NodesKept
  <2>2. /\ ScheduledSlot(i) \in SlotIndex
        /\ slot[ScheduledSlot(i)].status = "UNAVAILABLE"
        /\ slot[ScheduledSlot(i)].tc \in TC
        /\ node[i].activity.timestamp = DueDate[slot[ScheduledSlot(i)].tc]
        /\ \A j \in NodeIndex :
              Occupied(j) /\ ScheduledSlot(j) = ScheduledSlot(i) => i = j
    BY <2>1 DEF ActivitiesOwned, Used
  <2> QED
    BY <1>2, <2>1, <2>2 DEF Used
<1> QED
  BY <1>1, <1>3 DEF ActivitiesOwned

(* The slots the service writes to are not those of scheduled activities.  *)
LEMMA ScheduledSlotsKept ==
    ASSUME OwnedInv, ServiceAlone, FaultsCounted, Whole',
           NEW i \in NodeIndex, Occupied(i)
    PROVE  slot'[ScheduledSlot(i)] = slot[ScheduledSlot(i)]
<1>1. Whole
  BY AloneMoves, WholeBefore
<1>2. /\ ScheduledSlot(i) \in SlotIndex
      /\ Used(ScheduledSlot(i))
      /\ slot \in [SlotIndex -> Slot]
  BY <1>1 DEF OwnedInv, ActivitiesOwned, Pus11TypeInv, ServiceTyped
<1>3. CASE ZeroNextSlot
  BY <1>3 DEF ZeroNextSlot, OwnedInv, Cleared, Zeroing
<1>4. CASE StoreTC
  <2>1. /\ step = "store"
        /\ slot' = [slot EXCEPT ![data_index] =
                       [status |-> "UNAVAILABLE", tc |-> item]]
    BY <1>4 DEF StoreTC
  <2>2. ~Used(data_index)
    BY <1>1, <2>1 DEF OwnedInv, BeingAdded, Whole, Zeroing
  <2>3. data_index # ScheduledSlot(i)
    BY <1>2, <2>2
  <2> QED
    BY <1>2, <2>1, <2>3
<1>5. CASE FreeSlot
  <2>1. /\ step = "popping" /\ pc = "idle" /\ return_value = "RET_SUCCESSFUL"
        /\ slot' = [slot EXCEPT ![released.data] = ZeroSlot]
    BY <1>5 DEF FreeSlot
  <2>2. Reserved(released.data)
    BY <1>1, <2>1
       DEF OwnedInv, BeingReleased, Popped, Whole, Zeroing
  <2>3. released.data # ScheduledSlot(i)
    BY <2>2 DEF Reserved
  <2> QED
    BY <1>2, <2>1, <2>3
<1> QED
  BY <1>3, <1>4, <1>5, AloneMoves

LEMMA AloneOwned ==
    ASSUME OwnedInv, ServiceAlone, FaultsCounted
    PROVE  ActivitiesOwned'
<1>1. UNCHANGED <<node, disturbed>> /\ NodesKept /\ (Whole' => Whole)
  BY AloneMoves, WholeBefore DEF NodesKept
<1>2. ASSUME Whole'
      PROVE  ActivitiesOwned'
  BY <1>1, <1>2, OwnedKept, ScheduledSlotsKept DEF OwnedInv
<1> QED
  BY <1>2 DEF ActivitiesOwned

(* The new activity is for a slot no other activity is for. *)
LEMMA EnteredOwned ==
    ASSUME OwnedInv, faults = 0, NodeEntered, pc \in {"insert", "walk"},
           UNCHANGED <<slot, disturbed>>
    PROVE  ActivitiesOwned'
<1>1. /\ activity = [timestamp |-> DueDate[item], data |-> data_index]
      /\ Used(data_index) /\ slot[data_index].tc = item
      /\ Reserved(data_index)
  BY DEF OwnedInv, BeingAdded, PushSteps
<1>2. item \in TC /\ data_index \in SlotIndex
  BY DEF OwnedInv, Pus11TypeInv, Phases, ServiceTyped, PushSteps
<1>3. /\ disturbed' = 0
      /\ \A i \in NodeIndex : Occupied(i) =>
            /\ ScheduledSlot(i) \in SlotIndex
            /\ Used(ScheduledSlot(i))
            /\ slot[ScheduledSlot(i)].tc \in TC
            /\ node[i].activity.timestamp = DueDate[slot[ScheduledSlot(i)].tc]
            /\ ScheduledSlot(i) # data_index
            /\ \A j \in NodeIndex :
                  Occupied(j) /\ ScheduledSlot(j) = ScheduledSlot(i) => i = j
  BY <1>1 DEF OwnedInv, ActivitiesOwned, Whole, Reserved
<1>4. /\ node'[new_node_index].activity.timestamp = DueDate[item]
      /\ node'[new_node_index].activity.data = data_index
  BY <1>1 DEF NodeEntered
<1>5. \A i \in NodeIndex : i # new_node_index => node'[i] = node[i]
  BY DEF NodeEntered
<1>6. ASSUME NEW i \in NodeIndex, Occupied(i)'
      PROVE  /\ ScheduledSlot(i)' \in SlotIndex
             /\ Used(ScheduledSlot(i))'
             /\ slot'[ScheduledSlot(i)'].tc \in TC
             /\ node'[i].activity.timestamp = DueDate[slot'[ScheduledSlot(i)'].tc]
             /\ \A j \in NodeIndex :
                   Occupied(j)' /\ ScheduledSlot(j)' = ScheduledSlot(i)' => i = j
  <2>1. CASE i = new_node_index
    BY <1>1, <1>2, <1>3, <1>4, <1>5, <2>1 DEF ScheduledSlot, Used
  <2>2. CASE i # new_node_index
    BY <1>3, <1>4, <1>5, <1>6, <2>2 DEF ScheduledSlot, Used
  <2> QED
    BY <2>1, <2>2
<1> QED
  BY <1>3, <1>6 DEF ActivitiesOwned

LEMMA OwnedStep ==
    ASSUME OwnedInv, FaultyStep, faults' \in Nat
    PROVE  ActivitiesOwned'
<1>1. ASSUME ServiceAlone, FaultsCounted
      PROVE  ActivitiesOwned'
  BY <1>1, AloneOwned
<1>2. CASE StartReset
  <2>1. \A i \in NodeIndex : ~Occupied(i)'
    BY <1>2 DEF StartReset, ExecuteS11SS3, OrderedReset, Reset, ZeroNode
  <2>2. disturbed' = 0
    BY <1>2 DEF StartReset, ExecuteS11SS3, OrderedReset
  <2> QED
    BY <2>1, <2>2 DEF ActivitiesOwned
<1>3. ASSUME CallPush, FaultsCounted
      PROVE  ActivitiesOwned'
  <2>1. /\ UNCHANGED <<node, disturbed, slot>> /\ (Zeroing' => Zeroing)
    BY <1>3, PushMoves DEF CallPush, table, GoTo, Zeroing
  <2>2. NodesKept /\ (Whole' => Whole)
    BY <1>3, <2>1, WholeBefore DEF NodesKept
  <2> QED
    BY <2>1, <2>2, OwnedKept DEF OwnedInv
<1>4. ASSUME TryReleaseDelayedTC, FaultsCounted
      PROVE  ActivitiesOwned'
  <2> SUFFICES ASSUME Whole' PROVE ActivitiesOwned'
    BY DEF ActivitiesOwned
  <2>1. /\ OrderedPopStart(now) /\ slot' = slot /\ (Zeroing' => Zeroing)
    BY <1>4 DEF TryReleaseDelayedTC, table, GoTo, Zeroing
  <2>2. Whole /\ disturbed = 0
    BY <1>4, <2>1, WholeBefore DEF OwnedInv, ActivitiesOwned
  <2>3. NodesKept /\ disturbed' = disturbed
    BY <2>1, <2>2, PopMoves DEF OwnedInv, NodesKept, NodeLeft
  <2> QED
    BY <2>1, <2>2, <2>3, OwnedKept DEF OwnedInv
<1>5. ASSUME ScheduleWorks, FaultsCounted
      PROVE  ActivitiesOwned'
  <2> SUFFICES ASSUME Whole' PROVE ActivitiesOwned'
    BY DEF ActivitiesOwned
  <2>1. /\ OrderedContinue /\ UNCHANGED <<slot, step>>
    BY <1>5 DEF ScheduleWorks, serviceVars, table, call
  <2>2. Whole /\ disturbed = 0
    BY <1>5, <2>1, WholeBefore DEF OwnedInv, ActivitiesOwned, Zeroing
  <2>3. CASE NodeEntered /\ pc \in {"insert", "walk"} /\ disturbed' = disturbed
    <3>1. ~Zeroing
      BY <2>3 DEF OwnedInv, Pus11TypeInv, Phases, PushSteps, Zeroing
    <3> QED
      BY <2>1, <2>2, <2>3, <3>1, EnteredOwned DEF Whole
  <2>4. CASE NodesKept /\ disturbed' = disturbed
    BY <2>1, <2>2, <2>4, OwnedKept DEF OwnedInv
  <2> QED
    BY <2>1, <2>2, <2>3, <2>4, WorksMoves DEF OwnedInv, SameNodes
<1>6. CASE Fault
  <2>1. faults' # 0 /\ ~Zeroing'
    BY <1>6 DEF Fault, DeviceFails, Restart, Reply, Zeroing, OwnedInv,
                Pus11TypeInv
  <2> QED
    BY <2>1 DEF ActivitiesOwned, Whole
<1> QED
  BY <1>1, <1>2, <1>3, <1>4, <1>5, <1>6, FaultySplit
     DEF Counted, FaultsCounted

-----------------------------------------------------------------------------
(* The slots and the call in progress, in the steps of the service alone.  *)

ServiceUnmoved ==
    UNCHANGED <<step, slot, dataInfo, request, item, data_index>>

ServiceReturns ==
    /\ step \in {"ready", "add", "pushing", "popping", "deliver"}
    /\ pc = "idle"
    /\ step' = "ready" /\ request' = <<>>
    /\ UNCHANGED <<slot, dataInfo>>

RequestAccepted ==
    /\ step = "ready" /\ pc = "idle" /\ step' = "add" /\ request' \in Requests
    /\ UNCHANGED <<slot, dataInfo>>

PushSucceeded ==
    /\ step = "pushing" /\ pc = "idle" /\ step' = "add"
    /\ UNCHANGED <<slot, dataInfo, request>>

LEMMA AloneSplit ==
    ASSUME Pus11TypeInv, ServiceAlone
    PROVE  \/ ServiceUnmoved \/ ServiceReturns
           \/ RequestAccepted \/ PushSucceeded
           \/ ZeroDataInfo \/ ZeroNextSlot
           \/ EntryDropped \/ AllocateDataSlot \/ StoreTC
           \/ FreeSlot \/ UncountData
<1>1. CASE ReceiverTakes \/ \E t \in Time : ClockMoves(t)
  BY <1>1 DEF ReceiverTakes, ClockMoves, ServiceUnmoved, table, call
<1>2. CASE \/ ExecuteS11SS1 \/ ExecuteS11SS2
           \/ ExecuteS11SS3 /\ status # "PUS_INITIALIZED"
           \/ RequestDone \/ EntryMalformed \/ EntryOutdated
           \/ AllocationFails \/ ReleaseRefused \/ PopFails
           \/ Deliver \/ SignalFails
  <2>1. /\ \E v, e : Reply(v, e)
        /\ UNCHANGED table
        /\ \/ step \in {"ready", "add", "deliver"}
           \/ step = "popping" /\ pc = "idle"
    BY <1>2 DEF ExecuteS11SS1, ExecuteS11SS2, SetScheduleStatus, ExecuteS11SS3,
           RequestDone, EntryMalformed, EntryOutdated, AllocationFails,
           ReleaseRefused, PopFails, Ready, Adding, Admissible, Deliver,
           SignalFails
  <2>2. pc = "idle"
    BY <2>1, Bounds
  <2> QED
    BY <2>1, <2>2 DEF Reply, ServiceReturns, table
<1>3. CASE \E entries \in Requests : ExecuteS11SS4(entries)
  BY <1>3 DEF ExecuteS11SS4, Reply, ServiceReturns, RequestAccepted, table,
              GoTo, Ready
<1>4. CASE PushReturns
  BY <1>4 DEF PushReturns, Reply, ServiceReturns, PushSucceeded, table, GoTo
<1> QED
  BY <1>1, <1>2, <1>3, <1>4 DEF ServiceAlone

LEMMA AloneCleared ==
    ASSUME OwnedInv, ServiceAlone
    PROVE  Cleared'
<1>1. Zeroing' => \A i \in NodeIndex : ~Occupied(i)'
  BY AloneMoves DEF OwnedInv, Cleared
<1>2. ASSUME step' = "zeroSlots"
      PROVE  /\ dataInfo'.nb_data = 0
             /\ \A s \in SlotIndex : s < data_index' => slot'[s] = ZeroSlot
  <2>1. CASE ServiceUnmoved
    BY <1>2, <2>1 DEF ServiceUnmoved, OwnedInv, Cleared
  <2>2. CASE ZeroDataInfo
    <3>1. data_index' = 0 /\ dataInfo'.nb_data = 0
      BY <2>2 DEF ZeroDataInfo, OwnedInv, Pus11TypeInv, Phases
    <3> QED
      BY <3>1 DEF SlotIndex
  <2>3. CASE ZeroNextSlot
    <3>1. /\ step = "zeroSlots" /\ data_index' = data_index + 1
          /\ slot' = [slot EXCEPT ![data_index] = ZeroSlot]
          /\ dataInfo' = dataInfo
      BY <1>2, <2>3 DEF ZeroNextSlot, Reply
    <3>2. data_index \in SlotIndex /\ slot \in [SlotIndex -> Slot]
      BY DEF OwnedInv, Pus11TypeInv, ServiceTyped
    <3>3. \A s \in SlotIndex : s < data_index => slot[s] = ZeroSlot
      BY <3>1 DEF OwnedInv, Cleared
    <3>4. \A s \in SlotIndex : s < data_index + 1 => s < data_index \/ s = data_index
      BY <3>2 DEF SlotIndex
    <3> QED
      BY <3>1, <3>2, <3>3, <3>4 DEF OwnedInv, Cleared
  <2>4. ~(ServiceUnmoved \/ ZeroDataInfo \/ ZeroNextSlot) => step' # "zeroSlots"
    BY AloneSplit
       DEF OwnedInv, ServiceReturns, RequestAccepted, PushSucceeded,
           EntryDropped, Adding, AllocateDataSlot, StoreTC, FreeSlot,
           UncountData, GoTo
  <2> QED
    BY <1>2, <2>1, <2>2, <2>3, <2>4
<1> QED
  BY <1>1, <1>2 DEF Cleared

(* The slot is unused until it is stored in, and then reserved.            *)
LEMMA AloneAdded ==
    ASSUME OwnedInv, ServiceAlone, FaultsCounted
    PROVE  BeingAdded'
<1> SUFFICES ASSUME faults' = 0 PROVE BeingAdded'
  BY DEF BeingAdded
<1>1. UNCHANGED <<node, pc, activity>>
  BY AloneMoves
<1>2. step # "zeroSlots" => faults = 0
  BY DEF FaultsCounted
<1>3. pc \in PushSteps => step = "pushing"
  BY DEF OwnedInv, Pus11TypeInv, Phases
<1>4. CASE ServiceUnmoved
  <2>1. CASE step = "zeroSlots"
    <3>1. step' = "zeroSlots" /\ pc' \notin PushSteps
      BY <1>1, <1>3, <1>4, <2>1 DEF ServiceUnmoved
    <3> QED
      BY <3>1 DEF BeingAdded, PushSteps
  <2>2. CASE step # "zeroSlots"
    BY <1>1, <1>2, <1>4, <2>2
       DEF ServiceUnmoved, OwnedInv, BeingAdded, Used, Reserved, ScheduledSlot
  <2> QED
    BY <2>1, <2>2
<1>5. CASE AllocateDataSlot
  <2>1. /\ step' = "store" /\ ~Used(data_index)' /\ step = "add"
    BY <1>5 DEF AllocateDataSlot, GoTo, Used, Admissible, Adding
  <2>2. pc' \notin PushSteps
    BY <1>1, <1>3, <2>1
  <2> QED
    BY <2>1, <2>2 DEF BeingAdded, PushSteps
<1>6. CASE StoreTC
  <2>1. /\ step = "store" /\ step' = "push" /\ UNCHANGED <<item, data_index>>
        /\ slot' = [slot EXCEPT ![data_index] =
                       [status |-> "UNAVAILABLE", tc |-> item]]
    BY <1>6 DEF StoreTC, GoTo
  <2>2. data_index \in SlotIndex /\ slot \in [SlotIndex -> Slot]
    BY DEF OwnedInv, Pus11TypeInv, ServiceTyped
  <2>3. Used(data_index)' /\ slot'[data_index'].tc = item'
    BY <2>1, <2>2 DEF Used
  <2>4. ~Used(data_index) /\ faults = 0
    BY <1>2, <2>1 DEF OwnedInv, BeingAdded
  <2>5. Reserved(data_index)'
    BY <1>1, <2>1, <2>4
       DEF OwnedInv, ActivitiesOwned, Whole, Reserved, ScheduledSlot
  <2>6. pc' \notin PushSteps
    BY <1>1, <1>3, <2>1
  <2> QED
    BY <2>1, <2>3, <2>5, <2>6 DEF BeingAdded
<1>7. CASE ~(ServiceUnmoved \/ AllocateDataSlot \/ StoreTC)
  <2>1. step' \notin {"store", "push"} /\ (step = "pushing" => pc = "idle")
    BY <1>7, AloneSplit
       DEF OwnedInv, ServiceReturns, RequestAccepted, PushSucceeded,
           ZeroDataInfo, ZeroNextSlot, EntryDropped, Adding, FreeSlot,
           UncountData, GoTo, Reply
  <2>2. pc' \notin PushSteps
    BY <1>1, <1>3, <2>1 DEF PushSteps
  <2> QED
    BY <2>1, <2>2 DEF BeingAdded, PushSteps
<1> QED
  BY <1>4, <1>5, <1>6, <1>7

LEMMA AloneReleased ==
    ASSUME OwnedInv, ServiceAlone, FaultsCounted
    PROVE  BeingReleased'
<1> SUFFICES ASSUME faults' = 0 PROVE BeingReleased'
  BY DEF BeingReleased
<1>1. UNCHANGED <<node, pc, released, return_value>>
  BY AloneMoves
<1>2. step # "zeroSlots" => faults = 0
  BY DEF FaultsCounted
<1>3. CASE ServiceUnmoved
  <2>1. CASE step = "zeroSlots"
    BY <1>3, <2>1 DEF ServiceUnmoved, BeingReleased
  <2>2. CASE step # "zeroSlots"
    BY <1>1, <1>2, <1>3, <2>2
       DEF ServiceUnmoved, OwnedInv, BeingReleased, Popped, Used, Reserved,
           ScheduledSlot
  <2> QED
    BY <2>1, <2>2
<1>4. CASE FreeSlot
  <2>1. /\ step = "popping" /\ Popped /\ step' = "uncountData"
        /\ item' = slot[released.data].tc
    BY <1>4 DEF FreeSlot, Popped, GoTo
  <2> QED
    BY <1>2, <2>1 DEF OwnedInv, BeingReleased
<1>5. CASE UncountData
  <2>1. step = "uncountData" /\ step' = "deliver" /\ item' = item
    BY <1>5 DEF UncountData, GoTo
  <2> QED
    BY <1>2, <2>1 DEF OwnedInv, BeingReleased
<1>6. CASE ~(ServiceUnmoved \/ FreeSlot \/ UncountData)
  <2>1. step' \notin {"popping", "uncountData", "deliver"}
    BY <1>6, AloneSplit
       DEF OwnedInv, ServiceReturns, RequestAccepted, PushSucceeded,
           ZeroDataInfo, ZeroNextSlot, EntryDropped, Adding, AllocateDataSlot,
           StoreTC, GoTo, Reply
  <2> QED
    BY <2>1 DEF BeingReleased
<1> QED
  BY <1>3, <1>4, <1>5, <1>6

LEMMA UsedFinite ==
    ASSUME Pus11TypeInv
    PROVE  IsFiniteSet(UsedSlots) /\ Cardinality(UsedSlots) \in Nat
<1>1. IsFiniteSet(SlotIndex)
  BY Pus11Assumption, FS_Interval DEF SlotIndex
<1>2. UsedSlots \subseteq SlotIndex
  BY DEF UsedSlots
<1> QED
  BY <1>1, <1>2, FS_Subset, FS_CardinalityType

LEMMA AloneCounted ==
    ASSUME OwnedInv, ServiceAlone, FaultsCounted
    PROVE  SlotsCounted'
<1> SUFFICES ASSUME faults' = 0, ~Zeroing' PROVE SlotsCounted'
  BY DEF SlotsCounted
<1>1. /\ dataInfo.nb_data \in Nat
      /\ slot \in [SlotIndex -> Slot]
      /\ IsFiniteSet(UsedSlots) /\ Cardinality(UsedSlots) \in Nat
  BY Bounds, UsedFinite, Pus11Assumption
     DEF OwnedInv, Pus11TypeInv, ServiceTyped
<1>2. step # "zeroSlots" => faults = 0
  BY DEF FaultsCounted
<1>3. ~Zeroing => dataInfo.nb_data =
                     IF step \in {"store", "uncountData"}
                       THEN Cardinality(UsedSlots) + 1
                       ELSE Cardinality(UsedSlots)
  BY <1>2 DEF OwnedInv, SlotsCounted, Zeroing
<1>4. CASE ServiceUnmoved
  BY <1>3, <1>4 DEF ServiceUnmoved, SlotsCounted, UsedSlots, Used, Zeroing
<1>5. CASE \/ ServiceReturns \/ RequestAccepted \/ PushSucceeded \/ EntryDropped
  <2>1. /\ UNCHANGED <<slot, dataInfo>> /\ ~Zeroing
        /\ step \notin {"store", "uncountData"}
        /\ step' \notin {"store", "uncountData"}
    BY <1>5 DEF ServiceReturns, RequestAccepted, PushSucceeded, EntryDropped,
                Adding, table, Zeroing
  <2> QED
    BY <1>3, <2>1 DEF SlotsCounted, UsedSlots, Used
<1>6. CASE ZeroDataInfo
  BY <1>6 DEF ZeroDataInfo, GoTo, Zeroing
<1>7. CASE ZeroNextSlot
  <2>1. /\ step = "zeroSlots" /\ step' = "ready" /\ dataInfo' = dataInfo
        /\ data_index = PUS11_MAXIMUM_DATA - 1
        /\ slot' = [slot EXCEPT ![data_index] = ZeroSlot]
    BY <1>7 DEF ZeroNextSlot, Reply, Zeroing
  <2>2. /\ dataInfo.nb_data = 0
        /\ \A s \in SlotIndex : s < data_index => slot[s] = ZeroSlot
    BY <2>1 DEF OwnedInv, Cleared
  <2>3. \A s \in SlotIndex : s = data_index \/ s < data_index
    BY <2>1, Pus11Assumption DEF SlotIndex
  <2>4. \A s \in SlotIndex : slot'[s] = ZeroSlot
    BY <1>1, <2>1, <2>2, <2>3
  <2>5. UsedSlots' = {}
    BY <2>4 DEF UsedSlots, Used, ZeroSlot
  <2>6. Cardinality(UsedSlots') = 0
    BY <2>5, FS_EmptySet
  <2> QED
    BY <2>1, <2>2, <2>6 DEF SlotsCounted
<1>8. CASE AllocateDataSlot
  <2>1. /\ step = "add" /\ step' = "store" /\ slot' = slot
        /\ dataInfo'.nb_data = dataInfo.nb_data + 1
    BY <1>8 DEF AllocateDataSlot, Admissible, Adding, GoTo
  <2>2. UsedSlots' = UsedSlots
    BY <2>1 DEF UsedSlots, Used
  <2> QED
    BY <1>3, <2>1, <2>2 DEF SlotsCounted, Zeroing
<1>9. CASE StoreTC
  <2>1. /\ step = "store" /\ step' = "push" /\ dataInfo' = dataInfo
        /\ slot' = [slot EXCEPT ![data_index] =
                       [status |-> "UNAVAILABLE", tc |-> item]]
    BY <1>9 DEF StoreTC, GoTo
  <2>2. data_index \in SlotIndex /\ data_index \notin UsedSlots
    BY <1>2, <2>1
       DEF OwnedInv, BeingAdded, UsedSlots, Pus11TypeInv, ServiceTyped
  <2>3. UsedSlots' = UsedSlots \union {data_index}
    BY <1>1, <2>1, <2>2 DEF UsedSlots, Used
  <2>4. Cardinality(UsedSlots') = Cardinality(UsedSlots) + 1
    BY <1>1, <2>2, <2>3, FS_AddElement
  <2> QED
    BY <1>3, <2>1, <2>4 DEF SlotsCounted, Zeroing
<1>10. CASE FreeSlot
  <2>1. /\ step = "popping" /\ Popped /\ step' = "uncountData"
        /\ dataInfo' = dataInfo
        /\ slot' = [slot EXCEPT ![released.data] = ZeroSlot]
    BY <1>10 DEF FreeSlot, Popped, GoTo
  <2>2. released.data \in UsedSlots
    BY <1>2, <2>1 DEF OwnedInv, BeingReleased, UsedSlots
  <2>3. UsedSlots' = UsedSlots \ {released.data}
    BY <1>1, <2>1 DEF UsedSlots, Used, ZeroSlot
  <2>4. Cardinality(UsedSlots') = Cardinality(UsedSlots) - 1
    BY <1>1, <2>2, <2>3, FS_RemoveElement
  <2> QED
    BY <1>1, <1>3, <2>1, <2>4 DEF SlotsCounted, Zeroing
<1>11. CASE UncountData
  <2>1. /\ step = "uncountData" /\ step' = "deliver" /\ slot' = slot
        /\ dataInfo'.nb_data = IF dataInfo.nb_data = 0 THEN MAX_UINT32
                               ELSE dataInfo.nb_data - 1
    BY <1>11 DEF UncountData, GoTo
  <2>2. UsedSlots' = UsedSlots
    BY <2>1 DEF UsedSlots, Used
  <2>3. dataInfo.nb_data = Cardinality(UsedSlots) + 1
    BY <1>3, <2>1 DEF Zeroing
  <2>4. dataInfo'.nb_data = Cardinality(UsedSlots)
    BY <1>1, <2>1, <2>3
  <2> QED
    BY <2>1, <2>2, <2>4 DEF SlotsCounted
<1> QED
  BY <1>4, <1>5, <1>6, <1>7, <1>8, <1>9, <1>10, <1>11, AloneSplit
     DEF OwnedInv

(* The telecommands in the slots are distinct.                             *)
SlotsDistinct ==
    \A r, s \in SlotIndex : slot[r].tc = slot[s].tc /\ slot[s].tc \in TC => r = s

(* Those asked for are in no slot.                                         *)
RequestApart ==
    \A k \in 1 .. Len(request) : request[k] \in TC =>
       /\ \A s \in SlotIndex : slot[s].tc # request[k]
       /\ step = "store" => request[k] # item
       /\ \A j \in 1 .. Len(request) : request[j] = request[k] => j = k

ItemApart == step = "store" => \A s \in SlotIndex : slot[s].tc # item

LEMMA TwiceParts ==
    NoTCTwice <=> (faults = 0 => SlotsDistinct /\ RequestApart /\ ItemApart)
BY DEF NoTCTwice, SlotsDistinct, RequestApart, ItemApart

LEMMA AcceptedApart ==
    ASSUME RequestAccepted
    PROVE  RequestApart'
<1>1. request' \in Requests /\ slot' = slot /\ step' = "add"
  BY DEF RequestAccepted
<1>2. /\ \A k \in 1 .. Len(request') : ~Held(request'[k])
      /\ \A j, k \in 1 .. Len(request') : request'[j] = request'[k] => j = k
  BY <1>1 DEF Requests
<1> QED
  BY <1>1, <1>2 DEF RequestApart, Held

LEMMA TailApart ==
    ASSUME Pus11TypeInv, RequestApart, request # <<>>, request' = Tail(request),
           slot' = slot, step' # "store"
    PROVE  RequestApart'
<1>1. /\ request \in Seq(TC \union {Malformed})
  BY DEF Pus11TypeInv, ServiceTyped
<1>2. /\ Len(request') = Len(request) - 1 /\ Len(request) \in Nat
      /\ \A k \in 1 .. Len(request) - 1 : request'[k] = request[k + 1]
  BY <1>1, HeadTailProperties
<1>3. \A k \in 1 .. Len(request') :
         k + 1 \in 1 .. Len(request) /\ request'[k] = request[k + 1]
  BY <1>2
<1>4. \A j, k \in 1 .. Len(request') : j + 1 = k + 1 => j = k
  OBVIOUS
<1> QED
  BY <1>3, <1>4 DEF RequestApart

LEMMA AloneTwice ==
    ASSUME OwnedInv, ServiceAlone, FaultsCounted
    PROVE  NoTCTwice'
<1> SUFFICES ASSUME faults' = 0
             PROVE  SlotsDistinct' /\ RequestApart' /\ ItemApart'
  BY DEF NoTCTwice, SlotsDistinct, RequestApart, ItemApart
<1>1. step # "zeroSlots" => faults = 0
  BY DEF FaultsCounted
<1>2. faults = 0 => SlotsDistinct /\ RequestApart /\ ItemApart
  BY TwiceParts DEF OwnedInv
<1>3. /\ slot \in [SlotIndex -> Slot] /\ data_index \in SlotIndex
      /\ request \in Seq(TC \union {Malformed})
      /\ NoTC \notin TC
  BY Pus11Assumption DEF OwnedInv, Pus11TypeInv, ServiceTyped
<1>4. CASE ServiceUnmoved
  <2>1. faults = 0
    BY <1>1, <1>4 DEF FaultsCounted, ServiceUnmoved
  <2> QED
    BY <1>2, <1>4, <2>1
       DEF ServiceUnmoved, SlotsDistinct, RequestApart, ItemApart
<1>5. CASE ServiceReturns
  <2>1. /\ slot' = slot /\ step' = "ready" /\ request' = <<>> /\ faults = 0
    BY <1>1, <1>5 DEF ServiceReturns
  <2> QED
    BY <1>2, <2>1 DEF SlotsDistinct, RequestApart, ItemApart
<1>6. CASE RequestAccepted
  <2>1. /\ slot' = slot /\ step' = "add" /\ faults = 0
    BY <1>1, <1>6 DEF RequestAccepted
  <2> QED
    BY <1>2, <1>6, <2>1, AcceptedApart DEF SlotsDistinct, ItemApart
<1>7. CASE PushSucceeded
  <2>1. /\ step' = "add" /\ faults = 0 /\ UNCHANGED <<slot, request>>
    BY <1>1, <1>7 DEF PushSucceeded
  <2> QED
    BY <1>2, <2>1 DEF SlotsDistinct, RequestApart, ItemApart
<1>8. CASE ZeroDataInfo
  <2>1. /\ step' = "zeroSlots" /\ faults = 0 /\ UNCHANGED <<slot, request>>
    BY <1>1, <1>8 DEF ZeroDataInfo, GoTo
  <2> QED
    BY <1>2, <2>1 DEF SlotsDistinct, RequestApart, ItemApart
<1>9. CASE ZeroNextSlot
  <2>1. /\ slot' = [slot EXCEPT ![data_index] = ZeroSlot]
        /\ step = "zeroSlots" /\ step' \in {"ready", "zeroSlots"}
        /\ request = <<>> /\ request' = <<>>
    BY <1>9 DEF ZeroNextSlot, Reply, OwnedInv, Pus11TypeInv, Phases, Zeroing
  <2>2. RequestApart' /\ ItemApart'
    BY <2>1 DEF RequestApart, ItemApart
  <2>3. CASE data_index = PUS11_MAXIMUM_DATA - 1
    <3>1. \A s \in SlotIndex : s < data_index => slot[s] = ZeroSlot
      BY <2>1 DEF OwnedInv, Cleared
    <3>2. \A s \in SlotIndex : s = data_index \/ s < data_index
      BY <2>3, Pus11Assumption DEF SlotIndex
    <3>3. \A s \in SlotIndex : slot'[s].tc = NoTC
      BY <1>3, <2>1, <3>1, <3>2 DEF ZeroSlot
    <3> QED
      BY <1>3, <2>2, <3>3 DEF SlotsDistinct
  <2>4. CASE data_index # PUS11_MAXIMUM_DATA - 1
    <3>1. faults = 0
      BY <1>9, <2>1, <2>4 DEF ZeroNextSlot, FaultsCounted
    <3>2. \A s \in SlotIndex : slot'[s] = slot[s] \/ slot'[s].tc = NoTC
      BY <1>3, <2>1 DEF ZeroSlot
    <3> QED
      BY <1>2, <1>3, <2>2, <3>1, <3>2 DEF SlotsDistinct
  <2> QED
    BY <2>3, <2>4
<1>10. CASE EntryDropped
  <2>1. /\ step = "add" /\ step' = "add" /\ faults = 0 /\ slot' = slot
        /\ request # <<>> /\ request' = Tail(request)
    BY <1>1, <1>10 DEF EntryDropped, Adding, table
  <2> QED
    BY <1>2, <2>1, TailApart DEF OwnedInv, SlotsDistinct, ItemApart
<1>11. CASE AllocateDataSlot
  <2>1. /\ step = "add" /\ step' = "store" /\ faults = 0 /\ slot' = slot
        /\ request # <<>> /\ request' = Tail(request) /\ item' = Head(request)
        /\ Head(request) # Malformed
    BY <1>1, <1>11 DEF AllocateDataSlot, Admissible, Adding, GoTo
  <2>2. /\ Len(request') = Len(request) - 1
        /\ Len(request) \in Nat /\ Len(request) > 0
        /\ \A k \in 1 .. Len(request) - 1 : request'[k] = request[k + 1]
        /\ item' = request[1] /\ item' \in TC
    BY <1>3, <2>1, HeadTailProperties
  <2>3. \A k \in 1 .. Len(request') :
           /\ k + 1 \in 1 .. Len(request) /\ k + 1 # 1
           /\ request'[k] = request[k + 1]
    BY <2>2
  <2>4. /\ \A s \in SlotIndex : slot[s].tc # item'
        /\ \A k \in 1 .. Len(request) : request[k] = item' => k = 1
    <3>1. 1 \in 1 .. Len(request) /\ request[1] \in TC
      BY <2>2
    <3> QED
      BY <1>2, <2>1, <2>2, <3>1 DEF RequestApart
  <2>5. ItemApart' /\ SlotsDistinct'
    BY <1>2, <2>1, <2>4 DEF ItemApart, SlotsDistinct
  <2>6. \A k \in 1 .. Len(request') : request'[k] # item'
    BY <2>3, <2>4
  <2>7. \A j, k \in 1 .. Len(request') : j + 1 = k + 1 => j = k
    OBVIOUS
  <2>8. RequestApart'
    BY <1>2, <2>1, <2>3, <2>6, <2>7 DEF RequestApart
  <2> QED
    BY <2>5, <2>8
<1>12. CASE StoreTC
  <2>1. /\ step = "store" /\ step' = "push" /\ request' = request
        /\ slot' = [slot EXCEPT ![data_index] =
                       [status |-> "UNAVAILABLE", tc |-> item]]
        /\ faults = 0
    BY <1>1, <1>12 DEF StoreTC, GoTo
  <2>2. \A s \in SlotIndex : slot'[s].tc = IF s = data_index THEN item
                                                            ELSE slot[s].tc
    BY <1>3, <2>1
  <2>3. \A s \in SlotIndex : slot[s].tc # item
    BY <1>2, <2>1 DEF ItemApart
  <2>4. SlotsDistinct'
    BY <1>2, <2>1, <2>2, <2>3 DEF SlotsDistinct
  <2>5. RequestApart' /\ ItemApart'
    BY <1>2, <2>1, <2>2 DEF RequestApart, ItemApart
  <2> QED
    BY <2>4, <2>5
<1>13. CASE FreeSlot
  <2>1. /\ step = "popping" /\ step' = "uncountData" /\ request' = request
        /\ slot' = [slot EXCEPT ![released.data] = ZeroSlot] /\ faults = 0
    BY <1>1, <1>13 DEF FreeSlot, GoTo
  <2>2. \A s \in SlotIndex : slot'[s] = slot[s] \/ slot'[s].tc = NoTC
    BY <1>3, <2>1 DEF ZeroSlot
  <2>3. SlotsDistinct' /\ ItemApart'
    BY <1>2, <1>3, <2>1, <2>2 DEF SlotsDistinct, ItemApart
  <2>4. RequestApart'
    BY <1>2, <1>3, <2>1, <2>2 DEF RequestApart
  <2> QED
    BY <2>3, <2>4
<1>14. CASE UncountData
  <2>1. /\ step = "uncountData" /\ step' = "deliver" /\ faults = 0
        /\ UNCHANGED <<slot, request>>
    BY <1>1, <1>14 DEF UncountData, GoTo
  <2> QED
    BY <1>2, <2>1 DEF SlotsDistinct, RequestApart, ItemApart
<1> QED
  BY <1>4, <1>5, <1>6, <1>7, <1>8, <1>9, <1>10, <1>11, <1>12, <1>13, <1>14,
     AloneSplit DEF OwnedInv

-----------------------------------------------------------------------------
(* The steps of the schedule, for what the slots and the call say. *)

OthersInv == Cleared /\ BeingAdded /\ BeingReleased /\ SlotsCounted /\ NoTCTwice

(* The slots are left alone and no count is between two writes. *)
LEMMA SlotsAlone ==
    ASSUME SlotsCounted, NoTCTwice,
           UNCHANGED <<slot, dataInfo, request, item>>,
           faults' = 0 => faults = 0, ~Zeroing' => ~Zeroing,
           step \notin {"store", "uncountData"},
           step' \notin {"store", "uncountData"}
    PROVE  SlotsCounted' /\ NoTCTwice'
<1>1. SlotsCounted'
  BY DEF SlotsCounted, UsedSlots, Used
<1>2. NoTCTwice'
  BY DEF NoTCTwice
<1> QED
  BY <1>1, <1>2

LEMMA StartResetOthers ==
    ASSUME OwnedInv, StartReset, faults' = faults
    PROVE  OthersInv'
<1>1. /\ step = "ready" /\ step' = "zeroInfo" /\ pc' = "idle"
      /\ \A i \in NodeIndex : ~Occupied(i)'
      /\ UNCHANGED <<slot, request>>
  BY DEF StartReset, ExecuteS11SS3, Ready, OrderedReset, Reset, Return, GoTo,
         table, ZeroNode
<1>2. Cleared' /\ BeingAdded' /\ BeingReleased' /\ SlotsCounted'
  BY <1>1 DEF Cleared, BeingAdded, BeingReleased, SlotsCounted, Zeroing,
              PushSteps
<1>3. NoTCTwice'
  BY <1>1 DEF OwnedInv, NoTCTwice
<1> QED
  BY <1>2, <1>3 DEF OthersInv

LEMMA CallPushOthers ==
    ASSUME OwnedInv, CallPush, faults' = faults
    PROVE  OthersInv'
<1>1. /\ step = "push" /\ step' = "pushing"
      /\ UNCHANGED <<node, slot, dataInfo, request, item, data_index>>
      /\ \/ /\ pc' = "insert"
            /\ activity' = [timestamp |-> DueDate[item], data |-> data_index]
         \/ pc' = "idle"
  BY PushMoves DEF CallPush, table, GoTo
<1>2. Cleared' /\ BeingReleased'
  BY <1>1 DEF Cleared, BeingReleased, Zeroing
<1>3. BeingAdded'
  <2>1. faults = 0 => /\ Used(data_index) /\ slot[data_index].tc = item
                      /\ Reserved(data_index)
    BY <1>1 DEF OwnedInv, BeingAdded
  <2> QED
    BY <1>1, <2>1
       DEF BeingAdded, Used, Reserved, ScheduledSlot, PushSteps
<1>4. SlotsCounted' /\ NoTCTwice'
  BY <1>1, SlotsAlone DEF OwnedInv, Zeroing
<1> QED
  BY <1>2, <1>3, <1>4 DEF OthersInv

LEMMA TryReleaseOthers ==
    ASSUME OwnedInv, TryReleaseDelayedTC, faults' = faults
    PROVE  OthersInv'
<1>1. /\ step = "ready" /\ step' = "popping"
      /\ UNCHANGED <<slot, dataInfo, request, item, data_index>>
      /\ OrderedPopStart(now)
  BY DEF TryReleaseDelayedTC, Ready, table, GoTo
<1>2. pc' \in {"idle", "unlink"}
  BY <1>1 DEF OrderedPopStart, OrderedFree, Quiet, PopNothing, PopReadFails,
              PopTooEarly, FreeOldestNode, Return
<1>3. Cleared' /\ BeingAdded'
  BY <1>1, <1>2 DEF Cleared, BeingAdded, Zeroing, PushSteps
<1>4. BeingReleased'
  <2> SUFFICES ASSUME faults = 0, Popped'
               PROVE  /\ released'.data \in SlotIndex
                      /\ Used(released.data)'
                      /\ slot'[released'.data].tc \in TC
                      /\ Reserved(released.data)'
    BY <1>1 DEF BeingReleased
  <2>1. disturbed = 0
    BY DEF OwnedInv, ActivitiesOwned, Whole
  <2>2. NodeLeft
    BY <1>1, <2>1, PopMoves DEF OwnedInv, Popped, PopSteps
  <2>3. /\ info.oldest \in NodeIndex /\ Occupied(info.oldest)
        /\ released'.data = ScheduledSlot(info.oldest)
    BY <2>2 DEF NodeLeft, ScheduledSlot
  <2>4. /\ ScheduledSlot(info.oldest) \in SlotIndex
        /\ Used(ScheduledSlot(info.oldest))
        /\ slot[ScheduledSlot(info.oldest)].tc \in TC
        /\ \A j \in NodeIndex :
              Occupied(j) /\ ScheduledSlot(j) = ScheduledSlot(info.oldest)
                 => info.oldest = j
    BY <2>3 DEF OwnedInv, ActivitiesOwned, Whole
  <2>5. Reserved(released.data)'
    BY <2>2, <2>3, <2>4 DEF Reserved, NodeLeft, ScheduledSlot
  <2> QED
    BY <1>1, <2>3, <2>4, <2>5 DEF Used
<1>5. SlotsCounted' /\ NoTCTwice'
  BY <1>1, SlotsAlone DEF OwnedInv, Zeroing
<1> QED
  BY <1>3, <1>4, <1>5 DEF OthersInv

LEMMA WorksOthers ==
    ASSUME OwnedInv, ScheduleWorks, faults' = faults
    PROVE  OthersInv'
<1>1. /\ UNCHANGED <<slot, dataInfo, step, request, item, data_index>>
      /\ OrderedContinue
  BY DEF ScheduleWorks, serviceVars, table, call
<1>2. /\ pc \in PushSteps \union PopSteps
      /\ pc \in PushSteps => step = "pushing"
      /\ pc \in PopSteps => step = "popping"
  BY <1>1, ContinueMoves
     DEF OwnedInv, Pus11TypeInv, Phases, PushSteps, PopSteps
<1>3. Cleared'
  BY <1>1, <1>2 DEF Cleared, Zeroing
<1>4. SlotsCounted' /\ NoTCTwice'
  BY <1>1, <1>2, SlotsAlone DEF OwnedInv, Zeroing
<1>5. ASSUME faults = 0
      PROVE  BeingAdded' /\ BeingReleased'
  <2>1. disturbed = 0
    BY <1>5 DEF OwnedInv, ActivitiesOwned, Whole
  <2>2. CASE /\ pc \in {"insert", "walk"} /\ Linking' /\ activity' = activity
    <3>1. /\ pc \in PushSteps /\ pc' \in PushSteps /\ pc' \notin PopSteps
          /\ pc' \notin {"insert", "walk"} /\ step = "pushing"
      BY <1>2, <2>2 DEF Linking, PushSteps, PopSteps
    <3>2. BeingReleased'
      BY <1>1, <3>1 DEF BeingReleased
    <3>3. /\ Used(data_index) /\ slot[data_index].tc = item
          /\ activity = [timestamp |-> DueDate[item], data |-> data_index]
      BY <1>5, <3>1 DEF OwnedInv, BeingAdded
    <3>4. BeingAdded'
      BY <1>1, <2>2, <3>1, <3>3 DEF BeingAdded, Used
    <3> QED
      BY <3>2, <3>4
  <2>3. CASE SameNodes /\ pc \in PushSteps
    <3>1. /\ step = "pushing"
          /\ \/ /\ pc' \in PushSteps /\ activity' = activity
                /\ pc' \in {"insert", "walk"} => pc \in {"insert", "walk"}
             \/ pc' = "idle"
      BY <1>1, <1>2, <2>1, <2>3, WorksMoves
         DEF OwnedInv, PushSteps, PopSteps, Linking
    <3>2. BeingReleased'
      BY <1>1, <3>1 DEF BeingReleased
    <3>3. \A s : Reserved(s) => \A i \in NodeIndex : Occupied(i)' =>
                                   node'[i].activity.data # s
      BY <2>3 DEF SameNodes, NodesKept, Reserved, ScheduledSlot
    <3>4. BeingAdded'
      BY <1>1, <1>5, <2>3, <3>1, <3>3
         DEF OwnedInv, BeingAdded, Used, PushSteps, Reserved, ScheduledSlot
    <3> QED
      BY <3>2, <3>4
  <2>4. CASE SameNodes /\ pc \in PopSteps
    <3>1. /\ step = "popping" /\ Popped /\ released' = released
          /\ pc' \notin PushSteps
      BY <1>1, <1>2, <2>1, <2>4, WorksMoves
         DEF OwnedInv, PushSteps, PopSteps, Linking, Popped
    <3>2. BeingAdded'
      BY <1>1, <3>1 DEF BeingAdded, PushSteps
    <3>3. /\ released.data \in SlotIndex
          /\ Used(released.data)
          /\ slot[released.data].tc \in TC
          /\ Reserved(released.data)
      BY <1>5, <3>1 DEF OwnedInv, BeingReleased
    <3>4. Reserved(released.data)'
      BY <2>4, <3>1, <3>3 DEF SameNodes, NodesKept, Reserved, ScheduledSlot
    <3>5. BeingReleased'
      BY <1>1, <3>1, <3>3, <3>4 DEF BeingReleased, Used
    <3> QED
      BY <3>2, <3>5
  <2> QED
    BY <1>1, <1>2, <2>1, <2>2, <2>3, <2>4, WorksMoves DEF OwnedInv
<1>6. faults # 0 => BeingAdded' /\ BeingReleased'
  BY DEF BeingAdded, BeingReleased
<1> QED
  BY <1>3, <1>4, <1>5, <1>6 DEF OthersInv

LEMMA OwnedInvStep ==
    ASSUME OwnedInv, [FaultyStep]_pus11Vars
    PROVE  OwnedInv'
<1>1. Pus11TypeInv' /\ faults' \in Nat
  BY Pus11TypeStep DEF OwnedInv, Pus11TypeInv
<1>2. CleanInv'
  BY ScheduleStep, CleanStep DEF OwnedInv
<1>3. CASE UNCHANGED pus11Vars
  <2>1. UNCHANGED <<node, disturbed, pc, activity, released, return_value,
                    dataInfo, slot, step, request, item, data_index, faults>>
    BY <1>3 DEF pus11Vars, orderVars, scheduleVars, serviceVars, file, locals,
                output, table, call
  <2>2. ActivitiesOwned' /\ Cleared' /\ BeingAdded' /\ BeingReleased'
    BY <2>1 DEF OwnedInv, ActivitiesOwned, Cleared, BeingAdded, BeingReleased,
                Whole, Zeroing, Used, Reserved, Popped, ScheduledSlot
  <2>3. SlotsCounted' /\ NoTCTwice'
    BY <2>1 DEF OwnedInv, SlotsCounted, NoTCTwice, Zeroing, UsedSlots, Used
  <2> QED
    BY <1>1, <1>2, <2>2, <2>3 DEF OwnedInv
<1>4. CASE FaultyStep
  <2>1. ActivitiesOwned'
    BY <1>1, <1>4, OwnedStep
  <2>2. CASE Counted(ServiceAlone)
    <3>1. ServiceAlone /\ FaultsCounted
      BY <2>2 DEF Counted, FaultsCounted
    <3>2. /\ Cleared' /\ BeingAdded' /\ BeingReleased' /\ SlotsCounted'
          /\ NoTCTwice'
      BY <3>1, AloneCleared, AloneAdded, AloneReleased, AloneCounted, AloneTwice
    <3> QED
      BY <1>1, <1>2, <2>1, <3>2 DEF OwnedInv
  <2>3. CASE \/ Counted(StartReset) \/ Counted(CallPush)
             \/ Counted(TryReleaseDelayedTC) \/ Counted(ScheduleWorks)
    <3>1. faults' = faults
      BY <2>3 DEF Counted, StartReset, ExecuteS11SS3, Ready, CallPush,
                  TryReleaseDelayedTC, ScheduleWorks, serviceVars, call
    <3>2. OthersInv'
      BY <2>3, <3>1, StartResetOthers, CallPushOthers, TryReleaseOthers,
         WorksOthers DEF Counted
    <3> QED
      BY <1>1, <1>2, <2>1, <3>2 DEF OthersInv, OwnedInv
  <2>4. CASE Fault
    <3>1. faults' # 0 /\ ~Zeroing'
      BY <2>4 DEF Fault, DeviceFails, Restart, Reply, Zeroing, OwnedInv,
                  Pus11TypeInv
    <3>2. /\ Cleared' /\ BeingAdded' /\ BeingReleased' /\ SlotsCounted'
          /\ NoTCTwice'
      BY <3>1 DEF Cleared, BeingAdded, BeingReleased, SlotsCounted, NoTCTwice,
                  Zeroing
    <3> QED
      BY <1>1, <1>2, <2>1, <3>2 DEF OwnedInv
  <2> QED
    BY <1>4, <2>2, <2>3, <2>4, FaultySplit
<1> QED
  BY <1>3, <1>4

LEMMA OwnedInvInit == Pus11Init => OwnedInv
<1> SUFFICES ASSUME Pus11Init PROVE OwnedInv
  OBVIOUS
<1>1. Pus11TypeInv /\ CleanInv
  BY Pus11TypeInit, CleanInit DEF Pus11Init
<1>2. /\ \A i \in NodeIndex : ~Occupied(i)
      /\ pc = "idle" /\ disturbed = 0 /\ step = "ready" /\ request = <<>>
      /\ dataInfo.nb_data = 0
      /\ \A s \in SlotIndex : slot[s] = ZeroSlot
  BY DEF Pus11Init, OrderInit, Init, ZeroNode
<1>3. ActivitiesOwned /\ Cleared /\ BeingAdded /\ BeingReleased
  BY <1>2 DEF ActivitiesOwned, Cleared, BeingAdded, BeingReleased, Zeroing,
              PushSteps
<1>4. SlotsCounted
  <2>1. UsedSlots = {}
    BY <1>2 DEF UsedSlots, Used, ZeroSlot
  <2>2. Cardinality(UsedSlots) = 0
    BY <2>1, FS_EmptySet
  <2> QED
    BY <1>2, <2>2 DEF SlotsCounted
<1>5. NoTCTwice
  BY <1>2, Pus11Assumption DEF NoTCTwice, ZeroSlot
<1> QED
  BY <1>1, <1>3, <1>4, <1>5 DEF OwnedInv

LEMMA OwnedParts ==
    ASSUME OwnedInv
    PROVE  ActivitiesHaveTheirTC /\ CountsAgree
<1>1. ActivitiesHaveTheirTC
  BY DEF OwnedInv, ActivitiesOwned, Whole, ActivitiesHaveTheirTC
<1>2. CountsAgree
  BY Bounds DEF OwnedInv, SlotsCounted, UsedSlots, CountsAgree, Ready, Zeroing
<1> QED
  BY <1>1, <1>2

(* For every capacity of the schedule and of the table, and any number of  *)
(* faults: as long as no call was interrupted since the last complete      *)
(* reset, every activity has a slot of its own with its telecommand in it. *)
THEOREM ActivitiesAreOwned == Pus11FaultySpec => []ActivitiesHaveTheirTC
<1>1. Pus11Init => OwnedInv
  BY OwnedInvInit
<1>2. OwnedInv /\ [FaultyStep]_pus11Vars => OwnedInv'
  BY OwnedInvStep
<1>3. OwnedInv => ActivitiesHaveTheirTC
  BY OwnedParts
<1> QED
  BY <1>1, <1>2, <1>3, PTL DEF Pus11FaultySpec

(* Under the same conditions the table counts its used slots between calls,*)
(* at least as many as the schedule has activities.                        *)
THEOREM CountsStayEqual == Pus11FaultySpec => []CountsAgree
<1>1. Pus11Init => OwnedInv
  BY OwnedInvInit
<1>2. OwnedInv /\ [FaultyStep]_pus11Vars => OwnedInv'
  BY OwnedInvStep
<1>3. OwnedInv => CountsAgree
  BY OwnedParts
<1> QED
  BY <1>1, <1>2, <1>3, PTL DEF Pus11FaultySpec

-----------------------------------------------------------------------------
(* What an observer sees: the steps of the service are those promised. *)

Pending == {slot[ScheduledSlot(i)].tc : i \in {n \in NodeIndex : Occupied(n)}}

PromiseStep == [Promise!Next]_(Promise!vars)

LEMMA IsStutter ==
    ASSUME faults = 0, faults' = 0,
           Pending' = Pending, InHand' = InHand,
           UNCHANGED <<delayed, pus11_status, now>>
    PROVE  PromiseStep
BY DEF PromiseStep, Promise!vars, Pending

LEMMA IsAdd ==
    ASSUME faults = 0, faults' = 0, pus11_status = "ENABLE",
           NEW tc \in TC, tc \notin Pending, Pending' = Pending \union {tc},
           InHand' = InHand, UNCHANGED <<delayed, pus11_status, now>>
    PROVE  PromiseStep
<1>1. Promise!Add(tc)
  BY DEF Promise!Add, Pending
<1> QED
  BY <1>1 DEF PromiseStep, Promise!Next, Promise!Works

LEMMA IsRelease ==
    ASSUME faults = 0, faults' = 0, pus11_status = "ENABLE", InHand = NoTC,
           NEW tc \in TC, tc \in Pending, DueDate[tc] <= now,
           \A other \in Pending : DueDate[tc] <= DueDate[other],
           Pending' = Pending \ {tc}, InHand' = tc,
           UNCHANGED <<delayed, pus11_status, now>>
    PROVE  PromiseStep
<1>1. Promise!Release(tc)
  BY DEF Promise!Release, Pending
<1> QED
  BY <1>1 DEF PromiseStep, Promise!Next, Promise!Works

LEMMA IsDelivery ==
    ASSUME faults = 0, faults' = 0, Pending' = Pending,
           InHand # NoTC, InHand' = NoTC, UNCHANGED <<pus11_status, now>>,
           \/ Len(delayed) < BufferSize /\ delayed' = Append(delayed, InHand)
           \/ Len(delayed) >= BufferSize /\ delayed' = delayed
    PROVE  PromiseStep
<1>1. Promise!HandOver \/ Promise!Lose
  BY DEF Promise!HandOver, Promise!Lose, Pending
<1> QED
  BY <1>1 DEF PromiseStep, Promise!Next, Promise!Works

LEMMA IsOutside ==
    ASSUME faults = 0, faults' = 0, Pending' = Pending, InHand' = InHand,
           \/ /\ delayed # <<>> /\ delayed' = Tail(delayed)
              /\ UNCHANGED <<pus11_status, now>>
           \/ UNCHANGED <<delayed, now>>
           \/ UNCHANGED <<delayed, pus11_status>> /\ now' \in Nat
    PROVE  PromiseStep
<1>1. Promise!Take \/ Promise!Switch \/ Promise!Clock
  BY DEF Promise!Take, Promise!Switch, Promise!Clock, Pending
<1> QED
  BY <1>1 DEF PromiseStep, Promise!Next, Promise!Works

LEMMA IsClear ==
    ASSUME faults = 0, faults' = 0, Pending' = {}, InHand' = InHand,
           UNCHANGED <<delayed, pus11_status, now>>
    PROVE  PromiseStep
<1>1. Promise!Clear
  BY DEF Promise!Clear, Pending
<1> QED
  BY <1>1 DEF PromiseStep, Promise!Next, Promise!Works

LEMMA IsMend ==
    ASSUME faults > 0, faults' = 0, Pending' = {}, InHand' = NoTC,
           UNCHANGED <<delayed, pus11_status, now>>
    PROVE  PromiseStep
<1>1. Promise!Mend
  BY DEF Promise!Mend, Pending
<1> QED
  BY <1>1 DEF PromiseStep, Promise!Next

LEMMA IsBreak ==
    ASSUME faults' > 0
    PROVE  PromiseStep
<1>1. Promise!Break
  BY DEF Promise!Break
<1> QED
  BY <1>1 DEF PromiseStep, Promise!Next

-----------------------------------------------------------------------------
LEMMA PendingKept ==
    ASSUME SameNodes,
           \A i \in NodeIndex : Occupied(i) =>
              slot'[ScheduledSlot(i)] = slot[ScheduledSlot(i)]
    PROVE  Pending' = Pending
<1>1. \A i \in NodeIndex : Occupied(i)' <=> Occupied(i)
  BY DEF SameNodes, NodesKept
<1>2. \A i \in NodeIndex : Occupied(i) =>
         slot'[ScheduledSlot(i)'] = slot[ScheduledSlot(i)]
  BY <1>1 DEF SameNodes, NodesKept, ScheduledSlot
<1> QED
  BY <1>1, <1>2 DEF Pending

(* What is in hand depends on where the call is. *)
LEMMA HandFacts ==
    /\ step \notin {"popping", "uncountData", "deliver"} => InHand = NoTC
    /\ step \in {"uncountData", "deliver"} => InHand = item
    /\ step = "popping" /\ Popped => InHand = slot[released.data].tc
    /\ step = "popping" /\ pc \notin PopSteps
          /\ return_value # "RET_SUCCESSFUL" => InHand = NoTC
BY DEF InHand, Popped

(* The same after a step. *)
LEMMA HandFactsNext ==
    /\ step' \notin {"popping", "uncountData", "deliver"} => InHand' = NoTC
    /\ step' \in {"uncountData", "deliver"} => InHand' = item'
    /\ step' = "popping" /\ Popped' => InHand' = slot'[released'.data].tc
    /\ step' = "popping" /\ pc' \notin PopSteps
          /\ return_value' # "RET_SUCCESSFUL" => InHand' = NoTC
BY DEF InHand, Popped

LEMMA AlonePromised ==
    ASSUME OwnedInv, ServiceAlone, FaultsCounted, faults' = 0
    PROVE  PromiseStep
<1>1. UNCHANGED <<node, pc, released, return_value>>
  BY AloneMoves
<1>2. Pending' = Pending
  <2>1. SameNodes
    BY <1>1 DEF SameNodes, NodesKept
  <2> QED
    BY <2>1, PendingKept, ScheduledSlotsKept DEF Whole
<1>3. CASE faults # 0
  <2>1. step = "zeroSlots" /\ step' = "ready"
    BY <1>3 DEF FaultsCounted
  <2>2. ZeroNextSlot
    BY <2>1
       DEF ServiceAlone, ExecuteS11SS1, ExecuteS11SS2, SetScheduleStatus,
           ExecuteS11SS3, ZeroDataInfo, ExecuteS11SS4, RequestDone,
           EntryMalformed, EntryOutdated, EntryDropped, AllocateDataSlot,
           AllocationFails, StoreTC, PushReturns, ReleaseRefused, PopFails,
           UncountData, Deliver, SignalFails, ReceiverTakes, ClockMoves, call,
           Ready, Adding, Admissible, FreeSlot
  <2>3. UNCHANGED <<delayed, pus11_status, now>>
    BY <2>2 DEF ZeroNextSlot, environment
  <2>4. Pending' = {}
    <3>1. \A i \in NodeIndex : ~Occupied(i)
      BY <2>1 DEF OwnedInv, Cleared, Zeroing
    <3> QED
      BY <1>2, <3>1 DEF Pending
  <2>5. InHand' = NoTC
    BY <2>1, HandFactsNext
  <2>6. faults > 0
    BY <1>3 DEF OwnedInv, Pus11TypeInv
  <2> QED
    BY <2>3, <2>4, <2>5, <2>6, IsMend
<1>4. CASE faults = 0
  <2>1. CASE Deliver \/ SignalFails
    <3>1. /\ step = "deliver" /\ step' = "ready"
          /\ UNCHANGED <<pus11_status, now>>
          /\ \/ Len(delayed) < BufferSize /\ delayed' = Append(delayed, item)
             \/ ~(Len(delayed) < BufferSize) /\ delayed' = delayed
      BY <2>1 DEF Deliver, SignalFails, Reply
    <3>2. /\ Len(delayed) \in Nat /\ BufferSize \in Nat
      BY Pus11Assumption DEF OwnedInv, Pus11TypeInv, ServiceTyped
    <3>3. item \in TC /\ item # NoTC
      BY <1>4, <3>1, Pus11Assumption DEF OwnedInv, BeingReleased
    <3>4. InHand = item /\ InHand' = NoTC
      BY <3>1, HandFacts, HandFactsNext
    <3> QED
      BY <1>2, <1>4, <3>1, <3>2, <3>3, <3>4, IsDelivery
  <2>2. CASE ReceiverTakes \/ \E t \in Time : ClockMoves(t)
    <3>1. /\ UNCHANGED <<step, item, slot, pus11_status>>
          /\ \/ delayed # <<>> /\ delayed' = Tail(delayed) /\ now' = now
             \/ delayed' = delayed /\ now' \in Nat
      BY <2>2, ScheduleAssumption
         DEF ReceiverTakes, ClockMoves, call, table, environment
    <3>2. InHand' = InHand
      BY <1>1, <3>1 DEF InHand
    <3> QED
      BY <1>2, <1>4, <3>1, <3>2, IsOutside
  <2>3. CASE ExecuteS11SS1 \/ ExecuteS11SS2
    <3>1. /\ step = "ready" /\ step' = "ready" /\ UNCHANGED <<delayed, now>>
      BY <2>3 DEF ExecuteS11SS1, ExecuteS11SS2, SetScheduleStatus, Ready, Reply
    <3>2. InHand = NoTC /\ InHand' = NoTC
      BY <3>1, HandFacts, HandFactsNext
    <3> QED
      BY <1>2, <1>4, <3>1, <3>2, IsOutside
  <2>4. CASE FreeSlot
    <3>1. /\ step = "popping" /\ Popped /\ step' = "uncountData"
          /\ item' = slot[released.data].tc
          /\ UNCHANGED <<delayed, pus11_status, now>>
      BY <2>4 DEF FreeSlot, Popped, GoTo, environment
    <3>2. InHand = slot[released.data].tc /\ InHand' = item'
      BY <3>1, HandFacts, HandFactsNext
    <3> QED
      BY <1>2, <1>4, <3>1, <3>2, IsStutter
  <2>5. CASE UncountData
    <3>1. /\ step = "uncountData" /\ step' = "deliver" /\ item' = item
          /\ UNCHANGED <<delayed, pus11_status, now>>
      BY <2>5 DEF UncountData, GoTo, environment
    <3>2. InHand = item /\ InHand' = item'
      BY <3>1, HandFacts, HandFactsNext
    <3> QED
      BY <1>2, <1>4, <3>1, <3>2, IsStutter
  <2>6. CASE PopFails
    <3>1. /\ step = "popping" /\ pc = "idle" /\ step' = "ready"
          /\ return_value # "RET_SUCCESSFUL" \/ released.data \notin SlotIndex
          /\ UNCHANGED <<delayed, pus11_status, now>>
      BY <2>6 DEF PopFails, Reply, environment
    <3>2. return_value # "RET_SUCCESSFUL"
      BY <1>4, <3>1 DEF OwnedInv, BeingReleased, Popped
    <3>3. InHand = NoTC /\ InHand' = NoTC
      BY <3>1, <3>2, HandFacts, HandFactsNext DEF PopSteps
    <3> QED
      BY <1>2, <1>4, <3>1, <3>3, IsStutter
  <2>7. CASE \/ ExecuteS11SS3 /\ status # "PUS_INITIALIZED"
             \/ ZeroDataInfo \/ ZeroNextSlot
             \/ \E entries \in Requests : ExecuteS11SS4(entries)
             \/ RequestDone \/ EntryMalformed \/ EntryOutdated \/ EntryDropped
             \/ AllocateDataSlot \/ AllocationFails \/ StoreTC \/ PushReturns
             \/ ReleaseRefused
    <3>1. /\ step \notin {"popping", "uncountData", "deliver"}
          /\ step' \notin {"popping", "uncountData", "deliver"}
          /\ UNCHANGED <<delayed, pus11_status, now>>
      BY <2>7
         DEF ExecuteS11SS3, ZeroDataInfo, ExecuteS11SS4, RequestDone,
             EntryMalformed, EntryOutdated, EntryDropped, AllocateDataSlot,
             AllocationFails, StoreTC, PushReturns, ReleaseRefused,
             ZeroNextSlot, Ready, Adding, Admissible, Reply, GoTo, environment
    <3>2. InHand = NoTC /\ InHand' = NoTC
      BY <3>1, HandFacts, HandFactsNext
    <3> QED
      BY <1>2, <1>4, <3>1, <3>2, IsStutter
  <2> QED
    BY <2>1, <2>2, <2>3, <2>4, <2>5, <2>6, <2>7 DEF ServiceAlone
<1> QED
  BY <1>3, <1>4

(* The schedule gives the earliest activity of all. *)
LEMMA OldestIsEarliest ==
    ASSUME CleanInv, disturbed = 0, pc = "idle",
           L > 0, info.oldest = order[1]
    PROVE  \A i \in NodeIndex : Occupied(i) =>
              node[info.oldest].activity.timestamp <= node[i].activity.timestamp
<1> TAKE i \in NodeIndex
<1> HAVE Occupied(i)
<1>1. ListParts /\ TypeInv
  BY CleanFacts
<1>2. /\ L \in Nat
      /\ \A k \in 1 .. L : node[order[k]].activity.timestamp \in Nat
  BY <1>1, LinkFacts DEF ListParts
<1>3. PICK k \in 1 .. L : order[k] = i
  BY DEF CleanInv, NoNodeLeaks
<1>4. CASE k = 1
  BY <1>2, <1>3, <1>4
<1>5. CASE k # 1
  BY <1>1, <1>2, <1>3, <1>5 DEF ListParts, Sorted
<1> QED
  BY <1>4, <1>5

LEMMA ReleasePromised ==
    ASSUME OwnedInv, TryReleaseDelayedTC, faults = 0, faults' = 0
    PROVE  PromiseStep
<1>1. /\ step = "ready" /\ step' = "popping" /\ pc = "idle"
      /\ pus11_status = "ENABLE" /\ OrderedPopStart(now)
      /\ UNCHANGED <<slot, delayed, pus11_status, now>>
  BY DEF TryReleaseDelayedTC, Ready, GoTo, table, environment
<1>2. disturbed = 0 /\ InHand = NoTC
  BY <1>1, HandFacts DEF OwnedInv, ActivitiesOwned, Whole
<1>3. CASE /\ pc' = "idle" /\ return_value' # "RET_SUCCESSFUL"
           /\ node' = node
  <2>1. SameNodes
    BY <1>3 DEF SameNodes, NodesKept
  <2>2. Pending' = Pending
    BY <1>1, <2>1, PendingKept
  <2>3. InHand' = NoTC
    BY <1>1, <1>3, HandFactsNext DEF PopSteps
  <2> QED
    BY <1>1, <1>2, <2>2, <2>3, IsStutter
<1>4. CASE /\ pc' = "unlink" /\ NodeLeft
           /\ node[info.oldest].activity.timestamp <= now
           /\ L > 0 /\ info.oldest = order[1]
  <2>1. /\ info.oldest \in NodeIndex /\ Occupied(info.oldest)
        /\ node'[info.oldest].status # "OCCUPIED"
        /\ released'.data = ScheduledSlot(info.oldest)
        /\ \A i \in NodeIndex : i # info.oldest => node'[i] = node[i]
    BY <1>4 DEF NodeLeft, ScheduledSlot
  <2>2. \A i \in NodeIndex : Occupied(i) =>
           /\ ScheduledSlot(i) \in SlotIndex
           /\ slot[ScheduledSlot(i)].tc \in TC
           /\ node[i].activity.timestamp = DueDate[slot[ScheduledSlot(i)].tc]
           /\ \A j \in NodeIndex :
                 Occupied(j) /\ ScheduledSlot(j) = ScheduledSlot(i) => i = j
    BY DEF OwnedInv, ActivitiesOwned, Whole
  <2>3. PICK tc \in TC : tc = slot[ScheduledSlot(info.oldest)].tc
    BY <2>1, <2>2
  <2>4. \A i \in NodeIndex :
           Occupied(i) /\ slot[ScheduledSlot(i)].tc = tc => i = info.oldest
    BY <2>1, <2>2, <2>3 DEF OwnedInv, NoTCTwice
  <2>5. tc \in Pending
    BY <2>1, <2>3 DEF Pending
  <2>6. DueDate[tc] <= now
    BY <1>4, <2>1, <2>2, <2>3
  <2>7. \A other \in Pending : DueDate[tc] <= DueDate[other]
    <3>1. \A i \in NodeIndex : Occupied(i) =>
             DueDate[tc] <= DueDate[slot[ScheduledSlot(i)].tc]
      BY <1>1, <1>2, <1>4, <2>1, <2>2, <2>3, OldestIsEarliest DEF OwnedInv
    <3> QED
      BY <3>1 DEF Pending
  <2>8. Pending' = Pending \ {tc}
    <3>1. \A i \in NodeIndex :
             Occupied(i)' <=> Occupied(i) /\ i # info.oldest
      BY <2>1
    <3>2. \A i \in NodeIndex : Occupied(i)' =>
             slot'[ScheduledSlot(i)'].tc = slot[ScheduledSlot(i)].tc
      BY <1>1, <2>1, <3>1 DEF ScheduledSlot
    <3>3. \A i \in NodeIndex : Occupied(i) =>
             (slot[ScheduledSlot(i)].tc = tc <=> i = info.oldest)
      BY <2>3, <2>4
    <3> QED
      BY <3>1, <3>2, <3>3 DEF Pending
  <2>9. InHand' = tc
    BY <1>1, <1>4, <2>1, <2>3, HandFactsNext DEF Popped, PopSteps
  <2> QED
    BY <1>1, <1>2, <2>5, <2>6, <2>7, <2>8, <2>9, IsRelease
<1> QED
  BY <1>1, <1>2, <1>3, <1>4, PopMoves DEF OwnedInv

(* A pop that got as far as its report ends well. *)
LEMMA PopEndsWell ==
    ASSUME CleanInv, CleanInv', disturbed = 0, OrderedContinue, pc \in PopSteps
    PROVE  Popped'
<1>1. disturbed' = 0
  BY WorksMoves
<1>2. return_value' # "RET_ERROR"
  BY <1>1 DEF CleanInv, NoErrorWithoutFault
<1>3. \/ pc' \in PopSteps
      \/ pc' = "idle" /\ return_value' \in {"RET_SUCCESSFUL", "RET_ERROR"}
  BY DEF OrderedContinue, Quiet, InsertInEmptySchedule, StartWalk,
         WalkReadFails, Walk, WalkFullLap, WriteNewNode, LinkNext, LinkPrevious,
         OrderedCount, CountActivity, PopContinue, UnlinkNewOldest,
         UncountActivity, ReportNextDate, ReportReadFails, Return, PopSteps
<1> QED
  BY <1>2, <1>3 DEF Popped

LEMMA WorksPromised ==
    ASSUME OwnedInv, OwnedInv', ScheduleWorks, faults = 0, faults' = 0
    PROVE  PromiseStep
<1>1. /\ UNCHANGED <<slot, step, item, data_index, delayed, pus11_status, now>>
      /\ OrderedContinue
  BY DEF ScheduleWorks, serviceVars, table, call, environment
<1>2. disturbed = 0 /\ released' = released
  BY <1>1, WorksMoves DEF OwnedInv, ActivitiesOwned, Whole
<1>3. CASE NodeEntered /\ pc \in {"insert", "walk"}
  <2>1. step = "pushing" /\ pus11_status = "ENABLE" /\ item \in TC
    BY <1>3 DEF OwnedInv, Pus11TypeInv, Phases, PushSteps, Zeroing
  <2>2. /\ data_index \in SlotIndex /\ slot[data_index].tc = item
        /\ activity.data = data_index /\ Reserved(data_index)
    BY <1>3 DEF OwnedInv, BeingAdded, PushSteps, Pus11TypeInv, ServiceTyped
  <2>3. \A i \in NodeIndex : Occupied(i) =>
           ScheduledSlot(i) \in SlotIndex /\ ScheduledSlot(i) # data_index
    BY <2>2 DEF OwnedInv, ActivitiesOwned, Whole, Reserved
  <2>4. \A i \in NodeIndex : Occupied(i) => slot[ScheduledSlot(i)].tc # item
    BY <2>1, <2>2, <2>3 DEF OwnedInv, NoTCTwice
  <2>5. item \notin Pending
    BY <2>4 DEF Pending
  <2>6. Pending' = Pending \union {item}
    <3>1. /\ new_node_index \in NodeIndex /\ ~Occupied(new_node_index)
          /\ node'[new_node_index].status = "OCCUPIED"
          /\ node'[new_node_index].activity.data = data_index
          /\ \A i \in NodeIndex : i # new_node_index => node'[i] = node[i]
      BY <1>3, <2>2 DEF NodeEntered
    <3>2. \A i \in NodeIndex : Occupied(i)' <=> Occupied(i) \/ i = new_node_index
      BY <3>1
    <3>3. \A i \in NodeIndex : Occupied(i) =>
             slot'[ScheduledSlot(i)'].tc = slot[ScheduledSlot(i)].tc
      BY <1>1, <3>1 DEF ScheduledSlot
    <3>4. slot'[node'[new_node_index].activity.data].tc = item
      BY <1>1, <2>2, <3>1
    <3> QED
      BY <3>1, <3>2, <3>3, <3>4 DEF Pending, ScheduledSlot
  <2>7. InHand = NoTC /\ InHand' = NoTC
    BY <1>1, <2>1, HandFacts, HandFactsNext
  <2> QED
    BY <1>1, <2>1, <2>5, <2>6, <2>7, IsAdd
<1>4. CASE SameNodes
  <2>1. Pending' = Pending
    BY <1>1, <1>4, PendingKept
  <2>2. CASE pc \in PopSteps
    <3>1. step = "popping" /\ Popped /\ Popped'
      BY <1>1, <1>2, <2>2, PopEndsWell
         DEF OwnedInv, Pus11TypeInv, Phases, Popped
    <3>2. InHand' = InHand
      BY <1>1, <1>2, <3>1, HandFacts, HandFactsNext
    <3> QED
      BY <1>1, <2>1, <3>2, IsStutter
  <2>3. CASE pc \in PushSteps
    <3>1. step = "pushing"
      BY <2>3 DEF OwnedInv, Pus11TypeInv, Phases
    <3>2. InHand = NoTC /\ InHand' = NoTC
      BY <1>1, <3>1, HandFacts, HandFactsNext
    <3> QED
      BY <1>1, <2>1, <3>2, IsStutter
  <2> QED
    BY <1>1, <2>2, <2>3, ContinueMoves DEF PopSteps, PushSteps
<1> QED
  BY <1>1, <1>2, <1>3, <1>4, WorksMoves DEF OwnedInv

LEMMA PromiseKept ==
    ASSUME OwnedInv, OwnedInv', [FaultyStep]_pus11Vars
    PROVE  PromiseStep
<1>1. faults \in Nat /\ faults' \in Nat
  BY DEF OwnedInv, Pus11TypeInv
<1>2. CASE faults' # 0
  BY <1>1, <1>2, IsBreak
<1>3. CASE UNCHANGED pus11Vars
  <2>1. UNCHANGED <<node, pc, released, return_value, slot, step, item, delayed,
                    pus11_status, now, faults>>
    BY <1>3 DEF pus11Vars, orderVars, scheduleVars, serviceVars, file, locals,
                output, table, call, environment
  <2>2. InHand' = InHand /\ Pending' = Pending
    BY <2>1 DEF InHand, Pending, ScheduledSlot
  <2> QED
    BY <2>1, <2>2 DEF PromiseStep, Promise!vars, Pending
<1>4. CASE Counted(ServiceAlone) /\ faults' = 0
  BY <1>4, AlonePromised DEF Counted, FaultsCounted
<1>5. CASE Counted(StartReset) /\ faults' = 0
  <2>1. /\ step = "ready" /\ step' = "zeroInfo" /\ faults = 0
        /\ \A i \in NodeIndex : ~Occupied(i)'
        /\ UNCHANGED <<delayed, pus11_status, now>>
    BY <1>5 DEF Counted, StartReset, ExecuteS11SS3, Ready, OrderedReset, Reset,
                GoTo, environment, ZeroNode
  <2>2. Pending' = {}
    BY <2>1 DEF Pending
  <2>3. InHand = NoTC /\ InHand' = NoTC
    BY <2>1, HandFacts, HandFactsNext
  <2> QED
    BY <1>5, <2>1, <2>2, <2>3, IsClear
<1>6. CASE Counted(CallPush) /\ faults' = 0
  <2>1. /\ step = "push" /\ step' = "pushing" /\ faults = 0
        /\ UNCHANGED <<node, slot, delayed, pus11_status, now>>
    BY <1>6, PushMoves DEF Counted, CallPush, GoTo, table, environment
  <2>2. Pending' = Pending
    BY <2>1 DEF Pending, ScheduledSlot
  <2>3. InHand = NoTC /\ InHand' = NoTC
    BY <2>1, HandFacts, HandFactsNext
  <2> QED
    BY <1>6, <2>1, <2>2, <2>3, IsStutter
<1>7. CASE Counted(TryReleaseDelayedTC) /\ faults' = 0
  <2>1. TryReleaseDelayedTC /\ faults = 0
    BY <1>7 DEF Counted, TryReleaseDelayedTC, Ready
  <2> QED
    BY <1>7, <2>1, ReleasePromised
<1>8. CASE Counted(ScheduleWorks) /\ faults' = 0
  <2>1. ScheduleWorks /\ faults = 0
    BY <1>8 DEF Counted, ScheduleWorks, serviceVars, call
  <2> QED
    BY <1>8, <2>1, WorksPromised
<1>9. CASE Fault
  BY <1>1, <1>2, <1>9 DEF Fault
<1> QED
  BY <1>2, <1>3, <1>4, <1>5, <1>6, <1>7, <1>8, <1>9, FaultySplit

LEMMA PromiseInit == Pus11Init => Promise!Init
<1> SUFFICES ASSUME Pus11Init PROVE Promise!Init
  OBVIOUS
<1>1. /\ \A i \in NodeIndex : ~Occupied(i)
      /\ step = "ready" /\ delayed = <<>> /\ now = 0 /\ faults = 0
  BY DEF Pus11Init, OrderInit, Init, ZeroNode
<1>2. Pending = {}
  BY <1>1 DEF Pending
<1>3. InHand = NoTC
  BY <1>1, HandFacts
<1> QED
  BY <1>1, <1>2, <1>3 DEF Promise!Init, Pending

(* For every capacity of the schedule and of the table and every set of    *)
(* dates, service 11 implements what is promised of it: telecommands come  *)
(* out at their date, the earliest first, each once.  A fault suspends the *)
(* promise until the next TC(11,3) has cleared both files.                 *)
THEOREM ServiceKeepsPromise == Pus11FaultySpec => KeepsPromise
<1>1. Pus11Init => OwnedInv /\ Promise!Init
  BY OwnedInvInit, PromiseInit
<1>2. OwnedInv /\ [FaultyStep]_pus11Vars => OwnedInv'
  BY OwnedInvStep
<1>3. OwnedInv /\ OwnedInv' /\ [FaultyStep]_pus11Vars
         => [Promise!Next]_(Promise!vars)
  BY PromiseKept DEF PromiseStep
<1> QED
  BY <1>1, <1>2, <1>3, PTL DEF Pus11FaultySpec, KeepsPromise, Promise!Spec
=============================================================================
