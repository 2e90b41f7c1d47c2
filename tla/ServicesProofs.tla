----------------------------- MODULE ServicesProofs -----------------------------
(***************************************************************************)
(* What the answers tell of the context and of the files, for any files,   *)
(* software, telecommands and failures.                                    *)
(***************************************************************************)
EXTENDS Services, TLAPS

(***************************************************************************)
(* The context.                                                            *)
(***************************************************************************)

Part == {"state", "nominal", "safe", "error"}

(* The context holds what it may hold, or what the request asks for. *)
AsKnown        == \A p \in Part : context[p] \in known[p]
AsKnownOrAsked == \A p \in Part : context[p] \in known[p] \union AskedOf(Asked, p)
AsAsked        == \A p \in Part :
                    context[p] \in IF AskedOf(Asked, p) = {} THEN known[p]
                                                             ELSE AskedOf(Asked, p)

Before == {"idle", "read", "report", "usage", "change", "select", "reset"}

Pc     == Before \union {"reboot", "answer"}
Error  == {"NO_ERROR", "FAILED", "UNAVAILABLE", "TM_BUILDING_FAILED"}

Shapes ==
    /\ context \in Context /\ DOMAIN known = Part
    /\ system \in [pc : Pc, request : SystemTCs \union {NoSystemTC},
                   copy : Context \union {Cleared}, ok : BOOLEAN, error : Error]
    /\ failed \in BOOLEAN

(* Which handler is where. *)
Handlers ==
    /\ SystemAt("read")   => Asked.subservice \in {1, 2} \union OfContext
    /\ SystemAt("report") => Asked.subservice \in OfContext
    /\ SystemAt("usage")  => Asked.subservice \in OfUsage
    /\ SystemAt("change") => Asked.subservice = 1
    /\ SystemAt("reboot") => Asked.subservice = 1
    /\ SystemAt("select") => Asked.subservice = 2
    /\ SystemAt("reset")  => Asked.subservice = 23
    /\ SystemAt("change") \/ SystemAt("select") => system.copy = context

(* The context changes in the last step only, and the failure of a device  *)
(* is only met there.                                                      *)
Progress ==
    /\ system.pc \in Before => AsKnown /\ ~ failed
    /\ SystemAt("reboot") => IF failed THEN AsKnownOrAsked ELSE AsAsked
    /\ SystemAt("answer") =>
         /\ (system.error = "NO_ERROR") => failed = ~ system.ok
         /\ system.ok => system.error = "NO_ERROR" /\ AsAsked
         /\ ~ system.ok => IF system.error = "NO_ERROR" THEN AsKnownOrAsked ELSE AsKnown

ContextInv == Shapes /\ Handlers /\ Progress

LEMMA AskedOfNothing ==
    ASSUME NEW r, r.subservice \notin {1, 2, 23}, NEW p \in Part
    PROVE  AskedOf(r, p) = {}
BY DEF AskedOf, Part

LEMMA AskedOfReboot ==
    ASSUME NEW r, r.subservice = 1, NEW p \in Part
    PROVE  AskedOf(r, p) = IF p = "state" THEN {StateToReboot(r)} ELSE {}
BY DEF AskedOf, Part, StateToReboot

LEMMA AskedOfSelection ==
    ASSUME NEW r, r.subservice = 2, RightSelection(r), NEW p \in Part
    PROVE  AskedOf(r, p) = IF (p = "nominal" /\ r.state = "NOMINAL")
                                 \/ (p = "safe" /\ r.state = "SAFE")
                           THEN {r.id} ELSE {}
BY DEF AskedOf, Part, RightSelection, State

LEMMA AskedOfReset ==
    ASSUME NEW r, r.subservice = 23, NEW p \in Part
    PROVE  AskedOf(r, p) = IF p = "error" THEN {FALSE} ELSE {}
BY DEF AskedOf, Part

LEMMA ContextParts == \A c \in Context : DOMAIN c = Part
BY DEF Context, Part

LEMMA ContextStarts == Init => ContextInv
<1> SUFFICES ASSUME Init
             PROVE  ContextInv
  OBVIOUS
<1>1. context = [state |-> "NOMINAL", nominal |-> FirstSoftware, safe |-> FirstSoftware,
                 error |-> FALSE]
  BY DEF Init, Pus160Init
<1>2. context \in Context
  BY <1>1, Pus160Assumption DEF Context, AnyState, State
<1>3. DOMAIN known = Part /\ \A p \in Part : known[p] = {context[p]}
  BY <1>2, ContextParts DEF Init, Pus160Init
<1>4. system = SystemIdle /\ failed = FALSE
  BY DEF Init, Pus160Init
<1>5. Shapes
  BY <1>2, <1>3, <1>4 DEF Shapes, SystemIdle, Before, Pc, Error
<1>6. Handlers
  BY <1>4 DEF Handlers, SystemIdle, SystemAt
<1> QED
  BY <1>3, <1>4, <1>5, <1>6 DEF ContextInv, Progress, AsKnown, SystemIdle, SystemAt, Before

LEMMA RequestShape == Shapes /\ Asked.subservice # 0 => Asked \in SystemTC
BY Pus160Assumption DEF Shapes, Asked, NoSystemTC

LEMMA ContextStep == ContextInv /\ [Next]_vars => ContextInv'
<1> SUFFICES ASSUME ContextInv, [Next]_vars
             PROVE  ContextInv'
  OBVIOUS
<1>0. Shapes /\ Handlers /\ Progress
  BY DEF ContextInv
<1>a. ASSUME system.pc \in Before
      PROVE  AsKnown /\ failed = FALSE
  BY <1>0, <1>a DEF Progress, Shapes
<1>1. CASE UNCHANGED sysVars
  <2>1. ContextInv' <=> ContextInv
    BY <1>1 DEF sysVars, ContextInv, Shapes, Handlers, Progress, AsKnown, AsKnownOrAsked,
                AsAsked, SystemAt, Asked
  <2> QED
    BY <2>1
<1>2. CASE InitS160
  <2>1. ContextInv' <=> ContextInv
    BY <1>2 DEF InitS160, ContextInv, Shapes, Handlers, Progress, AsKnown, AsKnownOrAsked,
                AsAsked, SystemAt, Asked
  <2> QED
    BY <2>1
<1>3. ASSUME NEW r \in SystemTCs, ExecuteS160(r)
      PROVE  ContextInv'
  <2>1. r \in SystemTC
    BY Pus160Assumption
  <2>2. AsKnown' /\ failed' = FALSE /\ UNCHANGED <<context, known>>
    BY <1>0, <1>3 DEF ExecuteS160, Progress, AsKnown, SystemAt, Before, Shapes
  <2>3. CASE status160 = "PUS_INITIALIZED"
    <3>1. system' = [SystemIdle EXCEPT !.pc = FirstStep(r), !.request = r]
      BY <1>3, <2>3 DEF ExecuteS160
    <3>2. system'.pc = FirstStep(r) /\ system'.request = r
      BY <3>1 DEF SystemIdle
    <3>3. FirstStep(r) \in {"reset", "usage", "read"}
      BY DEF FirstStep
    <3>4. Shapes'
      BY <1>0, <2>2, <3>1, <3>3 DEF Shapes, SystemIdle, Before, Pc, Error
    <3>5. Handlers'
      BY <2>1, <3>2, <3>3 DEF Handlers, FirstStep, SystemAt, Asked, SystemTC, OfContext, OfUsage
    <3> QED
      BY <2>2, <3>2, <3>3, <3>4, <3>5 DEF ContextInv, Progress, SystemAt, Before
  <2>4. CASE status160 # "PUS_INITIALIZED"
    <3>1. system' = [SystemIdle EXCEPT !.pc = "answer", !.request = r, !.ok = FALSE,
                                       !.error = "UNAVAILABLE"]
      BY <1>3, <2>4 DEF ExecuteS160
    <3>2. system'.pc = "answer" /\ system'.ok = FALSE /\ system'.error = "UNAVAILABLE"
      BY <3>1 DEF SystemIdle
    <3>3. Shapes'
      BY <1>0, <2>2, <3>1 DEF Shapes, SystemIdle, Before, Pc, Error
    <3> QED
      BY <2>2, <3>2, <3>3 DEF ContextInv, Handlers, Progress, SystemAt, Before
  <2> QED
    BY <2>3, <2>4
<1>4. CASE ReadContext
  <2>1. /\ system' = [system EXCEPT !.pc = AfterRead, !.copy = context]
        /\ system.pc = "read" /\ UNCHANGED <<context, known, failed>>
    BY <1>4 DEF ReadContext, Works, SystemAt
  <2>2. /\ system'.pc = AfterRead /\ system'.copy = context /\ system'.request = Asked
        /\ AfterRead \in {"change", "select", "report"}
    BY <1>0, <2>1 DEF Shapes, AfterRead, Asked
  <2>3. Shapes'
    BY <1>0, <2>1, <2>2 DEF Shapes, Before, Pc
  <2>4. Handlers'
    BY <1>0, <2>1, <2>2 DEF Handlers, AfterRead, SystemAt, Asked, OfContext
  <2> QED
    BY <1>0, <2>1, <2>2, <2>3, <2>4 DEF ContextInv, Progress, AsKnown, SystemAt, Before
<1>5. ASSUME NEW ok \in BOOLEAN, NEW e \in Error, Answers(ok, e), DOMAIN known' = Part,
             context' \in Context, failed' \in BOOLEAN
      PROVE  /\ Shapes' /\ Handlers' /\ SystemAt("answer")' /\ system'.pc \notin Before
             /\ ~ SystemAt("reboot")' /\ system'.ok = ok /\ system'.error = e
             /\ Asked' = Asked
  <2>1. system' = [[system EXCEPT !.pc = "answer", !.copy = Cleared] EXCEPT !.ok = ok, !.error = e]
    BY <1>5 DEF Answers, LeaveFor
  <2> QED
    BY <1>0, <1>5, <2>1 DEF Shapes, Handlers, SystemAt, Before, Pc, Asked
<1>6. ASSUME system' = LeaveFor("reboot"), Asked.subservice = 1, UNCHANGED known,
             context' \in Context, failed' \in BOOLEAN
      PROVE  /\ Shapes' /\ Handlers' /\ SystemAt("reboot")' /\ system'.pc \notin Before
             /\ ~ SystemAt("answer")' /\ Asked' = Asked
  <2>1. system' = [system EXCEPT !.pc = "reboot", !.copy = Cleared]
    BY <1>6 DEF LeaveFor
  <2> QED
    BY <1>0, <1>6, <2>1 DEF Shapes, Handlers, SystemAt, Before, Pc, Asked
<1>7. CASE ReadContextFails
  <2>1. AsKnown /\ failed' = TRUE /\ UNCHANGED <<context, known>>
    BY <1>0, <1>7 DEF ReadContextFails, Fails, SystemAt, Progress, Before
  <2>2. AsKnown'
    BY <2>1 DEF AsKnown
  <2>3. CASE Asked.subservice = 1
    <3>1. system' = LeaveFor("reboot")
      BY <1>7, <2>3 DEF ReadContextFails, GiveUp
    <3>2. Shapes' /\ Handlers' /\ SystemAt("reboot")' /\ system'.pc \notin Before
          /\ ~ SystemAt("answer")'
      BY <1>0, <1>6, <2>1, <2>3, <3>1 DEF Shapes
    <3> QED
      BY <2>1, <2>2, <3>2 DEF ContextInv, Progress, AsKnown, AsKnownOrAsked
  <2>4. CASE Asked.subservice # 1
    <3>1. Answers(FALSE, "NO_ERROR")
      BY <1>7, <2>4 DEF ReadContextFails, GiveUp
    <3>2. Shapes' /\ Handlers' /\ ~ SystemAt("reboot")' /\ system'.pc \notin Before
          /\ system'.ok = FALSE /\ system'.error = "NO_ERROR"
      BY <1>0, <1>5, <2>1, <3>1 DEF Shapes, Error
    <3> QED
      BY <2>1, <2>2, <3>2 DEF ContextInv, Progress, AsKnown, AsKnownOrAsked
  <2> QED
    BY <2>3, <2>4
<1>8. CASE ReportContext \/ ReportUsage \/ TooManyTasks
  <2>0. SystemAt("report") \/ SystemAt("usage")
    BY <1>8 DEF ReportContext, ReportUsage, TooManyTasks
  <2>a. AsKnown /\ failed = FALSE
    BY <1>a, <2>0 DEF SystemAt, Before
  <2>b. Asked.subservice \notin {1, 2, 23}
    BY <1>0, <2>0 DEF Handlers, OfContext, OfUsage
  <2>c. failed' \in BOOLEAN /\ UNCHANGED <<context, known>>
    BY <1>8, <2>a DEF ReportContext, ReportUsage, TooManyTasks, Fails, Works
  <2>1. /\ AsKnown /\ failed = FALSE /\ failed' \in BOOLEAN /\ UNCHANGED <<context, known>>
        /\ Asked.subservice \notin {1, 2, 23}
    BY <2>a, <2>b, <2>c
  <2>2. AsKnown' /\ AsKnownOrAsked'
    BY <2>1 DEF AsKnown, AsKnownOrAsked
  <2>3. PICK ok \in BOOLEAN, e \in Error :
           /\ Answers(ok, e) /\ (ok => e = "NO_ERROR" /\ failed' = FALSE)
           /\ (~ ok => e # "NO_ERROR")
    BY <1>8, <2>1 DEF ReportContext, ReportUsage, TooManyTasks, Works, UsageNotRead, Error
  <2>4. Shapes' /\ Handlers' /\ ~ SystemAt("reboot")' /\ system'.pc \notin Before
        /\ system'.ok = ok /\ system'.error = e /\ Asked' = Asked
    BY <1>0, <1>5, <2>1, <2>3 DEF Shapes
  <2>5. AsAsked'
    BY <2>1, <2>2, <2>4, AskedOfNothing DEF AsKnown, AsAsked
  <2> QED
    BY <2>2, <2>3, <2>4, <2>5 DEF ContextInv, Progress
<1>9. CASE ChangeState
  <2> DEFINE new == [system.copy EXCEPT !.state = StateToReboot(Asked)]
  <2>1. /\ AsKnown /\ failed = FALSE /\ Asked.subservice = 1 /\ system.copy = context
        /\ UNCHANGED known /\ system' = LeaveFor("reboot")
    BY <1>0, <1>9 DEF ChangeState, SystemAt, Progress, Before, Handlers
  <2>2. StateToReboot(Asked) \in AnyState
    BY <1>0, <2>1, RequestShape DEF StateToReboot, SystemTC, AnyState, State
  <2>3. new \in Context /\ \A p \in Part : new[p] = IF p = "state" THEN StateToReboot(Asked) ELSE context[p]
    BY <1>0, <2>1, <2>2 DEF Shapes, Context, Part
  <2>4. (failed' = FALSE /\ context' = new) \/ (failed' = TRUE /\ context' \in {new, context})
    BY <1>9, <2>1 DEF ChangeState, Write, WriteFails, Works, Fails
  <2> HIDE DEF new
  <2>5. Shapes' /\ Handlers' /\ SystemAt("reboot")' /\ system'.pc \notin Before
        /\ ~ SystemAt("answer")' /\ Asked' = Asked
    BY <1>0, <1>6, <2>1, <2>3, <2>4 DEF Shapes
  <2>6. context' = new => AsAsked' /\ AsKnownOrAsked'
    BY <2>1, <2>3, <2>5, AskedOfReboot DEF AsKnown, AsAsked, AsKnownOrAsked
  <2>7. context' = context => AsKnownOrAsked'
    BY <2>1, <2>5 DEF AsKnown, AsKnownOrAsked
  <2> QED
    BY <2>4, <2>5, <2>6, <2>7 DEF ContextInv, Progress
<1>10. CASE SelectSoftware \/ ResetError
  <2> DEFINE new == IF SystemAt("select") THEN Selected(Asked) ELSE [context EXCEPT !.error = FALSE]
  <2>1. /\ AsKnown /\ failed = FALSE /\ UNCHANGED known
        /\ SystemAt("select") => Asked.subservice = 2 /\ RightSelection(Asked) /\ system.copy = context
        /\ ~ SystemAt("select") => Asked.subservice = 23
    BY <1>0, <1>a, <1>10 DEF SelectSoftware, ResetError, SystemAt, Before, Handlers
  <2>2. Asked \in SystemTC
    BY <1>0, <2>1, RequestShape
  <2>3. /\ new \in Context
        /\ \A p \in Part : new[p] \in IF AskedOf(Asked, p) = {} THEN {context[p]} ELSE AskedOf(Asked, p)
    <3>1. CASE SystemAt("select")
      <4>1. new = IF Asked.state = "NOMINAL" THEN [context EXCEPT !.nominal = Asked.id]
                                             ELSE [context EXCEPT !.safe = Asked.id]
        BY <2>1, <3>1 DEF Selected
      <4>2. Asked.id \in SoftwareId /\ Asked.state \in {"NOMINAL", "SAFE"}
        BY <2>1, <2>2, <3>1 DEF SystemTC, RightSelection, State
      <4>3. /\ new \in Context
            /\ \A p \in Part : new[p] = IF (p = "nominal" /\ Asked.state = "NOMINAL")
                                             \/ (p = "safe" /\ Asked.state = "SAFE")
                                       THEN Asked.id ELSE context[p]
        BY <1>0, <4>1, <4>2 DEF Shapes, Context, Part
      <4> HIDE DEF new
      <4> QED
        BY <2>1, <3>1, <4>3, AskedOfSelection
    <3>2. CASE ~ SystemAt("select")
      <4>1. /\ new \in Context
            /\ \A p \in Part : new[p] = IF p = "error" THEN FALSE ELSE context[p]
        BY <1>0, <3>2 DEF Shapes, Context, Part
      <4> HIDE DEF new
      <4> QED
        BY <2>1, <3>2, <4>1, AskedOfReset
    <3> QED
      BY <3>1, <3>2
  <2>4. \/ failed' = FALSE /\ context' = new /\ Answers(TRUE, "NO_ERROR")
        \/ failed' = TRUE /\ context' \in {new, context} /\ Answers(FALSE, "NO_ERROR")
    BY <1>10, <2>1 DEF SelectSoftware, ResetError, Write, WriteFails, Works, Fails, SystemAt
  <2> HIDE DEF new
  <2>5. PICK ok \in BOOLEAN : Answers(ok, "NO_ERROR") /\ failed' = ~ ok /\ (ok => context' = new)
    BY <2>4
  <2>6. Shapes' /\ Handlers' /\ ~ SystemAt("reboot")' /\ system'.pc \notin Before
        /\ system'.ok = ok /\ system'.error = "NO_ERROR" /\ Asked' = Asked
    BY <1>0, <1>5, <2>1, <2>3, <2>4, <2>5 DEF Shapes, Error
  <2>7. context' = new => AsAsked' /\ AsKnownOrAsked'
    BY <2>1, <2>3, <2>6 DEF AsKnown, AsAsked, AsKnownOrAsked
  <2>8. context' = context => AsKnownOrAsked'
    BY <2>1, <2>6 DEF AsKnown, AsKnownOrAsked
  <2> QED
    BY <2>4, <2>5, <2>6, <2>7, <2>8 DEF ContextInv, Progress
<1>11. CASE RefuseSelection
  <2>1. /\ AsKnown /\ failed = FALSE /\ failed' = FALSE /\ UNCHANGED <<context, known>>
        /\ Answers(FALSE, "FAILED")
    BY <1>a, <1>11 DEF RefuseSelection, Works, WrongSelection, SystemAt, Before
  <2>2. Shapes' /\ Handlers' /\ ~ SystemAt("reboot")' /\ system'.pc \notin Before
        /\ system'.ok = FALSE /\ system'.error = "FAILED"
    BY <1>0, <1>5, <2>1 DEF Shapes, Error
  <2> QED
    BY <2>1, <2>2 DEF ContextInv, Progress, AsKnown
<1>12. CASE RebootFails
  <2>1. /\ AsKnownOrAsked /\ failed' = TRUE /\ UNCHANGED <<context, known>>
        /\ Answers(FALSE, "NO_ERROR")
    BY <1>0, <1>12 DEF RebootFails, Fails, SystemAt, Progress, AsAsked, AsKnownOrAsked
  <2>2. Shapes' /\ Handlers' /\ ~ SystemAt("reboot")' /\ system'.pc \notin Before
        /\ system'.ok = FALSE /\ system'.error = "NO_ERROR" /\ Asked' = Asked
    BY <1>0, <1>5, <2>1 DEF Shapes, Error
  <2> QED
    BY <2>1, <2>2 DEF ContextInv, Progress, AsKnownOrAsked
<1> DEFINE Afresh == system' = SystemIdle /\ failed' = FALSE /\ context' \in Context /\ DOMAIN known' = Part
<1>13. ASSUME Afresh, AsKnown'
       PROVE  ContextInv'
  <2>1. system'.pc = "idle"
    BY <1>13 DEF SystemIdle
  <2>2. Shapes'
    BY <1>13 DEF Shapes, SystemIdle, Before, Pc, Error
  <2> QED
    BY <1>13, <2>1, <2>2 DEF ContextInv, Handlers, Progress, SystemAt
<1>14. CASE SystemReturn
  <2>1. Afresh /\ known' = Learnt(Asked, system.ok, system.error # "NO_ERROR") /\ UNCHANGED context
    BY <1>0, <1>14 DEF SystemReturn, Learnt, Shapes
  <2>2. \A p \in Part : context[p] \in Learnt(Asked, system.ok, system.error # "NO_ERROR")[p]
    BY <1>0, <1>14 DEF SystemReturn, Progress, Shapes, Learnt, AsKnown, AsAsked, AsKnownOrAsked
  <2> QED
    BY <1>13, <2>1, <2>2 DEF AsKnown
<1>15. CASE Restart
  <2>1. CASE Reboot
    <3>1. Afresh /\ known' = Learnt(Asked, ~ failed, FALSE) /\ UNCHANGED context
      BY <1>0, <2>1 DEF Reboot, Pus160Restart, Learnt, Shapes
    <3>2. \A p \in Part : context[p] \in Learnt(Asked, ~ failed, FALSE)[p]
      BY <1>0, <2>1 DEF Reboot, Progress, Shapes, Learnt, AsAsked, AsKnownOrAsked
    <3> QED
      BY <1>13, <3>1, <3>2 DEF AsKnown
  <2>2. CASE Crash
    <3>1. /\ Afresh /\ context' = [context EXCEPT !.error = TRUE]
          /\ known' = [Learnt(Asked, FALSE, FALSE) EXCEPT !.error = {TRUE}]
      BY <1>0, <2>2 DEF Crash, Pus160Restart, Learnt, Shapes, Context
    <3>2. AsKnownOrAsked
      BY <1>0 DEF Shapes, Pc, Progress, SystemAt, AsKnown, AsAsked, AsKnownOrAsked
    <3>3. DOMAIN Learnt(Asked, FALSE, FALSE) = Part
      BY <1>0 DEF Learnt, Shapes
    <3>4. \A p \in Part : context[p] \in Learnt(Asked, FALSE, FALSE)[p]
      BY <1>0, <3>2 DEF Learnt, Shapes, AsKnownOrAsked
    <3>5. DOMAIN context = Part
      BY <1>0, ContextParts DEF Shapes
    <3>6. AsKnown'
      BY <3>1, <3>3, <3>4, <3>5 DEF AsKnown, Part
    <3> QED
      BY <1>13, <3>1, <3>6
  <2> QED
    BY <1>15, <2>1, <2>2 DEF Restart
<1> QED
  BY <1>1, <1>2, <1>3, <1>4, <1>7, <1>8, <1>9, <1>10, <1>11, <1>12, <1>14, <1>15
     DEF Next, vars, Pus160Next

(* The answers tell what the context holds (ContextAsCommanded).           *)
THEOREM ContextAsCommandedHolds == Spec => []ContextAsCommanded
<1>1. ContextInv => ContextAsCommanded
  BY ContextParts DEF ContextInv, Shapes, Progress, AsKnown, ContextAsCommanded, Before
<1> QED
  BY <1>1, ContextStarts, ContextStep, PTL DEF Spec

(* Only the failure of a device is silent (SilentOnlyOnDeviceFailure).     *)
THEOREM SilentOnlyOnDeviceFailureHolds == Spec => []SilentOnlyOnDeviceFailure
<1>1. ContextInv => SilentOnlyOnDeviceFailure
  BY DEF ContextInv, Progress, SystemAt, SilentOnlyOnDeviceFailure
<1> QED
  BY <1>1, ContextStarts, ContextStep, PTL DEF Spec

(***************************************************************************)
(* Service 6, for any files, any telecommands and any failure, restarts    *)
(* included: what the answers tell of the files, the dumps, the devices.   *)
(***************************************************************************)

Datum(b, c) == b.data[c - b.offset]

(* Block n is the last of the first i - 1 that covers the cell c. *)
LastBefore(blocks, i, n, c) ==
    /\ n < i /\ c \in Covered(blocks[n])
    /\ \A m \in DOMAIN blocks : n < m /\ m < i => c \notin Covered(blocks[m])

(* A load has done its first i - 1 blocks, and nothing else. *)
LoadedBefore(r, i) ==
    \A c \in Cell :
      \/ /\ \A n \in DOMAIN r.blocks : n < i => c \notin Covered(r.blocks[n])
         /\ file[r.base][c] \in loaded[r.base][c]
      \/ \E n \in DOMAIN r.blocks :
           /\ LastBefore(r.blocks, i, n, c)
           /\ file[r.base][c] = Datum(r.blocks[n], c)

(* Some cells have what the load sent for them, the others what they had.  *)
LoadedInPart(r) ==
    \A c \in Cell : file[r.base][c] \in loaded[r.base][c] \union MayHold(r, c)

AsLoaded(f) == \A c \in Cell : file[f][c] \in loaded[f][c]

(* A dump has read its first i - 1 sections. *)
SectionOf(r, n) == [k \in DOMAIN r.blocks[n].data |-> file[r.base][r.blocks[n].offset + k]]

DumpedBefore(r, i) ==
    /\ files.dumped \in Seq(Seq(Value)) /\ Len(files.dumped) = i - 1
    /\ \A n \in 1..(i - 1) : files.dumped[n] = SectionOf(r, n)

Busy == {"block", "access", "outside", "close", "answer"}
R    == files.request

Handler ==
    [pc : {"idle"} \union Busy, request : FileTCs \union {NoFileTC}, i : Nat, offset : Nat,
     error : {"NO_ERROR", "FAILED", "UNEXPECTED_DATA"}, dumped : Seq(Seq(Value))]

FilesShape ==
    /\ file \in [File -> [Cell -> Value]]
    /\ DOMAIN loaded = File /\ \A f \in File : DOMAIN loaded[f] = Cell
    /\ files \in Handler
    /\ files.pc = "idle" => files = FilesIdle
    /\ files.pc \in Busy => files.request \in FileTCs
    /\ files.pc \in {"block", "access"} => files.i \in 1..(Len(R.blocks) + 1)
    /\ files.pc = "access" => files.i \in DOMAIN R.blocks
    /\ files.pc \in {"block", "access"} => files.error = "NO_ERROR"

Device == DevicesClosed /\ notClosed \subseteq File

Finished == files.pc \in {"close", "answer"} /\ files.error = "NO_ERROR"

Loads ==
    /\ \A f \in File : ~ (files.pc \in Busy /\ Loading /\ f = R.base) => AsLoaded(f)
    /\ Loading /\ files.pc \in {"block", "access"} => LoadedBefore(R, files.i)
    /\ Loading /\ Finished => LoadedBefore(R, Len(R.blocks) + 1)
    /\ Loading /\ files.pc \in Busy => LoadedInPart(R)

Dumps ==
    /\ ~ Loading /\ files.pc \in {"block", "access"} => DumpedBefore(R, files.i)
    /\ ~ Loading /\ Finished => DumpedBefore(R, Len(R.blocks) + 1)

FilesInv == FilesShape /\ Device /\ Loads /\ Dumps

-----------------------------------------------------------------------------

LEMMA Requests ==
    ASSUME NEW r \in FileTCs
    PROVE  /\ r.subservice \in {1, 3} /\ r.base \in File
           /\ r.blocks \in Seq(Block) /\ Len(r.blocks) \in Nat
           /\ DOMAIN r.blocks = 1..Len(r.blocks)
           /\ \A n \in DOMAIN r.blocks : r.blocks[n] \in Block
BY FilesAssumption

LEMMA Blocks ==
    ASSUME NEW b \in Block
    PROVE  /\ b.offset \in Nat /\ b.data \in Seq(Value) /\ Len(b.data) \in Nat
           /\ DOMAIN b.data = 1..Len(b.data)
           /\ \A c \in Covered(b) : c \in Cell /\ Datum(b, c) \in Value
BY FilesAssumption DEF Block, Covered, Cell, Datum

LEMMA WrittenCells ==
    ASSUME NEW f \in [Cell -> Value], NEW b \in Block, NEW n \in 0..Len(b.data)
    PROVE  /\ Written(f, b, n) \in [Cell -> Value]
           /\ \A c \in Cell : (Written(f, b, n)[c] = f[c])
                                \/ (c \in Covered(b) /\ Written(f, b, n)[c] = Datum(b, c))
           /\ n = Len(b.data) =>
                \A c \in Cell : Written(f, b, n)[c] = IF c \in Covered(b) THEN Datum(b, c) ELSE f[c]
<1>a. \A c \in Covered(b) : c <= b.offset + Len(b.data)
  BY DEF Covered
<1>1. /\ b.offset \in Nat /\ Len(b.data) \in Nat
      /\ \A c \in Covered(b) : c <= b.offset + Len(b.data) /\ Datum(b, c) \in Value
  BY Blocks, <1>a
<1>2. \A c \in Cell : Written(f, b, n)[c] = IF c \in Covered(b) /\ c <= b.offset + n
                                           THEN Datum(b, c) ELSE f[c]
  BY DEF Written, Datum
<1>3. Written(f, b, n) = [c \in Cell |-> Written(f, b, n)[c]]
  BY DEF Written
<1>4. \A c \in Cell : Written(f, b, n)[c] \in Value
  BY <1>1, <1>2
<1> QED
  BY <1>1, <1>2, <1>3, <1>4

LEMMA MayHoldData ==
    ASSUME NEW r \in FileTCs, NEW c \in Cell
    PROVE  /\ \A n \in DOMAIN r.blocks : c \in Covered(r.blocks[n]) =>
                 Datum(r.blocks[n], c) \in MayHold(r, c)
           /\ MayHold(r, c) # {} => \E n \in DOMAIN r.blocks : c \in Covered(r.blocks[n])
BY DEF MayHold, Datum

LEMMA LastOfAll ==
    ASSUME NEW r \in FileTCs, NEW c \in Cell, NEW n \in DOMAIN r.blocks,
           LastBefore(r.blocks, Len(r.blocks) + 1, n, c)
    PROVE  LastTo(r, c) = r.blocks[n]
<1> DEFINE to == {m \in DOMAIN r.blocks : c \in Covered(r.blocks[m])}
<1>1. DOMAIN r.blocks = 1..Len(r.blocks) /\ Len(r.blocks) \in Nat
  BY Requests
<1>2. n \in to /\ \A m \in to : m <= n
  BY <1>1 DEF LastBefore
<1>3. \A k \in to : (\A m \in to : m <= k) => k = n
  BY <1>1, <1>2
<1>4. (CHOOSE k \in to : \A m \in to : m <= k) = n
  <2> HIDE DEF to
  <2> QED
    BY <1>2, <1>3
<1> QED
  BY <1>4 DEF LastTo

(* A load done in part, and one done in full, for the ground. *)
LEMMA LoadedBeforeInPart ==
    ASSUME NEW r \in FileTCs, NEW i \in Nat, LoadedBefore(r, i)
    PROVE  LoadedInPart(r)
BY MayHoldData DEF LoadedBefore, LoadedInPart, LastBefore

LEMMA FilesStart == Init => FilesInv
<1> SUFFICES ASSUME Init
             PROVE  FilesInv
  OBVIOUS
<1>1. /\ file = [f \in File |-> [c \in Cell |-> 0]] /\ opened = {} /\ notClosed = {}
      /\ loaded = [f \in File |-> [c \in Cell |-> {0}]] /\ files = FilesIdle
  BY DEF Init, FilesInit
<1>2. files.pc = "idle"
  BY <1>1 DEF FilesIdle
<1>3. file \in [File -> [Cell -> Value]]
  BY <1>1, FilesAssumption
<1>4. DOMAIN loaded = File /\ \A f \in File : DOMAIN loaded[f] = Cell
  BY <1>1
<1>5. FilesIdle \in Handler
  BY DEF FilesIdle, Handler
<1>6. FilesShape
  BY <1>1, <1>2, <1>3, <1>4, <1>5 DEF FilesShape, Busy
<1>7. Device
  BY <1>1, <1>2 DEF Device, DevicesClosed
<1>8. \A f \in File : AsLoaded(f)
  BY <1>1 DEF AsLoaded
<1> QED
  BY <1>2, <1>6, <1>7, <1>8 DEF FilesInv, Loads, Dumps, Busy, Finished

(***************************************************************************)
(* Each action keeps the invariant.                                        *)
(***************************************************************************)

(* Nothing moves but the place of the handler. *)
LEMMA FilesUnchanged == FilesInv /\ UNCHANGED fileVars => FilesInv'
<1> SUFFICES ASSUME FilesInv, UNCHANGED fileVars
             PROVE  FilesInv'
  OBVIOUS
<1>1. UNCHANGED <<file, opened, notClosed, files, loaded>>
  BY DEF fileVars
<1>2. /\ \A r, i : LoadedBefore(r, i)' <=> LoadedBefore(r, i)
      /\ \A r : LoadedInPart(r)' <=> LoadedInPart(r)
      /\ \A f : AsLoaded(f)' <=> AsLoaded(f)
      /\ \A r, i : DumpedBefore(r, i)' <=> DumpedBefore(r, i)
  BY <1>1 DEF LoadedBefore, LoadedInPart, AsLoaded, DumpedBefore, SectionOf
<1>3. FilesShape' /\ Device'
  BY <1>1 DEF FilesInv, FilesShape, Device, DevicesClosed, R
<1>4. Loads' /\ Dumps'
  BY <1>1, <1>2 DEF FilesInv, Loads, Dumps, Finished, Loading, R
<1> QED
  BY <1>3, <1>4 DEF FilesInv

LEMMA KeepsExecute ==
    ASSUME FilesInv, NEW r \in FileTCs, ExecuteS6(r)
    PROVE  FilesInv'
<1>1. /\ UNCHANGED <<file, notClosed, loaded>> /\ files.pc = "idle"
      /\ opened = notClosed /\ notClosed \subseteq File
  BY DEF FilesInv, Device, DevicesClosed, ExecuteS6, FilesAt
<1>2. /\ r.subservice \in {1, 3} /\ r.base \in File /\ Len(r.blocks) \in Nat
      /\ \A n \in DOMAIN r.blocks : n \in 1..Len(r.blocks)
  BY Requests
<1>3. \A f \in File : AsLoaded(f)' /\ AsLoaded(f)
  BY <1>1 DEF FilesInv, Loads, AsLoaded, Busy
<1>4. \/ /\ opened' = opened \union {r.base}
         /\ files' = [FilesIdle EXCEPT !.pc = "block", !.request = r, !.i = 1]
      \/ /\ opened' = opened
         /\ files' = [FilesIdle EXCEPT !.pc = "answer", !.request = r, !.error = "FAILED"]
  BY <1>1 DEF ExecuteS6
<1>c. <<>> \in Seq(Seq(Value))
  OBVIOUS
<1>d. files' \in {[pc |-> "block", request |-> r, i |-> 1, offset |-> 0, error |-> "NO_ERROR",
                  dumped |-> <<>>],
                 [pc |-> "answer", request |-> r, i |-> 0, offset |-> 0, error |-> "FAILED",
                  dumped |-> <<>>]}
  BY <1>4 DEF FilesIdle
<1>a. /\ files' \in Handler /\ files'.request = r
      /\ files'.pc \in {"block", "answer"}
      /\ files'.pc = "block" => files'.i = 1 /\ files'.error = "NO_ERROR"
  <2>1. CASE files' = [pc |-> "block", request |-> r, i |-> 1, offset |-> 0,
                       error |-> "NO_ERROR", dumped |-> <<>>]
    BY <1>c, <2>1 DEF Handler, Busy
  <2>2. CASE files' = [pc |-> "answer", request |-> r, i |-> 0, offset |-> 0,
                       error |-> "FAILED", dumped |-> <<>>]
    BY <1>c, <2>2 DEF Handler, Busy
  <2> QED
    BY <1>d, <2>1, <2>2
<1>5. FilesShape' /\ files'.request = r
  BY <1>1, <1>2, <1>a DEF FilesInv, FilesShape, Busy, R
<1>6. Device'
  BY <1>1, <1>4 DEF Device, DevicesClosed, FilesIdle
<1>7. LoadedBefore(r, 1)'
  BY <1>1, <1>2, <1>3 DEF LoadedBefore, AsLoaded
<1>8. LoadedInPart(r)'
  BY <1>1, <1>2, <1>3 DEF LoadedInPart, AsLoaded
<1>9. files'.pc = "block" => files'.i = 1 /\ files'.dumped = <<>>
  BY <1>4 DEF FilesIdle
<1>10. files'.pc \in {"block", "answer"} /\ (files'.pc = "answer" => files'.error = "FAILED")
  BY <1>4 DEF FilesIdle
<1>11. Loads'
  BY <1>3, <1>5, <1>7, <1>8, <1>9, <1>10 DEF Loads, Finished, R
<1>b. files'.dumped = <<>> => DumpedBefore(r, 1)'
  <2>1. /\ <<>> \in Seq(Seq(Value)) /\ Len(<<>>) = 1 - 1
        /\ \A n \in 1..(1 - 1) : FALSE
    OBVIOUS
  <2> QED
    BY <2>1 DEF DumpedBefore
<1>12. Dumps'
  BY <1>5, <1>9, <1>10, <1>b DEF Dumps, Finished, R
<1> QED
  BY <1>5, <1>6, <1>11, <1>12 DEF FilesInv

(* The handler goes on to its next step, or to the end of a failure. *)
LEMMA KeepsMove ==
    ASSUME FilesInv, UNCHANGED <<file, opened, notClosed, loaded>>,
           NEW pc, NEW e, files' = [files EXCEPT !.pc = pc, !.error = e],
           files.pc \in {"block", "access"},
           \/ pc = "access" /\ e = "NO_ERROR" /\ files.i \in DOMAIN R.blocks
           \/ pc = "outside" /\ e = "NO_ERROR"
           \/ pc = "close" /\ e \in {"FAILED", "UNEXPECTED_DATA"}
           \/ pc = "close" /\ e = "NO_ERROR" /\ files.i = Len(R.blocks) + 1
    PROVE  FilesInv'
<1>1. /\ files'.pc = pc /\ files'.error = e /\ files'.request = R
      /\ files'.i = files.i /\ files'.dumped = files.dumped
  BY DEF FilesInv, FilesShape, R
<1>2. FilesShape'
  BY <1>1 DEF FilesInv, FilesShape, Handler, Busy, R
<1>3. Device'
  BY <1>1 DEF FilesInv, Device, DevicesClosed, R
<1>4. R' = R /\ (Loading' <=> Loading)
  BY <1>1 DEF R, Loading
<1>5. /\ \A i : LoadedBefore(R, i)' <=> LoadedBefore(R, i)
      /\ LoadedInPart(R)' <=> LoadedInPart(R)
      /\ \A f : AsLoaded(f)' <=> AsLoaded(f)
      /\ \A i : DumpedBefore(R, i)' <=> DumpedBefore(R, i)
  BY <1>1, <1>4 DEF LoadedBefore, LoadedInPart, AsLoaded, DumpedBefore, SectionOf
<1>6. Loads'
  BY <1>1, <1>4, <1>5 DEF FilesInv, Loads, Finished, Busy
<1>7. Dumps'
  BY <1>1, <1>4, <1>5 DEF FilesInv, Dumps, Finished
<1> QED
  BY <1>2, <1>3, <1>6, <1>7 DEF FilesInv

(* The block of this step. *)
LEMMA BlockInHand ==
    ASSUME FilesInv, files.pc = "access"
    PROVE  /\ R \in FileTCs /\ R.base \in File
           /\ files.i \in DOMAIN R.blocks /\ files.i \in Nat
           /\ BlockOf = R.blocks[files.i] /\ BlockOf \in Block
           /\ file[R.base] \in [Cell -> Value]
           /\ DOMAIN R.blocks = 1..Len(R.blocks) /\ Len(R.blocks) \in Nat
<1>1. R \in FileTCs /\ files.i \in DOMAIN R.blocks
  BY DEF FilesInv, FilesShape, Busy, R
<1> QED
  BY <1>1, Requests DEF FilesInv, FilesShape, BlockOf, R

LEMMA KeepsNextBlock ==
    ASSUME FilesInv, files.pc = "access", NEW dumped \in Seq(Seq(Value)), NextBlock(dumped),
           UNCHANGED <<opened, notClosed, loaded>>, file' \in [File -> [Cell -> Value]]
    PROVE  /\ FilesShape' /\ Device' /\ files'.pc = "block" /\ files'.i = files.i + 1
           /\ R' = R /\ files'.dumped = dumped /\ (Loading' <=> Loading)
<1>1. /\ files' = [files EXCEPT !.pc = "block", !.i = @ + 1, !.dumped = dumped,
                                !.offset = @ + 1 + Len(BlockOf.data)]
      /\ files \in Handler /\ Len(BlockOf.data) \in Nat /\ R \in FileTCs
      /\ files.i \in 1..Len(R.blocks) /\ Len(R.blocks) \in Nat
      /\ files.error = "NO_ERROR"
  BY BlockInHand, Blocks DEF NextBlock, FilesInv, FilesShape
<1>a. files.i + 1 \in Nat /\ files.offset + 1 + Len(BlockOf.data) \in Nat
  BY <1>1 DEF Handler
<1>b. /\ files'.pc = "block" /\ files'.i = files.i + 1 /\ files'.request = R
      /\ files'.dumped = dumped /\ files'.error = "NO_ERROR"
  BY <1>1 DEF Handler, R
<1>c. files' \in Handler
  BY <1>1, <1>a DEF Handler, Busy
<1>2. /\ files'.pc = "block" /\ files'.i = files.i + 1 /\ files'.request = R
      /\ files'.dumped = dumped /\ files'.error = "NO_ERROR" /\ files' \in Handler
  BY <1>b, <1>c
<1>3. R' = R /\ (Loading' <=> Loading)
  BY <1>2 DEF R, Loading
<1>4. FilesShape'
  BY <1>1, <1>2, <1>3 DEF FilesInv, FilesShape, Busy, R
<1> QED
  BY <1>1, <1>2, <1>3, <1>4 DEF FilesInv, Device, DevicesClosed, R

LEMMA KeepsWrite == ASSUME FilesInv, WriteBlock PROVE FilesInv'
<1> DEFINE b == BlockOf
<1>1. files.pc = "access" /\ Loading /\ UNCHANGED <<opened, notClosed, loaded>>
  BY DEF WriteBlock, FilesAt
<1>2. /\ R \in FileTCs /\ R.base \in File
      /\ files.i \in DOMAIN R.blocks /\ files.i \in Nat
      /\ b = R.blocks[files.i] /\ b \in Block /\ file[R.base] \in [Cell -> Value]
      /\ DOMAIN R.blocks = 1..Len(R.blocks) /\ Len(R.blocks) \in Nat
  BY <1>1, BlockInHand
<1>3. Len(b.data) \in 0..Len(b.data)
  BY <1>2, Blocks
<1>4. LoadedBefore(R, files.i) /\ LoadedInPart(R)
  BY <1>1 DEF FilesInv, Loads, Busy
<1> HIDE DEF b
<1>5. ASSUME NEW n \in 0..Len(b.data), file' = [file EXCEPT ![R.base] = Written(@, b, n)]
      PROVE  /\ file' \in [File -> [Cell -> Value]]
             /\ file'[R.base] = Written(file[R.base], b, n)
             /\ \A f \in File : f # R.base => (AsLoaded(f) => AsLoaded(f)')
             /\ \A c \in Cell : file'[R.base][c] \in loaded'[R.base][c] \union MayHold(R, c)
  <2>1. Written(file[R.base], b, n) \in [Cell -> Value]
    BY <1>2, WrittenCells
  <2>2. /\ file' = [file EXCEPT ![R.base] = Written(file[R.base], b, n)]
        /\ file \in [File -> [Cell -> Value]]
    BY <1>2, <1>5 DEF FilesInv, FilesShape
  <2>3. file' \in [File -> [Cell -> Value]] /\ file'[R.base] = Written(file[R.base], b, n)
    BY <1>2, <2>1, <2>2
  <2>4. \A f \in File : f # R.base => file'[f] = file[f]
    BY <2>2
  <2>5. \A f \in File : f # R.base => (AsLoaded(f) => AsLoaded(f)')
    BY <1>1, <2>4 DEF AsLoaded
  <2>6. \A c \in Cell : file'[R.base][c] \in loaded'[R.base][c] \union MayHold(R, c)
    <3> SUFFICES ASSUME NEW c \in Cell
                 PROVE  file'[R.base][c] \in loaded[R.base][c] \union MayHold(R, c)
      BY <1>1
    <3>1. \/ file'[R.base][c] = file[R.base][c]
          \/ c \in Covered(b) /\ file'[R.base][c] = Datum(b, c)
      BY <1>2, <2>3, WrittenCells
    <3>2. c \in Covered(b) => Datum(b, c) \in MayHold(R, c)
      BY <1>2, MayHoldData
    <3> QED
      BY <1>4, <3>1, <3>2 DEF LoadedInPart
  <2> QED
    BY <2>3, <2>5, <2>6
<1>6. CASE file' = [file EXCEPT ![R.base] = Written(@, b, Len(b.data))] /\ NextBlock(<<>>)
  <2>a. /\ file' \in [File -> [Cell -> Value]]
        /\ file'[R.base] = Written(file[R.base], b, Len(b.data))
        /\ \A f \in File : f # R.base => (AsLoaded(f) => AsLoaded(f)')
        /\ \A c \in Cell : file'[R.base][c] \in loaded'[R.base][c] \union MayHold(R, c)
    BY <1>3, <1>5, <1>6
  <2>1. /\ FilesShape' /\ Device' /\ files'.pc = "block" /\ files'.i = files.i + 1
        /\ R' = R /\ (Loading' <=> Loading)
    <3>1. <<>> \in Seq(Seq(Value))
      OBVIOUS
    <3> QED
      BY <1>1, <1>6, <2>a, <3>1, KeepsNextBlock
  <2>2. \A c \in Cell : file'[R.base][c] = IF c \in Covered(b) THEN Datum(b, c)
                                           ELSE file[R.base][c]
    BY <1>2, <1>3, <2>a, WrittenCells
  <2>3. LoadedBefore(R, files.i)'
    <3> SUFFICES ASSUME NEW c \in Cell
                 PROVE  \/ /\ \A n \in DOMAIN R.blocks : n < files.i + 1 => c \notin Covered(R.blocks[n])
                           /\ file'[R.base][c] \in loaded[R.base][c]
                        \/ \E n \in DOMAIN R.blocks :
                             /\ LastBefore(R.blocks, files.i + 1, n, c)
                             /\ file'[R.base][c] = Datum(R.blocks[n], c)
      BY <1>1, <2>1 DEF LoadedBefore
    <3>1. CASE c \in Covered(b)
      <4>1. LastBefore(R.blocks, files.i + 1, files.i, c)
        BY <1>2, <3>1 DEF LastBefore
      <4> QED
        BY <1>2, <2>2, <3>1, <4>1
    <3>2. CASE c \notin Covered(b)
      <4>1. \A n \in DOMAIN R.blocks : LastBefore(R.blocks, files.i, n, c)
                                        => LastBefore(R.blocks, files.i + 1, n, c)
        BY <1>2, <3>2 DEF LastBefore
      <4>2. file'[R.base][c] = file[R.base][c]
        BY <2>2, <3>2
      <4>3. CASE \A n \in DOMAIN R.blocks : n < files.i => c \notin Covered(R.blocks[n])
        BY <1>2, <1>4, <3>2, <4>2, <4>3 DEF LoadedBefore, LastBefore
      <4>4. CASE \E n \in DOMAIN R.blocks : LastBefore(R.blocks, files.i, n, c)
                                             /\ file[R.base][c] = Datum(R.blocks[n], c)
        BY <4>1, <4>2, <4>4
      <4> QED
        BY <1>4, <4>3, <4>4 DEF LoadedBefore
    <3> QED
      BY <3>1, <3>2
  <2>4. LoadedInPart(R)'
    BY <2>a, <2>1 DEF LoadedInPart
  <2>5. \A f \in File : f # R.base => AsLoaded(f)'
    BY <1>1, <2>a DEF FilesInv, Loads
  <2>7. Loads'
    BY <1>1, <2>1, <2>3, <2>4, <2>5 DEF Loads, Finished, Busy
  <2> QED
    BY <1>1, <2>1, <2>7 DEF FilesInv, Dumps
<1>7. ASSUME NEW n \in 0..Len(b.data), file' = [file EXCEPT ![R.base] = Written(@, b, n)],
             FilesFail("FAILED")
      PROVE  FilesInv'
  <2>1. files' = [files EXCEPT !.pc = "close", !.error = "FAILED"] /\ files \in Handler
    BY <1>7 DEF FilesFail, FilesInv, FilesShape
  <2>2. /\ files' \in Handler /\ files'.pc = "close" /\ files'.error = "FAILED"
        /\ files'.request = R
    BY <2>1 DEF Handler, Busy, R
  <2>3. R' = R /\ (Loading' <=> Loading)
    BY <2>2 DEF R, Loading
  <2>4. FilesShape' /\ Device'
    BY <1>1, <1>2, <1>5, <1>7, <2>2, <2>3
       DEF FilesInv, FilesShape, Device, DevicesClosed, Busy, R
  <2>5. LoadedInPart(R)'
    BY <1>5, <1>7, <2>3 DEF LoadedInPart
  <2>6. \A f \in File : f # R.base => AsLoaded(f)'
    BY <1>1, <1>5, <1>7 DEF FilesInv, Loads
  <2> QED
    BY <1>1, <2>2, <2>3, <2>4, <2>5, <2>6 DEF FilesInv, Loads, Dumps, Finished, Busy
<1> QED
  BY <1>1, <1>6, <1>7 DEF WriteBlock, ToWrite, R, b

LEMMA KeepsRead == ASSUME FilesInv, ReadSection PROVE FilesInv'
<1> DEFINE b == BlockOf
<1>1. files.pc = "access" /\ ~ Loading /\ UNCHANGED <<file, opened, notClosed, loaded>>
  BY DEF ReadSection, FilesAt
<1>2. /\ R \in FileTCs /\ R.base \in File
      /\ files.i \in DOMAIN R.blocks /\ files.i \in Nat
      /\ b = R.blocks[files.i] /\ b \in Block /\ file[R.base] \in [Cell -> Value]
      /\ DOMAIN R.blocks = 1..Len(R.blocks) /\ Len(R.blocks) \in Nat
  BY <1>1, BlockInHand
<1>3. DumpedBefore(R, files.i)
  BY <1>1 DEF FilesInv, Dumps
<1>4. CASE FilesFail("FAILED")
  <2>1. files' = [files EXCEPT !.pc = "close", !.error = "FAILED"]
    BY <1>4 DEF FilesFail
  <2> QED
    BY <1>1, <2>1, KeepsMove
<1> HIDE DEF b
<1>5. CASE Inside(b) /\ Exists(b) /\ NextBlock(Append(files.dumped, Section(b)))
  <2>1. /\ Section(b) = [k \in DOMAIN b.data |-> file[R.base][b.offset + k]]
        /\ Section(b) = SectionOf(R, files.i)
    BY <1>2 DEF Section, SectionOf, R
  <2>2. Section(b) \in Seq(Value)
    <3>1. /\ b.offset \in Nat /\ Len(b.data) \in Nat /\ DOMAIN b.data = 1..Len(b.data)
      BY <1>2, Blocks
    <3>2. \A k \in 1..Len(b.data) : b.offset + k \in Cell
      BY <1>5, <3>1, FilesAssumption DEF Exists, Cell
    <3>3. \A k \in 1..Len(b.data) : file[R.base][b.offset + k] \in Value
      BY <1>2, <3>2
    <3> QED
      BY <2>1, <3>1, <3>3
  <2>3. /\ files.dumped \in Seq(Seq(Value)) /\ Len(files.dumped) = files.i - 1
        /\ \A n \in 1..(files.i - 1) : files.dumped[n] = SectionOf(R, n)
    BY <1>3 DEF DumpedBefore
  <2> DEFINE more == Append(files.dumped, Section(b))
  <2>4. /\ more \in Seq(Seq(Value)) /\ Len(more) = files.i
        /\ more[files.i] = Section(b) /\ \A n \in 1..(files.i - 1) : more[n] = files.dumped[n]
    BY <1>2, <2>2, <2>3
  <2> HIDE DEF more
  <2>5. file' \in [File -> [Cell -> Value]]
    BY <1>1 DEF FilesInv, FilesShape
  <2>6. /\ FilesShape' /\ Device' /\ files'.pc = "block" /\ files'.i = files.i + 1
        /\ R' = R /\ files'.dumped = more /\ (Loading' <=> Loading)
    BY <1>1, <1>5, <2>4, <2>5, KeepsNextBlock DEF more
  <2>7. \A n \in 1..files.i : more[n] = SectionOf(R, n)
    <3> SUFFICES ASSUME NEW n \in 1..files.i
                 PROVE  more[n] = SectionOf(R, n)
      OBVIOUS
    <3>1. CASE n = files.i
      BY <1>2, <2>1, <2>4, <3>1
    <3>2. CASE n # files.i
      <4>1. n \in 1..(files.i - 1)
        BY <1>2, <3>2
      <4> QED
        BY <2>3, <2>4, <4>1
    <3> QED
      BY <3>1, <3>2
  <2>8. files'.i - 1 = files.i
    BY <1>2, <2>6
  <2>a. \A n : SectionOf(R, n)' = SectionOf(R, n)
    BY <1>1, <2>6 DEF SectionOf
  <2>9. DumpedBefore(R, files.i)'
    BY <2>4, <2>6, <2>7, <2>8, <2>a DEF DumpedBefore
  <2>10. \A f \in File : AsLoaded(f)'
    BY <1>1 DEF FilesInv, Loads, AsLoaded
  <2> QED
    BY <1>1, <2>6, <2>9, <2>10 DEF FilesInv, Loads, Dumps, Finished, Busy
<1> QED
  BY <1>1, <1>4, <1>5 DEF ReadSection, b

LEMMA KeepsClose == ASSUME FilesInv, Close PROVE FilesInv'
<1>1. /\ files.pc = "close" /\ UNCHANGED <<file, loaded>>
      /\ files' = [files EXCEPT !.pc = "answer"] /\ files \in Handler
      /\ \/ opened' = opened \ ({R.base} \ notClosed) /\ notClosed' = notClosed
         \/ opened' = opened /\ notClosed' = notClosed \union {R.base}
  BY DEF Close, FilesAt, OpenAfterClose, FilesInv, FilesShape, R
<1>2. /\ files'.pc = "answer" /\ files'.error = files.error /\ files'.request = files.request
      /\ files'.dumped = files.dumped /\ files' \in Handler
  BY <1>1 DEF Handler, Busy
<1>3. R' = R /\ (Loading' <=> Loading)
  BY <1>2 DEF R, Loading
<1>a. opened = notClosed \union {R.base} /\ notClosed \subseteq File /\ R.base \in File
  BY <1>1, Requests DEF FilesInv, FilesShape, Device, DevicesClosed, Busy, R
<1>b. opened' = notClosed' /\ notClosed' \subseteq File
  BY <1>1, <1>a
<1>4. FilesShape' /\ Device'
  BY <1>1, <1>2, <1>b DEF FilesInv, FilesShape, Device, DevicesClosed, Busy
<1> DEFINE n == Len(R.blocks) + 1
<1>5. n' = n
  BY <1>3
<1> HIDE DEF n
<1>6. /\ LoadedBefore(R, n)' <=> LoadedBefore(R, n)
      /\ LoadedInPart(R)' <=> LoadedInPart(R)
      /\ \A f : AsLoaded(f)' <=> AsLoaded(f)
      /\ DumpedBefore(R, n)' <=> DumpedBefore(R, n)
  BY <1>1, <1>2, <1>3, <1>5 DEF LoadedBefore, LoadedInPart, AsLoaded, DumpedBefore, SectionOf
<1> QED
  BY <1>1, <1>2, <1>3, <1>4, <1>6 DEF FilesInv, Loads, Dumps, Finished, Busy, n

(* What the ground learns is true. *)
LEMMA LearnsTruth ==
    ASSUME FilesInv, UNCHANGED file, NEW ok \in BOOLEAN, Learn(ok),
           ok => Finished
    PROVE  /\ DOMAIN loaded' = File /\ \A f \in File : DOMAIN loaded'[f] = Cell
           /\ \A f \in File : AsLoaded(f)'
<1>1. DOMAIN loaded = File /\ \A f \in File : DOMAIN loaded[f] = Cell
  BY DEF FilesInv, FilesShape
<1>2. CASE R.subservice # 1
  <2>1. UNCHANGED loaded /\ ~ Loading
    BY <1>2 DEF Learn, Loading, R
  <2> QED
    BY <1>1, <2>1 DEF FilesInv, Loads, AsLoaded
<1>3. CASE R.subservice = 1
  <2> DEFINE new == [c \in Cell |->
                IF MayHold(R, c) = {} THEN loaded[R.base][c]
                ELSE IF ok THEN {LastTo(R, c).data[c - LastTo(R, c).offset]}
                ELSE loaded[R.base][c] \union MayHold(R, c)]
  <2>1. loaded' = [loaded EXCEPT ![R.base] = new] /\ Loading
    BY <1>3 DEF Learn, Loading, R
  <2>2. files.pc \in Busy /\ R \in FileTCs /\ R.base \in File
    <3>1. files.pc # "idle"
      BY <1>3 DEF FilesInv, FilesShape, FilesIdle, NoFileTC, R
    <3> QED
      BY <3>1, Requests DEF FilesInv, FilesShape, Handler, R
  <2>3. \A c \in Cell : file[R.base][c] \in new[c]
    <3> SUFFICES ASSUME NEW c \in Cell
                 PROVE  file[R.base][c] \in new[c]
      OBVIOUS
    <3>1. file[R.base][c] \in loaded[R.base][c] \union MayHold(R, c)
      BY <2>1, <2>2 DEF FilesInv, Loads, LoadedInPart
    <3>2. CASE MayHold(R, c) = {}
      BY <3>1, <3>2
    <3>3. CASE MayHold(R, c) # {} /\ ~ ok
      BY <3>1, <3>3
    <3>4. CASE MayHold(R, c) # {} /\ ok
      <4>1. PICK n \in DOMAIN R.blocks : c \in Covered(R.blocks[n])
        BY <2>2, <3>4, MayHoldData
      <4>2. n < Len(R.blocks) + 1
        BY <2>2, Requests
      <4>3. LoadedBefore(R, Len(R.blocks) + 1)
        BY <2>1, <3>4 DEF FilesInv, Loads
      <4>4. PICK m \in DOMAIN R.blocks : /\ LastBefore(R.blocks, Len(R.blocks) + 1, m, c)
                                         /\ file[R.base][c] = Datum(R.blocks[m], c)
        BY <4>1, <4>2, <4>3 DEF LoadedBefore
      <4>5. LastTo(R, c) = R.blocks[m]
        BY <2>2, <4>4, LastOfAll
      <4> QED
        BY <3>4, <4>4, <4>5 DEF Datum
    <3> QED
      BY <3>2, <3>3, <3>4
  <2>4. DOMAIN new = Cell
    OBVIOUS
  <2> HIDE DEF new
  <2>5. \A f \in File : loaded'[f] = IF f = R.base THEN new ELSE loaded[f]
    BY <1>1, <2>1
  <2>6. \A f \in File : f # R.base => AsLoaded(f)
    BY DEF FilesInv, Loads
  <2> QED
    BY <1>1, <2>1, <2>3, <2>4, <2>5, <2>6 DEF AsLoaded
<1> QED
  BY <1>2, <1>3

LEMMA KeepsIdle ==
    ASSUME FilesInv, UNCHANGED file, opened' = notClosed', notClosed' \subseteq File,
           files' = FilesIdle,
           NEW ok \in BOOLEAN, Learn(ok), ok => Finished
    PROVE  FilesInv'
<1>1. /\ DOMAIN loaded' = File /\ \A f \in File : DOMAIN loaded'[f] = Cell
      /\ \A f \in File : AsLoaded(f)'
  BY LearnsTruth
<1>2. FilesIdle \in Handler
  <2>1. <<>> \in Seq(Seq(Value))
    OBVIOUS
  <2> QED
    BY <2>1 DEF FilesIdle, Handler
<1>3. files'.pc = "idle"
  BY DEF FilesIdle
<1>4. FilesShape' /\ Device'
  BY <1>1, <1>2, <1>3 DEF FilesInv, FilesShape, Device, DevicesClosed, Busy
<1> QED
  BY <1>1, <1>3, <1>4 DEF FilesInv, Loads, Dumps, Finished, Busy

LEMMA FilesStep == FilesInv /\ [Next]_vars => FilesInv'
<1> SUFFICES ASSUME FilesInv, [Next]_vars
             PROVE  FilesInv'
  OBVIOUS
<1>1. CASE UNCHANGED fileVars
  BY <1>1, FilesUnchanged
<1>2. ASSUME NEW r \in FileTCs, ExecuteS6(r)
      PROVE  FilesInv'
  BY <1>2, KeepsExecute
<1>3. CASE EndOfBlocks \/ RefuseBlock \/ Seek
  <2>1. UNCHANGED <<file, opened, notClosed, loaded>> /\ files.pc = "block"
    BY <1>3 DEF EndOfBlocks, RefuseBlock, Seek, FilesAt
  <2>2. /\ files.error = "NO_ERROR" /\ files \in Handler
        /\ files.i \in 1..(Len(R.blocks) + 1) /\ R \in FileTCs
    BY <2>1 DEF FilesInv, FilesShape, Busy, R
  <2>3. files.i \in DOMAIN R.blocks \/ files.i = Len(R.blocks) + 1
    BY <2>2, Requests
  <2>4. /\ NoMoreBlocks => files.i = Len(R.blocks) + 1
        /\ ~ NoMoreBlocks => files.i \in DOMAIN R.blocks
    BY <2>2, <2>3, Requests DEF NoMoreBlocks, R
  <2>5. CASE FilesFail("FAILED") \/ FilesFail("UNEXPECTED_DATA")
    <3>1. PICK e \in {"FAILED", "UNEXPECTED_DATA"} :
             files' = [files EXCEPT !.pc = "close", !.error = e]
      BY <2>5 DEF FilesFail
    <3> QED
      BY <2>1, <3>1, KeepsMove
  <2>6. CASE files' = [files EXCEPT !.pc = "close"] /\ NoMoreBlocks
    <3>1. files' = [files EXCEPT !.pc = "close", !.error = "NO_ERROR"]
      BY <2>2, <2>6 DEF Handler
    <3> QED
      BY <2>1, <2>4, <2>6, <3>1, KeepsMove
  <2>7. CASE files' = [files EXCEPT !.pc = "access"] /\ ~ NoMoreBlocks
    <3>1. files' = [files EXCEPT !.pc = "access", !.error = "NO_ERROR"]
      BY <2>2, <2>7 DEF Handler
    <3> QED
      BY <2>1, <2>4, <2>7, <3>1, KeepsMove
  <2> QED
    BY <1>3, <2>5, <2>6, <2>7 DEF EndOfBlocks, RefuseBlock, Seek
<1>a. CASE Overrun
  <2>1. /\ UNCHANGED <<file, opened, notClosed, loaded>> /\ files.pc \in {"block", "access"}
        /\ files' = [files EXCEPT !.pc = "outside"] /\ files \in Handler
        /\ files.error = "NO_ERROR"
    BY <1>a DEF Overrun, FilesAt, FilesInv, FilesShape
  <2>2. files' = [files EXCEPT !.pc = "outside", !.error = "NO_ERROR"]
    BY <2>1 DEF Handler
  <2> QED
    BY <2>1, <2>2, KeepsMove
<1>4. CASE FilesReturn
  <2>1. files.pc = "answer" /\ UNCHANGED <<file, opened, notClosed>> /\ files' = FilesIdle
        /\ Learn(files.error = "NO_ERROR")
    BY <1>4 DEF FilesReturn, FilesAt
  <2>2. opened = notClosed /\ notClosed \subseteq File
    BY <2>1 DEF FilesInv, Device, DevicesClosed
  <2> QED
    BY <2>1, <2>2, KeepsIdle DEF Finished
<1>5. CASE Restart
  BY <1>5, KeepsIdle DEF Restart, FilesRestart
<1> QED
  BY <1>1, <1>2, <1>3, <1>a, <1>4, <1>5, KeepsWrite, KeepsRead, KeepsClose
     DEF Next, vars, fileVars, FilesNext

(***************************************************************************)
(* The theorems.                                                           *)
(***************************************************************************)

LEMMA FilesInvariant == Spec => []FilesInv
BY FilesStart, FilesStep, PTL DEF Spec

(* A load answered as executed is in its file, each cell with the last of  *)
(* its data, and a failed one has left what was there or some of its data, *)
(* whatever device fails and whenever the software restarts                *)
(* (FilesAsLoaded).                                                        *)
THEOREM FilesAsLoadedHolds == Spec => []FilesAsLoaded
<1>1. FilesInv => FilesAsLoaded
  BY DEF FilesInv, Loads, FilesAsLoaded, AsLoaded, Busy
<1> QED
  BY <1>1, FilesInvariant, PTL

(* A dump that succeeds holds the sections asked for (DumpFaithful).       *)
THEOREM DumpFaithfulHolds == Spec => []DumpFaithful
<1>1. ASSUME FilesInv, files.pc = "answer", files.request.subservice = 3, files.error = "NO_ERROR"
      PROVE  files.dumped = [n \in DOMAIN files.request.blocks |->
                LET b == files.request.blocks[n]
                IN [k \in DOMAIN b.data |-> file[files.request.base][b.offset + k]]]
  <2>1. R \in FileTCs /\ DumpedBefore(R, Len(R.blocks) + 1)
    BY <1>1 DEF FilesInv, FilesShape, Dumps, Finished, Loading, Busy, R
  <2>2. Len(R.blocks) \in Nat /\ DOMAIN R.blocks = 1..Len(R.blocks)
    BY <2>1, Requests
  <2>3. Len(R.blocks) + 1 - 1 = Len(R.blocks)
    BY <2>2
  <2>4. /\ files.dumped \in Seq(Seq(Value)) /\ Len(files.dumped) = Len(R.blocks)
        /\ \A n \in 1..Len(R.blocks) : files.dumped[n] = SectionOf(R, n)
    BY <2>1, <2>3 DEF DumpedBefore
  <2>5. files.dumped = [n \in DOMAIN R.blocks |-> SectionOf(R, n)]
    <3> DEFINE s == files.dumped
    <3>1. s = [n \in 1..Len(s) |-> s[n]]
      <4>1. \A t \in Seq(Seq(Value)) : t = [n \in 1..Len(t) |-> t[n]]
        OBVIOUS
      <4> QED
        BY <2>4, <4>1
    <3> HIDE DEF s
    <3>2. Len(s) = Len(R.blocks) /\ \A n \in 1..Len(R.blocks) : s[n] = SectionOf(R, n)
      BY <2>4 DEF s
    <3>3. s = [n \in DOMAIN R.blocks |-> SectionOf(R, n)]
      BY <2>2, <3>1, <3>2
    <3> QED
      BY <3>3 DEF s
  <2> QED
    BY <2>5 DEF R, SectionOf
<1>2. FilesInv => DumpFaithful
  BY <1>1 DEF DumpFaithful
<1> QED
  BY <1>2, FilesInvariant, PTL

(* A request that is answered leaves its device open only if the close has *)
(* failed, and every path tries it (DevicesClosed).                        *)
THEOREM DevicesClosedHolds == Spec => []DevicesClosed
<1>1. FilesInv => DevicesClosed
  BY DEF FilesInv, Device
<1> QED
  BY <1>1, FilesInvariant, PTL

(***************************************************************************)
(* Types, of which the room left in the TC or in the TM is what matters.   *)
(***************************************************************************)

(* A block is written only if it fits in what is left. *)
Room ==
    /\ files.i \in 0..(Len(R.blocks) + 1)
    /\ files.offset \in 0..RoomFor
    /\ files.pc = "access" /\ Loading => Inside(BlockOf)
    /\ files.pc = "outside" => files.offset + 1 + Len(BlockOf.data) >= Word

Status160 == status160 \in {"PUS_NOT_INITIALIZED", "PUS_INITIALIZED", "PUS_ERROR"}

LEMMA IdleRoom == files = FilesIdle => Room
<1> SUFFICES ASSUME files = FilesIdle
             PROVE  Room
  OBVIOUS
<1>1. /\ files.pc = "idle" /\ files.i = 0 /\ files.offset = 0 /\ R.blocks = <<>>
      /\ RoomFor = TM_MAX
  BY DEF FilesIdle, NoFileTC, R, RoomFor, Loading
<1>2. Len(<<>>) + 1 = 1
  OBVIOUS
<1>3. TM_MAX \in Nat
  BY FilesAssumption
<1>4. Len(R.blocks) + 1 = 1
  BY <1>1, <1>2
<1> QED
  BY <1>1, <1>3, <1>4 DEF Room

(* The handler moves within the block it is at. *)
LEMMA RoomKept ==
    ASSUME Room, UNCHANGED <<files.i, files.offset, files.request>>,
           files'.pc = "access" /\ Loading => Inside(BlockOf),
           files'.pc = "outside" => files.offset + 1 + Len(BlockOf.data) >= Word
    PROVE  Room'
<1>1. R' = R /\ RoomFor' = RoomFor /\ Inside(BlockOf)' = Inside(BlockOf)
      /\ Loading' = Loading /\ BlockOf' = BlockOf
  BY DEF R, RoomFor, Loading, Inside, BlockOf
<1>2. files'.i \in 0..(Len(R'.blocks) + 1) /\ files'.offset \in 0..RoomFor'
  BY <1>1 DEF Room
<1> QED
  BY <1>1, <1>2 DEF Room

LEMMA RoomNextBlock ==
    ASSUME FilesInv, Room, files.pc = "access", NEW d, NextBlock(d), Inside(BlockOf)
    PROVE  Room'
<1>1. /\ R \in FileTCs /\ files.i \in DOMAIN R.blocks /\ files \in Handler
      /\ files.offset \in Nat
  BY DEF FilesInv, FilesShape, Busy, R, Handler, Room
<1>2. /\ Len(R.blocks) \in Nat /\ files.i \in 1..Len(R.blocks)
      /\ BlockOf \in Block
  BY <1>1, Requests DEF BlockOf, R
<1>3. Len(BlockOf.data) \in Nat
  BY <1>2, Blocks
<1>4. /\ files'.pc = "block" /\ files'.i = files.i + 1 /\ files'.request = R
      /\ files'.offset = files.offset + 1 + Len(BlockOf.data)
  BY <1>1 DEF NextBlock, Handler, R
<1>5. R' = R /\ RoomFor' = RoomFor
  BY <1>4 DEF R, RoomFor, Loading
<1>6. RoomFor \in Nat /\ files.offset + 1 + Len(BlockOf.data) <= RoomFor
  BY FilesAssumption DEF RoomFor, Inside
<1>7. files'.offset \in 0..RoomFor
  BY <1>1, <1>3, <1>4, <1>6
<1>8. files'.i \in 0..(Len(R.blocks) + 1)
  BY <1>2, <1>4
<1>9. files'.i \in 0..(Len(R'.blocks) + 1) /\ files'.offset \in 0..RoomFor'
  BY <1>5, <1>7, <1>8
<1> QED
  BY <1>4, <1>9 DEF Room

(* A block that passes the checks and is not inside has a sum that wraps.  *)
LEMMA LetThrough ==
    ASSUME FilesInv, Room, files.pc \in {"block", "access"}, ~ NoMoreBlocks,
           Fits(BlockOf), ~ Inside(BlockOf)
    PROVE  files.offset + 1 + Len(BlockOf.data) >= Word
<1> DEFINE n == Len(BlockOf.data)
           o == files.offset
<1>1. n \in Nat /\ o \in Nat
  <2>1. R \in FileTCs /\ files.i \in 1..(Len(R.blocks) + 1) /\ files \in Handler
    BY DEF FilesInv, FilesShape, Busy, R
  <2>2. files.i \in DOMAIN R.blocks
    BY <2>1, Requests DEF NoMoreBlocks, R
  <2>3. BlockOf \in Block
    BY <2>1, <2>2, Requests DEF BlockOf, R
  <2> QED
    BY <2>1, <2>3, Blocks DEF Handler
<1>2. Word \in Nat \ {0} /\ TC_MAX \in Nat /\ TM_MAX \in Nat /\ LOAD_MAX \in Nat
  BY FilesAssumption
<1>a. /\ Loading => /\ Sum32(1, n) <= LOAD_MAX
                   /\ Sum32(o, Sum32(1, n)) <= TC_MAX
      /\ ~ Loading => Sum32(o + 1, n) <= TM_MAX
      /\ ~ (o + 1 + n <= RoomFor /\ (Loading => 1 + n <= LOAD_MAX))
  BY DEF Fits, Inside
<1> HIDE DEF n, o
<1>3. SUFFICES ASSUME o + 1 + n < Word
               PROVE  FALSE
  BY <1>1, <1>2 DEF n, o
<1>4. \A k \in 0..(Word - 1) : k % Word = k
  BY <1>2
<1>5. Sum32(1, n) = 1 + n /\ Sum32(o, 1 + n) = o + 1 + n /\ Sum32(o + 1, n) = o + 1 + n
  <2>1. /\ 1 + n \in 0..(Word - 1) /\ o + (1 + n) \in 0..(Word - 1)
        /\ (o + 1) + n \in 0..(Word - 1) /\ o + (1 + n) = o + 1 + n
    BY <1>1, <1>2, <1>3
  <2> QED
    BY <1>4, <2>1 DEF Sum32
<1> QED
  BY <1>a, <1>5 DEF RoomFor

LEMMA RoomStep == FilesInv /\ Room /\ [Next]_vars => Room'
<1> SUFFICES ASSUME FilesInv, Room, [Next]_vars
             PROVE  Room'
  OBVIOUS
<1>0. files \in Handler
  BY DEF FilesInv, FilesShape
<1>1. CASE UNCHANGED fileVars
  BY <1>1, RoomKept DEF fileVars, Room
<1>2. ASSUME NEW r \in FileTCs, ExecuteS6(r)
      PROVE  Room'
  <2>1. files' \in {[pc |-> "block", request |-> r, i |-> 1, offset |-> 0,
                     error |-> "NO_ERROR", dumped |-> <<>>],
                    [pc |-> "answer", request |-> r, i |-> 0, offset |-> 0,
                     error |-> "FAILED", dumped |-> <<>>]}
    BY <1>2 DEF ExecuteS6, FilesIdle
  <2>2. files'.pc \notin {"access", "outside"} /\ files'.i \in {0, 1} /\ files'.offset = 0 /\ R' = r
    BY <2>1 DEF R
  <2>3. Len(r.blocks) \in Nat
    BY Requests
  <2>4. RoomFor' \in Nat
    BY FilesAssumption DEF RoomFor
  <2>5. files'.i \in 0..(Len(R'.blocks) + 1)
    BY <2>2, <2>3
  <2>6. files'.offset \in 0..RoomFor'
    BY <2>2, <2>4
  <2> QED
    BY <2>2, <2>5, <2>6 DEF Room
<1>3. CASE EndOfBlocks \/ RefuseBlock \/ Seek \/ Close
  <2>1. /\ UNCHANGED <<files.i, files.offset, files.request>>
        /\ files'.pc = "access" /\ Loading => Inside(BlockOf)
        /\ files'.pc # "outside"
    BY <1>0, <1>3 DEF EndOfBlocks, RefuseBlock, Seek, Close, FilesFail, Handler
  <2> QED
    BY <2>1, RoomKept
<1>a. CASE Overrun
  <2>1. /\ files' = [files EXCEPT !.pc = "outside"] /\ files.pc \in {"block", "access"}
        /\ ~ NoMoreBlocks /\ Fits(BlockOf) /\ ~ Inside(BlockOf)
    BY <1>a DEF Overrun, FilesAt
  <2>2. UNCHANGED <<files.i, files.offset, files.request>> /\ files'.pc = "outside"
    BY <1>0, <2>1 DEF Handler
  <2> QED
    BY <2>1, <2>2, LetThrough, RoomKept
<1>4. CASE WriteBlock \/ ReadSection
  <2>1. files.pc = "access"
    BY <1>4 DEF WriteBlock, ReadSection, FilesAt
  <2>2. ((\E d : NextBlock(d)) /\ Inside(BlockOf)) \/ FilesFail("FAILED")
    BY <1>4, <2>1 DEF WriteBlock, ReadSection, Room
  <2>3. CASE FilesFail("FAILED")
    <3>1. UNCHANGED <<files.i, files.offset, files.request>> /\ files'.pc \notin {"access", "outside"}
      BY <1>0, <2>3 DEF FilesFail, Handler
    <3> QED
      BY <3>1, RoomKept
  <2> QED
    BY <2>1, <2>2, <2>3, RoomNextBlock
<1>5. CASE FilesReturn \/ Restart
  <2>1. files' = FilesIdle
    BY <1>5 DEF FilesReturn, Restart, FilesRestart
  <2>2. /\ files'.pc = "idle" /\ files'.i = 0 /\ files'.offset = 0 /\ R'.blocks = <<>>
        /\ RoomFor' = TM_MAX
    BY <2>1 DEF FilesIdle, NoFileTC, R, RoomFor, Loading
  <2>3. Len(<<>>) + 1 = 1 /\ TM_MAX \in Nat
    BY FilesAssumption
  <2>4. files'.i \in 0..(Len(R'.blocks) + 1) /\ files'.offset \in 0..RoomFor'
    BY <2>2, <2>3
  <2> QED
    BY <2>2, <2>4 DEF Room
<1> QED
  BY <1>1, <1>2, <1>3, <1>a, <1>4, <1>5 DEF Next, vars, FilesNext

LEMMA StatusStep == Status160 /\ [Next]_vars => Status160'
<1> SUFFICES ASSUME Status160, [Next]_vars
             PROVE  Status160'
  OBVIOUS
<1>1. CASE UNCHANGED sysVars
  BY <1>1 DEF sysVars, Status160
<1>2. CASE Pus160Next
  <2>1. CASE InitS160
    BY <2>1 DEF InitS160, Status160
  <2>2. CASE ~ InitS160
    <3>1. ASSUME NEW r \in SystemTCs, ExecuteS160(r)
          PROVE  UNCHANGED status160
      BY <3>1 DEF ExecuteS160
    <3>2. ReadContext \/ ReadContextFails => UNCHANGED status160
      BY DEF ReadContext, ReadContextFails
    <3>3. ReportContext \/ ReportUsage \/ TooManyTasks => UNCHANGED status160
      BY DEF ReportContext, ReportUsage, TooManyTasks
    <3>4. ChangeState \/ SelectSoftware \/ RefuseSelection => UNCHANGED status160
      BY DEF ChangeState, SelectSoftware, RefuseSelection
    <3>5. ResetError \/ RebootFails \/ SystemReturn => UNCHANGED status160
      BY DEF ResetError, RebootFails, SystemReturn
    <3>6. UNCHANGED status160
      BY <1>2, <2>2, <3>1, <3>2, <3>3, <3>4, <3>5 DEF Pus160Next
    <3> QED
      BY <3>6 DEF Status160
  <2> QED
    BY <2>1, <2>2
<1>3. CASE Restart
  <2>1. Pus160Restart
    BY <1>3 DEF Restart, Reboot, Crash
  <2> QED
    BY <2>1 DEF Pus160Restart, Status160
<1> QED
  BY <1>1, <1>2, <1>3 DEF Next, vars

(* The handlers of service 6 stay within their TC and their TM, but for a  *)
(* length whose sum with what comes before reaches 2^32, and no request    *)
(* and no failure of a device makes the context name a software that does  *)
(* not exist (ServicesTypeOK).                                             *)
THEOREM ServicesTypeCorrect == Spec => []ServicesTypeOK
<1>1. Init => Room /\ Status160
  BY IdleRoom DEF Init, FilesInit, Pus160Init, Status160
<1>2. FilesInv /\ ContextInv /\ Room /\ Status160 => ServicesTypeOK
  <2> SUFFICES ASSUME FilesInv, ContextInv, Room, Status160
               PROVE  ServicesTypeOK
    OBVIOUS
  <2>1. opened \subseteq File /\ notClosed \subseteq File
    <3>1. files.pc \in {"idle"} \union Busy
      BY DEF FilesInv, FilesShape, Handler
    <3>2. files.pc \in Busy => R.base \in File
      BY Requests DEF FilesInv, FilesShape, R
    <3> QED
      BY <3>1, <3>2 DEF FilesInv, Device, DevicesClosed, Busy, R
  <2>2. FilesTypeOK
    BY <2>1 DEF FilesTypeOK, FilesInv, FilesShape, Room, RoomFor, R
  <2>3. Pus160TypeOK
    BY DEF Pus160TypeOK, ContextInv, Shapes, Status160, Pc, Before
  <2> QED
    BY <2>2, <2>3 DEF ServicesTypeOK
<1>3. Spec => []ContextInv
  BY ContextStarts, ContextStep, PTL DEF Spec
<1> QED
  BY <1>1, <1>2, <1>3, RoomStep, StatusStep, FilesInvariant, PTL DEF Spec
================================================================================
