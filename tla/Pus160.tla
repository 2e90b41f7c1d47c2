--------------------------------- MODULE Pus160 --------------------------------
(***************************************************************************)
(* Service 160, system (components/services/src/pus160.c): the software to *)
(* reboot to, the reboot itself, and reports of the context and of the use *)
(* of the system.  The context is a record that the system keeps through   *)
(* crashes and reboots; a TC changes it by reading it, modifying the copy  *)
(* and writing it back.  Any call of a system device may fail, and a write *)
(* that fails may have been done or not.                                   *)
(***************************************************************************)
EXTENDS Naturals

CONSTANTS
    SoftwareId,     \* identifiers of the software images
    FirstSoftware,  \* the one the satellite is delivered with
    NoSoftware,     \* the identifier in a cleared context
    SystemTCs       \* the TCs of the ground: subservice, whether its length
                    \* is the right one, software_state, software_id

State      == {"NOMINAL", "SAFE"}
AnyState   == State \union {"other"}
OfContext  == {17, 19, 21}     \* requests of reports of the context
OfUsage    == {33, 35, 37}     \* of the use of the system or of the tasks

SystemTC   == [subservice : {1, 2, 23} \union OfContext \union OfUsage,
               sized : BOOLEAN, state : AnyState, id : SoftwareId]
Context    == [state : AnyState, nominal : SoftwareId, safe : SoftwareId,
               error : BOOLEAN]

ASSUME Pus160Assumption ==
    /\ FirstSoftware \in SoftwareId /\ NoSoftware \notin SoftwareId
    /\ SystemTCs \subseteq SystemTC

VARIABLES
    context,      \* context_t: state, the two software ids, and whether the
                  \* error part holds the registers of a crash
    status160,    \* of pus160Env_t
    system,       \* the handler: pc, request, its copy of the context,
                  \* return_value = RET_SUCCESSFUL, error_code
    failed,       \* auxiliary: a device has failed in this call
    known         \* auxiliary: the values each part of the context may have
                  \* for who knows the requests and their answers only

sysVars == <<context, status160, system, failed, known>>

NoSystemTC == [subservice |-> 0, sized |-> FALSE, state |-> "other", id |-> NoSoftware]
Cleared    == [state |-> "other", nominal |-> NoSoftware, safe |-> NoSoftware,
               error |-> FALSE]
SystemIdle == [pc |-> "idle", request |-> NoSystemTC, copy |-> Cleared,
               ok |-> TRUE, error |-> "NO_ERROR"]

Pus160Init ==
    /\ context = [state |-> "NOMINAL", nominal |-> FirstSoftware, safe |-> FirstSoftware,
                  error |-> FALSE]
    /\ known = [part \in DOMAIN context |-> {context[part]}]
    /\ status160 = "PUS_NOT_INITIALIZED"
    /\ system = SystemIdle /\ failed = FALSE

SystemAt(pc) == system.pc = pc
Asked        == system.request

(* The copy is of no use any more. *)
LeaveFor(pc)   == [system EXCEPT !.pc = pc, !.copy = Cleared]
Answers(ok, e) == system' = [LeaveFor("answer") EXCEPT !.ok = ok, !.error = e]

Fails == failed' = TRUE
Works == UNCHANGED failed

-----------------------------------------------------------------------------

(* Four devices to open, any of which may fail; nothing keeps the flight   *)
(* software from initialising again a service that works.                  *)
InitS160 ==
    /\ SystemAt("idle")
    /\ status160' \in {"PUS_INITIALIZED", "PUS_ERROR"}
    /\ UNCHANGED <<context, system, failed, known>>

FirstStep(r) == IF r.subservice = 23 THEN "reset"
                ELSE IF r.subservice \in OfUsage THEN "usage" ELSE "read"

ExecuteS160(r) ==
    /\ SystemAt("idle")
    /\ system' = IF status160 = "PUS_INITIALIZED"
                 THEN [SystemIdle EXCEPT !.pc = FirstStep(r), !.request = r]
                 ELSE [SystemIdle EXCEPT !.pc = "answer", !.request = r,
                                         !.ok = FALSE, !.error = "UNAVAILABLE"]
    /\ UNCHANGED <<context, status160, failed, known>>

(* Where each handler goes once it has its copy. *)
AfterRead == IF Asked.subservice \in OfContext THEN "report"
             ELSE IF Asked.subservice = 1 THEN "change" ELSE "select"

ReadContext ==
    /\ SystemAt("read") /\ Works
    /\ system' = [system EXCEPT !.pc = AfterRead, !.copy = context]
    /\ UNCHANGED <<context, status160, known>>

(* Mutant: the cleared copy is written back when the read has failed. *)
CarryOn == system' = [system EXCEPT !.pc = AfterRead]

(* TC(160,1) reboots nevertheless; the others leave NO_ERROR. *)
GiveUp == IF Asked.subservice = 1 THEN system' = LeaveFor("reboot")
                                  ELSE Answers(FALSE, "NO_ERROR")

ReadContextFails ==
    /\ SystemAt("read") /\ Fails /\ GiveUp
    /\ UNCHANGED <<context, status160, known>>

(* BuildS160SS18, BuildS160SS20, BuildS160SS22: nothing can fail. *)
ReportContext ==
    /\ SystemAt("report") /\ Works
    /\ Answers(TRUE, "NO_ERROR")
    /\ UNCHANGED <<context, status160, known>>

(* Mutant: a wrong selection is refused without an error code. *)
NoErrorCode == "NO_ERROR"

UsageNotRead == "FAILED"

ReportUsage ==
    /\ SystemAt("usage")
    /\ \/ Works /\ Answers(TRUE, "NO_ERROR")
       \/ Fails /\ Answers(FALSE, UsageNotRead)
    /\ UNCHANGED <<context, status160, known>>

(* BuildS160SS38: nb_tasks is of the project. *)
TooManyTasks ==
    /\ SystemAt("usage") /\ Asked.subservice = 37 /\ Works
    /\ Answers(FALSE, "TM_BUILDING_FAILED")
    /\ UNCHANGED <<context, status160, known>>

(* The copy is written, or the write fails after or before its effect.     *)
Write(new)  == Works /\ context' = new
WriteFails(new) == Fails /\ context' \in {new, context}

(* Mutant: a TC of the wrong length reboots to the software it names. *)
StateUnchecked(r) == r.state

(* A TC of the wrong length reboots to the safe software; the state of one *)
(* of the right length is copied whatever it is.                           *)
StateToReboot(r) == IF r.sized THEN r.state ELSE "SAFE"

(* TC(160,1): the failure of the write is not looked at. *)
ChangeState ==
    /\ SystemAt("change")
    /\ LET new == [system.copy EXCEPT !.state = StateToReboot(Asked)]
       IN Write(new) \/ WriteFails(new)
    /\ system' = LeaveFor("reboot")
    /\ UNCHANGED <<status160, known>>

RightSelection(r) == r.sized /\ r.state \in State

Selected(r) == IF r.state = "NOMINAL" THEN [system.copy EXCEPT !.nominal = r.id]
                                      ELSE [system.copy EXCEPT !.safe = r.id]

(* TC(160,2). *)
SelectSoftware ==
    /\ SystemAt("select") /\ RightSelection(Asked)
    /\ \/ Write(Selected(Asked)) /\ Answers(TRUE, "NO_ERROR")
       \/ WriteFails(Selected(Asked)) /\ Answers(FALSE, "NO_ERROR")
    /\ UNCHANGED <<status160, known>>

WrongSelection == "FAILED"

RefuseSelection ==
    /\ SystemAt("select") /\ ~ RightSelection(Asked) /\ Works
    /\ Answers(FALSE, WrongSelection)
    /\ UNCHANGED <<context, status160, known>>

(* TC(160,23): the device of the context clears the error part. *)
ResetError ==
    LET new == [context EXCEPT !.error = FALSE]
    IN /\ SystemAt("reset")
       /\ \/ Write(new) /\ Answers(TRUE, "NO_ERROR")
          \/ WriteFails(new) /\ Answers(FALSE, "NO_ERROR")
       /\ UNCHANGED <<status160, known>>

RebootFails ==
    /\ SystemAt("reboot") /\ Fails
    /\ Answers(FALSE, "NO_ERROR")
    /\ UNCHANGED <<context, status160, known>>

-----------------------------------------------------------------------------

(* What a request asks of a part of the context: the values it may leave   *)
(* there, none if it does not name the part.                               *)
AskedOf(r, part) ==
    LET only(value, condition) == IF condition THEN {value} ELSE {}
        selects(state)         == r.subservice = 2 /\ r.sized /\ r.state = state
    IN UNION {only(IF r.sized THEN r.state ELSE "SAFE", part = "state" /\ r.subservice = 1),
              only(r.id, part = "nominal" /\ selects("NOMINAL")),
              only(r.id, part = "safe" /\ selects("SAFE")),
              only(FALSE, part = "error" /\ r.subservice = 23)}

(* What the ground learns: that all was done, that nothing was (an error   *)
(* code), or that it was or was not (no answer, or no error code).         *)
Learnt(r, done, refused) ==
    [part \in DOMAIN known |->
       IF refused \/ AskedOf(r, part) = {} THEN known[part]
       ELSE IF done THEN AskedOf(r, part) ELSE known[part] \union AskedOf(r, part)]

SystemReturn ==
    /\ SystemAt("answer")
    /\ system' = SystemIdle /\ failed' = FALSE
    /\ known' = Learnt(Asked, system.ok, system.error # "NO_ERROR")
    /\ UNCHANGED <<context, status160>>

(* The software starts anew, and only the context stays. *)
Pus160Restart == status160' = "PUS_NOT_INITIALIZED" /\ system' = SystemIdle /\ failed' = FALSE

Reboot ==
    /\ SystemAt("reboot") /\ Pus160Restart
    /\ known' = Learnt(Asked, ~ failed, FALSE)
    /\ UNCHANGED context

(* A crash fills the error part. *)
Crash ==
    /\ Pus160Restart
    /\ context' = [context EXCEPT !.error = TRUE]
    /\ known' = [Learnt(Asked, FALSE, FALSE) EXCEPT !.error = {TRUE}]

Pus160Next ==
    \/ InitS160 \/ \E r \in SystemTCs : ExecuteS160(r)
    \/ ReadContext \/ ReadContextFails \/ ReportContext \/ ReportUsage \/ TooManyTasks
    \/ ChangeState \/ SelectSoftware \/ RefuseSelection \/ ResetError
    \/ RebootFails \/ SystemReturn

-----------------------------------------------------------------------------

(* With the requests and their answers alone one knows what the context    *)
(* may hold: each part has the value of the last request for it that was   *)
(* executed, or of one that failed since, through crashes and reboots, and *)
(* no request disturbs a part it does not name.  The software that starts  *)
(* after a reboot without a failed device is the one asked for, and the    *)
(* safe one when the request was malformed.                                *)
ContextAsCommanded ==
    system.pc = "idle" => \A part \in DOMAIN context : context[part] \in known[part]

(* A TC answered as executed has had every device do its work, and one     *)
(* that fails with NO_ERROR, for which the caller sends no TM(1,8), has    *)
(* met a device that failed.                                               *)
SilentOnlyOnDeviceFailure ==
    system.pc = "answer" /\ system.error = "NO_ERROR" => (failed = ~ system.ok)

Pus160TypeOK ==
    /\ context \in Context
    /\ status160 \in {"PUS_NOT_INITIALIZED", "PUS_INITIALIZED", "PUS_ERROR"}
    /\ system.pc \in {"idle", "read", "report", "usage", "change", "select",
                      "reset", "reboot", "answer"}
    /\ system.request \in SystemTCs \union {NoSystemTC}
    /\ system.copy \in Context \union {Cleared}
=============================================================================
