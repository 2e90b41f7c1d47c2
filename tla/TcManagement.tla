---------------------------- MODULE TcManagement ----------------------------
(***************************************************************************)
(* Routing and execution of telecommands                                   *)
(* (components/core/src/tc_management.c): the receiver task checks,        *)
(* acknowledges and forwards each telecommand to the buffer of a task,     *)
(* which executes it and reports (service 1, components/services/src/      *)
(* pus1.c).  The receiver, the executing tasks, the ground and the sender  *)
(* of telemetry interleave; one action is one access to a shared buffer or *)
(* signal.  The parsing of the RX buffer is in TcParser: here rx is the    *)
(* sequence of what is found in it.                                        *)
(***************************************************************************)
EXTENDS Naturals, Sequences, FiniteSets

CONSTANTS
    Task, NoTask,    \* the tasks that execute telecommands
    TC, NoTC,        \* the telecommands of the ground, each sent once
    Route,           \* routing table: the task of a TC, or NoTask
    Correct,         \* TCs that pass CheckTCValidity
    AckAcceptance,   \* TCs that ask for TM(1,1)
    AckCompletion,   \* TCs that ask for TM(1,7)
    Known,           \* TCs that are in the execution table of their task
    TMRequested,     \* TCs answered by a TM of their own
    Outcomes,        \* how the handler of each TC may end
    RxTypes,         \* what the receiver may read: "PERIPHERAL", "BUFFER"
    TcBufferSize, AckBufferSize, TmBufferSize,
    SentLimit        \* bound: telecommands the ground sends

ASSUME TcManagementAssumption ==
    /\ NoTask \notin Task /\ NoTC \notin TC
    /\ Route \in [TC -> Task \union {NoTask}]
    /\ Outcomes \in [TC -> (SUBSET {"success", "failure", "silent"}) \ {{}}]
    /\ RxTypes \subseteq {"PERIPHERAL", "BUFFER"}
    /\ {TcBufferSize, AckBufferSize, TmBufferSize} \subseteq Nat \ {0}
    /\ SentLimit \in Nat

VARIABLES
    rx, rx_type,             \* arrived and not read; one of RxTypes
    receiver,                \* the receiver task: pc, tc and what is pending
    executor,                \* the executing tasks: pc, tc, nb_message
    tc_buffer,               \* of each executing task
    rx_signal, tc_signal,    \* flags: a signal sent twice is one signal
    ack_buffer, tm_buffer,   \* to the sender of telemetry
    unsent, downlink,        \* what the ground did not send yet, and received
    forwarded, executed,     \* auxiliary: what each task was given and ran
    merged,                  \* auxiliary: a signal for a TC in a buffer came
                             \* while the receiver had one
    lost                     \* auxiliary: what found its buffer full

rxVars   == <<rx, rx_signal, receiver, merged>>
execVars == <<tc_signal, executor, executed>>
tmVars   == <<ack_buffer, tm_buffer, downlink>>
others   == <<rx_type, forwarded, lost>>
vars     == <<rxVars, execVars, tmVars, tc_buffer, unsent, others>>

(* A telecommand as received, or in the byte order of the processor. *)
Packet   == [id : TC \union {NoTC}, order : {"network", "host"}]
NoPacket == [id |-> NoTC, order |-> "network"]
Swap(p)  == [p EXCEPT !.order = IF @ = "host" THEN "network" ELSE "host"]
Received(tc) == [id |-> tc, order |-> "network"]

(* FormatTC. *)
FormatTC(p) == Swap(p)

(* The reports of service 1 carry the packet id and the sequence of the TC *)
(* given to them, swapped once.  "about" is auxiliary: the TC whose        *)
(* acceptance or execution was the occasion of the report.                 *)
Report == [subservice : {1, 2, 7, 8}, tc : Packet, about : TC]

(* Mutant: the packet id is copied in the order of the processor. *)
BuildS1Unswapped(subservice, p, tc) ==
    [subservice |-> subservice, tc |-> p, about |-> tc]

BuildS1(subservice, p, tc) ==
    [subservice |-> subservice, tc |-> Swap(p), about |-> tc]

Init ==
    /\ rx = <<>> /\ rx_signal = FALSE /\ merged = FALSE
    /\ rx_type \in RxTypes
    /\ receiver = [pc |-> "wait", tc |-> NoPacket, pending |-> 0]
    /\ tc_buffer = [t \in Task |-> <<>>]
    /\ tc_signal = [t \in Task |-> FALSE]
    /\ executor = [t \in Task |-> [pc |-> "wait", tc |-> NoPacket, nb_message |-> 0]]
    /\ ack_buffer = <<>> /\ tm_buffer = <<>>
    /\ unsent = TC /\ downlink = <<>>
    /\ forwarded = [t \in Task |-> <<>>] /\ lost = {}
    /\ executed = [t \in Task |-> <<>>]

(* What did not fit in the buffer it was written to. *)
Lose(what, tc) == lost' = lost \union {[what |-> what, tc |-> tc]}

(* DeviceWrite to the ACK buffer; its result is ignored. *)
Send(report) ==
    IF Len(ack_buffer) < AckBufferSize
      THEN ack_buffer' = Append(ack_buffer, report) /\ UNCHANGED lost
      ELSE UNCHANGED ack_buffer /\ IF report.subservice = 1 THEN UNCHANGED lost
                                   ELSE Lose("report", report.about)

-----------------------------------------------------------------------------
(* The ground, and the sender of telemetry. *)

GroundSends(tc) ==
    /\ tc \in unsent /\ Cardinality(TC \ unsent) < SentLimit
    /\ unsent' = unsent \ {tc}
    /\ rx' = Append(rx, tc)
    /\ rx_signal' = TRUE
    /\ merged' = (merged \/ (rx_signal /\ rx_type = "BUFFER"))
    /\ UNCHANGED <<receiver, execVars, tmVars, tc_buffer, others>>

SenderTakesReport ==
    /\ ack_buffer # <<>>
    /\ downlink' = Append(downlink, Head(ack_buffer))
    /\ ack_buffer' = Tail(ack_buffer)
    /\ UNCHANGED <<rxVars, execVars, tm_buffer, tc_buffer, unsent, others>>

SenderTakesTM ==
    /\ tm_buffer # <<>>
    /\ tm_buffer' = Tail(tm_buffer)
    /\ UNCHANGED <<rxVars, execVars, ack_buffer, downlink, tc_buffer, unsent, others>>

-----------------------------------------------------------------------------
(* ReceiveTC.  With a peripheral it loops over what had arrived when it    *)
(* looked, until something fails; with a buffer it reads one telecommand.  *)
(* A call that ended on an error is "left", one that ended well is "wait". *)

At(pc) == receiver.pc = pc

ReceiverGoes(pc, tc, pending) == receiver' = [pc |-> pc, tc |-> tc, pending |-> pending]

Proceed(pc, tc) == ReceiverGoes(pc, tc, receiver.pending - 1)
Leave           == ReceiverGoes("left", NoPacket, 0)

ReceiveTC ==
    /\ At("wait") \/ At("left")
    /\ rx_signal /\ rx_signal' = FALSE
    /\ IF rx_type = "PERIPHERAL" THEN ReceiverGoes("count", NoPacket, 0)
                                 ELSE ReceiverGoes("read", NoPacket, 1)
    /\ UNCHANGED <<rx, merged, execVars, tmVars, tc_buffer, unsent, others>>

(* The write index of the peripheral is read once. *)
CountReceived ==
    /\ At("count")
    /\ ReceiverGoes("read", NoPacket, Len(rx))
    /\ UNCHANGED <<rx, rx_signal, merged, execVars, tmVars, tc_buffer, unsent, others>>

Reading == At("read") /\ receiver.pending > 0 /\ rx # <<>>

NothingReceived ==
    /\ At("read") /\ ~ Reading
    /\ ReceiverGoes("wait", NoPacket, 0)
    /\ UNCHANGED <<rx, rx_signal, merged, execVars, tmVars, tc_buffer, unsent, others>>

(* An invalid TC: not formatted, and not even copied out by the parser.    *)
Rejected == IF rx_type = "PERIPHERAL" THEN receiver.tc ELSE Received(Head(rx))

RejectTC ==
    /\ Reading /\ Head(rx) \notin Correct
    /\ rx' = Tail(rx)
    /\ Send(BuildS1(2, Rejected, Head(rx)))
    /\ Proceed("read", receiver.tc)
    /\ UNCHANGED <<rx_signal, merged, execVars, tm_buffer, downlink, tc_buffer,
                   unsent, rx_type, forwarded>>

(* ProcessValidTC: no route, and ReceiveTC ends. *)
RefuseTC ==
    /\ Reading /\ Head(rx) \in Correct /\ Route[Head(rx)] = NoTask
    /\ rx' = Tail(rx)
    /\ Send(BuildS1(2, FormatTC(Received(Head(rx))), Head(rx)))
    /\ Leave
    /\ UNCHANGED <<rx_signal, merged, execVars, tm_buffer, downlink, tc_buffer,
                   unsent, rx_type, forwarded>>

(* ProcessValidTC: acknowledge first ... *)
AcceptTC ==
    /\ Reading /\ Head(rx) \in Correct /\ Route[Head(rx)] # NoTask
    /\ rx' = Tail(rx)
    /\ IF Head(rx) \in AckAcceptance
         THEN Send(BuildS1(1, FormatTC(Received(Head(rx))), Head(rx)))
         ELSE UNCHANGED <<ack_buffer, lost>>
    /\ Proceed("forward", FormatTC(Received(Head(rx))))
    /\ UNCHANGED <<rx_signal, merged, execVars, tm_buffer, downlink, tc_buffer,
                   unsent, rx_type, forwarded>>

Destination == Route[receiver.tc.id]

(* Mutant: a TC that was acknowledged and found its buffer full is refused. *)
ForwardTCOrRefuse ==
    /\ At("forward")
    /\ IF Len(tc_buffer[Destination]) < TcBufferSize
         THEN /\ tc_buffer' = [tc_buffer EXCEPT ![Destination] = Append(@, receiver.tc)]
              /\ forwarded' = [forwarded EXCEPT
                                 ![Destination] = Append(@, receiver.tc.id)]
              /\ ReceiverGoes("signal", receiver.tc, receiver.pending)
              /\ UNCHANGED <<lost, ack_buffer>>
         ELSE /\ Send(BuildS1(2, receiver.tc, receiver.tc.id)) /\ Leave
              /\ UNCHANGED <<tc_buffer, forwarded>>
    /\ UNCHANGED <<rx, rx_signal, merged, execVars, tm_buffer, downlink, unsent,
                   rx_type>>

(* ... then write to the task's buffer, which may be full ... *)
ForwardTC ==
    /\ At("forward")
    /\ IF Len(tc_buffer[Destination]) < TcBufferSize
         THEN /\ tc_buffer' = [tc_buffer EXCEPT ![Destination] = Append(@, receiver.tc)]
              /\ forwarded' = [forwarded EXCEPT
                                 ![Destination] = Append(@, receiver.tc.id)]
              /\ ReceiverGoes("signal", receiver.tc, receiver.pending)
              /\ UNCHANGED lost
         ELSE Leave /\ Lose("tc", receiver.tc.id) /\ UNCHANGED <<tc_buffer, forwarded>>
    /\ UNCHANGED <<rx, rx_signal, merged, execVars, tmVars, unsent, rx_type>>

(* ... and tell the task. *)
SignalTask ==
    /\ At("signal")
    /\ tc_signal' = [tc_signal EXCEPT ![Destination] = TRUE]
    /\ ReceiverGoes("read", receiver.tc, receiver.pending)
    /\ UNCHANGED <<rx, rx_signal, merged, executor, executed, tmVars, tc_buffer,
                   unsent, others>>

ReceiverStep == \/ ReceiveTC \/ CountReceived \/ NothingReceived
                \/ RejectTC \/ RefuseTC \/ AcceptTC \/ ForwardTC \/ SignalTask

-----------------------------------------------------------------------------
(* ExecuteTC by task t.  A call that ended on an error, whatever its       *)
(* buffer held, is "left"; one that ended well is "wait".                  *)

Doing(t, pc) == executor[t].pc = pc

TaskGoes(t, pc) ==
    executor' = [executor EXCEPT ![t] =
        IF pc \in {"wait", "left"} THEN [pc |-> pc, tc |-> NoPacket, nb_message |-> 0]
                                   ELSE [@ EXCEPT !.pc = pc]]

(* Mutant: the loop stops with one message left. *)
AgainButOne(t) == IF executor[t].nb_message > 1 THEN "read" ELSE "wait"

(* The loop goes on while the buffer had messages when it was looked at.   *)
Again(t) == IF executor[t].nb_message > 0 THEN "read" ELSE "wait"

ExecuteTC(t) ==
    /\ Doing(t, "wait") \/ Doing(t, "left")
    /\ tc_signal[t] /\ tc_signal' = [tc_signal EXCEPT ![t] = FALSE]
    /\ TaskGoes(t, "read")
    /\ UNCHANGED <<rxVars, executed, tmVars, tc_buffer, unsent, others>>

NothingToExecute(t) ==
    /\ Doing(t, "read") /\ tc_buffer[t] = <<>>
    /\ TaskGoes(t, "wait")
    /\ UNCHANGED <<rxVars, tc_signal, executed, tmVars, tc_buffer, unsent, others>>

(* Mutant: the telecommand stays in the buffer. *)
ReadTCAndKeep(t) ==
    /\ Doing(t, "read") /\ tc_buffer[t] # <<>>
    /\ executor' = [executor EXCEPT ![t].pc = "count", ![t].tc = Head(tc_buffer[t])]
    /\ UNCHANGED <<rxVars, tc_signal, executed, tmVars, tc_buffer, unsent, others>>

ReadTC(t) ==
    /\ Doing(t, "read") /\ tc_buffer[t] # <<>>
    /\ tc_buffer' = [tc_buffer EXCEPT ![t] = Tail(@)]
    /\ executor' = [executor EXCEPT ![t].pc = "count", ![t].tc = Head(tc_buffer[t])]
    /\ UNCHANGED <<rxVars, tc_signal, executed, tmVars, unsent, others>>

CountMessages(t) ==
    /\ Doing(t, "count")
    /\ executor' = [executor EXCEPT ![t].pc = "execute",
                                    ![t].nb_message = Len(tc_buffer[t])]
    /\ UNCHANGED <<rxVars, tc_signal, executed, tmVars, tc_buffer, unsent, others>>

(* Mutant: the result of the handler is not looked at. *)
AfterHandlerUnchecked(tc, outcome) == IF tc \in AckCompletion THEN "ack" ELSE "tm"

(* "silent" is a failure without an error code: BuildS1SS8 refuses it.     *)
AfterHandler(tc, outcome) ==
    IF outcome = "success" THEN IF tc \in AckCompletion THEN "ack" ELSE "tm"
    ELSE IF outcome = "silent" THEN "left" ELSE "nack"

Execute(t) ==
    /\ Doing(t, "execute")
    /\ LET tc == executor[t].tc.id
       IN \E outcome \in IF tc \in Known THEN Outcomes[tc] ELSE {"unknown"} :
             /\ executed' = [executed EXCEPT ![t] = Append(@, <<tc, outcome>>)]
             /\ TaskGoes(t, AfterHandler(tc, outcome))
    /\ UNCHANGED <<rxVars, tc_signal, tmVars, tc_buffer, unsent, others>>

(* Auxiliary: the TC of the last execution, as it was given to the task. *)
Subject(t) == forwarded[t][Len(executed[t])]

SendExecAckTM(t) ==
    /\ Doing(t, "ack")
    /\ Send(BuildS1(7, executor[t].tc, Subject(t)))
    /\ TaskGoes(t, "tm")
    /\ UNCHANGED <<rxVars, tc_signal, executed, tm_buffer, downlink, tc_buffer,
                   unsent, rx_type, forwarded>>

(* After a failure the call ends, whatever is left in the buffer. *)
SendExecNackTM(t) ==
    /\ Doing(t, "nack")
    /\ Send(BuildS1(8, executor[t].tc, Subject(t)))
    /\ TaskGoes(t, "left")
    /\ UNCHANGED <<rxVars, tc_signal, executed, tm_buffer, downlink, tc_buffer,
                   unsent, rx_type, forwarded>>

SendSpecificTM(t) ==
    /\ Doing(t, "tm")
    /\ IF executor[t].tc.id \notin TMRequested
         THEN TaskGoes(t, Again(t)) /\ UNCHANGED <<tm_buffer, lost>>
       ELSE IF Len(tm_buffer) < TmBufferSize
         THEN /\ TaskGoes(t, Again(t))
              /\ tm_buffer' = Append(tm_buffer, executor[t].tc.id) /\ UNCHANGED lost
       ELSE TaskGoes(t, "left") /\ UNCHANGED <<tm_buffer, lost>>
    /\ UNCHANGED <<rxVars, tc_signal, executed, ack_buffer, downlink, tc_buffer,
                   unsent, rx_type, forwarded>>

TaskStep(t) == \/ ExecuteTC(t) \/ NothingToExecute(t) \/ ReadTC(t)
               \/ CountMessages(t) \/ Execute(t)
               \/ SendExecAckTM(t) \/ SendExecNackTM(t) \/ SendSpecificTM(t)

SenderStep == SenderTakesReport \/ SenderTakesTM

Next == \/ \E tc \in TC : GroundSends(tc)
        \/ ReceiverStep
        \/ \E t \in Task : TaskStep(t)
        \/ SenderStep

(* Every task runs when it can. *)
Spec ==
    /\ Init /\ [][Next]_vars
    /\ WF_vars(ReceiverStep)
    /\ \A t \in Task : WF_vars(TaskStep(t))
    /\ WF_vars(SenderStep)

-----------------------------------------------------------------------------
(* Each task runs what it was given, in that order, once: what was         *)
(* forwarded to it is what it ran, then what it has in hand, then what is  *)
(* in its buffer.                                                          *)
InHand(t) == IF executor[t].pc \in {"count", "execute"}
               THEN <<executor[t].tc.id>> ELSE <<>>

Ran(t)     == [k \in 1 .. Len(executed[t]) |-> executed[t][k][1]]
Waiting(t) == [k \in 1 .. Len(tc_buffer[t]) |-> tc_buffer[t][k].id]

ExecutedAsForwarded ==
    \A t \in Task : forwarded[t] = Ran(t) \o InHand(t) \o Waiting(t)

(* The reports of service 1 in the order the ground gets them, and those   *)
(* that a TC occasioned, whatever TC they name (ReportsNameTheirTC).       *)
Reports == downlink \o ack_buffer
About(tc, subservices) ==
    {k \in 1 .. Len(Reports) : /\ Reports[k].about = tc
                               /\ Reports[k].subservice \in subservices}

(* The fate of a TC is never reported in contradictory ways: one report at *)
(* most of its acceptance, one at most of its execution, the acceptance    *)
(* first, though three tasks write them in the same buffer.                *)
ReportsConsistent ==
    \A tc \in TC :
       /\ Cardinality(About(tc, {1, 2})) <= 1
       /\ Cardinality(About(tc, {7, 8})) <= 1
       /\ \A j \in About(tc, {1, 2}), k \in About(tc, {7, 8}) : j < k

(* A TC reported as executed was run with success by its task, one         *)
(* reported as failed was not, and one that was refused is never run.      *)
Ended(tc, outcomes) ==
    \E t \in Task : \E k \in 1 .. Len(forwarded[t]) :
       /\ k <= Len(executed[t])
       /\ executed[t][k][1] = tc /\ executed[t][k][2] \in outcomes

ReportsTruthful ==
    \A tc \in TC : /\ About(tc, {7}) # {} => Ended(tc, {"success"})
                   /\ About(tc, {8}) # {} => Ended(tc, {"failure", "unknown"})
                   /\ About(tc, {2}) # {} =>
                         ~Ended(tc, {"success", "failure", "silent", "unknown"})

(* A report names the TC whose acceptance or execution it tells, with its  *)
(* packet id and sequence in the order of the wire, after the TC went      *)
(* through the receiver, a buffer and the hands of a task.  The only       *)
(* exception is the TM(1,2) of an incorrect TC.                            *)
ReportsNameTheirTC ==
    \A k \in 1 .. Len(Reports) :
       \/ Reports[k].tc = Received(Reports[k].about)
       \/ Reports[k].subservice = 2 /\ Reports[k].about \notin Correct

(* "Invalid TC, TC will be non-acknowledged": the TC that a TM(1,2) names  *)
(* is not given to a task.                                                 *)
RefusedNotForwarded ==
    \A k \in 1 .. Len(Reports), t \in Task :
       Reports[k].subservice = 2 =>
          \A j \in 1 .. Len(forwarded[t]) : forwarded[t][j] # Reports[k].tc.id

(* Left behind, and no signal to come back to it: in the buffer of its     *)
(* task, whose last call ended on an error; or in rx, by a receiver whose  *)
(* last call ended on an error, or that reads one telecommand per signal   *)
(* when two signals were one.                                              *)
LeftInBuffer(tc) ==
    \E t \in Task : /\ executor[t].pc = "left" /\ ~ tc_signal[t]
                    /\ \E k \in 1 .. Len(tc_buffer[t]) : tc_buffer[t][k].id = tc

LeftInRx(tc) ==
    /\ ~ rx_signal /\ \E k \in 1 .. Len(rx) : rx[k] = tc
    /\ \/ rx_type = "PERIPHERAL" /\ At("left")
       \/ rx_type = "BUFFER" /\ merged /\ (At("wait") \/ At("left"))

(* No TC waits for ever: the ground learns what became of each correct one *)
(* it sent, by a TM(1,2), (1,7) or (1,8), though the messages of a buffer  *)
(* are counted before the one in hand is executed and signals merge.  The  *)
(* only exceptions: there was no room for the TC or its report, its        *)
(* handler failed without an error code, it succeeded and did not ask for  *)
(* TM(1,7), or it is left behind until the next signal.                    *)
EveryTCReported ==
    \A tc \in Correct :
       tc \notin unsent
          ~> \/ \E k \in 1 .. Len(downlink) :
                   downlink[k].subservice \in {2, 7, 8} /\ downlink[k].about = tc
             \/ \E x \in lost : x.tc = tc
             \/ Ended(tc, {"silent"})
             \/ tc \notin AckCompletion /\ Ended(tc, {"success"})
             \/ LeftInBuffer(tc) \/ LeftInRx(tc)
=============================================================================
