--------------------------- MODULE TcManagementProofs ---------------------------
(***************************************************************************)
(* Routing and execution, for any tasks, telecommands, tables and buffers: *)
(* what is executed, and what the ground is told about it.                 *)
(***************************************************************************)
EXTENDS TcManagement, Integers, FiniteSetTheorems, TLAPS

Failure == {"failure", "unknown"}
Outcome == {"success", "silent"} \union Failure

Pc       == {"wait", "left", "read", "count", "execute", "ack", "nack", "tm"}
Executor == [pc : Pc, tc : Packet, nb_message : Nat]

ReceiverPc  == {"wait", "left", "count", "read", "forward", "signal"}
ReceiverSet == [pc : ReceiverPc, tc : Packet, pending : Nat]

(* A telecommand as ProcessValidTC forwards it. *)
HostOf(tc) == [id |-> tc, order |-> "host"]

Shapes ==
    /\ rx \in Seq(TC) /\ unsent \in SUBSET TC
    /\ receiver \in ReceiverSet
    /\ tc_buffer \in [Task -> Seq(Packet)] /\ forwarded \in [Task -> Seq(TC)]
    /\ executor \in [Task -> Executor]
    /\ executed \in [Task -> Seq(TC \X Outcome)]
    /\ ack_buffer \in Seq(Report) /\ downlink \in Seq(Report)

InRx(tc)        == \E k \in 1..Len(rx) : rx[k] = tc
GivenTo(t, tc)  == \E k \in 1..Len(forwarded[t]) : forwarded[t][k] = tc
ToForward(tc)   == receiver.pc = "forward" /\ receiver.tc.id = tc

(* A TC is in one place only on its way to its task. *)
OnTheWay ==
    /\ \A tc \in TC : InRx(tc) => tc \notin unsent
    /\ \A j, k \in 1..Len(rx) : j < k => rx[j] # rx[k]
    /\ \A tc \in TC : ToForward(tc) => tc \notin unsent /\ ~ InRx(tc)
    /\ receiver.pc = "forward" => /\ receiver.tc.id \in TC \intersect Correct
                                  /\ receiver.tc = HostOf(receiver.tc.id)
                                  /\ Destination \in Task
    /\ \A t \in Task, tc \in TC : GivenTo(t, tc) =>
         /\ tc \in Correct /\ Route[tc] = t
         /\ tc \notin unsent /\ ~ InRx(tc) /\ ~ ToForward(tc)
    /\ \A t \in Task : \A j, k \in 1..Len(forwarded[t]) :
         j < k => forwarded[t][j] # forwarded[t][k]

Holding(t) == executor[t].pc \in {"count", "execute"}
Held(t)    == IF Holding(t) THEN 1 ELSE 0
Done(t)    == Len(executed[t])

(* What task t was given is what it ran, has in hand, and has to read.     *)
InOrder(t) ==
    /\ Len(forwarded[t]) = Done(t) + Held(t) + Len(tc_buffer[t])
    /\ \A k \in 1..Done(t) : executed[t][k][1] = forwarded[t][k]
    /\ Holding(t) => executor[t].tc = HostOf(forwarded[t][Done(t) + 1])
    /\ \A k \in 1..Len(tc_buffer[t]) :
         tc_buffer[t][k] = HostOf(forwarded[t][Done(t) + Held(t) + k])

(* The report to send is about the last TC that was run. *)
ToReport(t) == executor[t].pc \in {"ack", "nack"}

JustRan(t) ==
    ToReport(t) => /\ Done(t) > 0
                   /\ executor[t].tc = HostOf(executed[t][Done(t)][1])
                   /\ executed[t][Done(t)][2] \in
                        IF executor[t].pc = "ack" THEN {"success"} ELSE Failure

(* What the reports say. *)
RanWith(tc, outcomes) ==
    \E t \in Task : \E k \in 1..Done(t) :
       executed[t][k][1] = tc /\ executed[t][k][2] \in outcomes

OfAcceptance(r) == r.subservice \in {1, 2}
OfExecution(r)  == r.subservice \in {7, 8}

Told(r) ==
    /\ r.subservice = 7 => RanWith(r.about, {"success"})
    /\ r.subservice = 8 => RanWith(r.about, Failure)
    /\ r.subservice = 2 => r.about \notin Correct \/ Route[r.about] = NoTask
    /\ r.tc = Received(r.about) \/ (r.subservice = 2 /\ r.about \notin Correct)
    /\ OfAcceptance(r) => r.about \notin unsent /\ ~ InRx(r.about)

(* Two reports about one TC, q before r. *)
Agree(q, r) ==
    q.about = r.about => /\ OfAcceptance(q) => ~ OfAcceptance(r)
                         /\ OfExecution(q) => ~ OfAcceptance(r) /\ ~ OfExecution(r)

Unreported(tc) ==
    \A k \in 1..Len(Reports) : OfExecution(Reports[k]) => Reports[k].about # tc

Reporting ==
    /\ \A k \in 1..Len(Reports) : Told(Reports[k])
    /\ \A j, k \in 1..Len(Reports) : j < k => Agree(Reports[j], Reports[k])
    /\ \A t \in Task : ToReport(t) => Unreported(executor[t].tc.id)

Running == \A t \in Task : InOrder(t) /\ JustRan(t)

ManagementInv == Shapes /\ OnTheWay /\ Running /\ Reporting

-----------------------------------------------------------------------------
(* Sequences, packets and reports. *)

LEMMA HeadTail ==
    ASSUME NEW S, NEW q \in Seq(S), q # <<>>
    PROVE  /\ Head(q) = q[1] /\ Head(q) \in S /\ Tail(q) \in Seq(S)
           /\ Len(q) \in Nat \ {0} /\ Len(Tail(q)) = Len(q) - 1
           /\ \A k \in 1..Len(Tail(q)) : Tail(q)[k] = q[k + 1]
OBVIOUS

LEMMA Appended ==
    ASSUME NEW S, NEW q \in Seq(S), NEW e \in S
    PROVE  /\ Append(q, e) \in Seq(S) /\ Len(Append(q, e)) = Len(q) + 1
           /\ \A k \in 1..Len(q) : Append(q, e)[k] = q[k]
           /\ Append(q, e)[Len(q) + 1] = e
           /\ Len(q) \in Nat
OBVIOUS

LEMMA ReportOf ==
    ASSUME NEW tc \in TC, NEW s \in {1, 2, 7, 8}
    PROVE  /\ FormatTC(Received(tc)) = HostOf(tc) /\ HostOf(tc) \in Packet
           /\ BuildS1(s, HostOf(tc), tc)
                = [subservice |-> s, tc |-> Received(tc), about |-> tc]
           /\ BuildS1(s, HostOf(tc), tc) \in Report
<1>1. FormatTC(Received(tc)) = HostOf(tc)
  BY DEF FormatTC, Received, Swap, HostOf
<1>2. Swap(HostOf(tc)) = Received(tc)
  BY DEF Swap, HostOf, Received
<1>3. Received(tc) \in Packet /\ HostOf(tc) \in Packet
  BY DEF Received, HostOf, Packet
<1> QED
  BY <1>1, <1>2, <1>3 DEF BuildS1, Report

LEMMA RefusalOf ==
    ASSUME NEW p \in Packet, NEW tc \in TC
    PROVE  /\ BuildS1(2, p, tc) \in Report
           /\ BuildS1(2, p, tc).subservice = 2 /\ BuildS1(2, p, tc).about = tc
BY DEF Swap, BuildS1, Packet, Report

LEMMA ReportsTyped == Shapes => Reports \in Seq(Report) /\ Len(Reports) \in Nat
BY DEF Shapes, Reports

(* A report that is sent is the last, or is lost. *)
LEMMA Sent ==
    ASSUME Shapes, NEW r \in Report, Send(r), UNCHANGED downlink
    PROVE  /\ ack_buffer' \in Seq(Report)
           /\ Reports' = Reports \/ Reports' = Append(Reports, r)
<1>1. CASE ack_buffer' = Append(ack_buffer, r)
  <2>1. ack_buffer' \in Seq(Report)
    BY <1>1, Appended DEF Shapes
  <2>2. downlink \o Append(ack_buffer, r) = Append(downlink \o ack_buffer, r)
    BY DEF Shapes
  <2> QED
    BY <1>1, <2>1, <2>2 DEF Reports
<1>2. CASE UNCHANGED ack_buffer
  BY <1>2 DEF Reports, Shapes
<1> QED
  BY <1>1, <1>2 DEF Send

-----------------------------------------------------------------------------
(* On the way. *)

LEMMA WayKept ==
    ASSUME OnTheWay, UNCHANGED <<rx, unsent, forwarded>>,
           receiver'.pc # "forward" \/ UNCHANGED receiver
    PROVE  OnTheWay'
BY DEF OnTheWay, InRx, GivenTo, ToForward, Destination

LEMMA RxGrows ==
    ASSUME Shapes, NEW tc \in TC, GroundSends(tc)
    PROVE  /\ rx' \in Seq(TC) /\ Len(rx) \in Nat
           /\ Len(rx') = Len(rx) + 1 /\ rx'[Len(rx) + 1] = tc
           /\ \A k \in 1..Len(rx) : rx'[k] = rx[k] /\ rx[k] \in TC
           /\ \A x \in TC \union {NoTC} : InRx(x)' => InRx(x) \/ x = tc
<1>1. rx \in Seq(TC) /\ Len(rx) \in Nat /\ rx' = Append(rx, tc)
  BY DEF Shapes, GroundSends
<1>2. /\ rx' \in Seq(TC) /\ Len(rx') = Len(rx) + 1 /\ rx'[Len(rx) + 1] = tc
      /\ \A k \in 1..Len(rx) : rx'[k] = rx[k] /\ rx[k] \in TC
  BY <1>1
<1>3. \A k \in 1..Len(rx') : k \in 1..Len(rx) \/ k = Len(rx) + 1
  BY <1>1, <1>2
<1> QED
  BY <1>1, <1>2, <1>3 DEF InRx

LEMMA WaySends ==
    ASSUME Shapes, OnTheWay, NEW tc \in TC, GroundSends(tc)
    PROVE  OnTheWay'
<1>1. /\ rx' = Append(rx, tc) /\ unsent' = unsent \ {tc} /\ tc \in unsent
      /\ UNCHANGED <<receiver, forwarded>>
  BY DEF GroundSends, others
<1>6. /\ Len(rx) \in Nat /\ Len(rx') = Len(rx) + 1 /\ rx'[Len(rx) + 1] = tc
      /\ \A k \in 1..Len(rx) : rx'[k] = rx[k] /\ rx[k] \in TC
  BY RxGrows
<1>2. \A x \in TC : InRx(x)' => InRx(x) \/ x = tc
  BY RxGrows
<1>3. \A j, k \in 1..Len(rx') : j < k => rx'[j] # rx'[k]
  <2> SUFFICES ASSUME NEW j \in 1..Len(rx'), NEW k \in 1..Len(rx'), j < k
               PROVE  rx'[j] # rx'[k]
    OBVIOUS
  <2>1. /\ j \in 1..Len(rx) /\ rx'[j] = rx[j] /\ rx[j] \in TC
        /\ (k \in 1..Len(rx) /\ rx'[k] = rx[k]) \/ rx'[k] = tc
    BY <1>6
  <2>2. InRx(rx[j]) /\ rx[j] # tc
    BY <1>1, <2>1 DEF InRx, OnTheWay
  <2> QED
    BY <2>1, <2>2 DEF OnTheWay
<1>4. \A t \in Task, x \in TC : GivenTo(t, x)' = GivenTo(t, x)
  BY <1>1 DEF GivenTo
<1>5. \A x \in TC : ToForward(x)' = ToForward(x)
  BY <1>1 DEF ToForward
<1> QED
  BY <1>1, <1>2, <1>3, <1>4, <1>5 DEF OnTheWay, Destination

(* What is taken from rx was there once. *)
LEMMA HeadTaken ==
    ASSUME Shapes, OnTheWay, rx # <<>>, rx' = Tail(rx)
    PROVE  /\ Len(rx) \in Nat \ {0} /\ Len(rx') = Len(rx) - 1
           /\ \A k \in 1..Len(rx') : rx'[k] = rx[k + 1]
           /\ rx' \in Seq(TC) /\ Head(rx) \in TC /\ Head(rx) \notin unsent
           /\ InRx(Head(rx)) /\ \A k \in 1..Len(rx') : rx'[k] # Head(rx)
           /\ \A x \in TC \union {NoTC} : InRx(x)' => InRx(x)
<1>1. /\ Len(rx) \in Nat \ {0} /\ Len(rx') = Len(rx) - 1
      /\ \A k \in 1..Len(rx') : rx'[k] = rx[k + 1]
      /\ rx' \in Seq(TC) /\ Head(rx) = rx[1] /\ Head(rx) \in TC
  BY HeadTail DEF Shapes
<1>2. InRx(Head(rx))
  BY <1>1 DEF InRx
<1>3. \A k \in 1..Len(rx') : k + 1 \in 1..Len(rx) /\ 1 \in 1..Len(rx) /\ 1 < k + 1
  BY <1>1
<1>4. \A k \in 1..Len(rx') : rx'[k] # Head(rx)
  BY <1>1, <1>3 DEF OnTheWay
<1>5. \A x \in TC \union {NoTC} : InRx(x)' => InRx(x)
  BY <1>1, <1>3 DEF InRx
<1> QED
  BY <1>1, <1>2, <1>4, <1>5 DEF OnTheWay

(* What is taken from rx goes to the receiver, or nowhere. *)
LEMMA WayTakes ==
    ASSUME Shapes, OnTheWay, rx # <<>>, rx' = Tail(rx), UNCHANGED <<unsent, forwarded>>,
           receiver'.pc = "forward" => /\ receiver'.tc = HostOf(Head(rx))
                                       /\ Head(rx) \in Correct /\ Route[Head(rx)] \in Task
    PROVE  OnTheWay'
<1>1. /\ Len(rx) \in Nat \ {0} /\ Len(rx') = Len(rx) - 1
      /\ \A k \in 1..Len(rx') : rx'[k] = rx[k + 1]
      /\ Head(rx) \in TC
  BY HeadTaken
<1>2. InRx(Head(rx)) /\ \A k \in 1..Len(rx') : rx'[k] # Head(rx)
  BY HeadTaken
<1>3. \A x \in TC : InRx(x)' => InRx(x)
  BY HeadTaken
<1>4. \A j, k \in 1..Len(rx') : j < k => rx'[j] # rx'[k]
  BY <1>1 DEF OnTheWay
<1>5. \A t \in Task, x \in TC : GivenTo(t, x)' = GivenTo(t, x)
  BY DEF GivenTo
<1>6. \A x \in TC : ToForward(x)' => x = Head(rx)
  BY DEF ToForward, HostOf
<1>7. \A x \in TC : InRx(x)' => x # Head(rx)
  BY <1>2 DEF InRx
<1>8. \A x \in TC : ToForward(x)' => x \notin unsent' /\ ~ InRx(x)'
  BY <1>1, <1>2, <1>6, <1>7 DEF OnTheWay
<1>9. receiver'.pc = "forward" => /\ receiver'.tc.id \in TC \intersect Correct
                                  /\ receiver'.tc = HostOf(receiver'.tc.id)
                                  /\ Destination' \in Task
  BY <1>1 DEF Destination, HostOf
<1>10. \A t \in Task, x \in TC : GivenTo(t, x)' =>
         /\ x \in Correct /\ Route[x] = t
         /\ x \notin unsent' /\ ~ InRx(x)' /\ ~ ToForward(x)'
  BY <1>2, <1>3, <1>5, <1>6 DEF OnTheWay
<1>11. \A x \in TC : InRx(x)' => x \notin unsent'
  BY <1>3 DEF OnTheWay
<1>12. \A t \in Task : \A j, k \in 1..Len(forwarded'[t]) :
         j < k => forwarded'[t][j] # forwarded'[t][k]
  BY DEF OnTheWay
<1> QED
  BY <1>4, <1>8, <1>9, <1>10, <1>11, <1>12 DEF OnTheWay

LEMMA WayForwards ==
    ASSUME Shapes, OnTheWay, ForwardTC
    PROVE  OnTheWay'
<1> DEFINE d == Destination
           x == receiver.tc.id
<1>1. /\ UNCHANGED <<rx, unsent>> /\ receiver.pc = "forward" /\ receiver'.pc # "forward"
      /\ d \in Task /\ x \in TC /\ x \in Correct /\ Route[x] = d
      /\ x \notin unsent /\ ~ InRx(x) /\ \A t \in Task : ~ GivenTo(t, x)
  BY DEF ForwardTC, At, Leave, ReceiverGoes, OnTheWay, ToForward, Destination
<1>2. CASE UNCHANGED forwarded
  BY <1>1, <1>2, WayKept
<1>3. CASE forwarded' = [forwarded EXCEPT ![d] = Append(@, x)]
  <2>5. /\ forwarded \in [Task -> Seq(TC)] /\ Len(forwarded[d]) \in Nat
        /\ \A t \in Task : t # d => forwarded'[t] = forwarded[t]
        /\ forwarded'[d] = Append(forwarded[d], x) /\ forwarded[d] \in Seq(TC)
    BY <1>1, <1>3 DEF Shapes
  <2>6. /\ Len(forwarded'[d]) = Len(forwarded[d]) + 1
        /\ forwarded'[d][Len(forwarded[d]) + 1] = x
        /\ \A k \in 1..Len(forwarded[d]) : forwarded'[d][k] = forwarded[d][k]
    BY <1>1, <2>5, Appended
  <2>1. \A t \in Task, tc \in TC : GivenTo(t, tc)' => GivenTo(t, tc) \/ (t = d /\ tc = x)
    <3>1. \A k \in 1..Len(forwarded'[d]) :
             k \in 1..Len(forwarded[d]) \/ forwarded'[d][k] = x
      BY <2>5, <2>6
    <3> QED
      BY <2>5, <2>6, <3>1 DEF GivenTo
  <2>2. \A tc \in TC : ~ ToForward(tc)'
    BY <1>1 DEF ToForward
  <2>3. \A t \in Task : \A j, k \in 1..Len(forwarded'[t]) :
          j < k => forwarded'[t][j] # forwarded'[t][k]
    <3> SUFFICES ASSUME NEW t \in Task, NEW j \in 1..Len(forwarded'[t]),
                        NEW k \in 1..Len(forwarded'[t]), j < k
                 PROVE  forwarded'[t][j] # forwarded'[t][k]
      OBVIOUS
    <3>1. CASE t # d
      BY <2>5, <3>1 DEF OnTheWay
    <3>2. CASE t = d
      <4>1. /\ j \in 1..Len(forwarded[d]) /\ forwarded'[d][j] = forwarded[d][j]
            /\ \/ k \in 1..Len(forwarded[d]) /\ forwarded'[d][k] = forwarded[d][k]
               \/ forwarded'[d][k] = x
        BY <2>5, <2>6, <3>2
      <4>2. forwarded[d][j] # x
        BY <1>1, <4>1 DEF GivenTo
      <4> QED
        BY <1>1, <3>2, <4>1, <4>2 DEF OnTheWay
    <3> QED
      BY <3>1, <3>2
  <2>4. \A tc \in TC : InRx(tc)' = InRx(tc)
    BY <1>1 DEF InRx
  <2> QED
    BY <1>1, <2>1, <2>2, <2>3, <2>4 DEF OnTheWay
<1> QED
  BY <1>2, <1>3 DEF ForwardTC

-----------------------------------------------------------------------------
(* The tasks. *)

OthersKept(t) ==
    \A u \in Task \ {t} : /\ forwarded'[u] = forwarded[u] /\ tc_buffer'[u] = tc_buffer[u]
                          /\ executor'[u] = executor[u] /\ executed'[u] = executed[u]

LEMMA RunningKept ==
    ASSUME Running, UNCHANGED <<forwarded, tc_buffer, executor, executed>>
    PROVE  Running'
BY DEF Running, InOrder, JustRan, ToReport, Held, Holding, Done

LEMMA RunningBut ==
    ASSUME Running, NEW t \in Task, OthersKept(t), InOrder(t)', JustRan(t)'
    PROVE  Running'
<1>1. ASSUME NEW u \in Task \ {t} PROVE InOrder(u)' /\ JustRan(u)'
  <2>1. /\ forwarded'[u] = forwarded[u] /\ tc_buffer'[u] = tc_buffer[u]
        /\ executor'[u] = executor[u] /\ executed'[u] = executed[u]
        /\ InOrder(u) /\ JustRan(u)
    BY DEF Running, OthersKept
  <2>2. /\ Holding(u)' = Holding(u) /\ Held(u)' = Held(u) /\ Done(u)' = Done(u)
        /\ ToReport(u)' = ToReport(u)
    BY <2>1 DEF Holding, Held, Done, ToReport
  <2> QED
    BY <2>1, <2>2 DEF InOrder, JustRan
<1> QED
  BY <1>1 DEF Running

LEMMA Goes ==
    ASSUME Shapes, NEW t \in Task, NEW pc \in Pc, TaskGoes(t, pc)
    PROVE  /\ executor' \in [Task -> Executor]
           /\ executor'[t].pc = pc
           /\ pc \notin {"wait", "left"} => executor'[t].tc = executor[t].tc
           /\ \A u \in Task \ {t} : executor'[u] = executor[u]
<1>1. executor \in [Task -> Executor]
  BY DEF Shapes
<1>2. CASE pc \in {"wait", "left"}
  <2>1. NoPacket \in Packet
    BY DEF NoPacket, Packet
  <2> QED
    BY <1>1, <1>2, <2>1 DEF TaskGoes, Executor, Pc
<1>3. CASE pc \notin {"wait", "left"}
  BY <1>1, <1>3 DEF TaskGoes, Executor
<1> QED
  BY <1>2, <1>3

(* Steps of t that touch no telecommand. *)
LEMMA RunningIdles ==
    ASSUME Shapes, Running, NEW t \in Task, UNCHANGED <<forwarded, tc_buffer, executed>>,
           NEW pc \in {"wait", "left", "read", "tm"}, TaskGoes(t, pc), ~ Holding(t)
    PROVE  Running'
<1>1. /\ executor'[t].pc = pc /\ \A u \in Task \ {t} : executor'[u] = executor[u]
  BY Goes DEF Pc
<1>2. InOrder(t)' /\ JustRan(t)'
  BY <1>1 DEF Running, InOrder, JustRan, ToReport, Held, Holding, Done
<1>3. OthersKept(t)
  BY <1>1 DEF OthersKept
<1> QED
  BY <1>2, <1>3, RunningBut

LEMMA RunningForwards ==
    ASSUME Shapes, OnTheWay, Running, ForwardTC
    PROVE  Running'
<1>0. PICK d \in Task, x \in TC : /\ d = Destination /\ x = receiver.tc.id
                                  /\ receiver.tc = HostOf(x)
  BY DEF ForwardTC, At, OnTheWay
<1>00. HostOf(x) \in Packet
  BY ReportOf
<1>1. UNCHANGED <<executor, executed>>
  BY DEF ForwardTC, execVars
<1>2. CASE UNCHANGED <<tc_buffer, forwarded>>
  BY <1>1, <1>2, RunningKept
<1>3. CASE /\ tc_buffer' = [tc_buffer EXCEPT ![d] = Append(@, HostOf(x))]
           /\ forwarded' = [forwarded EXCEPT ![d] = Append(@, x)]
  <2>1. /\ tc_buffer'[d] = Append(tc_buffer[d], HostOf(x)) /\ tc_buffer[d] \in Seq(Packet)
        /\ forwarded'[d] = Append(forwarded[d], x) /\ forwarded[d] \in Seq(TC)
        /\ OthersKept(d) /\ Done(d) \in Nat /\ Held(d) \in {0, 1}
    BY <1>1, <1>3 DEF Shapes, OthersKept, Done, Held
  <2> DEFINE n == Len(tc_buffer[d])
             m == Len(forwarded[d])
  <2>2. /\ n \in Nat /\ Len(tc_buffer'[d]) = n + 1 /\ tc_buffer'[d][n + 1] = HostOf(x)
        /\ \A k \in 1..n : tc_buffer'[d][k] = tc_buffer[d][k]
    BY <1>00, <2>1, Appended
  <2>3. /\ m \in Nat /\ Len(forwarded'[d]) = m + 1 /\ forwarded'[d][m + 1] = x
        /\ \A k \in 1..m : forwarded'[d][k] = forwarded[d][k]
    BY <1>1, <2>1, Appended
  <2>4. InOrder(d) /\ JustRan(d) /\ m = Done(d) + Held(d) + n
    BY <1>1 DEF Running, InOrder
  <2>5. Done(d)' = Done(d) /\ Held(d)' = Held(d) /\ Holding(d)' = Holding(d)
    BY <1>1 DEF Done, Held, Holding
  <2>6. \A k \in 1..(n + 1) : tc_buffer'[d][k] = HostOf(forwarded'[d][Done(d) + Held(d) + k])
    <3> SUFFICES ASSUME NEW k \in 1..(n + 1)
                 PROVE  tc_buffer'[d][k] = HostOf(forwarded'[d][Done(d) + Held(d) + k])
      OBVIOUS
    <3>1. CASE k = n + 1
      <4>1. Done(d) + Held(d) + k = m + 1
        BY <2>1, <2>2, <2>4, <3>1
      <4>2. tc_buffer'[d][k] = HostOf(x) /\ forwarded'[d][m + 1] = x
        BY <2>2, <2>3, <3>1
      <4> QED
        BY <4>1, <4>2
    <3>2. CASE k \in 1..n
      <4>1. Done(d) + Held(d) + k \in 1..m
        BY <2>1, <2>2, <2>3, <2>4, <3>2
      <4> QED
        BY <2>2, <2>3, <2>4, <3>2, <4>1 DEF InOrder
    <3> QED
      BY <2>2, <3>1, <3>2
  <2>7. \A k \in 1..Done(d) : executed[d][k][1] = forwarded'[d][k]
    <3>1. \A k \in 1..Done(d) : k \in 1..m
      BY <2>1, <2>2, <2>4
    <3> QED
      BY <2>3, <2>4, <3>1 DEF InOrder
  <2>8. Holding(d) => executor[d].tc = HostOf(forwarded'[d][Done(d) + 1])
    <3>1. Holding(d) => Done(d) + 1 \in 1..m
      BY <2>1, <2>2, <2>4 DEF Held
    <3> QED
      BY <2>3, <2>4, <3>1 DEF InOrder
  <2>9. InOrder(d)'
    <3>1. Len(forwarded'[d]) = Done(d) + Held(d) + Len(tc_buffer'[d])
      <4>1. Done(d) + Held(d) + (n + 1) = m + 1
        <5>1. \A a, b, c \in Nat : a + b + (c + 1) = (a + b + c) + 1
          OBVIOUS
        <5>2. Done(d) \in Nat /\ Held(d) \in Nat /\ n \in Nat
          BY <2>1, <2>2
        <5>3. m = Done(d) + Held(d) + n
          BY <2>4
        <5> QED
          BY <5>1, <5>2, <5>3
      <4>2. Len(forwarded'[d]) = m + 1 /\ Len(tc_buffer'[d]) = n + 1
        BY <2>2, <2>3
      <4> QED
        BY <4>1, <4>2
    <3>2. \A k \in 1..Len(tc_buffer'[d]) :
            tc_buffer'[d][k] = HostOf(forwarded'[d][Done(d) + Held(d) + k])
      BY <2>2, <2>6
    <3> QED
      BY <1>1, <2>5, <2>7, <2>8, <3>1, <3>2 DEF InOrder
  <2>10. JustRan(d)'
    BY <1>1, <2>4, <2>5 DEF JustRan, ToReport
  <2> QED
    BY <1>1, <2>1, <2>9, <2>10, RunningBut
<1> QED
  BY <1>0, <1>2, <1>3 DEF ForwardTC

LEMMA RunningReads ==
    ASSUME Shapes, Running, NEW t \in Task, ReadTC(t)
    PROVE  Running' /\ executor' \in [Task -> Executor] /\ tc_buffer' \in [Task -> Seq(Packet)]
<1>1. /\ executor[t].pc = "read" /\ UNCHANGED <<forwarded, executed>>
      /\ tc_buffer[t] # <<>> /\ tc_buffer[t] \in Seq(Packet)
      /\ tc_buffer' = [tc_buffer EXCEPT ![t] = Tail(@)]
      /\ executor' = [executor EXCEPT ![t].pc = "count", ![t].tc = Head(tc_buffer[t])]
  BY DEF ReadTC, Doing, others, Shapes
<1>2. /\ Len(tc_buffer[t]) \in Nat \ {0} /\ Head(tc_buffer[t]) = tc_buffer[t][1]
      /\ Head(tc_buffer[t]) \in Packet /\ Tail(tc_buffer[t]) \in Seq(Packet)
      /\ Len(Tail(tc_buffer[t])) = Len(tc_buffer[t]) - 1
      /\ \A k \in 1..Len(Tail(tc_buffer[t])) : Tail(tc_buffer[t])[k] = tc_buffer[t][k + 1]
  BY <1>1, HeadTail
<1>3. /\ executor' \in [Task -> Executor] /\ tc_buffer' \in [Task -> Seq(Packet)]
      /\ executor'[t].pc = "count" /\ executor'[t].tc = Head(tc_buffer[t])
      /\ tc_buffer'[t] = Tail(tc_buffer[t]) /\ OthersKept(t)
  BY <1>1, <1>2 DEF Shapes, Executor, Pc, OthersKept
<1>4. InOrder(t) /\ ~ Holding(t) /\ Held(t) = 0 /\ Done(t) \in Nat
  BY <1>1 DEF Running, Holding, Held, Done, Shapes
<1>5. /\ Holding(t)' /\ Held(t)' = 1 /\ Done(t)' = Done(t) /\ ~ ToReport(t)'
  BY <1>1, <1>3 DEF Holding, Held, Done, ToReport
<1>6. InOrder(t)'
  <2>1. Len(forwarded[t]) = Done(t) + 1 + Len(tc_buffer'[t])
    BY <1>2, <1>3, <1>4 DEF InOrder
  <2>2. executor'[t].tc = HostOf(forwarded[t][Done(t) + 1])
    <3>1. 1 \in 1..Len(tc_buffer[t]) /\ Done(t) + 0 + 1 = Done(t) + 1
      BY <1>2, <1>4
    <3>2. tc_buffer[t][1] = HostOf(forwarded[t][Done(t) + 0 + 1])
      BY <1>4, <3>1 DEF InOrder
    <3> QED
      BY <1>2, <1>3, <3>1, <3>2
  <2>3. \A k \in 1..Len(tc_buffer'[t]) : tc_buffer'[t][k] = HostOf(forwarded[t][Done(t) + 1 + k])
    <3> SUFFICES ASSUME NEW k \in 1..Len(tc_buffer'[t])
                 PROVE  tc_buffer'[t][k] = HostOf(forwarded[t][Done(t) + 1 + k])
      OBVIOUS
    <3>1. k + 1 \in 1..Len(tc_buffer[t]) /\ tc_buffer'[t][k] = tc_buffer[t][k + 1]
      BY <1>2, <1>3
    <3>2. tc_buffer[t][k + 1] = HostOf(forwarded[t][Done(t) + 0 + (k + 1)])
      BY <1>4, <3>1 DEF InOrder
    <3>3. Done(t) + 0 + (k + 1) = Done(t) + 1 + k
      BY <1>2, <1>3, <1>4
    <3> QED
      BY <3>1, <3>2, <3>3
  <2> QED
    BY <1>1, <1>4, <1>5, <2>1, <2>2, <2>3 DEF InOrder
<1> QED
  BY <1>3, <1>5, <1>6, RunningBut DEF JustRan

LEMMA RunningCounts ==
    ASSUME Shapes, Running, NEW t \in Task, CountMessages(t)
    PROVE  Running' /\ executor' \in [Task -> Executor]
<1>1. /\ executor[t].pc = "count" /\ UNCHANGED <<forwarded, executed, tc_buffer>>
      /\ executor' = [executor EXCEPT ![t].pc = "execute", ![t].nb_message = Len(tc_buffer[t])]
      /\ Len(tc_buffer[t]) \in Nat
  BY DEF CountMessages, Doing, others, Shapes
<1>2. /\ executor' \in [Task -> Executor] /\ executor'[t].pc = "execute"
      /\ executor'[t].tc = executor[t].tc /\ OthersKept(t)
  BY <1>1 DEF Shapes, Executor, Pc, OthersKept
<1>3. InOrder(t)' /\ JustRan(t)'
  BY <1>1, <1>2 DEF Running, InOrder, JustRan, ToReport, Held, Holding, Done
<1> QED
  BY <1>2, <1>3, RunningBut

(* What t ran last is what it had in hand. *)
LEMMA RunningExecutes ==
    ASSUME Shapes, Running, NEW t \in Task, Execute(t)
    PROVE  /\ Running' /\ executor' \in [Task -> Executor]
           /\ executed' \in [Task -> Seq(TC \X Outcome)]
           /\ UNCHANGED <<forwarded, tc_buffer>> /\ OthersKept(t)
           /\ Done(t)' = Done(t) + 1 /\ \A k \in 1..Done(t) : executed'[t][k] = executed[t][k]
           /\ ToReport(t)' => executor'[t].tc = executor[t].tc
           /\ executor[t].tc.id \in TC
<1> DEFINE x == executor[t].tc.id
<1>1. InOrder(t) /\ Holding(t) /\ Held(t) = 1
  BY DEF Running, Execute, Doing, Holding, Held
<1>2. /\ executed[t] \in Seq(TC \X Outcome) /\ Done(t) \in Nat
      /\ forwarded[t] \in Seq(TC) /\ Len(tc_buffer[t]) \in Nat
  BY DEF Shapes, Done
<1>3. /\ x \in TC /\ x = forwarded[t][Done(t) + 1] /\ executor[t].tc = HostOf(x)
  <2>1. /\ executor[t].tc = HostOf(forwarded[t][Done(t) + 1])
        /\ Done(t) + 1 \in 1..Len(forwarded[t])
    BY <1>1, <1>2 DEF InOrder
  <2> QED
    BY <1>2, <2>1 DEF HostOf
<1>4. PICK outcome \in Outcome :
        /\ executed' = [executed EXCEPT ![t] = Append(@, <<x, outcome>>)]
        /\ TaskGoes(t, AfterHandler(x, outcome))
  <2>1. (IF x \in Known THEN Outcomes[x] ELSE {"unknown"}) \subseteq Outcome
    BY <1>3, TcManagementAssumption DEF Outcome, Failure
  <2> QED
    BY <2>1 DEF Execute
<1>5. AfterHandler(x, outcome) \in Pc /\ ~ (AfterHandler(x, outcome) \in {"count", "execute"})
  BY DEF AfterHandler, Pc
<1>6. /\ executor' \in [Task -> Executor] /\ executor'[t].pc = AfterHandler(x, outcome)
      /\ executor'[t].pc \notin {"wait", "left"} => executor'[t].tc = executor[t].tc
      /\ \A u \in Task \ {t} : executor'[u] = executor[u]
  BY <1>4, <1>5, Goes
<1>7. <<x, outcome>> \in TC \X Outcome
  BY <1>3
<1>8. /\ executed' \in [Task -> Seq(TC \X Outcome)]
      /\ executed'[t] = Append(executed[t], <<x, outcome>>)
      /\ \A u \in Task \ {t} : executed'[u] = executed[u]
  BY <1>2, <1>4, <1>7, Appended DEF Shapes
<1>9. /\ Done(t)' = Done(t) + 1 /\ executed'[t][Done(t) + 1] = <<x, outcome>>
      /\ \A k \in 1..Done(t) : executed'[t][k] = executed[t][k]
  BY <1>2, <1>7, <1>8, Appended DEF Done
<1>10. UNCHANGED <<forwarded, tc_buffer>> /\ OthersKept(t)
  BY <1>6, <1>8 DEF Execute, others, OthersKept
<1>11. ~ Holding(t)' /\ Held(t)' = 0
  BY <1>5, <1>6 DEF Holding, Held
<1>12. InOrder(t)'
  <2>1. \A k \in 1..(Done(t) + 1) : executed'[t][k][1] = forwarded[t][k]
    <3>1. executed'[t][Done(t) + 1][1] = forwarded[t][Done(t) + 1]
      BY <1>3, <1>9
    <3>2. \A k \in 1..(Done(t) + 1) : k \in 1..Done(t) \/ k = Done(t) + 1
      BY <1>2
    <3>3. \A k \in 1..Done(t) : executed'[t][k][1] = forwarded[t][k]
      BY <1>1, <1>9 DEF InOrder
    <3> QED
      BY <3>1, <3>2, <3>3
  <2>2. Done(t) + Held(t) = Done(t)' + Held(t)'
    BY <1>1, <1>2, <1>9, <1>11
  <2> QED
    BY <1>1, <1>9, <1>10, <1>11, <2>1, <2>2 DEF InOrder
<1>13. JustRan(t)'
  <2> SUFFICES ASSUME ToReport(t)' PROVE JustRan(t)'
    BY DEF JustRan
  <2>1. executor'[t].tc = HostOf(x)
    BY <1>3, <1>6 DEF ToReport
  <2>2. outcome \in IF executor'[t].pc = "ack" THEN {"success"} ELSE Failure
    BY <1>6 DEF ToReport, AfterHandler, Outcome
  <2> QED
    BY <1>2, <1>9, <2>1, <2>2 DEF JustRan
<1>14. ToReport(t)' => executor'[t].tc = executor[t].tc
  BY <1>6 DEF ToReport
<1> QED
  BY <1>3, <1>6, <1>8, <1>9, <1>10, <1>12, <1>13, <1>14, RunningBut

-----------------------------------------------------------------------------
(* The reports. *)

(* Reports stay true: what was run stays so, and no TC comes back. *)
Older ==
    /\ unsent' \subseteq unsent
    /\ \A t \in Task : \A k \in 1..Done(t) :
         k \in 1..Done(t)' /\ executed'[t][k] = executed[t][k]
    /\ \A tc \in TC \union {NoTC} : InRx(tc)' => InRx(tc) \/ tc \in unsent

LEMMA OlderWhenRunIsKept ==
    ASSUME UNCHANGED executed, unsent' \subseteq unsent,
           \A tc \in TC \union {NoTC} : InRx(tc)' => InRx(tc) \/ tc \in unsent
    PROVE  Older
BY DEF Older, Done

LEMMA OlderWhenRxIsKept ==
    ASSUME UNCHANGED <<unsent, rx>>,
           \A t \in Task : \A k \in 1..Done(t) :
             k \in 1..Done(t)' /\ executed'[t][k] = executed[t][k]
    PROVE  Older
BY DEF Older, InRx

LEMMA StillTold ==
    ASSUME Older, NEW r \in Report, Told(r)
    PROVE  Told(r)'
<1>1. RanWith(r.about, {"success"}) => RanWith(r.about, {"success"})'
  BY DEF Older, RanWith
<1>2. RanWith(r.about, Failure) => RanWith(r.about, Failure)'
  BY DEF Older, RanWith
<1>3. InRx(r.about)' => InRx(r.about) \/ r.about \in unsent
  BY DEF Older, Report
<1>4. r.about \in unsent' => r.about \in unsent
  BY DEF Older
<1> QED
  BY <1>1, <1>2, <1>3, <1>4 DEF Told, OfAcceptance

LEMMA ReportingKept ==
    ASSUME Shapes, Reporting, Older, UNCHANGED Reports,
           \A t \in Task : ToReport(t)' => Unreported(executor'[t].tc.id)
    PROVE  Reporting'
<1>1. Reports \in Seq(Report) /\ \A k \in 1..Len(Reports) : Reports[k] \in Report
  BY ReportsTyped
<1>2. \A k \in 1..Len(Reports) : Told(Reports[k])'
  BY <1>1, StillTold DEF Reporting
<1>3. \A j, k \in 1..Len(Reports) : j < k => Agree(Reports[j], Reports[k])'
  BY DEF Reporting, Agree, OfAcceptance, OfExecution
<1>4. \A t \in Task : ToReport(t)' => Unreported(executor[t].tc.id)'
  BY DEF Unreported, OfExecution
<1> QED
  BY <1>2, <1>3, <1>4 DEF Reporting

LEMMA ReportingSent ==
    ASSUME Shapes, Reporting, Older, NEW r \in Report,
           Reports' = Reports \/ Reports' = Append(Reports, r),
           Told(r)', \A k \in 1..Len(Reports) : Agree(Reports[k], r),
           \A t \in Task : ToReport(t)' =>
              /\ Unreported(executor'[t].tc.id)
              /\ OfExecution(r) => r.about # executor'[t].tc.id
    PROVE  Reporting'
<1>1. CASE Reports' = Reports
  BY <1>1, ReportingKept
<1>2. CASE Reports' = Append(Reports, r)
  <2> DEFINE n == Len(Reports)
  <2>1. n \in Nat /\ \A k \in 1..n : Reports[k] \in Report
    BY ReportsTyped
  <2>2. /\ Len(Reports') = n + 1 /\ Reports'[n + 1] = r
        /\ \A k \in 1..n : Reports'[k] = Reports[k]
    BY <1>2, ReportsTyped, Appended
  <2>3. \A k \in 1..Len(Reports') : (k \in 1..n /\ Reports'[k] = Reports[k]) \/ Reports'[k] = r
    BY <2>1, <2>2
  <2>4. \A k \in 1..n : \E q \in Report : q = Reports[k] /\ Told(q)' /\ Agree(q, r)
    <3> SUFFICES ASSUME NEW k \in 1..n
                 PROVE  \E q \in Report : q = Reports[k] /\ Told(q)' /\ Agree(q, r)
      OBVIOUS
    <3>1. PICK q \in Report : q = Reports[k]
      BY <2>1
    <3>2. Told(q) /\ Agree(q, r)
      BY <3>1 DEF Reporting
    <3> QED
      BY <3>1, <3>2, StillTold
  <2>5. \A j, k \in 1..n : j < k =>
           \E p, q \in Report : p = Reports[j] /\ q = Reports[k] /\ Agree(p, q)
    <3> SUFFICES ASSUME NEW j \in 1..n, NEW k \in 1..n, j < k
                 PROVE  \E p, q \in Report : p = Reports[j] /\ q = Reports[k] /\ Agree(p, q)
      OBVIOUS
    <3>1. PICK p \in Report, q \in Report : p = Reports[j] /\ q = Reports[k]
      BY <2>1
    <3>2. Agree(p, q)
      BY <3>1 DEF Reporting
    <3> QED
      BY <3>1, <3>2
  <2>6. \A k \in 1..(n + 1) : \E q \in Report : q = Reports'[k] /\ Told(q)'
    <3>1. \A k \in 1..(n + 1) : k \in 1..n \/ k = n + 1
      BY <2>1
    <3> QED
      BY <2>2, <2>4, <3>1
  <2>7. \A j, k \in 1..(n + 1) : j < k =>
           \E p, q \in Report : p = Reports'[j] /\ q = Reports'[k] /\ Agree(p, q)
    <3>1. \A j, k \in 1..(n + 1) : j < k => j \in 1..n /\ (k \in 1..n \/ k = n + 1)
      BY <2>1
    <3> QED
      BY <2>2, <2>4, <2>5, <3>1
  <2>8. \A k \in 1..Len(Reports') : Told(Reports[k])'
    BY <2>2, <2>6
  <2>9. \A j, k \in 1..Len(Reports') : j < k => Agree(Reports[j], Reports[k])'
    BY <2>2, <2>7 DEF Agree, OfAcceptance, OfExecution
  <2>10. ASSUME NEW t \in Task, ToReport(t)' PROVE Unreported(executor[t].tc.id)'
    <3>1. /\ Unreported(executor'[t].tc.id)
          /\ OfExecution(r) => r.about # executor'[t].tc.id
      BY <2>10
    <3>2. \A k \in 1..(n + 1) : OfExecution(Reports'[k]) => Reports'[k].about # executor'[t].tc.id
      <4>1. \A k \in 1..n : Reports'[k] = Reports[k] /\
              (OfExecution(Reports[k]) => Reports[k].about # executor'[t].tc.id)
        BY <2>2, <3>1 DEF Unreported
      <4>2. \A k \in 1..(n + 1) : k \in 1..n \/ k = n + 1
        BY <2>1
      <4> QED
        BY <2>2, <3>1, <4>1, <4>2
    <3> QED
      BY <2>2, <3>2 DEF Unreported, OfExecution
  <2> QED
    BY <2>8, <2>9, <2>10 DEF Reporting
<1> QED
  BY <1>1, <1>2

-----------------------------------------------------------------------------
(* What was run and what was reported, against what is still to come. *)

LEMMA RanGiven ==
    ASSUME Shapes, OnTheWay, Running, NEW t \in Task, NEW k \in 1..Done(t)
    PROVE  /\ k \in 1..Len(forwarded[t]) /\ executed[t][k][1] = forwarded[t][k]
           /\ executed[t][k][1] \in TC \intersect Correct
           /\ Route[executed[t][k][1]] = t
           /\ executed[t][k][1] \notin unsent /\ ~ InRx(executed[t][k][1])
<1>1. InOrder(t) /\ Done(t) \in Nat /\ Held(t) \in Nat /\ Len(tc_buffer[t]) \in Nat
  BY DEF Running, Shapes, Done, Held
<1>2. k \in 1..Len(forwarded[t]) /\ executed[t][k][1] = forwarded[t][k]
  BY <1>1 DEF InOrder
<1>3. forwarded[t][k] \in TC
  BY <1>2 DEF Shapes
<1>4. GivenTo(t, forwarded[t][k])
  BY <1>2 DEF GivenTo
<1> QED
  BY <1>2, <1>3, <1>4 DEF OnTheWay

LEMMA RanOnRoute ==
    ASSUME Shapes, OnTheWay, Running, NEW x \in TC, NEW outcomes, RanWith(x, outcomes)
    PROVE  /\ x \in Correct /\ Route[x] \in Task /\ x \notin unsent /\ ~ InRx(x)
           /\ \E k \in 1..Done(Route[x]) : executed[Route[x]][k][1] = x
<1>1. PICK t \in Task : \E k \in 1..Done(t) : executed[t][k][1] = x
  BY DEF RanWith
<1>2. PICK k \in 1..Done(t) : executed[t][k][1] = x
  BY <1>1
<1>3. Route[x] = t /\ x \in Correct /\ x \notin unsent /\ ~ InRx(x)
  BY <1>2, RanGiven
<1> QED
  BY <1>2, <1>3

LEMMA ReportRan ==
    ASSUME Shapes, Reporting, NEW k \in 1..Len(Reports), OfExecution(Reports[k])
    PROVE  \/ RanWith(Reports[k].about, {"success"})
           \/ RanWith(Reports[k].about, Failure)
BY DEF Reporting, Told, OfExecution

(* Nothing is reported of a TC that is still to be read. *)
LEMMA NothingYet ==
    ASSUME Shapes, OnTheWay, Running, Reporting, NEW x \in TC, InRx(x),
           NEW k \in 1..Len(Reports), Reports[k].about = x
    PROVE  ~ OfAcceptance(Reports[k]) /\ ~ OfExecution(Reports[k])
<1>1. ~ OfAcceptance(Reports[k])
  BY DEF Reporting, Told
<1>2. ~ OfExecution(Reports[k])
  <2> SUFFICES ASSUME OfExecution(Reports[k]) PROVE FALSE
    OBVIOUS
  <2>1. RanWith(x, {"success"}) \/ RanWith(x, Failure)
    BY ReportRan
  <2> QED
    BY <2>1, RanOnRoute
<1> QED
  BY <1>1, <1>2

(* What a task has in hand, and what it has to report. *)
LEMMA InHandGiven ==
    ASSUME Shapes, OnTheWay, Running, NEW t \in Task, Holding(t)
    PROVE  /\ executor[t].tc.id \in TC /\ Route[executor[t].tc.id] = t
           /\ \A k \in 1..Done(t) : executed[t][k][1] # executor[t].tc.id
<1>1. /\ InOrder(t) /\ Done(t) \in Nat /\ Held(t) = 1 /\ Len(tc_buffer[t]) \in Nat
      /\ forwarded[t] \in Seq(TC)
  BY DEF Running, Shapes, Done, Held
<1>2. Done(t) + 1 \in 1..Len(forwarded[t]) /\ executor[t].tc.id = forwarded[t][Done(t) + 1]
  BY <1>1 DEF InOrder, HostOf
<1>3. executor[t].tc.id \in TC
  BY <1>1, <1>2
<1>4. Route[executor[t].tc.id] = t
  BY <1>2, <1>3 DEF OnTheWay, GivenTo
<1>5. ASSUME NEW k \in 1..Done(t) PROVE executed[t][k][1] # executor[t].tc.id
  <2>1. k < Done(t) + 1 /\ k \in 1..Len(forwarded[t])
    BY <1>1, <1>2
  <2>2. executed[t][k][1] = forwarded[t][k]
    BY <1>1 DEF InOrder
  <2> QED
    BY <1>2, <2>1, <2>2 DEF OnTheWay
<1> QED
  BY <1>3, <1>4, <1>5

LEMMA NotRunNotReported ==
    ASSUME Shapes, OnTheWay, Running, Reporting, NEW t \in Task, Holding(t)
    PROVE  Unreported(executor[t].tc.id)
<1>1. /\ executor[t].tc.id \in TC /\ Route[executor[t].tc.id] = t
      /\ \A k \in 1..Done(t) : executed[t][k][1] # executor[t].tc.id
  BY InHandGiven
<1> SUFFICES ASSUME NEW k \in 1..Len(Reports), OfExecution(Reports[k]),
                    Reports[k].about = executor[t].tc.id
             PROVE  FALSE
  BY DEF Unreported
<1>2. RanWith(executor[t].tc.id, {"success"}) \/ RanWith(executor[t].tc.id, Failure)
  BY ReportRan
<1>3. \E k0 \in 1..Done(t) : executed[t][k0][1] = executor[t].tc.id
  BY <1>1, <1>2, RanOnRoute
<1> QED
  BY <1>1, <1>3

LEMMA ToReportGiven ==
    ASSUME Shapes, OnTheWay, Running, NEW t \in Task, ToReport(t)
    PROVE  /\ executor[t].tc.id \in TC /\ Route[executor[t].tc.id] = t
           /\ executor[t].tc = HostOf(executor[t].tc.id)
           /\ Subject(t) = executor[t].tc.id
           /\ executor[t].pc = "ack" => RanWith(executor[t].tc.id, {"success"})
           /\ executor[t].pc = "nack" => RanWith(executor[t].tc.id, Failure)
<1> DEFINE x == executed[t][Done(t)][1]
<1>1. /\ Done(t) > 0 /\ Done(t) \in Nat /\ executor[t].tc = HostOf(x)
      /\ executed[t][Done(t)][2] \in IF executor[t].pc = "ack" THEN {"success"} ELSE Failure
  BY DEF Running, JustRan, Shapes, Done
<1>2. Done(t) \in 1..Done(t)
  BY <1>1
<1>3. x \in TC /\ Route[x] = t /\ x = forwarded[t][Done(t)]
  BY <1>1, <1>2, RanGiven
<1>4. executor[t].tc.id = x /\ Subject(t) = x
  BY <1>1, <1>3 DEF HostOf, Subject, Done
<1> QED
  BY <1>1, <1>2, <1>3, <1>4 DEF RanWith

-----------------------------------------------------------------------------
(* One lemma per group of actions. *)

LEMMA ManagementStart == Init => ManagementInv
<1> SUFFICES ASSUME Init PROVE ManagementInv
  OBVIOUS
<1>1. Shapes
  <2>1. NoPacket \in Packet
    BY DEF NoPacket, Packet
  <2>2. executor \in [Task -> Executor]
    BY <2>1 DEF Init, Executor, Pc
  <2> QED
    BY <2>1, <2>2 DEF Init, Shapes, ReceiverSet, ReceiverPc
<1>2. OnTheWay
  BY DEF Init, OnTheWay, InRx, GivenTo, ToForward
<1>3. Running
  BY DEF Init, Running, InOrder, JustRan, ToReport, Held, Holding, Done
<1>4. Reporting
  <2>1. Len(Reports) = 0 /\ \A t \in Task : ~ ToReport(t)
    BY DEF Init, Reports, ToReport
  <2> QED
    BY <2>1 DEF Reporting
<1> QED
  BY <1>1, <1>2, <1>3, <1>4 DEF ManagementInv

LEMMA GroundStep ==
    ASSUME ManagementInv, NEW tc \in TC, GroundSends(tc)
    PROVE  ManagementInv'
<1>1. Shapes /\ OnTheWay /\ Running /\ Reporting
  BY DEF ManagementInv
<1>2. /\ UNCHANGED <<receiver, tc_buffer, forwarded, executor, executed>>
      /\ UNCHANGED <<ack_buffer, downlink>>
      /\ unsent' = unsent \ {tc} /\ tc \in unsent
  BY DEF GroundSends, execVars, tmVars, others
<1>3. rx' \in Seq(TC) /\ \A x \in TC \union {NoTC} : InRx(x)' => InRx(x) \/ x \in unsent
  BY <1>1, <1>2, RxGrows
<1>4. Shapes'
  BY <1>1, <1>2, <1>3 DEF Shapes
<1>5. OnTheWay' /\ Running'
  BY <1>1, <1>2, WaySends, RunningKept
<1>6. Older
  BY <1>2, <1>3, OlderWhenRunIsKept
<1>7. UNCHANGED Reports /\ \A t \in Task : ToReport(t)' => Unreported(executor'[t].tc.id)
  BY <1>1, <1>2 DEF Reports, Reporting, ToReport
<1> QED
  BY <1>1, <1>4, <1>5, <1>6, <1>7, ReportingKept DEF ManagementInv

(* Steps that leave alone all that the invariant speaks of but Reporting's *)
(* two buffers and the receiver.                                           *)
LEMMA QuietStep ==
    ASSUME ManagementInv, UNCHANGED Reports,
           UNCHANGED <<rx, unsent, tc_buffer, forwarded, executor, executed>>,
           ack_buffer' \in Seq(Report), downlink' \in Seq(Report),
           \/ UNCHANGED receiver
           \/ receiver' \in ReceiverSet /\ receiver'.pc # "forward"
    PROVE  ManagementInv'
<1>1. Shapes /\ OnTheWay /\ Running /\ Reporting
  BY DEF ManagementInv
<1>2. Shapes'
  BY <1>1 DEF Shapes
<1>3. receiver'.pc # "forward" \/ UNCHANGED receiver
  OBVIOUS
<1>4. OnTheWay' /\ Running'
  BY <1>1, <1>3, WayKept, RunningKept
<1>5. Older
  BY OlderWhenRxIsKept DEF Done
<1>6. \A t \in Task : ToReport(t)' => Unreported(executor'[t].tc.id)
  BY <1>1 DEF Reporting, ToReport
<1> QED
  BY <1>1, <1>2, <1>4, <1>5, <1>6, ReportingKept DEF ManagementInv

LEMMA SenderSteps ==
    ASSUME ManagementInv, SenderStep
    PROVE  ManagementInv'
<1>1. /\ ack_buffer \in Seq(Report) /\ downlink \in Seq(Report)
      /\ UNCHANGED <<rx, receiver, unsent, tc_buffer, forwarded, executor, executed>>
  BY DEF ManagementInv, Shapes, SenderStep, SenderTakesReport, SenderTakesTM, rxVars,
         execVars, others
<1>2. CASE SenderTakesReport
  <2>1. /\ ack_buffer # <<>> /\ downlink' = Append(downlink, Head(ack_buffer))
        /\ ack_buffer' = Tail(ack_buffer)
    BY <1>2 DEF SenderTakesReport
  <2>2. /\ Head(ack_buffer) \in Report /\ Tail(ack_buffer) \in Seq(Report)
        /\ Append(downlink, Head(ack_buffer)) \in Seq(Report)
    BY <1>1, <2>1
  <2>3. Append(downlink, Head(ack_buffer)) \o Tail(ack_buffer) = downlink \o ack_buffer
    BY <1>1, <2>1
  <2> QED
    BY <1>1, <2>1, <2>2, <2>3, QuietStep DEF Reports
<1>3. CASE SenderTakesTM
  BY <1>1, <1>3, QuietStep DEF SenderTakesTM, Reports
<1> QED
  BY <1>2, <1>3 DEF SenderStep

(* The receiver takes a TC from rx and sends a report of it, or none. *)
LEMMA TakenStep ==
    ASSUME ManagementInv, rx # <<>>, rx' = Tail(rx),
           UNCHANGED <<unsent, tc_buffer, forwarded, executor, executed, downlink>>,
           receiver' \in ReceiverSet,
           receiver'.pc = "forward" => /\ receiver'.tc = HostOf(Head(rx))
                                       /\ Head(rx) \in Correct /\ Route[Head(rx)] \in Task,
           \/ UNCHANGED ack_buffer
           \/ \E r \in Report : /\ Send(r) /\ Told(r)' /\ r.subservice \in {1, 2}
                                /\ r.about = Head(rx)
    PROVE  ManagementInv'
<1>1. Shapes /\ OnTheWay /\ Running /\ Reporting
  BY DEF ManagementInv
<1>2. /\ rx' \in Seq(TC) /\ Head(rx) \in TC /\ InRx(Head(rx))
      /\ \A x \in TC \union {NoTC} : InRx(x)' => InRx(x)
  BY <1>1, HeadTaken
<1>3. OnTheWay' /\ Running'
  BY <1>1, WayTakes, RunningKept
<1>4. Older
  BY <1>2, OlderWhenRunIsKept
<1>5. \A t \in Task : ToReport(t)' => Unreported(executor'[t].tc.id)
  BY <1>1 DEF Reporting, ToReport
<1>6. CASE UNCHANGED ack_buffer
  <2>1. Shapes'
    BY <1>1, <1>2, <1>6 DEF Shapes
  <2>2. UNCHANGED Reports
    BY <1>6 DEF Reports
  <2> QED
    BY <1>1, <1>3, <1>4, <1>5, <2>1, <2>2, ReportingKept DEF ManagementInv
<1>7. ASSUME NEW r \in Report, Send(r), Told(r)', r.subservice \in {1, 2},
             r.about = Head(rx)
      PROVE  ManagementInv'
  <2>1. /\ ack_buffer' \in Seq(Report)
        /\ Reports' = Reports \/ Reports' = Append(Reports, r)
    BY <1>1, <1>7, Sent
  <2>2. Shapes'
    BY <1>1, <1>2, <2>1 DEF Shapes
  <2>3. ~ OfExecution(r)
    BY <1>7 DEF OfExecution
  <2>4. ASSUME NEW k \in 1..Len(Reports) PROVE Agree(Reports[k], r)
    <3>1. r.about = Head(rx) /\ Reports[k].about = Head(rx) =>
             ~ OfAcceptance(Reports[k]) /\ ~ OfExecution(Reports[k])
      BY <1>1, <1>2, NothingYet
    <3> QED
      BY <1>7, <2>3, <3>1 DEF Agree
  <2> QED
    BY <1>1, <1>3, <1>4, <1>5, <1>7, <2>1, <2>2, <2>3, <2>4, ReportingSent DEF ManagementInv
<1> QED
  BY <1>6, <1>7

LEMMA Taken ==
    ASSUME Shapes, OnTheWay, Reading
    PROVE  /\ rx # <<>> /\ receiver.pc = "read" /\ receiver.tc \in Packet
           /\ receiver.pending - 1 \in Nat
           /\ Head(rx) \in TC /\ Head(rx) \notin unsent
           /\ rx' = Tail(rx) => \A k \in 1..Len(rx') : rx'[k] # Head(rx)
<1>1. /\ rx # <<>> /\ receiver.pc = "read" /\ receiver.tc \in Packet
      /\ receiver.pending - 1 \in Nat
  BY DEF Reading, At, Shapes, ReceiverSet
<1>2. Head(rx) \in TC /\ Head(rx) = rx[1] /\ 1 \in 1..Len(rx)
  BY <1>1, HeadTail DEF Shapes
<1>3. Head(rx) \notin unsent
  BY <1>2 DEF OnTheWay, InRx
<1>4. rx' = Tail(rx) => \A k \in 1..Len(rx') : rx'[k] # Head(rx)
  BY <1>1, HeadTaken
<1> QED
  BY <1>1, <1>2, <1>3, <1>4

LEMMA RejectStep ==
    ASSUME ManagementInv, RejectTC
    PROVE  ManagementInv'
<1>1. Shapes /\ OnTheWay
  BY DEF ManagementInv
<1>2. /\ Reading /\ rx' = Tail(rx) /\ Head(rx) \notin Correct
      /\ Send(BuildS1(2, Rejected, Head(rx)))
      /\ UNCHANGED <<unsent, tc_buffer, forwarded, executor, executed, downlink>>
      /\ receiver' = [pc |-> "read", tc |-> receiver.tc, pending |-> receiver.pending - 1]
  BY DEF RejectTC, execVars, Proceed, ReceiverGoes
<1>3. PICK x \in TC : x = Head(rx)
  BY <1>1, <1>2, Taken
<1>4. rx # <<>> /\ x \notin unsent' /\ ~ InRx(x)'
  BY <1>1, <1>2, <1>3, Taken DEF InRx
<1>5. receiver' \in ReceiverSet /\ receiver'.pc # "forward"
  BY <1>1, <1>2, Taken DEF ReceiverSet, ReceiverPc
<1>6. Rejected \in Packet
  BY <1>1, <1>2, <1>3, Taken DEF Rejected, Received, Packet
<1>7. PICK r \in Report : /\ r = BuildS1(2, Rejected, x)
                          /\ r.subservice = 2 /\ r.about = x
  BY <1>6, RefusalOf
<1>8. Told(r)'
  BY <1>2, <1>3, <1>4, <1>7 DEF Told, OfAcceptance
<1> QED
  BY <1>2, <1>3, <1>4, <1>5, <1>7, <1>8, TakenStep

LEMMA RefuseStep ==
    ASSUME ManagementInv, RefuseTC
    PROVE  ManagementInv'
<1>1. Shapes /\ OnTheWay
  BY DEF ManagementInv
<1>2. /\ Reading /\ rx' = Tail(rx) /\ Route[Head(rx)] = NoTask
      /\ Send(BuildS1(2, FormatTC(Received(Head(rx))), Head(rx)))
      /\ UNCHANGED <<unsent, tc_buffer, forwarded, executor, executed, downlink>>
      /\ receiver' = [pc |-> "left", tc |-> NoPacket, pending |-> 0]
  BY DEF RefuseTC, execVars, Leave, ReceiverGoes
<1>3. PICK x \in TC : x = Head(rx)
  BY <1>1, <1>2, Taken
<1>4. rx # <<>> /\ x \notin unsent' /\ ~ InRx(x)'
  BY <1>1, <1>2, <1>3, Taken DEF InRx
<1>5. receiver' \in ReceiverSet /\ receiver'.pc # "forward"
  BY <1>2 DEF ReceiverSet, ReceiverPc, NoPacket, Packet
<1>6. PICK r \in Report : /\ r = BuildS1(2, FormatTC(Received(x)), x)
                          /\ r = [subservice |-> 2, tc |-> Received(x), about |-> x]
  BY ReportOf
<1>7. r.subservice = 2 /\ r.about = x /\ r.tc = Received(x)
  BY <1>6
<1>8. Told(r)'
  BY <1>2, <1>3, <1>4, <1>7 DEF Told, OfAcceptance
<1> QED
  BY <1>2, <1>3, <1>4, <1>5, <1>6, <1>7, <1>8, TakenStep

LEMMA AcceptStep ==
    ASSUME ManagementInv, AcceptTC
    PROVE  ManagementInv'
<1>1. Shapes /\ OnTheWay
  BY DEF ManagementInv
<1>2. /\ Reading /\ rx' = Tail(rx) /\ Head(rx) \in Correct /\ Route[Head(rx)] # NoTask
      /\ \/ UNCHANGED ack_buffer
         \/ Send(BuildS1(1, FormatTC(Received(Head(rx))), Head(rx)))
      /\ UNCHANGED <<unsent, tc_buffer, forwarded, executor, executed, downlink>>
      /\ receiver' = [pc |-> "forward", tc |-> FormatTC(Received(Head(rx))),
                      pending |-> receiver.pending - 1]
  BY DEF AcceptTC, execVars, Proceed, ReceiverGoes
<1>3. PICK x \in TC : x = Head(rx)
  BY <1>1, <1>2, Taken
<1>4. rx # <<>> /\ x \notin unsent' /\ ~ InRx(x)'
  BY <1>1, <1>2, <1>3, Taken DEF InRx
<1>5. FormatTC(Received(x)) = HostOf(x) /\ HostOf(x) \in Packet
  BY ReportOf
<1>6. /\ receiver' \in ReceiverSet /\ receiver'.tc = HostOf(Head(rx))
      /\ Route[Head(rx)] \in Task
  BY <1>1, <1>2, <1>3, <1>5, Taken, TcManagementAssumption DEF ReceiverSet, ReceiverPc
<1>7. PICK r \in Report : /\ r = BuildS1(1, FormatTC(Received(x)), x)
                          /\ r = [subservice |-> 1, tc |-> Received(x), about |-> x]
  BY ReportOf
<1>8. r.subservice = 1 /\ r.about = x /\ r.tc = Received(x)
  BY <1>7
<1>9. Told(r)'
  BY <1>4, <1>8 DEF Told, OfAcceptance
<1> QED
  BY <1>2, <1>3, <1>4, <1>6, <1>7, <1>8, <1>9, TakenStep

LEMMA ForwardStep ==
    ASSUME ManagementInv, ForwardTC
    PROVE  ManagementInv'
<1>1. Shapes /\ OnTheWay /\ Running /\ Reporting
  BY DEF ManagementInv
<1>2. /\ UNCHANGED <<rx, unsent, executor, executed, ack_buffer, downlink>>
      /\ \/ receiver' = [pc |-> "left", tc |-> NoPacket, pending |-> 0]
         \/ receiver' = [pc |-> "signal", tc |-> receiver.tc, pending |-> receiver.pending]
      /\ receiver.pc = "forward"
  BY DEF ForwardTC, execVars, tmVars, ReceiverGoes, Leave, At
<1>3. receiver' \in ReceiverSet
  BY <1>1, <1>2 DEF Shapes, ReceiverSet, ReceiverPc, NoPacket, Packet
<1>4. tc_buffer' \in [Task -> Seq(Packet)] /\ forwarded' \in [Task -> Seq(TC)]
  <2>1. PICK d \in Task, x \in TC : d = Destination /\ x = receiver.tc.id
    BY <1>1, <1>2 DEF OnTheWay
  <2>2. \/ UNCHANGED <<tc_buffer, forwarded>>
        \/ /\ tc_buffer' = [tc_buffer EXCEPT ![d] = Append(@, receiver.tc)]
           /\ forwarded' = [forwarded EXCEPT ![d] = Append(@, x)]
    BY <2>1 DEF ForwardTC
  <2>3. /\ Append(tc_buffer[d], receiver.tc) \in Seq(Packet)
        /\ Append(forwarded[d], x) \in Seq(TC)
    BY <1>1 DEF Shapes, ReceiverSet
  <2> QED
    BY <1>1, <2>2, <2>3 DEF Shapes
<1>5. Shapes'
  BY <1>1, <1>2, <1>3, <1>4 DEF Shapes
<1>6. OnTheWay' /\ Running'
  BY <1>1, WayForwards, RunningForwards
<1>7. Older
  BY <1>2, OlderWhenRxIsKept DEF Done
<1>8. UNCHANGED Reports /\ \A t \in Task : ToReport(t)' => Unreported(executor'[t].tc.id)
  BY <1>1, <1>2 DEF Reports, Reporting, ToReport
<1> QED
  BY <1>1, <1>5, <1>6, <1>7, <1>8, ReportingKept DEF ManagementInv

LEMMA ReceiverSteps ==
    ASSUME ManagementInv, ReceiverStep
    PROVE  ManagementInv'
<1>1. CASE ReceiveTC \/ CountReceived \/ NothingReceived \/ SignalTask
  <2>1. Shapes
    BY DEF ManagementInv
  <2>2. /\ UNCHANGED <<rx, unsent, tc_buffer, forwarded, executor, executed>>
        /\ UNCHANGED <<ack_buffer, downlink>>
        /\ \E pc \in {"wait", "count", "read"}, tc \in {NoPacket, receiver.tc},
              n \in {0, 1, Len(rx), receiver.pending} :
                 receiver' = [pc |-> pc, tc |-> tc, pending |-> n]
    BY <1>1 DEF ReceiveTC, CountReceived, NothingReceived, SignalTask, execVars, tmVars,
       others, ReceiverGoes
  <2>3. receiver' \in ReceiverSet /\ receiver'.pc # "forward"
    BY <2>1, <2>2 DEF Shapes, ReceiverSet, ReceiverPc, NoPacket, Packet
  <2>4. UNCHANGED Reports /\ ack_buffer' \in Seq(Report) /\ downlink' \in Seq(Report)
    BY <2>1, <2>2 DEF Reports, Shapes
  <2> QED
    BY <2>2, <2>3, <2>4, QuietStep
<1> QED
  BY <1>1, RejectStep, RefuseStep, AcceptStep, ForwardStep DEF ReceiverStep

(* A step of t that reports nothing and leaves nothing to report. *)
LEMMA TaskQuiet ==
    ASSUME ManagementInv, NEW t \in Task, Running',
           UNCHANGED <<rx, receiver, unsent, forwarded, executed, ack_buffer, downlink>>,
           executor' \in [Task -> Executor], tc_buffer' \in [Task -> Seq(Packet)],
           ~ ToReport(t)', \A u \in Task \ {t} : executor'[u] = executor[u]
    PROVE  ManagementInv'
<1>1. Shapes /\ OnTheWay /\ Reporting
  BY DEF ManagementInv
<1>2. Shapes'
  BY <1>1 DEF Shapes
<1>3. OnTheWay'
  BY <1>1, WayKept
<1>4. Older
  BY OlderWhenRxIsKept DEF Done
<1>5. UNCHANGED Reports /\ \A u \in Task : ToReport(u)' => Unreported(executor'[u].tc.id)
  BY <1>1 DEF Reports, Reporting, ToReport
<1> QED
  BY <1>1, <1>2, <1>3, <1>4, <1>5, ReportingKept DEF ManagementInv

LEMMA IdleSteps ==
    ASSUME ManagementInv, NEW t \in Task,
           ExecuteTC(t) \/ NothingToExecute(t) \/ SendSpecificTM(t)
    PROVE  ManagementInv'
<1>1. Shapes /\ Running
  BY DEF ManagementInv
<1>2. PICK pc \in {"wait", "left", "read"} : TaskGoes(t, pc)
  BY DEF ExecuteTC, NothingToExecute, SendSpecificTM, Again
<1>3. /\ UNCHANGED <<rx, receiver, unsent, forwarded, executed, ack_buffer, downlink>>
      /\ UNCHANGED tc_buffer /\ ~ Holding(t)
  BY DEF ExecuteTC, NothingToExecute, SendSpecificTM, rxVars, tmVars, others, Doing, Holding
<1>4. /\ executor' \in [Task -> Executor] /\ executor'[t].pc = pc
      /\ \A u \in Task \ {t} : executor'[u] = executor[u]
  BY <1>1, <1>2, Goes DEF Pc
<1>5. Running'
  BY <1>1, <1>2, <1>3, RunningIdles
<1>6. ~ ToReport(t)' /\ tc_buffer' \in [Task -> Seq(Packet)]
  BY <1>1, <1>3, <1>4 DEF ToReport, Shapes
<1> QED
  BY <1>3, <1>4, <1>5, <1>6, TaskQuiet

LEMMA ReadSteps ==
    ASSUME ManagementInv, NEW t \in Task, ReadTC(t) \/ CountMessages(t)
    PROVE  ManagementInv'
<1>1. Shapes /\ Running
  BY DEF ManagementInv
<1>2. /\ UNCHANGED <<rx, receiver, unsent, forwarded, executed, ack_buffer, downlink>>
      /\ executor \in [Task -> Executor]
  BY <1>1 DEF ReadTC, CountMessages, rxVars, tmVars, others, Shapes
<1>3. CASE ReadTC(t)
  <2>1. Running' /\ executor' \in [Task -> Executor] /\ tc_buffer' \in [Task -> Seq(Packet)]
    BY <1>1, <1>3, RunningReads
  <2>2. /\ executor'[t].pc = "count"
        /\ \A u \in Task \ {t} : executor'[u] = executor[u]
    BY <1>2, <1>3 DEF ReadTC, Executor
  <2> QED
    BY <1>2, <2>1, <2>2, TaskQuiet DEF ToReport
<1>4. CASE CountMessages(t)
  <2>1. Running' /\ executor' \in [Task -> Executor]
    BY <1>1, <1>4, RunningCounts
  <2>2. /\ executor'[t].pc = "execute" /\ tc_buffer' \in [Task -> Seq(Packet)]
        /\ \A u \in Task \ {t} : executor'[u] = executor[u]
    BY <1>1, <1>2, <1>4 DEF CountMessages, Executor, Shapes
  <2> QED
    BY <1>2, <2>1, <2>2, TaskQuiet DEF ToReport
<1> QED
  BY <1>3, <1>4

LEMMA ExecuteStep ==
    ASSUME ManagementInv, NEW t \in Task, Execute(t)
    PROVE  ManagementInv'
<1>1. Shapes /\ OnTheWay /\ Running /\ Reporting
  BY DEF ManagementInv
<1>2. UNCHANGED <<rx, receiver, unsent, ack_buffer, downlink>>
  BY DEF Execute, rxVars, tmVars, others
<1>3. /\ Running' /\ executor' \in [Task -> Executor]
      /\ executed' \in [Task -> Seq(TC \X Outcome)]
      /\ UNCHANGED <<forwarded, tc_buffer>> /\ OthersKept(t)
      /\ Done(t)' = Done(t) + 1 /\ \A k \in 1..Done(t) : executed'[t][k] = executed[t][k]
      /\ ToReport(t)' => executor'[t].tc = executor[t].tc
  BY <1>1, RunningExecutes
<1>4. Shapes' /\ OnTheWay'
  BY <1>1, <1>2, <1>3, WayKept DEF Shapes
<1>5. ASSUME NEW u \in Task, NEW k \in 1..Done(u)
      PROVE  k \in 1..Done(u)' /\ executed'[u][k] = executed[u][k]
  <2>1. Done(u) \in Nat
    BY <1>1 DEF Shapes, Done
  <2>2. CASE u = t
    BY <1>3, <2>1, <2>2
  <2>3. CASE u # t
    BY <1>3, <2>3 DEF OthersKept, Done
  <2> QED
    BY <2>2, <2>3
<1>6. Older
  BY <1>2, <1>5, OlderWhenRxIsKept
<1>7. Holding(t)
  BY DEF Execute, Doing, Holding
<1>8. Unreported(executor[t].tc.id)
  BY <1>1, <1>7, NotRunNotReported
<1>9. \A u \in Task : ToReport(u)' => Unreported(executor'[u].tc.id)
  BY <1>1, <1>3, <1>8 DEF OthersKept, Reporting, ToReport
<1>10. UNCHANGED Reports
  BY <1>2 DEF Reports
<1> QED
  BY <1>1, <1>3, <1>4, <1>6, <1>9, <1>10, ReportingKept DEF ManagementInv

(* TM(1,7) and TM(1,8): the first report of the end of this TC. *)
LEMMA ReportStep ==
    ASSUME ManagementInv, NEW t \in Task, SendExecAckTM(t) \/ SendExecNackTM(t)
    PROVE  ManagementInv'
<1>1. Shapes /\ OnTheWay /\ Running /\ Reporting
  BY DEF ManagementInv
<1>2. PICK s \in {7, 8}, pc \in {"tm", "left"} :
        /\ Send(BuildS1(s, executor[t].tc, Subject(t)))
        /\ TaskGoes(t, pc)
        /\ executor[t].pc = IF s = 7 THEN "ack" ELSE "nack"
  BY DEF SendExecAckTM, SendExecNackTM, Doing
<1>3. /\ UNCHANGED <<rx, receiver, unsent, tc_buffer, forwarded, executed, downlink>>
      /\ ToReport(t) /\ ~ Holding(t)
  BY <1>2 DEF SendExecAckTM, SendExecNackTM, rxVars, ToReport, Holding
<1>4. /\ executor[t].tc.id \in TC /\ Route[executor[t].tc.id] = t
      /\ executor[t].tc = HostOf(executor[t].tc.id) /\ Subject(t) = executor[t].tc.id
      /\ executor[t].pc = "ack" => RanWith(executor[t].tc.id, {"success"})
      /\ executor[t].pc = "nack" => RanWith(executor[t].tc.id, Failure)
  BY <1>1, <1>3, ToReportGiven
<1>5. PICK x \in TC : x = executor[t].tc.id
  BY <1>4
<1>6. PICK r \in Report : /\ r = BuildS1(s, HostOf(x), x)
                          /\ r = [subservice |-> s, tc |-> Received(x), about |-> x]
  BY ReportOf
<1>7. r.subservice = s /\ r.about = x /\ r.tc = Received(x)
  BY <1>6
<1>8. /\ ack_buffer' \in Seq(Report)
      /\ Reports' = Reports \/ Reports' = Append(Reports, r)
  BY <1>1, <1>2, <1>3, <1>4, <1>5, <1>6, Sent
<1>9. /\ executor' \in [Task -> Executor] /\ executor'[t].pc = pc
      /\ \A u \in Task \ {t} : executor'[u] = executor[u]
  BY <1>1, <1>2, Goes DEF Pc
<1>10. Shapes' /\ OnTheWay'
  BY <1>1, <1>3, <1>8, <1>9, WayKept DEF Shapes
<1>11. Running'
  BY <1>1, <1>2, <1>3, RunningIdles
<1>12. Older
  BY <1>3, OlderWhenRxIsKept DEF Done
<1>13. ~ OfAcceptance(r)
  BY <1>7 DEF OfAcceptance
<1>14. Told(r)'
  <2>1. s = 7 => RanWith(x, {"success"})'
    BY <1>2, <1>3, <1>4, <1>5 DEF RanWith, Done
  <2>2. s = 8 => RanWith(x, Failure)'
    BY <1>2, <1>3, <1>4, <1>5 DEF RanWith, Done
  <2> QED
    BY <1>7, <2>1, <2>2 DEF Told, OfAcceptance
<1>15. \A k \in 1..Len(Reports) : Agree(Reports[k], r)
  BY <1>1, <1>3, <1>5, <1>7, <1>13 DEF Agree, Reporting, Unreported
<1>16. ASSUME NEW u \in Task, ToReport(u)'
       PROVE  Unreported(executor'[u].tc.id) /\ r.about # executor'[u].tc.id
  <2>1. u # t
    BY <1>9, <1>16 DEF ToReport
  <2>2. ToReport(u) /\ executor'[u] = executor[u]
    BY <1>9, <1>16, <2>1 DEF ToReport
  <2>3. Route[executor[u].tc.id] = u
    BY <1>1, <2>2, ToReportGiven
  <2> QED
    BY <1>1, <1>4, <1>5, <1>7, <2>1, <2>2, <2>3 DEF Reporting
<1> QED
  BY <1>1, <1>8, <1>10, <1>11, <1>12, <1>14, <1>15, <1>16, ReportingSent DEF ManagementInv

LEMMA ManagementStep == ManagementInv /\ [Next]_vars => ManagementInv'
<1> SUFFICES ASSUME ManagementInv, [Next]_vars PROVE ManagementInv'
  OBVIOUS
<1>1. ASSUME NEW tc \in TC, GroundSends(tc) PROVE ManagementInv'
  BY <1>1, GroundStep
<1>2. CASE ReceiverStep
  BY <1>2, ReceiverSteps
<1>3. ASSUME NEW t \in Task, TaskStep(t) PROVE ManagementInv'
  BY <1>3, IdleSteps, ReadSteps, ExecuteStep, ReportStep DEF TaskStep
<1>4. CASE SenderStep
  BY <1>4, SenderSteps
<1>5. CASE UNCHANGED vars
  <2>1. /\ UNCHANGED <<rx, receiver, unsent, tc_buffer, forwarded, executor, executed>>
        /\ UNCHANGED <<ack_buffer, downlink>>
    BY <1>5 DEF vars, rxVars, execVars, tmVars, others
  <2>2. UNCHANGED Reports /\ ack_buffer' \in Seq(Report) /\ downlink' \in Seq(Report)
    BY <2>1 DEF ManagementInv, Shapes, Reports
  <2> QED
    BY <2>1, <2>2, QuietStep
<1> QED
  BY <1>1, <1>2, <1>3, <1>4, <1>5 DEF Next

(* The receiver, the tasks, the ground and the sender of telemetry keep    *)
(* ManagementInv, whatever their order.                                    *)
THEOREM ManagementInvariant == Spec => []ManagementInv
<1>1. Init => ManagementInv
  BY ManagementStart
<1>2. ManagementInv /\ [Next]_vars => ManagementInv'
  BY ManagementStep
<1> QED
  BY <1>1, <1>2, PTL DEF Spec

-----------------------------------------------------------------------------
(* What is executed. *)

LEMMA Joined ==
    ASSUME NEW S, NEW p \in Seq(S), NEW q \in Seq(S)
    PROVE  /\ p \o q \in Seq(S) /\ Len(p \o q) = Len(p) + Len(q)
           /\ \A k \in 1..Len(p) : (p \o q)[k] = p[k]
           /\ \A k \in 1..Len(q) : (p \o q)[Len(p) + k] = q[k]
OBVIOUS

LEMMA SameSequence ==
    ASSUME NEW S, NEW p \in Seq(S), NEW q \in Seq(S), Len(p) = Len(q),
           \A k \in 1..Len(p) : p[k] = q[k]
    PROVE  p = q
OBVIOUS

(* A sequence is what it begins with, then the rest. *)
LEMMA Split ==
    ASSUME NEW S, NEW f \in Seq(S), NEW p \in Seq(S), NEW q \in Seq(S),
           Len(f) = Len(p) + Len(q),
           \A k \in 1..Len(p) : f[k] = p[k],
           \A k \in 1..Len(q) : f[Len(p) + k] = q[k]
    PROVE  f = p \o q
<1>1. PICK n, m \in Nat : n = Len(p) /\ m = Len(q)
  OBVIOUS
<1>2. PICK g \in Seq(S) : g = p \o q
  BY Joined
<1>3. /\ Len(g) = n + m /\ \A k \in 1..n : g[k] = p[k]
      /\ \A k \in 1..m : g[n + k] = q[k]
  BY <1>1, <1>2, Joined
<1>4. ASSUME NEW k \in 1..(n + m) PROVE f[k] = g[k]
  <2>1. CASE k \in 1..n
    BY <1>1, <1>3, <2>1
  <2>2. CASE k \notin 1..n
    <3>1. k - n \in 1..m /\ n + (k - n) = k
      BY <1>1, <2>2
    <3>2. f[n + (k - n)] = q[k - n] /\ g[n + (k - n)] = q[k - n]
      BY <1>1, <1>3, <3>1
    <3> QED
      BY <3>1, <3>2
  <2> QED
    BY <2>1, <2>2
<1>5. Len(f) = Len(g) /\ Len(f) = n + m
  BY <1>1, <1>3
<1> QED
  BY <1>2, <1>4, <1>5, SameSequence

LEMMA RanAsForwarded ==
    ASSUME Shapes, Running, NEW t \in Task
    PROVE  forwarded[t] = Ran(t) \o InHand(t) \o Waiting(t)
<1>1. /\ InOrder(t) /\ Done(t) \in Nat /\ forwarded[t] \in Seq(TC)
      /\ tc_buffer[t] \in Seq(Packet) /\ executed[t] \in Seq(TC \X Outcome)
  BY DEF Running, Shapes, Done
<1>2. Ran(t) \in Seq(TC) /\ Len(Ran(t)) = Done(t)
      /\ \A k \in 1..Done(t) : Ran(t)[k] = forwarded[t][k]
  <2>1. \A k \in 1..Done(t) : executed[t][k] \in TC \X Outcome
    BY <1>1 DEF Done
  <2>2. Ran(t) = [k \in 1..Done(t) |-> executed[t][k][1]]
    BY DEF Ran, Done
  <2>3. Ran(t) \in [1..Done(t) -> TC]
    BY <2>1, <2>2
  <2>4. \A k \in 1..Done(t) : Ran(t)[k] = forwarded[t][k]
    BY <1>1, <2>2 DEF InOrder
  <2> QED
    BY <1>1, <2>3, <2>4
<1>3. PICK n, m \in Nat : n = Done(t) /\ m = Len(tc_buffer[t])
  BY <1>1
<1>6. /\ Held(t) \in {0, 1} /\ Len(forwarded[t]) = n + Held(t) + m
      /\ \A k \in 1..m : tc_buffer[t][k] = HostOf(forwarded[t][n + Held(t) + k])
  BY <1>1, <1>3 DEF InOrder, Held
<1>7. /\ Waiting(t) \in Seq(TC) /\ Len(Waiting(t)) = m
      /\ \A k \in 1..m : Waiting(t)[k] = forwarded[t][n + Held(t) + k]
  <2>1. Waiting(t) = [k \in 1..m |-> tc_buffer[t][k].id]
    <3>1. Waiting(t) = [k \in 1..Len(tc_buffer[t]) |-> tc_buffer[t][k].id]
      BY DEF Waiting
    <3> QED
      BY <1>3, <3>1
  <2>2. \A k \in 1..m : tc_buffer[t][k].id = forwarded[t][n + Held(t) + k]
    <3>1. \A x : HostOf(x).id = x
      BY DEF HostOf
    <3> QED
      BY <1>6, <3>1
  <2>3. \A k \in 1..m : forwarded[t][n + Held(t) + k] \in TC
    <3>1. \A k \in 1..m : n + Held(t) + k \in 1..Len(forwarded[t])
      BY <1>3, <1>6
    <3> QED
      BY <1>1, <3>1
  <2>4. Waiting(t) \in [1..m -> TC]
    BY <2>1, <2>2, <2>3
  <2> QED
    BY <1>3, <2>1, <2>2, <2>4
<1>4. CASE Holding(t)
  <2>1. Held(t) = 1 /\ InHand(t) = <<executor[t].tc.id>>
    BY <1>4 DEF Holding, Held, InHand
  <2>2. PICK x : x = executor[t].tc.id
    OBVIOUS
  <2>3. /\ Len(forwarded[t]) = n + 1 + m /\ x = forwarded[t][n + 1]
        /\ \A k \in 1..m : Waiting(t)[k] = forwarded[t][n + 1 + k]
    BY <1>1, <1>3, <1>4, <1>6, <1>7, <2>1, <2>2 DEF InOrder, HostOf
  <2>4. n + 1 \in 1..Len(forwarded[t])
    BY <2>3
  <2>5. x \in TC /\ <<x>> \in Seq(TC) /\ Len(<<x>>) = 1 /\ <<x>>[1] = x
    BY <1>1, <2>3, <2>4
  <2>6. PICK p \in Seq(TC) : p = Ran(t) \o <<x>>
    BY <1>2, <2>5, Joined
  <2>7. /\ Len(p) = n + 1 /\ \A k \in 1..n : p[k] = Ran(t)[k]
        /\ p[n + 1] = x
    BY <1>2, <1>3, <2>5, <2>6, Joined
  <2>8. \A k \in 1..(n + 1) : forwarded[t][k] = p[k]
    <3>1. \A k \in 1..(n + 1) : k \in 1..n \/ k = n + 1
      BY <1>3
    <3> QED
      BY <1>2, <1>3, <2>3, <2>7, <3>1
  <2>9. forwarded[t] = p \o Waiting(t)
    <3>1. Len(forwarded[t]) = Len(p) + Len(Waiting(t))
      BY <1>7, <2>3, <2>7
    <3>2. \A k \in 1..Len(p) : forwarded[t][k] = p[k]
      BY <2>7, <2>8
    <3>3. \A k \in 1..Len(Waiting(t)) : forwarded[t][Len(p) + k] = Waiting(t)[k]
      BY <1>7, <2>3, <2>7
    <3>4. forwarded[t] \in Seq(TC) /\ Waiting(t) \in Seq(TC)
      BY <1>1, <1>7
    <3> QED
      BY <3>1, <3>2, <3>3, <3>4, Split
  <2> QED
    BY <2>1, <2>2, <2>6, <2>9
<1>5. CASE ~ Holding(t)
  <2>1. Held(t) = 0 /\ InHand(t) = <<>>
    BY <1>5 DEF Holding, Held, InHand
  <2>2. /\ Len(forwarded[t]) = n + m
        /\ \A k \in 1..m : Waiting(t)[k] = forwarded[t][n + 0 + k]
    BY <1>6, <1>7, <2>1
  <2>3. \A k \in 1..m : n + 0 + k = n + k
    BY <1>3
  <2>4. \A k \in 1..m : forwarded[t][n + k] = Waiting(t)[k]
    BY <2>2, <2>3
  <2>5. forwarded[t] = Ran(t) \o Waiting(t)
    <3>1. Len(forwarded[t]) = Len(Ran(t)) + Len(Waiting(t))
      BY <1>2, <1>3, <1>7, <2>2
    <3>2. \A k \in 1..Len(Ran(t)) : forwarded[t][k] = Ran(t)[k]
      BY <1>2
    <3>3. \A k \in 1..Len(Waiting(t)) : forwarded[t][Len(Ran(t)) + k] = Waiting(t)[k]
      BY <1>2, <1>3, <1>7, <2>4
    <3>4. forwarded[t] \in Seq(TC) /\ Waiting(t) \in Seq(TC) /\ Ran(t) \in Seq(TC)
      BY <1>1, <1>2, <1>7
    <3> QED
      BY <3>1, <3>2, <3>3, <3>4, Split
  <2>6. Ran(t) \o <<>> = Ran(t)
    BY <1>2
  <2> QED
    BY <2>1, <2>5, <2>6
<1> QED
  BY <1>4, <1>5

(* Each task runs what it was given, in that order, once: nothing is       *)
(* skipped or run twice between its buffer, its hand and what it ran.      *)
THEOREM ExecutedAsForwardedHolds == Spec => []ExecutedAsForwarded
<1>1. ManagementInv => ExecutedAsForwarded
  BY RanAsForwarded DEF ManagementInv, ExecutedAsForwarded
<1> QED
  BY <1>1, ManagementInvariant, PTL

-----------------------------------------------------------------------------
(* What the ground is told. *)

LEMMA EndedWhenRan ==
    ASSUME Shapes, OnTheWay, Running, NEW x, NEW outcomes, RanWith(x, outcomes)
    PROVE  Ended(x, outcomes)
<1>1. PICK t \in Task : \E k \in 1..Done(t) :
        executed[t][k][1] = x /\ executed[t][k][2] \in outcomes
  BY DEF RanWith
<1>2. PICK k \in 1..Done(t) : executed[t][k][1] = x /\ executed[t][k][2] \in outcomes
  BY <1>1
<1>3. k \in 1..Len(forwarded[t]) /\ k <= Len(executed[t])
  BY RanGiven DEF Done, Shapes
<1> QED
  BY <1>2, <1>3 DEF Ended

LEMMA RanWhenEnded ==
    ASSUME Shapes, NEW x, NEW outcomes, Ended(x, outcomes)
    PROVE  RanWith(x, outcomes)
<1>1. PICK t \in Task : \E k \in 1..Len(forwarded[t]) :
        k <= Len(executed[t]) /\ executed[t][k][1] = x /\ executed[t][k][2] \in outcomes
  BY DEF Ended
<1>2. PICK k \in 1..Len(forwarded[t]) :
        k <= Len(executed[t]) /\ executed[t][k][1] = x /\ executed[t][k][2] \in outcomes
  BY <1>1
<1>3. k \in 1..Done(t)
  BY <1>2 DEF Done, Shapes
<1> QED
  BY <1>2, <1>3 DEF RanWith

(* A TC reported as executed was run with success by its task, one         *)
(* reported as failed was run and failed, and one refused was never run.   *)
THEOREM ReportsTruthfulHolds == Spec => []ReportsTruthful
<1>1. ASSUME ManagementInv PROVE ReportsTruthful
  <2>1. Shapes /\ OnTheWay /\ Running /\ Reporting
    BY <1>1 DEF ManagementInv
  <2> SUFFICES ASSUME NEW tc \in TC
               PROVE  /\ About(tc, {7}) # {} => Ended(tc, {"success"})
                      /\ About(tc, {8}) # {} => Ended(tc, {"failure", "unknown"})
                      /\ About(tc, {2}) # {} =>
                            ~Ended(tc, {"success", "failure", "silent", "unknown"})
    BY DEF ReportsTruthful
  <2>2. ASSUME About(tc, {7}) # {} PROVE Ended(tc, {"success"})
    <3>1. PICK k \in 1..Len(Reports) : Reports[k].about = tc /\ Reports[k].subservice = 7
      BY <2>2 DEF About
    <3>2. RanWith(tc, {"success"})
      BY <2>1, <3>1 DEF Reporting, Told
    <3> QED
      BY <2>1, <3>2, EndedWhenRan
  <2>3. ASSUME About(tc, {8}) # {} PROVE Ended(tc, Failure)
    <3>1. PICK k \in 1..Len(Reports) : Reports[k].about = tc /\ Reports[k].subservice = 8
      BY <2>3 DEF About
    <3>2. RanWith(tc, Failure)
      BY <2>1, <3>1 DEF Reporting, Told
    <3> QED
      BY <2>1, <3>2, EndedWhenRan
  <2>4. ASSUME About(tc, {2}) # {},
               Ended(tc, {"success", "failure", "silent", "unknown"})
        PROVE  FALSE
    <3>1. PICK k \in 1..Len(Reports) :
            Reports[k].about = tc /\ Reports[k].subservice = 2
      BY <2>4 DEF About
    <3>3. tc \notin Correct \/ Route[tc] = NoTask
      BY <2>1, <3>1 DEF Reporting, Told
    <3>4. tc \in Correct /\ Route[tc] \in Task
      BY <2>1, <2>4, RanWhenEnded, RanOnRoute
    <3> QED
      BY <3>3, <3>4, TcManagementAssumption
  <2> QED
    BY <2>2, <2>3, <2>4 DEF Failure
<1> QED
  BY <1>1, ManagementInvariant, PTL

(* A report names the TC it is about, packet id and sequence in the order  *)
(* of the wire, on every path from the receiver through the buffers to the *)
(* tasks; only a TM(1,2) of an incorrect TC may name another one.          *)
THEOREM ReportsNameTheirTCHolds == Spec => []ReportsNameTheirTC
<1>1. ManagementInv => ReportsNameTheirTC
  BY DEF ManagementInv, Reporting, Told, ReportsNameTheirTC
<1> QED
  BY <1>1, ManagementInvariant, PTL

LEMMA AtMostOne ==
    ASSUME NEW n \in Nat, NEW S \in SUBSET (1..n), \A j, k \in S : ~ (j < k)
    PROVE  Cardinality(S) <= 1
<1>1. CASE S = {}
  BY <1>1, FS_EmptySet
<1>2. CASE S # {}
  <2>1. PICK k \in S : TRUE
    BY <1>2
  <2>2. \A j \in S : j = k
    <3>1. \A j \in S : j \in Nat /\ k \in Nat /\ ~ (j < k) /\ ~ (k < j)
      BY <2>1
    <3> QED
      BY <3>1
  <2>3. S = {k}
    BY <2>1, <2>2
  <2> QED
    BY <2>3, FS_Singleton
<1> QED
  BY <1>1, <1>2

(* At most one report is sent about the acceptance of a TC and one about   *)
(* its execution, the acceptance first, though three kinds of task write   *)
(* them, and whatever the reports name.                                    *)
THEOREM ReportsConsistentHolds == Spec => []ReportsConsistent
<1>1. ASSUME ManagementInv PROVE ReportsConsistent
  <2>1. Reporting /\ Len(Reports) \in Nat
    BY <1>1, ReportsTyped DEF ManagementInv
  <2>2. PICK n \in Nat : n = Len(Reports)
    BY <2>1
  <2> SUFFICES ASSUME NEW tc \in TC
               PROVE  /\ Cardinality(About(tc, {1, 2})) <= 1
                      /\ Cardinality(About(tc, {7, 8})) <= 1
                      /\ \A j \in About(tc, {1, 2}), k \in About(tc, {7, 8}) : j < k
    BY DEF ReportsConsistent
  <2>3. /\ About(tc, {1, 2}) \in SUBSET (1..n)
        /\ \A k \in About(tc, {1, 2}) :
             k \in 1..n /\ Reports[k].about = tc /\ OfAcceptance(Reports[k])
    BY <2>2 DEF About, OfAcceptance
  <2>4. /\ About(tc, {7, 8}) \in SUBSET (1..n)
        /\ \A k \in About(tc, {7, 8}) :
             k \in 1..n /\ Reports[k].about = tc /\ OfExecution(Reports[k])
    BY <2>2 DEF About, OfExecution
  <2>5. \A j, k \in 1..n : j < k => Agree(Reports[j], Reports[k])
    BY <2>1, <2>2 DEF Reporting
  <2>6. Cardinality(About(tc, {1, 2})) <= 1
    <3>1. \A j, k \in About(tc, {1, 2}) : ~ (j < k)
      BY <2>3, <2>5 DEF Agree
    <3> QED
      BY <2>3, <3>1, AtMostOne
  <2>7. Cardinality(About(tc, {7, 8})) <= 1
    <3>1. \A j, k \in About(tc, {7, 8}) : ~ (j < k)
      BY <2>4, <2>5 DEF Agree
    <3> QED
      BY <2>4, <3>1, AtMostOne
  <2>8. ASSUME NEW j \in About(tc, {1, 2}), NEW k \in About(tc, {7, 8}) PROVE j < k
    <3>1. j \in 1..n /\ k \in 1..n
      BY <2>3, <2>4
    <3>2. j # k
      BY <2>3, <2>4 DEF OfAcceptance, OfExecution
    <3>3. ~ (k < j)
      BY <2>3, <2>4, <2>5 DEF Agree
    <3> QED
      BY <3>1, <3>2, <3>3
  <2> QED
    BY <2>6, <2>7, <2>8
<1> QED
  BY <1>1, ManagementInvariant, PTL
=============================================================================
