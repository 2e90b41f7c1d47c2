-------------------------- MODULE DelayedCommands --------------------------
(***************************************************************************)
(* What service 11 promises: telecommands are kept until their date, then  *)
(* handed over one at a time, never before their date, the earliest first, *)
(* each once; nothing is added or released while the service is disabled.  *)
(* A telecommand is lost only when there is no room where it is handed     *)
(* over.  A fault suspends the promise until everything is cleared.        *)
(* Nothing is said here of files, slots or nodes.                          *)
(***************************************************************************)
EXTENDS Naturals, Sequences

CONSTANTS TC, NoTC, DueDate, BufferSize

VARIABLES
    pending,   \* telecommands waiting for their date
    inHand,    \* the one being handed over, or NoTC
    buffer,    \* handed over, not taken yet
    enabled,
    now,
    broken     \* a fault happened: nothing is promised until Mend

vars == <<pending, inHand, buffer, enabled, now, broken>>

Init == pending = {} /\ inHand = NoTC /\ buffer = <<>> /\ now = 0
        /\ broken = FALSE
        /\ enabled \in BOOLEAN

Add(tc) ==
    /\ enabled
    /\ tc \notin pending
    /\ pending' = pending \union {tc}
    /\ UNCHANGED <<inHand, buffer, enabled, now>>

Release(tc) ==
    /\ enabled /\ inHand = NoTC
    /\ tc \in pending
    /\ DueDate[tc] <= now
    /\ \A other \in pending : DueDate[tc] <= DueDate[other]
    /\ pending' = pending \ {tc}
    /\ inHand' = tc
    /\ UNCHANGED <<buffer, enabled, now>>

HandOver ==
    /\ inHand # NoTC
    /\ Len(buffer) < BufferSize
    /\ buffer' = Append(buffer, inHand)
    /\ inHand' = NoTC
    /\ UNCHANGED <<pending, enabled, now>>

Lose ==
    /\ inHand # NoTC
    /\ Len(buffer) >= BufferSize
    /\ inHand' = NoTC
    /\ UNCHANGED <<pending, buffer, enabled, now>>

Take ==
    /\ buffer # <<>>
    /\ buffer' = Tail(buffer)
    /\ UNCHANGED <<pending, inHand, enabled, now>>

Clear  == pending' = {} /\ UNCHANGED <<inHand, buffer, enabled, now>>
Switch == enabled' \in BOOLEAN /\ UNCHANGED <<pending, inHand, buffer, now>>
Clock  == now' \in Nat /\ UNCHANGED <<pending, inHand, buffer, enabled>>

Works == \/ \E tc \in TC : Add(tc) \/ Release(tc)
         \/ HandOver \/ Lose \/ Take \/ Clear \/ Switch \/ Clock

Break == broken' = TRUE

(* Cleared after a fault: what was handed over before may still be there.  *)
Mend ==
    /\ broken /\ ~broken'
    /\ pending' = {} /\ inHand' = NoTC
    /\ UNCHANGED <<buffer, enabled, now>>

Next == \/ ~broken /\ Works /\ UNCHANGED broken
        \/ Break
        \/ Mend

Spec == Init /\ [][Next]_vars
=============================================================================
