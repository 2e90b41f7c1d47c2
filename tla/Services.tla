-------------------------------- MODULE Services -------------------------------
(***************************************************************************)
(* Services 6 and 160 in the tasks of one system: a reboot that TC(160,1)  *)
(* asks for, or a crash, ends the load or the dump that another task is    *)
(* executing.                                                              *)
(***************************************************************************)
EXTENDS Files, Pus160

vars == <<fileVars, sysVars>>

Init == FilesInit /\ Pus160Init

Restart == (Reboot \/ Crash) /\ FilesRestart

Next ==
    \/ FilesNext  /\ UNCHANGED sysVars
    \/ Pus160Next /\ UNCHANGED fileVars
    \/ Restart

Spec == Init /\ [][Next]_vars

-----------------------------------------------------------------------------

(* The variables keep their types: the handlers of service 6 leave their   *)
(* TC or their TM only by a length whose sum wraps, and a software that    *)
(* nobody named is never selected.                                         *)
ServicesTypeOK == FilesTypeOK /\ Pus160TypeOK
=============================================================================
