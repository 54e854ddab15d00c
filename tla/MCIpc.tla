------------------------------- MODULE MCIpc -------------------------------
(***************************************************************************)
(* Instances of Ipc for TLC: the idle process and two others, of either     *)
(* kind, that send to any pid (the idle process, themselves, a zombie and   *)
(* nobody included) through a pool small enough to run dry.                 *)
(***************************************************************************)
EXTENDS Ipc

MCSleepMs == {5}

\* One tick and two.
MCLiveSleepMs == {5, 25}
MCWord == 2 ^ 16
=============================================================================
