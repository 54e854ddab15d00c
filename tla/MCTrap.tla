------------------------------- MODULE MCTrap -------------------------------
(* The idle loop, a kernel thread on a skewed stack and a user process; the    *)
(* timer, exceptions with and without an error code, and int instructions with *)
(* and without a gate that admits them.                                        *)
EXTENDS Trap

MCThreads == {1}
MCSkewed == {1}
MCUsers == {2}
MCExtInts == {32}
MCFaults == {6, 14}
MCSoftInts == {33, 128, 200}
=============================================================================
