------------------------------- MODULE MCProc -------------------------------
(***************************************************************************)
(* Instances of Proc for TLC: a table of PROC_MAX slots that kernel_main    *)
(* fills with any number of kernel threads and user processes, time slices  *)
(* of SLICE ticks and sleeps of one and of two ticks, one of them computed  *)
(* by a product that wraps at WORD.                                         *)
(***************************************************************************)
EXTENDS Proc

\* 5 ms rounds down to no tick and becomes one, 25 ms are two ticks (and their
\* product is past the half of the word), and 45 * 100 wraps at 2^12 to 404, which
\* becomes one tick as well.
MCSleepMs == {5, 25, 45}
MCWord == 2 ^ 12
=============================================================================
