----------------------------- MODULE RoundRobin -----------------------------
(***************************************************************************)
(* The fairness of the scheduler's search, as a bound: Proc with a history  *)
(* variable that counts, for every READY process, how many times schedule() *)
(* has dispatched another process since it became READY.                    *)
(***************************************************************************)
EXTENDS Proc

VARIABLE passed

rrVars == <<vars, passed>>

\* A dispatch is a change of current_proc: schedule() comes back to the process
\* that called it only when nobody else is READY.
Dispatch == current_proc # NULL /\ current_proc' # current_proc

Count ==
    passed' = [p \in Slot |-> CASE proc_state'[p] # "READY" -> 0
                                [] proc_state'[p] = "READY" /\ Dispatch -> passed[p] + 1
                                [] OTHER -> passed[p]]

RRInit == Init /\ passed = [p \in Slot |-> 0]
RRNext == Next /\ Count
RRSpec == RRInit /\ [][RRNext]_rrVars

\* Slots schedule() looks at from c until it reaches p: 1 for the next one,
\* PROC_MAX for c itself.
Distance(c, p) == IF p > c THEN p - c ELSE p - c + PROC_MAX

\* Round robin: between becoming READY and running, a process sees fewer than
\* PROC_MAX dispatches of others, in whatever way they yield, sleep, wake or exit.
BoundedBypass == \A p \in Slot : passed[p] < PROC_MAX
=============================================================================
