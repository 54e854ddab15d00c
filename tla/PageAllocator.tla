--------------------------- MODULE PageAllocator ---------------------------
(***************************************************************************)
(* What the physical memory manager promises its callers: a set of free    *)
(* pages; an allocation takes some free page and fails only when there is  *)
(* none; a release returns a page that is out; nothing else changes it.    *)
(***************************************************************************)
CONSTANTS Pages, None

VARIABLES free,      \* the pages nobody holds
          granted    \* the page the last allocation returned, or None

\* Some of the pages are there to be handed out, the others never are.
PAInit == free \subseteq Pages /\ granted = None

Grant(p) ==
    /\ p \in free
    /\ free' = free \ {p}
    /\ granted' = p

Refuse == free = {} /\ granted' = None /\ UNCHANGED free

Release(p) == p \notin free /\ free' = free \cup {p} /\ UNCHANGED granted

PANext == Refuse \/ \E p \in Pages : Grant(p) \/ Release(p)

PASpec == PAInit /\ [][PANext]_<<free, granted>>
=============================================================================
