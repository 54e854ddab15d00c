---------------------------- MODULE AddressSpace ----------------------------
(***************************************************************************)
(* What the virtual memory manager promises: every directory is a flat map *)
(* from pages to frames.  Setting a page changes that page and no other;   *)
(* below the kernel half it changes that directory and no other, in the    *)
(* kernel half the others see the new frame or what they had.              *)
(***************************************************************************)
CONSTANTS Dirs,        \* every name a directory can have
          Boot,        \* the directory the kernel starts with
          Pages,       \* the virtual pages
          KernelHalf,  \* those of the kernel
          None         \* not mapped

VARIABLE space   \* for every directory in existence, the frame of each page

live == DOMAIN space

SpaceInit == live = {Boot}

\* The pages of directories that a step translates anew.
Changed ==
    LET old == space
        new == space'
    IN  {<<e, w, new[e][w]>> : e \in live, w \in Pages}
          \ {<<e, w, old[e][w]>> : e \in live, w \in Pages}

\* One page of directory d is set; c is a page that changes, of directory c[1].
SetPage(d) ==
    /\ live' = live
    /\ LET changed == Changed
       IN  \A c \in changed, b \in changed :
              /\ c[2] = b[2]
              /\ c[1] # d => c[2] \in KernelHalf /\ <<d, c[2], c[3]>> \in changed

Create(d) ==
    /\ live' = live \cup {d}
    /\ Changed = {}
    /\ LET old == space[Boot]
           new == space'[d]
       IN  \A w \in Pages : new[w] = IF w \in KernelHalf THEN old[w] ELSE None

Destroy(d) ==
    /\ d \in live \ {Boot}
    /\ space' = [e \in live \ {d} |-> space[e]]

SpaceNext == \/ \E d \in live : SetPage(d) \/ Destroy(d)
             \/ \E d \in Dirs \ live : Create(d)

SpaceSpec == SpaceInit /\ [][SpaceNext]_space
=============================================================================
