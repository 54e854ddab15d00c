------------------------------ MODULE MCLoader ------------------------------
(***************************************************************************)
(* Four entries per table: a table of level 1 spans 4 pages, of level 2 16,  *)
(* of level 3 64, and the kernel half starts at page 128.  The pool is used  *)
(* up while vmm_init runs.  bin/sh is missing, no ELF file, or a program in  *)
(* the heap's two pages, one whose data lies behind them, one with two        *)
(* segments in the same page, one with more pages than there are frames, two  *)
(* with more contents than memory (within the heap and behind it), two whose  *)
(* size wraps to many pages and to one, and one that uses the frames up.      *)
(***************************************************************************)
EXTENDS Loader

MCVirt == {64, 128}
MCTarget == {0, 1}
MCWatched == {0, 3, 7, 8, 9, 10, 12, 15, 16, 31, 64, 65, 128, 129}
CleanRam == {Empty}

\* A frame with the contents of a table that was in it before.
DirtyRam == {Empty, [i \in Index |-> BASE]}

MCGarbage == {0, BASE}

S(t, a, n, f) == [type |-> t, vaddr |-> a, memsz |-> n, filesz |-> f]
Elf(segments) == [valid |-> TRUE, segments |-> segments]
MCPrograms == { [valid |-> FALSE, segments |-> << >>],
                Elf(<<S(6, 0, 0, 0), S(1, 32, 7, 5)>>), Elf(<<S(1, 33, 2, 2), S(1, 35, 2, 1)>>),
                Elf(<<S(1, 36, 4, 4), S(1, 40, 4, 0)>>), Elf(<<S(1, 32, 0, 0), S(1, 32, 12, 3)>>),
                Elf(<<S(1, 32, 0, 3), S(1, 32, 3, 6)>>), Elf(<<S(1, 36, 2, 5)>>),
                Elf(<<S(1, 32, 8, 8), S(1, 33, WORD - 5, 4)>>), Elf(<<S(1, 35, WORD - 3, 1)>>),
                Elf([i \in 1 .. 6 |-> S(1, 32, 4, 4)]) }
=============================================================================
