------------------------------- MODULE MCBoot -------------------------------
(* Pages of 4 bytes, a bitmap of 5 bits and a kernel that ends at 8.  Maps of  *)
(* up to two entries: available or not, below and across the kernel's end,     *)
(* aligned and not, smaller and larger than the default and than the bitmap.   *)
(* Every address below, in and above the regions is freed.                     *)
EXTENDS Boot

E(b, l, t) == [base_addr |-> b, length |-> l, type |-> t]
Entry == {E(0, 5, 1), E(0, 24, 1), E(8, 31, 1), E(9, 16, 1), E(9, 40, 2)}
Map(es) == [type |-> 6, entries |-> es]
Other == [type |-> 4, entries |-> << >>]
EndTag == [type |-> 0, entries |-> << >>]

MCInfos ==
    {[tags |-> <<Other, Map(<<e, g>>), EndTag>>, within |-> 3] : e \in Entry, g \in Entry}
    \cup {[tags |-> <<Map(<<e>>), Map(<<g>>)>>, within |-> n] : e \in Entry, g \in Entry, n \in 0 .. 2}
    \cup {[tags |-> <<EndTag, Map(<<e>>)>>, within |-> 2] : e \in Entry}
MCRegions == {KernelRegion(i) : i \in MCInfos}
MCAddresses == 0 .. 40
=============================================================================
