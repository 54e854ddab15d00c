------------------------------ MODULE MCInitrd ------------------------------
(* Archives of up to three files, with a header of the real size, whose names  *)
(* and contents need padding or none; intact, cut off inside the last file, or *)
(* with one header damaged.  The table has room for two files.                 *)
EXTENDS Initrd

ASCII == <<48, 49, 50, 51, 52, 53, 54, 55, 56, 57, 97, 98, 67, 68, 101, 102>>
Hex(n) == [i \in 1 .. 8 |-> ASCII[1 + ((n \div (16 ^ (8 - i))) % 16)]]

Entry == { [name |-> "a", namesize |-> 2, filesize |-> 0],
           [name |-> "b", namesize |-> 3, filesize |-> 5],
           [name |-> "a", namesize |-> 11, filesize |-> 28] }
TRAILER == [name |-> "TRAILER!!!", namesize |-> 11, filesize |-> 0]

DataAt(o, e) == Pad(o + HDR + e.namesize)
Offsets(es) ==
    LET o[i \in 1 .. (Len(es) + 1)] ==
          IF i = 1 THEN 0 ELSE Pad(DataAt(o[i - 1], es[i - 1]) + es[i - 1].filesize)
    IN  o

Damages(n) == {[at |-> 0, how |-> "none"]} \cup [at : 1 .. n, how : {"magic", "digit", "large"}]
              \cup (IF n = 0 THEN {} ELSE {[at |-> n, how |-> "cut"]})

HeaderOf(e, how) ==
    [name |-> e.name, namesize |-> Hex(e.namesize),
     filesize |-> CASE how = "digit" -> [Hex(e.filesize) EXCEPT ![8] = 122]
                    [] how = "large" -> Hex(e.filesize + 4096)
                    [] OTHER -> Hex(e.filesize)]

\* The module at address s with the files es, then a trailer or not.
Boot(s, files, trailer, d, before) ==
    LET es == files \o (IF trailer THEN <<TRAILER>> ELSE << >>)
        o == Offsets(es)
        has == {i \in DOMAIN es : ~(d.at = i /\ d.how = "magic")}
        size == IF d.how = "cut" THEN o[Len(files) + 1] - 1 ELSE o[Len(es) + 1]
    IN  [tags |-> before \o <<[type |-> 3, mod_start |-> s, mod_end |-> s + size],
                              [type |-> 3, mod_start |-> 1, mod_end |-> 2],
                              [type |-> 0, mod_start |-> 0, mod_end |-> 0]>>,
         headers |-> [a \in {s + o[i] : i \in has} |->
                        LET i == CHOOSE i \in has : s + o[i] = a
                        IN  HeaderOf(es[i], IF d.at = i THEN d.how ELSE "none")],
         files |-> [i \in DOMAIN files |-> [name |-> files[i].name, size |-> files[i].filesize,
                                            data |-> DataAt(o[i], files[i])]],
         offsets |-> SubSeq(o, 1, IF d.at = 0 THEN Len(files) + 1 ELSE d.at),
         good |-> IF d.at = 0 THEN Len(files) ELSE d.at - 1]

NoModule == [tags |-> <<[type |-> 0, mod_start |-> 0, mod_end |-> 0],
                        [type |-> 3, mod_start |-> 4, mod_end |-> 8]>>,
             headers |-> << >>, files |-> << >>, offsets |-> <<0>>, good |-> 0]
OtherTag == <<[type |-> 6, mod_start |-> 0, mod_end |-> 0]>>

Archives == UNION {[1 .. n -> Entry] : n \in 0 .. 3}
MCBoots == {NoModule} \cup
    UNION { {Boot(s, es, t, d, IF t THEN OtherTag ELSE << >>) : d \in Damages(Len(es))}
            : s \in {4096, 4098}, es \in Archives, t \in BOOLEAN }
MCNames == {"a", "b", "c"}
MCReads == [off : {0, 4, 5}, len : {0, 1, 5, WORD - 4, WORD - 3}]
=============================================================================
