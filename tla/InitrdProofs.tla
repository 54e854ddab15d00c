---------------------------- MODULE InitrdProofs ----------------------------
(***************************************************************************)
(* For every archive, damaged in any way: the table of files stays inside    *)
(* the module, every turn of the walk's loop takes it a header further, and  *)
(* the files before the first damaged one are all found.                    *)
(***************************************************************************)
EXTENDS Initrd, TLAPS

File == [name : STRING, at : Nat, size : Nat, data : Nat]

\* What makes FilesInArchive inductive: the table is empty until start and end are
\* known, and the walk never stands before the start.
InitrdInv ==
    /\ boot \in Boots
    /\ start \in Nat /\ end \in Nat /\ p \in Nat
    /\ start <= p
    /\ initrd_files \in Seq(File)
    /\ pc = "module" => initrd_files = << >>
    /\ FilesInArchive

\* A field of a header, whatever its characters are, is a number.
LEMMA DigitNat == \A c \in 0 .. 127 : Digit(c) \in Nat
BY DEF Digit

LEMMA ShiftNat == \A v \in Nat, c \in 0 .. 127 : shift_in(v, c) \in Nat
<1> SUFFICES ASSUME NEW v \in Nat, NEW c \in 0 .. 127 PROVE shift_in(v, c) \in Nat
  OBVIOUS
<1>1. Digit(c) \in Nat
  BY DigitNat
<1> QED BY <1>1 DEF shift_in

LEMMA HexNat == \A s \in Field : hex8_to_u32(s) \in Nat
<1> SUFFICES ASSUME NEW s \in Field PROVE hex8_to_u32(s) \in Nat
  OBVIOUS
<1>1. /\ s[1] \in 0 .. 127 /\ s[2] \in 0 .. 127 /\ s[3] \in 0 .. 127 /\ s[4] \in 0 .. 127
      /\ s[5] \in 0 .. 127 /\ s[6] \in 0 .. 127 /\ s[7] \in 0 .. 127 /\ s[8] \in 0 .. 127
  BY DEF Field
<1>2. 0 \in Nat
  OBVIOUS
<1> QED BY <1>1, <1>2, ShiftNat, Zenon DEF hex8_to_u32

\* align4_ptr rounds up.
LEMMA AlignUp == \A x \in Nat : align4_ptr(x) \in Nat /\ x <= align4_ptr(x)
BY DEF align4_ptr

\* Where a header leads: contents and the next header lie behind it, in this order.
LEMMA HeaderShape ==
    ASSUME NEW a \in Nat, NEW h \in Header
    PROVE  /\ hex8_to_u32(h.filesize) \in Nat
           /\ file_data(a, h) \in Nat
           /\ next_header(a, h) \in Nat
           /\ a + HDR <= file_data(a, h)
           /\ file_data(a, h) + hex8_to_u32(h.filesize) <= next_header(a, h)
<1>1. hex8_to_u32(h.namesize) \in Nat /\ hex8_to_u32(h.filesize) \in Nat
  BY HexNat DEF Header
<1>2. HDR \in Nat
  BY InitrdAssumption
<1>3. file_data(a, h) \in Nat /\ a + HDR + hex8_to_u32(h.namesize) <= file_data(a, h)
  BY <1>1, <1>2, AlignUp DEF file_data
<1>4. /\ next_header(a, h) \in Nat
      /\ file_data(a, h) + hex8_to_u32(h.filesize) <= next_header(a, h)
  BY <1>1, <1>3, AlignUp DEF next_header
<1> QED BY <1>1, <1>2, <1>3, <1>4

LEMMA ElementOfSeq ==
    ASSUME NEW S, NEW s \in Seq(S), NEW i \in DOMAIN s PROVE s[i] \in S
OBVIOUS

LEMMA InitrdInvInit == InitrdInit => InitrdInv
BY DEF InitrdInit, InitrdInv, FilesInArchive

LEMMA InitrdInvStep == InitrdInv /\ [InitrdNext]_initrdVars => InitrdInv'
<1> SUFFICES ASSUME InitrdInv, [InitrdNext]_initrdVars PROVE InitrdInv'
  OBVIOUS
<1> USE DEF InitrdInv
<1>1. CASE kernel_main_module
  <2>1. start' \in Nat /\ end' \in Nat
    <3>1. boot.tags \in Seq([type : Nat, mod_start : Nat, mod_end : Nat])
      BY InitrdAssumption
    <3>2. ModuleTag(boot.tags) = 0 \/ ModuleTag(boot.tags) \in DOMAIN boot.tags
      BY DEF ModuleTag
    <3>3. CASE ModuleTag(boot.tags) = 0
      BY <1>1, <3>3 DEF kernel_main_module, ModuleStart, ModuleEnd
    <3>4. CASE ModuleTag(boot.tags) # 0
      <4> DEFINE i == ModuleTag(boot.tags)
      <4>1. boot.tags[i] \in [type : Nat, mod_start : Nat, mod_end : Nat]
        <5>1. i \in DOMAIN boot.tags
          BY <3>2, <3>4
        <5> HIDE DEF i
        <5> QED BY <3>1, <5>1, ElementOfSeq
      <4>2. start' = boot.tags[i].mod_start /\ end' = boot.tags[i].mod_end
        BY <1>1, <3>4 DEF kernel_main_module, ModuleStart, ModuleEnd
      <4> QED BY <4>1, <4>2
    <3> QED BY <3>3, <3>4
  <2>2. initrd_files' = << >> /\ p' = start' /\ pc' = "walk" /\ boot' = boot
    BY <1>1 DEF kernel_main_module
  <2> QED BY <2>1, <2>2 DEF FilesInArchive
<1>2. CASE walk_file
  <2> DEFINE h == boot.headers[p]
             f == [name |-> h.name, at |-> p + HDR,
                   size |-> hex8_to_u32(h.filesize), data |-> file_data(p, h)]
  <2>1. h \in Header /\ HDR \in Nat
    BY <1>2, InitrdAssumption DEF walk_file, GoesOn
  <2>2. /\ f.at = p + HDR /\ f.data = file_data(p, h) /\ f.size = hex8_to_u32(h.filesize)
        /\ f \in File
    <3>1. h.name \in STRING
      BY <2>1 DEF Header
    <3> HIDE DEF h
    <3>2. /\ p + HDR \in Nat /\ file_data(p, h) \in Nat
          /\ hex8_to_u32(h.filesize) \in Nat
      <4>1. p \in Nat
        OBVIOUS
      <4>2. p + HDR \in Nat
        BY <2>1, <4>1
      <4> QED BY <2>1, <4>1, <4>2, HeaderShape, Zenon
    <3> QED BY <3>1, <3>2 DEF File
  <2>3. /\ start + HDR <= f.at /\ f.at <= f.data
        /\ f.data + f.size <= end
    <3>1. next_header(p, h) <= end
      BY <1>2 DEF walk_file, GoesOn
    <3>2. p \in Nat /\ start \in Nat /\ end \in Nat /\ start <= p
      OBVIOUS
    <3> HIDE DEF f, h, InitrdInv
    <3>3. /\ file_data(p, h) \in Nat /\ hex8_to_u32(h.filesize) \in Nat
          /\ next_header(p, h) \in Nat
          /\ p + HDR <= file_data(p, h)
          /\ file_data(p, h) + hex8_to_u32(h.filesize) <= next_header(p, h)
      BY <2>1, <3>2, HeaderShape, Zenon
    <3>4. start + HDR <= p + HDR
      BY <2>1, <3>2
    <3>5. file_data(p, h) + hex8_to_u32(h.filesize) <= end
      BY <3>1, <3>2, <3>3
    <3> QED BY <2>2, <3>3, <3>4, <3>5
  <2>4. p' = next_header(p, h) /\ p' \in Nat /\ start <= p'
    <3>1. p' = next_header(p, h)
      BY <1>2 DEF walk_file, advance
    <3>2. p \in Nat /\ start \in Nat /\ start <= p
      OBVIOUS
    <3> HIDE DEF h, InitrdInv
    <3>3. /\ file_data(p, h) \in Nat /\ hex8_to_u32(h.filesize) \in Nat
          /\ next_header(p, h) \in Nat
          /\ p + HDR <= file_data(p, h)
          /\ file_data(p, h) + hex8_to_u32(h.filesize) <= next_header(p, h)
      BY <2>1, <3>2, HeaderShape, Zenon
    <3>4. start <= next_header(p, h)
      BY <2>1, <3>2, <3>3
    <3> QED BY <3>1, <3>3, <3>4
  <2>5. UNCHANGED <<boot, start, end, pc>> /\ pc # "module"
    BY <1>2 DEF walk_file
  <2>6. initrd_files' = initrd_files \/ initrd_files' = Append(initrd_files, f)
    BY <1>2 DEF walk_file
  <2> HIDE DEF f, h
  <2>7. initrd_files' \in Seq(File)
    BY <2>2, <2>6
  <2>8. FilesInArchive'
    <3> SUFFICES ASSUME NEW i \in DOMAIN initrd_files'
                 PROVE  /\ start + HDR <= initrd_files'[i].at
                        /\ initrd_files'[i].at <= initrd_files'[i].data
                        /\ initrd_files'[i].data + initrd_files'[i].size <= end
      BY <2>5 DEF FilesInArchive
    <3>1. CASE i \in DOMAIN initrd_files /\ initrd_files'[i] = initrd_files[i]
      BY <3>1 DEF FilesInArchive
    <3>2. CASE initrd_files'[i] = f
      BY <3>2, <2>3
    <3>3. \/ i \in DOMAIN initrd_files /\ initrd_files'[i] = initrd_files[i]
          \/ initrd_files'[i] = f
      BY <2>2, <2>6
    <3> QED BY <3>1, <3>2, <3>3
  <2> QED BY <2>4, <2>5, <2>7, <2>8
<1>3. CASE walk_ends
  BY <1>3 DEF walk_ends, FilesInArchive
<1>4. CASE ReadFile
  BY <1>4 DEF ReadFile, FilesInArchive
<1>5. CASE UNCHANGED initrdVars
  BY <1>5 DEF initrdVars, FilesInArchive
<1> QED BY <1>1, <1>2, <1>3, <1>4, <1>5 DEF InitrdNext

\* Whatever sizes the headers of an archive claim, initrd_init records no file that
\* does not lie inside the module the boot loader named.
THEOREM TableInsideModule == InitrdSpec => []FilesInArchive
<1>1. InitrdInv => FilesInArchive
  BY DEF InitrdInv
<1> QED BY <1>1, InitrdInvInit, InitrdInvStep, PTL DEF InitrdSpec

\* Each turn of the loop moves the walk forward by at least a header, so it cannot go
\* round in circles, whatever the sizes are.
WalkMovesOn == [][pc = "walk" /\ pc' = "walk" => p + HDR <= p']_initrdVars

THEOREM WalkForward == InitrdSpec => WalkMovesOn
<1>1. InitrdInv /\ [InitrdNext]_initrdVars
        => [pc = "walk" /\ pc' = "walk" => p + HDR <= p']_initrdVars
  <2> SUFFICES ASSUME InitrdInv, InitrdNext, pc = "walk", pc' = "walk"
               PROVE  p + HDR <= p'
    OBVIOUS
  <2>1. walk_file
    BY DEF InitrdNext, kernel_main_module, walk_ends, ReadFile
  <2> DEFINE h == boot.headers[p]
  <2>2. h \in Header /\ p' = next_header(p, h) /\ p \in Nat
    BY <2>1, InitrdAssumption DEF InitrdInv, walk_file, GoesOn, advance
  <2> HIDE DEF h
  <2> QED BY <2>2, HeaderShape, InitrdAssumption
<1> QED BY <1>1, InitrdInvInit, InitrdInvStep, PTL DEF InitrdSpec, WalkMovesOn

\* A remainder that is its own dividend.
LEMMA SmallMod == \A n \in Nat : n < WORD => n % WORD = n
BY InitrdAssumption

\* What initrd_read copies stays inside the file unless off + len has wrapped.
ReadInv ==
    /\ initrd_files \in Seq(File)
    /\ copied \in [size : Nat, off : Nat, len : Nat, n : Int]
    /\ ReadStaysInFile

\* initrd_read never copies past the end of its file, for every file, offset and
\* length whose sum fits a size_t.
THEOREM ReadInsideFile == InitrdSpec => []ReadStaysInFile
<1>1. InitrdInit => ReadInv
  BY DEF InitrdInit, ReadInv, ReadStaysInFile, Nothing
<1>2. InitrdInv /\ InitrdInv' /\ ReadInv /\ [InitrdNext]_initrdVars => ReadInv'
  <2> SUFFICES ASSUME InitrdInv, InitrdInv', ReadInv, [InitrdNext]_initrdVars PROVE ReadInv'
    OBVIOUS
  <2>1. initrd_files' \in Seq(File)
    BY DEF InitrdInv
  <2>2. CASE UNCHANGED copied
    BY <2>1, <2>2 DEF ReadInv, ReadStaysInFile
  <2>3. CASE ReadFile
    <3>1. PICK nm \in Names, r \in Reads :
            LET i == initrd_find(nm)
                f == initrd_files[i]
            IN  copied' = IF i = 0 THEN Nothing
                          ELSE [size |-> f.size, off |-> r.off, len |-> r.len,
                                n |-> initrd_read(f.size, r.off, r.len)]
      BY <2>3 DEF ReadFile
    <3>2. r.off \in Nat /\ r.len \in Nat
      BY InitrdAssumption
    <3>3. CASE initrd_find(nm) = 0
      <4>1. copied' = Nothing
        BY <3>1, <3>3
      <4> QED BY <2>1, <4>1 DEF ReadInv, ReadStaysInFile, Nothing
    <3>4. CASE initrd_find(nm) # 0
      <4> DEFINE size == initrd_files[initrd_find(nm)].size
                 n == initrd_read(size, r.off, r.len)
      <4>1. copied' = [size |-> size, off |-> r.off, len |-> r.len, n |-> n]
        BY <3>1, <3>4
      <4>2. size \in Nat
        <5> DEFINE k == initrd_find(nm)
        <5>1. k \in DOMAIN initrd_files
          BY <3>4 DEF initrd_find
        <5> HIDE DEF k
        <5>2. initrd_files[k] \in File
          BY <5>1, ElementOfSeq DEF ReadInv
        <5> QED BY <5>2 DEF File, k
      <4> HIDE DEF size
      <4>3. n \in Int /\ (r.off + n > size => n = 0 \/ r.off + r.len >= WORD)
        <5>1. CASE r.off + r.len < WORD
          <6>1. (r.off + r.len) % WORD = r.off + r.len
            BY <3>2, <5>1, SmallMod
          <6> QED BY <3>2, <4>2, <6>1 DEF initrd_read
        <5>2. CASE r.off + r.len >= WORD
          BY <3>2, <4>2, <5>2 DEF initrd_read
        <5> QED BY <5>1, <5>2, <3>2, InitrdAssumption
      <4> HIDE DEF n
      <4> QED BY <2>1, <3>2, <4>1, <4>2, <4>3 DEF ReadInv, ReadStaysInFile
    <3> QED BY <3>3, <3>4
  <2> QED BY <2>2, <2>3 DEF InitrdNext, initrdVars, kernel_main_module, walk_file, walk_ends
<1>3. ReadInv => ReadStaysInFile
  BY DEF ReadInv
<1> QED BY <1>1, <1>2, <1>3, InitrdInvInit, InitrdInvStep, PTL DEF InitrdSpec

-----------------------------------------------------------------------------
(* Intact files are found *)

\* A digit is read as what the archiver meant by it.
LEMMA DigitInverts == \A d \in 0 .. 15, c \in 0 .. 127 : Numeral(c, d) => Digit(c) = d
BY DEF Numeral, Digit

LEMMA LastDigit == ASSUME NEW q \in Int PROVE q % 16 = q - 16 * (q \div 16)
BY SMT

\* A digit more: q is what the digits so far and the next one make.
LEMMA NextDigit ==
    ASSUME NEW q \in Nat, NEW r, r = q \div 16, NEW c, Digit(c) = q % 16
    PROVE  shift_in(r, c) = q
<1>1. q % 16 = q - 16 * (q \div 16) /\ q \div 16 \in Int
  BY LastDigit, SMT
<1> QED BY <1>1, SMT DEF shift_in

\* hex8_to_u32 inverts the archiver's encoding, for every number of 32 bits.
LEMMA HexInverts ==
    ASSUME NEW s \in Field, NEW n, Encodes(s, n)
    PROVE  hex8_to_u32(s) = n
<1>1. n \in Nat /\ n \div 268435456 < 16
  BY SMT DEF Encodes, Weight
<1>2. \A k \in 1 .. 8 : s[k] \in 0 .. 127
  BY DEF Field
<1>3. /\ Digit(s[1]) = (n \div 268435456) % 16 /\ Digit(s[2]) = (n \div 16777216) % 16
      /\ Digit(s[3]) = (n \div 1048576) % 16 /\ Digit(s[4]) = (n \div 65536) % 16
      /\ Digit(s[5]) = (n \div 4096) % 16 /\ Digit(s[6]) = (n \div 256) % 16
      /\ Digit(s[7]) = (n \div 16) % 16 /\ Digit(s[8]) = (n \div 1) % 16
  <2>1. \A k \in 1 .. 8 : Weight[k] \in Nat \ {0}
    <3>1. \A k \in 1 .. 8 : k = 1 \/ k = 2 \/ k = 3 \/ k = 4 \/ k = 5 \/ k = 6 \/ k = 7 \/ k = 8
      OBVIOUS
    <3> QED BY <3>1, SMT DEF Weight
  <2>2. \A w \in Nat \ {0} : (n \div w) % 16 \in 0 .. 15
    <3> SUFFICES ASSUME NEW w \in Nat \ {0} PROVE (n \div w) % 16 \in 0 .. 15
      OBVIOUS
    <3>1. n \div w \in Nat
      BY <1>1
    <3> QED BY <3>1
  <2>3. \A k \in 1 .. 8 : Digit(s[k]) = (n \div Weight[k]) % 16
    <3> SUFFICES ASSUME NEW k \in 1 .. 8 PROVE Digit(s[k]) = (n \div Weight[k]) % 16
      OBVIOUS
    <3>1. PICK d \in 0 .. 15 : d = (n \div Weight[k]) % 16
      BY <2>1, <2>2
    <3>2. Numeral(s[k], d)
      BY <3>1 DEF Encodes
    <3> QED BY <1>2, <3>1, <3>2, DigitInverts
  <2> QED BY <2>3, SMT DEF Weight
<1>4. /\ n \div 268435456 \in Nat /\ n \div 16777216 \in Nat /\ n \div 1048576 \in Nat
      /\ n \div 65536 \in Nat /\ n \div 4096 \in Nat /\ n \div 256 \in Nat
      /\ n \div 16 \in Nat
  BY <1>1, SMT
<1>5. /\ (n \div 16777216) \div 16 = n \div 268435456
      /\ (n \div 1048576) \div 16 = n \div 16777216
      /\ (n \div 65536) \div 16 = n \div 1048576
      /\ (n \div 4096) \div 16 = n \div 65536
      /\ (n \div 256) \div 16 = n \div 4096
      /\ (n \div 16) \div 16 = n \div 256
  BY <1>1, SMT
<1>6. n \div 1 = n
  BY <1>1, SMT
<1>7. shift_in(0, s[1]) = n \div 268435456
  <2>1. (n \div 268435456) % 16 = n \div 268435456
    BY <1>1, <1>4, SMT
  <2> QED BY <1>3, <1>4, <2>1, SMT DEF shift_in
<1>8. shift_in(n \div 268435456, s[2]) = n \div 16777216
  BY <1>3, <1>4, <1>5, NextDigit, SMT
<1>9. shift_in(n \div 16777216, s[3]) = n \div 1048576
  BY <1>3, <1>4, <1>5, NextDigit, SMT
<1>10. shift_in(n \div 1048576, s[4]) = n \div 65536
  BY <1>3, <1>4, <1>5, NextDigit, SMT
<1>11. shift_in(n \div 65536, s[5]) = n \div 4096
  BY <1>3, <1>4, <1>5, NextDigit, SMT
<1>12. shift_in(n \div 4096, s[6]) = n \div 256
  BY <1>3, <1>4, <1>5, NextDigit, SMT
<1>13. shift_in(n \div 256, s[7]) = n \div 16
  BY <1>3, <1>4, <1>5, NextDigit, SMT
<1>14. shift_in(n \div 16, s[8]) = n
  BY <1>1, <1>3, <1>6, NextDigit, SMT
<1> QED
  BY <1>7, <1>8, <1>9, <1>10, <1>11, <1>12, <1>13, <1>14, SMT DEF hex8_to_u32

\* Padding an address and padding an offset agree in an aligned module.
LEMMA AlignPads ==
    ASSUME NEW a \in Nat, a % 4 = 0, NEW x \in Nat
    PROVE  align4_ptr(a + x) = a + Pad(x) /\ Pad(x) \in Nat /\ x <= Pad(x)
BY DEF align4_ptr, Pad

\* As many of the first k files as the table has room for.
Room(k) == IF k < INITRD_MAX_FILES THEN k ELSE INITRD_MAX_FILES

\* Entry i of the table is the archive's file i.
Matches(i) == LET f == initrd_files[i]
              IN  [name |-> f.name, size |-> f.size, data |-> f.data - start] = boot.files[i]

\* The walk has gone through the first k files.
WalkedTo(k) == /\ p = start + boot.offsets[k + 1]
               /\ Len(initrd_files) = Room(k)
               /\ \A i \in 1 .. Room(k) : Matches(i)

\* The walk has gone on behind the intact files, into the damaged part.
WalkedBeyond == /\ boot.good < Len(boot.files)
                /\ Len(initrd_files) >= Room(boot.good)
                /\ \A i \in 1 .. Room(boot.good) : Matches(i)

\* What makes IntactPrefixFound inductive: the walk goes from header to header as the
\* archiver has put them, and does not stop before the last intact one.
PrefixInv ==
    /\ pc # "module" => start = ModuleStart(boot.tags) /\ end = ModuleEnd(boot.tags)
    /\ pc # "module" /\ start % 4 = 0 =>
          \/ WalkedBeyond
          \/ \E k \in 0 .. boot.good : WalkedTo(k) /\ (pc = "ready" => k = boot.good)

\* What initrd_init reads from an intact header is what the archiver has put there.
ReadsIntact(k) ==
    LET h == boot.headers[p]
    IN  /\ GoesOn
        /\ boot.files[k + 1] = [name |-> h.name, size |-> hex8_to_u32(h.filesize),
                                data |-> file_data(p, h) - start]
        /\ next_header(p, h) = start + boot.offsets[k + 2]

LEMMA IntactHeader ==
    ASSUME InitrdInv, PrefixInv, pc # "module", start % 4 = 0,
           NEW k \in 0 .. (boot.good - 1), p = start + boot.offsets[k + 1]
    PROVE  ReadsIntact(k)
<1> DEFINE h == boot.headers[p]
           f == boot.files[k + 1]
           o == boot.offsets
<1>1. /\ LaidOut(boot) /\ start \in Nat /\ end \in Nat /\ p \in Nat /\ HDR \in Nat
      /\ start = ModuleStart(boot.tags) /\ end = ModuleEnd(boot.tags)
  BY ArchiveAssumption, InitrdAssumption DEF InitrdInv, PrefixInv
<1>2. boot.good \in Nat /\ o \in [1 .. (boot.good + 1) -> Nat]
  BY <1>1 DEF LaidOut
<1>3. k \in Nat /\ k + 1 \in 1 .. boot.good /\ k + 2 \in 1 .. (boot.good + 1) /\ k + 1 + 1 = k + 2
  BY <1>2
<1>4. o[k + 1] \in Nat /\ o[k + 2] \in Nat
  BY <1>2, <1>3
<1>5. /\ p \in DOMAIN boot.headers
      /\ f = [name |-> h.name, size |-> f.size, data |-> f.data]
      /\ f.name # "TRAILER!!!" /\ Encodes(h.filesize, f.size)
      /\ \E n \in 0 .. f.data : /\ Encodes(h.namesize, n)
                                /\ f.data = Pad(o[k + 1] + HDR + n)
      /\ o[k + 2] = Pad(f.data + f.size)
      /\ start + o[k + 2] <= end
  BY <1>1, <1>3 DEF LaidOut
<1>6. h \in Header /\ h.filesize \in Field /\ h.namesize \in Field
  <2>1. h \in Header
    BY <1>5, InitrdAssumption DEF InitrdInv
  <2> QED BY <2>1 DEF Header
<1>7. PICK n : /\ Encodes(h.namesize, n) /\ f.data = Pad(o[k + 1] + HDR + n)
  BY <1>5
<1>8. n \in Nat /\ f.size \in Nat
  BY <1>5, <1>7 DEF Encodes
<1>9. hex8_to_u32(h.namesize) = n /\ hex8_to_u32(h.filesize) = f.size
  BY <1>5, <1>6, <1>7, HexInverts
<1> HIDE DEF h, f, o
<1>10. file_data(p, h) = start + f.data /\ f.data \in Nat
  <2> DEFINE x == o[k + 1] + HDR + n
  <2>1. x \in Nat /\ p + HDR + n = start + x
    BY <1>1, <1>4, <1>8 DEF o
  <2> HIDE DEF x
  <2>2. align4_ptr(start + x) = start + Pad(x) /\ Pad(x) \in Nat
    BY <1>1, <2>1, AlignPads
  <2>3. f.data = Pad(x)
    BY <1>7 DEF x
  <2> QED BY <1>9, <2>1, <2>2, <2>3 DEF file_data
<1>11. next_header(p, h) = start + o[k + 2]
  <2>1. f.data + f.size \in Nat /\ start + f.data + f.size = start + (f.data + f.size)
    BY <1>1, <1>8, <1>10
  <2>2. align4_ptr(start + (f.data + f.size)) = start + Pad(f.data + f.size)
    BY <1>1, <2>1, AlignPads
  <2> QED BY <1>5, <1>9, <1>10, <2>1, <2>2 DEF next_header
<1>12. p + HDR <= end
  <2>1. /\ file_data(p, h) \in Nat /\ hex8_to_u32(h.filesize) \in Nat
        /\ next_header(p, h) \in Nat
        /\ p + HDR <= file_data(p, h)
        /\ file_data(p, h) + hex8_to_u32(h.filesize) <= next_header(p, h)
    BY <1>1, <1>6, HeaderShape, Zenon
  <2>2. next_header(p, h) <= end
    BY <1>5, <1>11
  <2> QED BY <1>1, <2>1, <2>2
<1>13. h.name = f.name
  BY <1>5
<1>14. GoesOn
  <2>1. ~IsTrailer(h)
    BY <1>5, <1>13 DEF IsTrailer
  <2> QED BY <1>5, <1>11, <1>12, <2>1 DEF GoesOn, h
<1>15. file_data(p, h) - start = f.data
  BY <1>1, <1>10
<1>16. f = [name |-> h.name, size |-> hex8_to_u32(h.filesize), data |-> file_data(p, h) - start]
  BY <1>5, <1>9, <1>13, <1>15
<1> QED BY <1>11, <1>14, <1>16 DEF ReadsIntact, h, f, o

\* Behind the last file of an archive that is intact as a whole the walk stops.
LEMMA StopsBehindLast ==
    ASSUME InitrdInv, PrefixInv, pc # "module", boot.good = Len(boot.files),
           p = start + boot.offsets[boot.good + 1]
    PROVE  ~GoesOn
<1>1. /\ LaidOut(boot) /\ start \in Nat /\ end \in Nat /\ p \in Nat /\ HDR \in Nat
      /\ start = ModuleStart(boot.tags) /\ end = ModuleEnd(boot.tags)
  BY ArchiveAssumption, InitrdAssumption DEF InitrdInv, PrefixInv
<1>2. \/ p + HDR > end
      \/ p \notin DOMAIN boot.headers
      \/ boot.headers[p].name = "TRAILER!!!" /\ Encodes(boot.headers[p].namesize, 11)
  BY <1>1 DEF LaidOut
<1>3. CASE p + HDR > end
  BY <1>1, <1>3 DEF GoesOn
<1>4. CASE p \notin DOMAIN boot.headers
  BY <1>4 DEF GoesOn
<1>5. CASE /\ boot.headers[p].name = "TRAILER!!!" /\ Encodes(boot.headers[p].namesize, 11)
           /\ p \in DOMAIN boot.headers
  <2>1. boot.headers[p].namesize \in Field
    BY <1>5, InitrdAssumption DEF InitrdInv, Header
  <2>2. hex8_to_u32(boot.headers[p].namesize) = 11
    BY <1>5, <2>1, HexInverts
  <2> QED BY <1>5, <2>2 DEF GoesOn, IsTrailer
<1> QED BY <1>2, <1>3, <1>4, <1>5

LEMMA PrefixInvStep ==
    InitrdInv /\ PrefixInv /\ [InitrdNext]_initrdVars => PrefixInv'
<1> SUFFICES ASSUME InitrdInv, PrefixInv, [InitrdNext]_initrdVars PROVE PrefixInv'
  OBVIOUS
<1>1. /\ boot \in Boots /\ start \in Nat /\ LaidOut(boot) /\ INITRD_MAX_FILES \in Nat
      /\ boot.good \in Nat /\ Len(boot.files) >= boot.good
      /\ initrd_files \in Seq(File) /\ Len(initrd_files) \in Nat
  <2>1. boot \in Boots /\ LaidOut(boot)
    BY ArchiveAssumption DEF InitrdInv
  <2>2. boot.good \in 0 .. Len(boot.files)
    BY <2>1 DEF LaidOut
  <2> QED BY <2>1, <2>2, InitrdAssumption DEF InitrdInv
<1>2. CASE kernel_main_module
  <2>1. /\ start' = ModuleStart(boot.tags) /\ end' = ModuleEnd(boot.tags) /\ p' = start'
        /\ pc' = "walk" /\ boot' = boot /\ initrd_files' = << >>
    BY <1>2 DEF kernel_main_module, InitrdInv
  <2>2. boot.offsets[1] = 0 /\ start' \in Nat
    <3>1. start' \in Nat
      BY InitrdInvStep DEF InitrdInv
    <3> QED BY <1>1, <3>1 DEF LaidOut
  <2>3. Room(0) = 0
    BY <1>1 DEF Room
  <2>4. WalkedTo(0)'
    BY <2>1, <2>2, <2>3 DEF WalkedTo, Room
  <2>5. 0 \in 0 .. boot.good
    BY <1>1
  <2> QED BY <2>1, <2>4, <2>5 DEF PrefixInv
<1>3. CASE walk_file
  <2> DEFINE h == boot.headers[p]
             g == [name |-> h.name, at |-> p + HDR,
                   size |-> hex8_to_u32(h.filesize), data |-> file_data(p, h)]
  <2>1. /\ pc = "walk" /\ GoesOn /\ p' = next_header(p, h)
        /\ UNCHANGED <<boot, pc, start, end, copied>>
        /\ initrd_files' = IF Len(initrd_files) < INITRD_MAX_FILES
                           THEN Append(initrd_files, g) ELSE initrd_files
    BY <1>3 DEF walk_file, advance
  <2>2. /\ start' = ModuleStart(boot'.tags) /\ end' = ModuleEnd(boot'.tags)
    BY <2>1 DEF PrefixInv
  <2> SUFFICES ASSUME start % 4 = 0
               PROVE  \/ WalkedBeyond'
                      \/ \E k \in 0 .. boot.good : WalkedTo(k)'
    BY <2>1, <2>2 DEF PrefixInv
  <2>3. \A i \in 1 .. Len(initrd_files) : initrd_files'[i] = initrd_files[i]
    BY <1>1, <2>1
  <2>4. \A i \in 1 .. Len(initrd_files) : Matches(i) => Matches(i)'
    BY <2>1, <2>3 DEF Matches
  <2>5. Len(initrd_files') >= Len(initrd_files) /\ Len(initrd_files') \in Nat
    BY <1>1, <2>1
  <2>6. CASE WalkedBeyond
    <3>1. Room(boot.good) \in Nat /\ Room(boot.good) <= Len(initrd_files)
      BY <1>1, <2>6 DEF WalkedBeyond, Room
    <3>2. \A i \in 1 .. Room(boot.good) : Matches(i)'
      BY <1>1, <2>4, <2>6, <3>1 DEF WalkedBeyond
    <3>3. Len(initrd_files') >= Room(boot.good)
      BY <1>1, <2>5, <3>1
    <3> QED BY <2>1, <2>6, <3>2, <3>3 DEF WalkedBeyond, Room
  <2>7. ASSUME NEW k \in 0 .. boot.good, WalkedTo(k), k < boot.good
        PROVE  \E j \in 0 .. boot.good : WalkedTo(j)'
    <3>1. p = start + boot.offsets[k + 1] /\ Len(initrd_files) = Room(k) /\ k \in Nat
      BY <2>7 DEF WalkedTo
    <3>2. ReadsIntact(k)
      <4>1. k \in 0 .. (boot.good - 1) /\ pc # "module"
        BY <1>1, <2>1, <2>7
      <4> QED BY <3>1, <4>1, IntactHeader
    <3>3. /\ p' = start + boot.offsets[k + 2]
          /\ boot.files[k + 1] = [name |-> g.name, size |-> g.size, data |-> g.data - start]
      BY <2>1, <3>2 DEF ReadsIntact
    <3> HIDE DEF g
    <3>4. Len(initrd_files') = Room(k + 1) /\ Room(k + 1) \in Nat
      BY <1>1, <2>1, <3>1 DEF Room
    <3>5. ASSUME NEW i \in 1 .. Room(k + 1) PROVE Matches(i)'
      <4>1. CASE i \in 1 .. Room(k)
        BY <2>4, <2>7, <3>1, <4>1 DEF WalkedTo
      <4>2. CASE i \notin 1 .. Room(k)
        <5>1. i = k + 1 /\ Len(initrd_files) = k /\ k < INITRD_MAX_FILES
          BY <1>1, <3>1, <3>5, <4>2 DEF Room
        <5>2. initrd_files'[i] = g
          BY <1>1, <2>1, <5>1
        <5> QED BY <2>1, <3>3, <5>1, <5>2 DEF Matches
      <4> QED BY <4>1, <4>2
    <3>6. k + 1 \in 0 .. boot.good /\ k + 1 + 1 = k + 2
      BY <1>1, <2>7
    <3>7. WalkedTo(k + 1)'
      BY <2>1, <3>3, <3>4, <3>5, <3>6 DEF WalkedTo, Room
    <3> QED BY <3>6, <3>7
  <2>8. ASSUME WalkedTo(boot.good)
        PROVE  WalkedBeyond'
    <3>1. /\ p = start + boot.offsets[boot.good + 1] /\ Len(initrd_files) = Room(boot.good)
      BY <2>8 DEF WalkedTo
    <3>2. boot.good # Len(boot.files)
      BY <2>1, <3>1, StopsBehindLast
    <3>3. boot.good < Len(boot.files)
      <4>1. Len(boot.files) \in Int
        BY <1>1, <3>2 DEF LaidOut
      <4> QED BY <1>1, <3>2, <4>1
    <3>4. \A i \in 1 .. Room(boot.good) : Matches(i)'
      BY <2>4, <2>8, <3>1 DEF WalkedTo
    <3>5. Len(initrd_files') >= Room(boot.good)
      BY <2>5, <3>1
    <3> QED BY <2>1, <3>3, <3>4, <3>5 DEF WalkedBeyond, Room
  <2>9. WalkedBeyond \/ \E k \in 0 .. boot.good : WalkedTo(k)
    BY <2>1 DEF PrefixInv
  <2>10. CASE \E k \in 0 .. boot.good : WalkedTo(k)
    <3>1. PICK k \in 0 .. boot.good : WalkedTo(k)
      BY <2>10
    <3>2. k = boot.good \/ k < boot.good
      BY <1>1
    <3> QED BY <2>7, <2>8, <3>1, <3>2
  <2> QED BY <2>6, <2>9, <2>10
<1>4. CASE walk_ends
  <2>1. /\ pc = "walk" /\ ~GoesOn /\ pc' = "ready"
        /\ UNCHANGED <<boot, start, end, p, initrd_files>>
    BY <1>4 DEF walk_ends
  <2>2. start' = ModuleStart(boot'.tags) /\ end' = ModuleEnd(boot'.tags)
    BY <2>1 DEF PrefixInv
  <2>3. WalkedBeyond => WalkedBeyond'
    BY <2>1 DEF WalkedBeyond, Matches, Room
  <2>4. \A k \in 0 .. boot.good : WalkedTo(k) => WalkedTo(k)'
    BY <2>1 DEF WalkedTo, Matches, Room
  <2>5. ASSUME start % 4 = 0, NEW k \in 0 .. boot.good, WalkedTo(k) PROVE k = boot.good
    <3> SUFFICES ASSUME k # boot.good PROVE FALSE
      OBVIOUS
    <3>1. k \in 0 .. (boot.good - 1)
      BY <1>1
    <3>2. p = start + boot.offsets[k + 1]
      BY <2>5 DEF WalkedTo
    <3>3. ReadsIntact(k)
      BY <2>1, <2>5, <3>1, <3>2, IntactHeader
    <3> QED BY <2>1, <3>3 DEF ReadsIntact
  <2> QED BY <2>1, <2>2, <2>3, <2>4, <2>5 DEF PrefixInv
<1>5. CASE ReadFile \/ UNCHANGED initrdVars
  <2>1. UNCHANGED <<boot, pc, start, end, p, initrd_files>>
    BY <1>5 DEF ReadFile, initrdVars
  <2>2. WalkedBeyond => WalkedBeyond'
    BY <2>1 DEF WalkedBeyond, Matches, Room
  <2>3. \A k \in 0 .. boot.good : WalkedTo(k) => WalkedTo(k)'
    BY <2>1 DEF WalkedTo, Matches, Room
  <2> QED BY <2>1, <2>2, <2>3 DEF PrefixInv
<1> QED BY <1>2, <1>3, <1>4, <1>5 DEF InitrdNext

\* From an aligned module initrd_init takes exactly the files before the first damaged
\* one, with the names, sizes and contents the archiver gave them, for every archive
\* and every size of the table.
THEOREM IntactFilesFound == InitrdSpec => []IntactPrefixFound
<1>1. InitrdInit => PrefixInv
  BY DEF InitrdInit, PrefixInv
<1>2. InitrdInv /\ PrefixInv => IntactPrefixFound
  <2> SUFFICES ASSUME InitrdInv, PrefixInv, pc = "ready", start % 4 = 0
               PROVE  /\ Len(initrd_files) >= Room(boot.good)
                      /\ \A i \in 1 .. Room(boot.good) : Matches(i)
                      /\ boot.good = Len(boot.files) => Len(initrd_files) = Room(boot.good)
    BY DEF IntactPrefixFound, Room, Matches
  <2>1. boot.good \in Nat /\ INITRD_MAX_FILES \in Nat
    BY ArchiveAssumption, InitrdAssumption DEF InitrdInv, LaidOut
  <2>2. Room(boot.good) \in Nat
    BY <2>1 DEF Room
  <2>3. WalkedBeyond \/ WalkedTo(boot.good)
    BY DEF PrefixInv
  <2>4. CASE WalkedBeyond
    BY <2>1, <2>4 DEF WalkedBeyond
  <2>5. CASE WalkedTo(boot.good)
    BY <2>2, <2>5 DEF WalkedTo
  <2> QED BY <2>3, <2>4, <2>5
<1> QED BY <1>1, <1>2, InitrdInvInit, InitrdInvStep, PrefixInvStep, PTL DEF InitrdSpec
=============================================================================
