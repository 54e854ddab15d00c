------------------------------- MODULE Initrd -------------------------------
(***************************************************************************)
(* The initial ramdisk: which module kernel_main takes for it, the walk      *)
(* through the cpio archive that builds the table of files, finding a file   *)
(* and reading from it.                                                     *)
(*                                                                         *)
(*   kernel/initrd.c      initrd_init, initrd_find, initrd_read             *)
(*   kernel/main.c        the search for the boot module                    *)
(*                                                                         *)
(* Of the memory the walk sees only the headers: headers is a function from  *)
(* addresses to cpio headers, and an address outside its domain holds        *)
(* something without the magic number.  A boot is one of Boots, which have   *)
(* intact, truncated and damaged archives among them.                       *)
(***************************************************************************)
EXTENDS Integers, Sequences

CONSTANTS HDR,                \* sizeof(cpio_newc_header_t)
          INITRD_MAX_FILES,
          WORD,               \* 2^(width of size_t): off + len wraps at it
          Boots,              \* boot information and memory: see BootType
          Names,              \* names that are looked up
          Reads               \* [off, len] of reads

\* A character is its ASCII code, a header field is eight of them.
Field == [1 .. 8 -> 0 .. 127]
Header == [namesize : Field, filesize : Field, name : STRING]

ASSUME InitrdAssumption ==
    /\ HDR \in Nat \ {0} /\ INITRD_MAX_FILES \in Nat /\ WORD \in Nat \ {0}
    /\ Reads \subseteq [off : Nat, len : Nat]
    /\ \A b \in Boots : /\ b.tags \in Seq([type : Nat, mod_start : Nat, mod_end : Nat])
                        /\ DOMAIN b.headers \subseteq Nat
                        /\ \A a \in DOMAIN b.headers : b.headers[a] \in Header

VARIABLES boot,           \* what the boot loader left in memory
          pc,             \* module: search for it; walk: in initrd_init; ready: after it
          start, end,     \* the arguments of initrd_init
          p,              \* the walk's position
          initrd_files,   \* the table, of length initrd_file_count
          copied          \* the last initrd_read: file, arguments, bytes copied

initrdVars == <<boot, pc, start, end, p, initrd_files, copied>>

Nothing == [size |-> 0, off |-> 0, len |-> 0, n |-> 0]

InitrdInit ==
    /\ boot \in Boots
    /\ pc = "module"
    /\ start = 0 /\ end = 0 /\ p = 0
    /\ initrd_files = << >>
    /\ copied = Nothing

-----------------------------------------------------------------------------
(* Which module is the initrd *)

MULTIBOOT2_TAG_TYPE_MODULE == 3

\* The first module tag before the one that ends the list; 0 if there is none.
ModuleTag(tags) ==
    LET found == {i \in DOMAIN tags : /\ tags[i].type = MULTIBOOT2_TAG_TYPE_MODULE
                                      /\ \A j \in 1 .. (i - 1) :
                                            tags[j].type \notin {0, MULTIBOOT2_TAG_TYPE_MODULE}}
    IN  IF found = {} THEN 0 ELSE CHOOSE i \in found : TRUE

ModuleStart(tags) == IF ModuleTag(tags) = 0 THEN 0 ELSE tags[ModuleTag(tags)].mod_start
ModuleEnd(tags) == IF ModuleTag(tags) = 0 THEN 0 ELSE tags[ModuleTag(tags)].mod_end

kernel_main_module ==
    /\ pc = "module"
    /\ start' = ModuleStart(boot.tags) /\ end' = ModuleEnd(boot.tags)
    /\ p' = start'
    /\ pc' = "walk"
    /\ UNCHANGED <<boot, initrd_files, copied>>

-----------------------------------------------------------------------------
(* What an archiver writes (external: cpio -H newc) *)

\* The header field s holds the number n: eight hexadecimal digits, of either case.
Weight == <<268435456, 16777216, 1048576, 65536, 4096, 256, 16, 1>>
Numeral(c, d) == (d < 10 /\ c = 48 + d) \/ (d >= 10 /\ c \in {55 + d, 87 + d})
Encodes(s, n) == /\ n \in Nat /\ n \div Weight[1] < 16
                 /\ \A k \in 1 .. 8 : Numeral(s[k], (n \div Weight[k]) % 16)

\* Padding is counted from the beginning of the archive.
Pad(x) == x + ((4 - (x % 4)) % 4)

\* The files of a boot lie in the module one behind the other, the good ones intact: at
\* offset offsets[i] the header, then name and contents, each with its padding.  Behind
\* the last file comes the trailer, no header, or the end of the module.
LaidOut(b) ==
    LET s == ModuleStart(b.tags)
        e == ModuleEnd(b.tags)
        o == b.offsets
    IN  /\ b.good \in 0 .. Len(b.files)
        /\ o \in [1 .. (b.good + 1) -> Nat] /\ o[1] = 0
        /\ \A i \in 1 .. b.good :
              LET h == b.headers[s + o[i]]
                  f == b.files[i]
              IN  /\ s + o[i] \in DOMAIN b.headers
                  /\ f = [name |-> h.name, size |-> f.size, data |-> f.data]
                  /\ f.name # "TRAILER!!!" /\ Encodes(h.filesize, f.size)
                  /\ \E n \in 0 .. f.data : /\ Encodes(h.namesize, n)
                                            /\ f.data = Pad(o[i] + HDR + n)
                  /\ o[i + 1] = Pad(f.data + f.size)
                  /\ s + o[i + 1] <= e
        /\ b.good = Len(b.files) =>
              LET a == s + o[b.good + 1]
              IN  \/ a + HDR > e
                  \/ a \notin DOMAIN b.headers
                  \/ b.headers[a].name = "TRAILER!!!" /\ Encodes(b.headers[a].namesize, 11)

ASSUME ArchiveAssumption == \A b \in Boots : LaidOut(b)

-----------------------------------------------------------------------------
(* initrd_init *)

Digit(c) == CASE c \in 48 .. 57 -> c - 48
              [] c \in 97 .. 102 -> c - 97 + 10
              [] c \in 65 .. 70 -> c - 65 + 10
              [] OTHER -> 0

\* Eight digits fill a uint32_t exactly: nothing is shifted out.
shift_in(v, c) == 16 * v + Digit(c)
hex8_to_u32(s) ==
    shift_in(shift_in(shift_in(shift_in(shift_in(shift_in(shift_in(shift_in(
        0, s[1]), s[2]), s[3]), s[4]), s[5]), s[6]), s[7]), s[8])

align4_ptr(x) == 4 * ((x + 3) \div 4)

\* Mutant: the padding of the name is that of its size alone.
PadsNameSize(a, h) == a + HDR + align4_ptr(hex8_to_u32(h.namesize))

\* Where the contents of the file with header h at address a begin, and where the next
\* header is.
file_data(a, h) == align4_ptr(a + HDR + hex8_to_u32(h.namesize))
next_header(a, h) == align4_ptr(file_data(a, h) + hex8_to_u32(h.filesize))

\* strncmp of the name with "TRAILER!!!".
IsTrailer(h) == hex8_to_u32(h.namesize) = 11 /\ h.name = "TRAILER!!!"

\* Mutant: only the position of the contents is compared with the end.
GoesOnPastEnd ==
    /\ p + HDR <= end
    /\ p \in DOMAIN boot.headers
    /\ ~IsTrailer(boot.headers[p])
    /\ file_data(p, boot.headers[p]) <= end

\* A turn of the loop breaks off at none of its conditions.
GoesOn ==
    /\ p + HDR <= end
    /\ p \in DOMAIN boot.headers
    /\ ~IsTrailer(boot.headers[p])
    /\ next_header(p, boot.headers[p]) <= end

walk_ends ==
    /\ pc = "walk" /\ ~GoesOn
    /\ pc' = "ready"
    /\ UNCHANGED <<boot, start, end, p, initrd_files, copied>>

\* Mutant: the walk moves on only past files it has recorded.
AdvancesIfRecorded(h) ==
    IF Len(initrd_files) < INITRD_MAX_FILES THEN next_header(p, h) ELSE p

\* Where the walk goes on after the header h.
advance(h) == next_header(p, h)

\* One turn of the loop that goes through.  name is what the pointer at leads to.
walk_file ==
    LET h == boot.headers[p]
        f == [name |-> h.name, at |-> p + HDR,
              size |-> hex8_to_u32(h.filesize), data |-> file_data(p, h)]
    IN  /\ pc = "walk" /\ GoesOn
        /\ initrd_files' = IF Len(initrd_files) < INITRD_MAX_FILES
                           THEN Append(initrd_files, f) ELSE initrd_files
        /\ p' = advance(h)
        /\ UNCHANGED <<boot, pc, start, end, copied>>

-----------------------------------------------------------------------------
(* The files *)

\* The first file of that name; 0 for NULL.
initrd_find(n) ==
    LET found == {i \in DOMAIN initrd_files : initrd_files[i].name = n}
    IN  IF found = {} THEN 0 ELSE CHOOSE i \in found : \A j \in found : i <= j

\* Mutant: the rest of the file is taken to be all of it.
ReadsWholeSize(size, off, len) ==
    IF off >= size THEN 0 ELSE IF (off + len) % WORD > size THEN size ELSE len

\* The bytes initrd_read copies out of a file of that size.
initrd_read(size, off, len) ==
    IF off >= size THEN 0 ELSE IF (off + len) % WORD > size THEN size - off ELSE len

\* A file is looked up and read; nothing happens for a NULL one.
ReadFile ==
    /\ pc = "ready"
    /\ \E n \in Names, r \in Reads :
         LET i == initrd_find(n)
             f == initrd_files[i]
         IN  copied' = IF i = 0 THEN Nothing
                       ELSE [size |-> f.size, off |-> r.off, len |-> r.len,
                             n |-> initrd_read(f.size, r.off, r.len)]
    /\ UNCHANGED <<boot, pc, start, end, p, initrd_files>>

InitrdNext == kernel_main_module \/ walk_file \/ walk_ends \/ ReadFile

InitrdSpec == InitrdInit /\ [][InitrdNext]_initrdVars

\* The walk is sequential code with nothing to wait for.
FairInitrdSpec == InitrdSpec /\ WF_initrdVars(kernel_main_module \/ walk_file \/ walk_ends)

-----------------------------------------------------------------------------
(* Properties *)

\* However damaged the archive is, the name of a file in the table begins, and its
\* contents lie, inside the module.
FilesInArchive ==
    \A i \in DOMAIN initrd_files :
        LET f == initrd_files[i]
        IN  /\ start + HDR <= f.at /\ f.at <= f.data
            /\ f.data + f.size <= end

\* boot.files is what an archiver has put into the module, boot.good the number of
\* files before the first one that is damaged or cut off.  Padding is meant from the
\* beginning of the archive, while align4_ptr pads addresses: the table has exactly
\* these files, up to its size, if the module is aligned.
IntactPrefixFound ==
    pc = "ready" /\ start % 4 = 0 =>
        LET n == IF boot.good < INITRD_MAX_FILES THEN boot.good ELSE INITRD_MAX_FILES
        IN  /\ Len(initrd_files) >= n
            /\ \A i \in 1 .. n : LET f == initrd_files[i]
                                 IN  [name |-> f.name, size |-> f.size, data |-> f.data - start]
                                     = boot.files[i]
            /\ boot.good = Len(boot.files) => Len(initrd_files) = n

\* A read leaves its file only if the sum of offset and length has wrapped.
ReadStaysInFile ==
    copied.off + copied.n > copied.size => copied.n = 0 \/ copied.off + copied.len >= WORD

\* The walk through any archive comes to its end, also when the table is full.
WalkEnds == <>(pc = "ready")
=============================================================================
