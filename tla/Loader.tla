------------------------------- MODULE Loader -------------------------------
(***************************************************************************)
(* BinaryLoader and ElfLoader (maps-sim/src/system/loader.cpp). A file is  *)
(* what its header and its program headers say; the bytes of a segment go  *)
(* through the bus one after another, and the first that is refused ends   *)
(* the load with those before it written.                                  *)
(***************************************************************************)
EXTENDS Bus, SequencesExt

\* A program header; data is what the file holds at its offset, and inFile
\* whether filesz bytes are there.
SegmentType ==
    [load : BOOLEAN, vaddr : 0..(Word - 1), paddr : 0..(Word - 1), data : Seq(0..(Byte - 1)),
     inFile : BOOLEAN, memsz : 0..(Word - 1)]

\* header: the checks of the header before its entry is read; table: those of
\* the table of program headers.
ElfType ==
    [header : BOOLEAN, table : BOOLEAN, segments : Seq(SegmentType)]

\* One turn of a loop of writes, which the first refusal ends.
Put(o, addr, value) == IF o.ok THEN Write8(o.bus, addr % Word, value) ELSE o

\* load_bytes.
PutBytes(o, base, bytes) ==
    FoldLeftDomain(LAMBDA acc, i : Put(acc, base + i - 1, bytes[i]), o, bytes)

\* load_words: word by word, into the memory and not through the bus.
LoadWords(b, base, words) ==
    FoldLeftDomain(LAMBDA acc, i :
        LET w == (base + i - 1) % Word
        IN  IF ~acc.ok \/ w \notin Addresses THEN Denied(acc.bus)
            ELSE Accepted([acc.bus EXCEPT !.mem[w] = AsInt32(words[i])]), Accepted(b), words)

\* Mutant of LoadAddress: always vaddr.
LoadAddressVirtual(s) == s.vaddr

LoadAddress(s) == IF s.paddr # 0 THEN s.paddr ELSE s.vaddr

\* The bytes a PT_LOAD segment puts in memory: its data, then zeros.
Content(s) == s.data \o [i \in 1..(s.memsz - Len(s.data)) |-> 0]

LoadSegment(o, s) ==
    IF ~o.ok \/ ~s.load THEN o
    ELSE IF Len(s.data) > s.memsz \/ ~s.inFile THEN Denied(o.bus)
    ELSE PutBytes(o, LoadAddress(s), Content(s))

\* ElfLoader::load.
LoadElf(b, elf) ==
    IF elf.header /\ elf.table THEN FoldLeft(LoadSegment, Accepted(b), elf.segments) ELSE Denied(b)
=============================================================================
