------------------------------ MODULE MCLoader ------------------------------
(* A small disk and small program files, well-formed and not, for Loader. *)
EXTENDS Loader

MCSpace == [kind |-> "space"]
Elf(phnum) == [kind |-> "elf", phoff |-> 1, phnum |-> phnum]
Byte(name) == [kind |-> "byte", name |-> name]
Segm(load, o, v, f, m) ==
    [kind |-> "header", load |-> load, off |-> o, vaddr |-> v, filesz |-> f, memsz |-> m]
Note == Segm(FALSE, 0, 0, 0, 0)

MCPrograms == {
    \* one segment with a zeroed part over page boundaries, a note, a trailer
    <<Elf(2), Note, Segm(TRUE, 3, 0, 2, 5), Byte("a1"), Byte("a2"), Byte("a3")>>,
    \* two segments, the second at the end of the file
    <<Elf(2), Segm(TRUE, 3, 6, 1, 1), Segm(TRUE, 3, 0, 2, 2), Byte("b1"), Byte("b2")>>,
    \* three segments: one header too many for the nodes
    <<Elf(3), Segm(TRUE, 4, 0, 1, 1), Segm(TRUE, 4, 2, 1, 1), Segm(TRUE, 4, 4, 1, 1), Byte("c1")>>,
    \* headers said to lie behind the end of the program
    <<Elf(3), Segm(TRUE, 2, 0, 1, 1), Byte("d1")>>,
    \* at the top of the address space
    <<Elf(1), Segm(TRUE, 2, 70, 1, 1), Byte("e1")>>,
    \* more in the file than in memory; misaligned; an overflowing address
    <<Elf(1), Segm(TRUE, 2, 0, 2, 1), Byte("f1")>>,
    <<Elf(1), Segm(TRUE, 2, 1, 1, 1), Byte("g1")>>,
    <<Elf(1), Segm(TRUE, 2, 70, 1, 3), Byte("h1")>>,
    \* offsets that an int, or 64 bits, cut to one in the program, or in front of it
    <<[Elf(1) EXCEPT !.phoff = 37], Segm(TRUE, 74, 0, 1, 1), Byte("i1")>>,
    <<[Elf(2) EXCEPT !.phoff = 35]>>,
    \* no program header, no ELF header, nothing at all
    <<Elf(0)>>,
    <<Byte("j1")>>,
    <<>>}

MCGarbage == {Note, Segm(TRUE, 0, 0, 1, 1)}
=============================================================================
