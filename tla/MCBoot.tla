-------------------------------- MODULE MCBoot --------------------------------
\* Boot with a heap that lies over a whole file, which GRUB left behind the
\* kernel or behind the program, and a map whose last region may lie beyond the
\* first Word.
EXTENDS Boot

MCSection(type, addr, offset, size) ==
  [type |-> type, addr |-> addr, offset |-> offset, size |-> size]

\* Text, data, bss; and helloWorld.o: text, a gap, the frames, bss, a comment.
MCPrograms ==
  {<<MCSection(SHT_NULL, 0, 0, 0), MCSection(SHT_PROGBITS, 30, 1, 2),
     MCSection(SHT_PROGBITS, 32, 4, 2), MCSection(SHT_NOBITS, 34, 6, 1)>>,
   <<MCSection(SHT_NULL, 0, 0, 0), MCSection(SHT_PROGBITS, 30, 1, 1),
     MCSection(SHT_PROGBITS, 32, 3, 1), MCSection(SHT_NOBITS, 33, 4, 1),
     MCSection(SHT_PROGBITS, 0, 4, 1), MCSection(SHT_SYMTAB, 0, 5, 1)>>}

MCRegion(base, length, type) == [base |-> base, length |-> length, type |-> type]

\* Low memory, a hole, the kernel's memory and what there is beyond the Word; or
\* the kernel's memory in two regions, the second starting where the kernel ends.
MCMaps ==
  {<<MCRegion(<<0, 0>>, <<4, 0>>, 1), MCRegion(<<5, 0>>, <<2, 0>>, 1),
     MCRegion(<<7, 0>>, <<40, 0>>, 1)>>} \cup
  {<<MCRegion(<<0, 0>>, <<4, 0>>, 1), MCRegion(<<4, 0>>, <<1, 0>>, 2),
     MCRegion(<<5, 0>>, <<size, 0>>, 1)>> \o high :
     size \in 16 .. 55,
     high \in {<<>>, <<MCRegion(<<0, 1>>, <<50, 0>>, 1)>>, <<MCRegion(<<0, 1>>, <<9, 1>>, 1)>>}}

MCMemory == 0 .. 63

MCFiles ==
  {[modsAddr |-> at, entry |-> 30, shoff |-> 7, sections |-> p, mmapAddr |-> 0, mmap |-> m] :
     at \in {8, 40}, p \in MCPrograms, m \in MCMaps}
MCGrubs == {g \in MCFiles : FileCells(g) \subseteq Installed(g)}
===============================================================================
