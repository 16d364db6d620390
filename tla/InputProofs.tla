----------------------------- MODULE InputProofs ------------------------------
(***************************************************************************)
(* How keys get into the kernel.                                           *)
(*                                                                         *)
(* The interrupts, for every set of devices and every state the firmware   *)
(* may leave the masks in: what the two PICs deliver always finds a gate,  *)
(* and nothing but the keyboard is delivered.                              *)
(*                                                                         *)
(* The keyboard, for every number of keys and however many bytes it keeps: *)
(* the check reads the identity and nothing else, and what is typed later  *)
(* arrives once, in order and with its shift.                              *)
(***************************************************************************)
EXTENDS Interrupts, Keyboard, TLAPS

-------------------------------------------------------------------------------
\* The inductive invariant.  What a chip expects next is known from where
\* PIC_remap is: nothing is known of it before the first word, the offset of its
\* vectors from the third word on, and after the last one it takes masks.
\* The two fields of boot.
Place == boot.at
Index == boot.i

Fields == {"base", "mask", "icw", "auto", "irr", "isr"}
Steps == {"generic gates", "own gates", "save masks", "PIC1", "PIC2", "mask all",
          "keyboard on", "timer off", "sti", "run"}
Masking == {"mask all", "keyboard on", "timer off", "sti", "run"}

BootOK ==
  /\ DOMAIN boot = {"at", "i"}
  /\ Place \in Steps
  /\ Place \in Chips => Index \in 0 .. 4
  /\ Place = "mask all" => Index \in 0 .. 15

GatesOK ==
  /\ DOMAIN idt = Vectors
  /\ Place # "generic gates" => \A v \in Generic : idt[v] # "none"
  /\ Place \in Steps \ {"generic gates", "own gates"} =>
       /\ idt[Gate(KEYBOARD)] = "keyboard"
       /\ idt[Gate(SYS_CALL_OFFSET)] = "syscall"
  /\ \A v \in Vectors : idt[v] # "fault"

\* Chip c has been given the words in front of word k.
Expects(chip, k) ==
  /\ k = 1 => pic[chip].icw = 2
  /\ k = 2 => pic[chip].icw = 3
  /\ k = 3 => pic[chip].icw = 4
  /\ k >= 4 => pic[chip].icw = 0
  /\ k >= 2 => pic[chip].base = Offset(chip)

RemapOK ==
  /\ DOMAIN pic = Chips
  /\ \A chip \in Chips : DOMAIN pic[chip] = Fields
  /\ Place = "PIC1" => Expects("PIC1", Index) /\ Expects("PIC2", Index)
  /\ Place = "PIC2" => Expects("PIC1", Index + 1) /\ Expects("PIC2", Index)
  /\ Place \in Masking => \A chip \in Chips : Expects(chip, 5)

\* Of the lines that matter, all but the keyboard's are masked in the end.
MasksOK ==
  /\ Place = "mask all" =>
       \A line \in 0 .. 15 : line < Index => Bit(line) \in pic[ChipOf(line)].mask
  /\ Place \in Masking \ {"mask all"} =>
       \A line \in (0 .. 15) \ {KEYBOARD} : Bit(line) \in pic[ChipOf(line)].mask

ProcessorOK ==
  /\ cpu # "fault"
  /\ intFlag => Place = "run"
  /\ cpu # "main" => Place = "run"

IInv == BootOK /\ GatesOK /\ RemapOK /\ MasksOK /\ ProcessorOK

-------------------------------------------------------------------------------
\* What a write does to a chip.
LEMMA CommandFields ==
  ASSUME NEW c, DOMAIN c = Fields
  PROVE  DOMAIN Command(c) = Fields /\ Command(c).icw = 2
BY DEF Command, Fields

\* What a chip makes of a word at its data port.
LEMMA ValueFields ==
  ASSUME NEW c, NEW v, DOMAIN c = Fields
  PROVE  /\ DOMAIN Value(c, v) = Fields
         /\ c.icw = 2 => Value(c, v).icw = 3 /\ Value(c, v).base = v
         /\ c.icw = 3 => Value(c, v).icw = 4 /\ Value(c, v).base = c.base
         /\ c.icw = 4 => Value(c, v).icw = 0 /\ Value(c, v).base = c.base
         /\ c.icw = 0 => /\ Value(c, v).icw = 0 /\ Value(c, v).base = c.base
                         /\ Value(c, v).mask = v
<1>1. CASE c.icw = 2
  <2>1. Value(c, v) = [c EXCEPT !.base = v, !.icw = 3]
    BY <1>1 DEF Value
  <2> QED
    BY <1>1, <2>1 DEF Fields
<1>2. CASE c.icw = 3
  <2>1. Value(c, v) = [c EXCEPT !.icw = 4]
    BY <1>2 DEF Value
  <2> QED
    BY <1>2, <2>1 DEF Fields
<1>3. CASE c.icw = 4
  <2>1. Value(c, v) = [c EXCEPT !.auto = "AUTO" \in v, !.icw = 0]
    BY <1>3 DEF Value
  <2> QED
    BY <1>3, <2>1 DEF Fields
<1>4. CASE c.icw \notin {2, 3, 4}
  <2>1. Value(c, v) = [c EXCEPT !.mask = v]
    BY <1>4 DEF Value
  <2> QED
    BY <1>4, <2>1 DEF Fields
<1> QED
  BY <1>1, <1>2, <1>3, <1>4

\* A line is one of the eight of its chip, and its vector has a gate.
LEMMA LinesAndGates ==
  /\ \A line \in 0 .. 15 : ChipOf(line) \in Chips /\ Bit(line) \in 0 .. 7
  /\ \A line, other \in 0 .. 15 :
       ChipOf(line) = ChipOf(other) /\ Bit(line) = Bit(other) => line = other
  /\ \A chip \in Chips, bit \in 0 .. 7 : Offset(chip) + bit \in Generic
  /\ Gate(SYS_CALL_OFFSET) \in Generic /\ Gate(KEYBOARD) \in Generic
  /\ Gate(KEYBOARD) # Gate(SYS_CALL_OFFSET)
  /\ Gate(SYS_CALL_OFFSET) = SystemCallVector
  /\ Generic \subseteq Vectors
<1>1. Generic = 64 .. 254
  BY DEF Generic, Gate, PIC1_SCHISM_OFFSET, IDT_NUM_INTERRUPTS
<1> QED
  BY <1>1 DEF ChipOf, Chips, Bit, Offset, Gate, KEYBOARD, SYS_CALL_OFFSET, SystemCallVector,
     PIC1_SCHISM_OFFSET, Vectors, IDT_NUM_INTERRUPTS

\* The invariant holds at first.
LEMMA IInvInit == Init => IInv
<1> SUFFICES ASSUME Init PROVE IInv
  OBVIOUS
<1>1. Place = "generic gates" /\ DOMAIN boot = {"at", "i"}
  BY DEF Init, At, Place, Index
<1>2. BootOK
  BY <1>1 DEF BootOK, Steps, Chips
<1>3. GatesOK
  BY <1>1 DEF Init, GatesOK
<1>4. RemapOK
  <2>1. DOMAIN pic = Chips /\ \A chip \in Chips : DOMAIN pic[chip] = Fields
    <3>1. PICK m \in FirmwareMasks :
            pic = [chip \in Chips |->
                     [base |-> IF chip = "PIC1" THEN 8 ELSE 112, mask |-> MaskOf(chip, m),
                      icw |-> 0, auto |-> FALSE, irr |-> {}, isr |-> {}]]
      BY DEF Init
    <3> QED
      BY <3>1 DEF Fields
  <2> QED
    BY <1>1, <2>1 DEF RemapOK, Masking
<1>5. MasksOK /\ ProcessorOK
  BY <1>1 DEF Init, MasksOK, ProcessorOK, Masking
<1> QED
  BY <1>2, <1>3, <1>4, <1>5 DEF IInv

\* Between its own gates and sti, the boot leaves gates and processor alone.
LEMMA GatesStay ==
  ASSUME IInv, UNCHANGED <<idt, intFlag, cpu>>,
         Place \notin {"generic gates", "own gates", "run"}
  PROVE  GatesOK' /\ ProcessorOK'
<1>1. Place \in Steps
  BY DEF IInv, BootOK
<1>2. GatesOK'
  BY <1>1 DEF IInv, GatesOK
<1>3. ProcessorOK'
  BY DEF IInv, ProcessorOK
<1> QED
  BY <1>2, <1>3

\* The boot, up to the first write to a PIC, and its end.
LEMMA GatesIInv == IInv /\ (PackGeneric \/ PackOwn \/ SaveMasks \/ Sti) => IInv'
<1> SUFFICES ASSUME IInv, PackGeneric \/ PackOwn \/ SaveMasks \/ Sti PROVE IInv'
  OBVIOUS
<1> USE DEF IInv
<1>1. CASE PackGeneric
  <2>1. Place' = "own gates" /\ DOMAIN boot' = {"at", "i"} /\ Place = "generic gates"
    BY <1>1 DEF PackGeneric, At, Place, Index
  <2>2. GatesOK'
    BY <1>1, <2>1, LinesAndGates DEF PackGeneric, GatesOK
  <2> QED
    BY <1>1, <2>1, <2>2 DEF PackGeneric, BootOK, Steps, Chips, RemapOK, MasksOK, Masking,
       ProcessorOK
<1>2. CASE PackOwn
  <2>1. Place' = "save masks" /\ DOMAIN boot' = {"at", "i"} /\ Place = "own gates"
    BY <1>2 DEF PackOwn, At, Place, Index
  <2>2. GatesOK'
    BY <1>2, <2>1, LinesAndGates DEF PackOwn, GatesOK
  <2> QED
    BY <1>2, <2>1, <2>2 DEF PackOwn, BootOK, Steps, Chips, RemapOK, MasksOK, Masking,
       ProcessorOK
<1>3. CASE SaveMasks
  <2>1. /\ Place' = "PIC1" /\ Index' = 0 /\ DOMAIN boot' = {"at", "i"}
        /\ Place = "save masks"
    BY <1>3 DEF SaveMasks, At, Place, Index
  <2>2. RemapOK'
    <3>1. \A chip \in Chips : Expects(chip, 0)'
      BY DEF Expects
    <3> QED
      BY <1>3, <2>1, <3>1 DEF SaveMasks, RemapOK, Chips, Masking
  <2>3. BootOK' /\ MasksOK'
    <3>1. Place' \in Steps /\ Place' \notin Masking /\ Place' # "mask all"
      BY <2>1 DEF Steps, Masking
    <3>2. Index' \in 0 .. 4
      <4>1. Index' = 0
        BY <2>1
      <4> QED
        BY ONLY <4>1
    <3> QED
      BY <2>1, <3>1, <3>2 DEF BootOK, MasksOK
  <2> QED
    BY <1>3, <2>1, <2>2, <2>3, GatesStay DEF SaveMasks
<1>4. CASE Sti
  <2>1. /\ Place' = "run" /\ DOMAIN boot' = {"at", "i"}
        /\ Place = "sti"
    BY <1>4 DEF Sti, At, Place, Index
  <2>2. RemapOK'
    BY <1>4, <2>1 DEF Sti, RemapOK, Expects, Masking
  <2> QED
    BY <1>4, <2>1, <2>2 DEF Sti, BootOK, Steps, Chips, GatesOK, MasksOK, Masking,
       ProcessorOK
<1> QED
  BY <1>1, <1>2, <1>3, <1>4

\* A write of PIC_remap.
LEMMA RemapIInv == IInv /\ RemapWrite => IInv'
<1> SUFFICES ASSUME IInv, RemapWrite PROVE IInv'
  OBVIOUS
<1> USE DEF IInv
<1>0. PICK chip \in Chips, k \in 0 .. 4 : Place = chip /\ Index = k
  BY DEF RemapWrite, BootOK, Place, Index
<1>1. /\ UNCHANGED <<idt, saved, intFlag, cpu, test>>
      /\ pic' = [pic EXCEPT ![chip] = IF k = 0 THEN Command(@) ELSE Value(@, Word(chip, k))]
  BY <1>0 DEF RemapWrite, Place, Index
<1>2. DOMAIN pic' = Chips /\ \A c \in Chips : c # chip => pic'[c] = pic[c]
  BY <1>0, <1>1 DEF RemapOK
<1>3. Expects(chip, k) /\ DOMAIN pic[chip] = Fields
  BY <1>0, <1>1 DEF RemapOK, Chips
<1>4. DOMAIN pic'[chip] = Fields /\ Expects(chip, k + 1)'
  <2>1. CASE k = 0
    <3>1. pic'[chip] = Command(pic[chip])
      BY <1>0, <1>1, <2>1 DEF RemapOK
    <3> QED
      BY <1>0, <1>3, <2>1, <3>1, CommandFields DEF Expects
  <2>2. CASE k # 0
    <3>1. pic'[chip] = Value(pic[chip], Word(chip, k))
      BY <1>0, <1>1, <2>2 DEF RemapOK
    <3>2. Word(chip, 1) = Offset(chip)
      BY DEF Word
    <3>3. CASE k = 1
      BY <1>0, <1>3, <3>1, <3>2, <3>3, ValueFields DEF Expects
    <3>4. CASE k = 2
      BY <1>0, <1>3, <3>1, <3>4, ValueFields DEF Expects
    <3>5. CASE k = 3
      BY <1>0, <1>3, <3>1, <3>5, ValueFields DEF Expects
    <3>6. CASE k = 4
      <4>1. /\ DOMAIN pic'[chip] = Fields
            /\ pic'[chip].icw = 0 /\ pic'[chip].base = Offset(chip)
        BY <1>3, <3>1, <3>6, ValueFields DEF Expects
      <4>2. k + 1 = 5
        BY <3>6
      <4>3. Expects(chip, 5)'
        BY <4>1 DEF Expects
      <4> QED
        BY <4>1, <4>2, <4>3
    <3> QED
      BY <1>0, <1>1, <2>2, <3>3, <3>4, <3>5, <3>6
  <2> QED
    BY <2>1, <2>2
<1>5. GatesOK' /\ ProcessorOK'
  BY <1>0, <1>1, GatesStay DEF Chips
<1>6. DOMAIN boot = {"at", "i"}
  BY DEF BootOK
<1>7. CASE chip = "PIC1"
  <2>1. boot' = [boot EXCEPT !.at = "PIC2"]
    BY <1>0, <1>7, Zenon DEF RemapWrite, Place
  <2>2. Place' = "PIC2" /\ Index' = k /\ DOMAIN boot' = {"at", "i"}
    BY <1>0, <1>6, <2>1 DEF Place, Index
  <2>3. BootOK' /\ MasksOK'
    BY <1>0, <2>2 DEF BootOK, Steps, Chips, MasksOK, Masking
  <2>4. RemapOK'
    <3>1. Expects("PIC2", k)'
      BY <1>0, <1>2, <1>7 DEF RemapOK, Expects, Chips
    <3>2. Expects("PIC1", k + 1)'
      BY <1>4, <1>7
    <3> QED
      BY <1>2, <1>4, <1>7, <2>2, <3>1, <3>2 DEF RemapOK, Chips, Masking
  <2> QED
    BY <1>5, <2>3, <2>4
<1>8. CASE chip = "PIC2" /\ k < 4
  <2>1. boot' = [at |-> "PIC1", i |-> k + 1]
    <3>1. chip # "PIC1" /\ boot.at = chip /\ boot.i = k
      BY <1>0, <1>8 DEF Place, Index
    <3> QED
      BY <1>8, <3>1, Zenon DEF RemapWrite
  <2>2. Place' = "PIC1" /\ Index' = k + 1 /\ DOMAIN boot' = {"at", "i"}
    BY <2>1 DEF Place, Index
  <2>3. BootOK' /\ MasksOK'
    <3>1. Place' \in Steps /\ Place' \notin Masking /\ Place' # "mask all"
      BY <2>2 DEF Steps, Masking
    <3>2. Index' \in 0 .. 4
      <4>1. Index' = k + 1
        BY <2>2
      <4> QED
        BY ONLY k \in 0 .. 4, <1>8, <4>1
    <3> QED
      BY <2>2, <3>1, <3>2 DEF BootOK, MasksOK
  <2>4. RemapOK'
    <3>1. Expects("PIC1", k + 1)'
      BY <1>0, <1>2, <1>8 DEF RemapOK, Expects, Chips
    <3>2. Expects("PIC2", k + 1)'
      BY <1>4, <1>8
    <3> QED
      BY <1>2, <1>4, <1>8, <2>2, <3>1, <3>2 DEF RemapOK, Chips, Masking
  <2> QED
    BY <1>5, <2>3, <2>4
<1>9. CASE chip = "PIC2" /\ k = 4
  <2>1. boot' = At("mask all")
    <3>1. chip # "PIC1" /\ ~(k < 4) /\ boot.at = chip /\ boot.i = k
      BY <1>0, <1>9 DEF Place, Index
    <3> QED
      BY <1>9, <3>1, Zenon DEF RemapWrite
  <2>2. Place' = "mask all" /\ Index' = 0 /\ DOMAIN boot' = {"at", "i"}
    BY <2>1 DEF At, Place, Index
  <2>3. BootOK' /\ MasksOK'
    <3>1. Place' \in Steps /\ Place' \notin Chips
      BY <2>2 DEF Steps, Chips
    <3>2. Index' = 0
      BY <2>2
    <3>3. Index' \in 0 .. 15 /\ \A line \in 0 .. 15 : ~(line < Index')
      BY ONLY <3>2
    <3> QED
      BY <2>2, <3>1, <3>3 DEF BootOK, MasksOK
  <2>4. RemapOK'
    <3>1. Expects("PIC1", 5)'
      BY <1>0, <1>2, <1>9 DEF RemapOK, Expects, Chips
    <3>2. k + 1 = 5
      BY <1>9
    <3>3. Expects("PIC2", 5)'
      BY <1>4, <1>9, <3>2
    <3> QED
      BY <1>2, <1>4, <1>9, <2>2, <3>1, <3>3 DEF RemapOK, Chips
  <2> QED
    BY <1>5, <2>3, <2>4
<1> QED
  BY <1>0, <1>7, <1>8, <1>9 DEF Chips

\* A write of one mask by IRQ_disable or IRQ_enable.
LEMMA MaskWrite ==
  ASSUME IInv, Place \in Masking, NEW line \in 0 .. 15, NEW mask,
         pic' = [pic EXCEPT ![ChipOf(line)] = Value(@, mask)]
  PROVE  /\ DOMAIN pic' = Chips
         /\ \A chip \in Chips : DOMAIN pic'[chip] = Fields /\ Expects(chip, 5)'
         /\ pic'[ChipOf(line)].mask = mask
         /\ \A chip \in Chips : chip # ChipOf(line) => pic'[chip].mask = pic[chip].mask
<1>1. /\ DOMAIN pic = Chips
      /\ \A chip \in Chips : DOMAIN pic[chip] = Fields /\ Expects(chip, 5)
  BY DEF IInv, RemapOK
<1>2. ChipOf(line) \in Chips
  BY LinesAndGates
<1>3. DOMAIN pic' = Chips /\ \A chip \in Chips : chip # ChipOf(line) => pic'[chip] = pic[chip]
  BY <1>1
<1>4. pic'[ChipOf(line)] = Value(pic[ChipOf(line)], mask)
  BY <1>1, <1>2
<1>5. /\ DOMAIN pic'[ChipOf(line)] = Fields
      /\ pic'[ChipOf(line)].icw = 0
      /\ pic'[ChipOf(line)].base = pic[ChipOf(line)].base
      /\ pic'[ChipOf(line)].mask = mask
  BY <1>1, <1>2, <1>4, ValueFields DEF Expects
<1> QED
  BY <1>1, <1>2, <1>3, <1>5 DEF Expects

\* The masks, written one by one, and the keyboard's taken back.
LEMMA MasksIInv == IInv /\ (MaskAll \/ KeyboardOn \/ TimerOff) => IInv'
<1> SUFFICES ASSUME IInv, MaskAll \/ KeyboardOn \/ TimerOff PROVE IInv'
  OBVIOUS
<1>1. CASE MaskAll
  <2>0. PICK k \in 0 .. 15 : Index = k
    BY <1>1 DEF MaskAll, IInv, BootOK, Place, Index
  <2>1. /\ Place = "mask all" /\ DOMAIN boot = {"at", "i"}
        /\ UNCHANGED <<idt, saved, intFlag, cpu, test>>
        /\ pic' = [pic EXCEPT ![ChipOf(k)] = Value(@, Disabled(@.mask, Bit(k)))]
        /\ boot' = IF k < 15 THEN [boot EXCEPT !.i = k + 1] ELSE At("keyboard on")
    BY <1>1, <2>0 DEF MaskAll, IRQ_disable, IInv, BootOK, Place, Index
  <2>2. pic' = [pic EXCEPT ![ChipOf(k)] = Value(@, Disabled(pic[ChipOf(k)].mask, Bit(k)))]
    BY <2>0, <2>1
  <2>3. /\ DOMAIN pic' = Chips
        /\ \A chip \in Chips : DOMAIN pic'[chip] = Fields /\ Expects(chip, 5)'
        /\ pic'[ChipOf(k)].mask = pic[ChipOf(k)].mask \cup {Bit(k)}
        /\ \A chip \in Chips : chip # ChipOf(k) => pic'[chip].mask = pic[chip].mask
    BY <2>0, <2>1, <2>2, MaskWrite DEF Masking, Disabled
  <2>4. \A line \in 0 .. 15 : line <= k => Bit(line) \in pic'[ChipOf(line)].mask
    <3>1. \A line \in 0 .. 15 : line < k => Bit(line) \in pic[ChipOf(line)].mask
      BY <2>0, <2>1 DEF IInv, MasksOK
    <3>2. \A line \in 0 .. 15 : line < k => Bit(line) \in pic'[ChipOf(line)].mask
      BY <2>0, <2>3, <3>1, LinesAndGates
    <3> QED
      BY <2>0, <2>3, <3>2
  <2>5. CASE k < 15
    <3>1. Place' = "mask all" /\ Index' = k + 1 /\ DOMAIN boot' = {"at", "i"}
      BY <2>0, <2>1, <2>5 DEF Place, Index
    <3>2. MasksOK'
      <4>1. \A line \in 0 .. 15 : line < k + 1 => line <= k
        BY <2>0
      <4> QED
        BY <2>4, <3>1, <4>1 DEF MasksOK
    <3>3. RemapOK'
      BY <2>0, <2>3, <3>1 DEF RemapOK, Chips
    <3>4. BootOK'
      <4>1. Place' \in Steps /\ Place' \notin Chips
        BY <3>1 DEF Steps, Chips
      <4>2. Index' \in 0 .. 15
        <5>1. Index' = k + 1
          BY <3>1
        <5> QED
          BY ONLY k \in 0 .. 15, <2>5, <5>1
      <4> QED
        BY <3>1, <4>1, <4>2 DEF BootOK
    <3> QED
      BY <2>1, <3>2, <3>3, <3>4, GatesStay DEF IInv
  <2>6. CASE k = 15
    <3>1. Place' = "keyboard on" /\ DOMAIN boot' = {"at", "i"}
      <4>1. ~(k < 15)
        BY <2>6
      <4>2. boot' = At("keyboard on")
        BY <2>1, <4>1, Zenon
      <4> QED
        BY <4>2 DEF At, Place, Index
    <3>2. MasksOK'
      <4>1. \A line \in 0 .. 15 : line <= k
        BY <2>6
      <4> QED
        BY <2>4, <3>1, <4>1 DEF MasksOK
    <3>3. RemapOK'
      BY <2>0, <2>3, <3>1 DEF RemapOK, Chips
    <3> QED
      BY <2>0, <2>1, <3>1, <3>2, <3>3 DEF IInv, BootOK, Steps, Chips, GatesOK, ProcessorOK
  <2> QED
    BY <2>0, <2>5, <2>6
<1>2. CASE KeyboardOn
  <2>1. /\ Place = "keyboard on" /\ Place' = "timer off" /\ DOMAIN boot' = {"at", "i"}
        /\ UNCHANGED <<idt, saved, intFlag, cpu, test>>
        /\ pic' = [pic EXCEPT ![ChipOf(KEYBOARD)] =
                     Value(@, Enabled(@.mask, Bit(KEYBOARD)))]
    BY <1>2 DEF KeyboardOn, IRQ_enable, At, Place, Index
  <2>2. PICK mask : /\ mask = pic[ChipOf(KEYBOARD)].mask \ {Bit(KEYBOARD)}
                    /\ pic' = [pic EXCEPT ![ChipOf(KEYBOARD)] = Value(@, mask)]
    BY <2>1 DEF Enabled
  <2>3. KEYBOARD \in 0 .. 15
    BY DEF KEYBOARD
  <2>4. /\ DOMAIN pic' = Chips
        /\ \A chip \in Chips : DOMAIN pic'[chip] = Fields /\ Expects(chip, 5)'
        /\ pic'[ChipOf(KEYBOARD)].mask = pic[ChipOf(KEYBOARD)].mask \ {Bit(KEYBOARD)}
        /\ \A chip \in Chips : chip # ChipOf(KEYBOARD) => pic'[chip].mask = pic[chip].mask
    BY <2>1, <2>2, <2>3, MaskWrite DEF Masking
  <2>5. MasksOK'
    <3>1. \A line \in (0 .. 15) \ {KEYBOARD} : Bit(line) \in pic[ChipOf(line)].mask
      BY <2>1 DEF IInv, MasksOK, Masking
    <3>2. \A line \in (0 .. 15) \ {KEYBOARD} : Bit(line) \in pic'[ChipOf(line)].mask
      BY <2>3, <2>4, <3>1, LinesAndGates
    <3> QED
      BY <2>1, <3>2 DEF MasksOK
  <2>6. RemapOK'
    BY <2>1, <2>4 DEF RemapOK
  <2> QED
    BY <2>1, <2>5, <2>6 DEF IInv, BootOK, Steps, Chips, GatesOK, ProcessorOK
<1>3. CASE TimerOff
  <2>1. /\ Place = "timer off" /\ Place' = "sti" /\ DOMAIN boot' = {"at", "i"}
        /\ UNCHANGED <<idt, saved, intFlag, cpu, test>>
        /\ pic' = [pic EXCEPT ![ChipOf(0)] = Value(@, Disabled(@.mask, Bit(0)))]
    BY <1>3 DEF TimerOff, IRQ_disable, At, Place, Index
  <2>3. /\ DOMAIN pic' = Chips
        /\ \A chip \in Chips : DOMAIN pic'[chip] = Fields /\ Expects(chip, 5)'
        /\ pic'[ChipOf(0)].mask = pic[ChipOf(0)].mask \cup {Bit(0)}
        /\ \A chip \in Chips : chip # ChipOf(0) => pic'[chip].mask = pic[chip].mask
    <3>1. PICK mask : /\ mask = pic[ChipOf(0)].mask \cup {Bit(0)}
                      /\ pic' = [pic EXCEPT ![ChipOf(0)] = Value(@, mask)]
      BY <2>1 DEF Disabled
    <3>2. Place \in Masking
      BY <2>1 DEF Masking
    <3>3. 0 \in 0 .. 15
      OBVIOUS
    <3> QED
      BY <3>1, <3>2, <3>3, MaskWrite
  <2>4. MasksOK'
    <3>1. \A line \in (0 .. 15) \ {KEYBOARD} : Bit(line) \in pic[ChipOf(line)].mask
      BY <2>1 DEF IInv, MasksOK, Masking
    <3>2. \A line \in (0 .. 15) \ {KEYBOARD} : Bit(line) \in pic'[ChipOf(line)].mask
      BY <2>3, <3>1, LinesAndGates
    <3> QED
      BY <2>1, <3>2 DEF MasksOK
  <2>5. RemapOK'
    BY <2>1, <2>3 DEF RemapOK
  <2> QED
    BY <2>1, <2>4, <2>5 DEF IInv, BootOK, Steps, Chips, GatesOK, ProcessorOK
<1> QED
  BY <1>1, <1>2, <1>3

-------------------------------------------------------------------------------
\* Latching and delivering leave what the boot set up alone.
LEMMA OtherFields ==
  ASSUME IInv, boot' = boot, idt' = idt,
         DOMAIN pic' = Chips,
         \A c \in Chips : /\ DOMAIN pic'[c] = Fields
                          /\ pic'[c].base = pic[c].base
                          /\ pic'[c].mask = pic[c].mask
                          /\ pic'[c].icw = pic[c].icw
  PROVE  BootOK' /\ GatesOK' /\ RemapOK' /\ MasksOK'
<1>0. Place' = Place /\ Index' = Index
  BY DEF Place, Index
<1>1. BootOK' /\ GatesOK'
  BY <1>0 DEF IInv, BootOK, GatesOK
<1>2. RemapOK'
  BY <1>0 DEF IInv, RemapOK, Expects, Chips
<1>3. MasksOK'
  BY <1>0, LinesAndGates DEF IInv, MasksOK
<1> QED
  BY <1>1, <1>2, <1>3

\* A device asks for service.
LEMMA RaiseIInv ==
  ASSUME IInv, NEW line \in Lines, Raise(line)
  PROVE  IInv'
<1>1. line \in 0 .. 15 /\ ChipOf(line) \in Chips
  BY InterruptsAssumption, LinesAndGates
<1>2. /\ DOMAIN pic' = Chips
      /\ \A c \in Chips : /\ DOMAIN pic'[c] = Fields
                          /\ pic'[c].base = pic[c].base
                          /\ pic'[c].mask = pic[c].mask
                          /\ pic'[c].icw = pic[c].icw
  BY <1>1 DEF Raise, IInv, RemapOK, Fields
<1> QED
  BY <1>1, <1>2, OtherFields DEF Raise, IInv, ProcessorOK, Place

\* An interrupt that is taken is the keyboard's, and finds a gate.
LEMMA InterruptIInv ==
  ASSUME IInv, NEW line \in Lines, Deliver(line) \/ Spurious(line)
  PROVE  /\ IInv'
         /\ line = KEYBOARD
         /\ Deliver(line) => cpu' = "keyboard"
<1> DEFINE chip == ChipOf(line)
<1>1. line \in 0 .. 15 /\ chip \in Chips /\ Bit(line) \in 0 .. 7
  BY InterruptsAssumption, LinesAndGates
<1>2. /\ Place = "run" /\ cpu = "main" /\ line \in Pending
      /\ UNCHANGED <<boot, idt>>
  BY DEF Deliver, Spurious, IInv, ProcessorOK, Place, Index
<1>3. line = KEYBOARD
  <2>1. Bit(line) \notin pic[chip].mask
    BY <1>2 DEF Pending, Passes, Open
  <2> QED
    BY <1>1, <1>2, <2>1 DEF IInv, MasksOK, Masking
<1>4. pic[chip].base = Offset(chip)
  BY <1>1, <1>2 DEF IInv, RemapOK, Expects, Masking
<1>5. /\ DOMAIN pic' = Chips
      /\ \A c \in Chips : /\ DOMAIN pic'[c] = Fields
                          /\ pic'[c].base = pic[c].base
                          /\ pic'[c].mask = pic[c].mask
                          /\ pic'[c].icw = pic[c].icw
  BY <1>1 DEF Deliver, Spurious, IInv, RemapOK, Fields
<1>6. \A v \in Generic : idt[v] # "none" /\ idt[v] # "fault"
  BY <1>2, LinesAndGates DEF IInv, GatesOK
<1>7. cpu' # "fault"
  BY <1>1, <1>4, <1>6, LinesAndGates DEF Deliver, Spurious, Enter
<1>8. ASSUME Deliver(line) PROVE cpu' = "keyboard"
  <2>1. Offset(chip) + Bit(line) = Gate(KEYBOARD)
    BY <1>3 DEF Offset, ChipOf, Bit, Gate, KEYBOARD, PIC1_SCHISM_OFFSET
  <2>2. idt[Gate(KEYBOARD)] = "keyboard"
    BY <1>2 DEF IInv, GatesOK, Steps
  <2> QED
    BY <1>4, <1>8, <2>1, <2>2 DEF Deliver, Enter
<1>9. ProcessorOK'
  BY <1>2, <1>7 DEF ProcessorOK, Place
<1> QED
  BY <1>1, <1>2, <1>3, <1>5, <1>8, <1>9, OtherFields DEF IInv

\* A system call, or the return from a handler.
LEMMA CallReturnIInv == IInv /\ (SystemCall \/ Return) => IInv'
<1> SUFFICES ASSUME IInv, SystemCall \/ Return PROVE IInv'
  OBVIOUS
<1>1. BootOK' /\ GatesOK' /\ RemapOK' /\ MasksOK'
  <2>1. UNCHANGED <<boot, idt, pic>>
    BY DEF SystemCall, Return
  <2> QED
    BY <2>1, OtherFields DEF IInv, RemapOK
<1>2. Place = "run" /\ boot' = boot
  BY DEF SystemCall, Return, IInv, ProcessorOK, Place, Index
<1>3. cpu' # "fault"
  BY <1>2, LinesAndGates DEF SystemCall, Return, Enter, IInv, GatesOK, Steps
<1> QED
  BY <1>1, <1>2, <1>3 DEF IInv, ProcessorOK, Place

\* The invariant is kept by every step.
LEMMA IInvNext == IInv /\ [Next]_vars => IInv'
<1>1. IInv /\ UNCHANGED vars => IInv'
  <2> SUFFICES ASSUME IInv, UNCHANGED vars PROVE IInv'
    OBVIOUS
  <2>1. BootOK' /\ GatesOK' /\ RemapOK' /\ MasksOK'
    BY OtherFields DEF vars, IInv, RemapOK
  <2> QED
    BY <2>1 DEF vars, IInv, ProcessorOK, Place
<1> QED
  BY <1>1, GatesIInv, RemapIInv, MasksIInv, RaiseIInv, InterruptIInv, CallReturnIInv
     DEF Next, Boot, Interrupt

-------------------------------------------------------------------------------
\* No interrupt meets a vector without a gate, whatever devices there are and
\* whatever the firmware left masked (kernel_main up to sti, and the run).
THEOREM NoVectorWithoutGate == Spec => []NoFault
<1>1. IInv => NoFault
  BY DEF IInv, ProcessorOK, NoFault
<1> QED
  BY <1>1, IInvInit, IInvNext, PTL DEF Spec

\* Nothing but the keyboard is delivered, and it finds its handler.
THEOREM OnlyKeyboardInterrupts == Spec => OnlyKeyboard
<1>1. IInv /\ [Next]_vars =>
        [\A line \in Lines : Deliver(line) => line = KEYBOARD /\ cpu' = "keyboard"]_vars
  BY InterruptIInv
<1> QED
  BY <1>1, IInvInit, IInvNext, PTL DEF Spec, OnlyKeyboard

-------------------------------------------------------------------------------
\* The inductive invariant of the check: what is on its way between the keyboard
\* and the kernel, at each place the kernel may be at.  Before the check only the
\* bytes of keys arrive, and no ACK is among them.
Codes == {"ACK", "make", "break", "shift make", "shift break"}
           \cup {PS2_DEVICE_MF2_HIGHBYTE, "83", "00"}
Bytes == [code : Codes, key : Keys \cup {"none"}]

\* No ACK from the first place to the last.
NoAck(bytes, first, last) == \A i \in first .. last : ~ IsAck(bytes[i])

\* Keys, and the ACK behind them.
KeysThenAck(bytes) ==
  Len(bytes) > 0 /\ IsAck(bytes[Len(bytes)]) /\ NoAck(bytes, 1, Len(bytes) - 1)

\* The identity, as bytes.
IdentityBytes == [i \in DOMAIN identity |-> Byte(identity[i])]

\* What is on its way at each place.
OnTheWay ==
  /\ drv = "disable" => inbox = "none" /\ scanning /\ NoAck(out, 1, Len(out))
  /\ drv = "ACK disable" =>
       \/ (inbox = "disable" /\ scanning /\ NoAck(out, 1, Len(out)))
       \/ (inbox = "none" /\ ~ scanning /\ KeysThenAck(out))
  /\ drv = "identify" => inbox = "none" /\ ~ scanning /\ out = <<>>
  /\ drv = "ACK identify" =>
       \/ (inbox = "identify" /\ ~ scanning /\ out = <<>>)
       \/ (inbox = "none" /\ ~ scanning /\ out = <<Byte("ACK")>> \o IdentityBytes)
  /\ drv = "low byte" => inbox = "none" /\ ~ scanning /\ out = IdentityBytes
  /\ drv = "high byte" =>
       /\ inbox = "none" /\ ~ scanning
       /\ identity = <<PS2_DEVICE_MF2_HIGHBYTE, "83">> /\ out = <<Byte("83")>>
  /\ drv = "enable" => inbox = "none" /\ ~ scanning /\ out = <<>>
  /\ drv = "ACK enable" =>
       \/ (inbox = "enable" /\ ~ scanning /\ out = <<>>)
       \/ (inbox = "none" /\ scanning /\ Len(out) > 0 /\ IsAck(out[1])
             /\ NoAck(out, 2, Len(out)))
  /\ drv \in {"getch", "repeat"} =>
       inbox = "none" /\ scanning /\ NoAck(out, 1, Len(out))

\* Where the kernel is before the identity is read and after it.
Before == {"disable", "ACK disable", "identify", "ACK identify", "low byte"}
After == {"enable", "ACK enable", "getch", "repeat"}

\* With the part of the identity that the kernel has at each place.
KInv ==
  /\ out \in Seq(Bytes)
  /\ identity \in Identities
  /\ drv \in Before \cup {"high byte"} \cup After
  /\ outData = IF drv \in Before THEN <<>>
               ELSE IF drv = "high byte" THEN <<PS2_DEVICE_MF2_HIGHBYTE>>
               ELSE identity
  /\ OnTheWay

\* The inductive invariant of the typing.  The bytes behind the ACK, one after the
\* other, take the kernel's flag to the shift key that is held, and its count of
\* characters to the number of keys typed: s and c are the flag and the count in
\* front of each byte and behind the last one.
Rest == IF drv = "ACK enable" THEN (IF out = <<>> THEN <<>> ELSE Tail(out)) ELSE out

ShiftStep(b, s) ==
  IF b.code = "shift make" THEN TRUE ELSE IF b.code = "shift break" THEN FALSE ELSE s

StepCarries(b, keys, s1, s2, c1, c2) ==
  /\ s2 = ShiftStep(b, s1)
  /\ c2 = IF b.code = "make" THEN c1 + 1 ELSE c1
  /\ b.code = "make" => StandsFor([key |-> b.key, shift |-> s1], keys[c2])

Carries(bytes, keys, s, c) ==
  \A i \in 1 .. Len(bytes) : StepCarries(bytes[i], keys, s[i - 1], s[i], c[i - 1], c[i])

Linked(bytes, sh, chars, held, keys) ==
  \E s \in [0 .. Len(bytes) -> BOOLEAN], c \in [0 .. Len(bytes) -> 0 .. Len(keys)] :
    /\ Carries(bytes, keys, s, c)
    /\ s[0] = sh /\ s[Len(bytes)] = (held # {})
    /\ c[0] = Len(chars) /\ c[Len(bytes)] = Len(keys)

Chars == [key : Keys \cup {"none"}, shift : BOOLEAN]
Strokes == [key : Keys \cup {"none"}, shift : BOOLEAN, unseen : BOOLEAN]

\* What the kernel has stands for what was typed, as far as it goes.
Agree(chars, keys) == \A i \in 1 .. Len(chars) : StandsFor(chars[i], keys[i])

\* The shift keys the kernel has heard of or will.
Heard == down \ unseen

TInv ==
  /\ typed \in Seq(Strokes) /\ got \in Seq(Chars)
  /\ isShift \in BOOLEAN /\ down \subseteq ShiftKeys /\ unseen \subseteq down
  /\ ~ Checked => typed = <<>> /\ got = <<>> /\ ~ isShift
  /\ ~ Checked \/ ~ scanning => down = unseen
  /\ Checked => Linked(Rest, isShift, got, Heard, typed)
  /\ Agree(got, typed)

\* What is left of a queue when its first byte is read.
LEMMA ReadOne ==
  ASSUME NEW s \in Seq(Bytes), s # <<>>
  PROVE  /\ Tail(s) \in Seq(Bytes) /\ Len(Tail(s)) = Len(s) - 1
         /\ \A i \in 1 .. Len(s) - 1 : Tail(s)[i] = s[i + 1]
         /\ Len(s) \in Nat /\ Len(s) >= 1 /\ 1 \in 1 .. Len(s)
         /\ Head(s) = s[1] /\ s[1] \in Bytes
  OBVIOUS

\* And when one is sent.
LEMMA SendOne ==
  ASSUME NEW s \in Seq(Bytes), NEW b \in Bytes
  PROVE  /\ Append(s, b) \in Seq(Bytes) /\ Len(Append(s, b)) = Len(s) + 1
         /\ \A i \in 1 .. Len(s) : Append(s, b)[i] = s[i]
         /\ Len(s) \in Nat /\ Append(s, b)[Len(s) + 1] = b
  OBVIOUS

\* A byte in front of others.
LEMMA InFront ==
  ASSUME NEW b \in Bytes, NEW s \in Seq(Bytes)
  PROVE  /\ <<b>> \o s \in Seq(Bytes) /\ Len(<<b>> \o s) > 0
         /\ (<<b>> \o s)[1] = b /\ Head(<<b>> \o s) = b /\ Tail(<<b>> \o s) = s
  OBVIOUS

\* The only byte of a queue.
LEMMA OnlyByte ==
  ASSUME NEW b \in Bytes
  PROVE  /\ <<b>> \in Seq(Bytes) /\ <<>> \o <<b>> = <<b>> /\ Len(<<b>>) > 0
         /\ <<b>>[1] = b /\ Head(<<b>>) = b /\ Tail(<<b>>) = <<>>
         /\ \A s \in Seq(Bytes) : s \o <<b>> = Append(s, b)
  OBVIOUS

\* One value, and two, appended to nothing.
LEMMA Appended ==
  ASSUME NEW x, NEW y
  PROVE  Append(<<>>, x) = <<x>> /\ Append(<<x>>, y) = <<x, y>>
<1> DEFINE s == Append(<<x>>, y)
<1> DEFINE t == <<x, y>>
<1>1. s \in Seq({x, y}) /\ t \in Seq({x, y})
  OBVIOUS
<1>2. Len(s) = 2 /\ Len(t) = 2 /\ s[1] = x /\ s[2] = y /\ t[1] = x /\ t[2] = y
  OBVIOUS
<1> HIDE DEF s, t
<1>3. \A i \in 1 .. Len(s) : i = 1 \/ i = 2
  BY <1>2
<1>4. s = t
  BY <1>1, <1>2, <1>3
<1> QED
  BY <1>4 DEF s, t

\* What NoAck says of the rest when a byte is read.
LEMMA NoAckRead ==
  ASSUME NEW s \in Seq(Bytes), s # <<>>, NEW k \in {1, 2}, NoAck(s, k, Len(s))
  PROVE  NoAck(Tail(s), 1, Len(Tail(s)))
<1>1. ASSUME NEW i \in 1 .. Len(s) - 1
      PROVE  ~ IsAck(s[i + 1])
  <2>1. i + 1 \in k .. Len(s)
    BY ReadOne
  <2> QED
    BY <2>1 DEF NoAck
<1> QED
  BY <1>1, ReadOne DEF NoAck

\* And when one is sent.
LEMMA NoAckSent ==
  ASSUME NEW s \in Seq(Bytes), NEW b \in Bytes, ~ IsAck(b), NEW k \in {1, 2},
         NoAck(s, k, Len(s))
  PROVE  NoAck(Append(s, b), k, Len(Append(s, b)))
<1> DEFINE t == Append(s, b)
<1>1. /\ Len(t) = Len(s) + 1 /\ Len(s) \in Nat /\ t[Len(s) + 1] = b
      /\ \A i \in 1 .. Len(s) : t[i] = s[i]
  BY SendOne
<1> HIDE DEF t
<1>2. ASSUME NEW i \in k .. Len(t)
      PROVE  ~ IsAck(t[i])
  <2>1. CASE i = Len(s) + 1
    BY <1>1, <2>1
  <2>2. CASE i # Len(s) + 1
    <3>1. i \in k .. Len(s) /\ i \in 1 .. Len(s)
      BY <1>1, <1>2, <2>2
    <3>2. t[i] = s[i]
      BY <1>1, <3>1
    <3> QED
      BY <3>1, <3>2 DEF NoAck
  <2> QED
    BY <2>1, <2>2
<1>3. NoAck(t, k, Len(t))
  BY <1>2 DEF NoAck
<1> QED
  BY <1>3 DEF t

\* Dropping a byte: the ACK is the last one, or it is still there.
LEMMA KeysThenAckRead ==
  ASSUME NEW s \in Seq(Bytes), KeysThenAck(s)
  PROVE  IF IsAck(s[1]) THEN Tail(s) = <<>> ELSE KeysThenAck(Tail(s))
<1>1. Len(s) \in Nat /\ Len(s) >= 1 /\ s # <<>>
  BY DEF KeysThenAck
<1>2. /\ Tail(s) \in Seq(Bytes) /\ Len(Tail(s)) = Len(s) - 1
      /\ \A i \in 1 .. Len(s) - 1 : Tail(s)[i] = s[i + 1]
  BY <1>1, ReadOne
<1>3. CASE IsAck(s[1])
  <2>1. ~ (1 \in 1 .. Len(s) - 1)
    BY <1>3 DEF KeysThenAck, NoAck
  <2>2. Len(s) <= 1
    BY <1>1, <2>1
  <2>3. Tail(s) = <<>>
    BY <1>1, <2>2
  <2> QED
    BY <1>3, <2>3
<1>4. CASE ~ IsAck(s[1])
  <2>1. Len(s) > 1
    <3>1. ~ (Len(s) <= 1)
      <4>1. SUFFICES ASSUME Len(s) <= 1 PROVE IsAck(s[1])
        BY <1>4
      <4> DEFINE n == Len(s)
      <4>2. n \in Nat /\ n >= 1 /\ n <= 1
        BY <1>1, <4>1
      <4>3. IsAck(s[n])
        BY DEF KeysThenAck
      <4> HIDE DEF n
      <4>4. n = 1
        BY <4>2
      <4> QED
        BY <4>3, <4>4
    <3> QED
      BY <1>1, <3>1
  <2>2. Len(s) - 1 \in 1 .. (Len(s) - 1)
    BY <1>1, <2>1
  <2>3. Tail(s)[Len(s) - 1] = s[(Len(s) - 1) + 1] /\ (Len(s) - 1) + 1 = Len(s)
    BY <1>1, <1>2, <2>2
  <2>4. IsAck(Tail(s)[Len(Tail(s))])
    BY <1>2, <2>3 DEF KeysThenAck
  <2>5. ASSUME NEW i \in 1 .. Len(s) - 2
        PROVE  ~ IsAck(Tail(s)[i])
    <3>1. i \in 1 .. Len(s) - 1 /\ i + 1 \in 1 .. Len(s) - 1
      BY <1>1, <2>5
    <3>2. Tail(s)[i] = s[i + 1]
      BY <1>2, <3>1
    <3> QED
      BY <3>1, <3>2 DEF KeysThenAck, NoAck
  <2>6. Len(Tail(s)) > 0 /\ Len(Tail(s)) - 1 = Len(s) - 2
    BY <1>1, <1>2, <2>1
  <2>7. KeysThenAck(Tail(s))
    BY <2>4, <2>5, <2>6 DEF KeysThenAck, NoAck
  <2> QED
    BY <1>4, <2>7
<1> QED
  BY <1>3, <1>4

\* The ACK is sent behind the keys.
LEMMA AckSent ==
  ASSUME NEW s \in Seq(Bytes), NoAck(s, 1, Len(s)), NEW b \in Bytes, IsAck(b)
  PROVE  KeysThenAck(Append(s, b))
<1> DEFINE t == Append(s, b)
<1>1. /\ Len(t) = Len(s) + 1 /\ Len(s) \in Nat /\ t[Len(s) + 1] = b
      /\ \A i \in 1 .. Len(s) : t[i] = s[i]
  BY SendOne
<1> HIDE DEF t
<1>2. Len(t) > 0 /\ IsAck(t[Len(t)]) /\ Len(t) - 1 = Len(s)
  BY <1>1
<1>3. \A i \in 1 .. Len(s) : ~ IsAck(t[i])
  BY <1>1 DEF NoAck
<1>4. KeysThenAck(t)
  BY <1>2, <1>3 DEF KeysThenAck, NoAck
<1> QED
  BY <1>4 DEF t

\* The bytes of the identity.
LEMMA IdentityFacts ==
  ASSUME identity \in Identities
  PROVE  /\ IdentityBytes \in Seq(Bytes) /\ <<Byte("ACK")>> \in Seq(Bytes)
         /\ identity = <<>> => IdentityBytes = <<>>
         /\ identity = <<"00">> => IdentityBytes = <<Byte("00")>>
         /\ identity = <<"AB", "83">> => IdentityBytes = <<Byte("AB"), Byte("83")>>
<1>1. \A c \in Codes : Byte(c) \in Bytes
  BY DEF Byte, Bytes
<1>2. Byte("ACK") \in Bytes /\ Byte("00") \in Bytes /\ Byte("AB") \in Bytes
      /\ Byte("83") \in Bytes
  BY <1>1 DEF Codes, PS2_DEVICE_MF2_HIGHBYTE
<1>3. CASE identity = <<>>
  <2>1. IdentityBytes = <<>>
    BY <1>3 DEF IdentityBytes
  <2> QED
    BY <1>2, <1>3, <2>1
<1>4. CASE identity = <<"00">>
  <2>1. DOMAIN identity = 1 .. 1 /\ identity[1] = "00"
    BY <1>4
  <2>2. IdentityBytes = <<Byte("00")>>
    BY <2>1 DEF IdentityBytes
  <2> QED
    BY <1>2, <1>4, <2>2
<1>5. CASE identity = <<"AB", "83">>
  <2>1. DOMAIN identity = 1 .. 2 /\ identity[1] = "AB" /\ identity[2] = "83"
    BY <1>5
  <2>2. IdentityBytes = <<Byte("AB"), Byte("83")>>
    BY <2>1 DEF IdentityBytes
  <2> QED
    BY <1>2, <1>5, <2>2
<1> QED
  BY <1>3, <1>4, <1>5 DEF Identities, PS2_DEVICE_MF2_HIGHBYTE

\* Before the first command nothing is known but that keys may have been pressed.
LEMMA InitKInv == KeyboardInit => KInv
<1> SUFFICES ASSUME KeyboardInit PROVE KInv
  OBVIOUS
<1>1. /\ out = <<>> /\ inbox = "none" /\ scanning /\ identity \in Identities
      /\ drv = "disable" /\ outData = <<>>
  BY DEF KeyboardInit
<1>2. out \in Seq(Bytes) /\ NoAck(out, 1, Len(out))
  BY <1>1 DEF NoAck
<1>3. OnTheWay
  BY <1>1, <1>2 DEF OnTheWay
<1> QED
  BY <1>1, <1>2, <1>3 DEF KInv, Before

\* The kernel writes a command.
LEMMA CommandKInv ==
  ASSUME KInv, DisableScanning \/ Identify \/ EnableScanning
  PROVE  KInv'
<1>1. /\ out' = out /\ scanning' = scanning /\ identity' = identity /\ outData' = outData
      /\ OnTheWay /\ out \in Seq(Bytes) /\ identity \in Identities
  BY DEF KInv, DisableScanning, Identify, EnableScanning, Write
<1>2. CASE DisableScanning
  <2>1. drv = "disable" /\ drv' = "ACK disable" /\ inbox' = "disable"
    BY <1>2 DEF DisableScanning, Write
  <2>2. OnTheWay'
    BY <1>1, <2>1 DEF OnTheWay
  <2> QED
    BY <1>1, <2>1, <2>2 DEF KInv, Before, After
<1>3. CASE Identify
  <2>1. drv = "identify" /\ drv' = "ACK identify" /\ inbox' = "identify"
    BY <1>3 DEF Identify, Write
  <2>2. OnTheWay'
    BY <1>1, <2>1 DEF OnTheWay
  <2> QED
    BY <1>1, <2>1, <2>2 DEF KInv, Before, After
<1>4. CASE EnableScanning
  <2>1. drv = "enable" /\ drv' = "ACK enable" /\ inbox' = "enable"
    BY <1>4 DEF EnableScanning, Write
  <2>2. OnTheWay'
    BY <1>1, <2>1 DEF OnTheWay
  <2> QED
    BY <1>1, <2>1, <2>2 DEF KInv, Before, After
<1> QED
  BY <1>2, <1>3, <1>4

\* The keyboard takes a command: the ACK is behind what it had sent.
LEMMA TakeCommandKInv ==
  ASSUME KInv, TakeCommand
  PROVE  KInv'
<1>1. /\ out \in Seq(Bytes) /\ identity \in Identities /\ OnTheWay
      /\ drv \in Before \cup {"high byte"} \cup After
      /\ outData = IF drv \in Before THEN <<>>
                   ELSE IF drv = "high byte" THEN <<PS2_DEVICE_MF2_HIGHBYTE>>
                   ELSE identity
  BY DEF KInv
<1>2. /\ inbox # "none" /\ out' = out \o Answer /\ inbox' = "none"
      /\ scanning' = (IF inbox = "identify" THEN scanning ELSE inbox = "enable")
      /\ identity' = identity /\ drv' = drv /\ outData' = outData
  BY DEF TakeCommand
<1>3. Byte("ACK") \in Bytes /\ IsAck(Byte("ACK"))
  BY DEF Byte, Bytes, Codes, IsAck
<1>4. CASE drv = "ACK disable"
  <2>1. inbox = "disable" /\ NoAck(out, 1, Len(out))
    BY <1>1, <1>2, <1>4 DEF OnTheWay
  <2>2. Answer = <<Byte("ACK")>>
    BY <2>1 DEF Answer
  <2>3. out' = Append(out, Byte("ACK")) /\ out' \in Seq(Bytes)
    BY <1>1, <1>2, <1>3, <2>2, OnlyByte, SendOne
  <2>4. KeysThenAck(out')
    BY <1>1, <1>3, <2>1, <2>3, AckSent
  <2>5. OnTheWay'
    BY <1>2, <1>4, <2>1, <2>4 DEF OnTheWay
  <2> QED
    BY <1>1, <1>2, <2>3, <2>5 DEF KInv
<1>5. CASE drv = "ACK identify"
  <2>1. inbox = "identify" /\ ~ scanning /\ out = <<>>
    BY <1>1, <1>2, <1>5 DEF OnTheWay
  <2>2. Answer = <<Byte("ACK")>> \o IdentityBytes
    BY <2>1 DEF Answer, IdentityBytes
  <2>3. Answer \in Seq(Bytes)
    <3>1. IdentityBytes \in Seq(Bytes) /\ <<Byte("ACK")>> \in Seq(Bytes)
      BY <1>1, IdentityFacts
    <3> HIDE DEF IdentityBytes
    <3> QED
      BY <2>2, <3>1
  <2>4. out' = <<Byte("ACK")>> \o IdentityBytes /\ out' \in Seq(Bytes)
    BY <1>2, <2>1, <2>2, <2>3
  <2>5. IdentityBytes' = IdentityBytes
    BY <1>2 DEF IdentityBytes
  <2>6. OnTheWay'
    BY <1>2, <1>5, <2>1, <2>4, <2>5 DEF OnTheWay
  <2> QED
    BY <1>1, <1>2, <2>4, <2>6 DEF KInv
<1>6. CASE drv = "ACK enable"
  <2>1. inbox = "enable" /\ out = <<>>
    BY <1>1, <1>2, <1>6 DEF OnTheWay
  <2>2. Answer = <<Byte("ACK")>>
    BY <2>1 DEF Answer
  <2>3. out' = <<Byte("ACK")>>
    BY <1>2, <1>3, <2>1, <2>2, OnlyByte
  <2>4. out' \in Seq(Bytes) /\ Len(out') > 0 /\ out'[1] = Byte("ACK")
    BY <1>3, <2>3, OnlyByte
  <2>5. NoAck(out', 2, Len(out'))
    <3>1. Len(out') <= 1
      BY <2>3
    <3> QED
      BY <2>4, <3>1 DEF NoAck
  <2>6. OnTheWay'
    BY <1>2, <1>3, <1>6, <2>1, <2>4, <2>5 DEF OnTheWay
  <2> QED
    BY <1>1, <1>2, <2>4, <2>6 DEF KInv
<1> QED
  BY <1>1, <1>2, <1>4, <1>5, <1>6 DEF OnTheWay, Before, After

\* The kernel drops bytes up to the ACK.
LEMMA WaitForAckKInv ==
  ASSUME KInv,
         \/ WaitForAck("ACK disable", "identify")
         \/ WaitForAck("ACK identify", "low byte")
         \/ WaitForAck("ACK enable", "getch")
  PROVE  KInv'
<1>1. /\ out \in Seq(Bytes) /\ identity \in Identities /\ OnTheWay
      /\ outData = IF drv \in Before THEN <<>>
                   ELSE IF drv = "high byte" THEN <<PS2_DEVICE_MF2_HIGHBYTE>>
                   ELSE identity
  BY DEF KInv
<1>2. /\ out # <<>> /\ out' = Tail(out) /\ outData' = outData
      /\ inbox' = inbox /\ scanning' = scanning /\ identity' = identity
  BY DEF WaitForAck, ReadByte, device
<1>3. /\ out' \in Seq(Bytes) /\ Len(out') = Len(out) - 1
      /\ \A i \in 1 .. Len(out) - 1 : out'[i] = out[i + 1]
      /\ Len(out) \in Nat /\ Len(out) >= 1 /\ Head(out) = out[1]
  BY <1>1, <1>2, ReadOne
<1>0. Len(out) \in Nat /\ Len(out) >= 1
  BY <1>1, <1>2, ReadOne
<1>4. CASE WaitForAck("ACK disable", "identify")
  <2>1. drv = "ACK disable" /\ drv' = (IF IsAck(out[1]) THEN "identify" ELSE "ACK disable")
    BY <1>3, <1>4 DEF WaitForAck
  <2>2. CASE inbox = "disable"
    <3>1. scanning /\ NoAck(out, 1, Len(out))
      BY <1>1, <2>1, <2>2 DEF OnTheWay
    <3>2. 1 \in 1 .. Len(out)
      BY <1>1, <1>2, ReadOne
    <3>3. ~ IsAck(out[1]) /\ NoAck(out', 1, Len(out'))
      BY <1>1, <1>2, <3>1, <3>2, NoAckRead DEF NoAck
    <3>4. OnTheWay'
      BY <1>2, <2>1, <2>2, <3>1, <3>3 DEF OnTheWay
    <3> QED
      BY <1>1, <1>2, <1>3, <2>1, <3>3, <3>4 DEF KInv, Before, After
  <2>3. CASE inbox = "none"
    <3>1. ~ scanning /\ KeysThenAck(out)
      BY <1>1, <2>1, <2>3 DEF OnTheWay
    <3>2. IF IsAck(out[1]) THEN out' = <<>> ELSE KeysThenAck(out')
      BY <1>1, <1>2, <3>1, KeysThenAckRead
    <3>3. OnTheWay'
      BY <1>2, <2>1, <2>3, <3>1, <3>2 DEF OnTheWay
    <3> QED
      BY <1>1, <1>2, <1>3, <2>1, <3>3 DEF KInv, Before, After
  <2> QED
    BY <1>1, <2>1, <2>2, <2>3 DEF OnTheWay
<1>5. CASE WaitForAck("ACK identify", "low byte")
  <2>1. drv = "ACK identify" /\ drv' = (IF IsAck(out[1]) THEN "low byte" ELSE "ACK identify")
    BY <1>3, <1>5 DEF WaitForAck
  <2>2. inbox = "none" /\ ~ scanning /\ out = <<Byte("ACK")>> \o IdentityBytes
    BY <1>1, <1>2, <2>1 DEF OnTheWay
  <2>3. out[1] = Byte("ACK") /\ Tail(out) = IdentityBytes
    <3>1. IdentityBytes \in Seq(Bytes) /\ <<Byte("ACK")>> \in Seq(Bytes)
      BY <1>1, IdentityFacts
    <3>2. Byte("ACK") \in Bytes
      BY DEF Byte, Bytes, Codes
    <3> QED
      BY <2>2, <3>1, <3>2, InFront
  <2>4. drv' = "low byte"
    <3>1. IsAck(Byte("ACK"))
      BY DEF IsAck, Byte
    <3>2. IsAck(out[1])
      BY <2>3, <3>1
    <3> QED
      BY <2>1, <3>2
  <2>5. IdentityBytes' = IdentityBytes
    BY <1>2 DEF IdentityBytes
  <2>6. OnTheWay'
    BY <1>2, <2>2, <2>3, <2>4, <2>5 DEF OnTheWay
  <2> QED
    BY <1>1, <1>2, <1>3, <2>1, <2>4, <2>6 DEF KInv, Before, After
<1>6. CASE WaitForAck("ACK enable", "getch")
  <2>1. drv = "ACK enable" /\ drv' = (IF IsAck(out[1]) THEN "getch" ELSE "ACK enable")
    BY <1>3, <1>6 DEF WaitForAck
  <2>2. inbox = "none" /\ scanning /\ IsAck(out[1]) /\ NoAck(out, 2, Len(out))
    BY <1>1, <1>2, <2>1 DEF OnTheWay
  <2>3. NoAck(out', 1, Len(out'))
    BY <1>1, <1>2, <2>2, NoAckRead
  <2>4. OnTheWay'
    BY <1>2, <2>1, <2>2, <2>3 DEF OnTheWay
  <2> QED
    BY <1>1, <1>2, <1>3, <2>1, <2>2, <2>4 DEF KInv, Before, After
<1> QED
  BY <1>4, <1>5, <1>6

\* The kernel reads the identity, one or two bytes of it.
LEMMA ReadIdentityKInv ==
  ASSUME KInv, ReadIdentity
  PROVE  KInv'
<1>1. /\ out \in Seq(Bytes) /\ identity \in Identities /\ OnTheWay
      /\ outData = IF drv \in Before THEN <<>>
                   ELSE IF drv = "high byte" THEN <<PS2_DEVICE_MF2_HIGHBYTE>>
                   ELSE identity
  BY DEF KInv
<1>2. /\ out # <<>> /\ out' = Tail(out) /\ outData' = Append(outData, Head(out).code)
      /\ inbox' = inbox /\ scanning' = scanning /\ identity' = identity
      /\ drv \in {"low byte", "high byte"}
      /\ drv' = IF drv = "low byte" /\ More(Head(out)) THEN "high byte" ELSE "enable"
  BY DEF ReadIdentity, ReadByte, device
<1>3. inbox = "none" /\ ~ scanning
  BY <1>1, <1>2 DEF OnTheWay
<1>4. CASE drv = "low byte"
  <2>1. out = IdentityBytes /\ outData = <<>>
    BY <1>1, <1>4 DEF OnTheWay, Before
  <2>2. CASE identity = <<"00">>
    <3>1. out = <<Byte("00")>>
      BY <1>1, <2>1, <2>2, IdentityFacts
    <3>2. Head(out) = Byte("00") /\ Tail(out) = <<>>
      BY <3>1
    <3>3. Head(out).code = "00"
      BY <3>2 DEF Byte
    <3>4. outData' = <<"00">>
      BY <1>2, <2>1, <3>3, Appended
    <3>5. drv' = "enable" /\ out' = <<>>
      BY <1>2, <3>2, <3>3 DEF More, PS2_DEVICE_MF2_HIGHBYTE
    <3>6. OnTheWay'
      BY <1>2, <1>3, <3>5 DEF OnTheWay
    <3>7. out' \in Seq(Bytes)
      BY <3>5
    <3>8. outData' = identity'
      BY <1>2, <2>2, <3>4
    <3> QED
      BY <1>1, <1>2, <3>5, <3>6, <3>7, <3>8 DEF KInv, Before, After
  <2>3. CASE identity = <<"AB", "83">>
    <3>1. out = <<Byte("AB"), Byte("83")>>
      BY <1>1, <2>1, <2>3, IdentityFacts
    <3>2. Head(out) = Byte("AB") /\ Tail(out) = <<Byte("83")>>
      BY <3>1
    <3>3. Head(out).code = "AB"
      BY <3>2 DEF Byte
    <3>4. outData' = <<"AB">>
      BY <1>2, <2>1, <3>3, Appended
    <3>5. drv' = "high byte" /\ out' = <<Byte("83")>>
      BY <1>2, <1>4, <3>2, <3>3 DEF More, PS2_DEVICE_MF2_HIGHBYTE
    <3>6. OnTheWay'
      BY <1>2, <1>3, <2>3, <3>5 DEF OnTheWay, PS2_DEVICE_MF2_HIGHBYTE
    <3>7. out' \in Seq(Bytes)
      BY <1>1, <1>2, ReadOne
    <3> QED
      BY <1>1, <1>2, <3>4, <3>5, <3>6, <3>7 DEF KInv, Before, After, PS2_DEVICE_MF2_HIGHBYTE
  <2>4. identity # <<>>
    BY <1>1, <1>2, <2>1, IdentityFacts
  <2> QED
    BY <1>1, <2>2, <2>3, <2>4 DEF Identities, PS2_DEVICE_MF2_HIGHBYTE
<1>5. CASE drv = "high byte"
  <2>1. identity = <<"AB", "83">> /\ out = <<Byte("83")>> /\ outData = <<"AB">>
    BY <1>1, <1>5 DEF OnTheWay, PS2_DEVICE_MF2_HIGHBYTE, Before
  <2>2. Head(out).code = "83" /\ Tail(out) = <<>>
    BY <2>1 DEF Byte
  <2>3. drv' = "enable" /\ out' = <<>>
    BY <1>2, <1>5, <2>2
  <2>4. outData' = <<"AB", "83">>
    <3>1. outData' = Append(<<"AB">>, "83")
      BY <1>2, <2>1, <2>2
    <3> QED
      BY <3>1, Appended
  <2>5. OnTheWay'
    BY <1>2, <1>3, <2>3 DEF OnTheWay
  <2>6. out' \in Seq(Bytes)
    BY <2>3
  <2>7. outData' = identity'
    BY <1>2, <2>1, <2>4
  <2> QED
    BY <1>1, <1>2, <2>3, <2>5, <2>6, <2>7 DEF KInv, Before, After
<1> QED
  BY <1>2, <1>4, <1>5

\* kernel_getch takes the first byte.
LEMMA GetchKInv ==
  ASSUME KInv, Getch
  PROVE  KInv'
<1>1. /\ out \in Seq(Bytes) /\ identity \in Identities /\ OnTheWay
      /\ drv \in {"getch", "repeat"}
      /\ outData = identity
  BY DEF KInv, Getch, Before
<1>2. /\ out # <<>> /\ out' = Tail(out) /\ outData' = outData
      /\ inbox' = inbox /\ scanning' = scanning /\ identity' = identity
      /\ drv' \in {"getch", "repeat"}
  BY DEF Getch, ReadByte, device
<1>3. /\ out' \in Seq(Bytes) /\ Len(out') = Len(out) - 1
      /\ \A i \in 1 .. Len(out) - 1 : out'[i] = out[i + 1]
      /\ Len(out) \in Nat /\ Len(out) >= 1
  BY <1>1, <1>2, ReadOne
<1>4. NoAck(out', 1, Len(out'))
  BY <1>1, <1>2, NoAckRead DEF OnTheWay
<1>5. OnTheWay'
  BY <1>1, <1>2, <1>4 DEF OnTheWay
<1> QED
  BY <1>1, <1>2, <1>3, <1>5 DEF KInv, Before, After

\* A key: one more byte that is no ACK.
LEMMA UserKInv ==
  ASSUME KInv, NEW b \in Bytes, ~ IsAck(b), Send(b),
         UNCHANGED <<inbox, scanning, identity, drv, outData>>
  PROVE  KInv'
<1>0. scanning /\ OnTheWay
  BY DEF KInv, Send
<1>1. out \in Seq(Bytes) /\ out' = Append(out, b)
  BY DEF KInv, Send
<1>2. /\ out' \in Seq(Bytes) /\ Len(out') = Len(out) + 1 /\ Len(out) \in Nat
      /\ \A i \in 1 .. Len(out) : out'[i] = out[i]
      /\ out'[Len(out) + 1] = b
  BY <1>1, SendOne
<1>3. ASSUME NEW k \in {1, 2}, NoAck(out, k, Len(out))
      PROVE  NoAck(out', k, Len(out'))
  BY <1>1, <1>3, NoAckSent
<1>4. drv \in {"disable", "ACK disable", "ACK enable", "getch", "repeat"}
  BY <1>0 DEF KInv, OnTheWay, Before, After
<1>5. drv' = drv /\ inbox' = inbox /\ scanning'
  BY <1>0
<1>6. OnTheWay'
  <2>1. CASE drv \in {"disable", "getch", "repeat"}
    <3>1. inbox = "none" /\ NoAck(out, 1, Len(out))
      BY <1>0, <2>1 DEF OnTheWay
    <3>2. NoAck(out', 1, Len(out'))
      BY <1>3, <3>1
    <3> QED
      BY <1>5, <2>1, <3>1, <3>2 DEF OnTheWay
  <2>2. CASE drv = "ACK disable"
    <3>1. inbox = "disable" /\ NoAck(out, 1, Len(out))
      BY <1>0, <2>2 DEF OnTheWay
    <3>2. NoAck(out', 1, Len(out'))
      BY <1>3, <3>1
    <3> QED
      BY <1>5, <2>2, <3>1, <3>2 DEF OnTheWay
  <2>3. CASE drv = "ACK enable"
    <3>1. inbox = "none" /\ Len(out) > 0 /\ IsAck(out[1]) /\ NoAck(out, 2, Len(out))
      BY <1>0, <2>3 DEF OnTheWay
    <3>2. NoAck(out', 2, Len(out'))
      BY <1>3, <3>1
    <3>3. Len(out') > 0 /\ out'[1] = out[1]
      BY <1>2, <3>1
    <3> QED
      BY <1>5, <2>3, <3>1, <3>2, <3>3 DEF OnTheWay
  <2> QED
    BY <1>4, <2>1, <2>2, <2>3
<1> QED
  BY <1>2, <1>6 DEF KInv

\* A key that moves while the keyboard reports nothing.
LEMMA SilentKInv ==
  ASSUME KInv, UNCHANGED <<out, inbox, scanning, identity, drv, outData>>
  PROVE  KInv'
<1>1. OnTheWay' = OnTheWay
  BY DEF OnTheWay, IdentityBytes
<1> QED
  BY <1>1 DEF KInv

\* The inductive step, one case for each action.
LEMMA StepKInv ==
  ASSUME KInv, [KeyboardNext]_keyboardVars
  PROVE  KInv'
<1>1. ASSUME NEW k \in Keys, PressKey(k)
      PROVE  KInv'
  <2> DEFINE b == [code |-> "make", key |-> k]
  <2>1. b \in Bytes /\ ~ IsAck(b)
    BY DEF Bytes, Codes, IsAck
  <2>2. Send(b) /\ UNCHANGED <<inbox, scanning, identity, drv, outData>>
    BY <1>1 DEF PressKey
  <2> HIDE DEF b
  <2> QED
    BY <2>1, <2>2, UserKInv
<1>2. CASE ReleaseKey
  <2>1. Byte("break") \in Bytes /\ ~ IsAck(Byte("break"))
    BY DEF Bytes, Codes, IsAck, Byte
  <2>2. Send(Byte("break")) /\ UNCHANGED <<inbox, scanning, identity, drv, outData>>
    BY <1>2 DEF ReleaseKey
  <2> QED
    BY <2>1, <2>2, UserKInv
<1>3. ASSUME NEW s \in ShiftKeys, PressShift(s) \/ ReleaseShift(s)
      PROVE  KInv'
  <2>1. \A c \in {"shift make", "shift break"} : Byte(c) \in Bytes /\ ~ IsAck(Byte(c))
    BY DEF Bytes, Codes, IsAck, Byte
  <2>2. /\ Send(Byte("shift make")) \/ Send(Byte("shift break")) \/ UNCHANGED out
        /\ UNCHANGED <<inbox, scanning, identity, drv, outData>>
    BY <1>3 DEF PressShift, ReleaseShift, Report
  <2>3. CASE UNCHANGED out
    BY <2>2, <2>3, SilentKInv
  <2> QED
    BY <2>1, <2>2, <2>3, UserKInv
<1>4. CASE UNCHANGED keyboardVars
  BY <1>4, SilentKInv DEF keyboardVars
<1> QED
  BY <1>1, <1>2, <1>3, <1>4, CommandKInv, WaitForAckKInv, ReadIdentityKInv, GetchKInv,
     TakeCommandKInv DEF KeyboardNext, Kernel, CheckDevice, User

\* Whatever is typed before the keyboard is told to stop, the check reads the
\* identity and nothing else.
THEOREM IdentityIsRead == KeyboardSpec => []IdentityRead
<1>1. KInv => IdentityRead
  BY DEF KInv, IdentityRead, Checked, Before
<1> QED
  BY <1>1, InitKInv, StepKInv, PTL DEF KeyboardSpec

-------------------------------------------------------------------------------
\* What the kernel has after it read a byte with its flag.
NowRead(b, sh, chars) ==
  IF b.code = "make" THEN Append(chars, [key |-> b.key, shift |-> sh]) ELSE chars

\* What was typed is only added to.
Longer(keys, keysNow) ==
  /\ Len(keys) <= Len(keysNow)
  /\ \A i \in 1 .. Len(keys) : keysNow[i] = keys[i]

\* The keyboard sends a byte, at the keys typed and the shift keys held.
Sends(b, held, heldNow, keys, keysNow) ==
  /\ (heldNow # {}) = ShiftStep(b, held # {})
  /\ IF b.code = "make"
       THEN \E k \in Strokes : /\ StandsFor([key |-> b.key, shift |-> held # {}], k)
                              /\ keysNow = Append(keys, k)
       ELSE keysNow = keys

\* The first byte is read: the kernel's shift and its count move on by it.
LEMMA LinkedRead ==
  ASSUME NEW bytes \in Seq(Bytes), bytes # <<>>, NEW sh \in BOOLEAN,
         NEW chars \in Seq(Chars), NEW keys \in Seq(Strokes), NEW held,
         Linked(bytes, sh, chars, held, keys),
         Agree(chars, keys),
         NEW new, new = NowRead(bytes[1], sh, chars)
  PROVE  /\ new \in Seq(Chars)
         /\ Agree(new, keys)
         /\ Linked(Tail(bytes), ShiftStep(bytes[1], sh), new, held, keys)
<1> DEFINE rest == Tail(bytes)
<1> DEFINE n == Len(bytes)
<1> DEFINE m == Len(rest)
<1> DEFINE k == Len(keys)
<1> DEFINE b == bytes[1]
<1>1. /\ rest \in Seq(Bytes) /\ m = n - 1 /\ n \in Nat /\ n >= 1 /\ b \in Bytes
      /\ \A i \in 1 .. n - 1 : rest[i] = bytes[i + 1]
  BY ReadOne
<1>2. PICK s \in [0 .. n -> BOOLEAN], c \in [0 .. n -> 0 .. k] :
        /\ \A i \in 1 .. n : StepCarries(bytes[i], keys, s[i - 1], s[i], c[i - 1], c[i])
        /\ s[0] = sh /\ s[n] = (held # {}) /\ c[0] = Len(chars) /\ c[n] = k
  BY DEF Linked, Carries
<1>3. k \in Nat /\ Len(chars) \in Nat
  OBVIOUS
<1>4. StepCarries(b, keys, s[0], s[1], c[0], c[1])
  <2>1. 1 \in 1 .. n /\ 1 - 1 = 0
    BY <1>1
  <2> HIDE DEF n
  <2> QED
    BY <1>2, <2>1
<1>5. /\ new \in Seq(Chars) /\ c[1] = Len(new)
      /\ \A i \in 1 .. Len(new) : StandsFor(new[i], keys[i])
  <2>1. CASE b.code = "make"
    <3> DEFINE x == [key |-> b.key, shift |-> sh]
    <3>1. x \in Chars
      BY <1>1 DEF Bytes, Chars
    <3>2. new = Append(chars, x)
      BY <2>1 DEF NowRead
    <3>3. c[1] = Len(chars) + 1 /\ StandsFor(x, keys[c[1]])
      BY <1>2, <1>4, <2>1 DEF StepCarries
    <3> HIDE DEF x
    <3>4. /\ new \in Seq(Chars) /\ Len(new) = Len(chars) + 1
          /\ new[Len(chars) + 1] = x /\ \A i \in 1 .. Len(chars) : new[i] = chars[i]
      BY <3>1, <3>2
    <3>5. \A i \in 1 .. Len(chars) + 1 : StandsFor(new[i], keys[i])
      BY <1>3, <3>3, <3>4 DEF Agree
    <3> QED
      BY <3>3, <3>4, <3>5
  <2>2. CASE b.code # "make"
    BY <1>2, <1>4, <2>2 DEF StepCarries, NowRead, Agree
  <2> QED
    BY <2>1, <2>2
<1> DEFINE s2 == [i \in 0 .. m |-> s[i + 1]]
<1> DEFINE c2 == [i \in 0 .. m |-> c[i + 1]]
<1> HIDE DEF n, m, k, b, rest
<1>6. \A i \in 0 .. m : i + 1 \in 0 .. n
  BY <1>1
<1>7. /\ s2 \in [0 .. m -> BOOLEAN] /\ c2 \in [0 .. m -> 0 .. k]
      /\ \A i \in 0 .. m : s2[i] = s[i + 1] /\ c2[i] = c[i + 1]
  BY <1>2, <1>6
<1> HIDE DEF s2, c2
<1>8. ASSUME NEW i \in 1 .. m
      PROVE  StepCarries(rest[i], keys, s2[i - 1], s2[i], c2[i - 1], c2[i])
  <2>1. i \in 0 .. m /\ i - 1 \in 0 .. m /\ i + 1 \in 1 .. n /\ i \in 1 .. n - 1
        /\ (i - 1) + 1 = i /\ (i + 1) - 1 = i
    BY <1>1, <1>8
  <2>2. StepCarries(bytes[i + 1], keys, s[i], s[i + 1], c[i], c[i + 1])
    BY <1>2, <2>1
  <2>3. rest[i] = bytes[i + 1]
    BY <1>1, <2>1
  <2>4. s2[i - 1] = s[i] /\ s2[i] = s[i + 1] /\ c2[i - 1] = c[i] /\ c2[i] = c[i + 1]
    BY <1>7, <2>1
  <2> QED
    BY <2>2, <2>3, <2>4
<1>9. s2[0] = ShiftStep(b, sh) /\ c2[0] = Len(new)
  <2>1. s2[0] = s[1] /\ c2[0] = c[1]
    BY <1>1, <1>7
  <2> QED
    BY <1>2, <1>4, <1>5, <2>1 DEF StepCarries
<1>10. s2[m] = (held # {}) /\ c2[m] = k
  <2>1. m \in 0 .. m /\ m + 1 = n
    BY <1>1
  <2> QED
    BY <1>2, <1>7, <2>1
<1>11. Linked(rest, ShiftStep(b, sh), new, held, keys)
  BY <1>7, <1>8, <1>9, <1>10 DEF Linked, Carries, m, k
<1> QED
  BY <1>5, <1>11 DEF rest, b, Agree

\* A byte is sent: the last shift and the last count are carried on by it.
LEMMA LinkedSent ==
  ASSUME NEW bytes \in Seq(Bytes), NEW sh \in BOOLEAN, NEW b \in Bytes,
         NEW chars \in Seq(Chars), NEW keys \in Seq(Strokes), NEW held, NEW heldNow,
         Linked(bytes, sh, chars, held, keys),
         NEW keysNow, Sends(b, held, heldNow, keys, keysNow)
  PROVE  /\ keysNow \in Seq(Strokes)
         /\ Longer(keys, keysNow)
         /\ Linked(Append(bytes, b), sh, chars, heldNow, keysNow)
<1> DEFINE more == Append(bytes, b)
<1> DEFINE n == Len(bytes)
<1> DEFINE k == Len(keys)
<1> DEFINE k2 == Len(keysNow)
<1> DEFINE h == (held # {})
<1> DEFINE h2 == (heldNow # {})
<1>1. /\ more \in Seq(Bytes) /\ Len(more) = n + 1 /\ n \in Nat /\ more[n + 1] = b
      /\ \A i \in 1 .. n : more[i] = bytes[i]
  BY SendOne
<1>2. PICK s \in [0 .. n -> BOOLEAN], c \in [0 .. n -> 0 .. k] :
        /\ \A i \in 1 .. n : StepCarries(bytes[i], keys, s[i - 1], s[i], c[i - 1], c[i])
        /\ s[0] = sh /\ s[n] = h /\ c[0] = Len(chars) /\ c[n] = k
  BY DEF Linked, Carries
<1>3. /\ keysNow \in Seq(Strokes) /\ k \in Nat /\ k2 \in Nat
      /\ k2 = (IF b.code = "make" THEN k + 1 ELSE k)
      /\ \A i \in 1 .. k : keysNow[i] = keys[i]
      /\ b.code = "make" => StandsFor([key |-> b.key, shift |-> h], keysNow[k2])
  <2>1. CASE b.code = "make"
    <3>1. PICK x \in Strokes : /\ StandsFor([key |-> b.key, shift |-> h], x)
                              /\ keysNow = Append(keys, x)
      BY <2>1 DEF Sends
    <3> HIDE DEF h
    <3>2. /\ keysNow \in Seq(Strokes) /\ k2 = k + 1 /\ k \in Nat
          /\ keysNow[k + 1] = x /\ \A i \in 1 .. k : keysNow[i] = keys[i]
      BY <3>1
    <3> QED
      BY <2>1, <3>1, <3>2
  <2>2. CASE b.code # "make"
    <3>1. keysNow = keys
      BY <2>2 DEF Sends
    <3>2. k \in Nat
      OBVIOUS
    <3> QED
      BY <2>2, <3>1, <3>2
  <2> QED
    BY <2>1, <2>2
<1>4. h2 = ShiftStep(b, h) /\ h2 \in BOOLEAN /\ h \in BOOLEAN
  BY DEF Sends
<1> HIDE DEF h, h2, n, k, k2, more
<1> DEFINE s2 == [i \in 0 .. n + 1 |-> IF i = n + 1 THEN h2 ELSE s[i]]
<1> DEFINE c2 == [i \in 0 .. n + 1 |-> IF i = n + 1 THEN k2 ELSE c[i]]
<1>5. k <= k2
  BY <1>3
<1>6. /\ s2 \in [0 .. n + 1 -> BOOLEAN] /\ c2 \in [0 .. n + 1 -> 0 .. k2]
      /\ \A i \in 0 .. n : s2[i] = s[i] /\ c2[i] = c[i] /\ c[i] \in 0 .. k
      /\ s2[n + 1] = h2 /\ c2[n + 1] = k2
  <2>1. \A i \in 0 .. n + 1 : i # n + 1 => i \in 0 .. n
    BY <1>1
  <2>2. \A i \in 0 .. n : i # n + 1 /\ i \in 0 .. n + 1
    BY <1>1
  <2>3. \A i \in 0 .. n : c[i] \in 0 .. k /\ c[i] \in 0 .. k2
    <3>1. \A j \in 0 .. k : j \in 0 .. k2
      BY <1>3, <1>5
    <3> QED
      BY <1>2, <3>1
  <2>4. n + 1 \in 0 .. n + 1 /\ k2 \in 0 .. k2
    BY <1>1, <1>3
  <2>5. s2 \in [0 .. n + 1 -> BOOLEAN]
    BY <1>2, <1>4, <2>1
  <2>6. c2 \in [0 .. n + 1 -> 0 .. k2]
    BY <2>1, <2>3, <2>4
  <2> QED
    BY <2>2, <2>3, <2>4, <2>5, <2>6
<1> HIDE DEF s2, c2
<1>7. ASSUME NEW i \in 1 .. n + 1
      PROVE  StepCarries(more[i], keysNow, s2[i - 1], s2[i], c2[i - 1], c2[i])
  <2>1. CASE i = n + 1
    <3>1. i - 1 = n /\ n \in 0 .. n
      BY <1>1, <2>1
    <3>2. more[i] = b /\ s2[i - 1] = h /\ c2[i - 1] = k /\ s2[i] = h2 /\ c2[i] = k2
      BY <1>1, <1>2, <1>6, <2>1, <3>1
    <3>3. StepCarries(b, keysNow, h, h2, k, k2)
      BY <1>3, <1>4 DEF StepCarries
    <3> QED
      BY <3>2, <3>3
  <2>2. CASE i # n + 1
    <3>1. i \in 1 .. n /\ i \in 0 .. n /\ i - 1 \in 0 .. n
      BY <1>1, <1>7, <2>2
    <3>2. StepCarries(bytes[i], keys, s[i - 1], s[i], c[i - 1], c[i])
      BY <1>2, <3>1
    <3>3. bytes[i].code = "make" => keysNow[c[i]] = keys[c[i]]
      <4>1. SUFFICES ASSUME bytes[i].code = "make" PROVE keysNow[c[i]] = keys[c[i]]
        OBVIOUS
      <4>2. c[i] = c[i - 1] + 1
        BY <3>2, <4>1 DEF StepCarries
      <4>3. c[i - 1] \in 0 .. k /\ c[i] \in 0 .. k
        BY <1>6, <3>1
      <4>4. c[i] \in 1 .. k
        BY <1>3, <4>2, <4>3
      <4> QED
        BY <1>3, <4>4
    <3>4. StepCarries(bytes[i], keysNow, s[i - 1], s[i], c[i - 1], c[i])
      BY <3>2, <3>3 DEF StepCarries
    <3>5. /\ more[i] = bytes[i] /\ s2[i - 1] = s[i - 1] /\ s2[i] = s[i]
          /\ c2[i - 1] = c[i - 1] /\ c2[i] = c[i]
      BY <1>1, <1>6, <3>1
    <3> QED
      BY <3>4, <3>5
  <2> QED
    BY <2>1, <2>2
<1>8. s2[0] = sh /\ c2[0] = Len(chars)
  <2>1. 0 \in 0 .. n
    BY <1>1
  <2> QED
    BY <1>2, <1>6, <2>1
<1>9. Linked(more, sh, chars, heldNow, keysNow)
  <2>1. Len(more) = n + 1 /\ Len(keysNow) = k2 /\ (heldNow # {}) = h2
    BY <1>1 DEF k2, h2
  <2> QED
    BY <1>6, <1>7, <1>8, <2>1 DEF Linked, Carries
<1> QED
  BY <1>3, <1>5, <1>9 DEF more, k, k2, Longer

\* With one shift key the last shift byte says whether it is held.
OneShiftKey == \A s, t \in ShiftKeys : s = t

\* Nothing typed, nothing on its way.
LEMMA NothingLinked ==
  ASSUME NEW rest, rest = <<>>, NEW held, held = {}
  PROVE  Linked(rest, FALSE, <<>>, held, <<>>)
<1> DEFINE s == [i \in 0 .. 0 |-> FALSE]
<1> DEFINE c == [i \in 0 .. 0 |-> 0]
<1>1. s \in [0 .. 0 -> BOOLEAN] /\ c \in [0 .. 0 -> 0 .. 0] /\ s[0] = FALSE /\ c[0] = 0
  OBVIOUS
<1> HIDE DEF s, c
<1>2. Len(rest) = 0 /\ Len(<<>>) = 0
  OBVIOUS
<1>3. Carries(rest, <<>>, s, c)
  BY <1>2 DEF Carries
<1> QED
  BY <1>1, <1>2, <1>3 DEF Linked

\* The invariant holds at first.
LEMMA InitTInv == KeyboardInit => TInv
<1> SUFFICES ASSUME KeyboardInit PROVE TInv
  OBVIOUS
<1>1. /\ typed = <<>> /\ got = <<>> /\ isShift = FALSE /\ drv = "disable"
      /\ down = {} /\ unseen = {}
  BY DEF KeyboardInit
<1>2. ~ Checked
  BY <1>1 DEF Checked
<1>3. <<>> \in Seq(Chars) /\ <<>> \in Seq(Strokes) /\ \A i \in 1 .. Len(<<>>) : FALSE
  OBVIOUS
<1> QED
  BY <1>1, <1>2, <1>3 DEF TInv, Agree

\* A step that leaves the typing alone, and what is on its way; a shift key may
\* move, and the kernel will not hear of it.
LEMMA QuietTInv ==
  ASSUME TInv, UNCHANGED <<isShift, typed, got>>,
         down' \subseteq ShiftKeys, unseen' \subseteq down',
         ~ Checked' \/ ~ scanning' => down' = unseen',
         Heard' = Heard, Checked' <=> Checked, Checked => Rest' = Rest
  PROVE  TInv'
<1>1. Checked' => Linked(Rest', isShift', got', Heard', typed')
  BY DEF TInv
<1>2. ~ Checked' => typed' = <<>> /\ got' = <<>> /\ ~ isShift'
  BY DEF TInv
<1>3. Agree(got', typed')
  BY DEF TInv
<1> QED
  BY <1>1, <1>2, <1>3 DEF TInv

\* The keys stay as they are.
LEMMA StillTInv ==
  ASSUME TInv, UNCHANGED <<isShift, typed, got, down, unseen>>,
         Checked' <=> Checked, Checked => Rest' = Rest,
         Checked /\ scanning => scanning'
  PROVE  TInv'
<1>1. Heard' = Heard
  BY DEF Heard
<1>2. ~ Checked' \/ ~ scanning' => down' = unseen'
  BY DEF TInv
<1>3. down' \subseteq ShiftKeys /\ unseen' \subseteq down'
  BY DEF TInv
<1> QED
  BY <1>1, <1>2, <1>3, QuietTInv

\* The check, up to the command that lets the keyboard speak again, and the wait for
\* the ACK of that command.
LEMMA CheckDeviceTInv ==
  ASSUME KInv, TInv, CheckDevice
  PROVE  TInv'
<1>1. UNCHANGED <<down, unseen, scanning, isShift, typed, got>>
  BY DEF CheckDevice, DisableScanning, WaitForAck, Identify, ReadIdentity, EnableScanning,
         Write, device
<1>2. CASE EnableScanning
  <2>1. drv = "enable" /\ drv' = "ACK enable" /\ out' = out
    BY <1>2 DEF EnableScanning, Write
  <2>2. out = <<>>
    BY <2>1 DEF KInv, OnTheWay
  <2>3. ~ Checked /\ Checked' /\ Rest' = <<>>
    BY <2>1, <2>2 DEF Checked, Rest
  <2>4. typed = <<>> /\ got = <<>> /\ isShift = FALSE /\ down = unseen /\ Heard' = {}
    BY <1>1, <2>3 DEF TInv, Heard
  <2>5. Linked(Rest', isShift', got', Heard', typed')
    BY <1>1, <2>3, <2>4, NothingLinked
  <2>6. Agree(got', typed')
    BY <1>1 DEF TInv
  <2> QED
    BY <1>1, <2>3, <2>4, <2>5, <2>6 DEF TInv
<1>3. CASE WaitForAck("ACK enable", "getch")
  <2>1. /\ drv = "ACK enable" /\ out # <<>> /\ out' = Tail(out)
        /\ drv' = IF IsAck(Head(out)) THEN "getch" ELSE "ACK enable"
    BY <1>3 DEF WaitForAck, ReadByte
  <2>2. out \in Seq(Bytes) /\ IsAck(out[1])
    BY <2>1 DEF KInv, OnTheWay
  <2>3. drv' = "getch"
    BY <2>1, <2>2, ReadOne
  <2>4. Checked /\ Checked' /\ Rest' = Rest
    BY <2>1, <2>3 DEF Checked, Rest
  <2> QED
    BY <1>1, <2>4, StillTInv
<1>4. CASE ~ EnableScanning /\ ~ WaitForAck("ACK enable", "getch")
  <2>1. ~ Checked
    BY <1>4 DEF CheckDevice, DisableScanning, WaitForAck, Identify, ReadIdentity, Checked
  <2>2. ~ Checked'
    BY <1>4 DEF CheckDevice, DisableScanning, WaitForAck, Identify, ReadIdentity, Checked,
                Write
  <2> QED
    BY <1>1, <2>1, <2>2, StillTInv
<1> QED
  BY <1>2, <1>3, <1>4

\* An ACK is not a part of what is typed.
LEMMA TakeCommandTInv ==
  ASSUME KInv, TInv, TakeCommand
  PROVE  TInv'
<1>1. /\ UNCHANGED <<drv, down, unseen, isShift, typed, got>> /\ out' = out \o Answer
      /\ inbox # "none"
  BY DEF TakeCommand
<1>2. Checked' <=> Checked
  BY <1>1 DEF Checked
<1>3. Checked => Rest' = Rest
  <2> SUFFICES ASSUME Checked PROVE Rest' = Rest
    OBVIOUS
  <2>1. drv = "ACK enable" /\ inbox = "enable" /\ out = <<>>
    BY <1>1 DEF Checked, KInv, OnTheWay
  <2>2. Byte("ACK") \in Bytes
    BY DEF Byte, Bytes, Codes
  <2>3. Answer = <<Byte("ACK")>>
    BY <2>1 DEF Answer
  <2>4. out' = <<Byte("ACK")>>
    BY <1>1, <2>1, <2>2, <2>3, OnlyByte
  <2>5. Tail(out') = <<>>
    BY <2>2, <2>4, OnlyByte
  <2>6. Rest = <<>> /\ Rest' = <<>>
    BY <1>1, <2>1, <2>5 DEF Rest
  <2> QED
    BY <2>6
<1>4. Checked => scanning'
  <2>1. Checked => inbox = "enable"
    BY <1>1 DEF Checked, KInv, OnTheWay
  <2> QED
    BY <2>1 DEF TakeCommand
<1> QED
  BY <1>1, <1>2, <1>3, <1>4, StillTInv

\* kernel_getch: its shift is the one the key was pressed with.
LEMMA GetchTInv ==
  ASSUME KInv, TInv, Getch
  PROVE  TInv'
<1> DEFINE b == out[1]
<1> DEFINE sh == ShiftStep(b, isShift)
<1> DEFINE new == NowRead(b, isShift, got)
<1>1. /\ drv \in {"getch", "repeat"} /\ drv' \in {"getch", "repeat"} /\ out # <<>>
      /\ out' = Tail(out) /\ UNCHANGED <<down, unseen, scanning, typed>>
      /\ isShift' = ShiftAfter(Head(out)) /\ got' = got \o Returned(Head(out))
  BY DEF Getch, ReadByte, device
<1>2. out \in Seq(Bytes)
  BY DEF KInv
<1>3. Head(out) = b /\ b \in Bytes
  BY <1>1, <1>2, ReadOne
<1>4. Checked /\ Checked' /\ Rest = out /\ Rest' = Tail(out)
  BY <1>1 DEF Checked, Rest
<1>5. /\ isShift \in BOOLEAN /\ got \in Seq(Chars) /\ typed \in Seq(Strokes)
      /\ Linked(out, isShift, got, Heard, typed)
      /\ Agree(got, typed)
  BY <1>4 DEF TInv
<1>6. /\ new \in Seq(Chars) /\ Agree(new, typed)
      /\ Linked(Tail(out), sh, new, Heard, typed)
  <2>1. PICK n : n = new
    OBVIOUS
  <2> HIDE DEF new
  <2>2. n \in Seq(Chars) /\ Agree(n, typed)
        /\ Linked(Tail(out), ShiftStep(out[1], isShift), n, Heard, typed)
    <3>1. n = NowRead(out[1], isShift, got)
      BY <2>1 DEF new
    <3> QED
      BY <1>1, <1>2, <1>5, <3>1, LinkedRead
  <2> QED
    BY <2>1, <2>2
<1>7. isShift' = sh /\ isShift' \in BOOLEAN
  BY <1>1, <1>3, <1>5 DEF ShiftAfter, ShiftMake, ShiftStep
<1>8. got' = new
  <2> DEFINE x == [key |-> b.key, shift |-> isShift]
  <2>1. x \in Chars
    BY <1>3, <1>5 DEF Bytes, Chars
  <2>2. Returned(b) = IF b.code = "make" THEN <<x>> ELSE <<>>
    BY DEF Returned
  <2>3. new = IF b.code = "make" THEN Append(got, x) ELSE got
    BY DEF NowRead
  <2> HIDE DEF x, new
  <2>4. got \o <<x>> = Append(got, x) /\ got \o <<>> = got
    BY <1>5, <2>1
  <2> QED
    BY <1>1, <1>3, <2>2, <2>3, <2>4
<1> HIDE DEF new, sh, b
<1>9. Linked(Rest', isShift', got', Heard', typed')
  <2>1. Heard' = Heard
    BY <1>1 DEF Heard
  <2> QED
    BY <1>1, <1>4, <1>6, <1>7, <1>8, <2>1
<1>10. Agree(got', typed')
  BY <1>1, <1>6, <1>8
<1> QED
  BY <1>1, <1>4, <1>5, <1>6, <1>7, <1>8, <1>9, <1>10 DEF TInv

\* The keyboard sends a byte while the kernel listens.
LEMMA SentTInv ==
  ASSUME KInv, TInv, Checked, NEW b \in Bytes, Send(b),
         UNCHANGED <<drv, scanning, isShift, got>>,
         down' \subseteq ShiftKeys, unseen' \subseteq down',
         Sends(b, Heard, Heard', typed, typed')
  PROVE  TInv'
<1>1. out \in Seq(Bytes) /\ scanning /\ out' = Append(out, b)
  BY DEF KInv, Send
<1>2. Checked' /\ isShift \in BOOLEAN /\ got \in Seq(Chars) /\ typed \in Seq(Strokes)
      /\ Linked(Rest, isShift, got, Heard, typed)
      /\ Agree(got, typed)
  BY DEF TInv, Checked
<1>3. Rest \in Seq(Bytes) /\ Rest' = Append(Rest, b)
  <2>1. CASE drv = "ACK enable"
    <3>1. Len(out) > 0
      BY <1>1, <2>1 DEF KInv, OnTheWay
    <3>2. out # <<>> /\ out' # <<>>
      BY <1>1, <3>1
    <3>3. Rest = Tail(out) /\ Rest' = Tail(out')
      BY <2>1, <3>2 DEF Rest
    <3>4. Tail(out) \in Seq(Bytes) /\ Tail(Append(out, b)) = Append(Tail(out), b)
      BY <1>1, <3>1
    <3> QED
      BY <1>1, <3>3, <3>4
  <2>2. CASE drv # "ACK enable"
    BY <1>1, <2>2 DEF Rest
  <2> QED
    BY <2>1, <2>2
<1>4. /\ typed' \in Seq(Strokes) /\ Longer(typed, typed')
      /\ Linked(Append(Rest, b), isShift, got, Heard', typed')
  <2> HIDE DEF Rest
  <2> QED
    BY <1>2, <1>3, LinkedSent
<1>5. Len(got) <= Len(typed)
  BY <1>2 DEF Linked
<1>6. Agree(got, typed')
  <2>1. ASSUME NEW i \in 1 .. Len(got)
        PROVE  i \in 1 .. Len(typed)
    BY <1>2, <1>5, <2>1
  <2> QED
    BY <1>2, <1>4, <2>1 DEF Longer, Agree
<1> QED
  BY <1>1, <1>2, <1>3, <1>4, <1>6 DEF TInv

\* A shift key moves, and no byte is sent.
LEMMA SilentTInv ==
  ASSUME TInv, NEW s \in ShiftKeys, ~ Checked \/ ~ scanning,
         \/ down' = down \cup {s} /\ unseen' = unseen \cup {s}
         \/ down' = down \ {s} /\ unseen' = unseen \ {s},
         UNCHANGED <<drv, scanning, isShift, got, typed>>,
         Checked => UNCHANGED out
  PROVE  TInv'
<1>1. down = unseen /\ down \subseteq ShiftKeys
  BY DEF TInv
<1>2. down' = unseen' /\ down' \subseteq ShiftKeys
  BY <1>1
<1>3. Heard' = Heard
  BY <1>1, <1>2 DEF Heard
<1>4. (Checked' <=> Checked) /\ (Checked => Rest' = Rest)
  BY DEF Checked, Rest
<1> QED
  BY <1>2, <1>3, <1>4, QuietTInv

\* A key or a shift key.
LEMMA UserTInv ==
  ASSUME OneShiftKey, KInv, TInv, User
  PROVE  TInv'
<1>0. down \subseteq ShiftKeys /\ unseen \subseteq down
  BY DEF TInv
<1>1. ASSUME NEW k \in Keys, PressKey(k)
      PROVE  TInv'
  <2> DEFINE b == [code |-> "make", key |-> k]
  <2> DEFINE x == [key |-> k, shift |-> down # {}, unseen |-> unseen # {}]
  <2>1. /\ b \in Bytes /\ b.code = "make" /\ b.key = k
        /\ ShiftStep(b, Heard # {}) = (Heard # {})
    BY DEF Bytes, Codes, ShiftStep
  <2>2. /\ Send(b) /\ UNCHANGED <<drv, scanning, isShift, got, down, unseen>>
        /\ typed' = IF Checked THEN Append(typed, x) ELSE typed
    BY <1>1 DEF PressKey
  <2>3. x \in Strokes /\ StandsFor([key |-> k, shift |-> Heard # {}], x)
    <3>1. unseen = {} => Heard = down
      BY DEF Heard
    <3> QED
      BY <3>1 DEF Strokes, StandsFor
  <2>4. Heard' = Heard
    BY <2>2 DEF Heard
  <2> HIDE DEF b, x
  <2>5. CASE Checked
    <3>1. down' \subseteq ShiftKeys /\ unseen' \subseteq down'
      BY <1>0, <2>2
    <3>2. Sends(b, Heard, Heard', typed, typed')
      BY <2>1, <2>2, <2>3, <2>4, <2>5 DEF Sends
    <3> QED
      BY <2>1, <2>2, <2>5, <3>1, <3>2, SentTInv
  <2>6. CASE ~ Checked
    BY <2>2, <2>6, StillTInv DEF Checked
  <2> QED
    BY <2>5, <2>6
<1>2. CASE ReleaseKey
  <2> DEFINE b == Byte("break")
  <2>1. /\ b \in Bytes /\ b.code = "break" /\ ShiftStep(b, Heard # {}) = (Heard # {})
    BY DEF Bytes, Codes, Byte, ShiftStep
  <2>2. Send(b) /\ UNCHANGED <<drv, scanning, isShift, got, down, unseen, typed>>
    BY <1>2 DEF ReleaseKey
  <2>3. Heard' = Heard
    BY <2>2 DEF Heard
  <2> HIDE DEF b
  <2>4. CASE Checked
    <3>1. down' \subseteq ShiftKeys /\ unseen' \subseteq down'
      BY <1>0, <2>2
    <3>2. Sends(b, Heard, Heard', typed, typed')
      BY <2>1, <2>2, <2>3 DEF Sends
    <3> QED
      BY <2>1, <2>2, <2>4, <3>1, <3>2, SentTInv
  <2>5. CASE ~ Checked
    BY <2>2, <2>5, StillTInv DEF Checked
  <2> QED
    BY <2>4, <2>5
<1>3. ASSUME NEW s \in ShiftKeys, PressShift(s)
      PROVE  TInv'
  <2> DEFINE b == Byte("shift make")
  <2>1. b \in Bytes /\ b.code = "shift make" /\ ShiftStep(b, Heard # {}) = TRUE
    BY DEF Bytes, Codes, Byte, ShiftStep
  <2>2. /\ IF scanning THEN Send(b) ELSE UNCHANGED out
        /\ UNCHANGED <<drv, scanning, isShift, got, typed>>
        /\ down' = down \cup {s}
        /\ unseen' = IF Checked /\ scanning THEN unseen \ {s} ELSE unseen \cup {s}
    BY <1>3 DEF PressShift, Report
  <2> HIDE DEF b
  <2>3. CASE Checked /\ scanning
    <3>1. s \in Heard' /\ down' \subseteq ShiftKeys /\ unseen' \subseteq down'
      BY <1>0, <2>2, <2>3 DEF Heard
    <3>2. (Heard' # {}) = ShiftStep(b, Heard # {})
      BY <2>1, <3>1
    <3>3. Sends(b, Heard, Heard', typed, typed')
      BY <2>1, <2>2, <3>2 DEF Sends
    <3> QED
      BY <2>1, <2>2, <2>3, <3>1, <3>3, SentTInv
  <2>4. CASE ~ (Checked /\ scanning)
    BY <2>2, <2>4, SilentTInv
  <2> QED
    BY <2>3, <2>4
<1>4. ASSUME NEW s \in ShiftKeys, ReleaseShift(s)
      PROVE  TInv'
  <2> DEFINE b == Byte("shift break")
  <2>1. b \in Bytes /\ b.code = "shift break" /\ ShiftStep(b, Heard # {}) = FALSE
    BY DEF Bytes, Codes, Byte, ShiftStep
  <2>2. /\ IF scanning THEN Send(b) ELSE UNCHANGED out
        /\ UNCHANGED <<drv, scanning, isShift, got, typed>>
        /\ s \in down /\ down' = down \ {s} /\ unseen' = unseen \ {s}
    BY <1>4 DEF ReleaseShift, Report
  <2> HIDE DEF b
  <2>3. down' = {} /\ unseen' = {}
    BY <1>0, <2>2 DEF OneShiftKey
  <2>4. CASE Checked /\ scanning
    <3>1. Heard' = {} /\ down' \subseteq ShiftKeys /\ unseen' \subseteq down'
      BY <2>3 DEF Heard
    <3>2. (Heard' # {}) = ShiftStep(b, Heard # {})
      BY <2>1, <3>1
    <3>3. Sends(b, Heard, Heard', typed, typed')
      BY <2>1, <2>2, <3>2 DEF Sends
    <3> QED
      BY <2>1, <2>2, <2>4, <3>1, <3>3, SentTInv
  <2>5. CASE ~ (Checked /\ scanning)
    BY <2>2, <2>5, SilentTInv
  <2> QED
    BY <2>4, <2>5
<1> QED
  BY <1>1, <1>2, <1>3, <1>4 DEF User

\* The inductive step.
LEMMA StepTInv ==
  ASSUME OneShiftKey, KInv, TInv, [KeyboardNext]_keyboardVars
  PROVE  TInv'
<1>1. CASE UNCHANGED keyboardVars
  <2>1. UNCHANGED <<out, drv, scanning, down, unseen, isShift, typed, got>>
    BY <1>1 DEF keyboardVars
  <2>2. (Checked' <=> Checked) /\ Rest' = Rest
    BY <2>1 DEF Checked, Rest
  <2> QED
    BY <2>1, <2>2, StillTInv
<1> QED
  BY <1>1, CheckDeviceTInv, GetchTInv, TakeCommandTInv, UserTInv DEF KeyboardNext, Kernel

\* What is typed after the check reaches the program once, in order and with its
\* shift, for every number of keys and every interleaving, before, during and after
\* the check - as long as there is one shift key to hold: the kernel keeps one flag
\* for both (schismKernelIO.c:268).  The shift of a key typed while a shift key is
\* held that went down before the end of the check may be lost (schismPS2.c:40).
THEOREM KeysStayInOrder ==
  ASSUME OneShiftKey
  PROVE  KeyboardSpec => []KeysInOrder
<1>1. ASSUME TInv PROVE KeysInOrder
  <2>1. /\ got \in Seq(Chars) /\ typed \in Seq(Strokes)
        /\ \A i \in 1 .. Len(got) : StandsFor(got[i], typed[i])
    BY <1>1 DEF TInv, Agree
  <2>2. Len(got) <= Len(typed)
    <3>1. CASE Checked
      BY <1>1, <3>1 DEF TInv, Linked
    <3>2. CASE ~ Checked
      BY <1>1, <3>2 DEF TInv
    <3> QED
      BY <3>1, <3>2
  <2>3. DOMAIN got = 1 .. Len(got)
    BY <2>1
  <2> QED
    BY <2>1, <2>2, <2>3 DEF KeysInOrder
<1>2. KeyboardInit => KInv /\ TInv
  BY InitKInv, InitTInv
<1>3. KInv /\ TInv /\ [KeyboardNext]_keyboardVars => KInv' /\ TInv'
  BY StepKInv, StepTInv
<1> QED
  BY <1>1, <1>2, <1>3, PTL DEF KeyboardSpec
===============================================================================
