------------------------------ MODULE Interrupts -------------------------------
(***************************************************************************)
(* Interrupts: kernel_main fills the IDT (schism_IDT.c), programs the two  *)
(* PICs (schism_PIC.c) and executes sti; from then on hardware interrupts  *)
(* and the system call int 0xC0 come in between any two instructions.      *)
(*                                                                         *)
(* External: the PICs, which latch requests at any time, take the four     *)
(* initialisation words and then masks on the same port, and deliver by    *)
(* priority; and the processor, which finds the handler in the IDT and     *)
(* clears the flag behind an interrupt gate.  A vector without a gate is a  *)
(* fault nobody handles (the exceptions have no gates either).             *)
(***************************************************************************)
EXTENDS Integers

CONSTANTS
  Lines,           \* the interrupt lines with a device on them, within 0 .. 15
  FirmwareMasks    \* the lines firmware may have left masked: a set of sets

KEYBOARD == 1
CASCADE == 2

ASSUME InterruptsAssumption ==
  /\ Lines \subseteq (0 .. 15) \ {CASCADE}
  /\ FirmwareMasks \subseteq SUBSET (0 .. 15)

IDT_NUM_INTERRUPTS == 256
PIC1_SCHISM_OFFSET == 64            \* 0x40
SYS_CALL_OFFSET == 128              \* 0x80
Vectors == 0 .. (IDT_NUM_INTERRUPTS - 1)
Chips == {"PIC1", "PIC2"}

VARIABLES
  boot,      \* where kernel_main is, and the index of its loops
  idt,       \* what each gate leads to, "none" where nothing was written
  pic,       \* the two chips
  saved,     \* the locals a1 and a2 of PIC_remap
  intFlag,   \* the interrupt flag of the processor
  cpu,       \* "main", the handler that runs, or "fault"
  test       \* the global the keyboard handler sets

vars == <<boot, idt, pic, saved, intFlag, cpu, test>>

-------------------------------------------------------------------------------
\* The same operators with a plausible slip: the initialisation words without
\* automatic end of interrupt, the offset of the BIOS, an absolute vector given to
\* packIDTEntry.
SlipICW4 == {"8086"}
SlipOffset(chip) == IF chip = "PIC1" THEN 8 ELSE 112
SlipGate(n) == n

-------------------------------------------------------------------------------
At(step) == [at |-> step, i |-> 0]

ChipOf(line) == IF line < 8 THEN "PIC1" ELSE "PIC2"
Bit(line) == IF line < 8 THEN line ELSE line - 8
Line(chip, bit) == IF chip = "PIC1" THEN bit ELSE bit + 8
MaskOf(chip, lines) == {bit \in 0 .. 7 : Line(chip, bit) \in lines}

Init ==
  /\ boot = At("generic gates")
  /\ idt = [v \in Vectors |-> "none"]
  /\ \E m \in FirmwareMasks :
       pic = [chip \in Chips |->
                [base |-> IF chip = "PIC1" THEN 8 ELSE 112, mask |-> MaskOf(chip, m),
                 icw |-> 0, auto |-> FALSE, irr |-> {}, isr |-> {}]]
  /\ saved = [chip \in Chips |-> {}]
  /\ intFlag = FALSE
  /\ cpu = "main"
  /\ test = 0

\* packIDTEntry counts from the first hardware interrupt on.
Gate(n) == n + PIC1_SCHISM_OFFSET

Generic == {Gate(n) : n \in 0 .. (IDT_NUM_INTERRUPTS - 65 - 1)}

PackGeneric ==
  /\ boot.at = "generic gates"
  /\ idt' = [v \in Vectors |-> IF v \in Generic THEN "generic" ELSE idt[v]]
  /\ boot' = At("own gates")
  /\ UNCHANGED <<pic, saved, intFlag, cpu, test>>

PackOwn ==
  /\ boot.at = "own gates"
  /\ idt' = [idt EXCEPT ![Gate(KEYBOARD)] = "keyboard",
                        ![Gate(SYS_CALL_OFFSET)] = "syscall"]
  /\ boot' = At("save masks")
  /\ UNCHANGED <<pic, saved, intFlag, cpu, test>>

-------------------------------------------------------------------------------
\* What a write to a chip's ports does (external).
Command(c) == [c EXCEPT !.icw = 2, !.mask = {}, !.irr = {}, !.isr = {}, !.auto = FALSE]
Value(c, v) ==
  CASE c.icw = 2 -> [c EXCEPT !.base = v, !.icw = 3]
    [] c.icw = 3 -> [c EXCEPT !.icw = 4]
    [] c.icw = 4 -> [c EXCEPT !.auto = "AUTO" \in v, !.icw = 0]
    [] OTHER -> [c EXCEPT !.mask = v]

ICW4 == {"8086", "AUTO"}
Offset(chip) == IF chip = "PIC1" THEN 64 ELSE 128

\* The values PIC_remap writes to the data ports, one after the other.
Word(chip, k) ==
  CASE k = 1 -> Offset(chip)
    [] k = 2 -> IF chip = "PIC1" THEN 4 ELSE 2
    [] k = 3 -> ICW4
    [] k = 4 -> saved[chip]

SaveMasks ==
  /\ boot.at = "save masks"
  /\ saved' = [chip \in Chips |-> pic[chip].mask]
  /\ boot' = At("PIC1")
  /\ UNCHANGED <<idt, pic, intFlag, cpu, test>>

\* Word i for one chip, then the same for the other; word 0 is the command.
RemapWrite ==
  /\ boot.at \in Chips
  /\ pic' = [pic EXCEPT ![boot.at] =
               IF boot.i = 0 THEN Command(@) ELSE Value(@, Word(boot.at, boot.i))]
  /\ boot' = IF boot.at = "PIC1" THEN [boot EXCEPT !.at = "PIC2"]
             ELSE IF boot.i < 4 THEN [at |-> "PIC1", i |-> boot.i + 1]
             ELSE At("mask all")
  /\ UNCHANGED <<idt, saved, intFlag, cpu, test>>

Disabled(mask, bit) == mask \cup {bit}
Enabled(mask, bit) == mask \ {bit}

IRQ_disable(line) ==
  pic' = [pic EXCEPT ![ChipOf(line)] = Value(@, Disabled(@.mask, Bit(line)))]
IRQ_enable(line) ==
  pic' = [pic EXCEPT ![ChipOf(line)] = Value(@, Enabled(@.mask, Bit(line)))]

MaskAll ==
  /\ boot.at = "mask all"
  /\ IRQ_disable(boot.i)
  /\ boot' = IF boot.i < 15 THEN [boot EXCEPT !.i = @ + 1] ELSE At("keyboard on")
  /\ UNCHANGED <<idt, saved, intFlag, cpu, test>>

KeyboardOn ==
  /\ boot.at = "keyboard on"
  /\ IRQ_enable(KEYBOARD)
  /\ boot' = At("timer off")
  /\ UNCHANGED <<idt, saved, intFlag, cpu, test>>

TimerOff ==
  /\ boot.at = "timer off"
  /\ IRQ_disable(0)
  /\ boot' = At("sti")
  /\ UNCHANGED <<idt, saved, intFlag, cpu, test>>

Sti ==
  /\ boot.at = "sti"
  /\ intFlag' = TRUE
  /\ boot' = At("run")
  /\ UNCHANGED <<idt, pic, saved, cpu, test>>

Boot == \/ PackGeneric \/ PackOwn \/ SaveMasks \/ RemapWrite
        \/ MaskAll \/ KeyboardOn \/ TimerOff \/ Sti

-------------------------------------------------------------------------------
\* A device raises its line; the chip latches it, masked or not.
Raise(line) ==
  /\ Bit(line) \notin pic[ChipOf(line)].irr
  /\ pic' = [pic EXCEPT ![ChipOf(line)].irr = @ \cup {Bit(line)}]
  /\ UNCHANGED <<boot, idt, saved, intFlag, cpu, test>>

\* The lines a chip may pass on: requested, not masked, and not behind a line
\* of the same or a higher priority that is still in service.
Open(c) == {bit \in c.irr \ c.mask : \A s \in c.isr : bit < s}
Passes(line) ==
  /\ Bit(line) \in Open(pic[ChipOf(line)])
  /\ line >= 8 => /\ CASCADE \notin pic["PIC1"].mask
                  /\ \A s \in pic["PIC1"].isr : CASCADE < s
Pending == {line \in Lines : Passes(line)}

Enter(vector) ==
  /\ cpu' = IF idt[vector] = "none" THEN "fault" ELSE idt[vector]
  /\ intFlag' = FALSE

\* The processor takes an interrupt; with automatic end of interrupt the line
\* is not in service any more when the handler starts.
Deliver(line) ==
  LET chip == ChipOf(line)
  IN  /\ intFlag
      /\ cpu = "main"
      /\ line \in Pending
      /\ pic' = [pic EXCEPT ![chip].irr = @ \ {Bit(line)},
                            ![chip].isr = IF pic[chip].auto THEN @
                                          ELSE @ \cup {Bit(line)}]
      /\ Enter(pic[chip].base + Bit(line))
      /\ UNCHANGED <<boot, idt, saved, test>>

\* The request goes away before the processor asks for the vector: the chip
\* answers with line 7 and does not put it in service.
Spurious(line) ==
  LET chip == ChipOf(line)
  IN  /\ intFlag
      /\ cpu = "main"
      /\ line \in Pending
      /\ pic' = [pic EXCEPT ![chip].irr = @ \ {Bit(line)}]
      /\ Enter(pic[chip].base + 7)
      /\ UNCHANGED <<boot, idt, saved, test>>

Interrupt == \E line \in Lines : Deliver(line) \/ Spurious(line)

\* systemCall: int $0xc0.  Pending interrupts are taken before the next instruction.
SystemCallVector == 192             \* 0xC0, a literal in the code

SystemCall ==
  /\ boot.at = "run"
  /\ cpu = "main"
  /\ ~(intFlag /\ Pending # {})
  /\ Enter(SystemCallVector)
  /\ UNCHANGED <<boot, idt, pic, saved, test>>

\* A handler runs to its iret, which sets the flag again: it was set on entry.
keyboard_event == test' = 1

Return ==
  /\ cpu \in {"generic", "keyboard", "syscall"}
  /\ IF cpu = "keyboard" THEN keyboard_event ELSE UNCHANGED test
  /\ cpu' = "main"
  /\ intFlag' = TRUE
  /\ UNCHANGED <<boot, idt, pic, saved>>

Next == \/ Boot
        \/ \E line \in Lines : Raise(line)
        \/ Interrupt
        \/ SystemCall
        \/ Return

Spec == Init /\ [][Next]_vars /\ WF_vars(Boot) /\ WF_vars(Interrupt) /\ WF_vars(Return)

-------------------------------------------------------------------------------
\* Whatever the firmware left behind and whenever a device raises its line, no
\* interrupt, spurious ones included, meets a vector without a gate.
NoFault == cpu # "fault"

\* A key press runs the keyboard handler and nothing but the keyboard gets
\* through: the handler finds the vector the PIC was given (kernel.c:223, 232).
OnlyKeyboard ==
  [][\A line \in Lines : Deliver(line) => line = KEYBOARD /\ cpu' = "keyboard"]_vars

\* While the kernel runs, a key press is never left waiting for ever: no line
\* stays in service, although no handler ever sends an end of interrupt
\* (PIC_sendEOI has no caller).
KeysGetThrough ==
  (boot.at = "run" /\ KEYBOARD \in pic["PIC1"].irr) ~>
    (KEYBOARD \notin pic["PIC1"].irr)
===============================================================================
