------------------------------- MODULE Keyboard --------------------------------
(***************************************************************************)
(* The PS/2 keyboard: _PS2_CheckDevice identifies it during boot           *)
(* (schismPS2.c), kernel_getch later turns its bytes into characters       *)
(* (schismKernelIO.c).  Both poll; the keyboard sends when it likes.       *)
(*                                                                         *)
(* External: the keyboard.  It answers each command with an ACK and, when  *)
(* asked to identify itself, with two bytes, one byte or none.  While it   *)
(* scans it sends a byte when a key goes down, repeats it while the key is *)
(* held, and another one when it goes up.  out is what it has sent and     *)
(* nobody has read.                                                        *)
(*                                                                         *)
(* The user presses and releases keys all the time, a shift key also while *)
(* the keyboard does not scan.  A shift key that went down before the end  *)
(* of the check is one the kernel never hears of: waitForAck drops its     *)
(* byte (schismPS2.c:40), or none was sent.  unseen is, as history, the    *)
(* set of those that are still held; a byte of the key repeated after the  *)
(* check takes it out again.                                               *)
(***************************************************************************)
EXTENDS Integers, Sequences

CONSTANTS
  Keys,         \* the keys that stand for a character
  ShiftKeys,    \* the shift keys the user has fingers on
  MaxQueue,     \* bound of the model: bytes nobody has read yet
  MaxTyped      \* bound of the model: keys pressed after the check

ASSUME KeyboardAssumption ==
  /\ MaxQueue \in Nat
  /\ MaxTyped \in Nat

PS2_DEVICE_MF2_HIGHBYTE == "AB"

\* What devices answer to IDENTIFY: an old keyboard, a mouse, a keyboard.
Identities == {<<>>, <<"00">>, <<PS2_DEVICE_MF2_HIGHBYTE, "83">>}

VARIABLES
  out,        \* the bytes the keyboard has sent
  inbox,      \* the command written to the keyboard and not yet taken
  scanning,   \* whether the keyboard reports keys
  identity,   \* what it answers to IDENTIFY
  down,       \* the shift keys that are held down
  unseen,     \* history: those whose byte was not sent after the check
  drv,        \* where the kernel is
  outData,    \* the bytes _PS2_CheckDevice puts together
  isShift,    \* the global of schismKernelIO.c
  typed,      \* history: the keys pressed since the check, with their shift
  got         \* history: the characters kernel_getch returned

keyboardVars ==
  <<out, inbox, scanning, identity, down, unseen, drv, outData, isShift, typed, got>>
device == <<inbox, scanning, identity, down, unseen, typed>>

-------------------------------------------------------------------------------
\* The same operators with a plausible slip: a byte that need not be the ACK, a
\* second byte of the identity that is always awaited, a shift key that stays
\* down, a repeated shift byte that eats the next one.
SlipIsAck(b) == b.code # "make"
SlipMore(b) == TRUE
SlipShiftAfter(b) == isShift \/ b.code = "shift make"
SlipReturned(b) ==
  IF b.code = "make" /\ drv # "repeat" THEN <<[key |-> b.key, shift |-> isShift]>>
  ELSE <<>>

-------------------------------------------------------------------------------
Byte(code) == [code |-> code, key |-> "none"]

KeyboardInit ==
  /\ out = <<>>
  /\ inbox = "none"
  /\ scanning = TRUE
  /\ identity \in Identities
  /\ down = {}
  /\ unseen = {}
  /\ drv = "disable"
  /\ outData = <<>>
  /\ isShift = FALSE
  /\ typed = <<>>
  /\ got = <<>>

\* _PS2_writeByteToDevice.
Write(cmd, next) ==
  /\ inbox' = cmd
  /\ drv' = next
  /\ UNCHANGED <<out, scanning, identity, down, unseen, outData, isShift, typed, got>>

DisableScanning == drv = "disable" /\ Write("disable", "ACK disable")

\* _PS2_readByteFromDevice: polls until there is a byte.
ReadByte == out # <<>> /\ out' = Tail(out)

\* _PS2_waitForAck drops everything up to the ACK.
IsAck(b) == b.code = "ACK"
WaitForAck(at, next) ==
  /\ drv = at
  /\ ReadByte
  /\ drv' = IF IsAck(Head(out)) THEN next ELSE at
  /\ UNCHANGED <<device, outData, isShift, got>>

Identify == drv = "identify" /\ Write("identify", "ACK identify")

\* One byte, and a second one behind 0xAB.
More(b) == b.code = PS2_DEVICE_MF2_HIGHBYTE

ReadIdentity ==
  /\ drv \in {"low byte", "high byte"}
  /\ ReadByte
  /\ outData' = Append(outData, Head(out).code)
  /\ drv' = IF drv = "low byte" /\ More(Head(out)) THEN "high byte" ELSE "enable"
  /\ UNCHANGED <<device, isShift, got>>

EnableScanning == drv = "enable" /\ Write("enable", "ACK enable")

CheckDevice == \/ DisableScanning
               \/ WaitForAck("ACK disable", "identify")
               \/ Identify
               \/ WaitForAck("ACK identify", "low byte")
               \/ ReadIdentity
               \/ EnableScanning
               \/ WaitForAck("ACK enable", "getch")

\* kernel_getch.  A shift key that goes down is noted; bytes a held shift key
\* repeats are read until another byte comes, which is then treated like any.
ShiftMake(b) == b.code = "shift make"
ShiftAfter(b) ==
  IF b.code = "shift break" THEN FALSE ELSE isShift \/ ShiftMake(b)

\* The lookup table: a character, or nothing (0) for the bytes it lacks.
Returned(b) ==
  IF b.code = "make" THEN <<[key |-> b.key, shift |-> isShift]>> ELSE <<>>

Getch ==
  /\ drv \in {"getch", "repeat"}
  /\ ReadByte
  /\ LET b == Head(out)
     IN  /\ drv' = IF ShiftMake(b) /\ isShift THEN "repeat" ELSE "getch"
         /\ isShift' = ShiftAfter(b)
         /\ got' = got \o Returned(b)
  /\ UNCHANGED <<device, outData>>

Kernel == CheckDevice \/ Getch

-------------------------------------------------------------------------------
\* The keyboard.
Answer ==
  CASE inbox = "identify" -> <<Byte("ACK")>> \o [i \in DOMAIN identity |-> Byte(identity[i])]
    [] OTHER -> <<Byte("ACK")>>

TakeCommand ==
  /\ inbox # "none"
  /\ out' = out \o Answer
  /\ scanning' = IF inbox = "identify" THEN scanning ELSE inbox = "enable"
  /\ inbox' = "none"
  /\ UNCHANGED <<identity, down, unseen, drv, outData, isShift, typed, got>>

Send(b) ==
  /\ scanning
  /\ Len(out) < MaxQueue
  /\ out' = Append(out, b)

Checked == drv \in {"ACK enable", "getch", "repeat"}

\* A key with the shift that is down, and whether the kernel cannot know of it.
PressKey(k) ==
  /\ Checked => Len(typed) < MaxTyped
  /\ Send([code |-> "make", key |-> k])
  /\ typed' =
       IF Checked
       THEN Append(typed, [key |-> k, shift |-> down # {}, unseen |-> unseen # {}])
       ELSE typed
  /\ UNCHANGED <<inbox, scanning, identity, down, unseen, drv, outData, isShift, got>>

ReleaseKey ==
  /\ Send(Byte("break"))
  /\ UNCHANGED <<inbox, scanning, identity, down, unseen, drv, outData, isShift, typed, got>>

\* A keyboard that does not scan reports nothing, and the key moves all the same.
Report(b) == IF scanning THEN Send(b) ELSE UNCHANGED out

\* Down, or still down and repeated.
PressShift(s) ==
  /\ Report(Byte("shift make"))
  /\ down' = down \cup {s}
  /\ unseen' = IF Checked /\ scanning THEN unseen \ {s} ELSE unseen \cup {s}
  /\ UNCHANGED <<inbox, scanning, identity, drv, outData, isShift, typed, got>>

ReleaseShift(s) ==
  /\ s \in down
  /\ Report(Byte("shift break"))
  /\ down' = down \ {s}
  /\ unseen' = unseen \ {s}
  /\ UNCHANGED <<inbox, scanning, identity, drv, outData, isShift, typed, got>>

User == \/ \E k \in Keys : PressKey(k)
        \/ ReleaseKey
        \/ \E s \in ShiftKeys : PressShift(s) \/ ReleaseShift(s)

KeyboardNext == Kernel \/ TakeCommand \/ User

KeyboardSpec ==
  /\ KeyboardInit /\ [][KeyboardNext]_keyboardVars
  /\ WF_keyboardVars(Kernel) /\ WF_keyboardVars(TakeCommand)

-------------------------------------------------------------------------------
\* Whatever is typed before scanning is off, the check reads exactly the
\* identity: no key is taken for a part of it and no part of it is left behind
\* for kernel_getch (schismPS2.c:63-106).
IdentityRead == Checked => outData = identity

\* A character stands for a key: with its shift, unless a shift key is held that
\* went down before the end of the check; then the shift may be lost.
StandsFor(c, k) == c.key = k.key /\ (~k.unseen => c.shift = k.shift)

\* What is typed after the check reaches the program once, in order, and with the
\* shift that was down when the key was pressed (kernel_getch), whatever keys and
\* shift keys were pressed, held and released before and during the check.
KeysInOrder ==
  /\ Len(got) <= Len(typed)
  /\ \A i \in DOMAIN got : StandsFor(got[i], typed[i])

\* Nothing that was typed stays unread while the program keeps asking.
KeysArrive == <>[](Len(got) = Len(typed))

\* The check comes to its end for every keyboard that answers IDENTIFY.
CheckEnds == (drv = "disable" /\ identity # <<>>) ~> (drv = "getch")
===============================================================================
