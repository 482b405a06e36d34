------------------------------- MODULE Touch --------------------------------
(***************************************************************************)
(* The touch controller: fd_cst816s.c.                                     *)
(*                                                                         *)
(* The chip is external: it changes its registers whenever a finger moves  *)
(* and pulses the interrupt line, and it does not answer every time.  The  *)
(* interrupt submits a work that reads the registers and calls the         *)
(* application.  The registers may change while they are read.             *)
(***************************************************************************)
EXTENDS Integers, Sequences

CONSTANTS
    Fingers,     \* the touches, records [gesture, finger, x, y], x and y of twelve bits
    MaxTouches,  \* how often the finger moves
    MaxNacks     \* how often the chip does not answer

TouchAssumption ==
    \A f \in Fingers : f.gesture \in Nat /\ f.finger \in Nat /\ f.x \in 0 .. 4095 /\ f.y \in 0 .. 4095

VARIABLES
    chip,   \* its registers, and the pulses that no interrupt has taken yet
    touch,  \* fd_cst816s, its work and the failed asserts
    heard   \* what the application was called with last, and what was lost

touchVars == <<chip, touch, heard>>

Lifted == [gesture |-> 0, finger |-> 0, x |-> 0, y |-> 0]
Down == 2    \* what the chip puts above the four high bits of x

\* The registers from 0x01 on, and those of the identity.
Registers(f) == <<f.gesture, f.finger, 64 * Down + (f.x \div 256), f.x % 256, f.y \div 256, f.y % 256>>
Identity == <<\hB5, \h00, \h01>>   \* 0xA7, 0xA8, 0xA9

Init ==
    /\ chip = [registers |-> Registers(Lifted), pulse |-> FALSE, identity |-> Identity,
               moves |-> 0, nacks |-> 0]
    /\ touch = [state |-> "off", submitted |-> FALSE, data |-> <<>>, asserts |-> 0]
    /\ heard = [last |-> Lifted, failed |-> FALSE]

\* The line is edge sensitive: an edge before the callback is added is not seen.
FingerMoves ==
    /\ chip.moves < MaxTouches
    /\ \E f \in Fingers :
          chip' = [chip EXCEPT !.registers = Registers(f), !.moves = @ + 1, !.pulse = touch.state # "off"]
    /\ heard' = IF touch.state = "off" THEN [heard EXCEPT !.failed = TRUE] ELSE heard
    /\ UNCHANGED touch

\* fd_cst816s_i2c_read: not acknowledged, or the registers.
Nack == chip.nacks < MaxNacks /\ chip' = [chip EXCEPT !.nacks = @ + 1]
Asserted(t) == [t EXCEPT !.asserts = @ + 1]

-----------------------------------------------------------------------------
\* fd_cst816s_initialize: the pins and the callback of the interrupt,
ConfigurePins ==
    /\ touch.state = "off"
    /\ touch' = [touch EXCEPT !.state = "configured"]
    /\ UNCHANGED <<chip, heard>>

\* then the reset and the identity, which is asserted and not needed: three reads,
\* each with its asserts, are one step here, since the interrupt and the work do not
\* depend on them.  What the reset does to the other registers is left out: the chip
\* tells of a finger after it as of any other.
ReadIdentity ==
    /\ touch.state = "configured"
    /\ \/ /\ touch' = IF chip.identity = Identity THEN [touch EXCEPT !.state = "ready"]
                      ELSE Asserted([touch EXCEPT !.state = "ready"])
          /\ UNCHANGED chip
       \/ Nack /\ touch' = Asserted([touch EXCEPT !.state = "ready"])
    /\ UNCHANGED heard

\* The interrupt: a work that waits is not submitted again, one that runs is.
fd_cst816s_isr ==
    /\ chip.pulse /\ touch.state # "off"
    /\ chip' = [chip EXCEPT !.pulse = FALSE]
    /\ touch' = [touch EXCEPT !.submitted = TRUE]
    /\ UNCHANGED heard

\* fd_cst816s_work reads the first registers and then the others in one transfer.
WorkReads ==
    /\ touch.submitted /\ touch.data = <<>>
    /\ \/ /\ touch' = [touch EXCEPT !.submitted = FALSE, !.data = SubSeq(chip.registers, 1, 3)]
          /\ UNCHANGED <<chip, heard>>
       \/ /\ Nack
          /\ touch' = Asserted([touch EXCEPT !.submitted = FALSE])
          /\ heard' = [heard EXCEPT !.failed = TRUE]

Decoded(data) ==
    [gesture |-> data[1], finger |-> data[2],
     x |-> 256 * (data[3] % 16) + data[4], y |-> 256 * (data[5] % 16) + data[6]]

fd_cst816s_read_touch ==
    /\ touch.data # <<>>
    /\ touch' = [touch EXCEPT !.data = <<>>]
    /\ heard' = [last |-> Decoded(touch.data \o SubSeq(chip.registers, 4, 6)), failed |-> FALSE]
    /\ UNCHANGED chip

Next == FingerMoves \/ ConfigurePins \/ ReadIdentity \/ fd_cst816s_isr \/ WorkReads \/ fd_cst816s_read_touch

Spec == Init /\ [][Next]_touchVars

-----------------------------------------------------------------------------
\* When the interrupt and the work are done the application knows where the
\* finger is, however often it moved meanwhile and whatever mixture of registers
\* was read before, unless the last read was not answered: that is not repeated.
TouchSettles ==
    (~chip.pulse /\ ~touch.submitted /\ touch.data = <<>> /\ ~heard.failed) =>
        Registers(heard.last) = chip.registers
=============================================================================
