---------------------------- MODULE Calibration ----------------------------
(***************************************************************************)
(* The arithmetic of conf_file_modify_psd_cali (hpav_test/conf_file.c).    *)
(* Every carrier has a power backoff of 0..14, or is notched (15); the     *)
(* numbers of am_infile hold the backoffs of PerNumber carriers each.  A   *)
(* line of the calibration file is [first, last, compensate, whole]: a     *)
(* range of carriers and by how much their backoff goes down; not whole if *)
(* one of the three is missing.                                            *)
(***************************************************************************)
EXTENDS Integers, Sequences

CONSTANTS
    PerNumber,             \* carriers in one number of am_infile (8)
    arrayOfNotchedArrays,  \* carriers that are notched, as pairs (11)
    Garbage,               \* what a variable that was never set can hold
    Machines,              \* where the program runs: [wide, saturates]; a long
                           \* is wider than an int, and a number that is too
                           \* large for it becomes the largest one, not 0
    LostBits               \* bits of the wide long that a double lacks (11)

ASSUME CalibrationAssumption ==
    /\ PerNumber \in Nat \ {0}
    /\ arrayOfNotchedArrays \in Seq(Int \X Int) /\ Len(arrayOfNotchedArrays) >= 6
    /\ Garbage \subseteq Nat /\ 0 \in Garbage
    /\ Machines \subseteq [wide : BOOLEAN, saturates : BOOLEAN]
    /\ LostBits \in Nat

PSD_Notched == 15

\* base multiplied k times.
Power(base, k) ==
    LET p[i \in 0..k] == IF i = 0 THEN 1 ELSE base * p[i - 1]
    IN p[k]

Lines == [first : Int, last : Int, compensate : Int, whole : BOOLEAN]

Carriers(numbers) == 0..(PerNumber * Len(numbers) - 1)

\* An int has the bits of one number, the wide long twice as many.
IntMod == Power(16, PerNumber)
LongMod(machine) == IF machine.wide THEN IntMod * IntMod ELSE IntMod

\* A double holds every int.
ASSUME DoubleAssumption == Power(2, LostBits) <= IntMod

\* A double of am_infile is cut to an unsigned long, which is undefined when it
\* does not fit.
AmpMap(number, machine) ==
    CASE number \in 0..(LongMod(machine) - 1) -> number
      [] number >= LongMod(machine) /\ machine.saturates -> LongMod(machine) - 1
      [] number < 0 /\ ~machine.saturates -> number % LongMod(machine)
      [] OTHER -> 0

\* Four bits of a number for each carrier, the highest first.
Digit(number, place) == (number \div Power(16, PerNumber - 1 - place)) % 16

Backoffs(numbers, machine) ==
    [j \in Carriers(numbers) |->
        Digit(AmpMap(numbers[j \div PerNumber + 1], machine), j % PerNumber)]

\* Only the first six ranges of the table are looked at.
Is_notched_carrier(idx, backoff) ==
    \/ backoff = PSD_Notched
    \/ \E i \in 1..6 : idx \in arrayOfNotchedArrays[i][1]..arrayOfNotchedArrays[i][2]

Correct(compensate) ==
    compensate % 2 = 0 /\ compensate \in -28..28 /\ compensate # 0

\* Mutated form: a backoff can reach the value of a notched carrier.
ClampedTo15(b) == IF b < 0 THEN 0 ELSE IF b >= 15 THEN 15 ELSE b

Clamped(b) == IF b < 0 THEN 0 ELSE IF b >= 15 THEN 14 ELSE b

\* The carriers of a line's range get its backoff, unless it is incorrect.
LineApplied(backoff, line) ==
    [j \in DOMAIN backoff |->
        IF /\ Correct(line.compensate)
           /\ j \in line.first..line.last
           /\ ~Is_notched_carrier(j, backoff[j])
        THEN Clamped(backoff[j] - line.compensate \div 2)
        ELSE backoff[j]]

\* The lines are applied one after the other.
Compensated(backoff, lines) ==
    LET after[i \in 0..Len(lines)] ==
            IF i = 0 THEN backoff ELSE LineApplied(after[i - 1], lines[i])
    IN after[Len(lines)]

\* A line without a range is copied from NULL, a carrier that am_infile does
\* not have is read outside of the array.  (A file of more than 4096 lines
\* overruns the two arrays it is read into; lines are not that many here.)
Overruns(numbers, lines) ==
    \E i \in DOMAIN lines :
        \/ ~lines[i].whole
        \/ /\ Correct(lines[i].compensate)
           /\ lines[i].first..lines[i].last \notin SUBSET Carriers(numbers)

\* The double next to a number of the wide long.
AsDouble(number) ==
    LET unit == Power(2, LostBits)
        low == number % unit
        down == number - low
        even == (down \div unit) % 2 = 0
    IN CASE number < (IntMod * IntMod) \div unit -> number
         [] number >= (IntMod * IntMod) \div unit /\
            (2 * low < unit \/ (2 * low = unit /\ even)) -> down
         [] OTHER -> down + unit

\* The bits of either, up to those of the wide long.
Or(a, b) ==
    LET Bit(n, k) == (n \div Power(2, k)) % 2
        low[k \in 0..8 * PerNumber] ==
            IF k = 0 THEN 0
            ELSE low[k - 1] + IF Bit(a, k - 1) = 1 \/ Bit(b, k - 1) = 1
                              THEN Power(2, k - 1) ELSE 0
    IN low[8 * PerNumber]

\* The number the carriers of one group are put together to.  The first one is
\* shifted into the sign of an int, which fills the upper half of a wide long.
\* The variable is not set before the first group, whose number also has what
\* was in it.
Packed(backoff, m, before, machine) ==
    LET sum[n \in 0..PerNumber] ==
            IF n = 0 THEN 0
            ELSE 16 * sum[n - 1] + backoff[m * PerNumber + n - 1]
        negative == backoff[m * PerNumber] >= 8
        number == IF machine.wide /\ negative
                  THEN sum[PerNumber] + IntMod * IntMod - IntMod
                  ELSE sum[PerNumber]
    IN AsDouble(IF m = 0 THEN Or(number, before) % LongMod(machine) ELSE number)

Calibrated(numbers, lines, before, machine) ==
    LET backoff == Compensated(Backoffs(numbers, machine), lines)
    IN [m \in DOMAIN numbers |-> Packed(backoff, m - 1, before, machine)]
=============================================================================
