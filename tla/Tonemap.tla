------------------------------- MODULE Tonemap -------------------------------
(***************************************************************************)
(* hpav_dump_tonemap (libhpav/hpav_utils.c): how get_tonemap lists the     *)
(* modulation of every carrier of a station's tone map.  A map comes as    *)
(* nibbles, the low one of a byte first.  With rle_enc = 0xFF they are     *)
(* runs: a modulation (0 to 8) and no, one or two digits (9 to 15) of its  *)
(* length, the low digit first.  Otherwise every nibble is one carrier's   *)
(* modulation and bytes are printed line by line.                          *)
(***************************************************************************)
EXTENDS Integers, Sequences, SequencesExt

CONSTANTS
    Runs,           \* the runs of a map: [modulation, length]
    MaxRuns,        \* bound: runs in a map
    BYTES_PER_LINE

ASSUME TonemapAssumption ==
    /\ Runs \subseteq [modulation : 0..8, length : {1} \cup 3..58]
    /\ MaxRuns \in Nat /\ BYTES_PER_LINE \in Nat \ {0}

VARIABLES
    runs,        \* the station's tone map
    rle_enc,     \* it is run-length encoded
    at,          \* nibbles read
    modulation,  \* the run not listed yet, and the
    rle,         \* low digit of its length
    list,        \* modulation_list, or what has been printed
    pc

vars == <<runs, rle_enc, at, modulation, rle, list, pc>>

Unset == -1

\* Mutated form: two digits start where one ends in the wrong place.
GET_RLE_LEN_by_eight(x, y) == (x - 8) * 8 + (y - 9) + 3

GET_RLE_LEN(x, y) == (x - 8) * 7 + (y - 9) + 3

\* A run as a station encodes it.
Encoded(r) ==
    CASE r.length = 1 -> <<r.modulation>>
      [] r.length \in 3..9 -> <<r.modulation, r.length + 6>>
      [] OTHER -> <<r.modulation, 9 + ((r.length - 3) % 7), 8 + ((r.length - 3) \div 7)>>

nibbles == FlattenSeq([k \in DOMAIN runs |-> Encoded(runs[k])])

\* The nibbles of whole bytes; num_bits % 8 is the one after them.
Whole == 2 * (Len(nibbles) \div 2)

Times(n, x) == [k \in 1..n |-> x]

Init ==
    /\ runs \in UNION {[1..n -> Runs] : n \in 1..MaxRuns}
    /\ rle_enc \in BOOLEAN
    /\ at = 0
    /\ modulation = Unset
    /\ rle = Unset
    /\ list = <<>>
    /\ pc = "bytes"

InWholeByte == pc = "bytes" /\ rle_enc /\ at < Whole

\* A modulation lists the run before it.
ModulationField ==
    /\ InWholeByte
    /\ nibbles[at + 1] \in 0..8
    /\ list' = list \o
         (CASE modulation = Unset -> <<>>
            [] modulation # Unset /\ rle = Unset -> <<modulation>>
            [] OTHER -> Times(GET_RLE_LEN(8, rle), modulation))
    /\ modulation' = nibbles[at + 1]
    /\ rle' = IF modulation = Unset THEN rle ELSE Unset
    /\ at' = at + 1
    /\ UNCHANGED <<runs, rle_enc, pc>>

FirstDigit ==
    /\ InWholeByte
    /\ nibbles[at + 1] >= 9 /\ rle = Unset
    /\ rle' = nibbles[at + 1]
    /\ at' = at + 1
    /\ UNCHANGED <<runs, rle_enc, modulation, list, pc>>

\* Mutated form: the run stays open and is listed again.
SecondDigitKept ==
    /\ InWholeByte
    /\ nibbles[at + 1] >= 9 /\ rle # Unset
    /\ list' = list \o Times(GET_RLE_LEN(nibbles[at + 1], rle), modulation)
    /\ rle' = Unset
    /\ at' = at + 1
    /\ UNCHANGED <<runs, rle_enc, modulation, pc>>

SecondDigit ==
    /\ InWholeByte
    /\ nibbles[at + 1] >= 9 /\ rle # Unset
    /\ list' = list \o Times(GET_RLE_LEN(nibbles[at + 1], rle), modulation)
    /\ modulation' = Unset
    /\ rle' = Unset
    /\ at' = at + 1
    /\ UNCHANGED <<runs, rle_enc, pc>>

\* The half byte at the end: a modulation is listed, a digit completes a run.
LastNibble ==
    /\ pc = "bytes" /\ rle_enc
    /\ at = Whole /\ at < Len(nibbles)
    /\ LET last == nibbles[at + 1] IN
       list' = list \o
         (CASE last \in 0..8 -> <<last>>
            [] last >= 9 /\ rle = Unset -> Times(GET_RLE_LEN(8, last), modulation)
            [] OTHER -> Times(GET_RLE_LEN(last, rle), modulation))
    /\ at' = at + 1
    /\ UNCHANGED <<runs, rle_enc, modulation, rle, pc>>

\* A line of the other form.  num_bytes_left loses a full line whatever was
\* printed, so it is 0, and the half byte printed, after a full last line only.
DumpLine ==
    /\ pc = "bytes" /\ ~rle_enc
    /\ at < Whole
    /\ LET end == at + 2 * BYTES_PER_LINE IN
       at' = CASE end < Whole -> end
               [] end = Whole -> Len(nibbles)
               [] OTHER -> Whole
    /\ list' = list \o SubSeq(nibbles, at + 1, at')
    /\ UNCHANGED <<runs, rle_enc, modulation, rle, pc>>

Return ==
    /\ pc = "bytes"
    /\ IF rle_enc THEN at = Len(nibbles) ELSE at >= Whole
    /\ pc' = "done"
    /\ UNCHANGED <<runs, rle_enc, at, modulation, rle, list>>

Next ==
    \/ ModulationField
    \/ FirstDigit
    \/ SecondDigit
    \/ LastNibble
    \/ DumpLine
    \/ Return

Spec == Init /\ [][Next]_vars

-----------------------------------------------------------------------------

Carriers(rs) ==
    FlattenSeq([k \in DOMAIN rs |-> Times(rs[k].length, rs[k].modulation)])

\* The nibbles up to the end of run k.
EndOf(k) == Len(FlattenSeq([j \in 1..k |-> Encoded(runs[j])]))

\* Runs with two digits are listed at once; the others wait for the next one.
Open(k) == Len(Encoded(runs[k])) < 3

\* Between two runs, the list and the run still open are the carriers of the
\* runs read so far: no run is dropped, listed twice or given another length
\* (hpav_utils.c:503-532).
RunsAreKept ==
    \A k \in DOMAIN runs :
        pc = "bytes" /\ rle_enc /\ at = EndOf(k) /\ at <= Whole =>
        IF Open(k)
        THEN /\ list = Carriers(SubSeq(runs, 1, k - 1))
             /\ modulation = runs[k].modulation
        ELSE list = Carriers(SubSeq(runs, 1, k))

\* What get_tonemap lists is the whole map but for one run: the one that ends
\* with the last whole byte and has fewer than two digits, which nothing lists
\* after the loop (hpav_utils.c:535-549).  A plain map is listed whole but for
\* the half byte after a last line that is not full (hpav_utils.c:584-588).
ListsAllButTheOpenRun ==
    pc = "done" =>
    IF rle_enc
    THEN list = Carriers([k \in DOMAIN runs |->
                             IF EndOf(k) = Whole /\ Open(k)
                             THEN [runs[k] EXCEPT !.length = 0] ELSE runs[k]])
    ELSE list = IF Whole > 0 /\ Whole % (2 * BYTES_PER_LINE) = 0
                THEN nibbles ELSE SubSeq(nibbles, 1, Whole)
=============================================================================
