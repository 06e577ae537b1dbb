-------------------------------- MODULE Nvram --------------------------------
(***************************************************************************)
(* The NVRAM commands: nvram read, modify, parse and write                 *)
(* (hpav_test/test_nvram.c) and vs_set_nvram (hpav_test/test_mtk.c), one   *)
(* after the other on one file of the host and one station.  A byte is one *)
(* bit, which is all that the exclusive or needs.  A station takes a block *)
(* when its checksum is right, and its answer may get lost.                *)
(***************************************************************************)
EXTENDS Integers, Sequences, FiniteSets

CONSTANTS
    MTK_NVRAM_BLOCK_SIZE,
    NvramT,         \* sizeof(nvram_t)
    Mac,            \* where nvram_t has the MAC address
    Word,           \* bytes of a checksum
    SizeMod,        \* the width of nvram_size in a request
    IndexMod,       \* the width of block_index in a request
    Files,          \* the files a user may start with
    Factory,        \* the station's NVRAM
    NoFile,
    MaxCommands     \* bound: commands

ASSUME NvramAssumption ==
    /\ {MTK_NVRAM_BLOCK_SIZE, NvramT, Mac, Word, SizeMod, IndexMod} \subseteq Nat \ {0}
    /\ NvramT <= MTK_NVRAM_BLOCK_SIZE /\ Mac <= NvramT
    /\ NvramT % Word = 0 /\ MTK_NVRAM_BLOCK_SIZE % Word = 0
    /\ MTK_NVRAM_BLOCK_SIZE < SizeMod /\ SizeMod <= IndexMod * MTK_NVRAM_BLOCK_SIZE
    /\ Factory \in Seq({0, 1}) /\ Len(Factory) \in NvramT..MTK_NVRAM_BLOCK_SIZE
    /\ Files \subseteq Seq({0, 1}) /\ NoFile \notin Seq({0, 1})

VARIABLES
    file,       \* the host's file
    nvram,      \* what the station has stored
    request,    \* the request being sent, or NoRequest
    rv,         \* what the last command returned
    genuine,    \* history: the file was read from the station, with an answer
                \* that says so, and modified by well-formed commands only
    macs,       \* history: the MAC addresses asked for
    original,   \* history: the file is the user's own
    stored,     \* history: the blocks of that file the station has stored
    intact,     \* history: every write so far was of a genuine file
    commands    \* commands so far

vars == <<file, nvram, request, rv, genuine, macs, original, stored, intact, commands>>

EXIT_SUCCESS == 0
EXIT_FAILURE == 1
EXIT_USAGE == 2
EXIT_NO_RESPONSE == 3

NoRequest == [op |-> "none"]

\* The complement of the exclusive or of the words.
xorchecksum(data) ==
    [w \in 1..Word |->
        1 - (Cardinality({i \in DOMAIN data : data[i] = 1 /\ i % Word = w % Word}) % 2)]

Aligned(size) == size % Word = 0

Init ==
    /\ file \in Files \cup {NoFile}
    /\ nvram = Factory
    /\ request = NoRequest
    /\ rv = EXIT_SUCCESS
    /\ genuine = FALSE
    /\ macs = {}
    /\ original = TRUE
    /\ stored = {}
    /\ intact = TRUE
    /\ commands = 0

Idle == request = NoRequest /\ commands < MaxCommands

Begin(r) == request' = r /\ commands' = commands + 1

\* A command that is over without having sent a request.
Refuse(result) ==
    /\ rv' = result
    /\ commands' = commands + 1
    /\ UNCHANGED <<file, nvram, request, genuine, macs, original, stored, intact>>

Return(result) == rv' = result /\ request' = NoRequest

\* What fwrite leaves of some data: nobody looks at its result.
Saved(data) == {data, <<>>}

\* The number of arguments, or a MAC address.
UsageError == Idle /\ Refuse(EXIT_USAGE)

-----------------------------------------------------------------------------
(* nvram read                                                              *)

Read ==
    /\ Idle
    /\ Begin([op |-> "get"])
    /\ UNCHANGED <<file, nvram, rv, genuine, macs, original, stored, intact>>

\* The file is made of nvram_size bytes of the answer whatever its result is;
\* a station that could not read has sent no data, or zeros.
ReadAnswered ==
    /\ request.op = "get"
    /\ \E result \in {0, 1}, size \in {0, Len(nvram)} :
        LET data == IF result = 0 THEN nvram ELSE [i \in 1..Len(nvram) |-> 0] IN
        /\ result = 0 => size = Len(nvram)
        /\ \E saved \in Saved(SubSeq(data, 1, size)) :
            /\ file' = saved
            /\ genuine' = (result = 0 /\ saved = nvram)
    /\ original' = FALSE
    /\ stored' = {}
    /\ Return(EXIT_SUCCESS)
    /\ UNCHANGED <<nvram, macs, intact, commands>>

OutputFails ==
    /\ request.op = "get"
    /\ Return(EXIT_FAILURE)
    /\ UNCHANGED <<file, nvram, genuine, macs, original, stored, intact, commands>>

-----------------------------------------------------------------------------
(* nvram parse and nvram modify                                            *)

HasNvramT == file # NoFile /\ Len(file) >= NvramT

Parse ==
    /\ Idle
    /\ Refuse(IF HasNvramT THEN EXIT_SUCCESS ELSE EXIT_FAILURE)

\* Only nvram_t is written back: what the file had after it is gone.
Modified(mac) == [SubSeq(file, 1, NvramT) EXCEPT ![Mac] = mac]

\* sscanf leaves the parts of a malformed address uninitialised.
Modify ==
    /\ Idle /\ HasNvramT
    /\ \E wellFormed \in BOOLEAN, mac \in {0, 1} :
        /\ file' \in Saved(Modified(mac))
        /\ macs' = IF wellFormed THEN macs \cup {mac} ELSE macs
        /\ genuine' = (genuine /\ wellFormed /\ file' # <<>>)
    /\ rv' = EXIT_SUCCESS
    /\ commands' = commands + 1
    /\ original' = FALSE
    /\ stored' = {}
    /\ UNCHANGED <<nvram, request, intact>>

\* A file that is missing, too short or cannot be opened for writing; a field
\* that is not "mac" is a usage error.
ModifyFails == Idle /\ Refuse(EXIT_FAILURE)

-----------------------------------------------------------------------------
(* nvram write and vs_set_nvram                                            *)

Block(index, size, data) ==
    [op |-> "set", index |-> index % IndexMod, size |-> size % SizeMod,
     data |-> data, checksum |-> xorchecksum(data)]

WriteAccepts == file # NoFile /\ Len(file) \in 1..MTK_NVRAM_BLOCK_SIZE /\ Aligned(Len(file))

\* Mutated form: a whole block is sent, whatever the size of the file.
WriteWholeBlock ==
    /\ Idle /\ WriteAccepts
    /\ Begin(Block(0, MTK_NVRAM_BLOCK_SIZE,
                   [i \in 1..MTK_NVRAM_BLOCK_SIZE |->
                       IF i <= Len(file) THEN file[i] ELSE 0]))
    /\ UNCHANGED <<file, nvram, rv, genuine, macs, original, stored, intact>>

Write ==
    /\ Idle /\ WriteAccepts
    /\ Begin(Block(0, Len(file), file))
    /\ UNCHANGED <<file, nvram, rv, genuine, macs, original, stored, intact>>

WriteRefused ==
    /\ Idle /\ ~WriteAccepts
    /\ Refuse(EXIT_FAILURE)

nvram_block_size_max == Len(file) \div MTK_NVRAM_BLOCK_SIZE

\* Mutated form: the file is not positioned at the block.
BlockDataFromStart(index) ==
    SubSeq(file, 1,
           IF index = nvram_block_size_max
           THEN Len(file) - index * MTK_NVRAM_BLOCK_SIZE ELSE MTK_NVRAM_BLOCK_SIZE)

\* The bytes of block index: the last one has what is left, which may be none.
BlockData(index) ==
    SubSeq(file, index * MTK_NVRAM_BLOCK_SIZE + 1,
           IF index = nvram_block_size_max THEN Len(file)
           ELSE (index + 1) * MTK_NVRAM_BLOCK_SIZE)

\* fread returns 0 for a block of no bytes, as for a file that it cannot read.
BlockAccepts(index) ==
    /\ file # NoFile /\ Len(file) > 0
    /\ index <= nvram_block_size_max
    /\ BlockData(index) # <<>> /\ Aligned(Len(BlockData(index)))

Indexes == IF file = NoFile THEN {0} ELSE 0..(nvram_block_size_max + 1)

SetBlock ==
    /\ Idle
    /\ \E index \in Indexes :
        /\ BlockAccepts(index)
        /\ Begin(Block(index, Len(file), BlockData(index)))
    /\ UNCHANGED <<file, nvram, rv, genuine, macs, original, stored, intact>>

SetBlockRefused ==
    /\ Idle
    /\ \E index \in Indexes : ~BlockAccepts(index)
    /\ Refuse(EXIT_FAILURE)

\* The station's part: a block whose words fit its checksum becomes part of an
\* NVRAM of the size the request gives.
Stored(r) ==
    LET offset == r.index * MTK_NVRAM_BLOCK_SIZE IN
    [i \in 1..r.size |->
        IF i - offset \in DOMAIN r.data THEN r.data[i - offset]
        ELSE IF i \in DOMAIN nvram THEN nvram[i] ELSE 0]

Store ==
    /\ request.op = "set" /\ xorchecksum(request.data) = request.checksum
    /\ nvram' = Stored(request)
    /\ stored' = stored \cup {request.index}
    /\ intact' = (intact /\ genuine)
    /\ UNCHANGED <<file, genuine, macs, original, commands>>

\* Both commands return success for any answer; without one, nvram write
\* returns EXIT_FAILURE and vs_set_nvram EXIT_NO_RESPONSE.
StoreAnswered == Store /\ Return(EXIT_SUCCESS)

StoreUnanswered ==
    /\ Store
    /\ \E result \in {EXIT_FAILURE, EXIT_NO_RESPONSE} : Return(result)

Refused ==
    /\ request.op = "set"
    /\ Return(EXIT_SUCCESS)
    /\ UNCHANGED <<file, nvram, genuine, macs, original, stored, intact, commands>>

NotCarriedOut ==
    /\ request # NoRequest
    /\ \E result \in {EXIT_FAILURE, EXIT_NO_RESPONSE} : Return(result)
    /\ UNCHANGED <<file, nvram, genuine, macs, original, stored, intact, commands>>

Next ==
    \/ UsageError
    \/ Read
    \/ ReadAnswered
    \/ OutputFails
    \/ Parse
    \/ Modify
    \/ ModifyFails
    \/ Write
    \/ WriteRefused
    \/ SetBlock
    \/ SetBlockRefused
    \/ StoreAnswered
    \/ StoreUnanswered
    \/ Refused
    \/ NotCarriedOut

Spec == Init /\ [][Next]_vars

-----------------------------------------------------------------------------

\* Reading, modifying and writing back, in any order and however often, with
\* lost answers and failures in between, changes the MAC address in the
\* station's NVRAM and nothing else of nvram_t, as long as every read was
\* answered with data and no address was malformed: test_nvram.c:34-287.  What
\* lies behind nvram_t is kept, or cut off by modify.
FactoryDataIsKept ==
    intact =>
    /\ Len(nvram) \in {NvramT, Len(Factory)}
    /\ \A i \in DOMAIN nvram :
        IF i = Mac THEN nvram[i] \in macs \cup {Factory[Mac]} ELSE nvram[i] = Factory[i]

\* Sending the blocks of a file one by one, in any order, gives the station
\* that file once none of them is missing (test_mtk.c:108-171).
BlocksMakeTheFile ==
    original /\ file # NoFile /\ Len(file) < SizeMod /\
    (\A i \in 1..Len(file) : (i - 1) \div MTK_NVRAM_BLOCK_SIZE \in stored) /\
    stored # {}
    => nvram = file
=============================================================================
