---------------------------- MODULE Nvram_proofs -----------------------------
(***************************************************************************)
(* Proofs about the NVRAM commands, for every size of a block, of nvram_t  *)
(* and of a file, and for any number of commands.                          *)
(***************************************************************************)
EXTENDS Nvram, SequenceTheorems, TLAPS

Byte == {0, 1}

-----------------------------------------------------------------------------
(* Facts about blocks.                                                     *)

\* Byte i of a file, the first being 1, is in block k.
LEMMA BlockOfByte ==
    ASSUME NEW n \in Nat, NEW b \in Nat \ {0}
    PROVE  /\ n \div b \in Nat
           /\ (n \div b) * b <= n
           /\ n < (n \div b) * b + b
  OBVIOUS

LEMMA BlockIsUnique ==
    ASSUME NEW n \in Nat, NEW b \in Nat \ {0}, NEW k \in Nat,
           k * b <= n, n < k * b + b
    PROVE  n \div b = k
  OBVIOUS

LEMMA BlockIndexIsLess ==
    ASSUME NEW b \in Nat \ {0}, NEW k \in Nat, NEW m \in Nat, k * b < m * b
    PROVE  k < m
  OBVIOUS

LEMMA SmallMod ==
    ASSUME NEW n \in Nat, NEW m \in Nat \ {0}
    PROVE  n % m \in Nat /\ (n < m => n % m = n)
  OBVIOUS

\* data is block index of the file f, all of it that there is.
IsBlockOf(f, index, data) ==
    LET offset == index * MTK_NVRAM_BLOCK_SIZE IN
    /\ Len(data) > 0
    /\ offset + Len(data) <= Len(f)
    /\ \A i \in 1..Len(data) : data[i] = f[offset + i]
    /\ \A i \in 1..Len(f) :
          (i - 1) \div MTK_NVRAM_BLOCK_SIZE = index => i - offset \in 1..Len(data)

-----------------------------------------------------------------------------
(* The inductive invariant.                                                *)

TypeInv ==
    /\ file \in Seq(Byte) \cup {NoFile}
    /\ nvram \in Seq(Byte)
    /\ stored \subseteq Nat
    /\ {genuine, original, intact} \subseteq BOOLEAN

\* A request that sets a block sends one of the file as it is now: no command
\* touches the file while another one waits for its answer.
RequestInv ==
    request.op = "set" =>
        /\ file # NoFile
        /\ request.index \in Nat
        /\ request.size = Len(file) % SizeMod
        /\ request.data \in Seq(Byte)
        /\ Len(file) < SizeMod => IsBlockOf(file, request.index, request.data)

\* f is the factory's data, but for the MAC address.
IsFactoryData(f) ==
    /\ Len(f) \in {NvramT, Len(Factory)}
    /\ \A i \in DOMAIN f :
        IF i = Mac THEN f[i] \in macs \cup {Factory[Mac]} ELSE f[i] = Factory[i]

\* The file that is going to be written is as good as what the station has.
FactoryInv ==
    intact =>
        /\ IsFactoryData(nvram)
        /\ genuine => file # NoFile /\ IsFactoryData(file)

\* The blocks stored so far are those of the file.
StoredInv ==
    original /\ file # NoFile /\ Len(file) < SizeMod =>
        /\ stored # {} => Len(nvram) = Len(file)
        /\ \A i \in 1..Len(file) :
              (i - 1) \div MTK_NVRAM_BLOCK_SIZE \in stored => nvram[i] = file[i]

Inv == TypeInv /\ RequestInv /\ FactoryInv /\ StoredInv

-----------------------------------------------------------------------------
(* Every step keeps it.                                                    *)

\* The factory's data stays what it is while MAC addresses are added to the
\* ones asked for.
LEMMA FactoryDataStays ==
    ASSUME NEW f, IsFactoryData(f), macs \subseteq macs', NEW g, g = f
    PROVE  IsFactoryData(g)'
  BY DEF IsFactoryData

\* A step that touches neither the file nor the station and sends no block.
LEMMA QuietStep ==
    ASSUME Inv,
           UNCHANGED <<file, nvram, genuine, macs, original, stored, intact>>,
           request' = request \/ request'.op # "set"
    PROVE  Inv'
  <1>1. TypeInv'
    BY DEF Inv, TypeInv
  <1>2. RequestInv'
    BY DEF Inv, RequestInv, IsBlockOf
  <1>3. FactoryInv'
    BY DEF Inv, FactoryInv, IsFactoryData
  <1>4. StoredInv'
    BY DEF Inv, StoredInv
  <1> QED BY <1>1, <1>2, <1>3, <1>4 DEF Inv

\* A command that sends a block which is one of the file, or one of a file
\* whose size does not fit into a request.
LEMMA SendStep ==
    ASSUME Inv,
           UNCHANGED <<file, nvram, genuine, macs, original, stored, intact>>,
           file # NoFile,
           NEW index \in Nat, NEW data \in Seq(Byte),
           request' = Block(index, Len(file), data),
           Len(file) < SizeMod => index < IndexMod /\ IsBlockOf(file, index, data)
    PROVE  Inv'
  <1>1. TypeInv'
    BY DEF Inv, TypeInv
  <1>2. /\ request'.index = index % IndexMod
        /\ request'.size = Len(file) % SizeMod
        /\ request'.data = data
    BY DEF Block
  <1>3. index % IndexMod \in Nat /\ (index < IndexMod => index % IndexMod = index)
    <2>1. IndexMod \in Nat \ {0}
      BY NvramAssumption
    <2> QED BY <2>1, SmallMod
  <1>4. RequestInv'
    BY <1>2, <1>3 DEF RequestInv, IsBlockOf
  <1>5. FactoryInv'
    BY DEF Inv, FactoryInv, IsFactoryData
  <1>6. StoredInv'
    BY DEF Inv, StoredInv
  <1> QED BY <1>1, <1>4, <1>5, <1>6 DEF Inv

\* A file of at most one block is sent as it is.
LEMMA WriteStep == Inv /\ Write => Inv'
  <1> SUFFICES ASSUME Inv, Write PROVE Inv'
    OBVIOUS
  <1>1. file \in Seq(Byte) /\ Len(file) \in 1..MTK_NVRAM_BLOCK_SIZE
    BY DEF Inv, TypeInv, Write, WriteAccepts
  <1>2. \A i \in 1..Len(file) : i - 0 * MTK_NVRAM_BLOCK_SIZE \in 1..Len(file)
    BY <1>1, NvramAssumption
  <1>3. 0 * MTK_NVRAM_BLOCK_SIZE = 0 /\ 0 < IndexMod
    BY NvramAssumption
  <1>4. IsBlockOf(file, 0, file)
    BY <1>1, <1>2, <1>3 DEF IsBlockOf
  <1>5. request' = Block(0, Len(file), file)
    BY DEF Write, Begin
  <1>6. /\ UNCHANGED <<file, nvram, genuine, macs, original, stored, intact>>
        /\ file # NoFile
    BY DEF Write, WriteAccepts
  <1> QED BY <1>1, <1>3, <1>4, <1>5, <1>6, SendStep

\* The bytes of block index of a file, the last one of which may be short.
LEMMA BlockDataFacts ==
    ASSUME file \in Seq(Byte), NEW index \in Nat,
           index <= nvram_block_size_max, BlockData(index) # <<>>
    PROVE  /\ BlockData(index) \in Seq(Byte)
           /\ IsBlockOf(file, index, BlockData(index))
  <1> DEFINE b == MTK_NVRAM_BLOCK_SIZE
             k == Len(file) \div b
             offset == index * b
             end == IF index = k THEN Len(file) ELSE (index + 1) * b
  <1>1. b \in Nat \ {0} /\ Len(file) \in Nat
    BY NvramAssumption
  <1>2. k \in Nat /\ k * b <= Len(file) /\ Len(file) < k * b + b
    BY <1>1, BlockOfByte
  <1>3. index <= k /\ BlockData(index) = SubSeq(file, offset + 1, end)
    BY DEF nvram_block_size_max, BlockData
  <1>4. offset \in Nat /\ end \in Nat /\ end <= Len(file)
    <2>1. CASE index = k
      BY <1>1, <1>2, <2>1
    <2>2. CASE index < k
      <3>1. (index + 1) * b <= k * b /\ (index + 1) * b \in Nat
        BY <1>1, <1>2, <2>2
      <3> QED BY <1>1, <1>2, <2>2, <3>1
    <2> QED BY <1>2, <1>3, <2>1, <2>2
  <1>5. end <= offset + b
    BY <1>1, <1>2
  <1>6. \A i \in (offset + 1)..end : file[i] \in Byte
    BY <1>1, <1>4
  <1> HIDE DEF offset, end
  <1>7. /\ SubSeq(file, offset + 1, end) \in Seq(Byte)
        /\ Len(SubSeq(file, offset + 1, end)) = IF offset + 1 <= end THEN end - offset ELSE 0
        /\ \A i \in 1..(end - offset) : SubSeq(file, offset + 1, end)[i] = file[offset + i]
    <2>1. /\ SubSeq(file, offset + 1, end) \in Seq(Byte)
          /\ Len(SubSeq(file, offset + 1, end))
                = IF offset + 1 <= end THEN end - (offset + 1) + 1 ELSE 0
          /\ \A i \in 1..(end - (offset + 1) + 1) :
                SubSeq(file, offset + 1, end)[i] = file[(offset + 1) + i - 1]
      BY <1>4, <1>6, SubSeqProperties
    <2>2. end - (offset + 1) + 1 = end - offset
      BY <1>4
    <2>3. \A i \in 1..(end - offset) : (offset + 1) + i - 1 = offset + i
      BY <1>4
    <2> QED BY <2>1, <2>2, <2>3
  <1>8. offset + 1 <= end /\ Len(BlockData(index)) = end - offset
    <2>1. SUFFICES offset + 1 <= end
      BY <1>3, <1>7
    <2>2. Len(BlockData(index)) # 0
      BY <1>3, <1>7, EmptySeq
    <2> QED BY <1>3, <1>7, <2>2
  <1>9. ASSUME NEW i \in 1..Len(file), (i - 1) \div b = index
        PROVE  i - offset \in 1..(end - offset)
    <2>1. i - 1 \in Nat /\ i \in Nat /\ i <= Len(file)
      BY <1>1
    <2>2. index * b <= i - 1 /\ i - 1 < index * b + b
      BY <1>1, <1>9, <2>1, BlockOfByte
    <2>3. CASE index = k
      BY <1>4, <2>1, <2>2, <2>3 DEF offset, end
    <2>4. CASE index # k
      <3>1. end = index * b + b
        BY <1>1, <2>4 DEF end
      <3> QED BY <1>4, <2>1, <2>2, <3>1 DEF offset
    <2> QED BY <2>3, <2>4
  <1>10. IsBlockOf(file, index, BlockData(index))
    <2>1. offset = index * MTK_NVRAM_BLOCK_SIZE
      BY DEF offset
    <2>2. /\ Len(BlockData(index)) > 0
          /\ offset + Len(BlockData(index)) <= Len(file)
      BY <1>1, <1>4, <1>8
    <2>3. \A i \in 1..Len(BlockData(index)) : BlockData(index)[i] = file[offset + i]
      BY <1>3, <1>7, <1>8
    <2> QED BY <1>8, <1>9, <2>1, <2>2, <2>3 DEF IsBlockOf
  <1> QED BY <1>3, <1>7, <1>10

\* A block of the file is sent on its own.
LEMMA SetBlockStep == Inv /\ SetBlock => Inv'
  <1> SUFFICES ASSUME Inv, SetBlock PROVE Inv'
    OBVIOUS
  <1>1. PICK index \in Indexes :
            /\ BlockAccepts(index)
            /\ request' = Block(index, Len(file), BlockData(index))
    BY DEF SetBlock, Begin
  <1>2. file \in Seq(Byte) /\ file # NoFile /\ Len(file) \in Nat
    BY <1>1 DEF Inv, TypeInv, BlockAccepts
  <1>3. MTK_NVRAM_BLOCK_SIZE \in Nat \ {0} /\ IndexMod \in Nat /\ SizeMod \in Nat
    BY NvramAssumption
  <1>4. nvram_block_size_max \in Nat
        /\ nvram_block_size_max * MTK_NVRAM_BLOCK_SIZE <= Len(file)
    BY <1>2, <1>3, BlockOfByte DEF nvram_block_size_max
  <1>5. index \in Nat
    BY <1>2, <1>4 DEF Indexes
  <1>6. index <= nvram_block_size_max /\ BlockData(index) # <<>>
    BY <1>1 DEF BlockAccepts
  <1>7. BlockData(index) \in Seq(Byte) /\ IsBlockOf(file, index, BlockData(index))
    BY <1>2, <1>5, <1>6, BlockDataFacts
  <1>8. ASSUME Len(file) < SizeMod PROVE index < IndexMod
    <2>1. index * MTK_NVRAM_BLOCK_SIZE < Len(file)
      BY <1>2, <1>3, <1>5, <1>7 DEF IsBlockOf
    <2>2. SizeMod <= IndexMod * MTK_NVRAM_BLOCK_SIZE
      BY NvramAssumption
    <2>3. index * MTK_NVRAM_BLOCK_SIZE < IndexMod * MTK_NVRAM_BLOCK_SIZE
      BY <1>2, <1>3, <1>5, <1>8, <2>1, <2>2
    <2> QED BY <1>3, <1>5, <2>3, BlockIndexIsLess
  <1>9. UNCHANGED <<file, nvram, genuine, macs, original, stored, intact>>
    BY DEF SetBlock
  <1> QED BY <1>1, <1>2, <1>5, <1>7, <1>8, <1>9, SendStep

\* What a block makes of the station's NVRAM.
LEMMA StoredType ==
    ASSUME TypeInv, RequestInv, request.op = "set"
    PROVE  /\ request.size \in Nat
           /\ Stored(request) \in Seq(Byte)
           /\ Len(Stored(request)) = request.size
  <1> DEFINE offset == request.index * MTK_NVRAM_BLOCK_SIZE
             data == request.data
             byte(i) == IF i - offset \in DOMAIN data THEN data[i - offset]
                        ELSE IF i \in DOMAIN nvram THEN nvram[i] ELSE 0
  <1>1. request.size \in Nat
    <2>1. SizeMod \in Nat \ {0}
      BY NvramAssumption
    <2>2. Len(file) \in Nat
      BY DEF TypeInv, RequestInv
    <2> QED BY <2>1, <2>2, SmallMod DEF RequestInv
  <1>2. \A i \in DOMAIN data : data[i] \in Byte
    BY DEF RequestInv
  <1>3. \A i \in DOMAIN nvram : nvram[i] \in Byte
    BY DEF TypeInv
  <1> HIDE DEF offset, data
  <1>4. \A i \in 1..request.size : byte(i) \in Byte
    BY <1>2, <1>3 DEF Byte
  <1>5. Stored(request) = [i \in 1..request.size |-> byte(i)]
    BY DEF Stored, offset, data
  <1> HIDE DEF byte
  <1>6. Stored(request) \in [1..request.size -> Byte]
    BY <1>4, <1>5
  <1>7. Stored(request) \in Seq(Byte)
    BY <1>1, <1>6, SeqDef
  <1>8. DOMAIN Stored(request) = 1..request.size
    BY <1>5
  <1> QED BY <1>1, <1>7, <1>8, LenProperties

LEMMA StoredFacts ==
    ASSUME TypeInv, RequestInv, request.op = "set", Len(file) < SizeMod
    PROVE  /\ request.size = Len(file)
           /\ \A i \in 1..Len(file) :
                 (i - 1) \div MTK_NVRAM_BLOCK_SIZE = request.index =>
                     Stored(request)[i] = file[i]
           /\ \A i \in 1..Len(file) :
                 i \in DOMAIN nvram /\ nvram[i] = file[i] => Stored(request)[i] = file[i]
  <1> DEFINE offset == request.index * MTK_NVRAM_BLOCK_SIZE
             data == request.data
  <1>1. file \in Seq(Byte) /\ Len(file) \in Nat /\ data \in Seq(Byte)
    BY DEF TypeInv, RequestInv
  <1>2. offset \in Nat
    BY NvramAssumption DEF RequestInv
  <1>3. request.size = Len(file)
    <2>1. SizeMod \in Nat \ {0}
      BY NvramAssumption
    <2> QED BY <1>1, <2>1, SmallMod DEF RequestInv
  <1>4. DOMAIN data = 1..Len(data) /\ Len(data) \in Nat
    BY <1>1
  <1>5. /\ offset + Len(data) <= Len(file)
        /\ \A i \in 1..Len(data) : data[i] = file[offset + i]
        /\ \A i \in 1..Len(file) :
              (i - 1) \div MTK_NVRAM_BLOCK_SIZE = request.index => i - offset \in 1..Len(data)
    BY DEF RequestInv, IsBlockOf
  <1>6. \A i \in 1..Len(file) :
            Stored(request)[i] =
                IF i - offset \in DOMAIN data THEN data[i - offset]
                ELSE IF i \in DOMAIN nvram THEN nvram[i] ELSE 0
    BY <1>3 DEF Stored
  <1> HIDE DEF offset, data
  <1>7. \A i \in 1..Len(file) : i - offset \in 1..Len(data) => Stored(request)[i] = file[i]
    <2> SUFFICES ASSUME NEW i \in 1..Len(file), i - offset \in 1..Len(data)
                 PROVE  Stored(request)[i] = file[i]
      OBVIOUS
    <2>1. offset + (i - offset) = i
      BY <1>2
    <2>2. data[i - offset] = file[i]
      BY <1>5, <2>1
    <2> QED BY <1>4, <1>6, <2>2
  <1> QED BY <1>3, <1>4, <1>5, <1>6, <1>7

\* A station stores a block, whether its answer arrives or not.
LEMMA StoreStep ==
    ASSUME Inv, Store, request' = NoRequest
    PROVE  Inv'
  <1>1. /\ request.op = "set"
        /\ nvram' = Stored(request)
        /\ stored' = stored \cup {request.index}
        /\ intact' = (intact /\ genuine)
        /\ UNCHANGED <<file, genuine, macs, original>>
    BY DEF Store
  <1>2. TypeInv /\ RequestInv /\ FactoryInv /\ StoredInv
    BY DEF Inv
  <1>3. /\ file # NoFile /\ file \in Seq(Byte) /\ Len(file) \in Nat
        /\ request.index \in Nat /\ request.data \in Seq(Byte)
    BY <1>1, <1>2 DEF RequestInv, TypeInv
  <1>4. TypeInv'
    <2>1. nvram' \in Seq(Byte)
      BY <1>1, <1>2, StoredType
    <2>2. intact' \in BOOLEAN
      BY <1>1, <1>2 DEF TypeInv
    <2> QED BY <1>1, <1>2, <1>3, <2>1, <2>2 DEF TypeInv
  <1>5. RequestInv'
    BY DEF RequestInv, NoRequest
  <1>6. ASSUME intact' PROVE IsFactoryData(file) /\ Len(file) < SizeMod
    <2>1. IsFactoryData(file)
      BY <1>1, <1>2, <1>6 DEF FactoryInv
    <2> QED BY <2>1, NvramAssumption DEF IsFactoryData
  <1>7. FactoryInv'
    <2> SUFFICES ASSUME intact'
                 PROVE  IsFactoryData(nvram)' /\ IsFactoryData(file)'
      BY <1>1, <1>3 DEF FactoryInv
    <2>1. IsFactoryData(file) /\ Len(file) < SizeMod
      BY <1>6
    <2>2. request.index = 0 /\ \A i \in 1..Len(file) : (i - 1) \div MTK_NVRAM_BLOCK_SIZE = 0
      <3> DEFINE b == MTK_NVRAM_BLOCK_SIZE
      <3>1. b \in Nat \ {0} /\ Len(file) <= b
        BY <2>1, NvramAssumption DEF IsFactoryData
      <3> HIDE DEF b
      <3>2. request.index * b < 1 * b
        <4>1. /\ request.index * b + Len(request.data) <= Len(file)
              /\ Len(request.data) > 0
          BY <1>1, <1>2, <2>1 DEF RequestInv, IsBlockOf, b
        <4>2. request.index * b \in Nat
          BY <1>3, <3>1
        <4> QED BY <1>3, <3>1, <4>1, <4>2
      <3>3. request.index = 0
        <4>1. request.index < 1
          BY <1>3, <3>1, <3>2, BlockIndexIsLess
        <4> QED BY <1>3, <4>1
      <3>4. ASSUME NEW i \in 1..Len(file) PROVE (i - 1) \div b = 0
        <4>1. i - 1 \in Nat /\ 0 * b <= i - 1 /\ i - 1 < 0 * b + b
          BY <1>3, <3>1
        <4> QED BY <3>1, <4>1, BlockIsUnique
      <3> QED BY <3>3, <3>4 DEF b
    <2>3. Stored(request) = file
      <3>1. Stored(request) \in Seq(Byte) /\ Len(Stored(request)) = Len(file)
        BY <1>1, <1>2, <2>1, StoredType, StoredFacts
      <3>2. \A i \in 1..Len(file) : Stored(request)[i] = file[i]
        BY <1>1, <1>2, <2>1, <2>2, StoredFacts
      <3> QED BY <1>3, <3>1, <3>2, SeqEqual
    <2> QED BY <1>1, <2>1, <2>3, FactoryDataStays
  <1>8. StoredInv'
    <2> SUFFICES ASSUME original, Len(file) < SizeMod
                 PROVE  /\ Len(nvram') = Len(file)
                        /\ \A i \in 1..Len(file) :
                              (i - 1) \div MTK_NVRAM_BLOCK_SIZE \in stored' =>
                                  nvram'[i] = file[i]
      BY <1>1, <1>2 DEF StoredInv, TypeInv
    <2>1. Len(nvram') = Len(file)
      BY <1>1, <1>2, StoredType, StoredFacts
    <2>2. ASSUME NEW i \in 1..Len(file),
                 (i - 1) \div MTK_NVRAM_BLOCK_SIZE \in stored'
          PROVE  nvram'[i] = file[i]
      <3>1. CASE (i - 1) \div MTK_NVRAM_BLOCK_SIZE = request.index
        BY <1>1, <1>2, <3>1, StoredFacts
      <3>2. CASE (i - 1) \div MTK_NVRAM_BLOCK_SIZE \in stored
        <4>1. nvram[i] = file[i] /\ Len(nvram) = Len(file)
          BY <1>2, <1>3, <3>2 DEF StoredInv
        <4>2. i \in DOMAIN nvram
          BY <1>2, <4>1 DEF TypeInv
        <4> QED BY <1>1, <1>2, <4>1, <4>2, StoredFacts
      <3> QED BY <1>1, <2>2, <3>1, <3>2
    <2> QED BY <2>1, <2>2
  <1> QED BY <1>4, <1>5, <1>7, <1>8 DEF Inv

\* The answer to a read makes the file: some bytes, and the station's only if
\* the file is genuine.
LEMMA ReadStep == Inv /\ ReadAnswered => Inv'
  <1> SUFFICES ASSUME Inv, ReadAnswered PROVE Inv'
    OBVIOUS
  <1>1. /\ request' = NoRequest
        /\ original' = FALSE
        /\ stored' = {}
        /\ UNCHANGED <<nvram, macs, intact>>
    BY DEF ReadAnswered, Return
  <1>2. nvram \in Seq(Byte) /\ Len(nvram) \in Nat
    BY DEF Inv, TypeInv
  <1>3. /\ file' \in Seq(Byte)
        /\ genuine' \in BOOLEAN
        /\ genuine' => file' = nvram
    <2> DEFINE zeros == [i \in 1..Len(nvram) |-> 0]
    <2>1. zeros \in Seq(Byte) /\ Len(zeros) = Len(nvram)
      <3>1. zeros \in [1..Len(nvram) -> Byte] /\ DOMAIN zeros = 1..Len(nvram)
        BY DEF Byte
      <3>2. zeros \in Seq(Byte)
        BY <1>2, <3>1, SeqDef
      <3> QED BY <1>2, <3>1, <3>2, LenProperties
    <2> HIDE DEF zeros
    <2>2. PICK result \in {0, 1}, size \in {0, Len(nvram)} :
              LET data == IF result = 0 THEN nvram ELSE zeros IN
              \E saved \in Saved(SubSeq(data, 1, size)) :
                  /\ file' = saved
                  /\ genuine' = (result = 0 /\ saved = nvram)
      BY DEF ReadAnswered, zeros
    <2> DEFINE data == IF result = 0 THEN nvram ELSE zeros
    <2>3. data \in Seq(Byte) /\ Len(data) = Len(nvram)
      BY <1>2, <2>1
    <2> HIDE DEF data
    <2>4. size \in Nat /\ \A i \in 1..size : data[i] \in Byte
      BY <1>2, <2>3
    <2>5. SubSeq(data, 1, size) \in Seq(Byte)
      BY <2>4, SubSeqProperties
    <2>6. PICK saved \in Saved(SubSeq(data, 1, size)) :
              /\ file' = saved
              /\ genuine' = (result = 0 /\ saved = nvram)
      BY <2>2 DEF data
    <2>7. saved \in Seq(Byte)
      BY <2>5, EmptySeq DEF Saved
    <2> QED BY <2>6, <2>7
  <1>4. TypeInv'
    BY <1>1, <1>3 DEF Inv, TypeInv
  <1>5. RequestInv'
    BY <1>1 DEF RequestInv, NoRequest
  <1>6. FactoryInv'
    <2> SUFFICES ASSUME intact'
                 PROVE  /\ IsFactoryData(nvram)'
                        /\ genuine' => IsFactoryData(file)'
      BY <1>3, NvramAssumption DEF FactoryInv, Byte
    <2>1. IsFactoryData(nvram) /\ macs \subseteq macs'
      BY <1>1 DEF Inv, FactoryInv
    <2> QED BY <1>1, <1>3, <2>1, FactoryDataStays
  <1>7. StoredInv'
    BY <1>1 DEF StoredInv
  <1> QED BY <1>4, <1>5, <1>6, <1>7 DEF Inv

\* What modify writes: nvram_t of the file with another MAC address.
LEMMA ModifiedFacts ==
    ASSUME file \in Seq(Byte), Len(file) >= NvramT, NEW mac \in Byte
    PROVE  /\ Modified(mac) \in Seq(Byte)
           /\ Len(Modified(mac)) = NvramT
           /\ \A i \in 1..NvramT : Modified(mac)[i] = IF i = Mac THEN mac ELSE file[i]
  <1> DEFINE head == SubSeq(file, 1, NvramT)
  <1>1. NvramT \in Nat /\ 1 <= NvramT /\ Mac \in 1..NvramT
    BY NvramAssumption
  <1>2. \A i \in 1..NvramT : file[i] \in Byte
    BY <1>1
  <1>3. /\ head \in Seq(Byte)
        /\ Len(head) = NvramT
        /\ \A i \in 1..NvramT : head[i] = file[i]
    <2>1. /\ head \in Seq(Byte)
          /\ Len(head) = IF 1 <= NvramT THEN NvramT - 1 + 1 ELSE 0
          /\ \A i \in 1..(NvramT - 1 + 1) : head[i] = file[1 + i - 1]
      BY <1>1, <1>2, SubSeqProperties
    <2>2. NvramT - 1 + 1 = NvramT /\ \A i \in 1..NvramT : 1 + i - 1 = i
      BY <1>1
    <2> QED BY <1>1, <2>1, <2>2
  <1> HIDE DEF head
  <1>4. Modified(mac) = [head EXCEPT ![Mac] = mac]
    BY DEF Modified, head
  <1> QED BY <1>1, <1>3, <1>4, ExceptSeq

\* Modify writes nvram_t with the address that was asked for, or with any if
\* that was malformed, and what it writes may get lost.
LEMMA ModifyStep == Inv /\ Modify => Inv'
  <1> SUFFICES ASSUME Inv, Modify PROVE Inv'
    OBVIOUS
  <1>1. /\ request = NoRequest /\ request' = request
        /\ original' = FALSE
        /\ stored' = {}
        /\ UNCHANGED <<nvram, intact>>
    BY DEF Modify, Idle
  <1>2. file \in Seq(Byte) /\ Len(file) \in Nat /\ Len(file) >= NvramT
    BY DEF Inv, TypeInv, Modify, HasNvramT
  <1>3. PICK wellFormed \in BOOLEAN, mac \in Byte :
            /\ file' \in Saved(Modified(mac))
            /\ macs' = IF wellFormed THEN macs \cup {mac} ELSE macs
            /\ genuine' = (genuine /\ wellFormed /\ file' # <<>>)
    BY DEF Modify, Byte
  <1>4. /\ Modified(mac) \in Seq(Byte)
        /\ Len(Modified(mac)) = NvramT
        /\ \A i \in 1..NvramT : Modified(mac)[i] = IF i = Mac THEN mac ELSE file[i]
    BY <1>2, ModifiedFacts
  <1>5. file' \in Seq(Byte) /\ file' # NoFile
    BY <1>3, <1>4, EmptySeq, NvramAssumption DEF Saved, Byte
  <1>6. TypeInv'
    BY <1>1, <1>3, <1>5 DEF Inv, TypeInv
  <1>7. RequestInv'
    BY <1>1 DEF RequestInv, NoRequest
  <1>8. macs \subseteq macs'
    BY <1>3
  <1>9. ASSUME intact, genuine' PROVE IsFactoryData(file)'
    <2>1. file' = Modified(mac) /\ macs' = macs \cup {mac} /\ genuine
      BY <1>3, <1>9 DEF Saved
    <2>2. \A i \in DOMAIN file : i # Mac => file[i] = Factory[i]
      BY <1>9, <2>1 DEF Inv, FactoryInv, IsFactoryData
    <2>3. DOMAIN file' = 1..NvramT /\ 1..NvramT \subseteq DOMAIN file
      BY <1>2, <1>4, <2>1, NvramAssumption
    <2>4. \A i \in 1..NvramT : i # Mac => file'[i] = Factory[i]
      BY <1>4, <2>1, <2>2, <2>3
    <2>5. \A i \in 1..NvramT : i = Mac => file'[i] \in macs'
      BY <1>4, <2>1
    <2> QED BY <1>4, <2>1, <2>3, <2>4, <2>5 DEF IsFactoryData
  <1>10. FactoryInv'
    <2> SUFFICES ASSUME intact'
                 PROVE  /\ IsFactoryData(nvram)'
                        /\ genuine' => IsFactoryData(file)'
      BY <1>5 DEF FactoryInv
    <2>1. IsFactoryData(nvram) /\ intact
      BY <1>1 DEF Inv, FactoryInv
    <2>2. IsFactoryData(nvram)'
      BY <1>1, <1>8, <2>1, FactoryDataStays
    <2> QED BY <1>9, <2>1, <2>2
  <1>11. StoredInv'
    BY <1>1 DEF StoredInv
  <1> QED BY <1>6, <1>7, <1>10, <1>11 DEF Inv

-----------------------------------------------------------------------------
(* The theorems.                                                           *)

LEMMA InvInit == Init => Inv
  <1> SUFFICES ASSUME Init PROVE Inv
    OBVIOUS
  <1>1. TypeInv
    BY NvramAssumption DEF Init, TypeInv, Byte
  <1>2. RequestInv
    BY DEF Init, RequestInv, NoRequest
  <1>3. FactoryInv
    BY DEF Init, FactoryInv, IsFactoryData
  <1>4. StoredInv
    BY DEF Init, StoredInv
  <1> QED BY <1>1, <1>2, <1>3, <1>4 DEF Inv

LEMMA InvStep == Inv /\ [Next]_vars => Inv'
  <1> SUFFICES ASSUME Inv, [Next]_vars PROVE Inv'
    OBVIOUS
  <1>1. CASE UsageError
    BY <1>1, QuietStep DEF UsageError, Refuse
  <1>2. CASE Read
    BY <1>2, QuietStep DEF Read, Begin
  <1>3. CASE ReadAnswered
    BY <1>3, ReadStep
  <1>4. CASE OutputFails
    BY <1>4, QuietStep DEF OutputFails, Return, NoRequest
  <1>5. CASE Parse
    BY <1>5, QuietStep DEF Parse, Refuse
  <1>6. CASE Modify
    BY <1>6, ModifyStep
  <1>7. CASE ModifyFails
    BY <1>7, QuietStep DEF ModifyFails, Refuse
  <1>8. CASE Write
    BY <1>8, WriteStep
  <1>9. CASE WriteRefused
    BY <1>9, QuietStep DEF WriteRefused, Refuse
  <1>10. CASE SetBlock
    BY <1>10, SetBlockStep
  <1>11. CASE SetBlockRefused
    BY <1>11, QuietStep DEF SetBlockRefused, Refuse
  <1>12. CASE StoreAnswered
    BY <1>12, StoreStep DEF StoreAnswered, Return
  <1>13. CASE StoreUnanswered
    BY <1>13, StoreStep DEF StoreUnanswered, Return
  <1>14. CASE Refused
    BY <1>14, QuietStep DEF Refused, Return, NoRequest
  <1>15. CASE NotCarriedOut
    BY <1>15, QuietStep DEF NotCarriedOut, Return, NoRequest
  <1>16. CASE UNCHANGED vars
    BY <1>16, QuietStep DEF vars
  <1> QED BY <1>1, <1>2, <1>3, <1>4, <1>5, <1>6, <1>7, <1>8, <1>9, <1>10, <1>11,
             <1>12, <1>13, <1>14, <1>15, <1>16 DEF Next

\* The inductive invariant holds: what waits to be written is always a block
\* of the file as it is.
THEOREM Invariance == Spec => []Inv
  BY InvInit, InvStep, PTL DEF Spec

\* Any number of reads, modifications and writes, with answers lost and files
\* half written in between, leaves the factory's NVRAM as it is but for the
\* MAC address (test_nvram.c).
THEOREM FactoryDataStaysKept == Spec => []FactoryDataIsKept
  <1>1. Inv => FactoryDataIsKept
    BY DEF Inv, FactoryInv, IsFactoryData, FactoryDataIsKept
  <1> QED BY <1>1, Invariance, PTL

\* Sending every block of a file of any size that fits into a request, in any
\* order and repeatedly, makes the station's NVRAM that file (vs_set_nvram,
\* test_mtk.c).
THEOREM BlocksMakeTheWholeFile == Spec => []BlocksMakeTheFile
  <1>1. Inv => BlocksMakeTheFile
    <2> SUFFICES ASSUME Inv, original, file # NoFile, Len(file) < SizeMod, stored # {},
                        \A i \in 1..Len(file) : (i - 1) \div MTK_NVRAM_BLOCK_SIZE \in stored
                 PROVE  nvram = file
      BY DEF BlocksMakeTheFile
    <2>1. file \in Seq(Byte) /\ nvram \in Seq(Byte)
      BY DEF Inv, TypeInv
    <2>2. Len(nvram) = Len(file) /\ \A i \in 1..Len(file) : nvram[i] = file[i]
      BY DEF Inv, StoredInv
    <2> QED BY <2>1, <2>2, SeqEqual
  <1> QED BY <1>1, Invariance, PTL
=============================================================================
