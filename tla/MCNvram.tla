------------------------------- MODULE MCNvram -------------------------------
(* Nvram with blocks of six bytes, words of two and an nvram_t of four; the
   files have every length up to three blocks, sizes that wrap included.     *)
EXTENDS Nvram

Pattern(length, phase) == [i \in 1..length |-> ((i + phase) \div 2) % 2]

MCFiles == {Pattern(length, phase) : length \in 0..18, phase \in {0, 1}}
MCFactory == <<1, 0, 1, 1, 0, 1>>
=============================================================================
