------------------------------- MODULE Frames -------------------------------
(***************************************************************************)
(* Received Ethernet frames and the MME packets hpav_defrag_frames builds  *)
(* from a chain of them, stated without the loops: what the reassembly of  *)
(* libhpav/hpav_mme.c computes.  Module Defrag models the loops and is     *)
(* checked against these definitions; SndRcv uses them as one step.        *)
(*                                                                         *)
(* A frame is a record with (at least) the fields the code compares:       *)
(*   dst, src       MAC addresses                                          *)
(*   mmv, mmtype    MME version and type                                   *)
(*   fmsn           fragmentation message sequence number                  *)
(*   nf, fn         the two nibbles of fmi_nf_fn: the number of fragments  *)
(*                  after the first one and the fragment number            *)
(* A chain is a sequence of frames in order of reception.  A group is the  *)
(* set of the positions of its frames in the chain: the order of reception *)
(* is the order of the positions.                                          *)
(***************************************************************************)
EXTENDS Naturals, Sequences, FiniteSets

\* Mutated form of Key: the message number is not compared.
KeyWithoutFmsn(f) == <<f.dst, f.src, f.mmv, f.mmtype>>

\* Mutated form of Key: the sender is not compared.
KeyWithoutSender(f) == <<f.dst, f.mmv, f.mmtype, f.fmsn>>

\* The identifier that puts two frames in one group.
Key(f) == <<f.dst, f.src, f.mmv, f.mmtype, f.fmsn>>

\* The group of the frame at position i.
GroupOf(frames, i) == {j \in DOMAIN frames : Key(frames[j]) = Key(frames[i])}

\* Positions whose frame opens a group: the group list has one node for each,
\* in this order.
Heads(frames) ==
    {i \in DOMAIN frames : \A j \in GroupOf(frames, i) : i <= j}

\* Mutated form of Complete: the last fragment is not waited for.
CompleteOneShort(frames, i) ==
    LET group == GroupOf(frames, i) IN
    /\ \A j \in group : frames[j].fn = Cardinality({k \in group : k < j})
    /\ Cardinality(group) = frames[i].nf

\* The group opened at i holds fragments 0, 1, 2, ... in order of reception,
\* as many as its first frame announces.
Complete(frames, i) ==
    LET group == GroupOf(frames, i) IN
    /\ \A j \in group : frames[j].fn = Cardinality({k \in group : k < j})
    /\ Cardinality(group) = frames[i].nf + 1

\* The frames of the group opened at i, by position: the packet built from it.
PacketAt(frames, i) == [j \in GroupOf(frames, i) |-> frames[j]]

\* The packets of a chain.
Packets(frames) ==
    {PacketAt(frames, i) : i \in {h \in Heads(frames) : Complete(frames, h)}}

\* A packet was chained, a later group failed, and one more group follows it:
\* last_packet is NULL when the last of them is to be chained.
DereferencesNull(frames) ==
    \E good, bad, next \in Heads(frames) :
        /\ good < bad /\ bad < next
        /\ Complete(frames, good)
        /\ ~Complete(frames, bad)
=============================================================================
