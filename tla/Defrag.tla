------------------------------- MODULE Defrag -------------------------------
(***************************************************************************)
(* hpav_defrag_frames of libhpav/hpav_mme.c, loop by loop: frames are put  *)
(* in groups by key, then one MME packet is built from each group and      *)
(* chained to the packets built so far.                                    *)
(***************************************************************************)
EXTENDS Frames, FiniteSetsExt

CONSTANTS Frame,      \* the frames that can be received
          MaxFrames   \* bound: length of the chains that are checked

ASSUME MaxFramesAssumption == MaxFrames \in Nat

VARIABLES frames,      \* the chain to reassemble (the argument)
          pos,         \* current_frame: position of the next frame to group
          group_list,  \* the groups, each the sequence of its positions
          cur,         \* current_group_list: the group to build next
          new_packets, \* the chain of packets built, each a group
          last_packet, \* the last packet chained, <<>> for NULL
          pc           \* "group", "build", "done" or "crashed"

vars == <<frames, pos, group_list, cur, new_packets, last_packet, pc>>

Chains == UNION {[1..n -> Frame] : n \in 0..MaxFrames}

Init ==
    /\ frames \in Chains
    /\ pos = 1
    /\ group_list = <<>>
    /\ cur = 1
    /\ new_packets = <<>>
    /\ last_packet = <<>>
    /\ pc = "group"

-----------------------------------------------------------------------------
(* Grouping.                                                               *)

\* Nodes of the group list whose first frame has the key of frame f.
Matching(f) ==
    {k \in DOMAIN group_list : Key(frames[group_list[k][1]]) = Key(f)}

\* The search goes through the whole list, so the last match wins.
AddToGroupList ==
    LET found == Matching(frames[pos]) IN
    group_list' =
        IF found = {}
        THEN Append(group_list, <<pos>>)
        ELSE [group_list EXCEPT ![Max(found)] = Append(@, pos)]

AddFrame ==
    /\ pc = "group"
    /\ pos \in DOMAIN frames
    /\ AddToGroupList
    /\ pos' = pos + 1
    /\ UNCHANGED <<frames, cur, new_packets, last_packet, pc>>

EndGrouping ==
    /\ pc = "group"
    /\ pos \notin DOMAIN frames
    /\ pc' = "build"
    /\ UNCHANGED <<frames, pos, group_list, cur, new_packets, last_packet>>

-----------------------------------------------------------------------------
(* Building.                                                               *)

\* Mutated form: the fragment that nf does not count is not added.
GroupedFramesOffByOne(group) ==
    IF /\ \A n \in DOMAIN group : frames[group[n]].fn = n - 1
       /\ frames[group[1]].nf = Len(group)
    THEN group
    ELSE <<>>

\* Mutated form: the fragments are counted, their order is not looked at.
GroupedFramesUnordered(group) ==
    IF frames[group[1]].nf + 1 = Len(group) THEN group ELSE <<>>

\* The packet built from a group, <<>> for NULL.
GroupedFrames(group) ==
    IF /\ \A n \in DOMAIN group : frames[group[n]].fn = n - 1
       /\ frames[group[1]].nf + 1 = Len(group)
    THEN group
    ELSE <<>>

ToBuild == pc = "build" /\ cur \in DOMAIN group_list

\* Nothing chained yet: the packet, or NULL, starts the chain.
BuildFirst ==
    /\ ToBuild
    /\ new_packets = <<>>
    /\ LET packet == GroupedFrames(group_list[cur]) IN
       /\ new_packets' = IF packet = <<>> THEN <<>> ELSE <<packet>>
       /\ last_packet' = packet
    /\ cur' = cur + 1
    /\ UNCHANGED <<frames, pos, group_list, pc>>

\* last_packet->next is set to the packet, or to NULL.
ChainPacket ==
    /\ ToBuild
    /\ new_packets # <<>> /\ last_packet # <<>>
    /\ LET packet == GroupedFrames(group_list[cur]) IN
       /\ new_packets' = IF packet = <<>> THEN new_packets
                         ELSE Append(new_packets, packet)
       /\ last_packet' = packet
    /\ cur' = cur + 1
    /\ UNCHANGED <<frames, pos, group_list, pc>>

\* last_packet->next with last_packet = NULL.
ChainToNull ==
    /\ ToBuild
    /\ new_packets # <<>> /\ last_packet = <<>>
    /\ pc' = "crashed"
    /\ UNCHANGED <<frames, pos, group_list, cur, new_packets, last_packet>>

\* Mutated form: the walk steps past the end of the list before it returns.
ReturnPastEnd ==
    /\ pc = "build"
    /\ cur \notin DOMAIN group_list
    /\ cur' = cur + 1
    /\ pc' = "done"
    /\ UNCHANGED <<frames, pos, group_list, new_packets, last_packet>>

Return ==
    /\ pc = "build"
    /\ cur \notin DOMAIN group_list
    /\ pc' = "done"
    /\ UNCHANGED <<frames, pos, group_list, cur, new_packets, last_packet>>

\* The call has returned or the process is gone.
Stopped == pc \in {"done", "crashed"} /\ UNCHANGED vars

Next ==
    \/ AddFrame \/ EndGrouping
    \/ BuildFirst \/ ChainPacket \/ ChainToNull \/ Return
    \/ Stopped

Spec == Init /\ [][Next]_vars

-----------------------------------------------------------------------------
(* Properties.                                                             *)

Position == 1..MaxFrames

\* The values the variables of hpav_defrag_frames can have.
TypeOK ==
    /\ frames \in Chains
    /\ pos \in 1..(MaxFrames + 1)
    /\ group_list \in Seq(Seq(Position))
    /\ cur \in 1..(MaxFrames + 1)
    /\ new_packets \in Seq(Seq(Position))
    /\ last_packet \in Seq(Position)
    /\ pc \in {"group", "build", "done", "crashed"}

\* Two frames are fragments of one message: the sender, the receiver, the
\* kind of message and the message number all agree.
SameMessage(f, g) ==
    /\ f.src = g.src /\ f.dst = g.dst
    /\ f.mmv = g.mmv /\ f.mmtype = g.mmtype
    /\ f.fmsn = g.fmsn

\* hpav_defrag_add_to_group_list keeps every frame already looked at in one
\* group, with all the frames of its message and no other, in the order in
\* which they were received, and opens the groups in that order too.
GroupsKeepMessagesAndOrder ==
    /\ \A i \in 1..(pos - 1) : \E k \in DOMAIN group_list :
           {group_list[k][n] : n \in DOMAIN group_list[k]} =
           {j \in 1..(pos - 1) : SameMessage(frames[i], frames[j])}
    /\ \A k \in DOMAIN group_list : \A m, n \in DOMAIN group_list[k] :
           m < n => group_list[k][m] < group_list[k][n]
    /\ \A k, l \in DOMAIN group_list :
           k < l => group_list[k][1] < group_list[l][1]

\* hpav_defrag_frames returns the packets of the declarative definition, each
\* once and in the order in which their first fragments were received: a failed
\* group costs no other message its packet, as long as the call returns.
ReturnsCompletePackets ==
    pc = "done" =>
        /\ {[j \in {p[n] : n \in DOMAIN p} |-> frames[j]] :
                p \in {new_packets[k] : k \in DOMAIN new_packets}}
           = Packets(frames)
        /\ \A k, l \in DOMAIN new_packets :
               k < l => new_packets[k][1] < new_packets[l][1]

\* The chain of packets is followed through a NULL last packet exactly when a
\* good group, a bad one and any other follow one another in the group list.
CrashesExactlyAfterGap ==
    /\ pc = "crashed" => DereferencesNull(frames)
    /\ pc = "done" => ~DereferencesNull(frames)

\* "for each group build a MME packet from the fragments" (hpav_mme.c:340): the
\* loop gets past every group, whatever was received.
EveryGroupIsBuilt == pc # "crashed"
=============================================================================
