----------------------------- MODULE Defrag_proofs -----------------------------
(***************************************************************************)
(* The theorems about hpav_defrag_frames, for every set of frames and      *)
(* chains of every length.                                                 *)
(*                                                                         *)
(* The inductive invariant has two parts, one for each loop of the code.   *)
(* GroupingInv: the groups are those of the frames looked at so far.       *)
(* BuildingInv: the chain of packets holds the good groups walked so far,  *)
(* and no good group was followed by a bad one and a third one, except     *)
(* that the bad one may be the last group walked.                          *)
(***************************************************************************)
EXTENDS Defrag, Positions_proofs, SequenceTheorems

\* The positions in a group.
Members(group) == {group[n] : n \in DOMAIN group}

Increasing(group) ==
    \A m, n \in DOMAIN group : m < n => group[m] < group[n]

\* Where the walk through the chain stands, and what a group list can hold.
Typing ==
    /\ frames \in Chains
    /\ pos \in 1..(Len(frames) + 1)
    /\ group_list \in Seq(Seq(Position))
    /\ Len(group_list) <= pos - 1
    /\ \A k \in DOMAIN group_list : group_list[k] # <<>>
    /\ pc \in {"group", "build", "done", "crashed"}
    /\ pc # "group" => pos = Len(frames) + 1

\* Each node of the list has the frames looked at that have the key of its
\* first frame, in order; every frame looked at is in one; the nodes are in the
\* order of their first frames.
GroupingInv ==
    /\ \A k \in DOMAIN group_list :
           /\ Increasing(group_list[k])
           /\ Members(group_list[k]) =
              {j \in 1..(pos - 1) :
                  Key(frames[j]) = Key(frames[group_list[k][1]])}
    /\ \A i \in 1..(pos - 1) : \E k \in DOMAIN group_list :
           Key(frames[i]) = Key(frames[group_list[k][1]])
    /\ \A k, l \in DOMAIN group_list :
           k < l => group_list[k][1] < group_list[l][1]

\* A packet is built from the group.
Good(k) == GroupedFrames(group_list[k]) # <<>>

\* The chain holds the packets of the good groups walked, in their order; the
\* last packet is that of the last group walked, and a bad group after a good
\* one can only be the last one walked.
BuildingInv ==
    /\ cur \in 1..(Len(group_list) + 1)
    /\ pc = "group" => cur = 1
    /\ pc = "done" => cur = Len(group_list) + 1
    /\ pc = "crashed" =>
           /\ cur <= Len(group_list)
           /\ \E a, b \in 1..(cur - 1) : a < b /\ Good(a) /\ ~Good(b)
    /\ new_packets \in Seq(Seq(Position))
    /\ \A m \in DOMAIN new_packets : \E k \in 1..(cur - 1) :
           Good(k) /\ new_packets[m] = group_list[k]
    /\ \A k \in 1..(cur - 1) :
           Good(k) => \E m \in DOMAIN new_packets :
                          new_packets[m] = group_list[k]
    /\ \A m, n \in DOMAIN new_packets :
           m < n => new_packets[m][1] < new_packets[n][1]
    /\ last_packet =
           IF cur = 1 THEN <<>> ELSE GroupedFrames(group_list[cur - 1])
    /\ \A a, b \in 1..(cur - 1) :
           a < b /\ Good(a) /\ ~Good(b) => b = cur - 1

Inv == Typing /\ GroupingInv /\ BuildingInv

-----------------------------------------------------------------------------
(* Grouping.                                                               *)

\* A chain is a sequence of at most MaxFrames frames.
LEMMA ChainLength ==
    ASSUME NEW f \in Chains
    PROVE  Len(f) \in 0..MaxFrames /\ DOMAIN f = 1..Len(f)
  <1>1. PICK n \in 0..MaxFrames : f \in [1..n -> Frame]
    BY DEF Chains
  <1>2. n \in Nat
    BY MaxFramesAssumption
  <1>3. f \in Seq(Frame) /\ Len(f) = n
    BY <1>1, <1>2, IsASeq, LenProperties
  <1> QED BY <1>1, <1>3

\* The invariant holds when the call begins.
LEMMA InitInv == Init => Inv
  <1> SUFFICES ASSUME Init PROVE Inv
    OBVIOUS
  <1>1. Len(frames) \in Nat
    BY ChainLength, MaxFramesAssumption DEF Init
  <1>2. Typing
    BY <1>1 DEF Init, Typing
  <1>3. GroupingInv
    BY DEF Init, GroupingInv
  <1>4. BuildingInv
    BY DEF Init, BuildingInv
  <1> QED BY <1>2, <1>3, <1>4 DEF Inv

\* The first frame of a group is the first one received.
LEMMA FirstIsLeast ==
    ASSUME NEW group \in Seq(Position), group # <<>>, Increasing(group)
    PROVE  /\ 1 \in DOMAIN group
           /\ group[1] \in Members(group)
           /\ \A i \in Members(group) : i \in Position /\ group[1] <= i
  <1>1. Len(group) \in Nat \ {0} /\ DOMAIN group = 1..Len(group)
    BY EmptySeq, LenProperties
  <1>2. \A n \in DOMAIN group : group[n] \in Position
    OBVIOUS
  <1>3. \A n \in DOMAIN group : 1 < n => group[1] < group[n]
    BY <1>1 DEF Increasing
  <1>4. \A n \in DOMAIN group : group[1] <= group[n]
    BY <1>1, <1>2, <1>3 DEF Position
  <1> QED BY <1>1, <1>2, <1>4 DEF Members

\* Two nodes with the key of one frame are the same node.
LEMMA OneGroupForAKey ==
    ASSUME Typing, GroupingInv,
           NEW k \in DOMAIN group_list, NEW l \in DOMAIN group_list,
           Key(frames[group_list[k][1]]) = Key(frames[group_list[l][1]])
    PROVE  k = l
  <1> DEFINE g == group_list[k]
             h == group_list[l]
  <1>1. /\ g \in Seq(Position) /\ g # <<>> /\ Increasing(g)
        /\ h \in Seq(Position) /\ h # <<>> /\ Increasing(h)
    BY DEF Typing, GroupingInv
  <1>2. Members(g) = Members(h)
    BY DEF GroupingInv
  <1>3. \A m, n \in DOMAIN group_list :
            m < n => group_list[m][1] < group_list[n][1]
    BY DEF GroupingInv
  <1>4. k \in Nat /\ l \in Nat
    <2>1. DOMAIN group_list = 1..Len(group_list)
      BY LenProperties, Zenon DEF Typing
    <2>2. k \in 1..Len(group_list) /\ l \in 1..Len(group_list)
      BY <2>1, Zenon
    <2> QED BY <2>2
  <1>5. ~(g[1] < h[1]) /\ ~(h[1] < g[1])
    <2> HIDE DEF g, h
    <2>1. /\ g[1] \in Members(h) /\ h[1] <= g[1]
          /\ h[1] \in Members(g) /\ g[1] <= h[1]
          /\ g[1] \in Position /\ h[1] \in Position
      BY <1>1, <1>2, FirstIsLeast
    <2> QED BY <2>1 DEF Position
  <1> QED BY <1>3, <1>4, <1>5

\* A frame whose key no node has opens a group at the end of the list.
LEMMA OpenGroup ==
    ASSUME Typing, GroupingInv, pos \in DOMAIN frames,
           Matching(frames[pos]) = {},
           group_list' = Append(group_list, <<pos>>),
           pos' = pos + 1, frames' = frames, pc' = pc, pc = "group"
    PROVE  Typing' /\ GroupingInv'
  <1>1. Len(frames) \in 0..MaxFrames /\ DOMAIN frames = 1..Len(frames)
    BY ChainLength DEF Typing
  <1>2. /\ pos \in 1..Len(frames) /\ pos \in Position
        /\ Len(group_list) \in Nat /\ DOMAIN group_list = 1..Len(group_list)
    BY <1>1, MaxFramesAssumption DEF Typing, Position
  <1>3. <<pos>> \in Seq(Position) /\ <<pos>> # <<>> /\ DOMAIN <<pos>> = {1}
    BY <1>2
  <1> DEFINE last == Len(group_list) + 1
  <1>4. /\ group_list' \in Seq(Seq(Position))
        /\ Len(group_list') = last
        /\ DOMAIN group_list' = 1..last
        /\ \A k \in DOMAIN group_list : group_list'[k] = group_list[k]
        /\ group_list'[last] = <<pos>>
    BY <1>2, <1>3, AppendProperties DEF Typing
  <1>5. \A k \in 1..last : k = last \/ k \in DOMAIN group_list
    BY <1>2
  <1>6. Typing'
    BY <1>1, <1>2, <1>3, <1>4, <1>5 DEF Typing, Chains
  <1>7. \A k \in DOMAIN group_list :
            Key(frames[group_list[k][1]]) # Key(frames[pos])
    BY DEF Matching
  <1>8. \A i \in 1..(pos - 1) : Key(frames[i]) # Key(frames[pos])
    BY <1>7 DEF GroupingInv
  <1>9. 1..(pos' - 1) = 1..(pos - 1) \cup {pos}
    BY <1>2
  <1>10. ASSUME NEW k \in DOMAIN group_list'
         PROVE  /\ Increasing(group_list'[k])
                /\ Members(group_list'[k]) =
                   {j \in 1..(pos' - 1) :
                       Key(frames[j]) = Key(frames[group_list'[k][1]])}
    <2>1. CASE k = last
      <3>1. group_list'[k] = <<pos>> /\ group_list'[k][1] = pos
        BY <1>4, <2>1
      <3>2. Increasing(<<pos>>) /\ Members(<<pos>>) = {pos}
        BY <1>3 DEF Increasing, Members
      <3>3. {j \in 1..(pos' - 1) : Key(frames[j]) = Key(frames[pos])} = {pos}
        BY <1>8, <1>9
      <3> QED BY <3>1, <3>2, <3>3
    <2>2. CASE k \in DOMAIN group_list
      <3>1. group_list'[k] = group_list[k]
        BY <1>4, <2>2
      <3>2. {j \in 1..(pos' - 1) :
                Key(frames[j]) = Key(frames[group_list[k][1]])} =
            {j \in 1..(pos - 1) :
                Key(frames[j]) = Key(frames[group_list[k][1]])}
        BY <1>7, <1>9, <2>2
      <3> QED BY <2>2, <3>1, <3>2 DEF GroupingInv
    <2> QED BY <1>4, <1>5, <2>1, <2>2
  <1>11. ASSUME NEW i \in 1..(pos' - 1)
         PROVE  \E k \in DOMAIN group_list' :
                    Key(frames[i]) = Key(frames[group_list'[k][1]])
    <2>1. CASE i = pos
      <3>1. last \in DOMAIN group_list' /\ group_list'[last][1] = pos
        BY <1>2, <1>4
      <3> QED BY <2>1, <3>1
    <2>2. CASE i \in 1..(pos - 1)
      <3>1. PICK k \in DOMAIN group_list :
                Key(frames[i]) = Key(frames[group_list[k][1]])
        BY <2>2 DEF GroupingInv
      <3>2. k \in DOMAIN group_list' /\ group_list'[k] = group_list[k]
        BY <1>2, <1>4, <3>1
      <3> QED BY <3>1, <3>2
    <2> QED BY <1>9, <2>1, <2>2
  <1>12. ASSUME NEW k \in DOMAIN group_list', NEW l \in DOMAIN group_list',
                k < l
         PROVE  group_list'[k][1] < group_list'[l][1]
    <2>1. k \in DOMAIN group_list
      BY <1>2, <1>4, <1>12
    <2>2. CASE l = last
      <3>1. group_list[k] \in Seq(Position) /\ group_list[k] # <<>>
            /\ Increasing(group_list[k])
        BY <2>1 DEF Typing, GroupingInv
      <3>2. group_list[k][1] \in Members(group_list[k])
        BY <3>1, FirstIsLeast
      <3>3. group_list[k][1] \in 1..(pos - 1)
        BY <2>1, <3>2 DEF GroupingInv
      <3>4. group_list'[k][1] < pos
        <4>1. group_list'[k] = group_list[k]
          BY <1>4, <2>1, Zenon
        <4>2. group_list[k][1] < pos
          BY <1>2, <3>3
        <4> QED BY <4>1, <4>2, Zenon
      <3>5. group_list'[l][1] = pos
        <4>1. group_list'[l] = <<pos>>
          BY <1>4, <2>2, Zenon
        <4> QED BY <4>1
      <3> QED BY <3>4, <3>5, Zenon
    <2>3. CASE l \in DOMAIN group_list
      BY <1>4, <1>12, <2>1, <2>3 DEF GroupingInv
    <2> QED BY <1>4, <1>5, <2>2, <2>3
  <1>13. GroupingInv'
    BY <1>10, <1>11, <1>12 DEF GroupingInv
  <1> QED BY <1>6, <1>13

\* A frame is added to the one node that has its key.
LEMMA ExtendGroup ==
    ASSUME Typing, GroupingInv, pos \in DOMAIN frames,
           NEW g \in Matching(frames[pos]),
           group_list' =
               [group_list EXCEPT ![g] = Append(group_list[g], pos)],
           pos' = pos + 1, frames' = frames, pc' = pc, pc = "group"
    PROVE  Typing' /\ GroupingInv'
  <1>1. Len(frames) \in 0..MaxFrames /\ DOMAIN frames = 1..Len(frames)
    BY ChainLength DEF Typing
  <1>2. /\ pos \in 1..Len(frames) /\ pos \in Position
        /\ Len(group_list) \in Nat /\ DOMAIN group_list = 1..Len(group_list)
        /\ g \in 1..Len(group_list)
    <2>1. pos \in 1..Len(frames)
      BY <1>1
    <2>2. pos \in Position
      BY <1>1, <2>1, MaxFramesAssumption DEF Position
    <2>3. Len(group_list) \in Nat /\ DOMAIN group_list = 1..Len(group_list)
      BY DEF Typing
    <2>4. g \in DOMAIN group_list
      BY DEF Matching
    <2> QED BY <2>1, <2>2, <2>3, <2>4
  <1> DEFINE old == group_list[g]
             new == Append(old, pos)
  <1>3. /\ old \in Seq(Position) /\ old # <<>> /\ Increasing(old)
        /\ Members(old) = {j \in 1..(pos - 1) :
                              Key(frames[j]) = Key(frames[old[1]])}
        /\ Key(frames[old[1]]) = Key(frames[pos])
    BY <1>2 DEF Typing, GroupingInv, Matching
  <1>4. /\ new \in Seq(Position) /\ new # <<>>
        /\ Len(old) \in Nat \ {0} /\ DOMAIN old = 1..Len(old)
        /\ DOMAIN new = 1..(Len(old) + 1)
        /\ \A n \in DOMAIN old : new[n] = old[n]
        /\ new[Len(old) + 1] = pos
    <2> HIDE DEF old
    <2>1. Len(old) \in Nat \ {0} /\ DOMAIN old = 1..Len(old)
      BY <1>3, EmptySeq, LenProperties, Zenon
    <2>2. /\ new \in Seq(Position) /\ new # <<>> /\ Len(new) = Len(old) + 1
          /\ \A n \in 1..Len(old) : new[n] = old[n]
          /\ new[Len(old) + 1] = pos
      <3>1. old \in Seq(Position) /\ pos \in Position
        BY <1>2, <1>3, Zenon
      <3> QED BY <3>1, AppendProperties
    <2>3. DOMAIN new = 1..(Len(old) + 1)
      BY <2>2, LenProperties, Zenon
    <2> QED BY <2>1, <2>2, <2>3, Zenon
  <1>5. /\ group_list' \in Seq(Seq(Position))
        /\ Len(group_list') = Len(group_list)
        /\ DOMAIN group_list' = DOMAIN group_list
        /\ \A k \in DOMAIN group_list : k # g => group_list'[k] = group_list[k]
        /\ group_list'[g] = new
    <2> HIDE DEF new
    <2>1. group_list' = [group_list EXCEPT ![g] = new]
      BY DEF new
    <2> QED BY <1>2, <1>4, <2>1, ExceptSeq DEF Typing
  <1> HIDE DEF new, old
  <1>6. Typing'
    <2>1. \A k \in DOMAIN group_list' : group_list'[k] # <<>>
      BY <1>4, <1>5 DEF Typing
    <2>2. pos' \in 1..(Len(frames') + 1) /\ Len(group_list') <= pos' - 1
      BY <1>1, <1>2, <1>5 DEF Typing
    <2>3. frames' \in Chains
      BY DEF Typing
    <2> QED BY <1>5, <2>1, <2>2, <2>3 DEF Typing
  <1>7. 1..(pos' - 1) = 1..(pos - 1) \cup {pos}
    BY <1>2
  <1>8. new[1] = old[1] /\ \A k \in DOMAIN group_list :
            group_list'[k][1] = group_list[k][1]
    <2>1. new[1] = old[1]
      BY <1>4
    <2>2. \A k \in DOMAIN group_list :
              k # g => group_list'[k][1] = group_list[k][1]
      BY <1>5
    <2> QED BY <1>5, <2>1, <2>2 DEF old
  <1>9. \A k \in DOMAIN group_list :
            k # g => Key(frames[group_list[k][1]]) # Key(frames[pos])
    BY <1>2, <1>3, OneGroupForAKey DEF old
  <1>10. Increasing(new)
    <2>1. \A n \in DOMAIN old : old[n] \in 1..(pos - 1)
      BY <1>3 DEF Members
    <2> SUFFICES ASSUME NEW m \in DOMAIN new, NEW n \in DOMAIN new, m < n
                 PROVE  new[m] < new[n]
      BY DEF Increasing
    <2>2. m \in DOMAIN old /\ new[m] = old[m]
      BY <1>4
    <2>3. CASE n \in DOMAIN old
      BY <1>3, <1>4, <2>2, <2>3 DEF Increasing
    <2>4. CASE n = Len(old) + 1
      <3>1. new[m] \in 1..(pos - 1) /\ new[n] = pos
        BY <1>4, <2>1, <2>2, <2>4
      <3> QED BY <1>2, <3>1
    <2> QED BY <1>4, <2>3, <2>4
  <1>11. Members(new) = Members(old) \cup {pos}
    BY <1>4 DEF Members
  <1>12. ASSUME NEW k \in DOMAIN group_list'
         PROVE  /\ Increasing(group_list'[k])
                /\ Members(group_list'[k]) =
                   {j \in 1..(pos' - 1) :
                       Key(frames[j]) = Key(frames[group_list'[k][1]])}
    <2>1. CASE k = g
      <3>1. group_list'[k] = new /\ group_list'[k][1] = old[1]
        BY <1>5, <1>8, <2>1
      <3>2. {j \in 1..(pos' - 1) : Key(frames[j]) = Key(frames[old[1]])} =
            Members(old) \cup {pos}
        BY <1>3, <1>7
      <3> QED BY <1>10, <1>11, <3>1, <3>2
    <2>2. CASE k # g
      <3>1. group_list'[k] = group_list[k] /\ k \in DOMAIN group_list
        BY <1>5, <2>2
      <3>2. {j \in 1..(pos' - 1) :
                Key(frames[j]) = Key(frames[group_list[k][1]])} =
            {j \in 1..(pos - 1) :
                Key(frames[j]) = Key(frames[group_list[k][1]])}
        BY <1>7, <1>9, <2>2, <3>1
      <3> QED BY <3>1, <3>2 DEF GroupingInv
    <2> QED BY <2>1, <2>2
  <1>13. ASSUME NEW i \in 1..(pos' - 1)
         PROVE  \E k \in DOMAIN group_list' :
                    Key(frames[i]) = Key(frames[group_list'[k][1]])
    <2>1. CASE i = pos
      <3>1. g \in DOMAIN group_list' /\ group_list'[g][1] = old[1]
        BY <1>2, <1>5, <1>8
      <3> QED BY <1>3, <2>1, <3>1
    <2>2. CASE i \in 1..(pos - 1)
      <3>1. PICK k \in DOMAIN group_list :
                Key(frames[i]) = Key(frames[group_list[k][1]])
        BY <2>2 DEF GroupingInv
      <3>2. k \in DOMAIN group_list' /\ group_list'[k][1] = group_list[k][1]
        BY <1>5, <1>8, <3>1
      <3> QED BY <3>1, <3>2
    <2> QED BY <1>7, <2>1, <2>2
  <1>14. \A k, l \in DOMAIN group_list' :
             k < l => group_list'[k][1] < group_list'[l][1]
    BY <1>5, <1>8 DEF GroupingInv
  <1>15. GroupingInv'
    BY <1>12, <1>13, <1>14 DEF GroupingInv
  <1> QED BY <1>6, <1>15

\* AddFrame and EndGrouping keep the invariant: nothing is built yet.
LEMMA GroupingStep ==
    ASSUME Inv, AddFrame \/ EndGrouping
    PROVE  Inv'
  <1> USE DEF Inv
  <1>1. Typing' /\ GroupingInv'
    <2>1. CASE AddFrame
      <3>1. CASE Matching(frames[pos]) = {}
        BY <2>1, <3>1, OpenGroup DEF AddFrame, AddToGroupList
      <3>2. CASE Matching(frames[pos]) # {}
        <4>1. PICK g \in Matching(frames[pos]) : TRUE
          BY <3>2
        <4>2. Matching(frames[pos]) = {g}
          BY <4>1, OneGroupForAKey DEF Matching
        <4>3. Max({g}) = g
          <5>1. g \in Nat
            BY <4>1 DEF Typing, Matching
          <5> QED BY <5>1 DEF Max
        <4>4. group_list' =
                  [group_list EXCEPT ![g] = Append(group_list[g], pos)]
          BY <2>1, <3>2, <4>2, <4>3 DEF AddFrame, AddToGroupList
        <4> QED BY <2>1, <4>1, <4>4, ExtendGroup DEF AddFrame
      <3> QED BY <3>1, <3>2
    <2>2. CASE EndGrouping
      <3>1. pos = Len(frames) + 1
        BY <2>2, ChainLength, MaxFramesAssumption DEF EndGrouping, Typing
      <3>2. Typing'
        BY <2>2, <3>1 DEF EndGrouping, Typing
      <3>3. GroupingInv'
        BY <2>2 DEF EndGrouping, GroupingInv
      <3> QED BY <3>2, <3>3
    <2> QED BY <2>1, <2>2
  <1>2. cur = 1 /\ cur' = 1 /\ pc' \in {"group", "build"}
    BY DEF AddFrame, EndGrouping, BuildingInv
  <1>3. /\ new_packets' = new_packets /\ DOMAIN new_packets = {}
        /\ last_packet' = <<>>
    BY <1>2 DEF AddFrame, EndGrouping, BuildingInv
  <1>4. Len(group_list') \in Nat
    BY <1>1 DEF Typing
  <1>5. BuildingInv'
    BY <1>2, <1>3, <1>4 DEF BuildingInv
  <1> QED BY <1>1, <1>5

-----------------------------------------------------------------------------
(* Building.                                                               *)

\* The packet of a good group is the group itself.
LEMMA GroupedIsGroup ==
    \A k \in DOMAIN group_list :
        GroupedFrames(group_list[k]) =
            IF Good(k) THEN group_list[k] ELSE <<>>
  BY DEF Good, GroupedFrames

\* The walk through the group list leaves the groups alone.
LEMMA BuildingKeepsGroups ==
    ASSUME Typing, GroupingInv, pc = "build", pc' \in {"build", "done", "crashed"},
           UNCHANGED <<frames, pos, group_list>>
    PROVE  /\ Typing' /\ GroupingInv'
           /\ \A k \in DOMAIN group_list : Good(k)' <=> Good(k)
  <1>1. Typing'
    BY DEF Typing
  <1>2. GroupingInv'
    BY DEF GroupingInv
  <1>3. \A k \in DOMAIN group_list : Good(k)' <=> Good(k)
    BY DEF Good, GroupedFrames
  <1> QED BY <1>1, <1>2, <1>3

\* The first packet, or none, starts the chain.
LEMMA BuildFirstStep ==
    ASSUME Inv, BuildFirst
    PROVE  Inv'
  <1> USE DEF Inv
  <1>1. /\ Typing' /\ GroupingInv'
        /\ \A k \in DOMAIN group_list : Good(k)' <=> Good(k)
    BY BuildingKeepsGroups DEF BuildFirst, ToBuild
  <1>2. /\ cur \in 1..Len(group_list) /\ cur \in DOMAIN group_list
        /\ Len(group_list) \in Nat
        /\ group_list' = group_list /\ cur' = cur + 1 /\ pc' = "build"
        /\ DOMAIN group_list = 1..Len(group_list)
        /\ 1..(cur' - 1) = 1..(cur - 1) \cup {cur}
        /\ 1..(cur' - 1) \subseteq DOMAIN group_list
    BY DEF BuildFirst, ToBuild, Typing
  <1>3. \A k \in 1..(cur - 1) : ~Good(k)
    BY DEF BuildingInv, BuildFirst
  <1>4. \A k \in 1..(cur' - 1) : Good(k)' <=> (k = cur /\ Good(cur))
    BY <1>1, <1>2, <1>3
  <1>5. /\ new_packets' = IF Good(cur) THEN <<group_list[cur]>> ELSE <<>>
        /\ last_packet' = GroupedFrames(group_list[cur])
    BY <1>2, GroupedIsGroup DEF BuildFirst, Good
  <1>6. last_packet' = GroupedFrames(group_list[cur - 1])'
    BY <1>2, <1>5 DEF BuildFirst, GroupedFrames
  <1>7. group_list[cur] \in Seq(Position)
    BY <1>2 DEF Typing
  <1>8. BuildingInv'
    <2>1. CASE Good(cur)
      <3>1. /\ new_packets' = <<group_list[cur]>>
            /\ new_packets' \in Seq(Seq(Position))
            /\ DOMAIN new_packets' = {1} /\ new_packets'[1] = group_list[cur]
        BY <1>5, <1>7, <2>1
      <3>2. \A m \in DOMAIN new_packets' : \E k \in 1..(cur' - 1) :
                Good(k)' /\ new_packets'[m] = group_list'[k]
        BY <1>2, <1>4, <2>1, <3>1
      <3>3. \A k \in 1..(cur' - 1) :
                Good(k)' => \E m \in DOMAIN new_packets' :
                                new_packets'[m] = group_list'[k]
        BY <1>2, <1>4, <3>1
      <3>4. \A a, b \in 1..(cur' - 1) :
                a < b /\ Good(a)' /\ ~Good(b)' => b = cur' - 1
        BY <1>2, <1>4
      <3>5. /\ cur' \in 1..(Len(group_list') + 1) /\ cur' # 1
            /\ pc' # "group" /\ pc' # "done" /\ pc' # "crashed"
        BY <1>2
      <3>6. \A m, n \in DOMAIN new_packets' : ~(m < n)
        BY <3>1
      <3> HIDE DEF Inv
      <3> QED BY <1>6, <3>1, <3>2, <3>3, <3>4, <3>5, <3>6 DEF BuildingInv
    <2>2. CASE ~Good(cur)
      <3>1. new_packets' = <<>> /\ DOMAIN new_packets' = {}
            /\ new_packets' \in Seq(Seq(Position))
        BY <1>5, <2>2
      <3>2. \A k \in 1..(cur' - 1) : ~Good(k)'
        BY <1>4, <2>2
      <3>3. /\ cur' \in 1..(Len(group_list') + 1) /\ cur' # 1
            /\ pc' # "group" /\ pc' # "done" /\ pc' # "crashed"
        BY <1>2
      <3>4. \A a, b \in 1..(cur' - 1) : ~Good(a)'
        BY <3>2
      <3> HIDE DEF Inv
      <3> QED BY <1>6, <3>1, <3>2, <3>3, <3>4 DEF BuildingInv
    <2> QED BY <2>1, <2>2
  <1> QED BY <1>1, <1>8

\* A packet, or none, is chained to a good one.
LEMMA ChainPacketStep ==
    ASSUME Inv, ChainPacket
    PROVE  Inv'
  <1> USE DEF Inv
  <1>1. /\ Typing' /\ GroupingInv'
        /\ \A k \in DOMAIN group_list : Good(k)' <=> Good(k)
    BY BuildingKeepsGroups DEF ChainPacket, ToBuild
  <1>2. /\ cur \in 1..Len(group_list) /\ cur \in DOMAIN group_list
        /\ Len(group_list) \in Nat
        /\ group_list' = group_list /\ cur' = cur + 1 /\ pc' = "build"
        /\ DOMAIN group_list = 1..Len(group_list)
        /\ 1..(cur' - 1) = 1..(cur - 1) \cup {cur}
        /\ 1..(cur' - 1) \subseteq DOMAIN group_list
    BY DEF ChainPacket, ToBuild, Typing
  <1>3. cur # 1 /\ Good(cur - 1)
    BY <1>2 DEF BuildingInv, ChainPacket, Good
  <1>4. /\ new_packets' = IF Good(cur) THEN Append(new_packets, group_list[cur])
                          ELSE new_packets
        /\ last_packet' = GroupedFrames(group_list[cur])
    BY <1>2, GroupedIsGroup DEF ChainPacket, Good
  <1>5. last_packet' = GroupedFrames(group_list[cur - 1])'
    <2>1. cur' - 1 = cur /\ frames' = frames
      BY <1>2 DEF ChainPacket
    <2> QED BY <1>2, <1>4, <2>1, Zenon DEF GroupedFrames
  <1>6. group_list[cur] \in Seq(Position)
    BY <1>2 DEF Typing
  <1>7. ASSUME NEW a \in 1..(cur' - 1), NEW b \in 1..(cur' - 1),
               a < b, Good(a)', ~Good(b)'
        PROVE  b = cur' - 1
    <2>1. a \in 1..(cur - 1) /\ Good(a) /\ ~Good(b)
      BY <1>1, <1>2, <1>7
    <2>2. b # cur - 1
      BY <1>3, <2>1
    <2>3. b \notin 1..(cur - 1)
      BY <1>7, <2>1, <2>2 DEF BuildingInv
    <2> QED BY <1>2, <2>3
  <1> DEFINE last == Len(new_packets) + 1
  <1>8. /\ new_packets' \in Seq(Seq(Position))
        /\ DOMAIN new_packets' = IF Good(cur) THEN 1..last ELSE DOMAIN new_packets
        /\ DOMAIN new_packets = 1..Len(new_packets)
        /\ Len(new_packets) \in Nat
        /\ DOMAIN new_packets \subseteq DOMAIN new_packets'
        /\ \A m \in DOMAIN new_packets : new_packets'[m] = new_packets[m]
        /\ Good(cur) => new_packets'[last] = group_list[cur]
    <2>1. new_packets \in Seq(Seq(Position))
      BY DEF BuildingInv
    <2>2. CASE Good(cur)
      <3>1. new_packets' = Append(new_packets, group_list[cur])
        BY <1>4, <2>2
      <3> QED BY <1>6, <2>1, <2>2, <3>1, AppendProperties
    <2>3. CASE ~Good(cur)
      BY <1>4, <2>1, <2>3
    <2> QED BY <2>2, <2>3
  <1>9. ASSUME NEW m \in DOMAIN new_packets'
        PROVE  \E k \in 1..(cur' - 1) :
                   Good(k)' /\ new_packets'[m] = group_list'[k]
    <2>1. CASE m \in DOMAIN new_packets
      <3>1. PICK k \in 1..(cur - 1) : Good(k) /\ new_packets[m] = group_list[k]
        BY <2>1 DEF BuildingInv
      <3> QED BY <1>1, <1>2, <1>8, <2>1, <3>1
    <2>2. CASE m \notin DOMAIN new_packets
      <3>1. m = last /\ Good(cur)
        BY <1>8, <1>9, <2>2
      <3> QED BY <1>1, <1>2, <1>8, <3>1
    <2> QED BY <2>1, <2>2
  <1>10. ASSUME NEW k \in 1..(cur' - 1), Good(k)'
         PROVE  \E m \in DOMAIN new_packets' : new_packets'[m] = group_list'[k]
    <2>1. CASE k = cur
      <3>1. Good(cur)
        BY <1>1, <1>2, <1>10, <2>1
      <3>2. last \in DOMAIN new_packets' /\ new_packets'[last] = group_list[cur]
        BY <1>8, <3>1
      <3> QED BY <1>2, <2>1, <3>2
    <2>2. CASE k \in 1..(cur - 1)
      <3>1. PICK m \in DOMAIN new_packets : new_packets[m] = group_list[k]
        BY <1>1, <1>2, <1>10, <2>2 DEF BuildingInv
      <3> QED BY <1>2, <1>8, <3>1
    <2> QED BY <1>2, <2>1, <2>2
  <1>11. ASSUME NEW m \in DOMAIN new_packets', NEW n \in DOMAIN new_packets',
                m < n
         PROVE  new_packets'[m][1] < new_packets'[n][1]
    <2>1. m \in DOMAIN new_packets
      BY <1>8, <1>11
    <2>2. CASE n \in DOMAIN new_packets
      BY <1>8, <1>11, <2>1, <2>2 DEF BuildingInv
    <2>3. CASE n \notin DOMAIN new_packets
      <3>1. n = last /\ Good(cur)
        BY <1>8, <1>11, <2>3
      <3>2. PICK k \in 1..(cur - 1) : new_packets[m] = group_list[k]
        BY <2>1 DEF BuildingInv
      <3>3. group_list[k][1] < group_list[cur][1]
        BY <1>2, <3>2 DEF GroupingInv
      <3> QED BY <1>8, <2>1, <3>1, <3>2, <3>3
    <2> QED BY <2>2, <2>3
  <1>12. BuildingInv'
    <2> HIDE DEF last
    <2>1. cur' \in 1..(Len(group_list') + 1) /\ cur' # 1
      BY <1>2
    <2> QED BY <1>2, <1>5, <1>7, <1>8, <1>9, <1>10, <1>11, <2>1 DEF BuildingInv
  <1> QED BY <1>1, <1>12

\* Following a NULL last packet takes a good group and a bad one after it.
LEMMA ChainToNullStep ==
    ASSUME Inv, ChainToNull
    PROVE  Inv'
  <1> USE DEF Inv
  <1>1. /\ Typing' /\ GroupingInv'
        /\ \A k \in DOMAIN group_list : Good(k)' <=> Good(k)
    BY BuildingKeepsGroups DEF ChainToNull, ToBuild
  <1>2. /\ cur \in 1..Len(group_list) /\ Len(group_list) \in Nat
        /\ DOMAIN group_list = 1..Len(group_list)
        /\ 1..(cur - 1) \subseteq DOMAIN group_list
    BY DEF ChainToNull, ToBuild, Typing
  <1>3. new_packets \in Seq(Seq(Position)) /\ new_packets # <<>>
    BY DEF BuildingInv, ChainToNull
  <1>4. 1 \in DOMAIN new_packets
    BY <1>3, EmptySeq, LenProperties
  <1>5. PICK a \in 1..(cur - 1) : Good(a)
    BY <1>4 DEF BuildingInv
  <1>6. cur - 1 \in 1..(cur - 1) /\ cur # 1
    BY <1>2, <1>5
  <1>7. ~Good(cur - 1)
    BY <1>6 DEF BuildingInv, ChainToNull, Good
  <1>8. a < cur - 1
    BY <1>2, <1>5, <1>7
  <1>9. cur' = cur /\ new_packets' = new_packets /\ last_packet' = last_packet
        /\ group_list' = group_list /\ pc' = "crashed"
    BY DEF ChainToNull
  <1>10. last_packet' = IF cur' = 1 THEN <<>>
                        ELSE GroupedFrames(group_list[cur - 1])'
    BY <1>6, <1>9 DEF BuildingInv, ChainToNull, GroupedFrames
  <1>11. \E b, c \in 1..(cur' - 1) : b < c /\ Good(b)' /\ ~Good(c)'
    BY <1>1, <1>2, <1>5, <1>6, <1>7, <1>8, <1>9
  <1>12. \A k \in 1..(cur' - 1) : Good(k)' <=> Good(k)
    BY <1>1, <1>2, <1>9
  <1>13. cur' <= Len(group_list') /\ cur' \in 1..(Len(group_list') + 1)
    BY <1>2, <1>9
  <1>14. BuildingInv'
    BY <1>9, <1>10, <1>11, <1>12, <1>13 DEF BuildingInv
  <1> QED BY <1>1, <1>14

\* The walk ends past the last group.
LEMMA ReturnStep ==
    ASSUME Inv, Return
    PROVE  Inv'
  <1> USE DEF Inv
  <1>1. /\ Typing' /\ GroupingInv'
        /\ \A k \in DOMAIN group_list : Good(k)' <=> Good(k)
    BY BuildingKeepsGroups DEF Return
  <1>2. /\ cur = Len(group_list) + 1 /\ Len(group_list) \in Nat
        /\ DOMAIN group_list = 1..Len(group_list)
        /\ 1..(cur - 1) \subseteq DOMAIN group_list
    BY DEF Return, Typing, BuildingInv
  <1>3. cur' = cur /\ new_packets' = new_packets /\ last_packet' = last_packet
        /\ group_list' = group_list /\ pc' = "done" /\ frames' = frames
    BY DEF Return
  <1>4. last_packet' = IF cur' = 1 THEN <<>>
                       ELSE GroupedFrames(group_list[cur - 1])'
    BY <1>3 DEF BuildingInv, GroupedFrames
  <1>5. \A k \in 1..(cur - 1) : Good(k)' <=> Good(k)
    BY <1>1, <1>2, Zenon
  <1>6. /\ new_packets \in Seq(Seq(Position))
        /\ \A m \in DOMAIN new_packets : \E k \in 1..(cur - 1) :
               Good(k) /\ new_packets[m] = group_list[k]
        /\ \A k \in 1..(cur - 1) :
               Good(k) => \E m \in DOMAIN new_packets : new_packets[m] = group_list[k]
        /\ \A m, n \in DOMAIN new_packets :
               m < n => new_packets[m][1] < new_packets[n][1]
        /\ \A a, b \in 1..(cur - 1) : a < b /\ Good(a) /\ ~Good(b) => b = cur - 1
    BY DEF BuildingInv
  <1> HIDE DEF Inv
  <1>7. /\ \A m \in DOMAIN new_packets : \E k \in 1..(cur - 1) :
               Good(k)' /\ new_packets[m] = group_list[k]
        /\ \A k \in 1..(cur - 1) :
               Good(k)' => \E m \in DOMAIN new_packets : new_packets[m] = group_list[k]
        /\ \A a, b \in 1..(cur - 1) : a < b /\ Good(a)' /\ ~Good(b)' => b = cur - 1
    BY <1>5, <1>6, Zenon
  <1>8. /\ cur \in 1..(Len(group_list) + 1) /\ cur = Len(group_list) + 1
        /\ pc' # "group" /\ pc' # "crashed"
    BY <1>2, <1>3
  <1>9. BuildingInv'
    BY <1>2, <1>3, <1>4, <1>6, <1>7, <1>8, Zenon DEF BuildingInv
  <1> QED BY <1>1, <1>9 DEF Inv

\* The invariant holds throughout the call.
THEOREM Invariance == Spec => []Inv
  <1>1. Inv /\ [Next]_vars => Inv'
    <2> SUFFICES ASSUME Inv, [Next]_vars PROVE Inv'
      OBVIOUS
    <2>1. CASE AddFrame \/ EndGrouping
      BY <2>1, GroupingStep
    <2>2. CASE BuildFirst
      BY <2>2, BuildFirstStep
    <2>3. CASE ChainPacket
      BY <2>3, ChainPacketStep
    <2>4. CASE ChainToNull
      BY <2>4, ChainToNullStep
    <2>5. CASE Return
      BY <2>5, ReturnStep
    <2>6. CASE UNCHANGED vars
      <3>1. /\ UNCHANGED <<frames, pos, group_list, cur>>
            /\ UNCHANGED <<new_packets, last_packet, pc>>
        BY <2>6 DEF vars
      <3>2. Typing' /\ GroupingInv'
        BY <3>1 DEF Inv, Typing, GroupingInv
      <3>3. BuildingInv'
        <4>1. \A k : Good(k)' <=> Good(k)
          BY <3>1 DEF Good, GroupedFrames
        <4>2. last_packet' = IF cur' = 1 THEN <<>> ELSE GroupedFrames(group_list[cur - 1])'
          BY <3>1 DEF Inv, BuildingInv, GroupedFrames
        <4> QED BY <3>1, <4>1, <4>2 DEF Inv, BuildingInv
      <3> QED BY <3>2, <3>3 DEF Inv
    <2> QED BY <2>1, <2>2, <2>3, <2>4, <2>5, <2>6 DEF Next, Stopped
  <1> QED BY <1>1, InitInv, PTL DEF Spec

-----------------------------------------------------------------------------
(* Theorems.                                                               *)

\* The variables of hpav_defrag_frames keep their types, whatever the chain.
THEOREM TypeCorrect == Spec => []TypeOK
  <1>1. Inv => TypeOK
    <2> SUFFICES ASSUME Inv PROVE TypeOK
      OBVIOUS
    <2> USE DEF Inv
    <2>1. Len(frames) \in 0..MaxFrames /\ DOMAIN frames = 1..Len(frames)
      BY ChainLength DEF Typing
    <2>2. Len(group_list) \in Nat
      BY DEF Typing
    <2>3. pos \in 1..(MaxFrames + 1)
      BY <2>1, MaxFramesAssumption DEF Typing
    <2>4. cur \in 1..(MaxFrames + 1)
      BY <2>1, <2>2, MaxFramesAssumption DEF Typing, BuildingInv
    <2>5. last_packet \in Seq(Position)
      <3>1. CASE cur = 1
        BY <3>1 DEF BuildingInv
      <3>2. CASE cur # 1
        <4>1. cur - 1 \in DOMAIN group_list
          BY <2>2, <3>2 DEF BuildingInv, Typing
        <4>2. group_list[cur - 1] \in Seq(Position)
          BY <4>1 DEF Typing
        <4>3. last_packet = GroupedFrames(group_list[cur - 1])
          BY <3>2 DEF BuildingInv
        <4>4. last_packet \in {group_list[cur - 1], <<>>}
          BY <4>1, <4>3, GroupedIsGroup
        <4>5. <<>> \in Seq(Position)
          BY EmptySeq
        <4> QED BY <4>2, <4>4, <4>5
      <3> QED BY <3>1, <3>2
    <2> QED BY <2>3, <2>4, <2>5 DEF TypeOK, Typing, BuildingInv
  <1> QED BY <1>1, Invariance, PTL

\* hpav_defrag_add_to_group_list keeps each message in one group, in order, for
\* chains of every length.
THEOREM GroupsAreKept == Spec => []GroupsKeepMessagesAndOrder
  <1>1. Inv => GroupsKeepMessagesAndOrder
    <2> SUFFICES ASSUME Inv PROVE GroupsKeepMessagesAndOrder
      OBVIOUS
    <2> USE DEF Inv
    <2>1. ASSUME NEW i \in 1..(pos - 1)
          PROVE  \E k \in DOMAIN group_list :
                     {group_list[k][n] : n \in DOMAIN group_list[k]} =
                     {j \in 1..(pos - 1) : SameMessage(frames[i], frames[j])}
      <3>1. PICK k \in DOMAIN group_list :
                Key(frames[i]) = Key(frames[group_list[k][1]])
        BY DEF GroupingInv
      <3>2. \A j \in 1..(pos - 1) :
                SameMessage(frames[i], frames[j])
                <=> Key(frames[j]) = Key(frames[i])
        BY DEF SameMessage, Key
      <3>3. Members(group_list[k]) =
            {j \in 1..(pos - 1) : SameMessage(frames[i], frames[j])}
        BY <3>1, <3>2 DEF GroupingInv
      <3> QED BY <3>3 DEF Members
    <2>2. \A k \in DOMAIN group_list : \A m, n \in DOMAIN group_list[k] :
              m < n => group_list[k][m] < group_list[k][n]
      BY DEF GroupingInv, Increasing
    <2> QED BY <2>1, <2>2 DEF GroupsKeepMessagesAndOrder, GroupingInv
  <1> QED BY <1>1, Invariance, PTL

\* When all frames are grouped, the node k is the group of the declarative
\* definition, and it is good exactly when that group is complete.
LEMMA NodeIsGroup ==
    ASSUME Inv, pos = Len(frames) + 1, NEW k \in DOMAIN group_list
    PROVE  LET head == group_list[k][1] IN
           /\ head \in Heads(frames)
           /\ GroupOf(frames, head) = Members(group_list[k])
           /\ Good(k) <=> Complete(frames, head)
  <1> DEFINE g == group_list[k]
             head == g[1]
             S == Members(g)
  <1>1. /\ g \in Seq(Position) /\ g # <<>> /\ Increasing(g)
        /\ S = {j \in 1..(pos - 1) : Key(frames[j]) = Key(frames[head])}
    BY DEF Inv, Typing, GroupingInv
  <1>2. 1..(pos - 1) = DOMAIN frames
    BY ChainLength DEF Inv, Typing
  <1>3. S = GroupOf(frames, head)
    BY <1>1, <1>2 DEF GroupOf
  <1>4. Len(g) \in Nat \ {0} /\ DOMAIN g = 1..Len(g)
    <2> HIDE DEF g
    <2> QED BY <1>1, EmptySeq, LenProperties
  <1>5. 1 \in DOMAIN g /\ head \in S /\ \A i \in S : head <= i
    <2> HIDE DEF g
    <2> QED BY <1>1, FirstIsLeast
  <1>6. head \in Heads(frames)
    BY <1>1, <1>2, <1>3, <1>5 DEF Heads
  <1>7. /\ Cardinality(S) = Len(g)
        /\ \A n \in 1..Len(g) : Cardinality({i \in S : i < g[n]}) = n - 1
    <2>1. g \in [1..Len(g) -> Nat]
      <3>1. Position \subseteq Nat
        BY MaxFramesAssumption DEF Position
      <3> HIDE DEF g
      <3> QED BY <1>1, <3>1, LenProperties
    <2>2. \A m, n \in 1..Len(g) : m < n => g[m] < g[n]
      BY <1>1, <1>4 DEF Increasing
    <2>3. S = {g[n] : n \in 1..Len(g)}
      BY <1>4 DEF Members
    <2>4. Len(g) \in Nat
      BY <1>4
    <2> HIDE DEF g, S
    <2> QED BY <2>1, <2>2, <2>3, <2>4, IncreasingCount, SMTT(30)
  <1>8. Complete(frames, head) <=>
            /\ \A j \in S : frames[j].fn = Cardinality({i \in S : i < j})
            /\ Cardinality(S) = frames[head].nf + 1
    BY <1>3 DEF Complete
  <1>9. Good(k) <=> /\ \A n \in DOMAIN g : frames[g[n]].fn = n - 1
                    /\ frames[head].nf + 1 = Len(g)
    BY <1>1 DEF Good, GroupedFrames
  <1>10. (\A j \in S : frames[j].fn = Cardinality({i \in S : i < j})) <=>
         (\A n \in DOMAIN g : frames[g[n]].fn = n - 1)
    BY <1>4, <1>7 DEF Members
  <1> QED BY <1>3, <1>6, <1>7, <1>8, <1>9, <1>10

\* When all frames are grouped, every group has its node.
LEMMA HeadHasNode ==
    ASSUME Inv, pos = Len(frames) + 1, NEW i \in Heads(frames)
    PROVE  \E k \in DOMAIN group_list : i = group_list[k][1]
  <1>1. i \in 1..(pos - 1) /\ 1..(pos - 1) = DOMAIN frames
    BY ChainLength DEF Heads, Inv, Typing
  <1>2. PICK k \in DOMAIN group_list :
            Key(frames[i]) = Key(frames[group_list[k][1]])
    BY <1>1 DEF Inv, GroupingInv
  <1> DEFINE g == group_list[k]
  <1>3. /\ g \in Seq(Position) /\ g # <<>> /\ Increasing(g)
        /\ Members(g) =
           {j \in 1..(pos - 1) : Key(frames[j]) = Key(frames[g[1]])}
    BY DEF Inv, Typing, GroupingInv
  <1>4. i \in Members(g)
    BY <1>1, <1>2, <1>3
  <1>5. g[1] \in Members(g) /\ g[1] <= i /\ g[1] \in Position /\ i \in Position
    <2> HIDE DEF g
    <2> QED BY <1>3, <1>4, FirstIsLeast
  <1>6. g[1] \in GroupOf(frames, i)
    BY <1>1, <1>2, <1>3, <1>5 DEF GroupOf
  <1>7. i <= g[1]
    BY <1>6 DEF Heads
  <1> QED BY <1>5, <1>7 DEF Position

\* The call returns the packets of the declarative definition, in order, for
\* chains of every length: the loops of the code compute Packets.
THEOREM PacketsAreReturned == Spec => []ReturnsCompletePackets
  <1>1. Inv => ReturnsCompletePackets
    <2> SUFFICES ASSUME Inv, pc = "done" PROVE ReturnsCompletePackets
      BY DEF ReturnsCompletePackets
    <2>1. /\ pos = Len(frames) + 1 /\ cur = Len(group_list) + 1
          /\ 1..(cur - 1) = DOMAIN group_list
      BY DEF Inv, Typing, BuildingInv
    <2> DEFINE Content(p) == [j \in Members(p) |-> frames[j]]
               Chained == {new_packets[m] : m \in DOMAIN new_packets}
    <2>2. ASSUME NEW p \in Chained PROVE Content(p) \in Packets(frames)
      <3>1. PICK k \in DOMAIN group_list : Good(k) /\ p = group_list[k]
        <4>1. PICK m \in DOMAIN new_packets : p = new_packets[m]
          OBVIOUS
        <4>2. \E k \in 1..(cur - 1) : Good(k) /\ new_packets[m] = group_list[k]
          BY DEF Inv, BuildingInv
        <4> QED BY <2>1, <4>1, <4>2
      <3> DEFINE head == group_list[k][1]
      <3>2. /\ head \in Heads(frames) /\ Complete(frames, head)
            /\ GroupOf(frames, head) = Members(p)
        BY <2>1, <3>1, NodeIsGroup
      <3>3. Content(p) = PacketAt(frames, head)
        BY <3>2 DEF PacketAt
      <3> QED BY <3>2, <3>3 DEF Packets
    <2>3. ASSUME NEW q \in Packets(frames)
          PROVE  \E p \in Chained : q = Content(p)
      <3>1. PICK i \in Heads(frames) :
                Complete(frames, i) /\ q = PacketAt(frames, i)
        BY DEF Packets
      <3>2. PICK k \in DOMAIN group_list : i = group_list[k][1]
        BY <2>1, HeadHasNode
      <3>3. Good(k) /\ GroupOf(frames, i) = Members(group_list[k])
        BY <2>1, <3>1, <3>2, NodeIsGroup
      <3>4. group_list[k] \in Chained
        BY <2>1, <3>3 DEF Inv, BuildingInv
      <3> QED BY <3>1, <3>3, <3>4 DEF PacketAt
    <2>4. {Content(p) : p \in Chained} = Packets(frames)
      BY <2>2, <2>3
    <2>5. \A k, l \in DOMAIN new_packets :
              k < l => new_packets[k][1] < new_packets[l][1]
      BY DEF Inv, BuildingInv
    <2> QED BY <2>4, <2>5 DEF ReturnsCompletePackets, Members
  <1> QED BY <1>1, Invariance, PTL

\* The call dereferences NULL for exactly the chains with a good group, a bad
\* one and any other one after it, whatever their length.
THEOREM CrashesExactly == Spec => []CrashesExactlyAfterGap
  <1>1. ASSUME Inv, pc = "crashed" PROVE DereferencesNull(frames)
    <2>1. /\ pos = Len(frames) + 1 /\ cur <= Len(group_list)
          /\ cur \in 1..(Len(group_list) + 1)
          /\ DOMAIN group_list = 1..Len(group_list)
          /\ Len(group_list) \in Nat
      BY <1>1 DEF Inv, Typing, BuildingInv
    <2>2. PICK a, b \in 1..(cur - 1) : a < b /\ Good(a) /\ ~Good(b)
      BY <1>1 DEF Inv, BuildingInv
    <2>3. /\ a \in DOMAIN group_list /\ b \in DOMAIN group_list
          /\ cur \in DOMAIN group_list /\ b < cur
      BY <2>1, <2>2
    <2> DEFINE First(k) == group_list[k][1]
    <2>4. /\ First(a) \in Heads(frames) /\ Complete(frames, First(a))
          /\ First(b) \in Heads(frames) /\ ~Complete(frames, First(b))
          /\ First(cur) \in Heads(frames)
      BY <1>1, <2>1, <2>2, <2>3, NodeIsGroup
    <2>5. First(a) < First(b) /\ First(b) < First(cur)
      BY <1>1, <2>2, <2>3 DEF Inv, GroupingInv
    <2> QED BY <2>4, <2>5 DEF DereferencesNull
  <1>2. ASSUME Inv, pc = "done" PROVE ~DereferencesNull(frames)
    <2> SUFFICES ASSUME DereferencesNull(frames) PROVE FALSE
      OBVIOUS
    <2>1. /\ pos = Len(frames) + 1 /\ cur = Len(group_list) + 1
          /\ DOMAIN group_list = 1..Len(group_list)
          /\ Len(group_list) \in Nat
      BY <1>2 DEF Inv, Typing, BuildingInv
    <2>2. PICK good, bad, next \in Heads(frames) :
                /\ good < bad /\ bad < next
                /\ Complete(frames, good) /\ ~Complete(frames, bad)
      BY DEF DereferencesNull
    <2>3. PICK a \in DOMAIN group_list : good = group_list[a][1]
      BY <1>2, <2>1, HeadHasNode
    <2>4. PICK b \in DOMAIN group_list : bad = group_list[b][1]
      BY <1>2, <2>1, HeadHasNode
    <2>5. PICK c \in DOMAIN group_list : next = group_list[c][1]
      BY <1>2, <2>1, HeadHasNode
    <2>6. Good(a) /\ ~Good(b)
      BY <1>2, <2>1, <2>2, <2>3, <2>4, NodeIsGroup
    <2>7. ASSUME NEW k \in DOMAIN group_list, NEW l \in DOMAIN group_list,
                 group_list[k][1] < group_list[l][1]
          PROVE  k < l
      <3>1. group_list[k][1] \in Nat /\ group_list[l][1] \in Nat
        <4>1. \A i \in Heads(frames) : i \in Nat
          <5>1. frames \in Chains
            BY <1>2 DEF Inv, Typing
          <5>2. DOMAIN frames = 1..Len(frames) /\ Len(frames) \in 0..MaxFrames
            BY <5>1, ChainLength
          <5>3. Heads(frames) \subseteq 1..Len(frames)
            BY <5>2, Zenon DEF Heads
          <5> QED BY <5>2, <5>3
        <4> QED BY <1>2, <2>1, <4>1, NodeIsGroup
      <3>2. ~(l < k) /\ l # k
        BY <1>2, <2>7, <3>1 DEF Inv, GroupingInv
      <3> QED BY <2>1, <3>2
    <2>8. a < b /\ b < c
      <3>1. group_list[a][1] < group_list[b][1]
        BY <2>2, <2>3, <2>4
      <3>2. group_list[b][1] < group_list[c][1]
        BY <2>2, <2>4, <2>5
      <3> QED BY <2>7, <3>1, <3>2
    <2>9. b = cur - 1
      <3>1. a \in 1..(cur - 1) /\ b \in 1..(cur - 1)
        BY <2>1
      <3>2. \A m, n \in 1..(cur - 1) :
                m < n /\ Good(m) /\ ~Good(n) => n = cur - 1
        BY <1>2 DEF Inv, BuildingInv
      <3> QED BY <2>6, <2>8, <3>1, <3>2
    <2> QED BY <2>1, <2>8, <2>9
  <1>3. Inv => CrashesExactlyAfterGap
    BY <1>1, <1>2 DEF CrashesExactlyAfterGap
  <1> QED BY <1>3, Invariance, PTL
=============================================================================
