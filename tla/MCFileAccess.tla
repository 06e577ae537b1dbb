---------------------------- MODULE MCFileAccess ----------------------------
(* FileAccess with two stations and the commands of the runs.              *)
EXTENDS FileRefinement

CONSTANTS s1, s2

TwoStations == {s1, s2}

Command(op, mac, fragments, late, unwritable) ==
    [op |-> op, mac_list |-> <<mac>>, fragments |-> fragments,
     late |-> late, unwritable |-> unwritable]

\* One destination, a station or broadcast, with answers that may be late, and
\* saves whose answers are not.
OneDestination ==
    {Command("write", s1, 3, TRUE, FALSE), Command("write", Broadcast, 2, TRUE, FALSE),
     Command("save", s1, 2, TRUE, TRUE), Command("read", s1, 2, TRUE, FALSE),
     Command("other", s1, 1, TRUE, FALSE)}
    \cup {Command("save", s1, n, FALSE, FALSE) : n \in {1, 3}}

SaveLate == {Command("save", s1, n, TRUE, FALSE) : n \in {1, 3}}
=============================================================================
