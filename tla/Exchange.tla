------------------------------ MODULE Exchange ------------------------------
(***************************************************************************)
(* What the calls on a channel promise about answers, whatever happens to  *)
(* frames: a call returns whole answers, to this host and of the type it   *)
(* asked for, that a station has given and no call has returned before.    *)
(* An answer need not be to the request of the call that returns it: one   *)
(* that comes late is returned by the next call of its type.               *)
(*                                                                         *)
(* An answer is named by its request.                                      *)
(***************************************************************************)
EXTENDS Naturals

CONSTANTS
    Stations,
    Self,      \* the host of the channel
    Kinds,     \* the types calls ask for
    Earlier    \* what stations will answer without a call asking for it

VARIABLES
    state,     \* "free", "busy" with a call, or "over"
    kind,      \* the type of the current, or last, call
    number,    \* the number of calls made
    owed,      \* requests not answered (yet)
    given,     \* requests answered
    waiting,   \* answers that a call can still return
    result     \* the answers the last call returned

vars == <<state, kind, number, owed, given, waiting, result>>

Init ==
    /\ state = "free"
    /\ number = 0
    /\ owed = Earlier
    /\ given = {}
    /\ waiting = {}
    /\ result = {}

Begin ==
    /\ state = "free"
    /\ state' = "busy"
    /\ kind' \in Kinds
    /\ number' = number + 1
    /\ result' = {}
    /\ UNCHANGED <<owed, given, waiting>>

\* Some stations are asked what nobody has been asked; a call that does not
\* wait for answers returns.
Ask ==
    /\ state = "busy"
    /\ state' \in {"busy", "free"}
    /\ \E to \in SUBSET Stations :
           LET asked == [sta : to, host : {Self}, type : {kind},
                         call : {number}] IN
           /\ asked \cap (owed \cup given) = {}
           /\ owed' = owed \cup asked
    /\ UNCHANGED <<kind, number, given, waiting, result>>

\* A station answers a request, once.
Answer ==
    /\ state # "over"
    /\ \E r \in owed :
           /\ owed' = owed \ {r}
           /\ given' = given \cup {r}
           /\ waiting' = waiting \cup {r}
    /\ UNCHANGED <<state, kind, number, result>>

\* A part of an answer is lost, or not taken.
Lose ==
    /\ state # "over"
    /\ waiting' \subseteq waiting
    /\ UNCHANGED <<state, kind, number, owed, given, result>>

\* The call returns answers; what it returns is not returned again.
Return ==
    /\ state = "busy"
    /\ state' = "free"
    /\ result' \subseteq {r \in waiting : r.host = Self /\ r.type = kind}
    /\ waiting' \subseteq waiting \ result'
    /\ UNCHANGED <<kind, number, owed, given>>

End ==
    /\ state # "over"
    /\ state' = "over"
    /\ waiting' \subseteq waiting
    /\ UNCHANGED <<kind, number, owed, given, result>>

Next == Begin \/ Ask \/ Answer \/ Lose \/ Return \/ End

Spec == Init /\ [][Next]_vars
=============================================================================
