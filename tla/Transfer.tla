------------------------------ MODULE Transfer ------------------------------
(***************************************************************************)
(* What a file transfer with one destination promises, whatever happens on *)
(* the network: the stations carry out the fragments of the file one after *)
(* the other, leaving none out, and the command decides once.  It says     *)
(* "ok" only when a station it was meant for has carried out all of them.  *)
(* A station may carry out a request after the command has given up.       *)
(***************************************************************************)
EXTENDS Integers

CONSTANT Stations

VARIABLES
    job,      \* [to, fragments]: the stations addressed, the file's fragments
    carried,  \* carried[s]: the fragments station s has carried out
    outcome   \* "running", "ok" or "failed"

vars == <<job, carried, outcome>>

Init ==
    /\ job \in [to : SUBSET Stations, fragments : Nat \ {0}]
    /\ carried = [s \in Stations |-> {}]
    /\ outcome = "running"

\* Station s carries out the fragment after those it has.
CarryOut(s) ==
    /\ \E n \in 0..(job.fragments - 1) :
           /\ carried[s] = 0..(n - 1)
           /\ carried' = [carried EXCEPT ![s] = 0..n]
    /\ s \in job.to
    /\ UNCHANGED <<job, outcome>>

Succeed ==
    /\ outcome = "running"
    /\ \E s \in job.to : carried[s] = 0..(job.fragments - 1)
    /\ outcome' = "ok"
    /\ UNCHANGED <<job, carried>>

Fail ==
    /\ outcome = "running"
    /\ outcome' = "failed"
    /\ UNCHANGED <<job, carried>>

Next == (\E s \in Stations : CarryOut(s)) \/ Succeed \/ Fail

\* A transfer is decided, however silent the stations are.
Spec == Init /\ [][Next]_vars /\ WF_vars(Succeed \/ Fail)
=============================================================================
