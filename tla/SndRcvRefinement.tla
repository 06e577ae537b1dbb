-------------------------- MODULE SndRcvRefinement --------------------------
(***************************************************************************)
(* The calls of SndRcv implement Exchange: fragments, queues, the rules of *)
(* the loops and the reassembly are invisible to a program that asks and   *)
(* is told the answers.                                                    *)
(***************************************************************************)
EXTENDS SndRcv

\* A call is being made.
InCall == pc \in {"setup", "send", "dispatch", "clock", "assemble"}

\* The frames of a queue.
Elements(q) == {q[i] : i \in DOMAIN q}

\* The frames in the capture queue and on the network.
Queued == Elements(rxq) \cup UNION {Elements(net[s]) : s \in Sta}

\* The frames that a call can still return.
OnTheWay == (IF InCall THEN Elements(rx) ELSE {}) \cup Queued

\* The answers that have all their fragments among the frames F.
Whole(F) == {f.of : f \in {g \in F :
                 {e.fn : e \in {d \in F : d.of = g.of}} = 0..g.nf}}

\* What a call can still return.
Waiting == Whole(OnTheWay)

\* The answers that the packets returned are made of.
Delivered == UNION {{p[j].of : j \in DOMAIN p} : p \in response}

CallState == IF InCall THEN "busy" ELSE IF pc = "idle" THEN "free" ELSE "over"

Ex == INSTANCE Exchange WITH
          Stations <- Sta,
          Self <- Host,
          Kinds <- {c.type : c \in Calls},
          Earlier <- Unasked,
          state <- CallState,
          kind <- call.type,
          number <- calls,
          owed <- pending,
          given <- answered,
          waiting <- Waiting,
          result <- Delivered

\* Seen by the program, the calls on a channel are an Exchange: no answer is
\* returned in part, twice, to another host's traffic or by a call of another
\* type, and none that no station has given.
ImplementsExchange == Ex!Spec
=============================================================================
