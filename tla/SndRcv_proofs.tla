---------------------------- MODULE SndRcv_proofs ----------------------------
(***************************************************************************)
(* Proofs about the send/receive functions, for every set of stations and  *)
(* calls, every number of calls on a channel, answers of any number of     *)
(* fragments, and every loss and delay on the network.                     *)
(*                                                                         *)
(* First types, memory and broadcasts; then the answers a call returns,    *)
(* with an invariant of four parts:                                        *)
(*   RequestInv  no request is asked or answered twice;                    *)
(*   FramesInv   every frame on its way, queued or received is a fragment  *)
(*               of one answer, and the fragments of it agree;             *)
(*   OrderInv    the fragments of an answer stay in their order;           *)
(*   EndInv      what rx and the response hold, and when the loop is left; *)
(* last, that the calls implement Exchange.                                *)
(*                                                                         *)
(* The functions tell messages apart by the sender and an 8-bit number.    *)
(* The theorems about the reassembled answers are about the states where   *)
(* that is enough, NumbersDiffer; NumbersStayApart says when it always is. *)
(***************************************************************************)
EXTENDS SndRcvRefinement, Positions_proofs, SequenceTheorems, TLAPS

-----------------------------------------------------------------------------
(* Types.                                                                  *)

TypeInv == TypeOK /\ (InCall => call \in Calls)

\* The frames of an answer are frames.
LEMMA AnswerFramesType ==
    ASSUME NEW r \in Request, NEW nf \in Sizes,
           fmsn \in [Sta -> 0..(FmsnMod - 1)]
    PROVE  AnswerFrames(r, nf) \in Seq(Frame)
  <1>1. nf + 1 \in Nat
    BY SndRcvAssumption
  <1>2. \A n \in 1..(nf + 1) :
            [dst |-> r.host, src |-> r.sta, mmv |-> 1, mmtype |-> r.type,
             fmsn |-> fmsn[r.sta], nf |-> nf, fn |-> n - 1, of |-> r] \in Frame
    BY <1>1 DEF Frame, Request
  <1> QED BY <1>1, <1>2 DEF AnswerFrames

\* The head and the rest of what is queued or on its way.
LEMMA QueueType ==
    ASSUME NEW q \in Seq(Frame), q # <<>>
    PROVE  Head(q) \in Frame /\ Tail(q) \in Seq(Frame)
  BY HeadTailProperties

LEMMA CallFacts ==
    ASSUME TypeInv
    PROVE  call.timeout \in Nat /\ call.num \in Nat
  <1>1. call \in Calls \/ call = NoCall
    BY DEF TypeInv, TypeOK
  <1>2. CASE call \in Calls
    BY <1>2, SndRcvAssumption
  <1>3. CASE call = NoCall
    BY <1>3 DEF NoCall
  <1> QED BY <1>1, <1>2, <1>3

LEMMA TypeStep ==
    ASSUME TypeInv, [Next]_vars
    PROVE  TypeInv'
  <1> USE DEF InCall
  <1>0. /\ call.timeout \in Nat /\ call.num \in Nat
        /\ elapsed \in 0..(call.timeout + 1)
    BY CallFacts DEF TypeInv, TypeOK
  <1>1. CASE Call
    <2>1. PICK c \in Calls : /\ call' = c
                             /\ owned' = IF c.sends THEN {"tx_frames"} ELSE {}
      BY <1>1 DEF Call
    <2>2. elapsed' \in 0..(call'.timeout + 1)
      BY <1>1, <2>1, SndRcvAssumption DEF Call
    <2>3. calls' \in 0..MaxCalls
      BY <1>1, SndRcvAssumption DEF Call, TypeInv, TypeOK
    <2>4. owned' \subseteq {"tx_frames", "rx_frames"}
      BY <2>1
    <2>5. /\ call' \in Calls /\ rx' = <<>> /\ got' = FALSE /\ pc' = "setup"
          /\ UNCHANGED <<status, brk, rxq, network>>
      BY <1>1, <2>1 DEF Call
    <2>6. rx' \in Seq(Frame)
      BY <2>5
    <2> QED BY <2>2, <2>3, <2>4, <2>5, <2>6 DEF TypeInv, TypeOK, network
  <1>2. CASE SetFilter
    <2>1. pc' \in {"send", "dispatch", "idle"}
      BY <1>2, Zenon DEF SetFilter, Receive
    <2>2. call \in Calls
      BY <1>2 DEF SetFilter, TypeInv
    <2>3. UNCHANGED <<call, calls, response, owned, rx, got, brk, elapsed, rxq,
                      network>> /\ status' = HPAV_OK
      BY <1>2 DEF SetFilter
    <2> QED BY <2>1, <2>2, <2>3 DEF TypeInv, TypeOK, network
  <1>3. CASE Send
    <2>1. \A s \in Receivers(call.sta) : RequestTo(s) \in Request
      <3>1. Receivers(call.sta) \subseteq Sta
        BY DEF Receivers
      <3>2. call.type \in Types /\ Host \in Hosts /\ calls \in 0..MaxCalls
        BY <1>3 DEF Send, TypeInv, TypeOK, Types, Hosts
      <3> QED BY <3>1, <3>2 DEF RequestTo, Request
    <2>2. pending' \subseteq Request
      BY <1>3, <2>1 DEF Send, TypeInv, TypeOK
    <2> QED BY <1>3, <2>2 DEF Send, Receive, TypeInv, TypeOK
  <1>4. CASE PcapError
    BY <1>4 DEF PcapError, Fail, TypeInv, TypeOK, network
  <1>5. CASE RxCallback
    <2>1. Head(rxq) \in Frame /\ Tail(rxq) \in Seq(Frame)
      BY <1>5, QueueType DEF RxCallback, TypeInv, TypeOK
    <2>2. rx' \in Seq(Frame) /\ owned' \subseteq {"tx_frames", "rx_frames"}
      <3>1. rx \in Seq(Frame) /\ owned \subseteq {"tx_frames", "rx_frames"}
        BY DEF TypeInv, TypeOK
      <3>2. Append(rx, Head(rxq)) \in Seq(Frame)
        BY <2>1, <3>1, AppendProperties
      <3> QED BY <1>5, <3>1, <3>2 DEF RxCallback
    <2> QED BY <1>5, <2>1, <2>2 DEF RxCallback, TypeInv, TypeOK, network
  <1>6. CASE Dispatched
    BY <1>6 DEF Dispatched, TypeInv, TypeOK, program, network
  <1>7. CASE NothingToDispatch
    BY <1>7 DEF NothingToDispatch, TypeInv, TypeOK, program, network
  <1>8. CASE LoopBroken
    BY <1>8 DEF LoopBroken, TypeInv, TypeOK, network
  <1>9. CASE CheckLoop
    BY <1>9 DEF CheckLoop, TypeInv, TypeOK, network
  <1>10. CASE Assemble
    BY <1>10 DEF Assemble, TypeInv, TypeOK, network
  <1>11. CASE Crash
    BY <1>11 DEF Crash, TypeInv, TypeOK, program, network
  <1>12. CASE Close
    BY <1>12 DEF Close, TypeInv, TypeOK, program, network
  <1>13. CASE Tick
    <2>1. elapsed' \in 0..(call'.timeout + 1)
      BY <1>0, <1>13 DEF Tick
    <2> QED BY <1>13, <2>1 DEF Tick, TypeInv, TypeOK, network
  <1>14. CASE Answer
    <2>1. PICK r \in pending, nf \in Sizes :
              /\ pending' = pending \ {r}
              /\ answered' = answered \cup {r}
              /\ net' = [net EXCEPT ![r.sta] = @ \o AnswerFrames(r, nf)]
              /\ fmsn' = [fmsn EXCEPT ![r.sta] = (@ + 1) % FmsnMod]
      BY <1>14 DEF Answer
    <2>2. r \in Request /\ r.sta \in Sta
      BY DEF TypeInv, TypeOK, Request
    <2>3. net' \in [Sta -> Seq(Frame)]
      <3>1. AnswerFrames(r, nf) \in Seq(Frame)
        BY <2>2, AnswerFramesType DEF TypeInv, TypeOK
      <3>2. net[r.sta] \o AnswerFrames(r, nf) \in Seq(Frame)
        BY <2>2, <3>1, ConcatProperties DEF TypeInv, TypeOK
      <3> QED BY <2>1, <2>2, <3>2 DEF TypeInv, TypeOK
    <2>4. fmsn' \in [Sta -> 0..(FmsnMod - 1)]
      <3>1. fmsn[r.sta] \in 0..(FmsnMod - 1)
        BY <2>2 DEF TypeInv, TypeOK
      <3>2. (fmsn[r.sta] + 1) % FmsnMod \in 0..(FmsnMod - 1)
        BY <3>1, SndRcvAssumption
      <3> QED BY <2>1, <2>2, <3>2 DEF TypeInv, TypeOK
    <2>5. pending' \subseteq Request /\ answered' \subseteq Request
      BY <2>1, <2>2 DEF TypeInv, TypeOK
    <2> QED BY <1>14, <2>3, <2>4, <2>5 DEF Answer, TypeInv, TypeOK, program
  <1>15. CASE Arrive
    <2>1. PICK s \in Sta : /\ net[s] # <<>>
                           /\ net' = [net EXCEPT ![s] = Tail(@)]
                           /\ rxq' = Append(rxq, Head(net[s]))
      BY <1>15 DEF Arrive
    <2>2. Head(net[s]) \in Frame /\ Tail(net[s]) \in Seq(Frame)
      BY <2>1, QueueType DEF TypeInv, TypeOK
    <2>3. net' \in [Sta -> Seq(Frame)] /\ rxq' \in Seq(Frame)
      BY <2>1, <2>2 DEF TypeInv, TypeOK
    <2> QED BY <1>15, <2>3 DEF Arrive, TypeInv, TypeOK, program
  <1>16. CASE Lose
    <2>1. PICK s \in Sta : /\ net[s] # <<>>
                           /\ net' = [net EXCEPT ![s] = Tail(@)]
      BY <1>16 DEF Lose
    <2>2. Tail(net[s]) \in Seq(Frame)
      BY <2>1, QueueType DEF TypeInv, TypeOK
    <2>3. net' \in [Sta -> Seq(Frame)]
      BY <2>1, <2>2 DEF TypeInv, TypeOK
    <2> QED BY <1>16, <2>3 DEF Lose, TypeInv, TypeOK, program
  <1>17. CASE UNCHANGED vars
    BY <1>17 DEF TypeInv, TypeOK, vars, program, network
  <1> QED BY <1>1, <1>2, <1>3, <1>4, <1>5, <1>6, <1>7, <1>8, <1>9, <1>10,
             <1>11, <1>12, <1>13, <1>14, <1>15, <1>16, <1>17
          DEF Next, Run, Stopped

LEMMA TypeInit == Init => TypeInv
  <1> SUFFICES ASSUME Init PROVE TypeInv
    OBVIOUS
  <1>1. Unasked \subseteq Request
    BY SndRcvAssumption DEF Request
  <1>2. elapsed \in 0..(call.timeout + 1) /\ 0 \in 0..(FmsnMod - 1)
    BY SndRcvAssumption DEF Init, NoCall
  <1>3. calls \in 0..MaxCalls
    BY SndRcvAssumption DEF Init
  <1>4. <<>> \in Seq(Frame)
    OBVIOUS
  <1>5. net \in [Sta -> Seq(Frame)] /\ fmsn \in [Sta -> 0..(FmsnMod - 1)]
    BY <1>2, <1>4 DEF Init
  <1> QED BY <1>1, <1>2, <1>3, <1>4, <1>5 DEF Init, TypeInv, TypeOK, InCall

LEMMA TypeInvariant == Spec => []TypeInv
  BY TypeInit, TypeStep, PTL DEF Spec

\* The values of the variables, whatever the calls and the network.
THEOREM TypeCorrect == Spec => []TypeOK
  BY TypeInvariant, PTL DEF TypeInv

-----------------------------------------------------------------------------
(* Memory.  What a call holds depends on how far it is: the request until   *)
(* it is sent, then the frames received.                                    *)

OwnedInv ==
    /\ pc \in {"idle", "closed"} => owned = {}
    /\ pc \in {"setup", "send"} => owned \subseteq {"tx_frames"}
    /\ (pc = "setup" /\ ~call.sends) => owned = {}
    /\ pc \in {"dispatch", "clock", "assemble"} => owned \subseteq {"rx_frames"}

LEMMA OwnedStep ==
    ASSUME OwnedInv, [Next]_vars
    PROVE  OwnedInv'
  <1> USE DEF OwnedInv
  <1>1. CASE Call
    <2>1. PICK c \in Calls : /\ call' = c
                             /\ owned' = IF c.sends THEN {"tx_frames"} ELSE {}
      BY <1>1 DEF Call
    <2>2. pc' = "setup"
      BY <1>1 DEF Call
    <2>3. owned' \subseteq {"tx_frames"}
      BY <2>1
    <2>4. ~call'.sends => owned' = {}
      BY <2>1
    <2> QED BY <2>2, <2>3, <2>4
  <1>2. CASE SetFilter
    <2>1. pc = "setup" /\ UNCHANGED <<call, owned>>
      BY <1>2 DEF SetFilter
    <2>2. CASE call.sends
      <3>1. pc' = "send"
        BY <1>2, <2>2 DEF SetFilter
      <3> QED BY <2>1, <3>1
    <2>3. CASE ~call.sends
      <3>1. pc' \in {"dispatch", "idle"}
        BY <1>2, <2>3 DEF SetFilter, Receive
      <3>2. owned' = {}
        BY <2>1, <2>3
      <3> QED BY <3>1, <3>2
    <2> QED BY <2>2, <2>3
  <1>3. CASE Send
    <2>1. pc' \in {"dispatch", "idle"} /\ owned' = {}
      BY <1>3 DEF Send, Receive
    <2> QED BY <2>1
  <1>4. CASE PcapError
    BY <1>4 DEF PcapError, Fail
  <1>5. CASE RxCallback
    <2>1. pc' = "dispatch" /\ owned' \subseteq {"rx_frames"}
      BY <1>5 DEF RxCallback
    <2> QED BY <2>1
  <1>6. CASE Dispatched \/ NothingToDispatch \/ LoopBroken \/ CheckLoop
    <2>1. pc \in {"dispatch", "clock"} /\ owned' = owned
          /\ pc' \in {"dispatch", "clock", "assemble"}
      BY <1>6 DEF Dispatched, NothingToDispatch, LoopBroken, CheckLoop, program
    <2> QED BY <2>1
  <1>7. CASE Assemble
    BY <1>7 DEF Assemble
  <1>8. CASE Crash \/ Close
    BY <1>8 DEF Crash, Close, program
  <1>9. CASE Tick \/ Answer \/ Arrive \/ Lose \/ UNCHANGED vars
    <2>1. UNCHANGED <<pc, call, owned>>
      BY <1>9 DEF Tick, Answer, Arrive, Lose, vars, program
    <2> QED BY <2>1
  <1> QED BY <1>1, <1>2, <1>3, <1>4, <1>5, <1>6, <1>7, <1>8, <1>9
          DEF Next, Run, Stopped

\* A call leaves no frame allocated: on every path through the send/receive
\* functions the frames to send and the frames received are freed.
THEOREM NeverLeaks == Spec => []NothingLeaks
  <1>1. Init => OwnedInv
    BY DEF Init, OwnedInv
  <1>2. OwnedInv => NothingLeaks
    BY DEF OwnedInv, NothingLeaks
  <1> QED BY <1>1, <1>2, OwnedStep, PTL DEF Spec

-----------------------------------------------------------------------------
(* Broadcast requests.  The loop of a function without a rule of its own   *)
(* can only be left when the time is over: stop is not set for a broadcast. *)

WaitInv ==
    /\ BroadcastWaits
    /\ (pc = "assemble" /\ call.sta = Broadcast /\ call.rule = "none")
           => elapsed > call.timeout

LEMMA WaitStep ==
    ASSUME WaitInv, [Next]_vars
    PROVE  WaitInv'
  <1> USE DEF WaitInv, BroadcastWaits, Returned
  <1>1. CASE Call
    <2>1. pc' = "setup"
      BY <1>1 DEF Call
    <2> QED BY <2>1
  <1>2. CASE SetFilter \/ Send
    <2>1. call' = call /\ pc' # "assemble"
      BY <1>2 DEF SetFilter, Send, Receive
    <2>2. pc' = "idle" => ~(call.timeout > 0)
      BY <1>2 DEF SetFilter, Send, Receive
    <2> QED BY <2>1, <2>2
  <1>3. CASE PcapError
    <2>1. pc' = "idle" /\ status' # HPAV_OK
      BY <1>3 DEF PcapError, Fail, HPAV_OK, HPAV_ERROR_PCAP_ERROR
    <2> QED BY <2>1
  <1>4. CASE RxCallback \/ NothingToDispatch \/ LoopBroken
    <2>1. pc' \in {"dispatch", "clock"}
      BY <1>4 DEF RxCallback, NothingToDispatch, LoopBroken
    <2> QED BY <2>1
  <1>5. CASE Dispatched
    <2>1. pc' \in {"clock", "assemble"} /\ UNCHANGED call
      BY <1>5 DEF Dispatched, program
    <2>2. pc' = "assemble" => call.rule # "none"
      BY <1>5 DEF Dispatched, Breaks
    <2> QED BY <2>1, <2>2
  <1>6. CASE CheckLoop
    <2>1. pc' \in {"dispatch", "assemble"} /\ UNCHANGED <<call, elapsed>>
      BY <1>6 DEF CheckLoop
    <2>2. pc' = "assemble" => elapsed > call.timeout \/ call.sta # Broadcast
      BY <1>6 DEF CheckLoop, Expired, Stop
    <2> QED BY <2>1, <2>2
  <1>7. CASE Assemble
    <2>1. pc = "assemble" /\ pc' = "idle" /\ UNCHANGED <<call, elapsed>>
      BY <1>7 DEF Assemble
    <2> QED BY <2>1
  <1>8. CASE Crash \/ Close
    <2>1. pc' \in {"crashed", "closed"}
      BY <1>8 DEF Crash, Close
    <2> QED BY <2>1
  <1>9. CASE Tick
    <2>1. pc' \in {"dispatch", "clock"}
      BY <1>9 DEF Tick
    <2> QED BY <2>1
  <1>10. CASE Answer \/ Arrive \/ Lose \/ UNCHANGED vars
    <2>1. UNCHANGED <<pc, call, calls, status, elapsed>>
      BY <1>10 DEF Answer, Arrive, Lose, vars, program
    <2> QED BY <2>1
  <1> QED BY <1>1, <1>2, <1>3, <1>4, <1>5, <1>6, <1>7, <1>8, <1>9, <1>10
          DEF Next, Run, Stopped

\* A broadcast request gives the stations all the time there is: no answer,
\* however many fragments were announced or received, ends the call before.
THEOREM BroadcastsWait == Spec => []BroadcastWaits
  <1>1. Init => WaitInv
    BY DEF Init, WaitInv, BroadcastWaits, Returned
  <1>2. WaitInv => BroadcastWaits
    BY DEF WaitInv
  <1> QED BY <1>1, <1>2, WaitStep, PTL DEF Spec

-----------------------------------------------------------------------------
(* The answers a call returns: the invariant.                              *)

\* Every frame received by the call, queued, or on its way.
InFlight == Elements(rx) \cup Elements(rxq)
            \cup UNION {Elements(net[s]) : s \in Sta}

\* A request is asked once, and then either pending or answered.
RequestInv ==
    /\ pending \cap answered = {}
    /\ \A r \in pending \cup answered :
           /\ r.call <= calls
           /\ pc \in {"setup", "send"} => r.call < calls

\* Frames are fragments of answers, and those of one answer agree.
FramesInv ==
    /\ \A f \in InFlight :
           /\ f.of \in answered
           /\ f.src = f.of.sta /\ f.dst = f.of.host
           /\ f.mmv = 1 /\ f.mmtype = f.of.type
           /\ f.fn \in 0..f.nf
    /\ \A f, g \in InFlight : f.of = g.of => f.nf = g.nf /\ f.fmsn = g.fmsn
    /\ \A s \in Sta : \A f \in Elements(net[s]) : f.src = s

\* The fragments of an answer follow each other in a queue ...
Ordered(q) ==
    \A i, j \in DOMAIN q : i < j /\ q[i].of = q[j].of => q[i].fn < q[j].fn

\* ... and those in p come before those in q.
Before(p, q) ==
    \A f \in Elements(p), g \in Elements(q) : f.of = g.of => f.fn < g.fn

OrderInv ==
    /\ Ordered(rx) /\ Ordered(rxq) /\ Before(rx, rxq)
    /\ \A s \in Sta : /\ Ordered(net[s])
                      /\ Before(rx, net[s]) /\ Before(rxq, net[s])

\* The call keeps the frames it waits for, returns what is built from them, and
\* does not leave the loop before its time is over with no frame received.
EndInv ==
    /\ \A f \in Elements(rx) : Accepts(f)
    /\ pc \in {"setup", "send"} => rx = <<>>
    /\ InCall => response = {}
    /\ response \in {{}, Packets(rx)}
    /\ (Returned /\ call.timeout > 0) =>
           /\ response = Packets(rx)
           /\ elapsed <= call.timeout => rx # <<>>
    /\ (pc = "assemble" /\ elapsed <= call.timeout) => rx # <<>>

AnswerInv == TypeInv /\ RequestInv /\ FramesInv /\ OrderInv /\ EndInv

\* The number of a message of a station tells its fragments, among the frames
\* received, from those of its other messages.
NumbersDiffer ==
    \A f, g \in Elements(rx) :
        f.src = g.src /\ f.fmsn = g.fmsn => f.of = g.of

\* A station sends no more messages to a channel than there are numbers.
NumbersFit ==
    /\ IsFiniteSet(Unasked)
    /\ \A s \in Sta :
           MaxCalls + Cardinality({r \in Unasked : r.sta = s}) <= FmsnMod

-----------------------------------------------------------------------------
(* Queues of frames.                                                       *)

LEMMA EmptyQueue ==
    /\ Elements(<<>>) = {} /\ Ordered(<<>>)
    /\ \A q : Before(<<>>, q) /\ Before(q, <<>>)
  <1>1. Elements(<<>>) = {}
    BY DEF Elements
  <1>2. Ordered(<<>>)
    BY DEF Ordered
  <1> QED BY <1>1, <1>2 DEF Before

\* Taking the first frame.
LEMMA TakeFrame ==
    ASSUME NEW q \in Seq(Frame), q # <<>>
    PROVE  /\ Elements(q) = {Head(q)} \cup Elements(Tail(q))
           /\ Ordered(q) => /\ Ordered(Tail(q))
                            /\ \A g \in Elements(Tail(q)) :
                                   Head(q).of = g.of => Head(q).fn < g.fn
  <1>1. /\ Tail(q) \in Seq(Frame) /\ Len(Tail(q)) = Len(q) - 1
        /\ \A i \in 1..Len(Tail(q)) : Tail(q)[i] = q[i + 1]
        /\ Head(q) = q[1]
    BY HeadTailProperties
  <1>2. /\ Len(q) \in Nat \ {0} /\ DOMAIN q = 1..Len(q)
        /\ DOMAIN Tail(q) = 1..(Len(q) - 1)
    BY <1>1, EmptySeq, LenProperties
  <1>3. \A i \in DOMAIN q :
            i = 1 \/ (i - 1 \in DOMAIN Tail(q) /\ q[i] = Tail(q)[i - 1])
    BY <1>1, <1>2
  <1>4. \A i \in DOMAIN Tail(q) :
            i + 1 \in DOMAIN q /\ Tail(q)[i] = q[i + 1] /\ i \in Nat /\ 1 < i + 1
    BY <1>1, <1>2
  <1>5. 1 \in DOMAIN q
    BY <1>2
  <1>6. Elements(q) = {Head(q)} \cup Elements(Tail(q))
    <2>1. ASSUME NEW i \in DOMAIN q
          PROVE  q[i] \in {Head(q)} \cup Elements(Tail(q))
      BY <1>1, <1>3 DEF Elements
    <2>2. ASSUME NEW i \in DOMAIN Tail(q) PROVE Tail(q)[i] \in Elements(q)
      BY <1>4 DEF Elements
    <2>3. Head(q) \in Elements(q)
      BY <1>1, <1>5 DEF Elements
    <2> QED BY <2>1, <2>2, <2>3 DEF Elements
  <1>7. ASSUME Ordered(q)
        PROVE  /\ Ordered(Tail(q))
               /\ \A g \in Elements(Tail(q)) :
                      Head(q).of = g.of => Head(q).fn < g.fn
    <2>1. Ordered(Tail(q))
      <3> SUFFICES ASSUME NEW i \in DOMAIN Tail(q), NEW j \in DOMAIN Tail(q),
                          i < j, Tail(q)[i].of = Tail(q)[j].of
                   PROVE  Tail(q)[i].fn < Tail(q)[j].fn
        BY DEF Ordered
      <3>1. i + 1 < j + 1
        BY <1>4
      <3> QED BY <1>4, <1>7, <3>1 DEF Ordered
    <2>2. ASSUME NEW i \in DOMAIN Tail(q), Head(q).of = Tail(q)[i].of
          PROVE  Head(q).fn < Tail(q)[i].fn
      BY <1>1, <1>4, <1>5, <1>7, <2>2 DEF Ordered
    <2> QED BY <2>1, <2>2 DEF Elements
  <1> QED BY <1>6, <1>7

\* Adding a queue behind a queue.
LEMMA AddQueue ==
    ASSUME NEW p \in Seq(Frame), NEW q \in Seq(Frame)
    PROVE  /\ Elements(p \o q) = Elements(p) \cup Elements(q)
           /\ Ordered(p) /\ Ordered(q) /\ Before(p, q) => Ordered(p \o q)
  <1>1. /\ p \o q \in Seq(Frame) /\ Len(p \o q) = Len(p) + Len(q)
        /\ \A i \in 1..(Len(p) + Len(q)) :
               (p \o q)[i] = IF i <= Len(p) THEN p[i] ELSE q[i - Len(p)]
    BY ConcatProperties
  <1>2. /\ Len(p) \in Nat /\ DOMAIN p = 1..Len(p)
        /\ Len(q) \in Nat /\ DOMAIN q = 1..Len(q)
        /\ DOMAIN (p \o q) = 1..(Len(p) + Len(q))
    BY <1>1, LenProperties
  <1>3. \A i \in DOMAIN (p \o q) :
            \/ i \in DOMAIN p /\ (p \o q)[i] = p[i]
            \/ i \notin DOMAIN p /\ i - Len(p) \in DOMAIN q
               /\ (p \o q)[i] = q[i - Len(p)]
    BY <1>1, <1>2
  <1>4. Elements(p \o q) = Elements(p) \cup Elements(q)
    <2>1. \A i \in DOMAIN p : i \in DOMAIN (p \o q) /\ (p \o q)[i] = p[i]
      BY <1>1, <1>2
    <2>2. ASSUME NEW i \in DOMAIN q
          PROVE  i + Len(p) \in DOMAIN (p \o q) /\ (p \o q)[i + Len(p)] = q[i]
      <3>1. i + Len(p) \in 1..(Len(p) + Len(q)) /\ ~(i + Len(p) <= Len(p))
            /\ (i + Len(p)) - Len(p) = i
        BY <1>2
      <3> QED BY <1>1, <1>2, <3>1
    <2>3. \A i \in DOMAIN (p \o q) : (p \o q)[i] \in Elements(p) \cup Elements(q)
      BY <1>3 DEF Elements
    <2>4. Elements(p) \subseteq Elements(p \o q)
      BY <2>1 DEF Elements
    <2>5. Elements(q) \subseteq Elements(p \o q)
      BY <2>2 DEF Elements
    <2> QED BY <2>3, <2>4, <2>5 DEF Elements
  <1>5. ASSUME Ordered(p), Ordered(q), Before(p, q)
        PROVE  Ordered(p \o q)
    <2> SUFFICES ASSUME NEW i \in DOMAIN (p \o q), NEW j \in DOMAIN (p \o q),
                        i < j, (p \o q)[i].of = (p \o q)[j].of
                 PROVE  (p \o q)[i].fn < (p \o q)[j].fn
      BY DEF Ordered
    <2>1. CASE i \in DOMAIN p /\ j \in DOMAIN p
      BY <1>3, <1>5, <2>1 DEF Ordered
    <2>2. CASE i \in DOMAIN p /\ j \notin DOMAIN p
      BY <1>3, <1>5, <2>2 DEF Before, Elements
    <2>3. CASE i \notin DOMAIN p
      <3>1. j \notin DOMAIN p /\ i - Len(p) < j - Len(p)
        BY <1>2, <2>3
      <3> QED BY <1>3, <1>5, <2>3, <3>1 DEF Ordered
    <2> QED BY <2>1, <2>2, <2>3
  <1> QED BY <1>4, <1>5

\* Adding one frame.
LEMMA AddFrame ==
    ASSUME NEW q \in Seq(Frame), NEW f \in Frame
    PROVE  /\ Elements(Append(q, f)) = Elements(q) \cup {f}
           /\ (/\ Ordered(q)
               /\ \A g \in Elements(q) : g.of = f.of => g.fn < f.fn)
              => Ordered(Append(q, f))
  <1>1. <<f>> \in Seq(Frame) /\ Append(q, f) = q \o <<f>>
    OBVIOUS
  <1>2. Elements(<<f>>) = {f} /\ Ordered(<<f>>)
    BY DEF Elements, Ordered
  <1> QED BY <1>1, <1>2, AddQueue DEF Before

-----------------------------------------------------------------------------
(* Every step keeps the invariant.                                         *)

\* The steps that neither ask nor answer, nor begin a call.
Elsewhere == \/ PcapError \/ RxCallback \/ Dispatched \/ NothingToDispatch
             \/ LoopBroken \/ CheckLoop \/ Assemble \/ Crash \/ Close
             \/ Tick \/ Arrive \/ Lose \/ UNCHANGED vars

LEMMA StepCases ==
    [Next]_vars => Call \/ SetFilter \/ Send \/ Answer \/ Elsewhere
  BY DEF Next, Run, Stopped, Elsewhere

LEMMA RequestStep ==
    ASSUME AnswerInv, [Next]_vars
    PROVE  RequestInv'
  <1> USE DEF AnswerInv
  <1>1. calls \in Nat /\ \A r \in pending \cup answered : r.call \in Nat
    BY SndRcvAssumption DEF TypeInv, TypeOK, Request
  <1>2. CASE Call
    <2>1. calls' = calls + 1 /\ UNCHANGED <<pending, answered>>
      BY <1>2 DEF Call, network
    <2> QED BY <1>1, <2>1 DEF RequestInv
  <1>3. CASE SetFilter
    <2>1. pc = "setup" /\ UNCHANGED <<calls, pending, answered>>
      BY <1>3 DEF SetFilter, network
    <2> QED BY <2>1 DEF RequestInv
  <1>4. CASE Send
    <2>1. /\ pc = "send" /\ pc' \notin {"setup", "send"}
          /\ UNCHANGED <<calls, answered>>
          /\ pending' = pending \cup
                        {RequestTo(s) : s \in Receivers(call.sta)}
      BY <1>4 DEF Send, Receive
    <2>2. \A r \in answered : r.call # calls
      BY <1>1, <2>1 DEF RequestInv
    <2>3. \A s \in Receivers(call.sta) : RequestTo(s).call = calls
      BY DEF RequestTo
    <2>4. pending' \cap answered' = {}
      BY <2>1, <2>2, <2>3 DEF RequestInv
    <2> QED BY <1>1, <2>1, <2>3, <2>4 DEF RequestInv
  <1>5. CASE Answer
    <2>1. /\ \E r \in pending : /\ pending' = pending \ {r}
                                /\ answered' = answered \cup {r}
          /\ UNCHANGED <<pc, calls>>
      BY <1>5 DEF Answer, program
    <2> QED BY <2>1 DEF RequestInv
  <1>6. CASE Elsewhere
    <2>1. UNCHANGED <<calls, pending, answered>>
          /\ (pc' \notin {"setup", "send"} \/ pc' = pc)
      <3>1. CASE PcapError \/ RxCallback \/ Assemble \/ Crash \/ Close
        BY <3>1 DEF PcapError, Fail, RxCallback, Assemble, Crash, Close,
                    program, network
      <3>2. CASE Dispatched \/ NothingToDispatch \/ LoopBroken \/ CheckLoop
        BY <3>2 DEF Dispatched, NothingToDispatch, LoopBroken, CheckLoop,
                    program, network
      <3>3. CASE Tick \/ Arrive \/ Lose \/ UNCHANGED vars
        BY <3>3 DEF Tick, Arrive, Lose, vars, program, network
      <3> QED BY <1>6, <3>1, <3>2, <3>3 DEF Elsewhere
    <2> QED BY <2>1 DEF RequestInv
  <1> QED BY <1>2, <1>3, <1>4, <1>5, <1>6, StepCases

\* A step that brings no new frame keeps what frames are.
LEMMA FewerFrames ==
    ASSUME FramesInv, InFlight' \subseteq InFlight, answered' = answered,
           \A s \in Sta : Elements(net'[s]) \subseteq Elements(net[s])
    PROVE  FramesInv'
  BY DEF FramesInv

\* What an answer brings.
LEMMA AnswerElements ==
    ASSUME NEW r \in Request, NEW nf \in Sizes, TypeInv
    PROVE  /\ AnswerFrames(r, nf) \in Seq(Frame)
           /\ Ordered(AnswerFrames(r, nf))
           /\ \A f \in Elements(AnswerFrames(r, nf)) :
                  /\ f.of = r /\ f.src = r.sta /\ f.dst = r.host
                  /\ f.mmv = 1 /\ f.mmtype = r.type
                  /\ f.nf = nf /\ f.fn \in 0..nf /\ f.fmsn = fmsn[r.sta]
  <1>1. AnswerFrames(r, nf) \in Seq(Frame)
    BY AnswerFramesType DEF TypeInv, TypeOK
  <1>2. nf \in Nat
    BY SndRcvAssumption
  <1>3. DOMAIN AnswerFrames(r, nf) = 1..(nf + 1)
    BY DEF AnswerFrames
  <1>4. \A n \in 1..(nf + 1) :
            LET f == AnswerFrames(r, nf)[n] IN
            /\ f.of = r /\ f.src = r.sta /\ f.dst = r.host
            /\ f.mmv = 1 /\ f.mmtype = r.type
            /\ f.nf = nf /\ f.fn = n - 1 /\ f.fmsn = fmsn[r.sta]
    BY DEF AnswerFrames
  <1>5. \A n \in 1..(nf + 1) : n - 1 \in 0..nf
    BY <1>2
  <1>6. Ordered(AnswerFrames(r, nf))
    BY <1>2, <1>3, <1>4 DEF Ordered
  <1> QED BY <1>1, <1>3, <1>4, <1>5, <1>6 DEF Elements

\* A station answers: the request was pending, so that no frame is of it yet.
LEMMA AnswerStep ==
    ASSUME AnswerInv, Answer
    PROVE  FramesInv' /\ OrderInv'
  <1> USE DEF AnswerInv
  <1>1. PICK r \in pending, nf \in Sizes :
            /\ pending' = pending \ {r}
            /\ answered' = answered \cup {r}
            /\ net' = [net EXCEPT ![r.sta] = @ \o AnswerFrames(r, nf)]
    BY DEF Answer
  <1>2. UNCHANGED <<rx, rxq>>
    BY DEF Answer, program
  <1>3. r \in Request /\ r.sta \in Sta
    BY DEF TypeInv, TypeOK, Request
  <1> DEFINE new == AnswerFrames(r, nf)
  <1>4. /\ new \in Seq(Frame) /\ Ordered(new)
        /\ \A f \in Elements(new) :
               /\ f.of = r /\ f.src = r.sta /\ f.dst = r.host
               /\ f.mmv = 1 /\ f.mmtype = r.type
               /\ f.nf = nf /\ f.fn \in 0..nf /\ f.fmsn = fmsn[r.sta]
    BY <1>3, AnswerElements
  <1> HIDE DEF new
  <1>5. \A f \in InFlight : f.of # r
    BY DEF FramesInv, RequestInv
  <1>6. /\ net[r.sta] \in Seq(Frame)
        /\ net'[r.sta] = net[r.sta] \o new
        /\ \A s \in Sta : s # r.sta => net'[s] = net[s]
    BY <1>1, <1>3 DEF TypeInv, TypeOK, new
  <1>7. Before(net[r.sta], new) /\ Before(rx, new) /\ Before(rxq, new)
    BY <1>3, <1>4, <1>5 DEF Before, InFlight
  <1>8. /\ Elements(net'[r.sta]) = Elements(net[r.sta]) \cup Elements(new)
        /\ Ordered(net'[r.sta])
    BY <1>3, <1>4, <1>6, <1>7, AddQueue DEF OrderInv
  <1>9. InFlight' \subseteq InFlight \cup Elements(new)
    <2>1. \A s \in Sta :
              Elements(net'[s]) \subseteq Elements(net[s]) \cup Elements(new)
      BY <1>6, <1>8
    <2> QED BY <1>2, <2>1 DEF InFlight
  <1>10. FramesInv'
    <2>1. ASSUME NEW f \in InFlight'
          PROVE  /\ f.of \in answered'
                 /\ f.src = f.of.sta /\ f.dst = f.of.host
                 /\ f.mmv = 1 /\ f.mmtype = f.of.type
                 /\ f.fn \in 0..f.nf
      <3>1. CASE f \in InFlight
        BY <1>1, <3>1 DEF FramesInv
      <3>2. CASE f \in Elements(new)
        BY <1>1, <1>4, <3>2
      <3> QED BY <1>9, <3>1, <3>2
    <2>2. ASSUME NEW f \in InFlight', NEW g \in InFlight', f.of = g.of
          PROVE  f.nf = g.nf /\ f.fmsn = g.fmsn
      <3>1. CASE f \in InFlight /\ g \in InFlight
        BY <2>2, <3>1 DEF FramesInv
      <3>2. CASE f \in Elements(new) /\ g \in Elements(new)
        BY <1>4, <3>2
      <3>3. f \in Elements(new) <=> g \in Elements(new)
        BY <1>4, <1>5, <1>9, <2>2
      <3> QED BY <1>9, <3>1, <3>2, <3>3
    <2>3. ASSUME NEW s \in Sta, NEW f \in Elements(net'[s])
          PROVE  f.src = s
      <3>1. CASE s = r.sta
        BY <1>4, <1>8, <3>1 DEF FramesInv
      <3>2. CASE s # r.sta
        BY <1>6, <3>2 DEF FramesInv
      <3> QED BY <3>1, <3>2
    <2> QED BY <2>1, <2>2, <2>3 DEF FramesInv
  <1>11. OrderInv'
    <2>1. ASSUME NEW s \in Sta
          PROVE  Ordered(net'[s]) /\ Before(rx, net'[s]) /\ Before(rxq, net'[s])
      <3>1. CASE s = r.sta
        BY <1>3, <1>7, <1>8, <3>1 DEF Before, OrderInv
      <3>2. CASE s # r.sta
        BY <1>6, <3>2 DEF OrderInv
      <3> QED BY <3>1, <3>2
    <2> QED BY <1>2, <2>1 DEF OrderInv
  <1> QED BY <1>10, <1>11

\* The callback takes the first frame of the queue, and keeps it or not.
LEMMA RxCallbackStep ==
    ASSUME AnswerInv, RxCallback
    PROVE  FramesInv' /\ OrderInv' /\ InFlight' \subseteq InFlight
  <1> USE DEF AnswerInv
  <1> DEFINE f == Head(rxq)
             rest == Tail(rxq)
  <1>1. /\ rxq \in Seq(Frame) /\ rxq # <<>> /\ rx \in Seq(Frame)
        /\ rxq' = rest /\ rx' \in {rx, Append(rx, f)}
        /\ UNCHANGED <<net, answered>>
    BY DEF RxCallback, TypeInv, TypeOK, network
  <1>2. f \in Frame /\ rest \in Seq(Frame)
    BY <1>1, HeadTailProperties
  <1>3. /\ Elements(rxq) = {f} \cup Elements(rest)
        /\ Ordered(rest)
        /\ \A g \in Elements(rest) : f.of = g.of => f.fn < g.fn
    BY <1>1, TakeFrame DEF OrderInv
  <1>4. /\ Elements(Append(rx, f)) = Elements(rx) \cup {f}
        /\ Ordered(Append(rx, f))
    BY <1>1, <1>2, <1>3, AddFrame DEF OrderInv, Before
  <1> HIDE DEF f, rest
  <1>5. Elements(rx') \subseteq Elements(rx) \cup {f} /\ Ordered(rx')
    BY <1>1, <1>4 DEF OrderInv
  <1>6. InFlight' \subseteq InFlight
    BY <1>1, <1>3, <1>5 DEF InFlight
  <1>7. FramesInv'
    BY <1>1, <1>6, FewerFrames
  <1>8. OrderInv'
    <2>1. Before(rx', rxq')
      BY <1>1, <1>3, <1>5 DEF OrderInv, Before
    <2>2. \A s \in Sta : Before(rx', net[s]) /\ Before(rxq', net[s])
      BY <1>1, <1>3, <1>5 DEF OrderInv, Before
    <2> QED BY <1>1, <1>3, <1>5, <2>1, <2>2 DEF OrderInv
  <1> QED BY <1>6, <1>7, <1>8

\* A frame arrives, or is lost.
LEMMA NetworkStep ==
    ASSUME AnswerInv, Arrive \/ Lose
    PROVE  /\ FramesInv' /\ OrderInv'
           /\ InFlight' \subseteq InFlight /\ Queued' \subseteq Queued
  <1> USE DEF AnswerInv
  <1>1. PICK s \in Sta :
            /\ net[s] # <<>>
            /\ net' = [net EXCEPT ![s] = Tail(@)]
            /\ rxq' \in {rxq, Append(rxq, Head(net[s]))}
    BY DEF Arrive, Lose
  <1>2. UNCHANGED <<rx, answered>>
    BY DEF Arrive, Lose, program
  <1> DEFINE f == Head(net[s])
             rest == Tail(net[s])
  <1>3. net[s] \in Seq(Frame) /\ rxq \in Seq(Frame)
    BY DEF TypeInv, TypeOK
  <1>4. f \in Frame /\ rest \in Seq(Frame)
    BY <1>1, <1>3, HeadTailProperties
  <1>5. /\ Elements(net[s]) = {f} \cup Elements(rest)
        /\ Ordered(rest)
        /\ \A g \in Elements(rest) : f.of = g.of => f.fn < g.fn
    BY <1>1, <1>3, TakeFrame DEF OrderInv
  <1>6. net'[s] = rest /\ \A t \in Sta : t # s => net'[t] = net[t]
    BY <1>1 DEF TypeInv, TypeOK
  <1>7. /\ Elements(Append(rxq, f)) = Elements(rxq) \cup {f}
        /\ Ordered(Append(rxq, f))
    BY <1>3, <1>4, <1>5, AddFrame DEF OrderInv, Before
  <1> HIDE DEF f, rest
  <1>8. Elements(rxq') \subseteq Elements(rxq) \cup {f} /\ Ordered(rxq')
    BY <1>1, <1>7 DEF OrderInv, f
  <1>9. \A t \in Sta : Elements(net'[t]) \subseteq Elements(net[t])
    BY <1>5, <1>6
  <1>10. InFlight' \subseteq InFlight /\ Queued' \subseteq Queued
    BY <1>2, <1>5, <1>8, <1>9 DEF InFlight, Queued
  <1>11. Before(rx', rxq')
    BY <1>2, <1>5, <1>8 DEF OrderInv, Before
  <1>12. ASSUME NEW t \in Sta
         PROVE  /\ Ordered(net'[t])
                /\ Before(rx', net'[t]) /\ Before(rxq', net'[t])
    <2>1. Ordered(net'[t])
      BY <1>5, <1>6 DEF OrderInv
    <2>2. Before(rx', net'[t]) /\ Before(rxq, net'[t])
      BY <1>2, <1>9 DEF OrderInv, Before
    <2>3. \A g \in Elements(net'[t]) : f.of = g.of => f.fn < g.fn
      <3>1. CASE t = s
        BY <1>5, <1>6, <3>1
      <3>2. CASE t # s
        <4>1. \A g \in Elements(net'[t]) : f.of.sta = s /\ g.of.sta = t
          BY <1>5, <1>6, <3>2 DEF FramesInv, InFlight
        <4> QED BY <3>2, <4>1
      <3> QED BY <3>1, <3>2
    <2> QED BY <1>8, <2>1, <2>2, <2>3 DEF Before
  <1>13. FramesInv'
    BY <1>2, <1>9, <1>10, FewerFrames
  <1>14. OrderInv'
    BY <1>2, <1>8, <1>11, <1>12 DEF OrderInv
  <1> QED BY <1>10, <1>13, <1>14

LEMMA FramesStep ==
    ASSUME AnswerInv, [Next]_vars
    PROVE  /\ FramesInv' /\ OrderInv'
           /\ Answer \/ InFlight' \subseteq InFlight
  <1>1. CASE Call
    <2>1. rx' = <<>> /\ UNCHANGED <<rxq, net, answered>>
      BY <1>1 DEF Call, network
    <2>2. InFlight' \subseteq InFlight
      BY <2>1, EmptyQueue DEF InFlight
    <2>3. FramesInv'
      BY <2>1, <2>2, FewerFrames DEF AnswerInv
    <2>4. OrderInv'
      BY <2>1, EmptyQueue DEF AnswerInv, OrderInv
    <2> QED BY <2>2, <2>3, <2>4
  <1>2. CASE Answer
    BY <1>2, AnswerStep
  <1>3. CASE RxCallback
    BY <1>3, RxCallbackStep
  <1>4. CASE Arrive \/ Lose
    BY <1>4, NetworkStep
  <1>5. CASE Close
    <2>1. rxq' = <<>> /\ UNCHANGED <<rx, net, answered>>
      BY <1>5 DEF Close, program, network
    <2>2. InFlight' \subseteq InFlight
      BY <2>1, EmptyQueue DEF InFlight
    <2>3. FramesInv'
      BY <2>1, <2>2, FewerFrames DEF AnswerInv
    <2>4. OrderInv'
      BY <2>1, EmptyQueue DEF AnswerInv, OrderInv
    <2> QED BY <2>2, <2>3, <2>4
  <1>6. CASE UNCHANGED <<rx, rxq, net, answered>>
    BY <1>6 DEF AnswerInv, FramesInv, OrderInv, InFlight
  <1>7. \/ Call \/ Answer \/ RxCallback \/ Arrive \/ Lose \/ Close
        \/ UNCHANGED <<rx, rxq, net, answered>>
    <2>1. SetFilter \/ Send \/ PcapError \/ Assemble \/ Crash \/ Tick
          => UNCHANGED <<rx, rxq, net, answered>>
      BY DEF SetFilter, Send, PcapError, Fail, Assemble, Crash, Tick, program,
             network
    <2>2. Dispatched \/ NothingToDispatch \/ LoopBroken \/ CheckLoop
          \/ UNCHANGED vars
          => UNCHANGED <<rx, rxq, net, answered>>
      BY DEF Dispatched, NothingToDispatch, LoopBroken, CheckLoop, vars, program,
             network
    <2> QED BY <2>1, <2>2, StepCases DEF Elsewhere
  <1> QED BY <1>1, <1>2, <1>3, <1>4, <1>5, <1>6, <1>7

LEMMA EndStep ==
    ASSUME AnswerInv, [Next]_vars
    PROVE  EndInv'
  <1> USE DEF AnswerInv
  <1>1. CASE Call
    <2>1. pc' = "setup" /\ rx' = <<>> /\ response' = {}
      BY <1>1 DEF Call
    <2>2. Elements(rx') = {}
      BY <2>1, EmptyQueue
    <2> QED BY <2>1, <2>2 DEF EndInv, Returned
  <1>2. CASE SetFilter \/ Send
    <2>1. /\ pc' \in {"send", "dispatch", "idle"}
          /\ pc' = "idle" => ~(call.timeout > 0)
      BY <1>2 DEF SetFilter, Send, Receive
    <2>2. /\ UNCHANGED <<call, rx, response, elapsed>> /\ InCall
          /\ pc \in {"setup", "send"}
      BY <1>2 DEF SetFilter, Send, InCall
    <2> QED BY <2>1, <2>2 DEF EndInv, Returned, Accepts
  <1>3. CASE PcapError
    <2>1. pc' = "idle" /\ status' # HPAV_OK
          /\ UNCHANGED <<call, rx, response, elapsed>>
      BY <1>3 DEF PcapError, Fail, HPAV_OK, HPAV_ERROR_PCAP_ERROR
    <2> QED BY <2>1 DEF EndInv, Returned, Accepts, InCall
  <1>4. CASE RxCallback
    <2>1. /\ pc' = "dispatch" /\ response' = {} /\ UNCHANGED call
      BY <1>4 DEF RxCallback, EndInv, InCall
    <2>2. /\ rx' = Append(rx, Head(rxq)) /\ Accepts(Head(rxq))
          \/ rx' = rx
      BY <1>4 DEF RxCallback
    <2>3. Head(rxq) \in Frame /\ rx \in Seq(Frame)
      BY <1>4, QueueType DEF RxCallback, TypeInv, TypeOK
    <2>4. \A f \in Elements(rx') : Accepts(f)
      <3>1. CASE rx' = rx
        BY <3>1 DEF EndInv
      <3>2. CASE rx' = Append(rx, Head(rxq)) /\ Accepts(Head(rxq))
        BY <2>3, <3>2, AddFrame DEF EndInv
      <3> QED BY <2>2, <3>1, <3>2
    <2>5. (\A f \in Elements(rx) : Accepts(f))'
      BY <2>1, <2>4 DEF Accepts
    <2> QED BY <2>1, <2>5 DEF EndInv, Returned
  <1>5. CASE Dispatched \/ NothingToDispatch \/ LoopBroken \/ CheckLoop
    <2>1. /\ pc \in {"dispatch", "clock"}
          /\ pc' \in {"dispatch", "clock", "assemble"}
          /\ UNCHANGED <<call, rx, response, elapsed>>
      BY <1>5 DEF Dispatched, NothingToDispatch, LoopBroken, CheckLoop, program
    <2>2. (pc' = "assemble" /\ elapsed <= call.timeout) => rx # <<>>
      <3>1. CASE Dispatched
        <4>1. pc' = "assemble" => rx # <<>> \/ Len(rx) > 0
          BY <3>1 DEF Dispatched, Breaks
        <4> QED BY <4>1, EmptySeq
      <3>2. CASE CheckLoop
        <4>1. pc' = "assemble" =>
                  elapsed > call.timeout \/ (call.num # 0 /\ Len(rx) >= call.num)
          BY <3>2 DEF CheckLoop, Expired, Stop
        <4>2. /\ call.timeout \in Nat /\ call.num \in Nat /\ elapsed \in Nat
          BY CallFacts DEF TypeInv, TypeOK
        <4>3. rx = <<>> => Len(rx) = 0
          BY EmptySeq
        <4> QED BY <4>1, <4>2, <4>3
      <3>3. CASE NothingToDispatch \/ LoopBroken
        BY <3>3 DEF NothingToDispatch, LoopBroken
      <3> QED BY <1>5, <3>1, <3>2, <3>3
    <2> QED BY <2>1, <2>2 DEF EndInv, Returned, Accepts, InCall
  <1>6. CASE Assemble
    <2>1. /\ pc = "assemble" /\ pc' = "idle" /\ response' = Packets(rx)
          /\ UNCHANGED <<call, calls, status, rx, elapsed>>
      BY <1>6 DEF Assemble
    <2> QED BY <2>1 DEF EndInv, Returned, Accepts, InCall
  <1>7. CASE Crash \/ Close
    <2>1. pc' \in {"crashed", "closed"} /\ UNCHANGED <<call, rx, response>>
      BY <1>7 DEF Crash, Close, program
    <2> QED BY <2>1 DEF EndInv, Returned, Accepts, InCall
  <1>8. CASE Tick
    <2>1. /\ pc \in {"dispatch", "clock"} /\ UNCHANGED <<pc, call, rx, response>>
      BY <1>8 DEF Tick
    <2> QED BY <2>1 DEF EndInv, Returned, Accepts, InCall
  <1>9. CASE Answer \/ Arrive \/ Lose \/ UNCHANGED vars
    <2>1. UNCHANGED <<pc, program>>
      BY <1>9 DEF Answer, Arrive, Lose, vars
    <2> QED BY <2>1 DEF EndInv, Returned, Accepts, InCall, program
  <1> QED BY <1>1, <1>2, <1>3, <1>4, <1>5, <1>6, <1>7, <1>8, <1>9, StepCases
          DEF Elsewhere

\* The invariant holds on every channel.
THEOREM AnswerInvariance == Spec => []AnswerInv
  <1>1. Init => AnswerInv
    <2> SUFFICES ASSUME Init, TypeInv PROVE AnswerInv
      BY TypeInit
    <2>1. RequestInv
      BY SndRcvAssumption DEF Init, RequestInv
    <2>2. InFlight = {}
      BY EmptyQueue DEF Init, InFlight
    <2>3. FramesInv
      BY <2>2, EmptyQueue DEF Init, FramesInv
    <2>4. OrderInv
      BY EmptyQueue DEF Init, OrderInv
    <2>5. EndInv
      BY EmptyQueue DEF Init, EndInv, Returned, InCall
    <2> QED BY <2>1, <2>3, <2>4, <2>5 DEF AnswerInv
  <1>2. AnswerInv /\ [Next]_vars => AnswerInv'
    BY TypeStep, RequestStep, FramesStep, EndStep DEF AnswerInv
  <1> QED BY <1>1, <1>2, PTL DEF Spec

-----------------------------------------------------------------------------
(* The answers of a call.                                                  *)

\* A group of the frames received is the fragments of one answer, and each
\* part of it is of a finite number of positions.
LEMMA GroupIsOneAnswer ==
    ASSUME AnswerInv, NumbersDiffer, NEW h \in DOMAIN rx
    PROVE  /\ GroupOf(rx, h) = {j \in DOMAIN rx : rx[j].of = rx[h].of}
           /\ GroupOf(rx, h) \in SUBSET Nat /\ IsFiniteSet(GroupOf(rx, h))
           /\ h \in GroupOf(rx, h)
           /\ \A j \in GroupOf(rx, h) : rx[j].nf = rx[h].nf
  <1>1. rx \in Seq(Frame) /\ DOMAIN rx = 1..Len(rx) /\ Len(rx) \in Nat
    BY LenProperties DEF AnswerInv, TypeInv, TypeOK
  <1>2. \A j \in DOMAIN rx : rx[j] \in Elements(rx) /\ rx[j] \in InFlight
    BY DEF Elements, InFlight
  <1>3. ASSUME NEW j \in DOMAIN rx
        PROVE  Key(rx[j]) = Key(rx[h]) <=> rx[j].of = rx[h].of
    <2>1. ASSUME Key(rx[j]) = Key(rx[h]) PROVE rx[j].of = rx[h].of
      BY <1>2, <2>1 DEF Key, NumbersDiffer
    <2>2. ASSUME rx[j].of = rx[h].of PROVE Key(rx[j]) = Key(rx[h])
      <3>1. rx[j].fmsn = rx[h].fmsn
        BY <1>2, <2>2 DEF AnswerInv, FramesInv
      <3>2. /\ rx[j].dst = rx[h].dst /\ rx[j].src = rx[h].src
            /\ rx[j].mmv = rx[h].mmv /\ rx[j].mmtype = rx[h].mmtype
        BY <1>2, <2>2 DEF AnswerInv, FramesInv
      <3> QED BY <3>1, <3>2 DEF Key
    <2> QED BY <2>1, <2>2
  <1>4. GroupOf(rx, h) = {j \in DOMAIN rx : rx[j].of = rx[h].of}
    BY <1>3 DEF GroupOf
  <1>5. IsFiniteSet(GroupOf(rx, h))
    <2>1. IsFiniteSet(1..Len(rx))
      BY <1>1, FS_Interval
    <2> QED BY <1>1, <1>4, <2>1, FS_Subset
  <1>6. \A j \in GroupOf(rx, h) : rx[j].nf = rx[h].nf
    BY <1>2, <1>4 DEF AnswerInv, FramesInv
  <1> QED BY <1>1, <1>4, <1>5, <1>6

\* What hpav_defrag_frames builds from the frames received is the whole of one
\* answer, to this host and of the type asked for.
LEMMA PacketIsAnAnswer ==
    ASSUME AnswerInv, NumbersDiffer, NEW p \in Packets(rx)
    PROVE  /\ \A j \in DOMAIN p : p[j] \in Elements(rx)
           /\ \E f \in {p[j] : j \in DOMAIN p} :
                  /\ f.of.host = Host
                  /\ f.of.type = call.type
                  /\ {<<p[j].of, p[j].fn>> : j \in DOMAIN p} =
                     {f.of} \X (0..f.nf)
                  /\ Cardinality(DOMAIN p) = f.nf + 1
  <1>1. PICK h \in DOMAIN rx : Complete(rx, h) /\ p = PacketAt(rx, h)
    BY DEF Packets, Heads
  <1> DEFINE G == GroupOf(rx, h)
             f == rx[h]
  <1>2. /\ G = {j \in DOMAIN rx : rx[j].of = f.of}
        /\ G \in SUBSET Nat /\ IsFiniteSet(G) /\ h \in G
    BY GroupIsOneAnswer
  <1>3. DOMAIN p = G /\ \A j \in G : p[j] = rx[j]
    BY <1>1 DEF PacketAt
  <1>4. /\ \A j \in G : rx[j].fn = Rank(G, j)
        /\ Cardinality(G) = f.nf + 1
    BY <1>1 DEF Complete, Rank
  <1>5. f.nf \in Nat
    <2>1. f \in Frame
      BY DEF AnswerInv, TypeInv, TypeOK
    <2> QED BY <2>1, SndRcvAssumption DEF Frame
  <1>6. {Rank(G, j) : j \in G} = 0..f.nf
    <2>1. {Rank(G, j) : j \in G} = 0..(Cardinality(G) - 1)
      BY <1>2, RanksCover
    <2> QED BY <1>4, <1>5, <2>1
  <1>7. {<<p[j].of, p[j].fn>> : j \in DOMAIN p} = {f.of} \X (0..f.nf)
    <2>1. \A j \in G : p[j].of = f.of /\ p[j].fn = Rank(G, j)
      BY <1>2, <1>3, <1>4
    <2>2. {<<p[j].of, p[j].fn>> : j \in DOMAIN p} =
          {<<f.of, Rank(G, j)>> : j \in G}
      BY <1>3, <2>1
    <2> HIDE DEF G
    <2> QED BY <1>6, <2>2
  <1>8. f.of.host = Host /\ f.of.type = call.type
    <2>1. f \in Elements(rx) /\ f \in InFlight
      BY DEF Elements, InFlight
    <2> QED BY <2>1 DEF AnswerInv, EndInv, FramesInv, Accepts
  <1>9. f \in {p[j] : j \in DOMAIN p}
    BY <1>2, <1>3
  <1>10. \A j \in DOMAIN p : p[j] \in Elements(rx)
    BY <1>2, <1>3 DEF Elements
  <1> QED BY <1>3, <1>4, <1>7, <1>8, <1>9, <1>10

\* Every packet a call returns is the whole of one answer, to this host and of
\* the type asked for, as long as the numbers of the messages received differ.
THEOREM PacketsWhole == Spec => [](NumbersDiffer => PacketsAreWhole)
  <1>1. ASSUME AnswerInv, NumbersDiffer PROVE PacketsAreWhole
    <2>1. response \subseteq Packets(rx)
      BY <1>1 DEF AnswerInv, EndInv
    <2> QED BY <1>1, <2>1, PacketIsAnAnswer DEF PacketsAreWhole
  <1> QED BY <1>1, AnswerInvariance, PTL

\* An answer all of whose frames were received is a packet: its frames came in
\* order, and there are as many as the first of them says.
LEMMA WholeIsAPacket ==
    ASSUME AnswerInv, NumbersDiffer, NEW i \in DOMAIN rx,
           Cardinality({j \in DOMAIN rx : rx[j].of = rx[i].of}) = rx[i].nf + 1
    PROVE  [j \in {k \in DOMAIN rx : rx[k].of = rx[i].of} |-> rx[j]]
           \in Packets(rx)
  <1> DEFINE G == GroupOf(rx, i)
  <1>1. /\ G = {j \in DOMAIN rx : rx[j].of = rx[i].of}
        /\ G \in SUBSET Nat /\ IsFiniteSet(G) /\ i \in G
        /\ \A j \in G : rx[j].nf = rx[i].nf
    BY GroupIsOneAnswer
  <1>2. PICK h \in G : \A j \in G : h <= j
    <2> HIDE DEF G
    <2> QED BY <1>1, LeastExists
  <1>3. h \in DOMAIN rx /\ GroupOf(rx, h) = G
    BY <1>1, <1>2 DEF GroupOf
  <1>4. h \in Heads(rx)
    BY <1>2, <1>3 DEF Heads
  <1>5. rx[i].nf \in Nat /\ Cardinality(G) = rx[i].nf + 1
    <2>1. rx[i] \in Frame
      BY DEF AnswerInv, TypeInv, TypeOK
    <2> QED BY <1>1, <2>1, SndRcvAssumption DEF Frame
  <1> DEFINE fn == [j \in G |-> rx[j].fn]
  <1>6. fn \in [G -> 0..(Cardinality(G) - 1)]
    <2>1. \A j \in G : rx[j].fn \in 0..rx[i].nf
      BY <1>1 DEF AnswerInv, FramesInv, InFlight, Elements
    <2> QED BY <1>5, <2>1
  <1>7. \A j, l \in G : j < l => fn[j] < fn[l]
    BY <1>1 DEF AnswerInv, OrderInv, Ordered
  <1>8. \A j \in G : rx[j].fn = Rank(G, j)
    <2>1. \A j \in G : fn[j] = Rank(G, j)
      <3> HIDE DEF G, fn
      <3> QED BY <1>1, <1>6, <1>7, IncreasingIsRank
    <2> QED BY <2>1
  <1>9. Complete(rx, h)
    BY <1>1, <1>2, <1>3, <1>5, <1>8 DEF Complete, Rank
  <1>10. PacketAt(rx, h) = [j \in {k \in DOMAIN rx : rx[k].of = rx[i].of} |-> rx[j]]
    BY <1>1, <1>3 DEF PacketAt
  <1> QED BY <1>4, <1>9, <1>10 DEF Packets

\* No answer that a call has received in whole is missing from what it returns,
\* as long as the numbers of the messages received differ.
THEOREM WholeReturned == Spec => [](NumbersDiffer => WholeAnswersAreReturned)
  <1>1. ASSUME AnswerInv, NumbersDiffer PROVE WholeAnswersAreReturned
    <2> SUFFICES
          ASSUME Returned, call.timeout > 0, NEW i \in DOMAIN rx,
                 Cardinality({j \in DOMAIN rx : rx[j].of = rx[i].of}) =
                     rx[i].nf + 1
          PROVE  [j \in {k \in DOMAIN rx : rx[k].of = rx[i].of} |-> rx[j]]
                 \in response
      BY DEF WholeAnswersAreReturned
    <2>1. response = Packets(rx)
      BY <1>1 DEF AnswerInv, EndInv
    <2> QED BY <1>1, <2>1, WholeIsAPacket
  <1> QED BY <1>1, AnswerInvariance, PTL

\* A call takes no more frames of an answer than the answer has.
LEMMA NoMoreThanWhole ==
    ASSUME AnswerInv, NEW i \in DOMAIN rx
    PROVE  LET taken == {j \in DOMAIN rx : rx[j].of = rx[i].of} IN
           Cardinality(taken) \in Nat /\ Cardinality(taken) <= rx[i].nf + 1
  <1> DEFINE taken == {j \in DOMAIN rx : rx[j].of = rx[i].of}
             fn == [j \in taken |-> rx[j].fn]
  <1>1. rx \in Seq(Frame) /\ DOMAIN rx = 1..Len(rx) /\ Len(rx) \in Nat
    <2>1. rx \in Seq(Frame)
      BY DEF AnswerInv, TypeInv, TypeOK
    <2> QED BY <2>1, LenProperties
  <1>2. rx[i].nf \in Nat
    <2>1. rx[i] \in Frame
      BY <1>1
    <2> QED BY <2>1, SndRcvAssumption DEF Frame
  <1>3. \A j \in taken : rx[j].fn \in 0..rx[i].nf
    BY DEF AnswerInv, FramesInv, InFlight, Elements
  <1>4. \A j, l \in taken : j < l => rx[j].fn < rx[l].fn
    BY DEF AnswerInv, OrderInv, Ordered
  <1>5. \A j, l \in taken : rx[j].fn = rx[l].fn => j = l
    <2> SUFFICES ASSUME NEW j \in taken, NEW l \in taken, rx[j].fn = rx[l].fn
                 PROVE  j = l
      OBVIOUS
    <2>1. j \in Nat /\ l \in Nat /\ rx[j].fn \in Nat
      BY <1>1, <1>2, <1>3
    <2> QED BY <1>4, <2>1
  <1>6. fn \in Injection(taken, 0..rx[i].nf)
    <2>1. fn \in [taken -> 0..rx[i].nf]
      BY <1>3
    <2>2. \A j, l \in taken : fn[j] = fn[l] => j = l
      BY <1>5
    <2> HIDE DEF taken, fn
    <2>3. DOMAIN fn = taken
      BY <2>1
    <2>4. IsInjective(fn)
      BY <2>2, <2>3 DEF IsInjective
    <2> QED BY <2>1, <2>4 DEF Injection
  <1>7. IsFiniteSet(0..rx[i].nf) /\ Cardinality(0..rx[i].nf) = rx[i].nf + 1
    <2> DEFINE n == rx[i].nf
    <2>1. 0 \in Int /\ n \in Int /\ ~(0 > n) /\ n - 0 + 1 = n + 1
      BY <1>2
    <2> HIDE DEF n
    <2>2. /\ IsFiniteSet(0..n)
          /\ Cardinality(0..n) = IF 0 > n THEN 0 ELSE n - 0 + 1
      BY <2>1, FS_Interval
    <2>3. Cardinality(0..n) = n + 1
      BY <2>1, <2>2
    <2> QED BY <2>2, <2>3 DEF n
  <1> HIDE DEF taken, fn
  <1>8. IsFiniteSet(taken) /\ Cardinality(taken) <= Cardinality(0..rx[i].nf)
    BY <1>6, <1>7, FS_Injection
  <1>9. Cardinality(taken) \in Nat
    BY <1>8, FS_CardinalityType
  <1> QED BY <1>7, <1>8, <1>9 DEF taken

\* A call that returns nothing before its time is over has taken frames, each
\* of an answer that was cut short (hpav_mme.h:355-398).  Answers may have any
\* numbers of fragments, and the network may lose any of them.
THEOREM EmptyIsCutShort == Spec => [](NumbersDiffer => EarlyEmptyIsCutShort)
  <1>1. ASSUME AnswerInv, NumbersDiffer PROVE EarlyEmptyIsCutShort
    <2> SUFFICES ASSUME Returned, response = {}, elapsed <= call.timeout,
                        call.timeout > 0
                 PROVE  /\ rx # <<>>
                        /\ \A i \in DOMAIN rx :
                               Cardinality({j \in DOMAIN rx : rx[j].of = rx[i].of})
                                   <= rx[i].nf
      BY DEF EarlyEmptyIsCutShort
    <2>1. Packets(rx) = {} /\ rx # <<>>
      BY <1>1 DEF AnswerInv, EndInv
    <2>2. ASSUME NEW i \in DOMAIN rx
          PROVE  Cardinality({j \in DOMAIN rx : rx[j].of = rx[i].of}) <= rx[i].nf
      <3> DEFINE count == Cardinality({j \in DOMAIN rx : rx[j].of = rx[i].of})
      <3>1. count # rx[i].nf + 1
        BY <1>1, <2>1, WholeIsAPacket, Zenon
      <3>2. count \in Nat /\ count <= rx[i].nf + 1
        BY <1>1, NoMoreThanWhole
      <3>3. rx[i].nf \in Nat
        <4>1. rx[i] \in Frame
          BY <1>1 DEF AnswerInv, TypeInv, TypeOK
        <4> QED BY <4>1, SndRcvAssumption DEF Frame
      <3> HIDE DEF count
      <3>4. count <= rx[i].nf
        BY <3>1, <3>2, <3>3
      <3> QED BY <3>4 DEF count
    <2> QED BY <2>1, <2>2
  <1> QED BY <1>1, AnswerInvariance, PTL

-----------------------------------------------------------------------------
(* The numbers of the messages.                                            *)

AskedOf(s) == {r \in pending \cup answered : r.sta = s}

AnsweredOf(s) == {r \in answered : r.sta = s}

\* A request that the current call will send is not counted yet.
Unsent == IF pc \in {"setup", "send"} THEN 1 ELSE 0

\* A station is asked at most once by each call, and counts its answers.
CountInv ==
    \A s \in Sta :
        /\ IsFiniteSet(AskedOf(s))
        /\ Cardinality(AskedOf(s)) + Unsent
           <= calls + Cardinality({r \in Unasked : r.sta = s})
        /\ fmsn[s] = Cardinality(AnsweredOf(s)) % FmsnMod

\* No number was used for two answers.
NumberInv ==
    /\ \A f \in InFlight : f.fmsn < Cardinality(AnsweredOf(f.src))
    /\ \A f, g \in InFlight :
           f.src = g.src /\ f.fmsn = g.fmsn => f.of = g.of

\* What the counts are numbers of.
LEMMA CountFacts ==
    ASSUME AnswerInv, CountInv, NumbersFit, NEW s \in Sta
    PROVE  /\ Cardinality(AskedOf(s)) \in Nat
           /\ Cardinality({r \in Unasked : r.sta = s}) \in Nat
           /\ IsFiniteSet(AnsweredOf(s)) /\ Cardinality(AnsweredOf(s)) \in Nat
           /\ Cardinality(AskedOf(s)) <= FmsnMod
           /\ calls \in Nat /\ Unsent \in {0, 1}
           /\ FmsnMod \in Nat \ {0}
  <1>1. IsFiniteSet(AskedOf(s)) /\ Cardinality(AskedOf(s)) \in Nat
    BY FS_CardinalityType DEF CountInv
  <1>2. AnsweredOf(s) \in SUBSET AskedOf(s)
    BY DEF AnsweredOf, AskedOf
  <1>3. IsFiniteSet(AnsweredOf(s)) /\ Cardinality(AnsweredOf(s)) \in Nat
    BY <1>1, <1>2, FS_Subset, FS_CardinalityType
  <1>4. Cardinality({r \in Unasked : r.sta = s}) \in Nat
    <2>1. IsFiniteSet({r \in Unasked : r.sta = s})
      BY FS_Subset DEF NumbersFit
    <2> QED BY <2>1, FS_CardinalityType
  <1>5. calls \in 0..MaxCalls /\ MaxCalls \in Nat /\ FmsnMod \in Nat \ {0}
    BY SndRcvAssumption DEF AnswerInv, TypeInv, TypeOK
  <1>6. Unsent \in {0, 1}
    BY DEF Unsent
  <1>7. /\ Cardinality(AskedOf(s)) + Unsent
           <= calls + Cardinality({r \in Unasked : r.sta = s})
        /\ MaxCalls + Cardinality({r \in Unasked : r.sta = s}) <= FmsnMod
    BY DEF CountInv, NumbersFit
  <1> QED BY <1>1, <1>3, <1>4, <1>5, <1>6, <1>7

\* A step that is no answer asks a station at most once, for its call.
LEMMA CountStep ==
    ASSUME AnswerInv, CountInv, NumbersFit, [Next]_vars, ~Answer
    PROVE  CountInv' /\ answered' = answered
  <1>1. answered' = answered /\ fmsn' = fmsn
    <2>1. Call \/ SetFilter \/ Send \/ PcapError \/ RxCallback \/ Assemble
          \/ Crash \/ Close \/ Tick \/ Arrive \/ Lose
          => answered' = answered /\ fmsn' = fmsn
      BY DEF Call, SetFilter, Send, PcapError, Fail, RxCallback, Assemble,
             Crash, Close, Tick, Arrive, Lose, network
    <2>2. Dispatched \/ NothingToDispatch \/ LoopBroken \/ CheckLoop
          \/ UNCHANGED vars
          => answered' = answered /\ fmsn' = fmsn
      BY DEF Dispatched, NothingToDispatch, LoopBroken, CheckLoop, vars, network
    <2> QED BY <2>1, <2>2, StepCases DEF Elsewhere
  <1> SUFFICES ASSUME NEW s \in Sta
               PROVE  /\ IsFiniteSet(AskedOf(s)')
                      /\ Cardinality(AskedOf(s)') + Unsent'
                         <= calls' + Cardinality({r \in Unasked : r.sta = s})
    BY <1>1 DEF CountInv, AnsweredOf
  <1> DEFINE u == Cardinality({r \in Unasked : r.sta = s})
  <1>2. /\ IsFiniteSet(AskedOf(s)) /\ Cardinality(AskedOf(s)) \in Nat
        /\ u \in Nat /\ calls \in Nat
        /\ Cardinality(AskedOf(s)) + Unsent <= calls + u
    BY CountFacts DEF CountInv
  <1> HIDE DEF u
  <1>3. CASE Call
    <2>1. /\ calls' = calls + 1 /\ pc' = "setup" /\ pc = "idle"
          /\ pending' = pending
      BY <1>3 DEF Call, network
    <2>2. Unsent = 0 /\ Unsent' = 1 /\ AskedOf(s)' = AskedOf(s)
      BY <1>1, <2>1 DEF Unsent, AskedOf
    <2> QED BY <1>2, <2>1, <2>2 DEF u
  <1>4. CASE Send
    <2>1. /\ pc = "send" /\ pc' \notin {"setup", "send"} /\ calls' = calls
          /\ pending' = pending \cup
                        {RequestTo(t) : t \in Receivers(call.sta)}
      BY <1>4 DEF Send, Receive
    <2>2. Unsent = 1 /\ Unsent' = 0
      BY <2>1 DEF Unsent
    <2>3. \A t \in Receivers(call.sta) :
              RequestTo(t).sta = s => RequestTo(t) = RequestTo(s)
      BY DEF RequestTo
    <2>4. AskedOf(s)' \in SUBSET (AskedOf(s) \cup {RequestTo(s)})
      BY <1>1, <2>1, <2>3 DEF AskedOf
    <2>5. /\ IsFiniteSet(AskedOf(s) \cup {RequestTo(s)})
          /\ Cardinality(AskedOf(s) \cup {RequestTo(s)})
             <= Cardinality(AskedOf(s)) + 1
      <3> DEFINE old == AskedOf(s)
                 asked == RequestTo(s)
      <3>1. IsFiniteSet(old) /\ Cardinality(old) \in Nat
        BY <1>2
      <3> HIDE DEF old, asked
      <3>2. /\ IsFiniteSet(old \cup {asked})
            /\ Cardinality(old \cup {asked}) =
                   IF asked \in old THEN Cardinality(old)
                   ELSE Cardinality(old) + 1
        BY <3>1, FS_AddElement
      <3>3. Cardinality(old \cup {asked}) <= Cardinality(old) + 1
        BY <3>1, <3>2
      <3> QED BY <3>2, <3>3 DEF old, asked
    <2>6. /\ IsFiniteSet(AskedOf(s)')
          /\ Cardinality(AskedOf(s)') <=
             Cardinality(AskedOf(s) \cup {RequestTo(s)})
      BY <2>4, <2>5, FS_Subset
    <2>7. /\ Cardinality(AskedOf(s)') \in Nat
          /\ Cardinality(AskedOf(s) \cup {RequestTo(s)}) \in Nat
      BY <2>5, <2>6, FS_CardinalityType
    <2> QED BY <1>2, <2>1, <2>2, <2>5, <2>6, <2>7 DEF u
  <1>5. CASE SetFilter \/ Elsewhere
    <2>1. /\ UNCHANGED <<calls, pending>>
          /\ pc' \in {"setup", "send"} => pc \in {"setup", "send"}
      <3>1. CASE SetFilter \/ PcapError \/ RxCallback \/ Assemble \/ Crash
                 \/ Close
        BY <3>1 DEF SetFilter, PcapError, Fail, RxCallback, Assemble, Crash,
                    Close, program, network
      <3>2. CASE Dispatched \/ NothingToDispatch \/ LoopBroken \/ CheckLoop
        BY <3>2 DEF Dispatched, NothingToDispatch, LoopBroken, CheckLoop,
                    program, network
      <3>3. CASE Tick \/ Arrive \/ Lose \/ UNCHANGED vars
        BY <3>3 DEF Tick, Arrive, Lose, vars, program, network
      <3> QED BY <1>5, <3>1, <3>2, <3>3 DEF Elsewhere
    <2>2. Unsent' <= Unsent /\ Unsent \in {0, 1} /\ Unsent' \in {0, 1}
      BY <2>1 DEF Unsent
    <2>3. AskedOf(s)' = AskedOf(s)
      BY <1>1, <2>1 DEF AskedOf
    <2> QED BY <1>2, <2>1, <2>2, <2>3 DEF u
  <1> QED BY <1>3, <1>4, <1>5, StepCases

\* An answer has a number that none of the frames of its station has.
LEMMA NumberStep ==
    ASSUME AnswerInv, CountInv, NumberInv, NumbersFit, Answer
    PROVE  CountInv' /\ NumberInv'
  <1>1. PICK r \in pending, nf \in Sizes :
            /\ pending' = pending \ {r}
            /\ answered' = answered \cup {r}
            /\ net' = [net EXCEPT ![r.sta] = @ \o AnswerFrames(r, nf)]
            /\ fmsn' = [fmsn EXCEPT ![r.sta] = (@ + 1) % FmsnMod]
    BY DEF Answer
  <1>2. UNCHANGED <<pc, calls, rx, rxq>>
    BY DEF Answer, program
  <1>3. r \in Request /\ r.sta \in Sta /\ r \notin answered
    BY DEF AnswerInv, RequestInv, TypeInv, TypeOK, Request
  <1> DEFINE c == Cardinality(AnsweredOf(r.sta))
  <1>4. \A s \in Sta : AskedOf(s)' = AskedOf(s)
    BY <1>1 DEF AskedOf
  <1>5. \A s \in Sta : s # r.sta => AnsweredOf(s)' = AnsweredOf(s)
    BY <1>1 DEF AnsweredOf
  <1>6. c \in Nat /\ Cardinality(AnsweredOf(r.sta)') = c + 1
    <2>1. AnsweredOf(r.sta)' = AnsweredOf(r.sta) \cup {r}
      BY <1>1 DEF AnsweredOf
    <2>2. r \notin AnsweredOf(r.sta)
      BY <1>3 DEF AnsweredOf
    <2>3. IsFiniteSet(AnsweredOf(r.sta)) /\ c \in Nat
      BY <1>3, CountFacts
    <2>4. Cardinality(AnsweredOf(r.sta) \cup {r}) = c + 1
      BY <2>2, <2>3, FS_AddElement
    <2> QED BY <2>1, <2>3, <2>4
  <1>7. c < FmsnMod /\ FmsnMod \in Nat \ {0}
    <2>1. AnsweredOf(r.sta) \in SUBSET AskedOf(r.sta)
      BY DEF AnsweredOf, AskedOf
    <2>2. r \in AskedOf(r.sta) /\ r \notin AnsweredOf(r.sta)
      BY <1>3 DEF AskedOf, AnsweredOf
    <2>3. /\ IsFiniteSet(AskedOf(r.sta)) /\ Cardinality(AskedOf(r.sta)) \in Nat
          /\ Cardinality(AskedOf(r.sta)) <= FmsnMod /\ FmsnMod \in Nat \ {0}
      BY <1>3, CountFacts DEF CountInv
    <2>4. c <= Cardinality(AskedOf(r.sta)) /\ c # Cardinality(AskedOf(r.sta))
      BY <2>1, <2>2, <2>3, FS_Subset
    <2> QED BY <1>6, <2>3, <2>4
  <1>8. fmsn[r.sta] = c
    <2>1. \A x, m \in Nat : x < m => x % m = x
      OBVIOUS
    <2>2. fmsn[r.sta] = c % FmsnMod
      BY <1>3 DEF CountInv
    <2> HIDE DEF c
    <2> QED BY <1>6, <1>7, <2>1, <2>2
  <1>9. CountInv'
    <2> SUFFICES ASSUME NEW s \in Sta
                 PROVE  /\ IsFiniteSet(AskedOf(s)')
                        /\ Cardinality(AskedOf(s)') + Unsent'
                           <= calls' + Cardinality({q \in Unasked : q.sta = s})
                        /\ fmsn'[s] = Cardinality(AnsweredOf(s)') % FmsnMod
      BY DEF CountInv
    <2>1. Unsent' = Unsent
      BY <1>2 DEF Unsent
    <2>2. fmsn'[s] = Cardinality(AnsweredOf(s)') % FmsnMod
      <3>1. CASE s = r.sta
        <4>1. fmsn'[s] = (c + 1) % FmsnMod
          BY <1>1, <1>3, <1>8, <3>1 DEF AnswerInv, TypeInv, TypeOK
        <4> QED BY <1>6, <3>1, <4>1
      <3>2. CASE s # r.sta
        <4>1. fmsn'[s] = fmsn[s]
          BY <1>1, <3>2 DEF AnswerInv, TypeInv, TypeOK
        <4> QED BY <1>5, <3>2, <4>1 DEF CountInv
      <3> QED BY <3>1, <3>2
    <2>3. IsFiniteSet(AskedOf(s)') /\ AskedOf(s)' = AskedOf(s)
      BY <1>4 DEF CountInv
    <2> QED BY <1>2, <2>1, <2>2, <2>3 DEF CountInv
  <1> DEFINE new == AnswerFrames(r, nf)
  <1>10. \A f \in Elements(new) : f.of = r /\ f.src = r.sta /\ f.fmsn = c
    BY <1>3, <1>8, AnswerElements DEF AnswerInv
  <1>11. InFlight' \subseteq InFlight \cup Elements(new)
    <2>1. net[r.sta] \in Seq(Frame) /\ new \in Seq(Frame)
      BY <1>3, AnswerElements DEF AnswerInv, TypeInv, TypeOK
    <2>2. net'[r.sta] = net[r.sta] \o new
          /\ \A s \in Sta : s # r.sta => net'[s] = net[s]
      BY <1>1, <1>3 DEF AnswerInv, TypeInv, TypeOK
    <2> HIDE DEF new
    <2>3. Elements(net'[r.sta]) = Elements(net[r.sta]) \cup Elements(new)
      BY <2>1, <2>2, AddQueue
    <2>4. \A s \in Sta :
              Elements(net'[s]) \subseteq Elements(net[s]) \cup Elements(new)
      BY <2>2, <2>3
    <2> QED BY <1>2, <2>4 DEF InFlight
  <1> HIDE DEF new, c
  <1>12. \A f \in InFlight : f.src \in Sta /\ f.fmsn \in Nat
    <2>1. \A f \in InFlight : f \in Frame
      BY DEF AnswerInv, TypeInv, TypeOK, InFlight, Elements
    <2>2. \A f \in Frame : f.src \in Sta /\ f.fmsn \in Nat
      BY SndRcvAssumption DEF Frame
    <2> QED BY <2>1, <2>2
  <1>13. ASSUME NEW f \in InFlight'
         PROVE  f.fmsn < Cardinality(AnsweredOf(f.src)')
    <2>1. CASE f \in Elements(new)
      BY <1>6, <1>10, <2>1
    <2>2. CASE f \in InFlight /\ f.src = r.sta
      <3>1. f.fmsn < c
        BY <2>2 DEF NumberInv, c
      <3> QED BY <1>6, <1>12, <2>2, <3>1
    <2>3. CASE f \in InFlight /\ f.src # r.sta
      BY <1>5, <1>12, <2>3 DEF NumberInv
    <2> QED BY <1>11, <2>1, <2>2, <2>3
  <1>14. ASSUME NEW f \in InFlight', NEW g \in InFlight',
                f.src = g.src, f.fmsn = g.fmsn
         PROVE  f.of = g.of
    <2>1. CASE f \in InFlight /\ g \in InFlight
      BY <1>14, <2>1 DEF NumberInv
    <2>2. CASE f \in Elements(new) /\ g \in Elements(new)
      BY <1>10, <2>2
    <2>3. ASSUME NEW x \in InFlight, NEW y \in Elements(new), x.src = y.src
          PROVE  x.fmsn # y.fmsn
      <3>1. x.fmsn < c
        BY <1>10, <2>3 DEF NumberInv, c
      <3> QED BY <1>6, <1>10, <1>12, <3>1
    <2> QED BY <1>11, <1>14, <2>1, <2>2, <2>3
  <1>15. NumberInv'
    BY <1>13, <1>14 DEF NumberInv
  <1> QED BY <1>9, <1>15

\* The numbers of the messages of a station differ among the frames of a call
\* when the channel is closed before the station runs out of numbers: with the
\* 8 bits of fmsn, after 256 messages of a station at the latest.
THEOREM NumbersStayApart ==
    ASSUME NumbersFit
    PROVE  Spec => []NumbersDiffer
  <1> DEFINE NInv == AnswerInv /\ CountInv /\ NumberInv
  <1>1. Init /\ AnswerInv => NInv
    <2> SUFFICES ASSUME Init, AnswerInv PROVE CountInv /\ NumberInv
      OBVIOUS
    <2>1. InFlight = {}
      BY EmptyQueue DEF Init, InFlight
    <2>2. ASSUME NEW s \in Sta
          PROVE  /\ IsFiniteSet(AskedOf(s))
                 /\ Cardinality(AskedOf(s)) + Unsent
                    <= calls + Cardinality({r \in Unasked : r.sta = s})
                 /\ fmsn[s] = Cardinality(AnsweredOf(s)) % FmsnMod
      <3>1. AskedOf(s) = {r \in Unasked : r.sta = s} /\ AnsweredOf(s) = {}
        BY DEF Init, AskedOf, AnsweredOf
      <3>2. IsFiniteSet({r \in Unasked : r.sta = s})
        BY FS_Subset DEF NumbersFit
      <3>3. Cardinality({r \in Unasked : r.sta = s}) \in Nat
        BY <3>2, FS_CardinalityType
      <3>4. fmsn[s] = 0 /\ Unsent = 0 /\ calls = 0
        BY DEF Init, Unsent
      <3>5. Cardinality({}) = 0
        BY FS_EmptySet
      <3>6. 0 % FmsnMod = 0
        BY SndRcvAssumption
      <3> QED BY <3>1, <3>2, <3>3, <3>4, <3>5, <3>6
    <2> QED BY <2>1, <2>2 DEF CountInv, NumberInv
  <1>2. NInv /\ [Next]_vars /\ AnswerInv' => NInv'
    <2> SUFFICES ASSUME AnswerInv, CountInv, NumberInv, [Next]_vars
                 PROVE  CountInv' /\ NumberInv'
      OBVIOUS
    <2>1. CASE Answer
      BY <2>1, NumberStep
    <2>2. CASE ~Answer
      <3>1. CountInv' /\ answered' = answered
        BY <2>2, CountStep
      <3>2. InFlight' \subseteq InFlight
        BY <2>2, FramesStep
      <3>3. NumberInv'
        BY <3>1, <3>2 DEF NumberInv, AnsweredOf
      <3> QED BY <3>1, <3>3
    <2> QED BY <2>1, <2>2
  <1>3. NInv => NumbersDiffer
    BY DEF NumberInv, NumbersDiffer, InFlight
  <1> QED BY <1>1, <1>2, <1>3, AnswerInvariance, PTL DEF Spec

\* On such a channel a call returns the answers that it received in whole, and
\* nothing else.
THEOREM AnswersAreWhole ==
    ASSUME NumbersFit
    PROVE  Spec => [](PacketsAreWhole /\ WholeAnswersAreReturned)
  BY NumbersStayApart, PacketsWhole, WholeReturned, PTL

-----------------------------------------------------------------------------
(* Seen by the program, the calls are an Exchange.                         *)

\* What frames agree about.
Agree(F) ==
    /\ \A f \in F : f.fn \in 0..f.nf
    /\ \A f, g \in F : f.of = g.of => f.nf = g.nf

\* An answer has all its fragments among more frames, too.
LEMMA FewerWhole ==
    ASSUME NEW F, Agree(F), NEW G \in SUBSET F
    PROVE  Whole(G) \subseteq Whole(F)
  <1> SUFFICES ASSUME NEW g \in G,
                      {e.fn : e \in {d \in G : d.of = g.of}} = 0..g.nf
               PROVE  {e.fn : e \in {d \in F : d.of = g.of}} = 0..g.nf
    BY DEF Whole
  <1>1. \A e \in {d \in F : d.of = g.of} : e.fn \in 0..g.nf
    BY DEF Agree
  <1>2. {d \in G : d.of = g.of} \subseteq {d \in F : d.of = g.of}
    OBVIOUS
  <1> QED BY <1>1, <1>2

\* The frames of an answer given anew make it whole, and no other.
LEMMA OneMoreWhole ==
    ASSUME NEW F, NEW E, NEW r, NEW nf \in Nat,
           \A f \in F : f.of # r,
           \A f \in E : f.of = r /\ f.nf = nf,
           {f.fn : f \in E} = 0..nf
    PROVE  Whole(F \cup E) = Whole(F) \cup {r}
  <1>1. \A g \in F : {d \in F \cup E : d.of = g.of} = {d \in F : d.of = g.of}
    OBVIOUS
  <1>2. \A g \in E : {d \in F \cup E : d.of = g.of} = E
    OBVIOUS
  <1>3. PICK e \in E : e.fn = 0
    <2>1. 0 \in 0..nf
      OBVIOUS
    <2> QED BY <2>1
  <1>4. Whole(F) \subseteq Whole(F \cup E)
    BY <1>1 DEF Whole
  <1>5. r \in Whole(F \cup E)
    <2>1. e.of = r /\ {d.fn : d \in E} = 0..e.nf
      OBVIOUS
    <2> QED BY <1>2, <1>3, <2>1 DEF Whole
  <1>6. ASSUME NEW g \in F \cup E,
               {d.fn : d \in {x \in F \cup E : x.of = g.of}} = 0..g.nf
        PROVE  g.of \in Whole(F) \cup {r}
    <2>1. CASE g \in E
      BY <2>1
    <2>2. CASE g \in F
      BY <1>1, <1>6, <2>2 DEF Whole
    <2> QED BY <2>1, <2>2
  <1>7. Whole(F \cup E) \subseteq Whole(F) \cup {r}
    BY <1>6 DEF Whole
  <1> QED BY <1>4, <1>5, <1>7

\* The frames of the channel agree.
LEMMA FramesAgree ==
    ASSUME AnswerInv
    PROVE  /\ Agree(InFlight) /\ Agree(OnTheWay)
           /\ OnTheWay \subseteq InFlight
           /\ InCall => OnTheWay = InFlight
           /\ OnTheWay = Queued \/ InCall
  <1>1. OnTheWay \subseteq InFlight /\ (InCall => OnTheWay = InFlight)
    BY DEF OnTheWay, Queued, InFlight
  <1>2. Agree(InFlight)
    BY DEF AnswerInv, FramesInv, Agree
  <1>3. OnTheWay = Queued \/ InCall
    BY DEF OnTheWay
  <1> QED BY <1>1, <1>2, <1>3 DEF Agree

\* What a call can still return only gets less where no frame is new.
LEMMA LessWaiting ==
    ASSUME AnswerInv, OnTheWay' \subseteq OnTheWay
    PROVE  Waiting' \subseteq Waiting
  <1>1. Whole(OnTheWay') \subseteq Whole(OnTheWay)
    BY FramesAgree, FewerWhole
  <1> QED BY <1>1 DEF Waiting, Whole

\* A call takes frames of the answers it waits for, to return those that are
\* whole among them: they are not on their way any more.
LEMMA ReturnedWhole ==
    ASSUME AnswerInv, NumbersDiffer, Assemble
    PROVE  /\ Delivered' \subseteq
                  {r \in Waiting : r.host = Host /\ r.type = call.type}
           /\ Waiting' \subseteq Waiting \ Delivered'
  <1>1. /\ pc = "assemble" /\ pc' = "idle" /\ response' = Packets(rx)
        /\ UNCHANGED <<call, rx, rxq, net>>
    BY DEF Assemble, network
  <1>2. InCall /\ ~InCall' /\ Queued' = Queued
    BY <1>1 DEF InCall, Queued
  <1>3. OnTheWay = Elements(rx) \cup Queued /\ OnTheWay' = Queued
    BY <1>2 DEF OnTheWay
  <1>4. Waiting' \subseteq Waiting
    BY <1>3, LessWaiting
  <1>5. ASSUME NEW p \in Packets(rx), NEW i \in DOMAIN p
        PROVE  /\ p[i].of \in Waiting
               /\ p[i].of.host = Host /\ p[i].of.type = call.type
    <2>1. PICK f \in {p[j] : j \in DOMAIN p} :
              /\ f.of.host = Host
              /\ f.of.type = call.type
              /\ {<<p[j].of, p[j].fn>> : j \in DOMAIN p} = {f.of} \X (0..f.nf)
      BY PacketIsAnAnswer
    <2>2. \A j \in DOMAIN p : p[j] \in OnTheWay
      BY <1>3, PacketIsAnAnswer
    <2>3. \A j \in DOMAIN p : p[j].of = f.of
      <3>1. \A j \in DOMAIN p :
                <<p[j].of, p[j].fn>> \in {f.of} \X (0..f.nf)
        BY <2>1
      <3> QED BY <3>1
    <2>4. ASSUME NEW n \in 0..f.nf
          PROVE  \E j \in DOMAIN p : p[j].fn = n
      <3>1. <<f.of, n>> \in {<<p[j].of, p[j].fn>> : j \in DOMAIN p}
        BY <2>1
      <3> QED BY <3>1
    <2>5. f \in OnTheWay
      BY <2>2
    <2>6. {e.fn : e \in {d \in OnTheWay : d.of = f.of}} = 0..f.nf
      <3>1. \A e \in {d \in OnTheWay : d.of = f.of} : e.fn \in 0..f.nf
        BY <2>5, FramesAgree DEF Agree
      <3> QED BY <2>2, <2>3, <2>4, <3>1
    <2>7. f.of \in Waiting
      BY <2>5, <2>6 DEF Waiting, Whole
    <2> QED BY <2>1, <2>3, <2>7
  <1>6. ASSUME NEW p \in Packets(rx), NEW i \in DOMAIN p
        PROVE  p[i].of \notin Whole(Queued)
    <2> SUFFICES ASSUME p[i].of \in Whole(Queued) PROVE FALSE
      OBVIOUS
    <2>1. PICK g \in Queued :
              /\ g.of = p[i].of
              /\ {e.fn : e \in {d \in Queued : d.of = g.of}} = 0..g.nf
      BY DEF Whole
    <2>2. g.nf \in Nat
      <3>1. g \in Frame
        BY DEF AnswerInv, TypeInv, TypeOK, Queued, Elements
      <3> QED BY <3>1, SndRcvAssumption DEF Frame
    <2>3. PICK e \in Queued : e.of = p[i].of /\ e.fn = 0
      <3>1. 0 \in 0..g.nf
        BY <2>2
      <3> QED BY <2>1, <3>1
    <2>4. p[i] \in Elements(rx)
      BY PacketIsAnAnswer
    <2>5. p[i].fn < e.fn
      BY <2>3, <2>4 DEF AnswerInv, OrderInv, Before, Queued
    <2>6. p[i].fn \in Nat
      BY <2>4 DEF AnswerInv, FramesInv, InFlight
    <2> QED BY <2>3, <2>5, <2>6
  <1>7. \A a \in Delivered' : \E p \in Packets(rx) :
            \E i \in DOMAIN p : a = p[i].of
    BY <1>1 DEF Delivered
  <1>8. Waiting' = Whole(Queued)
    BY <1>3 DEF Waiting, Whole
  <1> QED BY <1>4, <1>5, <1>6, <1>7, <1>8

\* A request that the call sends is one nobody has been asked.
LEMMA SendAsks ==
    ASSUME AnswerInv, Send
    PROVE  Ex!Ask
  <1>1. /\ pc = "send" /\ pc' \in {"idle", "dispatch"}
        /\ UNCHANGED <<call, calls, response, rx, rxq, answered, net>>
    BY DEF Send, Receive
  <1>2. CallState = "busy" /\ CallState' \in {"busy", "free"}
    BY <1>1 DEF CallState, InCall
  <1>3. Receivers(call.sta) \in SUBSET Sta
    BY DEF Receivers
  <1> DEFINE asked == [sta : Receivers(call.sta), host : {Host},
                       type : {call.type}, call : {calls}]
  <1>4. pending' = pending \cup asked
    <2>1. \A s \in Receivers(call.sta) : RequestTo(s) \in asked
      BY DEF RequestTo
    <2>2. \A r \in asked : r.sta \in Receivers(call.sta) /\ r = RequestTo(r.sta)
      BY DEF RequestTo
    <2> HIDE DEF asked
    <2> QED BY <2>1, <2>2 DEF Send, RequestTo
  <1>5. asked \cap (pending \cup answered) = {}
    <2>1. \A r \in pending \cup answered : r.call < calls
      BY <1>1 DEF AnswerInv, RequestInv
    <2>2. \A r \in asked : r.call = calls
      OBVIOUS
    <2>3. calls \in Nat
      BY SndRcvAssumption DEF AnswerInv, TypeInv, TypeOK
    <2> QED BY <2>1, <2>2, <2>3
  <1>6. Waiting' = Waiting
    <2>1. rx = <<>>
      BY <1>1 DEF AnswerInv, EndInv
    <2>2. OnTheWay' = OnTheWay
      BY <1>1, <2>1, EmptyQueue DEF OnTheWay, Queued
    <2> QED BY <2>2 DEF Waiting, Whole
  <1>7. Delivered' = Delivered
    BY <1>1 DEF Delivered
  <1> HIDE DEF asked
  <1> QED BY <1>1, <1>2, <1>3, <1>4, <1>5, <1>6, <1>7 DEF Ex!Ask, asked

\* A station's answer is whole while all its frames are on the network.
LEMMA AnswerGives ==
    ASSUME AnswerInv, Answer
    PROVE  Ex!Answer
  <1>1. PICK r \in pending, nf \in Sizes :
            /\ pending' = pending \ {r}
            /\ answered' = answered \cup {r}
            /\ net' = [net EXCEPT ![r.sta] = @ \o AnswerFrames(r, nf)]
    BY DEF Answer
  <1>2. /\ pc \notin {"closed", "crashed"}
        /\ UNCHANGED <<pc, call, calls, response, rx, rxq>>
    BY DEF Answer, program
  <1>3. CallState # "over" /\ CallState' = CallState /\ InCall' = InCall
    BY <1>2 DEF CallState, InCall, AnswerInv, TypeInv, TypeOK
  <1>4. r \in Request /\ r.sta \in Sta /\ nf \in Nat
    BY SndRcvAssumption DEF AnswerInv, TypeInv, TypeOK, Request
  <1> DEFINE new == AnswerFrames(r, nf)
  <1>5. /\ new \in Seq(Frame)
        /\ \A f \in Elements(new) : f.of = r /\ f.nf = nf /\ f.fn \in 0..nf
    BY <1>4, AnswerElements DEF AnswerInv
  <1>6. {f.fn : f \in Elements(new)} = 0..nf
    <2>1. \A n \in 0..nf : /\ n + 1 \in DOMAIN new
                          /\ new[n + 1].fn = n
      <3>1. \A n \in 0..nf : n + 1 \in 1..(nf + 1) /\ (n + 1) - 1 = n
        BY <1>4
      <3> QED BY <3>1 DEF AnswerFrames
    <2>2. \A n \in 0..nf : \E f \in Elements(new) : f.fn = n
      BY <2>1 DEF Elements
    <2> HIDE DEF new
    <2> QED BY <1>5, <2>2
  <1>7. OnTheWay' = OnTheWay \cup Elements(new)
    <2>1. /\ net[r.sta] \in Seq(Frame)
          /\ net'[r.sta] = net[r.sta] \o new
          /\ \A s \in Sta : s # r.sta => net'[s] = net[s]
      BY <1>1, <1>4 DEF AnswerInv, TypeInv, TypeOK
    <2> HIDE DEF new
    <2>2. Elements(net'[r.sta]) = Elements(net[r.sta]) \cup Elements(new)
      BY <1>5, <2>1, AddQueue
    <2>3. UNION {Elements(net'[s]) : s \in Sta} =
          (UNION {Elements(net[s]) : s \in Sta}) \cup Elements(new)
      <3>1. \A s \in Sta :
                Elements(net'[s]) \subseteq Elements(net[s]) \cup Elements(new)
        BY <2>1, <2>2
      <3>2. \A s \in Sta : Elements(net[s]) \subseteq Elements(net'[s])
        BY <2>1, <2>2
      <3>3. Elements(new) \subseteq Elements(net'[r.sta])
        BY <2>2
      <3> QED BY <1>4, <3>1, <3>2, <3>3
    <2> QED BY <1>2, <1>3, <2>3 DEF OnTheWay, Queued
  <1>8. \A f \in OnTheWay : f.of # r
    BY FramesAgree DEF AnswerInv, FramesInv, RequestInv
  <1>9. Waiting' = Waiting \cup {r}
    <2> HIDE DEF new
    <2>1. Whole(OnTheWay \cup Elements(new)) = Whole(OnTheWay) \cup {r}
      BY <1>4, <1>5, <1>6, <1>8, OneMoreWhole
    <2>2. Waiting' = Whole(OnTheWay')
      BY DEF Waiting, Whole
    <2> QED BY <1>7, <2>1, <2>2 DEF Waiting
  <1>10. Delivered' = Delivered
    BY <1>2 DEF Delivered
  <1> QED BY <1>1, <1>2, <1>3, <1>9, <1>10 DEF Ex!Answer

\* Every step is a step of Exchange, or one that it does not see.
LEMMA ExchangeStep ==
    ASSUME AnswerInv, NumbersDiffer, [Next]_vars
    PROVE  [Ex!Next]_(Ex!vars)
  <1>1. CASE Call
    <2>1. /\ pc = "idle" /\ pc' = "setup" /\ calls' = calls + 1
          /\ response' = {} /\ rx' = <<>> /\ call' \in Calls
          /\ UNCHANGED <<rxq, pending, answered, net>>
      BY <1>1 DEF Call, network
    <2>2. CallState = "free" /\ CallState' = "busy" /\ ~InCall
      BY <2>1 DEF CallState, InCall
    <2>3. OnTheWay' = OnTheWay
      BY <2>1, <2>2, EmptyQueue DEF OnTheWay, Queued
    <2>4. Waiting' = Waiting /\ Delivered' = {}
      BY <2>1, <2>3 DEF Waiting, Whole, Delivered
    <2>5. Ex!Begin
      BY <2>1, <2>2, <2>4 DEF Ex!Begin
    <2> QED BY <2>5 DEF Ex!Next
  <1>2. ASSUME UNCHANGED <<call, calls, response, pending, answered>>,
               OnTheWay' \subseteq OnTheWay,
               pc \notin {"closed", "crashed"}
        PROVE  /\ CallState' = CallState => Ex!Lose
               /\ CallState = "busy" /\ CallState' = "free" => Ex!Return
               /\ CallState' = "over" => Ex!End
    <2>1. Waiting' \subseteq Waiting
      BY <1>2, LessWaiting
    <2>2. CallState # "over"
      BY <1>2 DEF CallState, InCall, AnswerInv, TypeInv, TypeOK
    <2>3. Delivered' = Delivered /\ (CallState = "busy" => Delivered = {})
      BY <1>2 DEF Delivered, CallState, AnswerInv, EndInv
    <2>4. CallState' = CallState => Ex!Lose
      BY <1>2, <2>1, <2>2, <2>3 DEF Ex!Lose
    <2>5. CallState = "busy" /\ CallState' = "free" => Ex!Return
      BY <1>2, <2>1, <2>3 DEF Ex!Return
    <2>6. CallState' = "over" => Ex!End
      BY <1>2, <2>1, <2>2, <2>3 DEF Ex!End
    <2> QED BY <2>4, <2>5, <2>6
  <1>3. CASE Send
    BY <1>3, SendAsks DEF Ex!Next
  <1>4. CASE SetFilter \/ PcapError
    <2>1. /\ UNCHANGED <<call, calls, response, pending, answered, rx, rxq, net>>
          /\ InCall /\ (InCall' \/ pc' = "idle")
      BY <1>4 DEF SetFilter, Receive, PcapError, Fail, network, InCall
    <2>2. CallState = "busy" /\ CallState' \in {"busy", "free"}
          /\ pc \notin {"closed", "crashed"}
      BY <2>1 DEF CallState, InCall
    <2>3. OnTheWay' \subseteq OnTheWay
      BY <2>1 DEF OnTheWay, Queued
    <2> QED BY <1>2, <2>1, <2>2, <2>3 DEF Ex!Next
  <1>5. CASE RxCallback
    <2>1. /\ UNCHANGED <<pc, call, calls, response, pending, answered>>
          /\ pc = "dispatch"
      BY <1>5 DEF RxCallback, network
    <2>2. InCall /\ InCall' /\ CallState' = CallState
      BY <2>1 DEF InCall, CallState
    <2>3. OnTheWay' \subseteq OnTheWay
      <3>1. InFlight' \subseteq InFlight
        BY <1>5, RxCallbackStep
      <3> QED BY <2>2, <3>1 DEF OnTheWay, Queued, InFlight
    <2> QED BY <1>2, <2>1, <2>2, <2>3 DEF Ex!Next
  <1>6. CASE Dispatched \/ NothingToDispatch \/ LoopBroken \/ CheckLoop \/ Tick
    <2>1. /\ UNCHANGED <<call, calls, response, pending, answered, rx, rxq, net>>
          /\ InCall /\ InCall' /\ pc \notin {"closed", "crashed"}
      BY <1>6 DEF Dispatched, NothingToDispatch, LoopBroken, CheckLoop, Tick,
                  InCall, program, network
    <2>2. CallState' = CallState /\ OnTheWay' \subseteq OnTheWay
      BY <2>1 DEF CallState, OnTheWay, Queued
    <2> QED BY <1>2, <2>1, <2>2 DEF Ex!Next
  <1>7. CASE Assemble
    <2>1. /\ pc = "assemble" /\ pc' = "idle"
          /\ UNCHANGED <<call, calls, pending, answered>>
      BY <1>7 DEF Assemble, network
    <2>2. CallState = "busy" /\ CallState' = "free"
      BY <2>1 DEF CallState, InCall
    <2>3. Ex!Return
      BY <1>7, <2>1, <2>2, ReturnedWhole DEF Ex!Return
    <2> QED BY <2>3 DEF Ex!Next
  <1>8. CASE Crash \/ Close
    <2>1. /\ UNCHANGED <<call, calls, response, pending, answered, net>>
          /\ rxq' = rxq \/ rxq' = <<>>
          /\ pc' \in {"closed", "crashed"} /\ pc \in {"idle", "assemble"}
      BY <1>8 DEF Crash, Close, program, network
    <2>2. CallState' = "over" /\ ~InCall'
      BY <2>1 DEF CallState, InCall
    <2>3. OnTheWay' \subseteq OnTheWay
      BY <2>1, <2>2, EmptyQueue DEF OnTheWay, Queued
    <2> QED BY <1>2, <2>1, <2>2, <2>3 DEF Ex!Next
  <1>9. CASE Answer
    BY <1>9, AnswerGives DEF Ex!Next
  <1>10. CASE Arrive \/ Lose
    <2>1. /\ UNCHANGED <<pc, call, calls, response, pending, answered, rx>>
          /\ pc \notin {"closed", "crashed"}
      BY <1>10 DEF Arrive, Lose, program
    <2>2. CallState' = CallState /\ InCall' = InCall
      BY <2>1 DEF CallState, InCall
    <2>3. OnTheWay' \subseteq OnTheWay
      BY <1>10, <2>1, <2>2, NetworkStep DEF OnTheWay
    <2> QED BY <1>2, <2>1, <2>2, <2>3 DEF Ex!Next
  <1>11. CASE UNCHANGED vars
    <2>1. UNCHANGED <<pc, call, calls, response, pending, answered, rx, rxq, net>>
      BY <1>11 DEF vars, program, network
    <2>2. UNCHANGED <<CallState, Waiting, Delivered>>
      BY <2>1 DEF CallState, InCall, Waiting, Whole, OnTheWay, Queued, Delivered
    <2> QED BY <2>1, <2>2 DEF Ex!vars
  <1> QED BY <1>1, <1>3, <1>4, <1>5, <1>6, <1>7, <1>8, <1>9, <1>10, <1>11,
             StepCases DEF Elsewhere

\* On a channel that does not run out of message numbers the calls are an
\* Exchange: an answer is returned in whole, once, and by a call of its type on
\* the host it was sent to.
THEOREM CallsExchange ==
    ASSUME NumbersFit
    PROVE  Spec => ImplementsExchange
  <1>1. Init => Ex!Init
    <2> SUFFICES ASSUME Init PROVE Ex!Init
      OBVIOUS
    <2>1. CallState = "free" /\ OnTheWay = {}
      BY EmptyQueue DEF Init, CallState, InCall, OnTheWay, Queued
    <2>2. Waiting = {} /\ Delivered = {}
      BY <2>1 DEF Init, Waiting, Whole, Delivered
    <2> QED BY <2>1, <2>2 DEF Init, Ex!Init
  <1>2. AnswerInv /\ NumbersDiffer /\ [Next]_vars => [Ex!Next]_(Ex!vars)
    BY ExchangeStep
  <1> QED BY <1>1, <1>2, AnswerInvariance, NumbersStayApart, PTL
          DEF Spec, ImplementsExchange, Ex!Spec

=============================================================================
