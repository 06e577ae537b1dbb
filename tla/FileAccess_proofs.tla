-------------------------- MODULE FileAccess_proofs --------------------------
(***************************************************************************)
(* Proofs about the file transfer, for every network, every list of        *)
(* destinations and every file; and that the command that writes a file to *)
(* one destination implements Transfer: every step is a step of Transfer,  *)
(* or leaves what Transfer sees alone.  That a decision comes is liveness, *)
(* and checked with TLC.                                                   *)
(***************************************************************************)
EXTENDS FileRefinement, TLAPS

-----------------------------------------------------------------------------
(* Facts about the operators of FileAccess.                                *)

\* What a command is made of.
LEMMA CommandFacts ==
    ASSUME cmd \in Commands
    PROVE  /\ cmd.op \in {"write", "save", "read", "other"}
           /\ MacList \in Seq(Sta \cup {Broadcast}) /\ Len(MacList) \in Nat
           /\ Fragments \in Nat \ {0}
  BY FileAccessAssumption DEF MacList, Fragments

\* The command does not change.
LEMMA SameCommand ==
    ASSUME cmd' = cmd
    PROVE  MacList' = MacList /\ Fragments' = Fragments
  BY DEF MacList, Fragments

\* The arithmetic of fragment numbers stays below TotalMod.
LEMMA NumberMod ==
    ASSUME NEW n \in Nat
    PROVE  /\ n % TotalMod \in Number
           /\ n < TotalMod => n % TotalMod = n
           /\ n = TotalMod => n % TotalMod = 0
  BY FileAccessAssumption DEF Number

\* The fragment after the one an answer acknowledges: the next one, or 0 when
\* the 16-bit number wraps.
LEMMA NextFragmentFacts ==
    ASSUME NEW a \in Answer
    PROVE  /\ NextFragment(a) \in Number
           /\ a.frag + 1 < TotalMod => NextFragment(a) = a.frag + 1
           /\ a.frag + 1 >= TotalMod => NextFragment(a) = 0
  <1>1. a.frag \in Nat /\ a.frag + 1 \in Nat /\ a.frag + 1 <= TotalMod
    BY FileAccessAssumption DEF Answer, Number
  <1>2. /\ (a.frag + 1) % TotalMod \in Number
        /\ a.frag + 1 < TotalMod => (a.frag + 1) % TotalMod = a.frag + 1
        /\ a.frag + 1 = TotalMod => (a.frag + 1) % TotalMod = 0
    BY <1>1, NumberMod
  <1> QED BY <1>1, <1>2, FileAccessAssumption DEF NextFragment

\* What is saved is a sequence of fragment numbers.
LEMMA SaveType ==
    ASSUME NEW file \in Seq(Number), NEW a \in Answer
    PROVE  Save(file, a) \in Seq(Number)
  <1>1. a.frag \in Number /\ 0 \in Number
    BY FileAccessAssumption DEF Answer, Number
  <1>2. <<0>> \in Seq(Number) /\ Append(file, a.frag) \in Seq(Number)
    BY <1>1
  <1> QED BY <1>2 DEF Save

\* The replies that are processed: one answer or two.
Response == {r \in Seq(Answer) : Len(r) \in {1, 2}}

LEMMA SaveAllType ==
    ASSUME NEW response \in Response, out \in Seq(Number)
    PROVE  SaveAll(response) \in Seq(Number)
  <1>1. response[1] \in Answer
    BY DEF Response
  <1>2. Len(response) # 1 => response[2] \in Answer
    BY DEF Response
  <1>3. Save(out, response[1]) \in Seq(Number)
    BY <1>1, SaveType
  <1>4. Len(response) # 1 =>
            Save(Save(out, response[1]), response[2]) \in Seq(Number)
    BY <1>2, <1>3, SaveType
  <1> QED BY <1>3, <1>4 DEF SaveAll

LEMMA ResponseFacts ==
    ASSUME NEW a \in Answer, NEW b \in Answer
    PROVE  /\ <<a>> \in Response /\ <<a>>[1] = a
           /\ <<a, b>> \in Response /\ <<a, b>>[1] = a
           /\ ~Failed(<<a>>) => a.ok
           /\ ~Failed(<<a, b>>) => a.ok /\ b.ok
  BY DEF Response, Failed

-----------------------------------------------------------------------------
(* Types.  TypeOK is not inductive: that sta_idx and retry_count stay in   *)
(* range when a step increases them depends on the loop they belong to.    *)

Active == pc \in {"send", "wait"}

LoopsInRange ==
    Active => sta_idx <= Len(MacList) /\ retry_count < MaxRetry

TypeInv == TypeOK /\ LoopsInRange

\* Processing the answers keeps the types.
LEMMA RespondType ==
    ASSUME TypeInv, Active, NEW response \in Response, Respond(response),
           UNCHANGED <<stored, requests>>, answers' \subseteq answers
    PROVE  TypeInv'
  <1> USE DEF Active
  <1>0. /\ cmd \in Commands /\ cmd' = cmd
        /\ MacList \in Seq(Sta \cup {Broadcast}) /\ Len(MacList) \in Nat
        /\ Fragments \in Nat \ {0}
        /\ MacList' = MacList /\ Fragments' = Fragments
    BY CommandFacts, SameCommand DEF TypeInv, TypeOK, Respond
  <1> USE <1>0
  <1>1. response[1] \in Answer
    BY DEF Response
  <1>2. /\ response[1].src \in Sta /\ response[1].total \in Number
        /\ NextFragment(response[1]) \in Number
    BY <1>1, NextFragmentFacts DEF Answer
  <1>3. out' \in Seq(Number)
    <2>1. out \in Seq(Number)
      BY DEF TypeInv, TypeOK
    <2>2. SaveAll(response) \in Seq(Number)
      BY <2>1, SaveAllType
    <2> QED BY <2>1, <2>2 DEF Respond
  <1>4. sta_idx \in 1..Len(MacList)
    BY FileAccessAssumption DEF TypeInv, TypeOK, LoopsInRange
  <1>5. pc' \in {"send", "next"} /\ sta_idx' \in 1..(Len(MacList) + 1)
        /\ (pc' = "send" => sta_idx' <= Len(MacList))
    BY <1>4, FileAccessAssumption DEF Respond, Continue
  <1>6. /\ rv' \in {HPAV_OK, HPAV_NOK}
        /\ dest_mac' \in Sta /\ total' \in Number /\ fragment' \in Number
        /\ retry_count' = 0
    BY <1>2 DEF Respond
  <1>7. LoopsInRange'
    BY <1>5, <1>6, FileAccessAssumption DEF LoopsInRange
  <1>8. stored' \in [Sta -> SUBSET Number] /\ requests' \subseteq Request
        /\ answers' \subseteq Answer
    BY DEF TypeInv, TypeOK
  <1>9. retry_count' \in 0..MaxRetry
    BY <1>6, FileAccessAssumption
  <1> QED BY <1>3, <1>5, <1>6, <1>7, <1>8, <1>9 DEF TypeInv, TypeOK

\* So does a request without an answer.
LEMMA NoResponseType ==
    ASSUME TypeInv, Active, NoResponse,
           UNCHANGED <<stored, requests>>, answers' \subseteq answers
    PROVE  TypeInv'
  <1> USE DEF Active
  <1>0. /\ cmd \in Commands /\ cmd' = cmd
        /\ MacList \in Seq(Sta \cup {Broadcast}) /\ Len(MacList) \in Nat
        /\ Fragments \in Nat \ {0}
        /\ MacList' = MacList /\ Fragments' = Fragments
    BY CommandFacts, SameCommand DEF TypeInv, TypeOK, NoResponse
  <1> USE <1>0
  <1>1. sta_idx \in 1..Len(MacList) /\ retry_count \in 0..(MaxRetry - 1)
    BY FileAccessAssumption DEF TypeInv, TypeOK, LoopsInRange
  <1>2. pc' \in {"send", "next"} /\ sta_idx' \in 1..(Len(MacList) + 1)
        /\ (pc' = "send" => sta_idx' <= Len(MacList) /\ rv' = HPAV_OK)
    BY <1>1, FileAccessAssumption DEF NoResponse, Continue
  <1>3. /\ retry_count' \in 0..MaxRetry
        /\ rv' \in {HPAV_OK, REQ_FAIL}
        /\ rv' = HPAV_OK => retry_count' < MaxRetry
    BY <1>1, FileAccessAssumption
       DEF NoResponse, GiveUp, HPAV_OK, REQ_FAIL
  <1>4. LoopsInRange'
    BY <1>2, <1>3 DEF LoopsInRange
  <1> QED BY <1>2, <1>3, <1>4 DEF TypeInv, TypeOK, NoResponse

\* No step changes the command.
LEMMA CommandStep ==
    ASSUME [Next]_vars
    PROVE  cmd' = cmd
  BY DEF Next, Run, Begin, Refuse, Return, Send, PcapError, ReceiveOne,
         ReceiveTwo, NoAnswer, Respond, NoResponse, Serve, Returned, vars, program

\* Every step keeps the types.
LEMMA TypeStep ==
    ASSUME TypeInv, [Next]_vars
    PROVE  TypeInv'
  <1> USE DEF TypeInv
  <1>0. /\ cmd \in Commands /\ cmd' = cmd
        /\ MacList \in Seq(Sta \cup {Broadcast}) /\ Len(MacList) \in Nat
        /\ Fragments \in Nat \ {0}
        /\ MacList' = MacList /\ Fragments' = Fragments
    BY CommandFacts, CommandStep, SameCommand DEF TypeInv, TypeOK
  <1> USE <1>0
  <1>1. CASE Begin
    <2>1. sta_idx \in 1..Len(MacList) /\ MacList[sta_idx] \in Sta \cup {Broadcast}
      BY <1>1, FileAccessAssumption DEF Begin, TypeOK
    <2>2. 0 \in Number /\ Fragments % TotalMod \in Number
      BY NumberMod, FileAccessAssumption DEF Number
    <2>3. LoopsInRange'
      BY <1>1, <2>1, FileAccessAssumption DEF Begin, LoopsInRange, Active
    <2>4. total' \in Number /\ retry_count' \in 0..MaxRetry
      BY <1>1, <2>2, FileAccessAssumption DEF Begin
    <2> QED BY <1>1, <2>1, <2>2, <2>3, <2>4
            DEF Begin, TypeOK, network
  <1>2. CASE Refuse
    BY <1>2 DEF Refuse, TypeOK, LoopsInRange, Active, network,
                PARAMETER_FAIL, REQ_FAIL, HPAV_NOK
  <1>3. CASE Return
    BY <1>3 DEF Return, TypeOK, LoopsInRange, Active, program, network
  <1>4. CASE Send
    <2>1. requests' \subseteq Request
      <3>1. PICK reached \in SUBSET Receivers(dest_mac), c \in 1..Copies :
                requests' = requests \cup
                    {[dst |-> s, frag |-> fragment, total |-> total,
                      copy |-> c] : s \in reached}
        BY <1>4 DEF Send
      <3>2. Receivers(dest_mac) \subseteq Sta
        BY DEF Receivers, TypeOK
      <3>3. \A s \in reached : [dst |-> s, frag |-> fragment,
                                total |-> total, copy |-> c] \in Request
        BY <3>1, <3>2 DEF Request, TypeOK
      <3> QED BY <3>1, <3>3 DEF TypeOK
    <2> QED BY <1>4, <2>1
            DEF Send, TypeOK, LoopsInRange, Active, program
  <1>5. CASE PcapError
    <2>1. sta_idx \in 1..Len(MacList)
      BY <1>5, FileAccessAssumption DEF PcapError, TypeOK, LoopsInRange, Active
    <2>2. rv' = HPAV_NOK /\ rv' # HPAV_OK
      BY <1>5 DEF PcapError, HPAV_NOK, HPAV_OK
    <2>3. pc' = "next" /\ sta_idx' \in 1..(Len(MacList) + 1)
      BY <1>5, <2>1, <2>2, FileAccessAssumption DEF PcapError, Continue
    <2> QED BY <1>5, <2>2, <2>3
            DEF PcapError, TypeOK, LoopsInRange, Active, network
  <1>6. CASE ReceiveOne
    <2>1. PICK a \in answers : Respond(<<a>>) /\ answers' = answers \ {a}
      BY <1>6 DEF ReceiveOne
    <2>2. a \in Answer
      BY DEF TypeOK
    <2> QED BY <1>6, <2>1, <2>2, ResponseFacts, RespondType
            DEF ReceiveOne, Active
  <1>7. CASE ReceiveTwo
    <2>1. PICK a \in answers, b \in answers :
              /\ Respond(<<a, b>>) \/ NoResponse
              /\ answers' = answers \ {a, b}
      BY <1>7 DEF ReceiveTwo
    <2>2. a \in Answer /\ b \in Answer
      BY DEF TypeOK
    <2>3. CASE Respond(<<a, b>>)
      BY <1>7, <2>1, <2>2, <2>3, ResponseFacts, RespondType
         DEF ReceiveTwo, Active
    <2>4. CASE NoResponse
      BY <1>7, <2>1, <2>4, NoResponseType DEF ReceiveTwo, Active
    <2> QED BY <2>1, <2>3, <2>4
  <1>8. CASE NoAnswer
    BY <1>8, NoResponseType DEF NoAnswer, Active, network
  <1>9. CASE Serve
    <2>1. PICK m \in requests, ok \in BOOLEAN, c \in 1..Copies :
              /\ requests' = requests \ {m}
              /\ stored' = IF ok THEN [stored EXCEPT ![m.dst] = @ \cup {m.frag}]
                           ELSE stored
              /\ answers' \subseteq answers \cup
                     {[src |-> m.dst, frag |-> m.frag,
                       total |-> AnsweredTotal(m), ok |-> ok, copy |-> c]}
      BY <1>9 DEF Serve
    <2>2. m.dst \in Sta /\ m.frag \in Number /\ m.total \in Number
      BY DEF TypeOK, Request
    <2>3. AnsweredTotal(m) \in Number
      BY <2>2, NumberMod, FileAccessAssumption DEF AnsweredTotal, Number
    <2>4. answers' \subseteq Answer
      BY <2>1, <2>2, <2>3 DEF TypeOK, Answer
    <2>5. stored' \in [Sta -> SUBSET Number]
      BY <2>1, <2>2 DEF TypeOK
    <2>6. requests' \subseteq Request
      BY <2>1 DEF TypeOK
    <2> QED BY <1>9, <2>4, <2>5, <2>6
            DEF Serve, TypeOK, LoopsInRange, Active, program
  <1>10. CASE UNCHANGED vars
    BY <1>10 DEF TypeOK, LoopsInRange, Active, vars, program, network
  <1> QED BY <1>1, <1>2, <1>3, <1>4, <1>5, <1>6, <1>7, <1>8, <1>9, <1>10
          DEF Next, Run, Returned

LEMMA TypeInvariant == Spec => []TypeInv
  <1>1. Init => TypeInv
    <2> SUFFICES ASSUME Init PROVE TypeInv
      OBVIOUS
    <2>1. 0 \in Number /\ Len(MacList) \in Nat
      BY CommandFacts, FileAccessAssumption DEF Number, Init
    <2>2. <<>> \in Seq(Number) /\ <<0>> \in Seq(Number)
      BY <2>1
    <2>3. out \in Seq(Number)
      BY <2>2 DEF Init
    <2> QED BY <2>1, <2>3, FileAccessAssumption
            DEF Init, TypeInv, TypeOK, LoopsInRange, Active, HPAV_OK
  <1> QED BY <1>1, TypeStep, PTL DEF Spec

\* The values the transfer's variables and messages can have, whatever the
\* network does: no fragment number leaves 16 bits, no retry passes MaxRetry and
\* no index leaves the list of destinations.
THEOREM TypeCorrect == Spec => []TypeOK
  BY TypeInvariant, PTL DEF TypeInv

-----------------------------------------------------------------------------
(* No hole.  A request follows the fragments its station has acknowledged   *)
(* because an answer that is taken for good comes from a station that has   *)
(* them, and the next request goes to that station.                         *)

AnswersFollow ==
    \A a \in answers : a.ok => 0..a.frag \subseteq stored[a.src]

NextFollows ==
    Active => \A s \in Receivers(dest_mac) : 0..(fragment - 1) \subseteq stored[s]

FollowInv == NoFragmentSkipped /\ AnswersFollow /\ NextFollows

\* An answer taken for good tells which fragment its station is ready for.
LEMMA RespondFollows ==
    ASSUME TypeInv, FollowInv, NEW response \in Response,
           response[1] \in answers, ~Failed(response) => response[1].ok,
           Respond(response),
           UNCHANGED <<stored, requests>>, answers' \subseteq answers
    PROVE  FollowInv'
  <1> DEFINE a == response[1]
  <1>1. a \in Answer /\ a.src \in Sta /\ a.frag \in Nat
    BY FileAccessAssumption DEF TypeInv, TypeOK, Answer, Number
  <1>2. NoFragmentSkipped' /\ AnswersFollow'
    BY DEF FollowInv, NoFragmentSkipped, AnswersFollow
  <1>3. NextFollows'
    <2> SUFFICES ASSUME pc' \in {"send", "wait"}
                 PROVE  \A s \in Receivers(dest_mac') :
                            0..(fragment' - 1) \subseteq stored'[s]
      BY DEF NextFollows, Active, Receivers
    <2>1. a.ok
      BY DEF Respond, Continue, HPAV_OK, HPAV_NOK
    <2>2. 0..a.frag \subseteq stored[a.src]
      BY <2>1 DEF FollowInv, AnswersFollow
    <2>3. 0..(fragment' - 1) \subseteq 0..a.frag
      <3>1. fragment' = a.frag + 1 \/ fragment' = 0
        BY <1>1, NextFragmentFacts, FileAccessAssumption DEF Respond
      <3> QED BY <1>1, <3>1
    <2>4. Receivers(dest_mac') = {a.src}
      BY <1>1, FileAccessAssumption DEF Respond, Receivers
    <2> QED BY <2>2, <2>3, <2>4
  <1> QED BY <1>2, <1>3 DEF FollowInv

\* A request without an answer is repeated as it was.
LEMMA NoResponseFollows ==
    ASSUME FollowInv, Active, NoResponse,
           UNCHANGED <<stored, requests>>, answers' \subseteq answers
    PROVE  FollowInv'
  BY DEF FollowInv, NoFragmentSkipped, AnswersFollow, NextFollows, Active,
         NoResponse, Receivers

LEMMA FollowStep ==
    ASSUME TypeInv, FollowInv, [Next]_vars
    PROVE  FollowInv'
  <1> USE DEF FollowInv
  <1>1. CASE Begin
    <2>1. 0..(fragment' - 1) = {}
      BY <1>1 DEF Begin
    <2>2. NextFollows'
      BY <2>1 DEF NextFollows
    <2> QED BY <1>1, <2>2 DEF Begin, NoFragmentSkipped, AnswersFollow, network
  <1>2. CASE Refuse
    BY <1>2 DEF Refuse, NoFragmentSkipped, AnswersFollow, NextFollows, Active,
                network
  <1>3. CASE Return
    BY <1>3 DEF Return, NoFragmentSkipped, AnswersFollow, NextFollows, Active,
                network
  <1>4. CASE Send
    <2>1. PICK reached \in SUBSET Receivers(dest_mac), c \in 1..Copies :
              requests' = requests \cup
                  {[dst |-> s, frag |-> fragment, total |-> total,
                    copy |-> c] : s \in reached}
      BY <1>4 DEF Send
    <2>2. UNCHANGED <<stored, answers, dest_mac, fragment>> /\ Active
      BY <1>4 DEF Send, program, Active
    <2>3. \A s \in reached : 0..(fragment - 1) \subseteq stored[s]
      BY <2>1, <2>2 DEF NextFollows
    <2>4. NoFragmentSkipped'
      BY <2>1, <2>2, <2>3 DEF NoFragmentSkipped
    <2>5. AnswersFollow' /\ NextFollows'
      BY <2>2 DEF AnswersFollow, NextFollows, Receivers
    <2> QED BY <2>4, <2>5
  <1>5. CASE PcapError
    <2>1. pc' = "next"
      BY <1>5 DEF PcapError, Continue, HPAV_OK, HPAV_NOK
    <2> QED BY <1>5, <2>1 DEF PcapError, NoFragmentSkipped, AnswersFollow,
                              NextFollows, Active, network
  <1>6. CASE ReceiveOne
    <2>1. PICK a \in answers : Respond(<<a>>) /\ answers' = answers \ {a}
      BY <1>6 DEF ReceiveOne
    <2>2. a \in Answer
      BY DEF TypeInv, TypeOK
    <2> QED BY <1>6, <2>1, <2>2, ResponseFacts, RespondFollows DEF ReceiveOne
  <1>7. CASE ReceiveTwo
    <2>1. PICK a \in answers, b \in answers :
              /\ Respond(<<a, b>>) \/ NoResponse
              /\ answers' = answers \ {a, b}
      BY <1>7 DEF ReceiveTwo
    <2>2. a \in Answer /\ b \in Answer
      BY DEF TypeInv, TypeOK
    <2>3. CASE Respond(<<a, b>>)
      BY <1>7, <2>1, <2>2, <2>3, ResponseFacts, RespondFollows DEF ReceiveTwo
    <2>4. CASE NoResponse
      BY <1>7, <2>1, <2>4, NoResponseFollows DEF ReceiveTwo, Active
    <2> QED BY <2>1, <2>3, <2>4
  <1>8. CASE NoAnswer
    BY <1>8, NoResponseFollows DEF NoAnswer, Active, network
  <1>9. CASE Serve
    <2>1. PICK m \in requests, ok \in BOOLEAN, c \in 1..Copies :
              /\ requests' = requests \ {m}
              /\ stored' = IF ok THEN [stored EXCEPT ![m.dst] = @ \cup {m.frag}]
                           ELSE stored
              /\ answers' \subseteq answers \cup
                     {[src |-> m.dst, frag |-> m.frag,
                       total |-> AnsweredTotal(m), ok |-> ok, copy |-> c]}
      BY <1>9 DEF Serve
    <2>2. m.dst \in Sta /\ m.frag \in Nat
      BY FileAccessAssumption DEF TypeInv, TypeOK, Request, Number
    <2>3. \A s \in Sta : stored[s] \subseteq stored'[s]
      BY <2>1, <2>2 DEF TypeInv, TypeOK
    <2>4. ok => 0..m.frag \subseteq stored'[m.dst]
      <3> SUFFICES ASSUME ok, NEW f \in 0..m.frag PROVE f \in stored'[m.dst]
        OBVIOUS
      <3>1. f = m.frag \/ f \in 0..(m.frag - 1)
        BY <2>2
      <3>2. stored'[m.dst] = stored[m.dst] \cup {m.frag}
        BY <2>1, <2>2 DEF TypeInv, TypeOK
      <3> QED BY <3>1, <3>2 DEF NoFragmentSkipped
    <2>5. NoFragmentSkipped'
      <3>1. \A r \in requests : r.dst \in Sta
        BY DEF TypeInv, TypeOK, Request
      <3> QED BY <2>1, <2>3, <3>1 DEF NoFragmentSkipped
    <2>6. AnswersFollow'
      <3>1. \A a \in answers : a.src \in Sta
        BY DEF TypeInv, TypeOK, Answer
      <3> QED BY <2>1, <2>3, <2>4, <3>1 DEF AnswersFollow
    <2>7. NextFollows'
      <3>1. Receivers(dest_mac) \subseteq Sta
        BY DEF Receivers, TypeInv, TypeOK
      <3>2. UNCHANGED <<pc, dest_mac, fragment>>
        BY <1>9 DEF Serve, program
      <3> QED BY <2>3, <3>1, <3>2 DEF NextFollows, Active, Receivers
    <2> QED BY <2>5, <2>6, <2>7
  <1>10. CASE UNCHANGED vars
    BY <1>10 DEF NoFragmentSkipped, AnswersFollow, NextFollows, Active,
                 Receivers, vars, program, network
  <1> QED BY <1>1, <1>2, <1>3, <1>4, <1>5, <1>6, <1>7, <1>8, <1>9, <1>10
          DEF Next, Run, Returned

LEMMA FollowInvariant == Spec => []FollowInv
  <1>1. Init => FollowInv
    BY DEF Init, FollowInv, NoFragmentSkipped, AnswersFollow, NextFollows, Active
  <1> QED BY <1>1, TypeInvariant, FollowStep, PTL DEF Spec

\* No station is sent a fragment while one that precedes it is missing there:
\* for every list of destinations (broadcast too), with answers lost, late,
\* repeated or taken for another station's, and past the wrap of the 16-bit
\* fragment number.
THEOREM NeverSkips == Spec => []NoFragmentSkipped
  BY FollowInvariant, PTL DEF FollowInv

-----------------------------------------------------------------------------
(* One destination.  The command that writes a file to one destination (a   *)
(* station or the broadcast address) returns 0 only once the file is there. *)
(* The count of fragments must fit 16 bits, and with several destinations   *)
(* the last result hides those of the others.                               *)

OneWrite ==
    /\ Len(MacList) = 1
    /\ cmd.op = "write"
    /\ Fragments < TotalMod

Dest == MacList[1]

\* Requests and answers are about this file and come from this destination.
MessagesOfFile ==
    /\ \A m \in requests :
           /\ m.dst \in Receivers(Dest)
           /\ m.total = Fragments /\ m.frag < Fragments
    /\ \A a \in answers :
           /\ a.src \in Receivers(Dest)
           /\ a.total = Fragments /\ a.frag < Fragments

\* Nothing but the file's fragments is on the stations.
StoredOfFile == \A s \in Sta : stored[s] \subseteq 0..(Fragments - 1)

LoopOfFile ==
    Active => /\ sta_idx = 1
              /\ Receivers(dest_mac) \subseteq Receivers(Dest)
              /\ total = Fragments /\ fragment < Fragments

LeftWritten ==
    /\ (sta_idx = 2 /\ rv = HPAV_OK) => Written(Dest)
    /\ (pc = "done" /\ rv = HPAV_OK) => sta_idx = 2

FileInv == OneWrite => MessagesOfFile /\ StoredOfFile /\ LoopOfFile /\ LeftWritten

LEMMA OneWriteFacts ==
    ASSUME OneWrite, cmd \in Commands
    PROVE  /\ Dest \in Sta \cup {Broadcast}
           /\ DOMAIN MacList = {1}
           /\ Receivers(Dest) \subseteq Sta
           /\ Fragments % TotalMod = Fragments
  <1>1. Dest \in Sta \cup {Broadcast} /\ DOMAIN MacList = {1}
    BY CommandFacts DEF OneWrite, Dest
  <1>2. Fragments % TotalMod = Fragments
    BY NumberMod, CommandFacts, FileAccessAssumption DEF OneWrite
  <1> QED BY <1>1, <1>2 DEF Receivers

\* The transfer ends well only on the answer to the last fragment.
LEMMA RespondFile ==
    ASSUME OneWrite, TypeInv, FollowInv, FileInv, Active,
           NEW response \in Response,
           response[1] \in answers, ~Failed(response) => response[1].ok,
           Respond(response),
           UNCHANGED <<stored, requests>>, answers' \subseteq answers
    PROVE  FileInv'
  <1> USE DEF Active
  <1>0. /\ cmd \in Commands /\ cmd' = cmd
        /\ MacList \in Seq(Sta \cup {Broadcast}) /\ Len(MacList) \in Nat
        /\ Fragments \in Nat \ {0}
        /\ MacList' = MacList /\ Fragments' = Fragments /\ Dest' = Dest
    BY CommandFacts, SameCommand DEF TypeInv, TypeOK, Respond, Dest
  <1> USE <1>0
  <1> DEFINE a == response[1]
  <1>1. a \in Answer /\ a.src \in Sta /\ a.frag \in Nat
    <2>1. a \in Answer
      BY Zenon DEF TypeInv, TypeOK
    <2> QED BY <2>1, FileAccessAssumption DEF Answer, Number
  <1>2. /\ a.src \in Receivers(Dest) /\ a.total = Fragments
        /\ a.frag + 1 <= Fragments
    <2>1. a.src \in Receivers(Dest) /\ a.total = Fragments /\ a.frag < Fragments
      BY Zenon DEF FileInv, MessagesOfFile
    <2> QED BY <1>0, <1>1, <2>1
  <1>3. fragment' = a.frag + 1 /\ total' = Fragments
    <2>1. a.frag + 1 < TotalMod
      BY <1>1, <1>2, FileAccessAssumption DEF OneWrite
    <2> QED BY <1>1, <1>2, <2>1, NextFragmentFacts DEF Respond
  <1>4. Receivers(dest_mac') = {a.src}
    BY <1>1, FileAccessAssumption DEF Respond, Receivers
  <1>5. MessagesOfFile' /\ StoredOfFile'
    BY DEF FileInv, MessagesOfFile, StoredOfFile
  <1>6. pc' \in {"send", "next"}
    BY DEF Respond, Continue
  <1>7. sta_idx = 1
    BY DEF FileInv, LoopOfFile
  <1>8. LoopOfFile'
    <2> SUFFICES ASSUME pc' = "send"
                 PROVE  /\ sta_idx' = 1
                        /\ Receivers(dest_mac') \subseteq Receivers(Dest)
                        /\ total' = Fragments /\ fragment' < Fragments
      BY <1>6 DEF LoopOfFile, Receivers, Dest
    <2>1. sta_idx' = sta_idx /\ fragment' < total'
      BY DEF Respond, Continue
    <2> QED BY <1>2, <1>3, <1>4, <1>7, <2>1
  <1>9. LeftWritten'
    <2> SUFFICES ASSUME sta_idx' = 2, rv' = HPAV_OK
                 PROVE  Written(Dest)'
      BY <1>6 DEF LeftWritten
    <2>1. ~(fragment' < total')
      BY <1>7 DEF Respond, Continue
    <2>2. a.frag = Fragments - 1
      BY <1>1, <1>2, <1>3, <2>1, FileAccessAssumption
    <2>3. a.ok
      BY DEF Respond, HPAV_OK, HPAV_NOK
    <2>4. stored[a.src] = 0..(Fragments - 1)
      BY <1>1, <2>2, <2>3 DEF FollowInv, AnswersFollow, FileInv, StoredOfFile
    <2> QED BY <1>2, <2>4 DEF Written, Receivers, Dest
  <1> QED BY <1>5, <1>8, <1>9 DEF FileInv

\* A request without an answer never ends the transfer well.
LEMMA NoResponseFile ==
    ASSUME OneWrite, TypeInv, FileInv, Active, NoResponse,
           UNCHANGED <<stored, requests>>, answers' \subseteq answers
    PROVE  FileInv'
  <1> USE DEF Active
  <1>0. /\ cmd \in Commands /\ cmd' = cmd
        /\ MacList \in Seq(Sta \cup {Broadcast}) /\ Len(MacList) \in Nat
        /\ Fragments \in Nat \ {0}
        /\ MacList' = MacList /\ Fragments' = Fragments /\ Dest' = Dest
    BY CommandFacts, SameCommand DEF TypeInv, TypeOK, NoResponse, Dest
  <1> USE <1>0
  <1>1. sta_idx = 1 /\ total = Fragments /\ fragment < Fragments
        /\ Receivers(dest_mac) \subseteq Receivers(Dest)
    BY DEF FileInv, LoopOfFile
  <1>2. MessagesOfFile' /\ StoredOfFile'
    BY DEF FileInv, MessagesOfFile, StoredOfFile
  <1>3. pc' = "send" => sta_idx' = sta_idx
    BY DEF NoResponse, Continue
  <1>4. pc' \in {"send", "next"}
    BY DEF NoResponse, Continue
  <1>5. LoopOfFile'
    BY <1>1, <1>3, <1>4 DEF LoopOfFile, NoResponse, Receivers, Dest
  <1>6. rv' = HPAV_OK => sta_idx' = 1
    BY <1>1 DEF NoResponse, Continue
  <1>7. LeftWritten'
    BY <1>4, <1>6 DEF LeftWritten
  <1> QED BY <1>2, <1>5, <1>7 DEF FileInv

LEMMA FileStep ==
    ASSUME TypeInv, FollowInv, FileInv, [Next]_vars
    PROVE  FileInv'
  <1>0. /\ cmd \in Commands /\ cmd' = cmd
        /\ MacList \in Seq(Sta \cup {Broadcast}) /\ Len(MacList) \in Nat
        /\ Fragments \in Nat \ {0}
        /\ MacList' = MacList /\ Fragments' = Fragments /\ Dest' = Dest
    BY CommandFacts, CommandStep, SameCommand DEF TypeInv, TypeOK, Dest
  <1> USE <1>0
  <1> SUFFICES ASSUME OneWrite PROVE FileInv'
    BY DEF FileInv, OneWrite
  <1> USE DEF FileInv
  <1>1. CASE Begin
    <2>1. sta_idx = 1
      BY <1>1, FileAccessAssumption DEF Begin, OneWrite, TypeInv, TypeOK
    <2>2. LoopOfFile'
      <3>1. total' = Fragments /\ dest_mac' = Dest /\ fragment' = 0
            /\ sta_idx' = sta_idx
        BY <1>1, <2>1, OneWriteFacts DEF Begin, OneWrite, Dest
      <3> QED BY <2>1, <3>1, FileAccessAssumption DEF LoopOfFile, Receivers, Dest
    <2>3. LeftWritten'
      BY <1>1, <2>1 DEF Begin, LeftWritten
    <2> QED BY <1>1, <2>2, <2>3 DEF Begin, MessagesOfFile, StoredOfFile, network
  <1>2. CASE Refuse
    <2>1. rv' # HPAV_OK
      BY <1>2 DEF Refuse, PARAMETER_FAIL, REQ_FAIL, HPAV_OK
    <2> QED BY <1>2, <2>1
            DEF Refuse, MessagesOfFile, StoredOfFile, LoopOfFile, LeftWritten,
                Active, network
  <1>3. CASE Return
    <2>1. sta_idx = 2
      BY <1>3, FileAccessAssumption DEF Return, OneWrite, TypeInv, TypeOK
    <2>2. LeftWritten'
      BY <1>3, <2>1 DEF Return, LeftWritten, Written, program, network
    <2> QED BY <1>3, <2>2 DEF Return, MessagesOfFile, StoredOfFile, LoopOfFile,
                              Active, network
  <1>4. CASE Send
    <2>1. PICK reached \in SUBSET Receivers(dest_mac), c \in 1..Copies :
              requests' = requests \cup
                  {[dst |-> s, frag |-> fragment, total |-> total,
                    copy |-> c] : s \in reached}
      BY <1>4 DEF Send
    <2>2. UNCHANGED <<stored, answers, program>> /\ Active /\ pc' = "wait"
      BY <1>4 DEF Send, Active
    <2>3. MessagesOfFile'
      BY <2>1, <2>2 DEF MessagesOfFile, LoopOfFile
    <2>4. LoopOfFile' /\ StoredOfFile' /\ LeftWritten'
      BY <2>2 DEF LoopOfFile, StoredOfFile, LeftWritten, Written, Receivers,
                  Active, program
    <2> QED BY <2>3, <2>4
  <1>5. CASE PcapError
    <2>1. pc' = "next" /\ rv' # HPAV_OK
      BY <1>5 DEF PcapError, Continue, HPAV_OK, HPAV_NOK
    <2> QED BY <1>5, <2>1 DEF PcapError, MessagesOfFile, StoredOfFile,
                              LoopOfFile, LeftWritten, Active, network
  <1>6. CASE ReceiveOne
    <2>1. PICK a \in answers : Respond(<<a>>) /\ answers' = answers \ {a}
      BY <1>6 DEF ReceiveOne
    <2>2. a \in Answer
      BY DEF TypeInv, TypeOK
    <2> QED BY <1>6, <2>1, <2>2, ResponseFacts, RespondFile
            DEF ReceiveOne, Active
  <1>7. CASE ReceiveTwo
    <2>1. PICK a \in answers, b \in answers :
              /\ Respond(<<a, b>>) \/ NoResponse
              /\ answers' = answers \ {a, b}
      BY <1>7 DEF ReceiveTwo
    <2>2. a \in Answer /\ b \in Answer
      BY DEF TypeInv, TypeOK
    <2>3. CASE Respond(<<a, b>>)
      BY <1>7, <2>1, <2>2, <2>3, ResponseFacts, RespondFile
         DEF ReceiveTwo, Active
    <2>4. CASE NoResponse
      BY <1>7, <2>1, <2>4, NoResponseFile DEF ReceiveTwo, Active
    <2> QED BY <2>1, <2>3, <2>4
  <1>8. CASE NoAnswer
    BY <1>8, NoResponseFile DEF NoAnswer, Active, network
  <1>9. CASE Serve
    <2>1. PICK m \in requests, ok \in BOOLEAN, c \in 1..Copies :
              /\ requests' = requests \ {m}
              /\ stored' = IF ok THEN [stored EXCEPT ![m.dst] = @ \cup {m.frag}]
                           ELSE stored
              /\ answers' \subseteq answers \cup
                     {[src |-> m.dst, frag |-> m.frag,
                       total |-> AnsweredTotal(m), ok |-> ok, copy |-> c]}
      BY <1>9 DEF Serve
    <2>2. /\ m.dst \in Sta /\ m.dst \in Receivers(Dest)
          /\ m.total = Fragments /\ m.frag \in 0..(Fragments - 1)
      <3>1. m \in Request
        BY DEF TypeInv, TypeOK
      <3>2. m.dst \in Sta /\ m.frag \in Nat
        BY <3>1, FileAccessAssumption DEF Request, Number
      <3>3. m.dst \in Receivers(Dest) /\ m.total = Fragments /\ m.frag < Fragments
        BY DEF MessagesOfFile
      <3> QED BY <3>2, <3>3
    <2>3. AnsweredTotal(m) = Fragments
      BY <2>2 DEF AnsweredTotal, OneWrite
    <2>4. MessagesOfFile'
      <3>1. m.frag < Fragments
        BY <2>2, FileAccessAssumption
      <3> QED BY <2>1, <2>2, <2>3, <3>1 DEF MessagesOfFile, Receivers, Dest
    <2>5. StoredOfFile'
      BY <2>1, <2>2 DEF StoredOfFile, TypeInv, TypeOK
    <2>6. \A s \in Sta : stored[s] \subseteq stored'[s]
      BY <2>1, <2>2 DEF TypeInv, TypeOK
    <2>7. Written(Dest) => Written(Dest)'
      <3>1. Receivers(Dest) \subseteq Sta
        BY OneWriteFacts
      <3>2. \A s \in Sta : stored[s] = 0..(Fragments - 1) =>
                               stored'[s] = 0..(Fragments - 1)
        BY <2>5, <2>6 DEF StoredOfFile
      <3> QED BY <3>1, <3>2 DEF Written, Receivers, Dest
    <2>8. LoopOfFile' /\ LeftWritten'
      BY <1>9, <2>7 DEF Serve, LoopOfFile, LeftWritten, Active, Receivers,
                        program, Dest
    <2> QED BY <2>4, <2>5, <2>8
  <1>10. CASE UNCHANGED vars
    BY <1>10 DEF MessagesOfFile, StoredOfFile, LoopOfFile, LeftWritten, Written,
                 Active, Receivers, Dest, vars, program, network
  <1> QED BY <1>1, <1>2, <1>3, <1>4, <1>5, <1>6, <1>7, <1>8, <1>9, <1>10
          DEF Next, Run, Returned

LEMMA FileInvariant == Spec => []FileInv
  <1>1. Init => FileInv
    BY FileAccessAssumption
       DEF Init, FileInv, MessagesOfFile, StoredOfFile, LoopOfFile, LeftWritten,
           Active
  <1>2. TypeInv /\ FollowInv /\ FileInv /\ [Next]_vars => FileInv'
    BY FileStep
  <1> QED BY <1>1, <1>2, TypeInvariant, FollowInvariant, PTL DEF Spec

\* The command stays what it is.
LEMMA OneWriteStays == Spec /\ OneWrite => []OneWrite
  <1>1. OneWrite /\ [Next]_vars => OneWrite'
    BY CommandStep, SameCommand DEF OneWrite
  <1> QED BY <1>1, PTL DEF Spec

\* The command that writes a file of fewer than TotalMod fragments to one
\* destination returns 0 only when that station (with broadcast: some station)
\* has the whole file, however late, repeated or lost the answers were.
THEOREM OneDestinationIsWritten == Spec /\ OneWrite => []ReturnedOkIsWritten
  <1>1. TypeInv /\ OneWrite /\ FileInv => ReturnedOkIsWritten
    BY OneWriteFacts
       DEF FileInv, LeftWritten, ReturnedOkIsWritten, Dest, TypeInv, TypeOK
  <1> QED BY <1>1, OneWriteStays, TypeInvariant, FileInvariant, PTL

-----------------------------------------------------------------------------
(* Saving a file.  The command that fetches a file of one station returns 0 *)
(* only with that file, if answers keep to the timeout and the output file  *)
(* can be opened.  Neither is more than is needed: an answer that is late   *)
(* is appended as a second copy, and what could not be opened is not there. *)

SavesFromOne ==
    /\ Len(MacList) = 1 /\ MacList[1] \in Sta
    /\ cmd.op = "save"
    /\ Fragments < TotalMod

OneSave == SavesFromOne /\ ~cmd.late /\ ~cmd.unwritable

\* The first n fragments of the file.
Beginning(n) == [k \in 1..n |-> k - 1]

\* The request is the only message there is, and turns into its answer.
OneMessage ==
    /\ \/ requests = {} /\ answers = {}
       \/ answers = {} /\ \E m \in requests : requests = {m}
       \/ requests = {} /\ \E a \in answers : answers = {a}
    /\ \A m \in requests : m.dst = Dest /\ m.frag = fragment
    /\ \A a \in answers :
           a.src = Dest /\ a.frag = fragment /\ a.total = Fragments

\* Nothing is on its way when a request is about to be sent.
Quiet ==
    /\ (pc = "send" \/ (pc = "next" /\ sta_idx = 1)) => requests = {} /\ answers = {}
    /\ pc = "wait" => OneMessage

\* The output file is the beginning of the file up to the fragment asked for;
\* what it was before does not matter once fragment 0 is there.
LoopOfSave ==
    Active => /\ sta_idx = 1 /\ dest_mac = Dest
              /\ \/ fragment = 0 /\ total = 0
                 \/ /\ fragment \in 1..(Fragments - 1) /\ total = Fragments
                    /\ out = Beginning(fragment)

LeftSaved ==
    /\ (sta_idx = 2 /\ rv = HPAV_OK) => out = Beginning(Fragments)
    /\ (pc = "done" /\ rv = HPAV_OK) => sta_idx = 2

SaveInv == OneSave => Quiet /\ LoopOfSave /\ LeftSaved

\* One more fragment, or the first one, makes a longer beginning.
LEMMA SaveGrows ==
    ASSUME NEW file, NEW a, a.ok, a.frag \in Nat,
           a.frag = 0 \/ file = Beginning(a.frag)
    PROVE  Save(file, a) = Beginning(a.frag + 1)
  <1>1. CASE a.frag = 0
    <2>1. Beginning(a.frag + 1) = [k \in 1..1 |-> k - 1]
      BY <1>1 DEF Beginning
    <2>2. [k \in 1..1 |-> k - 1] = <<0>>
      OBVIOUS
    <2> QED BY <1>1, <2>1, <2>2 DEF Save
  <1>2. CASE a.frag # 0
    <2>1. file = Beginning(a.frag) /\ a.frag \in Nat
      BY <1>2
    <2>2. Beginning(a.frag) \in Seq(Nat) /\ Len(Beginning(a.frag)) = a.frag
      BY <2>1 DEF Beginning
    <2>3. Append(Beginning(a.frag), a.frag) = Beginning(a.frag + 1)
      BY <2>1, <2>2 DEF Beginning
    <2> QED BY <1>2, <2>1, <2>3 DEF Save
  <1> QED BY <1>1, <1>2

\* The answer of this station, the only one there is.
LEMMA RespondSave ==
    ASSUME OneSave, TypeInv, SaveInv, pc = "wait",
           NEW a \in answers, Respond(<<a>>),
           answers' = answers \ {a}, UNCHANGED <<stored, requests>>
    PROVE  SaveInv'
  <1>0. /\ cmd \in Commands /\ cmd' = cmd
        /\ Fragments \in Nat \ {0}
        /\ MacList' = MacList /\ Fragments' = Fragments /\ Dest' = Dest
    BY CommandFacts, SameCommand DEF TypeInv, TypeOK, Respond, Dest
  <1>1. OneMessage /\ LoopOfSave /\ sta_idx = 1
    BY DEF SaveInv, Quiet, LoopOfSave, Active
  <1>2. requests' = {} /\ answers' = {}
    BY <1>1 DEF OneMessage
  <1>3. /\ a \in Answer /\ a.frag \in Nat /\ a.frag = fragment
        /\ a.src = Dest /\ a.total = Fragments /\ a.ok \in BOOLEAN
    BY <1>1, FileAccessAssumption DEF OneMessage, TypeInv, TypeOK, Answer, Number
  <1>4. a.frag + 1 <= Fragments
    BY <1>0, <1>1, <1>3 DEF LoopOfSave, Active
  <1>5. fragment' = a.frag + 1 /\ total' = Fragments /\ dest_mac' = Dest
    <2>1. a.frag + 1 < TotalMod
      BY <1>0, <1>3, <1>4, FileAccessAssumption DEF OneSave, SavesFromOne
    <2>2. <<a>>[1] = a
      OBVIOUS
    <2> QED BY <1>3, <2>1, <2>2, NextFragmentFacts DEF Respond
  <1>6. rv' = HPAV_OK => a.ok
    BY <1>3 DEF Respond, Failed, HPAV_OK, HPAV_NOK
  <1>7. a.ok => out' = Beginning(fragment')
    <2> SUFFICES ASSUME a.ok PROVE out' = Beginning(fragment')
      OBVIOUS
    <2>1. out' = Save(out, a)
      BY DEF Respond, SaveAll, OneSave, SavesFromOne
    <2>2. a.frag = 0 \/ out = Beginning(a.frag)
      BY <1>1, <1>3 DEF LoopOfSave, Active
    <2> QED BY <1>3, <1>5, <2>1, <2>2, SaveGrows
  <1>8. pc' \in {"send", "next"}
    BY DEF Respond, Continue
  <1>9. pc' = "send" => /\ rv' = HPAV_OK /\ sta_idx' = sta_idx
                        /\ fragment' < total'
    BY DEF Respond, Continue
  <1>10. pc' = "next" => /\ sta_idx' = sta_idx + 1
                         /\ rv' = HPAV_OK => ~(fragment' < total')
    BY DEF Respond, Continue
  <1>11. Quiet'
    BY <1>2, <1>8 DEF Quiet
  <1>12. LoopOfSave'
    <2> SUFFICES ASSUME pc' = "send"
                 PROVE  /\ sta_idx' = 1 /\ dest_mac' = Dest'
                        /\ fragment' \in 1..(Fragments' - 1) /\ total' = Fragments'
                        /\ out' = Beginning(fragment')
      BY <1>8 DEF LoopOfSave, Active, Beginning
    <2>1. out' = Beginning(fragment')
      BY <1>6, <1>7, <1>9
    <2>2. fragment' \in 1..(Fragments - 1)
      BY <1>0, <1>3, <1>5, <1>9
    <2> QED BY <1>0, <1>1, <1>5, <1>9, <2>1, <2>2
  <1>13. LeftSaved'
    <2> SUFFICES ASSUME pc' = "next", rv' = HPAV_OK
                 PROVE  out' = Beginning(Fragments')
      BY <1>1, <1>8, <1>9 DEF LeftSaved, Beginning
    <2>1. fragment' = Fragments
      BY <1>0, <1>3, <1>4, <1>5, <1>10
    <2> QED BY <1>0, <1>6, <1>7, <2>1
  <1> QED BY <1>11, <1>12, <1>13 DEF SaveInv

\* No answer, so none is on its way, and the same request is sent again.
LEMMA NoAnswerSave ==
    ASSUME OneSave, TypeInv, SaveInv, NoAnswer
    PROVE  SaveInv'
  <1>0. /\ cmd' = cmd
        /\ MacList' = MacList /\ Fragments' = Fragments /\ Dest' = Dest
    BY SameCommand DEF NoAnswer, NoResponse, Dest
  <1>1. LoopOfSave /\ sta_idx = 1 /\ pc = "wait"
    BY DEF SaveInv, LoopOfSave, Active, NoAnswer
  <1>2. requests' = {} /\ answers' = {}
    BY DEF NoAnswer, network, OneSave
  <1>3. pc' \in {"send", "next"}
    BY DEF NoAnswer, NoResponse, Continue
  <1>4. pc' = "send" => sta_idx' = sta_idx
    BY DEF NoAnswer, NoResponse, Continue
  <1>5. pc' = "next" => rv' # HPAV_OK /\ sta_idx' = 2
    <2> SUFFICES ASSUME pc' = "next" PROVE rv' # HPAV_OK /\ sta_idx' = 2
      OBVIOUS
    <2>1. /\ sta_idx' = sta_idx + 1
          /\ ~(rv' = HPAV_OK /\ (total' = 0 \/ fragment' < total'))
      BY DEF NoAnswer, NoResponse, Continue
    <2>2. total' = total /\ fragment' = fragment
      BY DEF NoAnswer, NoResponse
    <2>3. total = 0 \/ fragment < total
      BY <1>1, CommandFacts DEF LoopOfSave, Active, TypeInv, TypeOK
    <2> QED BY <1>1, <2>1, <2>2, <2>3
  <1>6. Quiet'
    BY <1>2, <1>3 DEF Quiet
  <1>7. LoopOfSave'
    <2>1. UNCHANGED <<dest_mac, fragment, total, out>>
      BY DEF NoAnswer, NoResponse
    <2> QED BY <1>0, <1>1, <1>3, <1>4, <2>1 DEF LoopOfSave, Active, Beginning
  <1>8. LeftSaved'
    BY <1>1, <1>3, <1>4, <1>5 DEF LeftSaved
  <1> QED BY <1>6, <1>7, <1>8 DEF SaveInv

LEMMA SaveStep ==
    ASSUME TypeInv, SaveInv, [Next]_vars
    PROVE  SaveInv'
  <1>0. /\ cmd \in Commands /\ cmd' = cmd
        /\ Fragments \in Nat \ {0}
        /\ MacList' = MacList /\ Fragments' = Fragments /\ Dest' = Dest
    BY CommandFacts, CommandStep, SameCommand DEF TypeInv, TypeOK, Dest
  <1> SUFFICES ASSUME OneSave PROVE SaveInv'
    BY <1>0 DEF SaveInv, OneSave, SavesFromOne
  <1>a. Quiet /\ LoopOfSave /\ LeftSaved
    BY DEF SaveInv
  <1>1. CASE Begin
    <2>1. sta_idx = 1 /\ sta_idx' = 1
      BY <1>1 DEF Begin, OneSave, SavesFromOne, TypeInv, TypeOK
    <2>2. requests' = {} /\ answers' = {} /\ pc' = "send"
      BY <1>1, <1>a, <2>1 DEF Begin, Quiet, network
    <2>3. dest_mac' = Dest' /\ fragment' = 0 /\ total' = 0
      BY <1>0, <1>1, <2>1 DEF Begin, OneSave, SavesFromOne, Dest
    <2>4. Quiet'
      BY <2>2 DEF Quiet
    <2>5. LoopOfSave'
      BY <2>1, <2>2, <2>3 DEF LoopOfSave
    <2>6. LeftSaved'
      BY <2>1, <2>2 DEF LeftSaved
    <2> QED BY <2>4, <2>5, <2>6 DEF SaveInv
  <1>2. CASE Refuse
    <2>1. pc' = "done" /\ rv' # HPAV_OK
      BY <1>2 DEF Refuse, PARAMETER_FAIL, REQ_FAIL, HPAV_OK
    <2> QED BY <2>1 DEF SaveInv, Quiet, LoopOfSave, LeftSaved, Active
  <1>3. CASE Return
    <2>1. pc' = "done" /\ UNCHANGED <<sta_idx, rv, out>> /\ sta_idx = 2
      BY <1>3 DEF Return, program, OneSave, SavesFromOne, TypeInv, TypeOK
    <2>2. LeftSaved'
      BY <1>0, <1>a, <2>1 DEF LeftSaved, Beginning
    <2> QED BY <2>1, <2>2 DEF SaveInv, Quiet, LoopOfSave, Active
  <1>4. CASE Send
    <2>1. PICK reached \in SUBSET Receivers(dest_mac), c \in 1..Copies :
              requests' = requests \cup
                  {[dst |-> s, frag |-> fragment, total |-> total,
                    copy |-> c] : s \in reached}
      BY <1>4 DEF Send
    <2>2. /\ UNCHANGED <<stored, answers, program>> /\ Active /\ pc' = "wait"
          /\ requests = {} /\ answers = {} /\ dest_mac = Dest /\ sta_idx = 1
      BY <1>4, <1>a DEF Send, Active, Quiet, LoopOfSave
    <2>3. reached \subseteq {Dest}
      BY <2>2, FileAccessAssumption DEF Receivers, OneSave, SavesFromOne, Dest
    <2>4. OneMessage'
      <3>1. answers' = {} /\ fragment' = fragment /\ Dest' = Dest
        BY <1>0, <2>2 DEF program
      <3>2. \A m \in requests' : m.dst = Dest /\ m.frag = fragment
        BY <2>1, <2>2, <2>3
      <3>3. requests' = {} \/ \E m \in requests' : requests' = {m}
        BY <2>1, <2>2, <2>3
      <3> QED BY <3>1, <3>2, <3>3 DEF OneMessage
    <2>5. Quiet'
      BY <2>2, <2>4 DEF Quiet
    <2>6. LoopOfSave'
      BY <1>0, <1>a, <2>2 DEF LoopOfSave, Active, program, Beginning
    <2>7. LeftSaved'
      BY <2>2 DEF LeftSaved, program
    <2> QED BY <2>5, <2>6, <2>7 DEF SaveInv
  <1>5. CASE PcapError
    <2>1. /\ pc' = "next" /\ rv' # HPAV_OK
          /\ sta_idx' = sta_idx + 1 /\ sta_idx = 1
      BY <1>5, <1>a DEF PcapError, Continue, HPAV_OK, HPAV_NOK, LoopOfSave, Active
    <2> QED BY <2>1 DEF SaveInv, Quiet, LoopOfSave, LeftSaved, Active
  <1>6. CASE ReceiveOne
    <2>1. PICK a \in answers : Respond(<<a>>) /\ answers' = answers \ {a}
      BY <1>6 DEF ReceiveOne
    <2>2. pc = "wait" /\ UNCHANGED <<stored, requests>>
      BY <1>6 DEF ReceiveOne
    <2> QED BY <2>1, <2>2, RespondSave
  <1>7. CASE ReceiveTwo
    <2>1. \E a \in answers : \E b \in answers \ {a} : TRUE
      BY <1>7 DEF ReceiveTwo
    <2>2. OneMessage
      BY <1>7, <1>a DEF ReceiveTwo, Quiet
    <2> QED BY <2>1, <2>2 DEF OneMessage
  <1>8. CASE NoAnswer
    BY <1>8, NoAnswerSave
  <1>9. CASE Serve
    <2>1. PICK m \in requests, ok \in BOOLEAN, c \in 1..Copies :
              /\ requests' = requests \ {m}
              /\ answers' \in {answers, answers \cup
                     {[src |-> m.dst, frag |-> m.frag,
                       total |-> AnsweredTotal(m), ok |-> ok, copy |-> c]}}
      BY <1>9 DEF Serve
    <2>2. UNCHANGED <<pc, program>>
      BY <1>9 DEF Serve
    <2>3. AnsweredTotal(m) = Fragments
      <3>1. Fragments % TotalMod = Fragments
        BY <1>0, NumberMod, FileAccessAssumption DEF OneSave, SavesFromOne
      <3> QED BY <3>1 DEF AnsweredTotal, OneSave, SavesFromOne
    <2>4. pc # "send" /\ ~(pc = "next" /\ sta_idx = 1)
      BY <1>a DEF Quiet
    <2>5. pc = "wait" => OneMessage'
      <3> SUFFICES ASSUME pc = "wait" PROVE OneMessage'
        OBVIOUS
      <3>1. requests = {m} /\ answers = {} /\ m.dst = Dest /\ m.frag = fragment
        BY <1>a DEF Quiet, OneMessage
      <3>2. requests' = {}
        BY <2>1, <3>1
      <3>3. \/ answers' = {}
            \/ answers' = {[src |-> m.dst, frag |-> m.frag,
                            total |-> Fragments, ok |-> ok, copy |-> c]}
        BY <2>1, <2>3, <3>1
      <3>4. fragment' = fragment
        BY <2>2 DEF program
      <3> QED BY <1>0, <3>1, <3>2, <3>3, <3>4 DEF OneMessage
    <2>6. Quiet'
      BY <2>2, <2>4, <2>5 DEF Quiet, program
    <2>7. LoopOfSave' /\ LeftSaved'
      BY <1>0, <1>a, <2>2 DEF LoopOfSave, LeftSaved, Active, program, Beginning
    <2> QED BY <2>6, <2>7 DEF SaveInv
  <1>10. CASE UNCHANGED vars
    <2>1. UNCHANGED <<pc, program, network>>
      BY <1>10 DEF vars
    <2>2. Quiet'
      BY <1>0, <1>a, <2>1 DEF Quiet, OneMessage, program, network
    <2>3. LoopOfSave' /\ LeftSaved'
      BY <1>0, <1>a, <2>1 DEF LoopOfSave, LeftSaved, Active, program, Beginning
    <2> QED BY <2>2, <2>3 DEF SaveInv
  <1> QED BY <1>1, <1>2, <1>3, <1>4, <1>5, <1>6, <1>7, <1>8, <1>9, <1>10
          DEF Next, Run, Returned

\* The command that saves a file of fewer than TotalMod fragments from one
\* station returns 0 only with an output file that holds each fragment once, in
\* order, whatever is lost or refused on the way and whatever the output file
\* held before: provided that no answer is late and the file can be opened.
THEOREM OneSaveIsInOrder == Spec /\ SavesFromOne => []InTimeIsSaved
  <1>1. Init => SaveInv
    BY DEF Init, SaveInv, Quiet, LoopOfSave, LeftSaved, Active
  <1>2. TypeInv /\ SaveInv /\ [Next]_vars => SaveInv'
    BY SaveStep
  <1>3. SavesFromOne /\ [Next]_vars => SavesFromOne'
    BY CommandStep, SameCommand DEF SavesFromOne
  <1>4. SavesFromOne /\ SaveInv => InTimeIsSaved
    BY DEF SaveInv, OneSave, LeftSaved, InTimeIsSaved, ReturnedOkIsSaved, Beginning
  <1> QED BY <1>1, <1>2, <1>3, <1>4, TypeInvariant, PTL DEF Spec

-----------------------------------------------------------------------------
(* The transfer to one destination implements Transfer.                    *)

\* Every station's file is a beginning of the file written.
FilesAreBeginnings ==
    OneWrite => \A s \in Sta : \E n \in 0..Fragments : stored[s] = 0..(n - 1)

\* What the proofs of the steps start from.
Inv == TypeInv /\ FollowInv /\ FileInv /\ FilesAreBeginnings

LEMMA SameJob ==
    ASSUME cmd' = cmd
    PROVE  /\ MacList' = MacList /\ Fragments' = Fragments /\ Dest' = Dest
           /\ Receivers(Dest)' = Receivers(Dest)
           /\ OneWrite' = OneWrite
  BY DEF MacList, Fragments, Dest, Receivers, OneWrite

\* A station that serves a request carries out the fragment after those it has,
\* or has it already, or reports a failure.
LEMMA ServeCarriesOut ==
    ASSUME Inv, OneWrite, Serve
    PROVE  \/ stored' = stored
           \/ \E s \in Receivers(Dest), n \in 0..(Fragments - 1) :
                  /\ s \in Sta
                  /\ stored[s] = 0..(n - 1)
                  /\ stored' = [stored EXCEPT ![s] = 0..n]
  <1>1. PICK m \in requests, ok \in BOOLEAN :
            stored' = IF ok THEN [stored EXCEPT ![m.dst] = @ \cup {m.frag}]
                      ELSE stored
    BY DEF Serve
  <1>2. Fragments \in Nat \ {0}
    BY CommandFacts DEF Inv, TypeInv, TypeOK
  <1>3. /\ m.dst \in Sta /\ m.dst \in Receivers(Dest)
        /\ m.frag \in 0..(Fragments - 1)
    BY <1>2, FileAccessAssumption
       DEF Inv, TypeInv, TypeOK, Request, Number, FileInv, MessagesOfFile
  <1>4. PICK n \in 0..Fragments : stored[m.dst] = 0..(n - 1)
    BY <1>3 DEF Inv, FilesAreBeginnings
  <1>5. 0..(m.frag - 1) \subseteq 0..(n - 1)
    BY <1>4 DEF Inv, FollowInv, NoFragmentSkipped
  <1>6. m.frag <= n
    <2> SUFFICES ASSUME m.frag > n PROVE FALSE
      BY <1>2, <1>3, <1>4
    <2> QED BY <1>2, <1>3, <1>4, <1>5, n \in 0..(m.frag - 1), ~(n \in 0..(n - 1))
  <1>7. CASE ~ok
    BY <1>1, <1>7
  <1>8. CASE ok /\ m.frag < n
    <2>1. stored[m.dst] \cup {m.frag} = stored[m.dst]
      BY <1>2, <1>3, <1>4, <1>8
    <2>2. stored' = stored
      BY <1>1, <1>3, <1>8, <2>1 DEF Inv, TypeInv, TypeOK
    <2> QED BY <2>2
  <1>9. CASE ok /\ m.frag = n
    <2>1. stored[m.dst] \cup {m.frag} = 0..n
      BY <1>2, <1>3, <1>4, <1>9
    <2>2. stored' = [stored EXCEPT ![m.dst] = 0..n]
      BY <1>1, <1>3, <1>9, <2>1 DEF Inv, TypeInv, TypeOK
    <2> QED BY <1>3, <1>4, <1>9, <2>2
  <1>10. m.frag < n \/ m.frag = n
    BY <1>2, <1>3, <1>4, <1>6
  <1> QED BY <1>7, <1>8, <1>9, <1>10

\* Only a station that serves a request changes a file.
LEMMA OnlyServeStores ==
    ASSUME [Next]_vars, ~Serve
    PROVE  stored' = stored
  BY DEF Next, Run, Begin, Refuse, Return, Send, PcapError, ReceiveOne,
         ReceiveTwo, NoAnswer, Returned, vars, network

LEMMA BeginningsStep ==
    ASSUME Inv, [Next]_vars
    PROVE  FilesAreBeginnings'
  <1>0. cmd' = cmd /\ Fragments' = Fragments /\ OneWrite' = OneWrite
    BY CommandStep, SameJob
  <1> SUFFICES ASSUME OneWrite
               PROVE  \A s \in Sta : \E n \in 0..Fragments :
                          stored'[s] = 0..(n - 1)
    BY <1>0 DEF FilesAreBeginnings
  <1>1. Fragments \in Nat \ {0}
    BY CommandFacts DEF Inv, TypeInv, TypeOK
  <1>2. \A s \in Sta : \E n \in 0..Fragments : stored[s] = 0..(n - 1)
    BY DEF Inv, FilesAreBeginnings
  <1>3. CASE stored' = stored
    BY <1>2, <1>3
  <1>4. CASE stored' # stored
    <2>1. PICK s \in Sta, n \in 0..(Fragments - 1) :
              stored' = [stored EXCEPT ![s] = 0..n]
      BY <1>4, OnlyServeStores, ServeCarriesOut
    <2>2. stored'[s] = 0..((n + 1) - 1) /\ n + 1 \in 0..Fragments
      BY <1>1, <2>1 DEF Inv, TypeInv, TypeOK
    <2>3. \A t \in Sta \ {s} : stored'[t] = stored[t]
      BY <2>1 DEF Inv, TypeInv, TypeOK
    <2> QED BY <1>2, <2>2, <2>3
  <1> QED BY <1>3, <1>4

LEMMA Invariant == Spec => []Inv
  <1>1. Init => FilesAreBeginnings
    <2> SUFFICES ASSUME Init, NEW s \in Sta
                 PROVE  \E n \in 0..Fragments : stored[s] = 0..(n - 1)
      BY DEF FilesAreBeginnings
    <2>1. 0 \in 0..Fragments
      BY CommandFacts DEF Init
    <2>2. stored[s] = 0..(0 - 1)
      BY DEF Init
    <2> QED BY <2>1, <2>2
  <1>2. Inv /\ [Next]_vars => FilesAreBeginnings'
    BY BeginningsStep
  <1> QED BY <1>1, <1>2, TypeInvariant, FollowInvariant, FileInvariant, PTL
          DEF Spec, Inv

\* Every step of the command is a step of Transfer, or none.
LEMMA TransferStep ==
    ASSUME Inv, FileInv', OneWrite, [Next]_vars
    PROVE  [T!Next]_(T!vars)
  <1> DEFINE job == [to |-> Receivers(MacList[1]), fragments |-> Fragments]
  <1>1. cmd' = cmd /\ job' = job /\ OneWrite'
    <2>1. cmd' = cmd
      BY CommandStep
    <2> QED BY <2>1, SameJob DEF Dest
  <1>2. CASE Serve
    <2>1. Decision' = Decision
      BY <1>2 DEF Serve, Decision, program
    <2>2. CASE stored' = stored
      BY <1>1, <2>1, <2>2 DEF T!vars
    <2>3. CASE \E s \in Receivers(Dest), n \in 0..(Fragments - 1) :
                   /\ s \in Sta
                   /\ stored[s] = 0..(n - 1)
                   /\ stored' = [stored EXCEPT ![s] = 0..n]
      <3>1. PICK s \in Receivers(Dest) : s \in Sta /\ T!CarryOut(s)
        BY <1>1, <2>1, <2>3 DEF T!CarryOut, Dest
      <3> QED BY <3>1 DEF T!Next
    <2> QED BY <1>2, <2>2, <2>3, ServeCarriesOut
  <1>3. CASE Refuse
    <2>1. Decision = "running" /\ Decision' = "failed"
      BY <1>3 DEF Refuse, Decision, PARAMETER_FAIL, REQ_FAIL, HPAV_OK
    <2>2. T!Fail
      BY <1>1, <1>3, <2>1 DEF Refuse, T!Fail, network
    <2> QED BY <2>2 DEF T!Next
  <1>4. CASE Return
    <2>1. Decision = "running" /\ stored' = stored /\ rv' = rv /\ pc' = "done"
      BY <1>4 DEF Return, Decision, program, network
    <2>2. CASE rv = HPAV_OK
      <3>1. Written(Dest)'
        BY <1>1, <2>1, <2>2 DEF FileInv, LeftWritten
      <3>2. \E s \in job.to : stored[s] = 0..(Fragments - 1)
        BY <1>1, <2>1, <3>1, SameJob DEF Written, Dest
      <3>3. T!Succeed
        BY <1>1, <2>1, <2>2, <3>2 DEF T!Succeed, Decision
      <3> QED BY <3>3 DEF T!Next
    <2>3. CASE rv # HPAV_OK
      <3>1. T!Fail
        BY <1>1, <2>1, <2>3 DEF T!Fail, Decision
      <3> QED BY <3>1 DEF T!Next
    <2> QED BY <2>2, <2>3
  <1>5. CASE Begin \/ Send \/ PcapError \/ ReceiveOne \/ ReceiveTwo \/ NoAnswer
    <2>1. pc # "done" /\ pc' # "done" /\ stored' = stored
      BY <1>5 DEF Begin, Send, PcapError, ReceiveOne, ReceiveTwo, NoAnswer,
                  Respond, NoResponse, Continue, network
    <2>2. Decision' = Decision
      BY <2>1 DEF Decision
    <2> QED BY <1>1, <2>1, <2>2 DEF T!vars
  <1>6. CASE UNCHANGED vars
    <2>1. Decision' = Decision /\ stored' = stored
      BY <1>6 DEF vars, program, network, Decision
    <2> QED BY <1>1, <2>1 DEF T!vars
  <1> QED BY <1>2, <1>3, <1>4, <1>5, <1>6 DEF Next, Run, Returned

\* The command that writes a file of fewer than TotalMod fragments to one
\* destination implements the safety part of Transfer: whatever is lost, late
\* or answered by another station, files grow by the fragment that comes next,
\* the command decides once, and its success is one.
THEOREM OneDestinationIsATransfer == Spec /\ OneWrite => TransferSafety
  <1>1. Init /\ OneWrite => T!Init
    <2> SUFFICES ASSUME Init, OneWrite PROVE T!Init
      OBVIOUS
    <2>1. Fragments \in Nat \ {0} /\ Receivers(Dest) \subseteq Sta
      BY CommandFacts, OneWriteFacts DEF Init
    <2> QED BY <2>1 DEF Init, T!Init, Decision, Dest
  <1>2. Inv /\ FileInv' /\ OneWrite /\ [Next]_vars => [T!Next]_(T!vars)
    BY TransferStep
  <1>3. Inv => FileInv
    BY DEF Inv
  <1> QED BY <1>1, <1>2, <1>3, Invariant, OneWriteStays, PTL
          DEF Spec, TransferSafety
=============================================================================
