----------------------------- MODULE FileAccess -----------------------------
(***************************************************************************)
(* The file transfer of hpav_test: test_mme_mtk_vs_file_access_req in      *)
(* hpav_test/test_mtk.c, with the part of the stations it talks to.  For   *)
(* each destination it sends VS_FILE_ACCESS.REQ fragments one at a time;   *)
(* the fragment number and the destination of the next request come from   *)
(* the last answer, and a request without an answer is sent again.         *)
(*                                                                         *)
(* One call of hpav_mtk_vs_file_access_sndrcv is Send followed by Receive  *)
(* (the answers found by the first dispatch that finds any) or NoAnswer    *)
(* (its 5 s are over).  The call takes any answer sent to the host: neither *)
(* its sender nor its fragment number is compared with the request.        *)
(***************************************************************************)
EXTENDS Integers, Sequences

CONSTANTS
    Sta,          \* the stations on the network
    Broadcast,    \* the broadcast address, the default destination
    Commands,     \* the commands that can be given
    TotalMod,     \* total_fragments and fragment_number are below it (2^16)
    MaxRetry,     \* requests without an answer before giving up (3)
    Copies        \* bound: identical messages in flight at one time

ASSUME FileAccessAssumption ==
    /\ Broadcast \notin Sta
    /\ Commands \subseteq [op : {"write", "save", "read", "other"},
                           mac_list : Seq(Sta \cup {Broadcast}),
                           fragments : Nat \ {0},
                           late : BOOLEAN, unwritable : BOOLEAN]
    /\ TotalMod \in Nat \ {0}
    /\ MaxRetry \in Nat \ {0}
    /\ Copies \in Nat \ {0}

VARIABLES
    cmd,         \* the command: an operation, its destinations in order, and
                 \* the number of fragments of the file to write, save or read
                 \* ("other": delete or format, which one answer ends); and what
                 \* it meets: late if answers can take longer than the timeout,
                 \* unwritable if the output file may not be opened
    pc,          \* "next" station, "send", "wait" in sndrcv, or "done"
    sta_idx,     \* position in the list of destinations
    dest_mac,    \* destination of the next request
    fragment,    \* mme_sent.fragment_number
    total,       \* mme_sent.total_fragments
    retry_count, \* requests without an answer in a row
    rv,          \* the value to return
    out,         \* the output file: the fragments appended to it
    stored,      \* stored[s]: the fragments station s has written
    requests,    \* requests on their way to a station
    answers      \* answers on their way to the host, or in the capture queue

program == <<cmd, sta_idx, dest_mac, fragment, total, retry_count, rv, out>>
network == <<stored, requests, answers>>
vars == <<pc, program, network>>

HPAV_OK == 0
HPAV_NOK == -1
PARAMETER_FAIL == -1   \* MTK_VS_FILE_ACCESS_REQ_PARAMETER_FAIL
REQ_FAIL == -2         \* MTK_VS_FILE_ACCESS_REQ_FAIL

MacList == cmd.mac_list
Fragments == cmd.fragments

Number == 0..(TotalMod - 1)

\* copy tells identical messages in flight apart.
Request == [dst : Sta, frag : Number, total : Number, copy : 1..Copies]
Answer == [src : Sta, frag : Number, total : Number, ok : BOOLEAN,
           copy : 1..Copies]

Init ==
    /\ cmd \in Commands
    /\ pc = "next"
    /\ sta_idx = 1
    /\ dest_mac = Broadcast
    /\ fragment = 0
    /\ total = 0
    /\ retry_count = 0
    /\ rv = HPAV_OK
    /\ out \in IF cmd.op = "save" THEN {<<>>, <<0>>} ELSE {<<>>}  \* an old file
    /\ stored = [s \in Sta |-> {}]
    /\ requests = {}
    /\ answers = {}

-----------------------------------------------------------------------------
(* The loop over the stations.                                             *)

\* The request is cleared; a file to write is read and counted in fragments.
Begin ==
    /\ pc = "next"
    /\ sta_idx <= Len(MacList)
    /\ dest_mac' = MacList[sta_idx]
    /\ fragment' = 0
    /\ total' = IF cmd.op = "write" THEN Fragments % TotalMod ELSE 0
    /\ retry_count' = 0
    /\ pc' = "send"
    /\ UNCHANGED <<cmd, sta_idx, rv, out, network>>

\* The parameter is too long, or the file to write is missing or empty: the
\* stations left are not tried.
Refuse ==
    /\ pc = "next"
    /\ sta_idx <= Len(MacList)
    /\ \/ rv' = PARAMETER_FAIL
       \/ cmd.op = "write" /\ rv' = REQ_FAIL
    /\ pc' = "done"
    /\ UNCHANGED <<cmd, sta_idx, dest_mac, fragment, total, retry_count, out,
                   network>>

Return ==
    /\ pc = "next"
    /\ sta_idx > Len(MacList)
    /\ pc' = "done"
    /\ UNCHANGED <<program, network>>

-----------------------------------------------------------------------------
(* The fragments of one station.                                           *)

Receivers(mac) == IF mac = Broadcast THEN Sta ELSE {mac}

\* The request goes out; the network may lose it on its way to any station.
Send ==
    /\ pc = "send"
    /\ \E reached \in SUBSET Receivers(dest_mac), c \in 1..Copies :
           LET sent == {[dst |-> s, frag |-> fragment, total |-> total,
                         copy |-> c] : s \in reached}
           IN /\ sent \cap requests = {}
              /\ requests' = requests \cup sent
    /\ pc' = "wait"
    /\ UNCHANGED <<program, stored, answers>>

\* The loop condition: another request, or the next station.
Continue(responded) ==
    IF /\ rv' = HPAV_OK
       /\ (total' = 0 /\ ~responded) \/ fragment' < total'
    THEN pc' = "send" /\ sta_idx' = sta_idx
    ELSE pc' = "next" /\ sta_idx' = sta_idx + 1

\* libpcap fails while the request is sent or an answer awaited.
PcapError ==
    /\ pc \in {"send", "wait"}
    /\ rv' = HPAV_NOK
    /\ UNCHANGED <<cmd, dest_mac, fragment, total, retry_count, out, network>>
    /\ Continue(FALSE)

\* Mutated form: the fragment after the next one is sent.
NextFragmentSkipping(a) == (a.frag + 2) % TotalMod

\* Mutated form: the first fragment is sent again and again.
NextFragmentStuck(a) == a.frag

\* The fragment to send after answer a.
NextFragment(a) == (a.frag + 1) % TotalMod

\* Mutated form: the result a station reports is ignored.
FailedIgnored(response) == FALSE

\* The chain is processed up to its first failure.
Failed(response) == \E n \in DOMAIN response : ~response[n].ok

\* Mutated form: the file is never truncated.
SaveAppending(file, a) == IF a.ok THEN Append(file, a.frag) ELSE file

\* A saved fragment is appended to the output file, fragment 0 starts it anew.
Save(file, a) ==
    IF ~a.ok THEN file
    ELSE IF a.frag = 0 THEN <<0>> ELSE Append(file, a.frag)

SaveAll(response) ==
    IF Len(response) = 1 \/ ~response[1].ok
    THEN Save(out, response[1])
    ELSE Save(Save(out, response[1]), response[2])

\* A chain of answers is processed; only the first one says where to go on.
Respond(response) ==
    /\ rv' = IF Failed(response) THEN HPAV_NOK ELSE HPAV_OK
    /\ \/ out' = IF cmd.op = "save" THEN SaveAll(response) ELSE out
       \/ cmd.op = "save" /\ cmd.unwritable /\ out' = out
    /\ dest_mac' = response[1].src
    /\ total' = response[1].total
    /\ fragment' = NextFragment(response[1])
    /\ retry_count' = 0
    /\ UNCHANGED cmd
    /\ Continue(TRUE)

\* Mutated form: a request is sent again for ever.
GiveUpNever == FALSE

\* The request without an answer was one too many.
GiveUp == retry_count + 1 >= MaxRetry

NoResponse ==
    /\ retry_count' = retry_count + 1
    /\ rv' = IF GiveUp THEN REQ_FAIL ELSE HPAV_OK
    /\ UNCHANGED <<cmd, dest_mac, fragment, total, out>>
    /\ Continue(FALSE)

\* One answer is found.
ReceiveOne ==
    /\ pc = "wait"
    /\ \E a \in answers :
           /\ Respond(<<a>>)
           /\ answers' = answers \ {a}
    /\ UNCHANGED <<stored, requests>>

\* Two answers are found at once.  Two of one station that carry the same fmsn
\* fall in one group, whose reassembly fails: no response.
ReceiveTwo ==
    /\ pc = "wait"
    /\ \E a \in answers : \E b \in answers \ {a} :
           /\ \/ Respond(<<a, b>>)
              \/ a.src = b.src /\ NoResponse
           /\ answers' = answers \ {a, b}
    /\ UNCHANGED <<stored, requests>>

\* 5 s without an answer.
NoAnswer ==
    /\ pc = "wait"
    /\ cmd.late \/ (requests = {} /\ answers = {})
    /\ NoResponse
    /\ UNCHANGED network

-----------------------------------------------------------------------------
(* The stations (firmware, outside the repository, as the program uses it). *)

\* The fragments the file has, as the station's answer to m states it.
AnsweredTotal(m) ==
    CASE cmd.op = "write" -> m.total
      [] cmd.op \in {"save", "read"} -> Fragments % TotalMod
      [] cmd.op = "other" -> 0

\* A station handles a request; its answer may be lost.
Serve ==
    /\ \E m \in requests, ok \in BOOLEAN, c \in 1..Copies :
           LET a == [src |-> m.dst, frag |-> m.frag,
                     total |-> AnsweredTotal(m), ok |-> ok, copy |-> c]
           IN /\ requests' = requests \ {m}
              /\ stored' = IF ok THEN [stored EXCEPT ![m.dst] = @ \cup {m.frag}]
                           ELSE stored
              /\ \/ a \notin answers /\ answers' = answers \cup {a}
                 \/ answers' = answers
    /\ UNCHANGED <<pc, program>>

Returned == pc = "done" /\ UNCHANGED vars

Run == \/ Begin \/ Refuse \/ Return
       \/ Send \/ PcapError \/ ReceiveOne \/ ReceiveTwo \/ NoAnswer

Next == Run \/ Serve \/ Returned

Spec == Init /\ [][Next]_vars

\* The program runs on; the network and the stations owe it nothing.
FairSpec == Spec /\ WF_vars(Run)

-----------------------------------------------------------------------------
(* Properties.                                                             *)

\* The values the transfer's variables and its messages can have.
TypeOK ==
    /\ cmd \in Commands
    /\ pc \in {"next", "send", "wait", "done"}
    /\ sta_idx \in 1..(Len(MacList) + 1)
    /\ dest_mac \in Sta \cup {Broadcast}
    /\ fragment \in Number
    /\ total \in Number
    /\ retry_count \in 0..MaxRetry
    /\ rv \in {HPAV_OK, HPAV_NOK, REQ_FAIL}
    /\ out \in Seq(Number)
    /\ stored \in [Sta -> SUBSET Number]
    /\ requests \subseteq Request
    /\ answers \subseteq Answer

\* Everything that was to be written is on the station mac stands for.
Written(mac) == \E s \in Receivers(mac) : stored[s] = 0..(Fragments - 1)

\* "On success, the tool returns with exit code 0. On general errors [...] the
\* tool return with exit code 1" (README:28-29): the command returns 0 only when
\* every station it was given has what was to be written.  With several of them
\* it is not so: the last result hides the others, and a late answer of the
\* station before ends the turn of the next.
ReturnedOkIsWritten ==
    (pc = "done" /\ rv = HPAV_OK) =>
        \A i \in DOMAIN MacList : Written(MacList[i])

\* No station is asked for a fragment before it has acknowledged all the
\* fragments that precede it: a file is never written with a hole that a lost
\* answer leaves open.
NoFragmentSkipped ==
    \A m \in requests : 0..(m.frag - 1) \subseteq stored[m.dst]

\* The save command returns 0 only with an output file that holds each
\* fragment of the station's file once, in order.
ReturnedOkIsSaved ==
    (cmd.op = "save" /\ pc = "done" /\ rv = HPAV_OK)
    => out = [n \in 1..Fragments |-> n - 1]

\* It does so if answers keep to the timeout and the output file can be opened,
\* whatever is lost, refused and asked for again, and also in place of an older
\* file.  It needs both: a late answer is appended as a second copy, and a file
\* that could not be opened is not looked at (test_mtk.c:2342).
InTimeIsSaved == ~cmd.late /\ ~cmd.unwritable => ReturnedOkIsSaved

\* The command ends, whatever the network does.
Terminates == <>(pc = "done")
=============================================================================
