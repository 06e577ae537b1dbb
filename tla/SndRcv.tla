------------------------------- MODULE SndRcv -------------------------------
(***************************************************************************)
(* The send/receive functions of libhpav and libhpav_mtk: the macro        *)
(* HPAV_MME_SNDRCV_IMPL of libhpav/hpav_mme.h and the functions of         *)
(* libhpav_mtk/hpav_mtk_mme.c written after it.  Calls follow one another  *)
(* on one channel.  A call sets the filter, sends its request, and polls   *)
(* the capture queue until its time is over, it has the frames it expects, *)
(* or its own rule breaks the loop; then the frames are reassembled.       *)
(*                                                                         *)
(* The functions differ only in what a call record says: see the profiles. *)
(* The callback data is rx: num_fragments_received is the length of rx,    *)
(* fn and stop are computed from it (Fn, Stop).                            *)
(***************************************************************************)
EXTENDS Frames

CONSTANTS
    Sta,         \* the stations
    Broadcast,   \* the broadcast address
    Nobody,      \* an address of no station (all zeroes)
    Host,        \* the address of the channel's interface
    Calls,       \* the calls a program can make
    MaxCalls,    \* bound: calls on the channel
    Unasked,     \* what stations will send without a call asking for it
    Sizes,       \* the values of nf that answers can have
    FmsnMod,     \* message numbers are below it (2^8)
    Lossy        \* whether the network loses frames

Hosts == {r.host : r \in Unasked} \cup {Host}
Types == {c.type : c \in Calls} \cup {r.type : r \in Unasked}

ASSUME SndRcvAssumption ==
    /\ Broadcast \notin Sta /\ Nobody \notin Sta /\ Broadcast # Nobody
    /\ \A c \in Calls :
           /\ c.sta \in Sta \cup {Broadcast, Nobody}
           /\ c.timeout \in Nat /\ c.num \in Nat
           /\ c.sends \in BOOLEAN
           /\ c.rule \in {"none", "fragments", "any"}
    /\ MaxCalls \in Nat
    /\ Unasked \subseteq [sta : Sta, host : Hosts, type : Types, call : {0}]
    /\ Sizes \subseteq Nat
    /\ FmsnMod \in Nat \ {0}
    /\ Lossy \in BOOLEAN

VARIABLES
    pc,        \* "idle", "setup", "send", "dispatch", "clock", "assemble",
               \* "closed" or "crashed"
    call,      \* the current, or last, call
    calls,     \* the number of calls made
    status,    \* what the last call returned
    response,  \* *response: the packets decoded
    owned,     \* memory of the call that is not freed yet
    rx,        \* cb_data.rx_frames
    got,       \* the dispatch in progress has processed frames (result > 0)
    brk,       \* pcap_breakloop was called and not yet noticed
    elapsed,   \* time in the receive loop
    rxq,       \* the capture queue of the channel
    pending,   \* requests the stations have not answered (yet)
    answered,  \* requests that were answered
    net,       \* net[s]: frames on their way from station s
    fmsn       \* fmsn[s]: number of the next message of station s

program == <<call, calls, status, response, owned, rx, got, brk, elapsed>>
network == <<pending, answered, net, fmsn>>
vars == <<pc, program, rxq, network>>

HPAV_OK == 0
HPAV_ERROR_PCAP_ERROR == 1

-----------------------------------------------------------------------------
(* The functions.  rule: when the loop is left on frames received.         *)

\* HPAV_MME_SNDRCV_IMPL: one function for each MME of the library.
Sndrcv(type, sta, timeout, num) ==
    [type |-> type, sta |-> sta, timeout |-> timeout, num |-> num,
     sends |-> TRUE, rule |-> "none"]

reset_ind_sndrcv(sta, timeout, num) ==
    [type |-> "reset_rsp", sta |-> sta, timeout |-> timeout, num |-> num,
     sends |-> TRUE, rule |-> "none"]

get_pwm_stats_sndrcv(sta, timeout, num) ==
    [type |-> "pwm_stats", sta |-> sta, timeout |-> timeout, num |-> num,
     sends |-> TRUE, rule |-> "fragments"]

get_pwm_conf_sndrcv(sta, timeout, num) ==
    [type |-> "get_pwm_conf", sta |-> sta, timeout |-> timeout, num |-> num,
     sends |-> TRUE, rule |-> "fragments"]

set_pwm_conf_sndrcv(sta, timeout, num) ==
    [type |-> "set_pwm_conf", sta |-> sta, timeout |-> timeout, num |-> num,
     sends |-> TRUE, rule |-> "fragments"]

\* num_fragments is not copied to the callback data.
set_tx_cali_sndrcv(sta, timeout, num) ==
    [type |-> "tx_cali", sta |-> sta, timeout |-> timeout, num |-> 0,
     sends |-> TRUE, rule |-> "fragments"]

\* Nothing is sent, and there is no destination.
set_tx_cali_ind_rcv(timeout, num) ==
    [type |-> "tx_cali_ind", sta |-> Nobody, timeout |-> timeout, num |-> 0,
     sends |-> FALSE, rule |-> "fragments"]

file_access_sndrcv(sta, timeout, num, scan) ==
    [type |-> "file_access", sta |-> sta, timeout |-> timeout, num |-> num,
     sends |-> TRUE, rule |-> IF scan = 0 THEN "any" ELSE "none"]

-----------------------------------------------------------------------------
(* State.                                                                  *)

NoCall == [type |-> "none", sta |-> Nobody, timeout |-> 0, num |-> 0,
           sends |-> FALSE, rule |-> "none"]

\* The channel was just opened; hpav_open_channel calls pcap_breakloop.
Init ==
    /\ pc = "idle"
    /\ call = NoCall
    /\ calls = 0
    /\ status = HPAV_OK
    /\ response = {}
    /\ owned = {}
    /\ rx = <<>>
    /\ got = FALSE
    /\ brk = TRUE
    /\ elapsed = 0
    /\ rxq = <<>>
    /\ pending = Unasked
    /\ answered = {}
    /\ net = [s \in Sta |-> <<>>]
    /\ fmsn = [s \in Sta |-> 0]

-----------------------------------------------------------------------------
(* The start of a call.                                                    *)

\* Mutated form: the start time of the last call is kept.
CallWithoutStart ==
    /\ pc = "idle"
    /\ calls < MaxCalls
    /\ \E c \in Calls :
           /\ call' = c
           /\ owned' = IF c.sends THEN {"tx_frames"} ELSE {}
    /\ calls' = calls + 1
    /\ response' = {}
    /\ rx' = <<>>
    /\ got' = FALSE
    /\ pc' = "setup"
    /\ UNCHANGED <<status, brk, elapsed, rxq, network>>

\* Mutated form: the frames of the last call stay in the callback data.
CallKeepingFrames ==
    /\ pc = "idle"
    /\ calls < MaxCalls
    /\ \E c \in Calls :
           /\ call' = c
           /\ owned' = IF c.sends THEN {"tx_frames"} ELSE {}
    /\ calls' = calls + 1
    /\ response' = {}
    /\ elapsed' = 0
    /\ got' = FALSE
    /\ pc' = "setup"
    /\ UNCHANGED <<status, rx, brk, rxq, network>>

\* The callback data is cleared and the request encoded in one frame.
Call ==
    /\ pc = "idle"
    /\ calls < MaxCalls
    /\ \E c \in Calls :
           /\ call' = c
           /\ owned' = IF c.sends THEN {"tx_frames"} ELSE {}
    /\ calls' = calls + 1
    /\ response' = {}
    /\ rx' = <<>>
    /\ elapsed' = 0
    /\ got' = FALSE
    /\ pc' = "setup"
    /\ UNCHANGED <<status, brk, rxq, network>>

\* What follows the request: the receive loop, unless the timeout is zero.
Receive == IF call.timeout > 0 THEN "dispatch" ELSE "idle"

SetFilter ==
    /\ pc = "setup"
    /\ pc' = IF call.sends THEN "send" ELSE Receive
    /\ status' = HPAV_OK
    /\ UNCHANGED <<call, calls, response, owned, rx, got, brk, elapsed, rxq,
                   network>>

Receivers(sta) == IF sta = Broadcast THEN Sta ELSE {sta} \cap Sta

\* A request of the current call, as station s gets it.
RequestTo(s) ==
    [sta |-> s, host |-> Host, type |-> call.type, call |-> calls]

Send ==
    /\ pc = "send"
    /\ pending' = pending \cup {RequestTo(s) : s \in Receivers(call.sta)}
    /\ owned' = owned \ {"tx_frames"}
    /\ pc' = Receive
    /\ UNCHANGED <<call, calls, status, response, rx, got, brk, elapsed, rxq,
                   answered, net, fmsn>>

\* Mutated form: the frames received are not freed.
FailLeaking ==
    /\ status' = HPAV_ERROR_PCAP_ERROR
    /\ owned' = owned \ {"tx_frames"}
    /\ pc' = "idle"
    /\ UNCHANGED <<call, calls, response, rx, got, brk, elapsed, rxq, network>>

\* A libpcap error ends the call: what it holds is freed.
Fail ==
    /\ status' = HPAV_ERROR_PCAP_ERROR
    /\ owned' = {}
    /\ pc' = "idle"
    /\ UNCHANGED <<call, calls, response, rx, got, brk, elapsed, rxq, network>>

\* pcap_compile or pcap_setfilter, pcap_sendpacket, pcap_dispatch.
PcapError == pc \in {"setup", "send", "dispatch"} /\ Fail

-----------------------------------------------------------------------------
(* The receive loop.                                                       *)

\* The frame is for the host and of the type the call waits for.
Accepts(f) == f.dst = Host /\ f.mmtype = call.type

\* Mutated form: the destination is not looked at.
StopOnBroadcast == call.num # 0 /\ Len(rx) >= call.num

\* Mutated form: one fragment too few is enough.
StopOneEarly == call.sta # Broadcast /\ call.num # 0 /\ Len(rx) + 1 >= call.num

\* cb_data.stop: never set by the answers to a broadcast.
Stop == /\ call.sta # Broadcast
        /\ call.num # 0
        /\ Len(rx) >= call.num

\* cb_data.fn: the callback takes the low nibble, which is nf.
Fn == rx[Len(rx)].nf

\* One frame of a dispatch.
RxCallback ==
    /\ pc = "dispatch"
    /\ ~brk
    /\ rxq # <<>>
    /\ rxq' = Tail(rxq)
    /\ got' = TRUE
    /\ IF Accepts(Head(rxq))
       THEN rx' = Append(rx, Head(rxq)) /\ owned' = owned \cup {"rx_frames"}
       ELSE rx' = rx /\ owned' = owned
    /\ UNCHANGED <<pc, call, calls, status, response, brk, elapsed, network>>

\* Mutated form: a dispatch that only refused frames ends the call too.
BreaksOnRefused ==
    \/ call.rule = "fragments" /\ rx # <<>> /\ Len(rx) - 1 = Fn
    \/ call.rule = "any"

\* The function leaves the loop after a dispatch that processed frames.
Breaks ==
    \/ call.rule = "fragments" /\ rx # <<>> /\ Len(rx) - 1 = Fn
    \/ call.rule = "any" /\ Len(rx) > 0

\* result > 0; frames may have come too late for this dispatch.
Dispatched ==
    /\ pc = "dispatch"
    /\ got
    /\ pc' = IF Breaks THEN "assemble" ELSE "clock"
    /\ UNCHANGED <<program, rxq, network>>

\* result = 0.
NothingToDispatch ==
    /\ pc = "dispatch"
    /\ ~brk /\ ~got /\ rxq = <<>>
    /\ pc' = "clock"
    /\ UNCHANGED <<program, rxq, network>>

\* result = -2.
LoopBroken ==
    /\ pc = "dispatch"
    /\ brk
    /\ brk' = FALSE
    /\ pc' = "clock"
    /\ UNCHANGED <<call, calls, status, response, owned, rx, got, elapsed, rxq,
                   network>>

\* Mutated form: the time is not looked at.
ExpiredNever == FALSE

\* The time is over.
Expired == elapsed > call.timeout

CheckLoop ==
    /\ pc = "clock"
    /\ pc' = IF Expired \/ Stop THEN "assemble" ELSE "dispatch"
    /\ got' = FALSE
    /\ UNCHANGED <<call, calls, status, response, owned, rx, brk, elapsed, rxq,
                   network>>

-----------------------------------------------------------------------------
(* The end of a call.                                                      *)

Assemble ==
    /\ pc = "assemble"
    /\ ~DereferencesNull(rx)
    /\ response' = Packets(rx)
    /\ owned' = owned \ {"rx_frames"}
    /\ pc' = "idle"
    /\ UNCHANGED <<call, calls, status, rx, got, brk, elapsed, rxq, network>>

\* hpav_defrag_frames follows a NULL pointer.
Crash ==
    /\ pc = "assemble"
    /\ DereferencesNull(rx)
    /\ pc' = "crashed"
    /\ UNCHANGED <<program, rxq, network>>

Close ==
    /\ pc = "idle"
    /\ pc' = "closed"
    /\ rxq' = <<>>
    /\ UNCHANGED <<program, network>>

Stopped == pc \in {"closed", "crashed"} /\ UNCHANGED vars

-----------------------------------------------------------------------------
(* Time, the network and the stations.                                     *)

Tick ==
    /\ pc \in {"dispatch", "clock"}
    /\ elapsed <= call.timeout
    /\ elapsed' = elapsed + 1
    /\ UNCHANGED <<pc, call, calls, status, response, owned, rx, got, brk, rxq,
                   network>>

\* The frames of the answer to r, in nf + 1 fragments.  of tells which answer
\* a frame belongs to; the program does not see it.
AnswerFrames(r, nf) ==
    [n \in 1..(nf + 1) |->
        [dst |-> r.host, src |-> r.sta, mmv |-> 1, mmtype |-> r.type,
         fmsn |-> fmsn[r.sta], nf |-> nf, fn |-> n - 1, of |-> r]]

\* A station answers: at once, late, or never.
Answer ==
    /\ pc \notin {"closed", "crashed"}
    /\ \E r \in pending, nf \in Sizes :
           /\ pending' = pending \ {r}
           /\ answered' = answered \cup {r}
           /\ net' = [net EXCEPT ![r.sta] = @ \o AnswerFrames(r, nf)]
           /\ fmsn' = [fmsn EXCEPT ![r.sta] = (@ + 1) % FmsnMod]
    /\ UNCHANGED <<pc, program, rxq>>

\* The frames of one station arrive in order.
Arrive ==
    /\ pc \notin {"closed", "crashed"}
    /\ \E s \in Sta :
           /\ net[s] # <<>>
           /\ net' = [net EXCEPT ![s] = Tail(@)]
           /\ rxq' = Append(rxq, Head(net[s]))
    /\ UNCHANGED <<pc, program, pending, answered, fmsn>>

\* A frame is lost, on the network or by a capture queue that is full.
Lose ==
    /\ Lossy
    /\ pc \notin {"closed", "crashed"}
    /\ \E s \in Sta :
           /\ net[s] # <<>>
           /\ net' = [net EXCEPT ![s] = Tail(@)]
    /\ UNCHANGED <<pc, program, rxq, pending, answered, fmsn>>

Run == \/ SetFilter \/ Send \/ PcapError
       \/ RxCallback \/ Dispatched \/ NothingToDispatch \/ LoopBroken
       \/ CheckLoop \/ Assemble \/ Crash

Next == \/ Call \/ Run \/ Close \/ Stopped
        \/ Tick \/ Answer \/ Arrive \/ Lose

Spec == Init /\ [][Next]_vars

\* The program runs on and time passes; the stations owe nothing.
FairSpec == Spec /\ WF_vars(Run) /\ WF_vars(Tick)

-----------------------------------------------------------------------------
(* Properties.                                                             *)

Request == [sta : Sta, host : Hosts, type : Types, call : 0..MaxCalls]

Frame == [dst : Hosts, src : Sta, mmv : {1}, mmtype : Types,
          fmsn : 0..(FmsnMod - 1), nf : Sizes, fn : Nat, of : Request]

\* The values the variables of a call, the capture queue and the network can
\* have.
TypeOK ==
    /\ pc \in {"idle", "setup", "send", "dispatch", "clock", "assemble",
               "closed", "crashed"}
    /\ call \in Calls \cup {NoCall}
    /\ calls \in 0..MaxCalls
    /\ status \in {HPAV_OK, HPAV_ERROR_PCAP_ERROR}
    /\ owned \subseteq {"tx_frames", "rx_frames"}
    /\ rx \in Seq(Frame)
    /\ got \in BOOLEAN
    /\ brk \in BOOLEAN
    /\ elapsed \in 0..(call.timeout + 1)
    /\ rxq \in Seq(Frame)
    /\ pending \subseteq Request
    /\ answered \subseteq Request
    /\ net \in [Sta -> Seq(Frame)]
    /\ fmsn \in [Sta -> 0..(FmsnMod - 1)]

\* Every packet of a response is the whole of one answer, to this host and of
\* the type asked for: fragments of two messages, of two stations or of two
\* calls are never put together, whatever is lost, as long as the message
\* numbers of a station do not repeat among the frames of one call.
PacketsAreWhole ==
    \A p \in response : \E f \in {p[j] : j \in DOMAIN p} :
        /\ f.of.host = Host
        /\ f.of.type = call.type
        /\ {<<p[j].of, p[j].fn>> : j \in DOMAIN p} = {f.of} \X (0..f.nf)
        /\ Cardinality(DOMAIN p) = f.nf + 1

Returned == pc = "idle" /\ calls > 0 /\ status = HPAV_OK

\* An answer all of whose frames the call took from the queue is in its
\* response: what was lost of other answers does not cost it.
WholeAnswersAreReturned ==
    (Returned /\ call.timeout > 0) =>
        \A i \in DOMAIN rx :
            LET whole == {j \in DOMAIN rx : rx[j].of = rx[i].of} IN
            Cardinality(whole) = rx[i].nf + 1 =>
                [j \in whole |-> rx[j]] \in response

\* "Return with exit code 3 in case no station responded to the request"
\* (README:32-33), which every handler does when *response is NULL: a call that
\* returns nothing before its time is over has not been answered by a station.
EmptyMeansSilence ==
    (Returned /\ response = {} /\ elapsed <= call.timeout /\ call.timeout > 0) =>
        \A r \in answered : r.call # calls

\* What such an early end is where answers have several fragments: it was no
\* silence, though the handler exits with 3.  Frames ended the call, each of an
\* answer that it cut short or that had lost a fragment; no answer it took whole
\* is passed over, and frames it refuses do not end it.
EarlyEmptyIsCutShort ==
    (Returned /\ response = {} /\ elapsed <= call.timeout /\ call.timeout > 0) =>
        /\ rx # <<>>
        /\ \A i \in DOMAIN rx :
               Cardinality({j \in DOMAIN rx : rx[j].of = rx[i].of}) <= rx[i].nf

\* A broadcast request of a function without a rule of its own gives the
\* stations all the time there is, whatever has come in before.
BroadcastWaits ==
    (Returned /\ call.sta = Broadcast /\ call.rule = "none"
        /\ call.timeout > 0)
    => elapsed > call.timeout

\* A call leaves no frame allocated, on any of its paths.
NothingLeaks == pc \in {"idle", "closed"} => owned = {}

\* Every call returns (or the process is gone), whatever the network does.
CallsReturn == (pc = "setup") ~> (pc \in {"idle", "crashed", "closed"})
=============================================================================
