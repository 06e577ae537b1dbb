--------------------------- MODULE Command_proofs ----------------------------
(***************************************************************************)
(* Proofs about a run of the program, for every set of devices, every set  *)
(* of command lines and any number of changes of the devices.              *)
(*                                                                         *)
(* The inductive invariant is built in three parts, each with its theorems *)
(* behind it: where the program is and what its log says (FlowInvs), what  *)
(* is open (OpenInv), and the list of interfaces with what depends on it   *)
(* (ListInv, UnsetInv, UndefinedExactly, LoopInv, LeftInv).                *)
(***************************************************************************)
EXTENDS Command, Positions_proofs, SequenceTheorems

-----------------------------------------------------------------------------
(* Facts about the handlers.                                               *)

\* The handlers of the table that are not special.
PlainHandlers ==
    {cm_set_key_req, mtk_vs_get_version_req, mtk_vs_reset_req, mtk_vs_get_eth_phy_req,
     mtk_vs_eth_stats_req, mtk_vs_get_status_req, mtk_vs_get_tonemap_req,
     mtk_vs_get_snr_req, mtk_vs_get_link_stats_req, mtk_vs_get_nw_info_req,
     mtk_vs_set_capture_state_req, mtk_vs_set_nvram_req, mtk_vs_get_nvram_req,
     mtk_vs_get_pwm_stats_req, mtk_vs_get_pwm_conf_req, mtk_vs_set_pwm_conf_req,
     mtk_vs_pwm_generation_req, mtk_vs_spi_stats_req, mtk_vs_set_tx_cali_req,
     vc_vs_set_sniffer_conf_req, vc_vs_set_remote_access_req, vc_vs_get_remote_access_req}

LEMMA TableEntries ==
    ASSUME NEW name \in DOMAIN test_mme_fct_name_table
    PROVE  LET h == test_mme_fct_name_table[name] IN
           \/ h \in PlainHandlers
           \/ name = "cm_amp_map_req" /\ h = cm_amp_map_req
           \/ name = "mtk_vs_get_tonemask_req" /\ h = mtk_vs_get_tonemask_req
           \/ name = "mtk_vs_file_access_req" /\ h = mtk_vs_file_access_req
  BY DEF test_mme_fct_name_table, PlainHandlers

\* A handler that sends one call, and returns EXIT_NO_RESPONSE if nobody
\* answers.
Calls(h) == h.makes = "call" /\ h.silence = EXIT_NO_RESPONSE

\* The arguments a handler reads are numbers, and no more than twelve.
ReadsSome(h) == h.reads \in Seq(Nat) /\ Len(h.reads) <= 12

\* It reads no argument that it has not counted.
ReadsItsArguments(h) ==
    /\ ReadsSome(h)
    /\ \A i \in 1..Len(h.reads), n \in h.counts :
           h.reads[i] \in h.optional \/ h.reads[i] < n

LEMMA PlainHandlersCall ==
    ASSUME NEW h \in PlainHandlers
    PROVE  Calls(h)
  BY DEF PlainHandlers, Calls, Handler, MacOnly, EXIT_NO_RESPONSE, cm_set_key_req,
         mtk_vs_get_version_req, mtk_vs_reset_req, mtk_vs_set_nvram_req, mtk_vs_get_nvram_req,
         mtk_vs_get_eth_phy_req, mtk_vs_eth_stats_req, mtk_vs_get_status_req,
         mtk_vs_get_tonemap_req, mtk_vs_set_capture_state_req, mtk_vs_get_snr_req,
         mtk_vs_get_link_stats_req, mtk_vs_get_nw_info_req, mtk_vs_get_pwm_stats_req,
         mtk_vs_get_pwm_conf_req, mtk_vs_set_pwm_conf_req, mtk_vs_set_tx_cali_req,
         mtk_vs_spi_stats_req, vc_vs_set_sniffer_conf_req, vc_vs_get_remote_access_req,
         vc_vs_set_remote_access_req, mtk_vs_pwm_generation_req

LEMMA UpToFacts ==
    ASSUME NEW k \in Nat
    PROVE  /\ UpTo(k) \in Seq(Nat)
           /\ Len(UpTo(k)) = k + 1
           /\ \A i \in 1..(k + 1) : UpTo(k)[i] = i - 1
  BY DEF UpTo

LEMMA AtLeastFacts ==
    ASSUME NEW k \in Nat, NEW n \in AtLeast(k)
    PROVE  n \in Int /\ n >= k
  BY HandlersAssumption DEF AtLeast

LEMMA OneIsRead ==
    \A h : h.reads = <<0>> /\ h.optional = {0} => ReadsItsArguments(h)
  BY DEF ReadsItsArguments, ReadsSome

LEMMA UpToIsRead ==
    ASSUME NEW k \in 0..11, NEW m \in Nat, NEW h, h.reads = UpTo(k), h.counts = AtLeast(m),
           \A j \in 0..k : j \in h.optional \/ j < m
    PROVE  ReadsItsArguments(h)
  <1>0. /\ k \in Nat /\ k + 1 <= 12
        /\ h.reads \in Seq(Nat) /\ Len(h.reads) = k + 1
        /\ \A i \in 1..(k + 1) : h.reads[i] = i - 1
    <2>1. k \in Nat /\ k + 1 <= 12
      OBVIOUS
    <2> QED BY <2>1, UpToFacts
  <1>1. ReadsSome(h)
    BY <1>0 DEF ReadsSome
  <1>2. ASSUME NEW i \in 1..Len(h.reads), NEW n \in h.counts
        PROVE  h.reads[i] \in h.optional \/ h.reads[i] < n
    <2>1. h.reads[i] = i - 1 /\ i - 1 \in 0..k
      BY <1>0, <1>2
    <2>2. n \in Int /\ n >= m
      BY <1>2, AtLeastFacts
    <2>3. i - 1 \in h.optional \/ i - 1 < m
      BY <2>1
    <2> QED BY <2>1, <2>2, <2>3
  <1> QED BY <1>1, <1>2 DEF ReadsItsArguments

LEMMA PlainHandlersRead ==
    ASSUME NEW h \in PlainHandlers
    PROVE  ReadsItsArguments(h)
  <1>1. \/ h.reads = <<0>> /\ h.optional = {0}
        \/ h.reads = UpTo(1) /\ h.counts = AtLeast(2)
        \/ h.reads = UpTo(3) /\ h.counts = AtLeast(4)
        \/ h.reads = UpTo(4) /\ h.counts = AtLeast(5)
        \/ h.reads = UpTo(6) /\ h.counts = AtLeast(7)
        \/ h.reads = UpTo(11) /\ h.counts = AtLeast(11) /\ h.optional = {0, 11}
        \/ h.reads = <<1, 2, 0>> /\ h.counts = AtLeast(3)
        \/ h.reads = <<1, 0, 2, 3, 4, 5>> /\ h.counts = AtLeast(6)
        \/ h.reads = <<1, 2, 3, 4, 5, 6, 7, 8, 9, 0>> /\ h.counts = {10}
    BY DEF PlainHandlers, Handler, MacOnly, cm_set_key_req,
           mtk_vs_get_version_req, mtk_vs_reset_req, mtk_vs_set_nvram_req, mtk_vs_get_nvram_req,
           mtk_vs_get_eth_phy_req, mtk_vs_eth_stats_req, mtk_vs_get_status_req,
           mtk_vs_get_tonemap_req, mtk_vs_set_capture_state_req, mtk_vs_get_snr_req,
           mtk_vs_get_link_stats_req, mtk_vs_get_nw_info_req, mtk_vs_get_pwm_stats_req,
           mtk_vs_get_pwm_conf_req, mtk_vs_set_pwm_conf_req, mtk_vs_set_tx_cali_req,
           mtk_vs_spi_stats_req, vc_vs_set_sniffer_conf_req, vc_vs_get_remote_access_req,
           vc_vs_set_remote_access_req, mtk_vs_pwm_generation_req
  <1>2. CASE h.reads = <<0>> /\ h.optional = {0}
    BY <1>2, OneIsRead
  <1>3. CASE h.reads = UpTo(1) /\ h.counts = AtLeast(2)
    BY <1>3, UpToIsRead
  <1>4. CASE h.reads = UpTo(3) /\ h.counts = AtLeast(4)
    BY <1>4, UpToIsRead
  <1>5. CASE h.reads = UpTo(4) /\ h.counts = AtLeast(5)
    BY <1>5, UpToIsRead
  <1>6. CASE h.reads = UpTo(6) /\ h.counts = AtLeast(7)
    BY <1>6, UpToIsRead
  <1>7. CASE h.reads = UpTo(11) /\ h.counts = AtLeast(11) /\ h.optional = {0, 11}
    <2>1. \A j \in 0..11 : j \in h.optional \/ j < 11
      BY <1>7
    <2> QED BY <1>7, <2>1, UpToIsRead
  <1>8. CASE h.reads = <<1, 2, 0>> /\ h.counts = AtLeast(3)
    <2>1. \A i \in 1..3 : h.reads[i] < 3
      BY <1>8
    <2> QED BY <1>8, <2>1, AtLeastFacts DEF ReadsItsArguments, ReadsSome
  <1>9. CASE h.reads = <<1, 0, 2, 3, 4, 5>> /\ h.counts = AtLeast(6)
    <2>1. \A i \in 1..6 : h.reads[i] \in Nat /\ h.reads[i] < 6
      BY <1>9
    <2>2. ReadsSome(h) /\ Len(h.reads) = 6
      BY <1>9 DEF ReadsSome
    <2>3. \A n \in h.counts : n \in Int /\ n >= 6
      BY <1>9, AtLeastFacts
    <2> QED BY <2>1, <2>2, <2>3 DEF ReadsItsArguments
  <1>10. CASE h.reads = <<1, 2, 3, 4, 5, 6, 7, 8, 9, 0>> /\ h.counts = {10}
    <2>1. \A i \in 1..10 : h.reads[i] < 10
      BY <1>10
    <2>2. ReadsSome(h) /\ Len(h.reads) = 10
      BY <1>10 DEF ReadsSome
    <2> QED BY <1>10, <2>1, <2>2 DEF ReadsItsArguments
  <1> QED BY <1>1, <1>2, <1>3, <1>4, <1>5, <1>6, <1>7, <1>8, <1>9, <1>10

\* The commands that have a handler.
HasHandler ==
    Accepted(cmd) /\ cmd.fct \notin Offline \cup {"list_if", "open_if"}

\* What the actions need to know of a handler: two of them read an argument
\* that may not be there, and only two kinds of command exit otherwise than
\* with EXIT_NO_RESPONSE when nobody answers.
FactsOf(h) ==
    /\ h.silence \in {-2, -1, EXIT_FAILURE, EXIT_NO_RESPONSE}
    /\ h.silence = EXIT_NO_RESPONSE <=>
           h.makes \in {"call", "save"} /\ cmd.fct # "nvram write"
    /\ h.makes = "save" => cmd.fct = "nvram read"
    /\ h.makes = "transfer" =>
           \/ cmd.fct = "fw_upgrade"
           \/ cmd.fct = "test_mme" /\ cmd.handler = "mtk_vs_file_access_req"
    /\ ReadsSome(h)
    /\ \/ ReadsItsArguments(h)
       \/ /\ cmd.fct = "test_mme" /\ cmd.handler = "mtk_vs_get_tonemask_req"
          /\ h = mtk_vs_get_tonemask_req
       \/ /\ cmd.fct = "test_mme" /\ cmd.handler = "cm_amp_map_req"
          /\ h = cm_amp_map_req

LEMMA HandlerFacts ==
    ASSUME HasHandler
    PROVE  FactsOf(HandlerOf)
  <1>1. cmd.fct \in {"test_mme", "reboot", "find_local_sta", "fw_upgrade", "nvram read",
                     "nvram write", "conf_file read", "conf_file write"}
    BY DEF HasHandler, Accepted, Offline
  <1>2. CASE cmd.fct = "test_mme"
    <2>1. cmd.handler \in DOMAIN test_mme_fct_name_table
      BY <1>2 DEF HasHandler, Accepted
    <2>2. HandlerOf = test_mme_fct_name_table[cmd.handler]
      BY <1>2 DEF HandlerOf
    <2>3. CASE HandlerOf \in PlainHandlers
      <3>1. Calls(HandlerOf) /\ ReadsItsArguments(HandlerOf)
        BY <2>3, PlainHandlersCall, PlainHandlersRead
      <3> QED BY <1>2, <3>1 DEF FactsOf, Calls, ReadsItsArguments, EXIT_NO_RESPONSE
    <2>4. CASE cmd.handler = "cm_amp_map_req" /\ HandlerOf = cm_amp_map_req
      <3>1. Calls(HandlerOf) /\ HandlerOf.reads = UpTo(2)
        BY <2>4 DEF Calls, cm_amp_map_req, Handler, EXIT_NO_RESPONSE
      <3>2. ReadsSome(HandlerOf)
        BY <3>1, UpToFacts DEF ReadsSome
      <3> QED BY <1>2, <2>4, <3>1, <3>2 DEF FactsOf, Calls, EXIT_NO_RESPONSE
    <2>5. CASE /\ cmd.handler = "mtk_vs_get_tonemask_req"
               /\ HandlerOf = mtk_vs_get_tonemask_req
      <3>1. Calls(HandlerOf) /\ HandlerOf.reads = <<0, 1>>
        BY <2>5 DEF Calls, mtk_vs_get_tonemask_req, Handler, EXIT_NO_RESPONSE
      <3>2. ReadsSome(HandlerOf)
        BY <3>1 DEF ReadsSome
      <3> QED BY <1>2, <2>5, <3>1, <3>2 DEF FactsOf, Calls, EXIT_NO_RESPONSE
    <2>6. CASE /\ cmd.handler = "mtk_vs_file_access_req"
               /\ HandlerOf = mtk_vs_file_access_req
      <3>1. /\ HandlerOf.makes = "transfer" /\ HandlerOf.silence = -2
            /\ HandlerOf.reads = <<0>> /\ HandlerOf.optional = {0}
        BY <2>6 DEF mtk_vs_file_access_req, Handler
      <3>2. ReadsItsArguments(HandlerOf)
        BY <3>1, OneIsRead
      <3> QED BY <1>2, <2>6, <3>1, <3>2 DEF FactsOf, ReadsItsArguments, EXIT_NO_RESPONSE
    <2> QED BY <2>1, <2>2, <2>3, <2>4, <2>5, <2>6, TableEntries
  <1>3. CASE cmd.fct \in {"reboot", "find_local_sta"}
    <2>1. HandlerOf = mtk_vs_reset_req \/ HandlerOf = mtk_vs_get_nw_info_req
      BY <1>3 DEF HandlerOf
    <2>2. HandlerOf \in PlainHandlers
      BY <2>1 DEF PlainHandlers
    <2>3. Calls(HandlerOf) /\ ReadsItsArguments(HandlerOf)
      BY <2>2, PlainHandlersCall, PlainHandlersRead
    <2> QED BY <1>3, <2>3 DEF FactsOf, Calls, ReadsItsArguments, EXIT_NO_RESPONSE
  <1>4. CASE cmd.fct = "fw_upgrade"
    <2>1. /\ HandlerOf.makes = "transfer" /\ HandlerOf.silence = -2
          /\ HandlerOf.reads = <<0>> /\ HandlerOf.optional = {0}
      BY <1>4 DEF HandlerOf, mtk_vs_file_access_req, Handler
    <2>2. ReadsItsArguments(HandlerOf)
      BY <2>1, OneIsRead
    <2> QED BY <1>4, <2>1, <2>2 DEF FactsOf, ReadsItsArguments, EXIT_NO_RESPONSE
  <1>5. CASE cmd.fct = "nvram read"
    <2>1. /\ HandlerOf.makes = "save" /\ HandlerOf.silence = EXIT_NO_RESPONSE
          /\ HandlerOf.reads = UpTo(1) /\ HandlerOf.counts = AtLeast(2)
      BY <1>5 DEF HandlerOf, nvram_read, Handler
    <2>2. ReadsItsArguments(HandlerOf)
      BY <2>1, UpToIsRead
    <2> QED BY <1>5, <2>1, <2>2 DEF FactsOf, ReadsItsArguments, EXIT_NO_RESPONSE
  <1>6. CASE cmd.fct = "nvram write"
    <2>1. /\ HandlerOf.makes = "call" /\ HandlerOf.silence = EXIT_FAILURE
          /\ HandlerOf.reads = UpTo(1) /\ HandlerOf.counts = AtLeast(2)
      BY <1>6 DEF HandlerOf, nvram_write, Handler
    <2>2. ReadsItsArguments(HandlerOf)
      BY <2>1, UpToIsRead
    <2>3. HandlerOf.silence # EXIT_NO_RESPONSE
      BY <2>1 DEF EXIT_NO_RESPONSE, EXIT_FAILURE
    <2>4. ReadsSome(HandlerOf)
      BY <2>2 DEF ReadsItsArguments
    <2> QED BY <1>6, <2>1, <2>2, <2>3, <2>4 DEF FactsOf
  <1>7. CASE cmd.fct \in {"conf_file read", "conf_file write"}
    <2>1. /\ HandlerOf.makes = "transfers" /\ HandlerOf.silence = -1
          /\ HandlerOf.reads = <<1, 0>> /\ HandlerOf.optional = {1}
          /\ HandlerOf.counts = AtLeast(1)
      BY <1>7 DEF HandlerOf, conf_file_read, conf_file_write, Transfers, Handler
    <2>2. \A n \in HandlerOf.counts : n \in Int /\ n >= 1
      BY <2>1, AtLeastFacts
    <2>3. ReadsItsArguments(HandlerOf)
      BY <2>1, <2>2 DEF ReadsItsArguments, ReadsSome
    <2>4. HandlerOf.silence # EXIT_NO_RESPONSE
      BY <2>1 DEF EXIT_NO_RESPONSE
    <2>5. ReadsSome(HandlerOf)
      BY <2>3 DEF ReadsItsArguments
    <2> QED BY <1>7, <2>1, <2>3, <2>4, <2>5 DEF FactsOf
  <1> QED BY <1>1, <1>2, <1>3, <1>4, <1>5, <1>6, <1>7

LEMMA ArgumentsFit ==
    ASSUME HasHandler
    PROVE  Len(HandlerOf.reads) \in 0..12
  <1>1. HandlerOf.reads \in Seq(Nat) /\ Len(HandlerOf.reads) <= 12
    BY HandlerFacts DEF FactsOf, ReadsSome
  <1>2. Len(HandlerOf.reads) \in Nat
    BY <1>1, LenProperties
  <1> DEFINE n == Len(HandlerOf.reads)
  <1>3. n \in Nat /\ n <= 12
    BY <1>1, <1>2
  <1> HIDE DEF n
  <1>4. n \in 0..12
    BY <1>3
  <1> QED BY <1>4 DEF n

-----------------------------------------------------------------------------
(* The inductive invariant, first part: where the program is.              *)

Pcs == {"main", "list", "macs", "handler", "args", "words", "call",
        "close", "next", "exit", "undefined"}

InHandler == pc \in {"handler", "args", "words", "call"}

\* A call of execute_on_channel is on and has not been logged.
Running == run > 0 /\ (pc \in {"list", "macs"} \/ InHandler)

LogType == Seq([device : Devices \cup {NoDevice}, outcome : Outcomes])

TypeInv ==
    /\ cmd \in CommandLines
    /\ pc \in Pcs
    /\ devs \in SUBSET Devices
    /\ moves \in 0..MaxMoves
    /\ run \in Nat
    /\ read \in Nat
    /\ chan \in Devices \cup {NoDevice}
    /\ handles \in Int
    /\ responses \in Nat
    /\ rv \in {-2, -1, EXIT_SUCCESS, EXIT_FAILURE, EXIT_USAGE, EXIT_NO_RESPONSE}
    /\ result \in {EXIT_SUCCESS, EXIT_FAILURE}
    /\ log \in LogType

\* A call is logged when its handler is over, with the commands that make one
\* call, or two, or one for each interface.
FlowInv ==
    /\ Len(log) = IF Running THEN run - 1 ELSE run
    /\ pc = "main" => run = 0
    /\ InHandler \/ pc \in {"close", "next", "undefined"} => run > 0
    /\ run > 0 \/ pc \in {"list", "macs"} => Accepted(cmd) /\ cmd.fct \notin Offline
    /\ run > 0 => cmd.fct # "list_if"
    /\ run = 0 /\ pc \in {"list", "macs"} => cmd.fct = "list_if" \/ Loops
    /\ ~Loops => run <= IF cmd.fct = "fw_upgrade" THEN 2 ELSE 1
    /\ InHandler /\ pc # "handler" =>
           /\ cmd.fct # "open_if" /\ argc \in HandlerOf.counts
           /\ read <= Len(HandlerOf.reads)
    /\ pc \in {"list", "macs"} /\ run > 0 => chan = NoDevice
    /\ read <= 12
    /\ pc = "words" => HandlerOf.makes = "transfer"

\* What the value of execute_on_channel says of how it went.
ReturnInv ==
    pc \in {"close", "next"} =>
        /\ rv = EXIT_USAGE <=> Last(log).outcome = "usage"
        /\ rv = EXIT_SUCCESS <=> Last(log).outcome \in {"open", "answered", "nobody"}
        /\ rv = EXIT_NO_RESPONSE <=>
               /\ Last(log).outcome = "silent"
               /\ HandlerOf.makes \in {"call", "save"}
               /\ cmd.fct # "nvram write"
        /\ Last(log).outcome = "open" => cmd.fct = "open_if"
        /\ Last(log).outcome = "silent" => cmd.fct # "open_if"
        /\ Last(log).outcome = "nobody" => cmd.fct = "test_mme" /\ Words = "all"

\* And what the exit code says of the last call.
ExitInv ==
    pc = "exit" =>
        /\ rv >= 0
        /\ Loops /\ log # <<>> => rv \in {EXIT_SUCCESS, EXIT_FAILURE}
        /\ ~Loops /\ log # <<>> =>
            /\ rv = EXIT_USAGE => Last(log).outcome = "usage"
            /\ rv = EXIT_SUCCESS => Last(log).outcome \in {"open", "answered", "nobody"}
            /\ Last(log).outcome = "nobody" => cmd.fct = "test_mme" /\ Words = "all"
            /\ rv = EXIT_NO_RESPONSE <=>
                   /\ Last(log).outcome = "silent"
                   /\ HandlerOf.makes \in {"call", "save"}
                   /\ cmd.fct # "nvram write"
        /\ cmd.fct = "fw_upgrade" /\ rv = EXIT_SUCCESS =>
               run = 2 /\ Last(log).outcome = "answered"

UpgradeInv ==
    cmd.fct = "fw_upgrade" /\ run = 2 => log[1].outcome = "answered"

FlowInvs == TypeInv /\ FlowInv /\ ReturnInv /\ ExitInv /\ UpgradeInv

-----------------------------------------------------------------------------
(* What a step may be, as far as the first part is concerned.              *)

\* The command line stays, and with it the handler and its arguments.
LEMMA SameCommand ==
    ASSUME cmd' = cmd
    PROVE  /\ Loops' = Loops
           /\ HandlerOf' = HandlerOf
           /\ Words' = Words
           /\ Accepted(cmd)' = Accepted(cmd)
           /\ run' = run => argc' = argc
  BY DEF Loops, HandlerOf, Words, argc

LEMMA LogAppended ==
    ASSUME TypeInv, NEW outcome \in Outcomes, Logged(outcome)
    PROVE  /\ log' \in LogType
           /\ log' # <<>>
           /\ Len(log') = Len(log) + 1 /\ Len(log) \in Nat
           /\ Last(log') = [device |-> chan, outcome |-> outcome]
           /\ log'[Len(log) + 1] = [device |-> chan, outcome |-> outcome]
           /\ \A i \in 1..Len(log) : log'[i] = log[i]
  <1> DEFINE entry == [device |-> chan, outcome |-> outcome]
  <1>1. log \in Seq([device : Devices \cup {NoDevice}, outcome : Outcomes])
    BY DEF TypeInv, LogType
  <1>2. entry \in [device : Devices \cup {NoDevice}, outcome : Outcomes]
    BY DEF TypeInv
  <1>3. log' = Append(log, entry)
    BY DEF Logged
  <1> HIDE DEF entry
  <1>4. /\ log' \in LogType
        /\ Len(log') = Len(log) + 1 /\ Len(log) \in Nat
        /\ log'[Len(log) + 1] = entry
        /\ \A i \in 1..Len(log) : log'[i] = log[i]
    BY <1>1, <1>2, <1>3 DEF LogType
  <1>5. log' # <<>>
    BY <1>4
  <1> QED BY <1>4, <1>5 DEF Last, entry

\* The values a call may return when it went like that.
Fits(value, outcome) ==
    /\ value \in {-2, -1, EXIT_SUCCESS, EXIT_FAILURE, EXIT_USAGE, EXIT_NO_RESPONSE}
    /\ value = EXIT_USAGE <=> outcome = "usage"
    /\ value = EXIT_SUCCESS <=> outcome \in {"open", "answered", "nobody"}
    /\ value = EXIT_NO_RESPONSE <=>
           /\ outcome = "silent"
           /\ HandlerOf.makes \in {"call", "save"}
           /\ cmd.fct # "nvram write"
    /\ outcome = "open" => cmd.fct = "open_if"
    /\ outcome = "silent" => cmd.fct # "open_if"
    /\ outcome = "nobody" => cmd.fct = "test_mme" /\ Words = "all"

\* What no step of a call of execute_on_channel changes.
Settled == <<cmd, devs, moves, loop, run, chan, result>>

\* A step on the way to the end of the handler.
LEMMA HandlerMoves ==
    ASSUME FlowInvs, InHandler, InHandler', UNCHANGED <<Settled, handles, responses, rv, log>>,
           cmd.fct # "open_if", argc \in HandlerOf.counts,
           pc' # "handler", read' \in 0..12, read' <= Len(HandlerOf.reads),
           pc' = "words" => HandlerOf.makes = "transfer"
    PROVE  FlowInvs'
  <1> USE SameCommand DEF FlowInvs, Settled
  <1>1. TypeInv'
    BY DEF TypeInv, InHandler, Pcs
  <1>2. FlowInv'
    BY DEF FlowInv, InHandler, Running
  <1>3. ReturnInv' /\ ExitInv' /\ UpgradeInv'
    BY DEF ReturnInv, ExitInv, UpgradeInv, InHandler
  <1> QED BY <1>1, <1>2, <1>3

\* The call is over and its channel is still to be closed, or there was none.
LEMMA CallEnds ==
    ASSUME FlowInvs, Running, pc' \in {"close", "next"},
           UNCHANGED <<Settled, read>>, handles' \in Int, responses' \in Nat,
           NEW outcome \in Outcomes, Logged(outcome), Fits(rv', outcome)
    PROVE  FlowInvs'
  <1> USE SameCommand DEF FlowInvs, Settled
  <1>1. /\ log' \in LogType
        /\ Len(log') = Len(log) + 1 /\ Len(log) \in Nat
        /\ Last(log') = [device |-> chan, outcome |-> outcome]
        /\ \A i \in 1..Len(log) : log'[i] = log[i]
    BY LogAppended
  <1>2. TypeInv'
    BY <1>1 DEF TypeInv, Pcs, Fits
  <1>3. FlowInv'
    BY <1>1 DEF FlowInv, InHandler, Running, TypeInv
  <1>4. ReturnInv'
    <2>1. /\ Last(log').outcome = outcome /\ cmd' = cmd
          /\ HandlerOf' = HandlerOf /\ Words' = Words
      BY <1>1
    <2>2. Fits(rv', outcome)
      OBVIOUS
    <2> HIDE DEF FlowInvs, Settled
    <2> QED BY <2>1, <2>2 DEF ReturnInv, Fits
  <1>5. ExitInv'
    BY DEF ExitInv
  <1>6. UpgradeInv'
    BY <1>1 DEF UpgradeInv, FlowInv, TypeInv
  <1> QED BY <1>2, <1>3, <1>4, <1>5, <1>6

\* The program is lost in the middle of a call.
LEMMA CallIsLost ==
    ASSUME FlowInvs, Running, pc' = "undefined",
           UNCHANGED <<Settled, read, rv>>, handles' \in Int, responses' \in Nat,
           NEW outcome \in Outcomes, Logged(outcome)
    PROVE  FlowInvs'
  <1> USE SameCommand DEF FlowInvs, Settled
  <1>1. /\ log' \in LogType
        /\ Len(log') = Len(log) + 1 /\ Len(log) \in Nat
        /\ \A i \in 1..Len(log) : log'[i] = log[i]
    BY LogAppended
  <1>2. TypeInv'
    BY <1>1 DEF TypeInv, Pcs
  <1>3. FlowInv'
    BY <1>1 DEF FlowInv, InHandler, Running, TypeInv
  <1>4. ReturnInv' /\ ExitInv'
    BY DEF ReturnInv, ExitInv
  <1>5. UpgradeInv'
    BY <1>1 DEF UpgradeInv, FlowInv, TypeInv
  <1> QED BY <1>2, <1>3, <1>4, <1>5

\* The channel is there, or not, and the handler begins.
LEMMA HandlerBegins ==
    ASSUME FlowInvs, run > 0, pc = "macs", pc' = "handler",
           UNCHANGED <<cmd, devs, moves, run, result, read, responses, log>>,
           chan' \in Devices \cup {NoDevice}, handles' \in Int,
           rv' \in {rv, EXIT_SUCCESS}
    PROVE  FlowInvs'
  <1> USE SameCommand DEF FlowInvs
  <1>1. TypeInv'
    BY DEF TypeInv, Pcs
  <1>2. FlowInv'
    BY DEF FlowInv, InHandler, Running
  <1>3. ReturnInv' /\ ExitInv' /\ UpgradeInv'
    BY DEF ReturnInv, ExitInv, UpgradeInv
  <1> QED BY <1>1, <1>2, <1>3

\* The list of interfaces is made.
LEMMA ListMoves ==
    ASSUME FlowInvs, pc \in {"list", "macs"}, pc' \in {"list", "macs"},
           UNCHANGED <<cmd, run, chan, result, read, handles, responses, rv, log>>,
           devs' \in SUBSET Devices, moves' \in 0..MaxMoves
    PROVE  FlowInvs'
  <1> USE SameCommand DEF FlowInvs
  <1>1. TypeInv'
    BY DEF TypeInv, Pcs
  <1>2. FlowInv'
    BY DEF FlowInv, InHandler, Running
  <1>3. ReturnInv' /\ ExitInv' /\ UpgradeInv'
    BY DEF ReturnInv, ExitInv, UpgradeInv
  <1> QED BY <1>1, <1>2, <1>3

\* The program ends without having called execute_on_channel.
LEMMA EndsUncalled ==
    ASSUME FlowInvs, run = 0, pc \in {"main", "list", "macs"}, pc' = "exit",
           UNCHANGED <<Settled, read, handles, responses, log>>,
           rv' \in {EXIT_SUCCESS, EXIT_FAILURE, EXIT_USAGE},
           rv' = EXIT_SUCCESS => cmd.fct # "fw_upgrade"
    PROVE  FlowInvs'
  <1> USE SameCommand DEF FlowInvs, Settled
  <1>1. log' = <<>>
    BY EmptySeq DEF FlowInv, TypeInv, LogType, Running, InHandler
  <1>2. TypeInv'
    BY DEF TypeInv, Pcs
  <1>3. FlowInv'
    BY DEF FlowInv, InHandler, Running
  <1>4. ReturnInv' /\ UpgradeInv'
    BY DEF ReturnInv, UpgradeInv
  <1>5. ExitInv'
    BY <1>1 DEF ExitInv, EXIT_SUCCESS, EXIT_FAILURE, EXIT_USAGE
  <1> QED BY <1>2, <1>3, <1>4, <1>5

\* execute_on_channel is called: by main, by find_local_sta for each of its
\* interfaces, or by fw_upgrade for the second image.
LEMMA CallBegins ==
    ASSUME FlowInvs, Execute, Accepted(cmd), cmd.fct \notin Offline \cup {"list_if"},
           \/ run = 0
           \/ pc = "next" /\ (Loops \/ GoesOn),
           UNCHANGED <<cmd, devs, moves, read, handles, responses, rv, log>>,
           result' \in {EXIT_SUCCESS, EXIT_FAILURE}
    PROVE  FlowInvs'
  <1> USE SameCommand DEF FlowInvs
  <1>1. pc' = "list" /\ chan' = NoDevice /\ run' = run + 1
    BY DEF Execute, Go
  <1>2. TypeInv'
    BY <1>1 DEF TypeInv, Pcs
  <1>3. Len(log') = run' - 1
    BY <1>1 DEF FlowInv, Running, InHandler, TypeInv
  <1>4. FlowInv'
    BY <1>1, <1>3 DEF FlowInv, InHandler, Running, GoesOn, TypeInv
  <1>5. ReturnInv' /\ ExitInv'
    BY <1>1 DEF ReturnInv, ExitInv
  <1>6. UpgradeInv'
    <2> SUFFICES ASSUME cmd.fct = "fw_upgrade", run = 1
                 PROVE  log[1].outcome = "answered"
      BY <1>1 DEF UpgradeInv, TypeInv
    <2>1. pc = "next" /\ rv = EXIT_SUCCESS
      BY DEF Loops, GoesOn
    <2>2. Last(log) = log[1]
      BY <2>1 DEF FlowInv, Running, InHandler, Last
    <2> QED BY <2>1, <2>2 DEF ReturnInv
  <1> QED BY <1>2, <1>4, <1>5, <1>6

\* The last call is over, and the program ends with what it returned.
LEMMA FinishEnds ==
    ASSUME FlowInvs, Finish
    PROVE  FlowInvs'
  <1> USE SameCommand DEF FlowInvs
  <1>1. /\ pc = "next" /\ pc' = "exit" /\ ~Loops /\ ~GoesOn
        /\ rv' = IF rv < 0 THEN EXIT_FAILURE ELSE rv
        /\ UNCHANGED <<cmd, devs, moves, run, read, chan, handles, responses, result, log>>
    BY DEF Finish, Exit, Go, system, resources
  <1>2. TypeInv'
    BY <1>1 DEF TypeInv, Pcs, EXIT_FAILURE
  <1>3. FlowInv'
    BY <1>1 DEF FlowInv, InHandler, Running
  <1>4. ReturnInv' /\ UpgradeInv'
    BY <1>1 DEF ReturnInv, UpgradeInv
  <1>5. ExitInv'
    <2>1. rv' >= 0
      BY <1>1 DEF TypeInv, EXIT_SUCCESS, EXIT_FAILURE, EXIT_USAGE, EXIT_NO_RESPONSE
    <2>2. ASSUME NEW v \in {EXIT_SUCCESS, EXIT_USAGE, EXIT_NO_RESPONSE}
          PROVE  rv' = v <=> rv = v
      BY <1>1 DEF TypeInv, EXIT_SUCCESS, EXIT_FAILURE, EXIT_USAGE, EXIT_NO_RESPONSE
    <2>3. /\ rv' = EXIT_USAGE => Last(log).outcome = "usage"
          /\ rv' = EXIT_SUCCESS => Last(log).outcome \in {"open", "answered", "nobody"}
          /\ Last(log).outcome = "nobody" => cmd.fct = "test_mme" /\ Words = "all"
          /\ rv' = EXIT_NO_RESPONSE <=>
                   /\ Last(log).outcome = "silent"
                   /\ HandlerOf.makes \in {"call", "save"}
                   /\ cmd.fct # "nvram write"
      BY <1>1, <2>2 DEF ReturnInv
    <2>4. ASSUME cmd.fct = "fw_upgrade", rv' = EXIT_SUCCESS
          PROVE  run = 2 /\ Last(log).outcome = "answered"
      <3>1. rv = EXIT_SUCCESS
        BY <2>2, <2>4
      <3>2. run = 2
        BY <1>1, <2>4, <3>1 DEF FlowInv, GoesOn, TypeInv, Loops
      <3> QED BY <1>1, <2>4, <3>1, <3>2 DEF ReturnInv
    <2>5. /\ Loops' = Loops /\ HandlerOf' = HandlerOf /\ Words' = Words
      BY <1>1
    <2> QED BY <1>1, <2>1, <2>3, <2>4, <2>5 DEF ExitInv
  <1> QED BY <1>2, <1>3, <1>4, <1>5

\* find_local_sta goes on to the next interface or ends with what it remembers.
LEMMA NextInterfaceFlow ==
    ASSUME FlowInvs, NextInterface
    PROVE  FlowInvs'
  <1> USE SameCommand DEF FlowInvs
  <1>1. /\ pc = "next" /\ Loops
        /\ result' = IF rv # EXIT_SUCCESS THEN EXIT_FAILURE ELSE result
        /\ UNCHANGED <<cmd, devs, moves, read, handles, responses, log>>
    BY DEF NextInterface, system, resources
  <1>2. result' \in {EXIT_SUCCESS, EXIT_FAILURE}
    BY <1>1 DEF TypeInv
  <1>3. CASE Execute /\ UNCHANGED rv
    <2>1. Accepted(cmd) /\ cmd.fct \notin Offline \cup {"list_if"}
      BY <1>1 DEF FlowInv, Loops
    <2> QED BY <1>1, <1>2, <1>3, <2>1, CallBegins
  <1>4. CASE Exit(result') /\ UNCHANGED <<run, chan>>
    <2>1. rv' = result' /\ pc' = "exit"
      BY <1>2, <1>4 DEF Exit, Go, EXIT_SUCCESS, EXIT_FAILURE
    <2>2. TypeInv'
      BY <1>1, <1>2, <1>4, <2>1 DEF TypeInv, Pcs
    <2>3. FlowInv'
      BY <1>1, <1>4, <2>1 DEF FlowInv, InHandler, Running
    <2>4. ReturnInv' /\ UpgradeInv'
      BY <1>1, <2>1 DEF ReturnInv, UpgradeInv, Loops
    <2>5. Loops' /\ cmd'.fct # "fw_upgrade" /\ rv' >= 0
      BY <1>1, <1>2, <2>1 DEF Loops, EXIT_SUCCESS, EXIT_FAILURE
    <2>6. ExitInv'
      BY <1>2, <2>1, <2>5 DEF ExitInv
    <2> QED BY <2>2, <2>3, <2>4, <2>6
  <1> QED BY <1>3, <1>4 DEF NextInterface

LEMMA CloseFlow ==
    ASSUME FlowInvs, Close
    PROVE  FlowInvs'
  <1> USE SameCommand DEF FlowInvs
  <1>1. /\ pc = "close" /\ pc' = "next" /\ handles' = handles - 1
        /\ UNCHANGED <<Settled, read, responses, rv, log>>
    BY DEF Close, Go, system, Settled
  <1>2. TypeInv'
    BY <1>1 DEF TypeInv, Pcs, Settled
  <1>3. FlowInv'
    BY <1>1 DEF FlowInv, InHandler, Running, Settled
  <1>4. ReturnInv' /\ ExitInv' /\ UpgradeInv'
    BY <1>1 DEF ReturnInv, ExitInv, UpgradeInv, Settled
  <1> QED BY <1>2, <1>3, <1>4

\* The entry of a call that is lost when its channel is closed is rewritten.
LEMMA LogRewritten ==
    ASSUME TypeInv, Len(log) > 0, NEW outcome \in Outcomes,
           log' = [log EXCEPT ![Len(log)].outcome = outcome]
    PROVE  /\ log' \in LogType
           /\ Len(log') = Len(log)
           /\ Last(log').outcome = outcome
           /\ \A i \in 1..Len(log) : log'[i].device = log[i].device
           /\ \A i \in 1..(Len(log) - 1) : log'[i] = log[i]
  <1> DEFINE E == [device : Devices \cup {NoDevice}, outcome : Outcomes]
             last == Len(log)
             entry == [log[last] EXCEPT !.outcome = outcome]
  <1>1. log \in Seq(E) /\ last \in 1..Len(log)
    BY DEF TypeInv, LogType
  <1>2. entry \in E /\ entry.outcome = outcome /\ entry.device = log[last].device
    <2> HIDE DEF E, last
    <2>1. log[last] \in E
      BY <1>1
    <2> QED BY <2>1 DEF E
  <1>3. log' = [log EXCEPT ![last] = entry]
    BY Zenon
  <1> HIDE DEF E, last, entry
  <1>4. /\ log' \in Seq(E)
        /\ Len(log') = Len(log)
        /\ \A i \in 1..Len(log) : log'[i] = IF i = last THEN entry ELSE log[i]
    BY <1>1, <1>2, <1>3, ExceptSeq
  <1> QED BY <1>1, <1>2, <1>4 DEF Last, LogType, E, last

LEMMA UseUnsetFlow ==
    ASSUME FlowInvs, UseUnset
    PROVE  FlowInvs'
  <1> USE SameCommand DEF FlowInvs
  <1>1. /\ pc \in {"call", "close"} /\ pc' = "undefined"
        /\ UNCHANGED <<Settled, read, handles, responses, rv>>
    BY DEF UseUnset, Go, system, resources, Settled
  <1>2. CASE pc = "call"
    <2>1. Logged("unset") /\ "unset" \in Outcomes
      BY <1>2 DEF UseUnset, Outcomes
    <2>2. Running
      BY <1>2 DEF FlowInv, Running, InHandler
    <2> QED BY <1>1, <2>1, <2>2, CallIsLost DEF TypeInv
  <1>3. CASE pc = "close"
    <2>1. Len(log) = run /\ run > 0
      BY <1>3 DEF FlowInv, Running, InHandler
    <2>2. log' = [log EXCEPT ![Len(log)].outcome = "unset"] /\ "unset" \in Outcomes
      BY <1>3 DEF UseUnset, Outcomes
    <2>3. /\ log' \in LogType
          /\ Len(log') = Len(log)
          /\ \A i \in 1..(Len(log) - 1) : log'[i] = log[i]
      BY <2>1, <2>2, LogRewritten
    <2>4. TypeInv'
      BY <1>1, <2>3 DEF TypeInv, Pcs, Settled
    <2>5. FlowInv'
      BY <1>1, <1>3, <2>3 DEF FlowInv, InHandler, Running, Settled
    <2>6. ReturnInv' /\ ExitInv'
      BY <1>1 DEF ReturnInv, ExitInv
    <2>7. UpgradeInv'
      BY <1>1, <2>1, <2>3 DEF UpgradeInv, Settled
    <2> QED BY <2>4, <2>5, <2>6, <2>7
  <1> QED BY <1>1, <1>2, <1>3

-----------------------------------------------------------------------------
(* Every step is one of those.                                             *)

\* A handler that returns at once.
LEMMA HandlerReturnsFlow ==
    ASSUME FlowInvs, InHandler,
           UNCHANGED <<cmd, system, listing, loop, run, read, chan, handles, result>>,
           responses' \in Nat,
           NEW value, NEW outcome \in Outcomes,
           HandlerReturns(value, outcome), Fits(value, outcome)
    PROVE  FlowInvs'
  <1>1. Running
    BY DEF FlowInvs, FlowInv, InHandler, Running
  <1>2. UNCHANGED <<Settled, read>> /\ handles' \in Int
    BY DEF Settled, system, FlowInvs, TypeInv
  <1>3. pc' \in {"close", "next"} /\ rv' = value /\ Logged(outcome)
    BY DEF HandlerReturns, Go
  <1> QED BY <1>1, <1>2, <1>3, CallEnds

\* The values of the calls that are not silent.
LEMMA FitsFacts ==
    /\ Fits(EXIT_USAGE, "usage")
    /\ Fits(-1, "input") /\ Fits(-1, "output") /\ Fits(-1, "failed") /\ Fits(-1, "pcap")
    /\ \A o \in {"failed", "pcap", "nonblock"} : Fits(EXIT_FAILURE, o)
    /\ Fits(EXIT_SUCCESS, "answered")
    /\ cmd.fct = "open_if" => Fits(EXIT_SUCCESS, "open")
    /\ cmd.fct = "test_mme" /\ Words = "all" => Fits(EXIT_SUCCESS, "nobody")
  BY DEF Fits, EXIT_SUCCESS, EXIT_FAILURE, EXIT_USAGE, EXIT_NO_RESPONSE

LEMMA SilentFits ==
    ASSUME HasHandler
    PROVE  Fits(HandlerOf.silence, "silent")
  <1>1. cmd.fct # "open_if"
    BY DEF HasHandler
  <1>2. HandlerOf.silence \in {-2, -1, EXIT_FAILURE, EXIT_NO_RESPONSE}
    BY HandlerFacts DEF FactsOf
  <1>3. HandlerOf.silence = EXIT_NO_RESPONSE <=>
            HandlerOf.makes \in {"call", "save"} /\ cmd.fct # "nvram write"
    BY HandlerFacts DEF FactsOf
  <1>4. HandlerOf.silence # EXIT_USAGE /\ HandlerOf.silence # EXIT_SUCCESS
    BY <1>2 DEF EXIT_SUCCESS, EXIT_FAILURE, EXIT_USAGE, EXIT_NO_RESPONSE
  <1> QED BY <1>1, <1>2, <1>3, <1>4 DEF Fits

LEMMA InHandlerFacts ==
    ASSUME FlowInvs, InHandler
    PROVE  /\ Running
           /\ cmd.fct # "open_if" => HasHandler
           /\ pc # "handler" =>
                  /\ HasHandler /\ cmd.fct # "open_if" /\ argc \in HandlerOf.counts
                  /\ read <= Len(HandlerOf.reads)
  BY DEF FlowInvs, FlowInv, InHandler, Running, HasHandler

LEMMA FlowInit == Init => FlowInvs
  <1> SUFFICES ASSUME Init PROVE FlowInvs
    OBVIOUS
  <1>1. <<>> \in LogType /\ Len(<<>>) = 0
    BY EmptySeq DEF LogType
  <1>2. TypeInv
    BY <1>1, CommandAssumption DEF Init, TypeInv, Pcs
  <1>3. FlowInv
    BY <1>1 DEF Init, FlowInv, InHandler, Running
  <1>4. ReturnInv /\ ExitInv /\ UpgradeInv
    BY DEF Init, ReturnInv, ExitInv, UpgradeInv
  <1> QED BY <1>2, <1>3, <1>4 DEF FlowInvs

LEMMA FlowStep == FlowInvs /\ [Next]_vars => FlowInvs'
  <1> SUFFICES ASSUME FlowInvs, [Next]_vars PROVE FlowInvs'
    OBVIOUS
  <1> USE DEF system, listing, resources, Settled
  <1>1. CASE Refuse
    <2>1. /\ rv' = EXIT_USAGE /\ pc = "main" /\ pc' = "exit"
          /\ UNCHANGED <<Settled, read, handles, responses, log>>
      BY <1>1 DEF Refuse, Exit, Go, EXIT_USAGE
    <2>2. run = 0
      BY <2>1 DEF FlowInvs, FlowInv
    <2> QED BY <2>1, <2>2, EndsUncalled DEF EXIT_USAGE, EXIT_SUCCESS
  <1>2. CASE RunOffline
    <2>1. /\ rv' \in {EXIT_SUCCESS, EXIT_USAGE, EXIT_FAILURE}
          /\ pc = "main" /\ pc' = "exit"
          /\ UNCHANGED <<Settled, read, handles, responses, log>>
          /\ cmd.fct # "fw_upgrade"
      <3>1. PICK value \in {EXIT_SUCCESS, EXIT_USAGE, -1} : Exit(value)
        BY <1>2 DEF RunOffline
      <3>2. rv' \in {EXIT_SUCCESS, EXIT_USAGE, EXIT_FAILURE} /\ pc' = "exit"
        BY <3>1 DEF Exit, Go, EXIT_USAGE, EXIT_SUCCESS, EXIT_FAILURE
      <3> QED BY <1>2, <3>2 DEF RunOffline, Offline
    <2>2. run = 0
      BY <2>1 DEF FlowInvs, FlowInv
    <2> QED BY <2>1, <2>2, EndsUncalled
  <1>3. CASE Dispatch
    <2>1. /\ pc = "main" /\ Accepted(cmd) /\ cmd.fct \notin Offline
          /\ UNCHANGED <<cmd, devs, moves, loop, read, handles, responses, rv, result, log>>
      BY <1>3 DEF Dispatch
    <2>2. run = 0
      BY <2>1 DEF FlowInvs, FlowInv
    <2>3. CASE cmd.fct = "list_if" \/ Loops
      <3>1. pc' = "list" /\ UNCHANGED <<run, chan>>
        BY <1>3, <2>3 DEF Dispatch, Go
      <3> USE SameCommand
      <3>2. TypeInv'
        BY <2>1, <3>1 DEF FlowInvs, TypeInv, Pcs
      <3>3. FlowInv'
        BY <2>1, <2>2, <2>3, <3>1 DEF FlowInvs, FlowInv, InHandler, Running
      <3>4. ReturnInv' /\ ExitInv' /\ UpgradeInv'
        BY <2>2, <3>1 DEF ReturnInv, ExitInv, UpgradeInv
      <3> QED BY <3>2, <3>3, <3>4 DEF FlowInvs
    <2>4. CASE ~(cmd.fct = "list_if" \/ Loops)
      <3>1. Execute
        BY <1>3, <2>4 DEF Dispatch
      <3>2. result' \in {EXIT_SUCCESS, EXIT_FAILURE}
        BY <2>1 DEF FlowInvs, TypeInv
      <3> QED BY <2>1, <2>2, <2>4, <3>1, <3>2, CallBegins
    <2> QED BY <2>3, <2>4
  <1>4. CASE FindAllDevs
    <2>1. devs \in SUBSET Devices /\ moves \in 0..MaxMoves
      BY DEF FlowInvs, TypeInv
    <2> QED BY <1>4, <2>1, ListMoves DEF FindAllDevs, Go
  <1>5. CASE FindAllDevsFails
    <2>1. /\ pc = "list"
          /\ UNCHANGED <<Settled, read, handles, responses>>
          /\ handles' \in Int /\ responses' \in Nat
      BY <1>5 DEF FindAllDevsFails, FlowInvs, TypeInv
    <2>2. CASE run = 0 /\ Exit(EXIT_FAILURE) /\ log' = log
      BY <2>1, <2>2, EndsUncalled DEF Exit, Go, EXIT_FAILURE, EXIT_SUCCESS
    <2>3. CASE run > 0 /\ Logged("pcap") /\ Go("next") /\ rv' = -1
      <3>1. Running
        BY <2>1, <2>3 DEF Running
      <3> QED BY <2>1, <2>3, <3>1, CallEnds, FitsFacts DEF Go, Outcomes
    <2>4. CASE run > 0 /\ Logged("stack") /\ Go("undefined") /\ rv' = rv
      <3>1. Running
        BY <2>1, <2>4 DEF Running
      <3> QED BY <2>1, <2>4, <3>1, CallIsLost DEF Go, Outcomes
    <2> QED BY <1>5, <2>2, <2>3, <2>4 DEF FindAllDevsFails
  <1>6. CASE PopulateMac
    <2>1. devs \in SUBSET Devices /\ moves \in 0..MaxMoves
      BY DEF FlowInvs, TypeInv
    <2> QED BY <1>6, <2>1, ListMoves DEF PopulateMac
  <1>7. CASE ListInterfaces
    <2>1. /\ pc = "macs" /\ cmd.fct = "list_if" /\ pc' = "exit" /\ rv' = EXIT_SUCCESS
          /\ UNCHANGED <<Settled, read, handles, responses, log>>
      BY <1>7 DEF ListInterfaces, Exit, Go, EXIT_SUCCESS
    <2>2. run = 0
      BY <2>1 DEF FlowInvs, FlowInv, TypeInv
    <2> QED BY <2>1, <2>2, EndsUncalled
  <1>8. CASE BeginLoop
    <2>1. /\ pc = "macs" /\ run = 0 /\ Loops
          /\ UNCHANGED <<cmd, devs, moves, read, handles, responses, result, log>>
      BY <1>8 DEF BeginLoop
    <2>2. CASE list = <<>>
      BY <1>8, <2>1, <2>2, EndsUncalled DEF BeginLoop, Exit, Go, EXIT_SUCCESS, Loops
    <2>3. CASE list # <<>>
      <3>1. Execute /\ rv' = rv
        BY <1>8, <2>3 DEF BeginLoop
      <3>2. result' \in {EXIT_SUCCESS, EXIT_FAILURE}
        BY <2>1 DEF FlowInvs, TypeInv
      <3>3. Accepted(cmd) /\ cmd.fct \notin Offline \cup {"list_if"}
        BY <2>1 DEF FlowInvs, FlowInv, Loops
      <3> QED BY <2>1, <3>1, <3>2, <3>3, CallBegins
    <2> QED BY <2>2, <2>3
  <1>9. CASE NoInterface
    BY <1>9, HandlerBegins DEF NoInterface, Go, EXIT_SUCCESS, FlowInvs, TypeInv
  <1>10. CASE NotFound
    <2>1. /\ Running /\ pc' = "next" /\ rv' = EXIT_USAGE /\ Logged("usage")
          /\ UNCHANGED <<Settled, read, handles, responses>>
          /\ handles' \in Int /\ responses' \in Nat
      BY <1>10 DEF NotFound, Running, Go, FlowInvs, TypeInv
    <2> QED BY <2>1, CallEnds, FitsFacts DEF Outcomes
  <1>11. CASE OpenLive
    BY <1>11, HandlerBegins DEF OpenLive, Go, FlowInvs, TypeInv
  <1>12. CASE OpenFails
    <2>1. PICK nonblock \in BOOLEAN :
            /\ handles' = IF nonblock THEN handles + 1 ELSE handles
            /\ \/ /\ Logged(IF nonblock THEN "nonblock" ELSE "pcap")
                  /\ rv' = EXIT_FAILURE
                  /\ Go("next")
               \/ /\ Logged("stack")
                  /\ rv' = rv
                  /\ Go("undefined")
      BY <1>12 DEF OpenFails
    <2>2. /\ Running
          /\ UNCHANGED <<Settled, read, responses>>
          /\ handles' \in Int /\ responses' \in Nat
      BY <1>12, <2>1 DEF OpenFails, Running, FlowInvs, TypeInv
    <2>3. CASE Logged("stack") /\ rv' = rv /\ Go("undefined")
      BY <2>2, <2>3, CallIsLost DEF Go, Outcomes
    <2>4. CASE /\ Logged(IF nonblock THEN "nonblock" ELSE "pcap")
               /\ rv' = EXIT_FAILURE
               /\ Go("next")
      <3> DEFINE outcome == IF nonblock THEN "nonblock" ELSE "pcap"
      <3>1. outcome \in Outcomes /\ outcome \in {"failed", "pcap", "nonblock"}
        BY DEF Outcomes
      <3> HIDE DEF outcome
      <3>2. Fits(rv', outcome) /\ pc' = "next"
        BY <2>4, <3>1, FitsFacts DEF Go
      <3>3. Logged(outcome)
        BY <2>4 DEF outcome
      <3> QED BY <2>2, <3>1, <3>2, <3>3, CallEnds
    <2> QED BY <2>1, <2>3, <2>4
  <1>13. CASE Close
    BY <1>13, CloseFlow
  <1>14. CASE UseUnset
    BY <1>14, UseUnsetFlow
  <1>15. CASE OpenOnly
    <2>1. InHandler /\ HandlerReturns(EXIT_SUCCESS, "open") /\ responses' \in Nat
      BY <1>15 DEF OpenOnly, InHandler, FlowInvs, TypeInv
    <2>2. Fits(EXIT_SUCCESS, "open") /\ "open" \in Outcomes
      BY <1>15, FitsFacts DEF OpenOnly, Outcomes
    <2> QED BY <1>15, <2>1, <2>2, HandlerReturnsFlow DEF OpenOnly
  <1>16. CASE UsageError
    <2>1. InHandler /\ HandlerReturns(EXIT_USAGE, "usage") /\ responses' \in Nat
      BY <1>16 DEF UsageError, InHandler, FlowInvs, TypeInv
    <2>2. "usage" \in Outcomes
      BY DEF Outcomes
    <2> QED BY <1>16, <2>1, <2>2, FitsFacts, HandlerReturnsFlow DEF UsageError
  <1>17. CASE CheckArgs
    <2>1. /\ InHandler /\ pc' = "args" /\ read' = 0
          /\ cmd.fct # "open_if" /\ argc \in HandlerOf.counts
          /\ UNCHANGED <<Settled, handles, responses, rv, log>>
      BY <1>17 DEF CheckArgs, Go, InHandler
    <2>2. 0 <= Len(HandlerOf.reads)
      BY <2>1, InHandlerFacts, ArgumentsFit
    <2> QED BY <2>1, <2>2, HandlerMoves DEF InHandler
  <1>18. CASE ReadArg
    <2>1. /\ pc = "args" /\ pc' = "args" /\ read < Len(HandlerOf.reads) /\ read' = read + 1
          /\ UNCHANGED <<Settled, handles, responses, rv, log>>
      BY <1>18 DEF ReadArg, Reads
    <2>2. InHandler /\ InHandler'
      BY <2>1 DEF InHandler
    <2>3. /\ cmd.fct # "open_if" /\ argc \in HandlerOf.counts
          /\ Len(HandlerOf.reads) \in 0..12
      BY <2>1, <2>2, InHandlerFacts, ArgumentsFit
    <2>4. read \in Nat
      BY DEF FlowInvs, TypeInv
    <2> DEFINE n == Len(HandlerOf.reads)
    <2>5. n \in 0..12 /\ read < n /\ read' = read + 1
      BY <2>1, <2>3
    <2> HIDE DEF n
    <2>6. read' \in 0..12 /\ read' <= n
      BY <2>4, <2>5
    <2> QED BY <2>1, <2>2, <2>3, <2>6, HandlerMoves DEF n
  <1>19. CASE RefuseMac
    <2>1. InHandler /\ HandlerReturns(EXIT_USAGE, "usage") /\ responses' \in Nat
      BY <1>19 DEF RefuseMac, Reads, InHandler, FlowInvs, TypeInv
    <2>2. "usage" \in Outcomes
      BY DEF Outcomes
    <2> QED BY <1>19, <2>1, <2>2, FitsFacts, HandlerReturnsFlow DEF RefuseMac
  <1>20. CASE ReadMissing
    <2>1. InHandler /\ pc' = "undefined" /\ Logged("argument") /\ "argument" \in Outcomes
          /\ UNCHANGED <<Settled, read, rv>> /\ handles' \in Int /\ responses' \in Nat
      BY <1>20 DEF ReadMissing, Reads, InHandler, Go, Outcomes, FlowInvs, TypeInv
    <2> QED BY <2>1, InHandlerFacts, CallIsLost
  <1>21. CASE EndArgs
    <2>1. /\ pc = "args" /\ pc' \in {"words", "call"} /\ read' = read
          /\ pc' = "words" => HandlerOf.makes = "transfer"
          /\ UNCHANGED <<Settled, handles, responses, rv, log>>
      BY <1>21 DEF EndArgs, Go
    <2>2. InHandler /\ InHandler' /\ read' \in 0..12
      BY <2>1 DEF InHandler, FlowInvs, FlowInv, TypeInv
    <2> QED BY <2>1, <2>2, InHandlerFacts, HandlerMoves
  <1>22. CASE WordsFail
    <2>1. InHandler /\ HandlerReturns(EXIT_USAGE, "usage") /\ responses' \in Nat
      BY <1>22 DEF WordsFail, InHandler, FlowInvs, TypeInv
    <2>2. "usage" \in Outcomes
      BY DEF Outcomes
    <2> QED BY <1>22, <2>1, <2>2, FitsFacts, HandlerReturnsFlow DEF WordsFail
  <1>23. CASE RefuseInput
    <2>1. InHandler /\ HandlerReturns(-1, "input") /\ responses' \in Nat
      BY <1>23 DEF RefuseInput, Reads, InHandler, FlowInvs, TypeInv
    <2>2. "input" \in Outcomes
      BY DEF Outcomes
    <2> QED BY <1>23, <2>1, <2>2, FitsFacts, HandlerReturnsFlow DEF RefuseInput
  <1>24. CASE WordsDo
    <2>1. /\ pc = "words" /\ pc' = "call" /\ read' = read
          /\ UNCHANGED <<Settled, handles, responses, rv, log>>
      BY <1>24 DEF WordsDo, Go
    <2>2. InHandler /\ InHandler' /\ read' \in 0..12
      BY <2>1 DEF InHandler, FlowInvs, FlowInv, TypeInv
    <2> QED BY <2>1, <2>2, InHandlerFacts, HandlerMoves
  <1>25. CASE ParseNoWords
    <2>1. InHandler /\ pc' = "undefined" /\ Logged("argument") /\ "argument" \in Outcomes
          /\ UNCHANGED <<Settled, read, rv>> /\ handles' \in Int /\ responses' \in Nat
      BY <1>25 DEF ParseNoWords, InHandler, Go, Outcomes, FlowInvs, TypeInv
    <2> QED BY <2>1, InHandlerFacts, CallIsLost
  <1>26. CASE StaFileFails
    <2>1. InHandler /\ pc' = "undefined" /\ Logged("sta.txt") /\ "sta.txt" \in Outcomes
          /\ UNCHANGED <<Settled, read, rv>> /\ handles' \in Int /\ responses' \in Nat
      BY <1>26 DEF StaFileFails, InHandler, Go, Outcomes, FlowInvs, TypeInv
    <2> QED BY <2>1, InHandlerFacts, CallIsLost
  <1>37. CASE ReadStaList
    <2>1. /\ pc = "words" /\ Words = "all" /\ read' = read
          /\ UNCHANGED <<Settled, handles, responses>>
          /\ \/ pc' = "call" /\ UNCHANGED <<rv, log>>
             \/ HandlerReturns(EXIT_SUCCESS, "nobody")
             \/ HandlerReturns(EXIT_USAGE, "usage")
      BY <1>37 DEF ReadStaList, Go
    <2>2. /\ InHandler /\ read' \in 0..12 /\ responses' \in Nat
          /\ "usage" \in Outcomes /\ "nobody" \in Outcomes
      BY <2>1 DEF InHandler, FlowInvs, FlowInv, TypeInv, Outcomes
    <2>3. CASE pc' = "call" /\ UNCHANGED <<rv, log>>
      <3>1. InHandler'
        BY <2>3 DEF InHandler
      <3> QED BY <2>1, <2>2, <2>3, <3>1, InHandlerFacts, HandlerMoves
    <2>4. CASE HandlerReturns(EXIT_SUCCESS, "nobody")
      <3>1. HandlerOf.makes = "transfer" /\ FactsOf(HandlerOf)
        BY <2>1, <2>2, InHandlerFacts, HandlerFacts DEF FlowInvs, FlowInv
      <3>2. cmd.fct = "test_mme"
        BY <2>1, <3>1 DEF FactsOf, Words
      <3> QED BY <1>37, <2>1, <2>2, <2>4, <3>2, FitsFacts, HandlerReturnsFlow DEF ReadStaList
    <2>5. CASE HandlerReturns(EXIT_USAGE, "usage")
      BY <1>37, <2>1, <2>2, <2>5, FitsFacts, HandlerReturnsFlow DEF ReadStaList
    <2> QED BY <2>1, <2>3, <2>4, <2>5
  <1>38. CASE StaListOverruns
    <2>1. InHandler /\ pc' = "undefined" /\ Logged("mac_list") /\ "mac_list" \in Outcomes
          /\ UNCHANGED <<Settled, read, rv>> /\ handles' \in Int /\ responses' \in Nat
      BY <1>38 DEF StaListOverruns, InHandler, Go, Outcomes, FlowInvs, TypeInv
    <2> QED BY <2>1, InHandlerFacts, CallIsLost
  <1>27. CASE Answered
    <2>1. InHandler /\ HandlerReturns(EXIT_SUCCESS, "answered") /\ responses' \in Nat
      BY <1>27 DEF Answered, InHandler, FlowInvs, TypeInv
    <2>2. "answered" \in Outcomes
      BY DEF Outcomes
    <2> QED BY <1>27, <2>1, <2>2, FitsFacts, HandlerReturnsFlow DEF Answered
  <1>28. CASE OutputFails
    <2>1. InHandler /\ HandlerReturns(-1, "output") /\ responses' \in Nat
      BY <1>28 DEF OutputFails, InHandler, FlowInvs, TypeInv
    <2>2. "output" \in Outcomes
      BY DEF Outcomes
    <2> QED BY <1>28, <2>1, <2>2, FitsFacts, HandlerReturnsFlow DEF OutputFails
  <1>29. CASE Silent
    <2>1. InHandler /\ HandlerReturns(HandlerOf.silence, "silent") /\ responses' \in Nat
      BY <1>29 DEF Silent, InHandler, FlowInvs, TypeInv
    <2>2. "silent" \in Outcomes
      BY DEF Outcomes
    <2>3. Fits(HandlerOf.silence, "silent")
      BY <1>29, <2>1, InHandlerFacts, SilentFits DEF Silent
    <2> QED BY <1>29, <2>1, <2>2, <2>3, HandlerReturnsFlow DEF Silent
  <1>30. CASE CallFails
    <2> DEFINE value == IF HandlerOf.makes \in {"transfer", "transfers"} THEN -1
                        ELSE EXIT_FAILURE
    <2>1. InHandler /\ HandlerReturns(value, "failed") /\ responses' \in Nat
      BY <1>30 DEF CallFails, InHandler, FlowInvs, TypeInv
    <2>2. Fits(value, "failed") /\ "failed" \in Outcomes
      BY FitsFacts DEF Outcomes
    <2> HIDE DEF value
    <2> QED BY <1>30, <2>1, <2>2, HandlerReturnsFlow DEF CallFails
  <1>31. CASE NextInterface
    BY <1>31, NextInterfaceFlow
  <1>32. CASE SecondImage
    <2>1. /\ Execute /\ pc = "next" /\ GoesOn
          /\ UNCHANGED <<cmd, devs, moves, read, handles, responses, rv, log>>
          /\ result' \in {EXIT_SUCCESS, EXIT_FAILURE}
      BY <1>32 DEF SecondImage, FlowInvs, TypeInv
    <2>2. Accepted(cmd) /\ cmd.fct \notin Offline \cup {"list_if"}
      BY <2>1 DEF FlowInvs, FlowInv
    <2> QED BY <2>1, <2>2, CallBegins
  <1>33. CASE Finish
    BY <1>33, FinishEnds
  <1>34. CASE Plug
    <2>1. devs' \in SUBSET Devices /\ moves' \in 0..MaxMoves
      BY <1>34, CommandAssumption DEF Plug, FlowInvs, TypeInv
    <2> QED BY <1>34, <2>1, ListMoves DEF Plug
  <1>35. CASE UNCHANGED vars
    <2>1. /\ cmd' = cmd /\ pc' = pc /\ devs' = devs /\ moves' = moves /\ run' = run
          /\ read' = read /\ chan' = chan /\ handles' = handles /\ responses' = responses
          /\ rv' = rv /\ result' = result /\ log' = log
      BY <1>35 DEF vars
    <2> USE SameCommand DEF FlowInvs
    <2>2. TypeInv'
      BY <2>1 DEF TypeInv
    <2>3. FlowInv'
      BY <2>1 DEF FlowInv, Running, InHandler
    <2>4. ReturnInv'
      BY <2>1 DEF ReturnInv
    <2>5. ExitInv'
      BY <2>1 DEF ExitInv
    <2>6. UpgradeInv'
      BY <2>1 DEF UpgradeInv
    <2> QED BY <2>2, <2>3, <2>4, <2>5, <2>6
  <1>36. CASE Run
    BY <1>1, <1>2, <1>3, <1>4, <1>5, <1>6, <1>7, <1>8, <1>9, <1>10, <1>11, <1>12, <1>13,
       <1>14, <1>15, <1>16, <1>17, <1>18, <1>19, <1>20, <1>21, <1>22, <1>23, <1>24, <1>25,
       <1>26, <1>27, <1>28, <1>29, <1>30, <1>31, <1>32, <1>33, <1>36, <1>37, <1>38 DEF Run
  <1> QED BY <1>34, <1>35, <1>36 DEF Next, Ended

LEMMA FlowInvariant == Spec => []FlowInvs
  BY FlowInit, FlowStep, PTL DEF Spec

-----------------------------------------------------------------------------
(* What the exit code tells the user.                                      *)

\* A user who sees exit code 2 may correct the command line and repeat it:
\* nothing was sent, except for the boot loader of an upgrade whose interface
\* went away (main.c, README:30-31).
THEOREM UsageErrorsSendNothing == Spec => []UsageSendsNothing
  <1>1. FlowInvs => UsageSendsNothing
    <2> SUFFICES ASSUME FlowInvs, pc = "exit", rv = EXIT_USAGE,
                        NEW i \in DOMAIN log, Sent(i)
                 PROVE  cmd.fct = "fw_upgrade" /\ i = 1 /\ run = 2
      BY DEF UsageSendsNothing
    <2>1. Len(log) = run /\ run \in Nat
      BY DEF FlowInvs, FlowInv, TypeInv, Running, InHandler
    <2>2. DOMAIN log = 1..Len(log)
      BY DEF FlowInvs, TypeInv, LogType
    <2>3. i \in 1..run /\ log # <<>>
      BY <2>1, <2>2
    <2>4. ~Loops
      <3>1. Loops => rv \in {EXIT_SUCCESS, EXIT_FAILURE}
        BY <2>3 DEF FlowInvs, ExitInv
      <3> QED BY <3>1 DEF EXIT_SUCCESS, EXIT_FAILURE, EXIT_USAGE
    <2>5. log[run].outcome = "usage"
      BY <2>1, <2>3, <2>4 DEF FlowInvs, ExitInv, Last
    <2>6. i # run
      BY <2>5 DEF Sent
    <2> QED BY <2>1, <2>3, <2>4, <2>6 DEF FlowInvs, FlowInv
  <1> QED BY <1>1, FlowInvariant, PTL

\* No firmware is written after a boot loader that was not, and an upgrade that
\* stops half way is never reported as done (main.c, fw_upgrade).
THEOREM HalfUpgradesAreReported == Spec => []HalfUpgradeIsReported
  <1>1. FlowInvs => HalfUpgradeIsReported
    <2> SUFFICES ASSUME FlowInvs, cmd.fct = "fw_upgrade", pc = "exit", rv = EXIT_SUCCESS
                 PROVE  Len(log) = 2 /\ \A i \in 1..2 : log[i].outcome = "answered"
      BY DEF FlowInvs, UpgradeInv, HalfUpgradeIsReported
    <2>1. run = 2 /\ Last(log).outcome = "answered" /\ log[1].outcome = "answered"
      BY DEF FlowInvs, ExitInv, UpgradeInv
    <2>2. Len(log) = 2
      BY <2>1 DEF FlowInvs, FlowInv, Running, InHandler
    <2> QED BY <2>1, <2>2 DEF Last
  <1> QED BY <1>1, FlowInvariant, PTL

-----------------------------------------------------------------------------
(* Second part: what is open.                                              *)

CountOf(l, outcome) == Cardinality({i \in DOMAIN l : l[i].outcome = outcome})

\* The channel of a call is open.
Open == chan # NoDevice /\ (InHandler \/ pc = "close")

OpenInv ==
    pc # "undefined" =>
        /\ handles = CountOf(log, "nonblock") + (IF Open THEN 1 ELSE 0)
        /\ responses = CountOf(log, "output")

\* A new entry of the log counts for its outcome.
LEMMA CountAppended ==
    ASSUME TypeInv, NEW outcome \in Outcomes, Logged(outcome), NEW o
    PROVE  /\ CountOf(log, o) \in 0..Len(log)
           /\ o = outcome => CountOf(log', o) = CountOf(log, o) + 1
           /\ o # outcome => CountOf(log', o) = CountOf(log, o)
  <1> DEFINE E == [device : Devices \cup {NoDevice}, outcome : Outcomes]
             n == Len(log)
             old == {i \in DOMAIN log : log[i].outcome = o}
             new == {i \in DOMAIN log' : log'[i].outcome = o}
  <1>1. log \in LogType /\ log' \in LogType /\ n \in Nat /\ Len(log') = n + 1
    BY LogAppended DEF TypeInv
  <1>2. DOMAIN log = 1..n /\ DOMAIN log' = 1..(n + 1)
    BY <1>1, LenProperties DEF LogType
  <1>3. /\ log'[n + 1].outcome = outcome
        /\ \A i \in 1..n : log'[i] = log[i]
    <2>1. log'[Len(log) + 1] = [device |-> chan, outcome |-> outcome]
      BY LogAppended
    <2>2. \A i \in 1..Len(log) : log'[i] = log[i]
      BY LogAppended
    <2> QED BY <2>1, <2>2
  <1> HIDE DEF n
  <1>4. IsFiniteSet(1..n) /\ Cardinality(1..n) = n
    BY <1>1, FS_Interval
  <1>5. /\ IsFiniteSet(old)
        /\ Cardinality(old) \in 0..n
    <2>1. old \subseteq 1..n
      BY <1>2
    <2> HIDE DEF old
    <2>2. IsFiniteSet(old) /\ Cardinality(old) <= n
      BY <1>4, <2>1, FS_Subset
    <2>3. Cardinality(old) \in Nat
      BY <2>2, FS_CardinalityType
    <2> QED BY <1>1, <2>2, <2>3
  <1>6. new = IF o = outcome THEN old \cup {n + 1} ELSE old
    <2>1. \A i : i \in new <=> i \in old \/ (i = n + 1 /\ o = outcome)
      <3>1. \A i : i \in 1..(n + 1) <=> i \in 1..n \/ i = n + 1
        BY <1>1
      <3> QED BY <1>2, <1>3, <3>1
    <2> HIDE DEF old, new
    <2> QED BY <2>1
  <1>7. n + 1 \notin old
    BY <1>1, <1>2
  <1>8. CountOf(log, o) = Cardinality(old) /\ CountOf(log', o) = Cardinality(new)
    BY DEF CountOf
  <1> HIDE DEF old, new
  <1>9. Cardinality(old \cup {n + 1}) = Cardinality(old) + 1
    BY <1>5, <1>7, FS_AddElement
  <1>10. CountOf(log, o) \in 0..Len(log)
    BY <1>5, <1>8 DEF n
  <1>11. o = outcome => CountOf(log', o) = CountOf(log, o) + 1
    BY <1>6, <1>8, <1>9
  <1>12. o # outcome => CountOf(log', o) = CountOf(log, o)
    BY <1>6, <1>8
  <1> QED BY <1>10, <1>11, <1>12

LEMMA CountBounded ==
    ASSUME TypeInv, NEW o
    PROVE  CountOf(log, o) \in 0..Len(log)
  <1> DEFINE old == {i \in DOMAIN log : log[i].outcome = o}
  <1>1. DOMAIN log = 1..Len(log) /\ Len(log) \in Nat
    BY LenProperties DEF TypeInv, LogType
  <1> DEFINE n == Len(log)
  <1>2. old \subseteq 1..n /\ n \in Nat
    BY <1>1
  <1> HIDE DEF old, n
  <1>3. IsFiniteSet(1..n) /\ Cardinality(1..n) = n
    BY <1>2, FS_Interval
  <1>4. IsFiniteSet(old) /\ Cardinality(old) <= n
    BY <1>2, <1>3, FS_Subset
  <1>5. Cardinality(old) \in Nat
    BY <1>4, FS_CardinalityType
  <1>6. Cardinality(old) \in 0..n
    BY <1>2, <1>4, <1>5
  <1> QED BY <1>6 DEF CountOf, old, n

LEMMA CountIsNatural ==
    ASSUME TypeInv, NEW o
    PROVE  CountOf(log, o) \in Nat
  <1>1. Len(log) \in Nat
    BY LenProperties DEF TypeInv, LogType
  <1> QED BY <1>1, CountBounded

\* A step that opens and closes nothing.
LEMMA OpenStays ==
    ASSUME OpenInv, pc # "undefined",
           UNCHANGED <<handles, responses, log>>, Open' = Open
    PROVE  OpenInv'
  BY DEF OpenInv

\* A call that is over or lost, with what it leaves.
LEMMA OpenLogged ==
    ASSUME TypeInv, OpenInv, pc # "undefined",
           NEW outcome \in Outcomes, Logged(outcome), Open' = Open,
           outcome = "nonblock" => handles' = handles + 1,
           outcome # "nonblock" => handles' = handles,
           outcome = "output" => responses' = responses + 1,
           outcome # "output" => responses' = responses
    PROVE  OpenInv'
  <1>1. \A o \in {"nonblock", "output"} :
            /\ CountOf(log, o) \in Nat
            /\ o = outcome => CountOf(log', o) = CountOf(log, o) + 1
            /\ o # outcome => CountOf(log', o) = CountOf(log, o)
    <2> TAKE o \in {"nonblock", "output"}
    <2>1. /\ CountOf(log, o) \in 0..Len(log)
          /\ o = outcome => CountOf(log', o) = CountOf(log, o) + 1
          /\ o # outcome => CountOf(log', o) = CountOf(log, o)
      BY CountAppended
    <2>2. Len(log) \in Nat
      BY LogAppended
    <2> QED BY <2>1, <2>2
  <1>2. handles' = CountOf(log', "nonblock") + (IF Open' THEN 1 ELSE 0)
    BY <1>1 DEF OpenInv
  <1>3. responses' = CountOf(log', "output")
    BY <1>1 DEF OpenInv
  <1> QED BY <1>2, <1>3 DEF OpenInv

LEMMA OpenInit == Init => OpenInv
  <1> SUFFICES ASSUME Init PROVE OpenInv
    OBVIOUS
  <1>1. log = <<>> /\ handles = 0 /\ responses = 0 /\ chan = NoDevice
    BY DEF Init
  <1>2. \A o : CountOf(log, o) = 0
    <2> TAKE o
    <2>1. {i \in DOMAIN log : log[i].outcome = o} = {}
      BY <1>1
    <2> QED BY <2>1, FS_EmptySet DEF CountOf
  <1> QED BY <1>1, <1>2 DEF OpenInv, Open

\* Every entry of the log that is not one of the two leaves nothing behind.
LEMMA OpenStep == FlowInvs /\ OpenInv /\ [Next]_vars => OpenInv'
  <1> SUFFICES ASSUME FlowInvs, OpenInv, [Next]_vars, pc' # "undefined"
               PROVE  OpenInv'
    BY DEF OpenInv
  <1> USE DEF system, listing, resources
  <1>41. TypeInv
    BY DEF FlowInvs
  <1>42. pc # "undefined"
    BY DEF Next, Run, Refuse, RunOffline, Dispatch, FindAllDevs, FindAllDevsFails, PopulateMac,
           ListInterfaces, BeginLoop, NoInterface, NotFound, OpenLive, OpenFails, Close, UseUnset,
           OpenOnly, UsageError, CheckArgs, Reads, ReadArg, RefuseMac, ReadMissing, EndArgs,
           RefuseInput, WordsFail, WordsDo, ParseNoWords,
             ReadStaList, StaListOverruns, StaFileFails, Answered, OutputFails, Silent,
           CallFails, NextInterface, SecondImage, Finish, Plug, Ended, vars
  <1>43. pc = "macs" /\ run > 0 => chan = NoDevice
    BY DEF FlowInvs, FlowInv
  \* A handler's last step.
  <1>44. ASSUME InHandler, NEW value, NEW outcome \in Outcomes \ {"nonblock"},
               HandlerReturns(value, outcome), UNCHANGED <<chan, handles>>,
               outcome = "output" => responses' = responses + 1,
               outcome # "output" => responses' = responses
        PROVE  OpenInv'
    <2>1. Open' = Open
      BY <1>44 DEF Open, InHandler, HandlerReturns, Go
    <2>2. Logged(outcome) /\ outcome \in Outcomes /\ outcome # "nonblock"
      BY <1>44 DEF HandlerReturns
    <2> QED BY <1>41, <1>42, <1>44, <2>1, <2>2, OpenLogged
  <1>45. ASSUME InHandler, NEW value, NEW outcome \in Outcomes \ {"nonblock", "output"},
               HandlerReturns(value, outcome), UNCHANGED <<chan, resources>>
        PROVE  OpenInv'
    <2> QED BY <1>44, <1>45
  <1>46. {"usage", "input", "pcap", "nonblock", "open", "nobody", "answered", "output",
         "silent", "failed"} \subseteq Outcomes
    BY DEF Outcomes
  <1>47. /\ "pcap" # "nonblock" /\ "pcap" # "output"
        /\ "usage" # "nonblock" /\ "usage" # "output" /\ "nonblock" # "output"
    OBVIOUS
  \* A step that leaves what is open.
  <1>1. CASE \/ Refuse \/ RunOffline \/ Dispatch \/ FindAllDevs \/ PopulateMac
             \/ ListInterfaces \/ BeginLoop \/ NoInterface
             \/ CheckArgs \/ ReadArg \/ EndArgs \/ WordsDo
             \/ NextInterface \/ SecondImage \/ Finish \/ Plug \/ UNCHANGED vars
    <2>1. UNCHANGED <<handles, responses, log>>
      BY <1>1 DEF Refuse, RunOffline, Dispatch, FindAllDevs, PopulateMac,
             ListInterfaces, BeginLoop, NoInterface, CheckArgs, ReadArg, EndArgs, WordsDo,
             NextInterface, SecondImage, Finish, Plug, vars
    <2>2. Open' = Open
      <3>1. CASE \/ CheckArgs \/ ReadArg \/ EndArgs \/ WordsDo \/ UNCHANGED vars
        BY <3>1 DEF CheckArgs, ReadArg, Reads, EndArgs, WordsDo, vars, Go, Open, InHandler
      <3>2. CASE \/ Refuse \/ RunOffline \/ FindAllDevs \/ PopulateMac \/ ListInterfaces
                 \/ Finish \/ Plug
        BY <3>2 DEF Refuse, RunOffline, FindAllDevs, PopulateMac, ListInterfaces,
                    Finish, Plug, Exit, Go, Open, InHandler
      <3>3. CASE Dispatch \/ BeginLoop \/ NextInterface \/ SecondImage
        BY <3>3 DEF Dispatch, BeginLoop, NextInterface, SecondImage, Execute, Exit, Go,
                    Open, InHandler
      <3>4. CASE NoInterface
        BY <3>4, <1>43 DEF NoInterface, Go, Open, InHandler
      <3> QED BY <1>1, <3>1, <3>2, <3>3, <3>4
    <2> QED BY <1>42, <2>1, <2>2, OpenStays
  <1>2. CASE FindAllDevsFails
    <2>1. /\ UNCHANGED <<handles, responses>> /\ pc = "list" /\ pc' \in {"exit", "next"}
          /\ log' = log \/ Logged("pcap")
      BY <1>2 DEF FindAllDevsFails, Exit, Go
    <2>2. Open' = Open
      BY <2>1 DEF Open, InHandler
    <2>3. CASE log' = log
      BY <1>42, <2>1, <2>2, <2>3, OpenStays
    <2>4. CASE Logged("pcap")
      BY <1>41, <1>42, <1>46, <1>47, <2>1, <2>2, <2>4, OpenLogged
    <2> QED BY <2>1, <2>3, <2>4
  <1>3. CASE NotFound
    <2>1. Open' = Open
      BY <1>3 DEF NotFound, Go, Open, InHandler
    <2>2. UNCHANGED <<handles, responses>> /\ Logged("usage")
      BY <1>3 DEF NotFound
    <2> QED BY <1>41, <1>42, <1>46, <1>47, <2>1, <2>2, OpenLogged
  <1>4. CASE OpenLive
    <2>1. /\ UNCHANGED <<responses, log>> /\ handles' = handles + 1
          /\ pc = "macs" /\ pc' = "handler" /\ chan' \in devs
      BY <1>4 DEF OpenLive, Go
    <2>2. chan' # NoDevice
      BY <1>41, <2>1, CommandAssumption DEF TypeInv
    <2>3. ~Open /\ Open'
      BY <2>1, <2>2 DEF Open, InHandler
    <2>4. CountOf(log', "nonblock") = CountOf(log, "nonblock")
      BY <2>1
    <2>5. handles = CountOf(log, "nonblock") + 0 /\ responses = CountOf(log, "output")
      BY <1>42, <2>3 DEF OpenInv
    <2>6. CountOf(log, "nonblock") \in Int
      BY <1>41, CountIsNatural
    <2> QED BY <2>1, <2>3, <2>4, <2>5, <2>6 DEF OpenInv
  <1>5. CASE OpenFails
    <2>1. PICK nonblock \in BOOLEAN :
            /\ handles' = IF nonblock THEN handles + 1 ELSE handles
            /\ Logged(IF nonblock THEN "nonblock" ELSE "pcap")
            /\ Go("next")
      BY <1>5 DEF OpenFails, Go
    <2>2. UNCHANGED <<responses>> /\ Open' = Open
      BY <1>5, <2>1 DEF OpenFails, Go, Open, InHandler
    <2>3. CASE nonblock
      <3>1. Logged("nonblock") /\ handles' = handles + 1
        BY <2>1, <2>3
      <3> QED BY <1>41, <1>42, <1>46, <1>47, <2>2, <3>1, OpenLogged
    <2>4. CASE ~nonblock
      <3>1. Logged("pcap") /\ handles' = handles
        BY <2>1, <2>4
      <3> QED BY <1>41, <1>42, <1>46, <1>47, <2>2, <3>1, OpenLogged
    <2> QED BY <2>3, <2>4
  <1>6. CASE Close
    <2>1. /\ UNCHANGED <<responses, log>> /\ handles' = handles - 1
          /\ pc = "close" /\ pc' = "next" /\ chan # NoDevice
      BY <1>6 DEF Close, Go
    <2>2. Open /\ ~Open'
      BY <2>1 DEF Open, InHandler
    <2>3. handles = CountOf(log, "nonblock") + 1 /\ responses = CountOf(log, "output")
      BY <1>42, <2>2 DEF OpenInv
    <2>4. CountOf(log, "nonblock") \in Int
      BY <1>41, CountIsNatural
    <2> QED BY <2>1, <2>2, <2>3, <2>4 DEF OpenInv
  <1>7. CASE UseUnset \/ ReadMissing \/ ParseNoWords \/ StaListOverruns \/ StaFileFails
    BY <1>7 DEF UseUnset, ReadMissing, ParseNoWords, StaListOverruns, StaFileFails, Go
  <1>8. CASE OpenOnly
    BY <1>8, <1>45, <1>46 DEF OpenOnly, InHandler
  <1>9. CASE UsageError
    BY <1>9, <1>45, <1>46 DEF UsageError, InHandler
  <1>10. CASE RefuseMac
    BY <1>10, <1>45, <1>46 DEF RefuseMac, Reads, InHandler
  <1>11. CASE RefuseInput
    BY <1>11, <1>45, <1>46 DEF RefuseInput, Reads, InHandler
  <1>12. CASE WordsFail
    BY <1>12, <1>45, <1>46 DEF WordsFail, InHandler
  <1>17. CASE ReadStaList
    <2>1. pc = "words" /\ UNCHANGED <<chan, handles, responses>>
      BY <1>17 DEF ReadStaList
    <2>2. CASE Go("call") /\ UNCHANGED <<rv, log>>
      <3>1. Open' = Open
        BY <2>1, <2>2 DEF Go, Open, InHandler
      <3> QED BY <1>42, <2>1, <2>2, <3>1, OpenStays
    <2>3. CASE HandlerReturns(EXIT_SUCCESS, "nobody")
      BY <2>1, <2>3, <1>45, <1>46 DEF InHandler
    <2>4. CASE HandlerReturns(EXIT_USAGE, "usage")
      BY <2>1, <2>4, <1>45, <1>46 DEF InHandler
    <2> QED BY <1>17, <2>2, <2>3, <2>4 DEF ReadStaList
  <1>13. CASE Answered
    BY <1>13, <1>45, <1>46 DEF Answered, InHandler
  <1>14. CASE OutputFails
    <2>1. InHandler /\ HandlerReturns(-1, "output") /\ UNCHANGED <<chan, handles>>
      BY <1>14 DEF OutputFails, InHandler
    <2>2. responses' = responses + 1
      BY <1>14 DEF OutputFails
    <2> QED BY <1>44, <1>46, <2>1, <2>2
  <1>15. CASE Silent
    BY <1>15, <1>45, <1>46 DEF Silent, InHandler
  <1>16. CASE CallFails
    BY <1>16, <1>45, <1>46 DEF CallFails, InHandler
  <1> QED BY <1>1, <1>2, <1>3, <1>4, <1>5, <1>6, <1>7, <1>8, <1>9, <1>10, <1>11, <1>12, <1>13,
             <1>14, <1>15, <1>16, <1>17 DEF Next, Run, Ended

\* Whatever went wrong and in whatever order the devices came and went, the
\* run ends with the handles and answers of the two forgotten paths, and no
\* other, still held (hpav_chan.c, test_nvram.c).
THEOREM WhatIsLeftOpen == Spec => []LeftOpenExactly
  <1>1. FlowInvs /\ OpenInv => LeftOpenExactly
    <2> SUFFICES ASSUME TypeInv, OpenInv, pc = "exit" PROVE LeftOpenExactly
      BY DEF LeftOpenExactly, FlowInvs
    <2>1. ~Open
      BY DEF Open, InHandler
    <2>2. handles = CountOf(log, "nonblock") + 0 /\ responses = CountOf(log, "output")
      BY <2>1 DEF OpenInv
    <2>3. CountOf(log, "nonblock") \in Nat
      BY CountIsNatural
    <2>4. handles = CountOf(log, "nonblock")
      BY <2>2, <2>3
    <2> QED BY <2>2, <2>4 DEF LeftOpenExactly, CountOf
  <1> QED BY <1>1, FlowInvariant, OpenInit, OpenStep, PTL DEF Spec

-----------------------------------------------------------------------------
(* Third part: the list of interfaces.                                     *)

\* In the order of the list, hence with no device twice.
SortedList(l) ==
    /\ l \in Seq(Devices)
    /\ \A i, j \in 1..Len(l) : i < j => Before(l[i], l[j])

\* While hpav_populate_mac_addr goes through the list, what is before its place
\* has an address, and no device is lost that is there and has one.
ListInv ==
    /\ SortedList(list)
    /\ \A i \in 1..Len(list) : ~Skipped(list[i])
    /\ list = <<>> \/ at \in 1..(Len(list) + 1)
    /\ pc = "macs" =>
           /\ at \in 1..(Len(list) + 1)
           /\ \A i \in 1..(at - 1) : list[i].mac
           /\ moves = 0 => Usable \subseteq ToSet(list) /\ ToSet(list) \subseteq devs

\* The channel of a call is unset only if there was no interface for it.
UnsetInv ==
    chan = NoDevice /\ (InHandler \/ pc = "close") /\ moves = 0 => Usable = {}

\* find_local_sta goes through its own list.
LoopInv ==
    /\ SortedList(loop)
    /\ Loops => run <= Cardinality(Devices)
    /\ Loops /\ pc \notin {"exit", "undefined"} =>
        /\ run <= Len(loop)
        /\ \A i \in 1..Len(log) :
               loop[i].number = NotANumber => log[i].device \in {loop[i], NoDevice}
        /\ run > 0 /\ loop[run].number = NotANumber => chan \in {loop[run], NoDevice}
        /\ result = EXIT_SUCCESS <=> \A i \in 1..(run - 1) : log[i].outcome = "answered"

\* And what is left behind, also when the program is lost.
LeftInv ==
    /\ pc = "undefined" => handles \in 0..(run + 1)
    /\ responses \in 0..1

\* InsertAt, position by position.
LEMMA InsertAtPositions ==
    ASSUME NEW S, NEW s \in Seq(S), NEW i \in 1..(Len(s) + 1), NEW e \in S
    PROVE  /\ InsertAt(s, i, e) \in Seq(S)
           /\ Len(InsertAt(s, i, e)) = Len(s) + 1
           /\ \A k \in 1..(Len(s) + 1) :
                  InsertAt(s, i, e)[k] = IF k < i THEN s[k] ELSE IF k = i THEN e ELSE s[k - 1]
  <1> DEFINE n == Len(s)
             a == SubSeq(s, 1, i - 1)
             b == <<e>>
             c == SubSeq(s, i, n)
  <1>1. n \in Nat /\ i \in 1..(n + 1) /\ \A k \in 1..n : s[k] \in S
    BY LenProperties, ElementOfSeq
  <1>2. /\ a \in Seq(S) /\ Len(a) = i - 1
        /\ \A k \in 1..(i - 1) : a[k] = s[k]
    <2>1. \A k \in 1..(i - 1) : s[k] \in S
      BY <1>1
    <2>2. /\ SubSeq(s, 1, i - 1) \in Seq(S)
          /\ Len(SubSeq(s, 1, i - 1)) = IF 1 <= i - 1 THEN (i - 1) - 1 + 1 ELSE 0
          /\ \A k \in 1..((i - 1) - 1 + 1) : SubSeq(s, 1, i - 1)[k] = s[1 + k - 1]
      BY <2>1, SubSeqProperties
    <2> QED BY <2>2
  <1>3. /\ c \in Seq(S) /\ Len(c) = n - i + 1
        /\ \A k \in 1..(n - i + 1) : c[k] = s[i + k - 1]
    <2>1. \A k \in i..n : s[k] \in S
      BY <1>1
    <2>2. /\ SubSeq(s, i, n) \in Seq(S)
          /\ Len(SubSeq(s, i, n)) = IF i <= n THEN n - i + 1 ELSE 0
          /\ \A k \in 1..(n - i + 1) : SubSeq(s, i, n)[k] = s[i + k - 1]
      BY <1>1, <2>1, SubSeqProperties
    <2> QED BY <1>1, <2>2
  <1>4. b \in Seq(S) /\ Len(b) = 1 /\ b[1] = e
    OBVIOUS
  <1>5. InsertAt(s, i, e) = (a \o b) \o c
    BY DEF InsertAt
  <1> HIDE DEF n, a, b, c
  <1>6. /\ a \o b \in Seq(S) /\ Len(a \o b) = i
        /\ \A k \in 1..i : (a \o b)[k] = IF k <= i - 1 THEN a[k] ELSE b[k - (i - 1)]
    <2>1. /\ a \o b \in Seq(S) /\ Len(a \o b) = Len(a) + Len(b)
          /\ \A k \in 1..(Len(a) + Len(b)) :
                 (a \o b)[k] = IF k <= Len(a) THEN a[k] ELSE b[k - Len(a)]
      BY <1>2, <1>4, ConcatProperties
    <2>2. Len(a) = i - 1 /\ Len(a) + Len(b) = i
      BY <1>1, <1>2, <1>4
    <2> QED BY <2>1, <2>2
  <1> DEFINE d == a \o b
  <1> HIDE DEF d
  <1>7. /\ d \o c \in Seq(S) /\ Len(d \o c) = n + 1
        /\ \A k \in 1..(n + 1) : (d \o c)[k] = IF k <= i THEN d[k] ELSE c[k - i]
    <2>1. d \in Seq(S) /\ Len(d) = i
      BY <1>6 DEF d
    <2>2. /\ d \o c \in Seq(S) /\ Len(d \o c) = Len(d) + Len(c)
          /\ \A k \in 1..(Len(d) + Len(c)) :
                 (d \o c)[k] = IF k <= Len(d) THEN d[k] ELSE c[k - Len(d)]
      BY <1>3, <2>1, ConcatProperties
    <2>3. Len(d) = i /\ Len(d) + Len(c) = n + 1
      BY <1>1, <1>3, <2>1
    <2> QED BY <2>2, <2>3
  <1>8. ASSUME NEW k \in 1..(n + 1)
        PROVE  (d \o c)[k] = IF k < i THEN s[k] ELSE IF k = i THEN e ELSE s[k - 1]
    <2>1. CASE k < i
      <3>1. k \in 1..(i - 1) /\ k \in 1..i
        BY <1>1, <2>1 DEF n
      <3>2. d[k] = s[k]
        BY <1>2, <1>6, <3>1 DEF d
      <3> QED BY <1>7, <2>1, <3>2
    <2>2. CASE k = i
      <3>1. d[k] = e
        BY <1>4, <1>6, <2>2 DEF d
      <3>2. k <= i /\ ~(k < i)
        BY <1>1, <2>2
      <3> QED BY <1>7, <2>2, <3>1, <3>2
    <2>3. CASE k > i
      <3>1. k - i \in 1..(n - i + 1) /\ i + (k - i) - 1 = k - 1
        BY <1>1, <2>3 DEF n
      <3>2. c[k - i] = s[k - 1]
        BY <1>3, <3>1
      <3> QED BY <1>7, <2>3, <3>2
    <2>4. k < i \/ k = i \/ k > i
      BY <1>1
    <2> QED BY <2>1, <2>2, <2>3, <2>4
  <1> QED BY <1>5, <1>7, <1>8 DEF n, d

\* RemoveAt, position by position.
LEMMA RemoveAtPositions ==
    ASSUME NEW S, NEW s \in Seq(S), NEW i \in 1..Len(s)
    PROVE  /\ RemoveAt(s, i) \in Seq(S)
           /\ Len(RemoveAt(s, i)) = Len(s) - 1
           /\ \A k \in 1..(Len(s) - 1) :
                  RemoveAt(s, i)[k] = IF k < i THEN s[k] ELSE s[k + 1]
  <1> DEFINE n == Len(s)
             a == SubSeq(s, 1, i - 1)
             c == SubSeq(s, i + 1, n)
  <1>1. n \in Nat /\ i \in 1..n /\ \A k \in 1..n : s[k] \in S
    BY LenProperties, ElementOfSeq
  <1>2. /\ a \in Seq(S) /\ Len(a) = i - 1
        /\ \A k \in 1..(i - 1) : a[k] = s[k]
    <2>1. \A k \in 1..(i - 1) : s[k] \in S
      BY <1>1
    <2>2. /\ SubSeq(s, 1, i - 1) \in Seq(S)
          /\ Len(SubSeq(s, 1, i - 1)) = IF 1 <= i - 1 THEN (i - 1) - 1 + 1 ELSE 0
          /\ \A k \in 1..((i - 1) - 1 + 1) : SubSeq(s, 1, i - 1)[k] = s[1 + k - 1]
      BY <2>1, SubSeqProperties
    <2> QED BY <2>2
  <1>3. /\ c \in Seq(S) /\ Len(c) = n - i
        /\ \A k \in 1..(n - i) : c[k] = s[i + k]
    <2>1. \A k \in (i + 1)..n : s[k] \in S
      BY <1>1
    <2>2. /\ SubSeq(s, i + 1, n) \in Seq(S)
          /\ Len(SubSeq(s, i + 1, n)) = IF i + 1 <= n THEN n - (i + 1) + 1 ELSE 0
          /\ \A k \in 1..(n - (i + 1) + 1) : SubSeq(s, i + 1, n)[k] = s[(i + 1) + k - 1]
      BY <1>1, <2>1, SubSeqProperties
    <2> QED BY <1>1, <2>2
  <1>4. RemoveAt(s, i) = a \o c
    BY DEF RemoveAt
  <1> HIDE DEF n, a, c
  <1>5. /\ a \o c \in Seq(S) /\ Len(a \o c) = n - 1
        /\ \A k \in 1..(n - 1) : (a \o c)[k] = IF k <= i - 1 THEN a[k] ELSE c[k - (i - 1)]
    <2>1. /\ a \o c \in Seq(S) /\ Len(a \o c) = Len(a) + Len(c)
          /\ \A k \in 1..(Len(a) + Len(c)) :
                 (a \o c)[k] = IF k <= Len(a) THEN a[k] ELSE c[k - Len(a)]
      BY <1>2, <1>3, ConcatProperties
    <2>2. Len(a) = i - 1 /\ Len(a) + Len(c) = n - 1
      BY <1>1, <1>2, <1>3
    <2> QED BY <2>1, <2>2
  <1>6. ASSUME NEW k \in 1..(n - 1)
        PROVE  (a \o c)[k] = IF k < i THEN s[k] ELSE s[k + 1]
    <2>1. CASE k < i
      <3>1. k \in 1..(i - 1)
        BY <1>1, <2>1 DEF n
      <3> QED BY <1>2, <1>5, <2>1, <3>1
    <2>2. CASE k >= i
      <3>1. k - (i - 1) \in 1..(n - i) /\ i + (k - (i - 1)) = k + 1
        BY <1>1, <2>2 DEF n
      <3>2. c[k - (i - 1)] = s[k + 1]
        BY <1>3, <3>1
      <3>3. ~(k <= i - 1) /\ ~(k < i)
        BY <1>1, <2>2
      <3>4. (a \o c)[k] = c[k - (i - 1)]
        BY <1>5, <3>3, Zenon
      <3> QED BY <3>2, <3>3, <3>4, Zenon
    <2>3. k < i \/ k >= i
      BY <1>1
    <2> QED BY <2>1, <2>2, <2>3
  <1> QED BY <1>4, <1>5, <1>6 DEF n

\* Before is a strict order of the devices, in which no two are at the same
\* place.
LEMMA BeforeOrders ==
    ASSUME NEW d \in Devices, NEW e \in Devices
    PROVE  /\ Before(d, e) => d # e
           /\ d # e => Before(d, e) \/ Before(e, d)
           /\ \A f \in Devices : Before(d, e) /\ Before(e, f) => Before(d, f)
  <1>1. \A f \in Devices : f.len \in Nat /\ f.ord \in Nat
    BY CommandAssumption
  <1>2. Before(d, e) => d # e
    BY <1>1 DEF Before
  <1>3. d # e => Before(d, e) \/ Before(e, d)
    BY CommandAssumption
  <1>4. \A f \in Devices : Before(d, e) /\ Before(e, f) => Before(d, f)
    BY <1>1 DEF Before
  <1> QED BY <1>2, <1>3, <1>4

LEMMA SortedFacts ==
    ASSUME NEW l, SortedList(l)
    PROVE  /\ Len(l) \in Nat /\ DOMAIN l = 1..Len(l)
           /\ \A i \in 1..Len(l) : l[i] \in Devices
           /\ ToSet(l) \subseteq Devices
           /\ \A d : d \in ToSet(l) <=> \E i \in 1..Len(l) : l[i] = d
           /\ \A i, j \in 1..Len(l) : i # j => l[i] # l[j]
  <1>1. Len(l) \in Nat /\ DOMAIN l = 1..Len(l) /\ \A i \in 1..Len(l) : l[i] \in Devices
    BY LenProperties, ElementOfSeq DEF SortedList
  <1>2. \A d : d \in ToSet(l) <=> \E i \in 1..Len(l) : l[i] = d
    BY <1>1 DEF ToSet
  <1>3. ASSUME NEW i \in 1..Len(l), NEW j \in 1..Len(l), i # j
        PROVE  l[i] # l[j]
    <2>1. Before(l[i], l[j]) \/ Before(l[j], l[i])
      BY <1>1, <1>3 DEF SortedList
    <2> QED BY <1>1, <2>1, BeforeOrders
  <1> QED BY <1>1, <1>2, <1>3

\* The interface that is added goes to its place in the order.
LEMMA InsertedIsSorted ==
    ASSUME NEW l, SortedList(l), NEW d \in Devices, d \notin ToSet(l)
    PROVE  SortedList(Inserted(l, d)) /\ ToSet(Inserted(l, d)) = ToSet(l) \cup {d}
  <1> DEFINE n == Len(l)
             after == {i \in DOMAIN l : Before(d, l[i])}
             place == IF after = {} THEN n + 1
                      ELSE CHOOSE i \in after : \A j \in after : i <= j
             new == InsertAt(l, place, d)
  <1>1. /\ n \in Nat /\ DOMAIN l = 1..n
        /\ \A i \in 1..n : l[i] \in Devices /\ l[i] # d
    BY SortedFacts
  <1>2. \A i, j \in 1..n : i < j => Before(l[i], l[j])
    BY DEF SortedList
  <1>3. Inserted(l, d) = new
    BY DEF Inserted
  <1> HIDE DEF n, new
  <1>4. /\ place \in 1..(n + 1)
        /\ \A i \in 1..n : i < place => i \notin after
        /\ place \in after \/ place = n + 1
    <2>1. CASE after = {}
      BY <1>1, <2>1
    <2>2. CASE after # {}
      <3>1. after \subseteq 1..n /\ after \in SUBSET Nat
        BY <1>1
      <3> HIDE DEF after
      <3>2. \E i \in after : \A j \in after : i <= j
        BY <2>2, <3>1, LeastExists
      <3>3. place \in after /\ \A j \in after : place <= j
        BY <2>2, <3>2
      <3> HIDE DEF place
      <3>4. \A i \in 1..n : i < place => i \notin after
        BY <1>1, <3>1, <3>3
      <3> QED BY <1>1, <3>1, <3>3, <3>4
    <2> QED BY <2>1, <2>2
  <1>5. \A i \in 1..n : i < place => Before(l[i], d)
    BY <1>1, <1>4, BeforeOrders
  <1>6. \A i \in 1..n : i >= place => Before(d, l[i])
    <2> SUFFICES ASSUME NEW i \in 1..n, i >= place
                 PROVE  Before(d, l[i])
      OBVIOUS
    <2>1. place \in after
      BY <1>1, <1>4
    <2>2. place \in 1..n /\ Before(d, l[place])
      BY <1>1, <2>1
    <2> HIDE DEF place
    <2>3. CASE i = place
      BY <2>2, <2>3
    <2>4. CASE i > place
      <3>1. Before(l[place], l[i])
        BY <1>2, <2>2, <2>4
      <3> QED BY <1>1, <2>2, <3>1, BeforeOrders
    <2> QED BY <1>1, <2>2, <2>3, <2>4
  <1> HIDE DEF place, after
  <1>7. /\ new \in Seq(Devices) /\ Len(new) = n + 1
        /\ \A k \in 1..(n + 1) :
               new[k] = IF k < place THEN l[k] ELSE IF k = place THEN d ELSE l[k - 1]
    <2>1. l \in Seq(Devices) /\ place \in 1..(Len(l) + 1)
      BY <1>4 DEF SortedList, n
    <2> QED BY <2>1, InsertAtPositions DEF new, n
  <1>8. ASSUME NEW i \in 1..(n + 1), NEW j \in 1..(n + 1), i < j
        PROVE  Before(new[i], new[j])
    <2>1. CASE j < place
      <3>1. i \in 1..n /\ j \in 1..n /\ i < place /\ new[i] = l[i] /\ new[j] = l[j]
        BY <1>1, <1>4, <1>7, <1>8, <2>1
      <3> QED BY <1>2, <1>8, <3>1
    <2>2. CASE j = place
      <3>1. i \in 1..n /\ i < place /\ new[i] = l[i] /\ new[j] = d
        BY <1>1, <1>4, <1>7, <1>8, <2>2
      <3> QED BY <1>5, <3>1
    <2>3. CASE j > place
      <3>1. j - 1 \in 1..n /\ j - 1 >= place /\ new[j] = l[j - 1]
        BY <1>1, <1>4, <1>7, <2>3
      <3>2. CASE i < place
        <4>1. i \in 1..n /\ new[i] = l[i] /\ i < j - 1
          BY <1>1, <1>4, <1>7, <3>1, <3>2
        <4> QED BY <1>2, <3>1, <4>1
      <3>3. CASE i = place
        <4>1. new[i] = d
          BY <1>4, <1>7, <3>3
        <4> QED BY <1>6, <3>1, <4>1
      <3>4. CASE i > place
        <4>1. i - 1 \in 1..n /\ new[i] = l[i - 1] /\ i - 1 < j - 1
          BY <1>1, <1>4, <1>7, <1>8, <3>4
        <4> QED BY <1>2, <3>1, <4>1
      <3>5. i < place \/ i = place \/ i > place
        BY <1>1, <1>4
      <3> QED BY <3>2, <3>3, <3>4, <3>5
    <2>4. j < place \/ j = place \/ j > place
      BY <1>1, <1>4
    <2> QED BY <2>1, <2>2, <2>3, <2>4
  <1>9. SortedList(new)
    BY <1>7, <1>8 DEF SortedList
  <1>10. ASSUME NEW e
         PROVE  e \in ToSet(new) <=> e \in ToSet(l) \/ e = d
    <2>1. e \in ToSet(new) <=> \E k \in 1..(n + 1) : new[k] = e
      BY <1>7, <1>9, SortedFacts
    <2>2. e \in ToSet(l) <=> \E k \in 1..n : l[k] = e
      BY SortedFacts DEF n
    <2>3. new[place] = d
      BY <1>4, <1>7
    <2>4. ASSUME NEW k \in 1..n, l[k] = e
          PROVE  \E m \in 1..(n + 1) : new[m] = e
      <3>1. CASE k < place
        <4>1. k \in 1..(n + 1) /\ new[k] = e
          BY <1>1, <1>4, <1>7, <2>4, <3>1
        <4> QED BY <4>1
      <3>2. CASE k >= place
        <4>1. k + 1 \in 1..(n + 1) /\ (k + 1) - 1 = k
          BY <1>1
        <4>2. ~(k + 1 < place) /\ k + 1 # place
          BY <1>1, <1>4, <3>2
        <4>3. new[k + 1] = e
          BY <1>7, <2>4, <4>1, <4>2
        <4> QED BY <4>1, <4>3
      <3>3. k < place \/ k >= place
        BY <1>1, <1>4
      <3> QED BY <3>1, <3>2, <3>3
    <2>5. ASSUME NEW k \in 1..(n + 1), new[k] = e, e # d
          PROVE  \E m \in 1..n : l[m] = e
      <3>1. CASE k < place
        <4>1. k \in 1..n /\ l[k] = e
          BY <1>1, <1>4, <1>7, <2>5, <3>1
        <4> QED BY <4>1
      <3>2. CASE k > place
        <4>1. k - 1 \in 1..n /\ l[k - 1] = e
          BY <1>1, <1>4, <1>7, <2>5, <3>2
        <4> QED BY <4>1
      <3>3. k # place
        BY <2>3, <2>5
      <3>4. k < place \/ k > place
        BY <1>1, <1>4, <3>3
      <3> QED BY <3>1, <3>2, <3>4
    <2> QED BY <1>4, <2>1, <2>2, <2>3, <2>4, <2>5
  <1> QED BY <1>3, <1>9, <1>10

\* The interface that is taken out leaves the others where they are.
LEMMA RemovedIsSorted ==
    ASSUME NEW l, SortedList(l), NEW i \in 1..Len(l)
    PROVE  /\ SortedList(RemoveAt(l, i))
           /\ Len(RemoveAt(l, i)) = Len(l) - 1
           /\ \A k \in 1..(i - 1) : RemoveAt(l, i)[k] = l[k]
           /\ ToSet(RemoveAt(l, i)) = ToSet(l) \ {l[i]}
  <1> DEFINE n == Len(l)
             new == RemoveAt(l, i)
  <1>1. /\ n \in Nat /\ i \in 1..n
        /\ \A k \in 1..n : l[k] \in Devices
        /\ \A k, m \in 1..n : k # m => l[k] # l[m]
        /\ \A k, m \in 1..n : k < m => Before(l[k], l[m])
    BY SortedFacts DEF SortedList
  <1>2. /\ new \in Seq(Devices) /\ Len(new) = n - 1
        /\ \A k \in 1..(n - 1) : new[k] = IF k < i THEN l[k] ELSE l[k + 1]
    BY RemoveAtPositions DEF SortedList
  <1> HIDE DEF n, new
  <1>3. ASSUME NEW k \in 1..(n - 1), NEW m \in 1..(n - 1), k < m
        PROVE  Before(new[k], new[m])
    <2>1. \A a \in 1..(n - 1) :
              \/ a < i /\ new[a] = l[a]
              \/ a >= i /\ new[a] = l[a + 1]
      BY <1>1, <1>2
    <2>2. k \in 1..n /\ k + 1 \in 1..n /\ m \in 1..n /\ m + 1 \in 1..n
      BY <1>1
    <2>3. CASE m < i
      <3>1. k < i /\ new[k] = l[k] /\ new[m] = l[m]
        BY <1>1, <1>3, <2>1, <2>3
      <3> QED BY <1>1, <1>3, <2>2, <3>1
    <2>4. CASE m >= i
      <3>1. new[m] = l[m + 1]
        BY <1>1, <2>1, <2>4
      <3>2. CASE k < i
        <4>1. new[k] = l[k] /\ k < m + 1
          BY <1>1, <1>3, <2>1, <3>2
        <4> QED BY <1>1, <2>2, <3>1, <4>1
      <3>3. CASE k >= i
        <4>1. ~(k < i) /\ k + 1 < m + 1
          BY <1>1, <1>3, <3>3
        <4>2. new[k] = l[k + 1]
          BY <2>1, <4>1, Zenon
        <4> QED BY <1>1, <2>2, <3>1, <4>1, <4>2, Zenon
      <3>4. k < i \/ k >= i
        BY <1>1
      <3> QED BY <3>2, <3>3, <3>4
    <2>5. m < i \/ m >= i
      BY <1>1
    <2> QED BY <2>3, <2>4, <2>5
  <1>4. SortedList(new)
    BY <1>2, <1>3 DEF SortedList
  <1>5. \A k \in 1..(i - 1) : new[k] = l[k]
    BY <1>1, <1>2
  <1>6. ASSUME NEW e
        PROVE  e \in ToSet(new) <=> e \in ToSet(l) /\ e # l[i]
    <2>1. e \in ToSet(new) <=> \E k \in 1..(n - 1) : new[k] = e
      BY <1>2, <1>4, SortedFacts
    <2>2. e \in ToSet(l) <=> \E k \in 1..n : l[k] = e
      BY SortedFacts DEF n
    <2>3. ASSUME NEW k \in 1..n, l[k] = e, e # l[i]
          PROVE  \E m \in 1..(n - 1) : new[m] = e
      <3>1. CASE k < i
        <4>1. k \in 1..(n - 1) /\ new[k] = e
          BY <1>1, <1>2, <2>3, <3>1
        <4> QED BY <4>1
      <3>2. CASE k > i
        <4>1. k - 1 \in 1..(n - 1) /\ ~(k - 1 < i) /\ (k - 1) + 1 = k
          BY <1>1, <3>2
        <4>2. new[k - 1] = e
          BY <1>2, <2>3, <4>1
        <4> QED BY <4>1, <4>2
      <3>3. k < i \/ k > i
        BY <1>1, <2>3
      <3> QED BY <3>1, <3>2, <3>3
    <2>4. ASSUME NEW k \in 1..(n - 1), new[k] = e
          PROVE  e # l[i] /\ \E m \in 1..n : l[m] = e
      <3>1. CASE k < i
        <4>1. k \in 1..n /\ k # i /\ l[k] = e
          BY <1>1, <1>2, <2>4, <3>1
        <4> QED BY <1>1, <4>1
      <3>2. CASE k >= i
        <4>1. k + 1 \in 1..n /\ k + 1 # i /\ l[k + 1] = e
          BY <1>1, <1>2, <2>4, <3>2
        <4> QED BY <1>1, <4>1
      <3>3. k < i \/ k >= i
        BY <1>1
      <3> QED BY <3>1, <3>2, <3>3
    <2> QED BY <2>1, <2>2, <2>3, <2>4
  <1> QED BY <1>2, <1>4, <1>5, <1>6 DEF n, new

\* One step of hpav_get_interfaces' recursion.
NextAfter(found, f, n) ==
    IF n = 0 THEN <<>>
    ELSE IF Skipped(found[n]) THEN f[n - 1]
    ELSE Inserted(f[n - 1], found[n])

\* The recursive function of hpav_get_interfaces exists, and it is one.
LEMMA ListFunction ==
    ASSUME NEW found, Len(found) \in Nat
    PROVE  \E f : /\ hpav_get_interfaces(found) = f[Len(found)]
                  /\ \A n \in 0..Len(found) : f[n] = NextAfter(found, f, n)
  <1> DEFINE N == Len(found)
             Is(f, m) == f = [n \in 0..m |->
                                  IF n = 0 THEN <<>>
                                  ELSE IF Skipped(found[n]) THEN f[n - 1]
                                  ELSE Inserted(f[n - 1], found[n])]
             S == {m \in 0..N : \E f : Is(f, m)}
             F == CHOOSE f : Is(f, N)
  <1>1. hpav_get_interfaces(found) = F[N]
    BY DEF hpav_get_interfaces
  <1>2. 0 \in S
    <2>1. [n \in 0..0 |-> <<>>] =
              [n \in 0..0 |->
                  IF n = 0 THEN <<>>
                  ELSE IF Skipped(found[n]) THEN [k \in 0..0 |-> <<>>][n - 1]
                  ELSE Inserted([k \in 0..0 |-> <<>>][n - 1], found[n])]
      OBVIOUS
    <2>2. \E f : Is(f, 0)
      BY <2>1
    <2> QED BY <2>2
  <1>3. ASSUME NEW m \in 0..(N - 1), m \in S
        PROVE  m + 1 \in S
    <2>1. PICK f : Is(f, m)
      BY <1>3
    <2> DEFINE g == [n \in 0..(m + 1) |-> IF n <= m THEN f[n] ELSE NextAfter(found, f, n)]
               h == [n \in 0..(m + 1) |-> NextAfter(found, g, n)]
    <2>2. \A n \in 0..m : f[n] = NextAfter(found, f, n)
      BY <2>1 DEF NextAfter
    <2>3. ASSUME NEW n \in 0..(m + 1)
          PROVE  g[n] = h[n]
      <3>1. n # 0 => n - 1 \in 0..m /\ n - 1 \in 0..(m + 1)
        OBVIOUS
      <3>2. n # 0 => g[n - 1] = f[n - 1]
        BY <3>1
      <3>3. g[n] = NextAfter(found, f, n)
        BY <2>2
      <3>4. NextAfter(found, g, n) = NextAfter(found, f, n)
        <4> HIDE DEF g
        <4> QED BY <3>2 DEF NextAfter
      <3> QED BY <3>3, <3>4
    <2>4. g = h
      BY <2>3
    <2>5. Is(g, m + 1)
      <3> HIDE DEF g
      <3> QED BY <2>4 DEF NextAfter
    <2>6. m + 1 \in 0..N
      OBVIOUS
    <2> HIDE DEF Is, g
    <2> QED BY <2>5, <2>6
  <1>4. N \in S
    <2> HIDE DEF S
    <2>1. 0..N \subseteq S
      BY <1>2, <1>3, SetInduction
    <2> QED BY <2>1
  <1>5. Is(F, N)
    <2>1. \E f : Is(f, N)
      BY <1>4
    <2> HIDE DEF Is
    <2> QED BY <2>1
  <1> HIDE DEF F
  <1>6. \A n \in 0..N : F[n] = NextAfter(found, F, n)
    BY <1>5 DEF NextAfter
  <1> QED BY <1>1, <1>6

\* In whatever order libpcap gives the devices, the list has those that are
\* not left out, in its own order.
LEMMA ListIsSorted ==
    ASSUME NEW S \in SUBSET Devices, NEW found \in SetToSeqs(S)
    PROVE  /\ SortedList(hpav_get_interfaces(found))
           /\ ToSet(hpav_get_interfaces(found)) = {d \in S : ~Skipped(d)}
  <1> DEFINE N == Len(found)
  <1>1. IsFiniteSet(S) /\ Cardinality(S) \in Nat
    BY CommandAssumption, FS_Subset, FS_CardinalityType
  <1>2. /\ found \in [1..Cardinality(S) -> S]
        /\ \A i, j \in 1..Cardinality(S) : i # j => found[i] # found[j]
    BY DEF SetToSeqs
  <1>3. N = Cardinality(S)
    BY <1>1, <1>2
  <1>4. /\ N \in Nat /\ found \in [1..N -> S]
        /\ \A i, j \in 1..N : i # j => found[i] # found[j]
    BY <1>1, <1>2, <1>3
  <1>5. \A d \in S : \E i \in 1..N : found[i] = d
    <2>1. found \in Injection(1..N, S)
      BY <1>4 DEF Injection, IsInjective
    <2>2. Cardinality(1..N) = Cardinality(S)
      BY <1>1, <1>3, FS_Interval
    <2>3. found \in Surjection(1..N, S)
      BY <1>1, <2>1, <2>2, FS_Injection
    <2> QED BY <2>3 DEF Surjection
  <1>6. PICK f : /\ hpav_get_interfaces(found) = f[N]
                 /\ \A n \in 0..N : f[n] = NextAfter(found, f, n)
    BY <1>4, ListFunction
  <1> HIDE DEF N
  <1> DEFINE Done(n) == {found[k] : k \in {i \in 1..n : ~Skipped(found[i])}}
             Good == {n \in 0..N : SortedList(f[n]) /\ ToSet(f[n]) = Done(n)}
  <1>7. 0 \in Good
    <2>1. f[0] = <<>> /\ 0 \in 0..N
      BY <1>4, <1>6 DEF NextAfter
    <2>2. SortedList(<<>>) /\ ToSet(<<>>) = {}
      BY EmptySeq DEF SortedList, ToSet
    <2>3. Done(0) = {}
      OBVIOUS
    <2> QED BY <2>1, <2>2, <2>3
  <1>8. ASSUME NEW m \in 0..(N - 1), m \in Good
        PROVE  m + 1 \in Good
    <2>1. /\ m + 1 \in 0..N /\ m + 1 \in 1..N /\ m + 1 # 0 /\ (m + 1) - 1 = m
          /\ \A k : k \in 1..(m + 1) <=> k \in 1..m \/ k = m + 1
      BY <1>4
    <2> DEFINE d == found[m + 1]
    <2>2. d \in S /\ d \in Devices
      BY <1>4, <2>1
    <2>3. f[m + 1] = IF Skipped(d) THEN f[m] ELSE Inserted(f[m], d)
      BY <1>6, <2>1 DEF NextAfter
    <2>4. Done(m + 1) = IF Skipped(d) THEN Done(m) ELSE Done(m) \cup {d}
      BY <2>1
    <2>5. d \notin Done(m)
      BY <1>4, <2>1
    <2>6. SortedList(f[m]) /\ ToSet(f[m]) = Done(m)
      BY <1>8
    <2> HIDE DEF d, Done
    <2>7. CASE Skipped(d)
      BY <2>1, <2>3, <2>4, <2>6, <2>7
    <2>8. CASE ~Skipped(d)
      <3>1. /\ SortedList(Inserted(f[m], d))
            /\ ToSet(Inserted(f[m], d)) = ToSet(f[m]) \cup {d}
        BY <2>2, <2>5, <2>6, InsertedIsSorted
      <3> QED BY <2>1, <2>3, <2>4, <2>6, <2>8, <3>1
    <2> QED BY <2>7, <2>8
  <1>9. N \in Good
    <2> HIDE DEF Good
    <2>1. 0..N \subseteq Good
      BY <1>4, <1>7, <1>8, SetInduction
    <2> QED BY <1>4, <2>1
  <1>10. Done(N) = {d \in S : ~Skipped(d)}
    BY <1>4, <1>5
  <1> QED BY <1>6, <1>9, <1>10

\* The list is left as it is, or freed.
LEMMA ListKept ==
    ASSUME ListInv, at' = at, list' \in {list, <<>>}, pc' # "macs"
    PROVE  ListInv'
  <1>1. SortedList(<<>>) /\ Len(<<>>) = 0
    BY EmptySeq DEF SortedList
  <1>2. CASE list' = list
    BY <1>2 DEF ListInv, SortedList
  <1>3. CASE list' = <<>>
    <2>1. SortedList(list')
      BY <1>1, <1>3
    <2>2. \A i \in 1..Len(list') : ~Skipped(list'[i])
      BY <1>1, <1>3
    <2> QED BY <1>3, <2>1, <2>2 DEF ListInv, SortedList
  <1> QED BY <1>2, <1>3

LEMMA ListInit == Init => ListInv
  <1> SUFFICES ASSUME Init PROVE ListInv
    OBVIOUS
  <1>1. SortedList(<<>>) /\ Len(<<>>) = 0
    BY EmptySeq DEF SortedList
  <1>2. list = <<>> /\ pc = "main"
    BY DEF Init
  <1> QED BY <1>1, <1>2 DEF ListInv

LEMMA FindAllDevsLists ==
    ASSUME TypeInv, FindAllDevs
    PROVE  ListInv'
  <1>1. PICK found \in SetToSeqs(devs) : list' = hpav_get_interfaces(found)
    BY DEF FindAllDevs
  <1>2. at' = 1 /\ pc' = "macs" /\ devs' = devs /\ moves' = moves
    BY DEF FindAllDevs, Go, system
  <1>3. SortedList(list') /\ ToSet(list') = {d \in devs : ~Skipped(d)}
    BY <1>1, ListIsSorted DEF TypeInv
  <1> DEFINE new == list'
  <1>4. /\ Len(new) \in Nat
        /\ \A i \in 1..Len(new) : new[i] \in ToSet(new)
    BY <1>3, SortedFacts
  <1>5. \A i \in 1..Len(new) : ~Skipped(new[i])
    BY <1>3, <1>4
  <1>6. Usable' \subseteq ToSet(new) /\ ToSet(new) \subseteq devs'
    BY <1>2, <1>3 DEF Usable
  <1> HIDE DEF new
  <1>7. at' \in 1..(Len(new) + 1)
    BY <1>2, <1>4
  <1>8. SortedList(list)' /\ Len(list)' = Len(new) /\ ToSet(list)' = ToSet(new)
    BY <1>3 DEF new, SortedList
  <1> QED BY <1>2, <1>5, <1>6, <1>7, <1>8 DEF ListInv, new

LEMMA PopulateMacLists ==
    ASSUME TypeInv, ListInv, PopulateMac
    PROVE  ListInv'
  <1> DEFINE new == list'
             n == Len(list)
  <1>1. /\ pc = "macs" /\ pc' = "macs" /\ devs' = devs /\ moves' = moves
        /\ at <= n
        /\ IF list[at] \in devs /\ list[at].mac
           THEN at' = at + 1 /\ list' = list
           ELSE at' = at /\ list' = RemoveAt(list, at)
    BY DEF PopulateMac, system
  <1>2. /\ SortedList(list)
        /\ n \in Nat
        /\ \A i \in 1..n : ~Skipped(list[i])
        /\ at \in 1..n
        /\ \A i \in 1..(at - 1) : list[i].mac
        /\ moves = 0 => Usable \subseteq ToSet(list) /\ ToSet(list) \subseteq devs
    BY <1>1, SortedFacts DEF ListInv
  <1>3. Usable' = Usable
    BY <1>1 DEF Usable
  <1>4. CASE list[at] \in devs /\ list[at].mac
    <2>1. at' = at + 1 /\ list' = list
      BY <1>1, <1>4
    <2>2. at' \in 1..(n + 1)
      BY <1>2, <2>1
    <2>3. \A i \in 1..(at' - 1) : list[i].mac
      <3>1. \A i \in 1..at : i \in 1..(at - 1) \/ i = at
        BY <1>2
      <3> QED BY <1>2, <1>4, <2>1, <3>1
    <2> QED BY <1>1, <1>2, <1>3, <2>1, <2>2, <2>3 DEF ListInv, SortedList
  <1>5. CASE ~(list[at] \in devs /\ list[at].mac)
    <2>1. at' = at /\ new = RemoveAt(list, at)
      BY <1>1, <1>5
    <2>2. /\ SortedList(new) /\ Len(new) = n - 1
          /\ \A k \in 1..(at - 1) : new[k] = list[k]
          /\ ToSet(new) = ToSet(list) \ {list[at]}
      BY <1>2, <2>1, RemovedIsSorted
    <2> HIDE DEF new
    <2>3. at' \in 1..(Len(new) + 1)
      BY <1>2, <2>1, <2>2
    <2>4. \A i \in 1..(at' - 1) : new[i].mac
      BY <1>2, <2>1, <2>2
    <2>5. \A i \in 1..Len(new) : ~Skipped(new[i])
      <3>1. \A d \in ToSet(list) : ~Skipped(d)
        BY <1>2, SortedFacts
      <3>2. \A i \in 1..Len(new) : new[i] \in ToSet(new)
        BY <2>2, SortedFacts
      <3> QED BY <2>2, <3>1, <3>2
    <2>6. moves = 0 => Usable \subseteq ToSet(new) /\ ToSet(new) \subseteq devs
      <3>1. list[at] \notin Usable
        BY <1>5 DEF Usable
      <3> QED BY <1>2, <2>2, <3>1
    <2>7. /\ SortedList(list)' /\ Len(list)' = Len(new) /\ ToSet(list)' = ToSet(new)
          /\ moves' = 0 => Usable' \subseteq ToSet(new) /\ ToSet(new) \subseteq devs'
      BY <1>1, <1>3, <2>2, <2>6 DEF new, SortedList
    <2> QED BY <2>3, <2>4, <2>5, <2>7 DEF ListInv, new
  <1> QED BY <1>4, <1>5

LEMMA ListStep == TypeInv /\ ListInv /\ [Next]_vars => ListInv'
  <1> SUFFICES ASSUME TypeInv, ListInv, [Next]_vars PROVE ListInv'
    OBVIOUS
  <1> USE DEF system, listing, resources
  <1>1. CASE FindAllDevs
    BY <1>1, FindAllDevsLists
  <1>2. CASE PopulateMac
    BY <1>2, PopulateMacLists
  <1>3. CASE Plug
    <2>1. UNCHANGED <<list, at, pc>> /\ moves' # 0
      BY <1>3 DEF Plug, TypeInv
    <2> QED BY <2>1 DEF ListInv, SortedList
  <1>4. CASE UNCHANGED vars
    <2>1. UNCHANGED <<list, at, pc, devs, moves>>
      BY <1>4 DEF vars
    <2> QED BY <2>1 DEF ListInv, SortedList, Usable
  <1>5. CASE ListInterfaces \/ NotFound \/ OpenLive \/ OpenFails
    BY <1>5, ListKept DEF ListInterfaces, NotFound, OpenLive, OpenFails, Exit, Go
  <1>6. CASE \/ Refuse \/ RunOffline \/ Dispatch \/ FindAllDevsFails \/ BeginLoop \/ NoInterface
             \/ Close \/ UseUnset \/ NextInterface \/ SecondImage \/ Finish
    BY <1>6, ListKept DEF Refuse, RunOffline, Dispatch, FindAllDevsFails, BeginLoop, NoInterface,
                          Close, UseUnset, NextInterface, SecondImage, Finish, Execute, Exit, Go
  <1>7. CASE \/ OpenOnly \/ UsageError \/ CheckArgs \/ ReadArg \/ RefuseMac \/ ReadMissing
             \/ EndArgs \/ RefuseInput \/ WordsFail \/ WordsDo \/ ParseNoWords
             \/ ReadStaList \/ StaListOverruns
             \/ StaFileFails \/ Answered \/ OutputFails \/ Silent \/ CallFails
    <2>1. UNCHANGED <<list, at>> /\ pc' # "macs"
      BY <1>7 DEF OpenOnly, UsageError, CheckArgs, Reads, ReadArg, RefuseMac, ReadMissing,
                  EndArgs, RefuseInput, WordsFail, WordsDo, ParseNoWords,
             ReadStaList, StaListOverruns, StaFileFails, Answered, OutputFails, Silent, CallFails, HandlerReturns, Go
    <2> QED BY <2>1, ListKept
  <1> QED BY <1>1, <1>2, <1>3, <1>4, <1>5, <1>6, <1>7 DEF Next, Run, Ended

LEMMA UnsetStep == TypeInv /\ ListInv /\ UnsetInv /\ [Next]_vars => UnsetInv'
  <1> SUFFICES ASSUME TypeInv, ListInv, UnsetInv, [Next]_vars PROVE UnsetInv'
    OBVIOUS
  <1> USE DEF system, listing, resources
  <1>1. CASE NoInterface
    <2>1. list = <<>> /\ pc = "macs" /\ UNCHANGED <<devs, moves>>
      BY <1>1 DEF NoInterface
    <2>2. moves = 0 => Usable = {}
      BY <2>1 DEF ListInv, ToSet
    <2> QED BY <2>1, <2>2 DEF UnsetInv, Usable
  <1>2. CASE OpenLive
    <2>1. chan' \in devs
      BY <1>2 DEF OpenLive
    <2>2. chan' # NoDevice
      BY <2>1, CommandAssumption DEF TypeInv
    <2> QED BY <2>2 DEF UnsetInv
  <1>3. CASE \/ OpenOnly \/ UsageError \/ CheckArgs \/ ReadArg \/ RefuseMac \/ ReadMissing
             \/ EndArgs \/ RefuseInput \/ WordsFail \/ WordsDo \/ ParseNoWords
             \/ ReadStaList \/ StaListOverruns
             \/ StaFileFails \/ Answered \/ OutputFails \/ Silent \/ CallFails \/ UNCHANGED vars
    <2>1. /\ UNCHANGED <<devs, moves, chan>>
          /\ InHandler \/ pc' = pc
      BY <1>3 DEF OpenOnly, UsageError, CheckArgs, Reads, ReadArg, RefuseMac, ReadMissing,
                  EndArgs, RefuseInput, WordsFail, WordsDo, ParseNoWords,
             ReadStaList, StaListOverruns, StaFileFails, Answered, OutputFails, Silent, CallFails, HandlerReturns, Go,
                  InHandler, vars
    <2>2. Usable' = Usable
      BY <2>1 DEF Usable
    <2> QED BY <2>1, <2>2 DEF UnsetInv, InHandler
  <1>4. CASE \/ Refuse \/ RunOffline \/ Dispatch \/ FindAllDevsFails \/ FindAllDevs \/ PopulateMac
             \/ ListInterfaces \/ BeginLoop \/ NotFound \/ OpenFails
             \/ Close \/ UseUnset \/ NextInterface \/ SecondImage \/ Finish \/ Plug
    <2>1. pc' \in {"list", "macs", "next", "exit", "undefined"}
      BY <1>4 DEF Refuse, RunOffline, Dispatch, FindAllDevsFails, FindAllDevs, PopulateMac,
                  ListInterfaces, BeginLoop, NotFound, OpenFails,
                  Close, UseUnset, NextInterface, SecondImage, Finish, Plug, Execute, Exit, Go
    <2> QED BY <2>1 DEF UnsetInv, InHandler
  <1> QED BY <1>1, <1>2, <1>3, <1>4 DEF Next, Run, Ended

LEMMA ArgumentsCounted ==
    ASSUME TypeInv
    PROVE  argc \in Int
  <1>1. cmd.nargs \in Nat
    BY CommandAssumption DEF TypeInv
  <1> QED BY <1>1 DEF argc

\* The only handlers that read an argument that is not there are those of
\* mtk_vs_get_tonemask_req, given one, and of cm_amp_map_req, given two.
LEMMA MissingIsCounted ==
    ASSUME FlowInvs, Reads, Missing
    PROVE  /\ cmd.fct = "test_mme" /\ cmd.handler \in DOMAIN TooFew
           /\ argc = TooFew[cmd.handler]
  <1>1. HasHandler /\ argc \in HandlerOf.counts /\ read < Len(HandlerOf.reads)
    BY InHandlerFacts DEF InHandler, Reads
  <1>2. argc \in Int /\ read \in Nat
    BY ArgumentsCounted DEF FlowInvs, TypeInv
  <1>3. HandlerOf.reads \in Seq(Nat) /\ FactsOf(HandlerOf)
    BY <1>1, HandlerFacts DEF FactsOf, ReadsSome
  <1>4. Len(HandlerOf.reads) \in Nat
    BY <1>3, LenProperties
  <1> DEFINE n == Len(HandlerOf.reads)
             next == read + 1
  <1>5. next \in 1..n
    <2>1. n \in Nat /\ read < n
      BY <1>1, <1>4
    <2> HIDE DEF n
    <2> QED BY <1>2, <2>1
  <1>6. /\ ToRead = HandlerOf.reads[next]
        /\ ToRead >= argc /\ ToRead \notin HandlerOf.optional
    BY DEF Missing, ToRead
  <1>7. ToRead \in Nat
    BY <1>3, <1>5, <1>6, ElementOfSeq
  <1> HIDE DEF n, next
  <1>8. ~ReadsItsArguments(HandlerOf)
    <2>1. ReadsItsArguments(HandlerOf) => ToRead \in HandlerOf.optional \/ ToRead < argc
      BY <1>1, <1>5, <1>6 DEF ReadsItsArguments, n
    <2> QED BY <1>2, <1>6, <1>7, <2>1
  <1>9. CASE /\ cmd.fct = "test_mme" /\ cmd.handler = "mtk_vs_get_tonemask_req"
             /\ HandlerOf = mtk_vs_get_tonemask_req
    <2>1. /\ HandlerOf.reads = <<0, 1>> /\ HandlerOf.counts = AtLeast(1)
          /\ HandlerOf.optional = {0}
      BY <1>9 DEF mtk_vs_get_tonemask_req, Handler
    <2>2. argc >= 1
      BY <1>1, <2>1, AtLeastFacts
    <2>3. next \in {1, 2}
      <3>1. n = 2
        BY <2>1 DEF n
      <3> QED BY <1>5, <3>1
    <2>4. ToRead = 1
      BY <1>6, <2>1, <2>3
    <2>5. argc = 1
      BY <1>2, <1>6, <2>2, <2>4
    <2> QED BY <1>9, <2>5 DEF TooFew
  <1>10. CASE /\ cmd.fct = "test_mme" /\ cmd.handler = "cm_amp_map_req"
              /\ HandlerOf = cm_amp_map_req
    <2>1. HandlerOf.reads = UpTo(2) /\ HandlerOf.counts = AtLeast(2)
      BY <1>10 DEF cm_amp_map_req, Handler
    <2>2. argc >= 2
      BY <1>1, <2>1, AtLeastFacts
    <2>3. n = 3 /\ \A i \in 1..3 : UpTo(2)[i] = i - 1
      <3>1. 2 \in Nat /\ 2 + 1 = 3
        OBVIOUS
      <3>2. Len(UpTo(2)) = 2 + 1 /\ \A i \in 1..(2 + 1) : UpTo(2)[i] = i - 1
        BY <3>1, UpToFacts
      <3> QED BY <2>1, <3>1, <3>2 DEF n
    <2>4. next \in 1..3
      BY <1>5, <2>3
    <2>5. ToRead = next - 1
      BY <1>6, <2>1, <2>3, <2>4
    <2>6. argc = 2
      BY <1>2, <1>6, <2>2, <2>4, <2>5
    <2> QED BY <1>10, <2>6 DEF TooFew
  <1> QED BY <1>3, <1>8, <1>9, <1>10 DEF FactsOf

\* Only a file transfer looks for words; without any it looks at the command
\* it did not find.
LEMMA NoWordsIsTransfer ==
    ASSUME FlowInvs, pc = "words", argc = 1
    PROVE  cmd.fct = "test_mme" /\ cmd.handler = "mtk_vs_file_access_req"
  <1>1. HasHandler /\ HandlerOf.makes = "transfer"
    BY InHandlerFacts DEF InHandler, FlowInvs, FlowInv
  <1>2. \/ cmd.fct = "fw_upgrade"
        \/ cmd.fct = "test_mme" /\ cmd.handler = "mtk_vs_file_access_req"
    BY <1>1, HandlerFacts DEF FactsOf
  <1>3. cmd.fct = "fw_upgrade" => argc \in {4, 5}
    BY DEF argc
  <1> QED BY <1>2, <1>3

LEMMA UndefinedStep == FlowInvs /\ UnsetInv /\ UndefinedExactly /\ [Next]_vars => UndefinedExactly'
  <1> SUFFICES ASSUME FlowInvs, UnsetInv, UndefinedExactly, [Next]_vars
               PROVE  UndefinedExactly'
    OBVIOUS
  <1> USE DEF system, listing, resources
  <1>41. TypeInv
    BY DEF FlowInvs
  \* The program is lost, and the call is logged with the reason.
  <1>42. ASSUME NEW outcome \in Outcomes, Logged(outcome)
        PROVE  Last(log').outcome = outcome
    <2>1. Last(log') = [device |-> chan, outcome |-> outcome]
      BY <1>41, <1>42, LogAppended
    <2> QED BY <2>1
  <1>43. {"stack", "unset", "argument", "sta.txt", "mac_list"} \subseteq Outcomes
    BY DEF Outcomes
  <1>44. cmd' = cmd
    BY DEF Next, Run, Refuse, RunOffline, Dispatch, FindAllDevs, FindAllDevsFails,
           PopulateMac, ListInterfaces, BeginLoop, NoInterface, NotFound, OpenLive, OpenFails,
           Close, UseUnset, OpenOnly, UsageError, CheckArgs, ReadArg, RefuseMac, ReadMissing,
           EndArgs, RefuseInput, WordsFail, WordsDo, ParseNoWords,
           ReadStaList, StaListOverruns, StaFileFails, Answered,
           OutputFails, Silent, CallFails, NextInterface, SecondImage, Finish, Plug, Ended, vars
  <1>1. CASE FindAllDevsFails
    <2>1. pc' = "undefined" => Logged("stack")
      BY <1>1 DEF FindAllDevsFails, Go, Exit
    <2> QED BY <1>42, <1>43, <1>44, <2>1 DEF UndefinedExactly
  <1>2. CASE OpenFails
    <2>1. pc' = "undefined" => Logged("stack")
      BY <1>2 DEF OpenFails, Go
    <2> QED BY <1>42, <1>43, <1>44, <2>1 DEF UndefinedExactly
  <1>3. CASE UseUnset
    <2>1. /\ pc \in {"call", "close"} /\ chan = NoDevice
          /\ IF pc = "call" THEN Logged("unset")
             ELSE log' = [log EXCEPT ![Len(log)].outcome = "unset"]
          /\ UNCHANGED <<devs, moves>>
      BY <1>3 DEF UseUnset
    <2>2. Last(log').outcome = "unset"
      <3>1. CASE pc = "call"
        BY <1>42, <1>43, <2>1, <3>1
      <3>2. CASE pc = "close"
        <4>1. Len(log) > 0
          BY <3>2 DEF FlowInvs, FlowInv, Running, InHandler, TypeInv
        <4> QED BY <1>41, <1>43, <2>1, <3>2, <4>1, LogRewritten
      <3> QED BY <2>1, <3>1, <3>2
    <2>3. moves' = 0 => Usable' = {}
      BY <2>1 DEF UnsetInv, InHandler, Usable
    <2> QED BY <1>44, <2>2, <2>3 DEF UndefinedExactly
  <1>4. CASE ReadMissing
    <2>1. Reads /\ Missing /\ Logged("argument") /\ run' = run
      BY <1>4 DEF ReadMissing
    <2>2. /\ cmd.fct = "test_mme" /\ cmd.handler \in DOMAIN TooFew
          /\ argc = TooFew[cmd.handler]
      BY <2>1, MissingIsCounted
    <2>3. argc' = argc /\ TooFew' = TooFew
      BY <1>44, <2>1, SameCommand DEF TooFew
    <2> QED BY <1>42, <1>43, <1>44, <2>1, <2>2, <2>3 DEF UndefinedExactly
  <1>5. CASE ParseNoWords
    <2>1. pc = "words" /\ argc = 1 /\ Logged("argument") /\ run' = run
      BY <1>5 DEF ParseNoWords, NoWords
    <2>2. /\ cmd.fct = "test_mme" /\ cmd.handler \in DOMAIN TooFew
          /\ argc = TooFew[cmd.handler]
      BY <2>1, NoWordsIsTransfer DEF TooFew
    <2>3. argc' = argc /\ TooFew' = TooFew
      BY <1>44, <2>1, SameCommand DEF TooFew
    <2> QED BY <1>42, <1>43, <1>44, <2>1, <2>2, <2>3 DEF UndefinedExactly
  <1>6. CASE StaFileFails
    <2>1. Words \in {"all", "scan-sta"} /\ Logged("sta.txt")
      BY <1>6 DEF StaFileFails
    <2>2. Words' = Words
      BY <1>44, SameCommand
    <2> QED BY <1>42, <1>43, <2>1, <2>2 DEF UndefinedExactly
  <1>9. CASE StaListOverruns
    <2>1. /\ Words = "all" /\ Logged("mac_list")
          /\ \E lines \in StaLines : lines > StaListSize
      BY <1>9 DEF StaListOverruns
    <2>2. Words' = Words
      BY <1>44, SameCommand
    <2> QED BY <1>42, <1>43, <2>1, <2>2 DEF UndefinedExactly
  <1>7. CASE UNCHANGED vars
    <2>1. UNCHANGED <<pc, cmd, log, moves, devs, run>>
      BY <1>7 DEF vars
    <2>2. Usable' = Usable /\ argc' = argc /\ Words' = Words /\ TooFew' = TooFew
      BY <2>1, SameCommand DEF Usable, TooFew
    <2> QED BY <1>44, <2>1, <2>2 DEF UndefinedExactly
  <1>8. CASE \/ Refuse \/ RunOffline \/ Dispatch \/ FindAllDevs \/ PopulateMac
             \/ ListInterfaces \/ BeginLoop \/ NoInterface \/ NotFound \/ OpenLive
             \/ OpenOnly \/ UsageError \/ CheckArgs \/ ReadArg \/ RefuseMac
             \/ EndArgs \/ RefuseInput \/ WordsFail \/ WordsDo \/ ReadStaList
             \/ Answered \/ OutputFails \/ Silent \/ CallFails
             \/ Close \/ NextInterface \/ SecondImage \/ Finish \/ Plug
    <2>1. pc' # "undefined"
      BY <1>8 DEF Refuse, RunOffline, Dispatch, FindAllDevs, PopulateMac,
             ListInterfaces, BeginLoop, NoInterface, NotFound, OpenLive,
             OpenOnly, UsageError, CheckArgs, ReadArg, RefuseMac,
             Reads, EndArgs, RefuseInput, WordsFail, WordsDo, ReadStaList,
             Answered, OutputFails, Silent, CallFails,
             Close, NextInterface, SecondImage, Finish, Plug,
             Go, Exit, Execute, HandlerReturns
    <2> QED BY <1>44, <2>1 DEF UndefinedExactly
  <1> QED BY <1>1, <1>2, <1>3, <1>4, <1>5, <1>6, <1>7, <1>8, <1>9 DEF Next, Run, Ended

\* A sorted list has no device twice, so it is no longer than there are devices.
LEMMA SortedLength ==
    ASSUME NEW l, SortedList(l)
    PROVE  Len(l) <= Cardinality(Devices)
  <1> DEFINE n == Len(l)
  <1>1. /\ n \in Nat /\ l \in [1..n -> Devices]
        /\ \A i, j \in 1..n : i # j => l[i] # l[j]
    BY SortedFacts, LenProperties DEF SortedList
  <1> HIDE DEF n
  <1>2. l \in Injection(1..n, Devices)
    BY <1>1 DEF Injection, IsInjective
  <1>3. Cardinality(1..n) <= Cardinality(Devices)
    BY <1>2, CommandAssumption, FS_Injection
  <1>4. Cardinality(1..n) = n
    BY <1>1, FS_Interval
  <1> QED BY <1>3, <1>4 DEF n

\* The interface that is opened for a name is the one of that name.
LEMMA SelectedByName ==
    ASSUME TypeInv, SortedList(list), NEW d \in Devices, Loops, loop[run] = d,
           d.number = NotANumber
    PROVE  Selected \in {d, NoDevice}
  <1> DEFINE named == {i \in DOMAIN list : list[i].name = d.name}
             first == CHOOSE i \in named : \A j \in named : i <= j
  <1>1. Selected = IF named = {} THEN NoDevice ELSE list[first]
    BY DEF Selected, InterfaceArgument, hpav_get_interface_by_index_or_name,
           hpav_get_interface_by_name
  <1>2. /\ Len(list) \in Nat /\ DOMAIN list = 1..Len(list)
        /\ \A i \in 1..Len(list) : list[i] \in Devices
    BY SortedFacts
  <1>3. named \in SUBSET Nat /\ \A i \in named : list[i] \in Devices /\ list[i].name = d.name
    BY <1>2
  <1>4. \A e \in Devices : e.name = d.name => e = d
    BY CommandAssumption
  <1> HIDE DEF named
  <1>5. CASE named # {}
    <2>1. \E i \in named : \A j \in named : i <= j
      BY <1>3, <1>5, LeastExists
    <2>2. first \in named
      BY <2>1
    <2> HIDE DEF first
    <2>3. list[first] = d
      BY <1>3, <1>4, <2>2
    <2> QED BY <1>1, <1>5, <2>3
  <1> QED BY <1>1, <1>5

\* A step that changes nothing find_local_sta's loop looks at, or ends it.
LEMMA LoopStays ==
    ASSUME LoopInv, UNCHANGED <<cmd, loop, run>>,
           \/ pc' \in {"exit", "undefined"}
           \/ pc \notin {"exit", "undefined"} /\ UNCHANGED <<result, log, chan>>
    PROVE  LoopInv'
  <1>1. Loops' = Loops /\ SortedList(loop') = SortedList(loop)
    BY SameCommand DEF SortedList
  <1> QED BY <1>1 DEF LoopInv

\* A call is over and logged.
LEMMA LoopLogged ==
    ASSUME TypeInv, FlowInv, LoopInv, Running, pc' \in Pcs,
           UNCHANGED <<cmd, loop, run, result, chan>>,
           NEW outcome \in Outcomes, Logged(outcome)
    PROVE  LoopInv'
  <1>1. Loops' = Loops /\ SortedList(loop') = SortedList(loop)
    BY SameCommand DEF SortedList
  <1>2. /\ Len(log') = run /\ Len(log) = run - 1 /\ run \in Nat /\ run > 0
        /\ log'[run] = [device |-> chan, outcome |-> outcome]
        /\ \A i \in 1..(run - 1) : log'[i] = log[i]
    <2>1. /\ Len(log') = Len(log) + 1 /\ Len(log) \in Nat
          /\ log'[Len(log) + 1] = [device |-> chan, outcome |-> outcome]
          /\ \A i \in 1..Len(log) : log'[i] = log[i]
      BY LogAppended
    <2>2. Len(log) = run - 1 /\ run \in Nat /\ run > 0
      BY DEF FlowInv, TypeInv, Running
    <2> QED BY <2>1, <2>2
  <1> SUFFICES ASSUME Loops, pc' \notin {"exit", "undefined"}
               PROVE  /\ run <= Len(loop)
                      /\ \A i \in 1..Len(log') :
                             loop[i].number = NotANumber => log'[i].device \in {loop[i], NoDevice}
                      /\ loop[run].number = NotANumber => chan \in {loop[run], NoDevice}
                      /\ result = EXIT_SUCCESS <=>
                             \A i \in 1..(run - 1) : log'[i].outcome = "answered"
    BY <1>1 DEF LoopInv
  <1>3. /\ run <= Len(loop)
        /\ \A i \in 1..(run - 1) :
               loop[i].number = NotANumber => log[i].device \in {loop[i], NoDevice}
        /\ loop[run].number = NotANumber => chan \in {loop[run], NoDevice}
        /\ result = EXIT_SUCCESS <=> \A i \in 1..(run - 1) : log[i].outcome = "answered"
    <2>1. pc \notin {"exit", "undefined"}
      BY DEF Running, InHandler
    <2> QED BY <1>2, <2>1 DEF LoopInv
  <1>4. ASSUME NEW i \in 1..Len(log'), loop[i].number = NotANumber
        PROVE  log'[i].device \in {loop[i], NoDevice}
    <2>1. i \in 1..(run - 1) \/ i = run
      BY <1>2
    <2>2. log'[run].device = chan
      BY <1>2
    <2> QED BY <1>2, <1>3, <1>4, <2>1, <2>2
  <1>5. result = EXIT_SUCCESS <=> \A i \in 1..(run - 1) : log'[i].outcome = "answered"
    BY <1>2, <1>3
  <1> QED BY <1>3, <1>4, <1>5

\* find_local_sta begins with its own list, which is not empty.
LEMMA LoopBegins ==
    ASSUME FlowInvs, ListInv, LoopInv, BeginLoop, list # <<>>
    PROVE  LoopInv'
  <1>1. /\ run = 0 /\ run' = 1 /\ chan' = NoDevice /\ loop' = list
        /\ UNCHANGED <<cmd, result, log>> /\ pc = "macs"
    BY DEF BeginLoop, Execute, FlowInvs, TypeInv
  <1>2. Loops /\ Loops'
    BY <1>1, SameCommand DEF BeginLoop
  <1>3. SortedList(list)
    BY DEF ListInv
  <1>4. Len(list) \in Nat /\ Len(list) # 0 /\ Len(list) <= Cardinality(Devices)
    BY <1>3, SortedFacts, SortedLength, EmptySeq DEF SortedList
  <1>5. Cardinality(Devices) \in Nat
    BY CommandAssumption, FS_CardinalityType
  <1>6. log = <<>> /\ Len(log) = 0
    BY <1>1, EmptySeq DEF FlowInvs, FlowInv, TypeInv, LogType, Running
  <1>7. result = EXIT_SUCCESS
    BY <1>1, <1>2 DEF LoopInv
  <1>8. SortedList(loop)' /\ Len(loop)' = Len(list) /\ Len(log)' = 0
    BY <1>1, <1>3, <1>6 DEF SortedList
  <1>9. run' <= Cardinality(Devices) /\ run' <= Len(list)
    BY <1>1, <1>4, <1>5
  <1>10. /\ \A i \in 1..Len(log)' :
               loop'[i].number = NotANumber => log'[i].device \in {loop'[i], NoDevice}
         /\ \A i \in 1..(run' - 1) : log'[i].outcome = "answered"
    BY <1>1, <1>8
  <1> QED BY <1>1, <1>7, <1>8, <1>9, <1>10 DEF LoopInv

\* And goes on to the next interface, remembering an error.
LEMMA LoopGoesOn ==
    ASSUME FlowInvs, LoopInv, NextInterface
    PROVE  LoopInv'
  <1>1. pc = "next" /\ Loops /\ UNCHANGED <<cmd, log>>
    BY DEF NextInterface
  <1>2. Loops'
    BY <1>1, SameCommand
  <1>3. Len(log) = run /\ run \in Nat /\ run > 0
    BY <1>1 DEF FlowInvs, FlowInv, TypeInv, Running, InHandler
  <1>4. Cardinality(Devices) \in Nat /\ Len(loop) \in Nat /\ Len(loop) <= Cardinality(Devices)
    BY CommandAssumption, FS_CardinalityType, SortedFacts, SortedLength DEF LoopInv
  <1>5. CASE run < Len(loop)
    <2>1. run' = run + 1 /\ chan' = NoDevice /\ pc' = "list" /\ loop' = loop
      BY <1>5 DEF NextInterface, Execute, Go
    <2>2. run' <= Cardinality(Devices) /\ run' <= Len(loop)
      BY <1>3, <1>4, <1>5, <2>1
    <2>3. result' = EXIT_SUCCESS <=> \A i \in 1..(run' - 1) : log[i].outcome = "answered"
      <3>1. rv = EXIT_SUCCESS <=> Last(log).outcome = "answered"
        <4>1. rv = EXIT_SUCCESS <=> Last(log).outcome \in {"open", "answered", "nobody"}
          BY <1>1 DEF FlowInvs, ReturnInv
        <4>2. Last(log).outcome # "open" /\ Last(log).outcome # "nobody"
          BY <1>1 DEF FlowInvs, ReturnInv, Loops
        <4> QED BY <4>1, <4>2
      <3>2. Last(log) = log[run]
        BY <1>3 DEF Last
      <3>3. result = EXIT_SUCCESS <=> \A i \in 1..(run - 1) : log[i].outcome = "answered"
        BY <1>1 DEF LoopInv
      <3>4. \A i : i \in 1..(run' - 1) <=> i \in 1..(run - 1) \/ i = run
        BY <1>3, <2>1
      <3>5. result' = EXIT_SUCCESS <=> rv = EXIT_SUCCESS /\ result = EXIT_SUCCESS
        BY DEF NextInterface, EXIT_SUCCESS, EXIT_FAILURE
      <3> QED BY <3>1, <3>2, <3>3, <3>4, <3>5
    <2>4. SortedList(loop)' /\ Len(loop)' = Len(loop) /\ Len(log)' = Len(log)
      BY <1>1, <2>1 DEF SortedList, LoopInv
    <2>5. \A i \in 1..Len(log) :
              loop[i].number = NotANumber => log[i].device \in {loop[i], NoDevice}
      BY <1>1 DEF LoopInv
    <2>6. /\ \A i \in 1..Len(log)' :
                 loop'[i].number = NotANumber => log'[i].device \in {loop'[i], NoDevice}
          /\ result' = EXIT_SUCCESS <=> \A i \in 1..(run' - 1) : log'[i].outcome = "answered"
      BY <1>1, <2>1, <2>3, <2>4, <2>5
    <2> QED BY <2>1, <2>2, <2>4, <2>6 DEF LoopInv
  <1>6. CASE ~(run < Len(loop))
    <2>1. run' = run /\ loop' = <<>> /\ pc' = "exit"
      BY <1>6 DEF NextInterface, Exit, Go
    <2>2. SortedList(loop)'
      BY <2>1, EmptySeq DEF SortedList
    <2>3. run <= Cardinality(Devices)
      BY <1>1 DEF LoopInv
    <2> QED BY <2>1, <2>2, <2>3 DEF LoopInv
  <1> QED BY <1>5, <1>6

LEMMA LoopStep == FlowInvs /\ FlowInvs' /\ ListInv /\ LoopInv /\ [Next]_vars => LoopInv'
  <1> SUFFICES ASSUME FlowInvs, FlowInvs', ListInv, LoopInv, [Next]_vars PROVE LoopInv'
    OBVIOUS
  <1> USE DEF system, listing, resources
  <1>41. TypeInv /\ FlowInv /\ pc' \in Pcs
    BY DEF FlowInvs, TypeInv
  <1>42. {"usage", "input", "pcap", "nonblock", "stack", "open", "nobody", "answered",
         "output", "silent", "failed"} \subseteq Outcomes
    BY DEF Outcomes
  \* A handler's last step.
  <1>43. ASSUME InHandler, NEW value, NEW outcome \in Outcomes, HandlerReturns(value, outcome),
               UNCHANGED <<cmd, loop, run, result, chan>>
        PROVE  LoopInv'
    <2>1. Running /\ Logged(outcome)
      BY <1>41, <1>43 DEF HandlerReturns, Running, FlowInv
    <2> QED BY <1>41, <1>43, <2>1, LoopLogged
  <1>1. CASE Dispatch
    <2>1. pc = "main" /\ UNCHANGED <<cmd, loop, result, log>>
      BY <1>1 DEF Dispatch
    <2>2. CASE cmd.fct = "list_if" \/ Loops
      BY <1>1, <2>1, <2>2, LoopStays DEF Dispatch
    <2>3. CASE ~(cmd.fct = "list_if" \/ Loops)
      <3>1. ~Loops' /\ SortedList(loop)'
        BY <2>1, <2>3, SameCommand DEF LoopInv, SortedList
      <3> QED BY <3>1 DEF LoopInv
    <2> QED BY <2>2, <2>3
  <1>2. CASE \/ FindAllDevs \/ PopulateMac \/ NoInterface \/ Close
             \/ CheckArgs \/ ReadArg \/ EndArgs \/ WordsDo \/ Plug
    <2>1. /\ UNCHANGED <<cmd, loop, run, result, log, chan>>
          /\ pc \notin {"exit", "undefined"}
      BY <1>2 DEF FindAllDevs, PopulateMac, NoInterface, Close,
                  CheckArgs, ReadArg, Reads, EndArgs, WordsDo, Plug
    <2> QED BY <2>1, LoopStays
  <1>3. CASE \/ Refuse \/ RunOffline \/ ListInterfaces \/ UseUnset \/ ReadMissing
             \/ ParseNoWords \/ StaListOverruns \/ StaFileFails \/ Finish
    <2>1. UNCHANGED <<cmd, loop, run>> /\ pc' \in {"exit", "undefined"}
      BY <1>3 DEF Refuse, RunOffline, ListInterfaces, UseUnset, ReadMissing,
                  ParseNoWords, StaListOverruns, StaFileFails, Finish, Exit, Go
    <2> QED BY <2>1, LoopStays
  <1>4. CASE FindAllDevsFails
    <2>1. UNCHANGED <<cmd, loop, run, result, chan>> /\ pc = "list"
      BY <1>4 DEF FindAllDevsFails
    <2>2. CASE run > 0 /\ Logged("pcap")
      <3>1. Running
        BY <2>1, <2>2 DEF Running
      <3> QED BY <1>41, <1>42, <2>1, <2>2, <3>1, LoopLogged
    <2>3. CASE pc' \in {"exit", "undefined"}
      BY <2>1, <2>3, LoopStays
    <2> QED BY <1>4, <2>2, <2>3 DEF FindAllDevsFails, Exit, Go
  <1>5. CASE BeginLoop
    <2>1. CASE list = <<>>
      BY <1>5, <2>1, LoopStays DEF BeginLoop, Exit, Go
    <2>2. CASE list # <<>>
      BY <1>5, <2>2, LoopBegins
    <2> QED BY <2>1, <2>2
  <1>6. CASE NotFound
    <2>1. UNCHANGED <<cmd, loop, run, result, chan>> /\ Logged("usage") /\ Running
      BY <1>6 DEF NotFound, Running
    <2> QED BY <1>41, <1>42, <2>1, LoopLogged
  <1>7. CASE OpenLive
    <2>1. /\ UNCHANGED <<cmd, loop, run, result, log>> /\ chan' = Selected
          /\ pc = "macs" /\ run > 0
      BY <1>7 DEF OpenLive
    <2>2. Loops' = Loops /\ SortedList(loop') = SortedList(loop)
      BY <2>1, SameCommand DEF SortedList
    <2>3. ASSUME Loops, loop[run].number = NotANumber
          PROVE  chan' \in {loop[run], NoDevice}
      <3>1. run \in 1..Len(loop) /\ loop[run] \in Devices
        BY <1>41, <2>1, <2>3, SortedFacts DEF LoopInv, TypeInv
      <3>2. SortedList(list)
        BY DEF ListInv
      <3> QED BY <1>41, <2>1, <2>3, <3>1, <3>2, SelectedByName
    <2> QED BY <2>1, <2>2, <2>3 DEF LoopInv
  <1>8. CASE OpenFails
    <2>1. UNCHANGED <<cmd, loop, run, result, chan>> /\ Running
      BY <1>8 DEF OpenFails, Running
    <2>2. \E outcome \in {"nonblock", "pcap", "stack"} : Logged(outcome)
      BY <1>8 DEF OpenFails
    <2> QED BY <1>41, <1>42, <2>1, <2>2, LoopLogged
  <1>9. CASE OpenOnly
    BY <1>9, <1>42, <1>43 DEF OpenOnly, InHandler
  <1>10. CASE UsageError
    BY <1>10, <1>42, <1>43 DEF UsageError, InHandler
  <1>11. CASE RefuseMac
    BY <1>11, <1>42, <1>43 DEF RefuseMac, Reads, InHandler
  <1>12. CASE RefuseInput
    BY <1>12, <1>42, <1>43 DEF RefuseInput, Reads, InHandler
  <1>13. CASE WordsFail
    BY <1>13, <1>42, <1>43 DEF WordsFail, InHandler
  <1>21. CASE ReadStaList
    <2>1. pc = "words" /\ UNCHANGED <<cmd, loop, run, result, chan>>
      BY <1>21 DEF ReadStaList
    <2>2. CASE Go("call") /\ UNCHANGED <<rv, log>>
      BY <2>1, <2>2, LoopStays
    <2>3. CASE HandlerReturns(EXIT_SUCCESS, "nobody")
      BY <1>42, <1>43, <2>1, <2>3 DEF InHandler
    <2>4. CASE HandlerReturns(EXIT_USAGE, "usage")
      BY <1>42, <1>43, <2>1, <2>4 DEF InHandler
    <2> QED BY <1>21, <2>2, <2>3, <2>4 DEF ReadStaList
  <1>14. CASE Answered
    BY <1>14, <1>42, <1>43 DEF Answered, InHandler
  <1>15. CASE OutputFails
    BY <1>15, <1>42, <1>43 DEF OutputFails, InHandler
  <1>16. CASE Silent
    BY <1>16, <1>42, <1>43 DEF Silent, InHandler
  <1>17. CASE CallFails
    BY <1>17, <1>42, <1>43 DEF CallFails, InHandler
  <1>18. CASE NextInterface
    BY <1>18, LoopGoesOn
  <1>19. CASE SecondImage
    <2>1. cmd.fct = "fw_upgrade" /\ UNCHANGED <<cmd, loop>>
      BY <1>19 DEF SecondImage, GoesOn
    <2>2. ~Loops' /\ SortedList(loop)'
      BY <2>1, SameCommand DEF LoopInv, SortedList, Loops
    <2> QED BY <2>2 DEF LoopInv
  <1>20. CASE UNCHANGED vars
    <2>1. UNCHANGED <<cmd, pc, loop, run, chan, result, log>>
      BY <1>20 DEF vars
    <2>2. Loops' = Loops /\ SortedList(loop') = SortedList(loop)
      BY <2>1, SameCommand DEF SortedList
    <2> QED BY <2>1, <2>2 DEF LoopInv
  <1> QED BY <1>1, <1>2, <1>3, <1>4, <1>5, <1>6, <1>7, <1>8, <1>9, <1>10, <1>11, <1>12,
             <1>13, <1>14, <1>15, <1>16, <1>17, <1>18, <1>19, <1>20, <1>21 DEF Next, Run, Ended

\* While the program is not lost, what is open is bounded by what was called.
LEMMA LeftBounded ==
    ASSUME FlowInvs, OpenInv, pc # "undefined"
    PROVE  handles \in 0..(run + 1)
  <1>1. CountOf(log, "nonblock") \in 0..Len(log)
    BY CountBounded DEF FlowInvs
  <1>2. Len(log) <= run /\ run \in Nat /\ Len(log) \in Nat
    BY LenProperties DEF FlowInvs, FlowInv, TypeInv, LogType
  <1>3. handles \in {CountOf(log, "nonblock"), CountOf(log, "nonblock") + 1}
    <2>1. handles = CountOf(log, "nonblock") + 0 \/ handles = CountOf(log, "nonblock") + 1
      BY DEF OpenInv
    <2> QED BY <1>1, <1>2, <2>1
  <1> QED BY <1>1, <1>2, <1>3

LEMMA LeftStep == FlowInvs /\ OpenInv /\ LeftInv /\ [Next]_vars => LeftInv'
  <1> SUFFICES ASSUME FlowInvs, OpenInv, LeftInv, [Next]_vars
               PROVE  LeftInv'
    OBVIOUS
  <1> USE DEF system, listing, resources
  <1>1. pc' = "undefined" => handles' \in 0..(run' + 1)
    <2> SUFFICES ASSUME pc' = "undefined" PROVE handles' \in 0..(run' + 1)
      OBVIOUS
    <2>1. handles \in 0..(run + 1)
      BY LeftBounded DEF LeftInv
    <2>2. CASE OpenFails
      <3>1. ~Open /\ pc = "macs" /\ run' = run /\ handles' \in {handles, handles + 1} /\ run > 0
        BY <2>2 DEF OpenFails, Open, InHandler
      <3>2. handles = CountOf(log, "nonblock") + 0
        BY <3>1 DEF OpenInv
      <3>3. CountOf(log, "nonblock") \in 0..Len(log)
        BY CountBounded DEF FlowInvs
      <3>4. Len(log) = run - 1 /\ run \in Nat /\ Len(log) \in Nat
        BY <3>1, LenProperties DEF FlowInvs, FlowInv, TypeInv, LogType, Running
      <3> QED BY <3>1, <3>2, <3>3, <3>4
    <2>3. CASE ~OpenFails
      <3>1. handles' = handles /\ run' = run
        BY <2>3 DEF Next, Run, Refuse, RunOffline, Dispatch, FindAllDevs, FindAllDevsFails,
             PopulateMac, ListInterfaces, BeginLoop, NoInterface, NotFound, OpenLive, Close,
             UseUnset, OpenOnly, UsageError, CheckArgs, ReadArg, RefuseMac, ReadMissing,
             EndArgs, RefuseInput, WordsFail, WordsDo, ParseNoWords,
             ReadStaList, StaListOverruns, StaFileFails, Answered,
             OutputFails, Silent, CallFails, NextInterface, SecondImage, Finish, Plug, Ended,
             vars, Go, Exit, Execute, HandlerReturns
      <3> QED BY <2>1, <3>1
    <2> QED BY <2>2, <2>3
  <1>2. responses' \in 0..1
    <2>1. CASE OutputFails
      <3>1. pc = "call" /\ HandlerOf.makes = "save" /\ responses' = responses + 1
        BY <2>1 DEF OutputFails
      <3>2. HasHandler /\ Running
        BY <3>1, InHandlerFacts DEF InHandler
      <3>3. cmd.fct = "nvram read"
        BY <3>1, <3>2, HandlerFacts DEF FactsOf
      <3>4. run <= 1 /\ run > 0 /\ run \in Nat
        BY <3>2, <3>3 DEF FlowInvs, FlowInv, TypeInv, Running, Loops
      <3>5. Len(log) = 0
        BY <3>2, <3>4 DEF FlowInvs, FlowInv
      <3>6. CountOf(log, "output") \in 0..0
        BY <3>5, CountBounded DEF FlowInvs
      <3>7. responses = 0
        BY <3>1, <3>6 DEF OpenInv
      <3> QED BY <3>1, <3>7
    <2>2. CASE ~OutputFails
      <3>1. responses' = responses
        BY <2>2 DEF Next, Run, Refuse, RunOffline, Dispatch, FindAllDevs, FindAllDevsFails,
             PopulateMac, ListInterfaces, BeginLoop, NoInterface, NotFound, OpenLive, OpenFails,
             Close, UseUnset, OpenOnly, UsageError, CheckArgs, ReadArg, RefuseMac, ReadMissing,
             EndArgs, RefuseInput, WordsFail, WordsDo, ParseNoWords,
             ReadStaList, StaListOverruns, StaFileFails, Answered,
             Silent, CallFails, NextInterface, SecondImage, Finish, Plug, Ended, vars
      <3> QED BY <3>1 DEF LeftInv
    <2> QED BY <2>1, <2>2
  <1> QED BY <1>1, <1>2 DEF LeftInv

-----------------------------------------------------------------------------
(* The whole invariant, and what it says.                                  *)

Inv == FlowInvs /\ OpenInv /\ ListInv /\ UnsetInv /\ UndefinedExactly /\ LoopInv /\ LeftInv

\* The inductive invariant of a run, for every set of devices and every
\* command line.
THEOREM Invariance == Spec => []Inv
  <1>1. Init => Inv
    <2> SUFFICES ASSUME Init PROVE Inv
      OBVIOUS
    <2>1. FlowInvs /\ OpenInv /\ ListInv
      BY FlowInit, OpenInit, ListInit
    <2>2. UnsetInv /\ UndefinedExactly
      BY DEF Init, UnsetInv, UndefinedExactly, InHandler
    <2>3. LoopInv
      <3>1. /\ loop = <<>> /\ run = 0 /\ log = <<>> /\ result = EXIT_SUCCESS
            /\ Len(<<>>) = 0
        BY EmptySeq DEF Init
      <3>2. SortedList(loop)
        BY <3>1, EmptySeq DEF SortedList
      <3>3. Cardinality(Devices) \in Nat
        BY CommandAssumption, FS_CardinalityType
      <3>4. run <= Cardinality(Devices) /\ run <= Len(loop)
        BY <3>1, <3>3
      <3> QED BY <3>1, <3>2, <3>4 DEF LoopInv
    <2>4. LeftInv
      BY DEF Init, LeftInv
    <2> QED BY <2>1, <2>2, <2>3, <2>4 DEF Inv
  <1>2. Inv /\ [Next]_vars => Inv'
    <2> SUFFICES ASSUME Inv, [Next]_vars PROVE Inv'
      OBVIOUS
    <2> USE DEF Inv
    <2>1. FlowInvs'
      BY FlowStep
    <2>2. OpenInv'
      BY OpenStep
    <2>3. ListInv' /\ UnsetInv'
      BY ListStep, UnsetStep DEF FlowInvs
    <2>4. UndefinedExactly'
      BY UndefinedStep
    <2>5. LoopInv'
      BY <2>1, LoopStep
    <2>6. LeftInv'
      BY LeftStep
    <2> QED BY <2>1, <2>2, <2>3, <2>4, <2>5, <2>6
  <1> QED BY <1>1, <1>2, PTL DEF Spec

\* The types of a run's variables, with the number of calls a command makes
\* and of what it holds (main.c).
THEOREM TypeCorrect == Spec => []TypeOK
  <1>1. Inv => TypeOK
    <2> SUFFICES ASSUME Inv PROVE TypeOK
      OBVIOUS
    <2> USE DEF Inv, FlowInvs
    <2>1. cmd.nargs \in Nat /\ cmd.bad \subseteq Nat
      BY CommandAssumption DEF TypeInv
    <2>2. /\ pc \in Pcs /\ devs \in SUBSET Devices /\ moves \in 0..MaxMoves
          /\ read \in 0..12
          /\ chan \in Devices \cup {NoDevice}
          /\ rv \in {-2, -1, EXIT_SUCCESS, EXIT_FAILURE, EXIT_USAGE, EXIT_NO_RESPONSE}
          /\ result \in {EXIT_SUCCESS, EXIT_FAILURE}
      BY DEF TypeInv, FlowInv
    <2>3. ToSet(list) \cup ToSet(loop) \subseteq Devices
      BY SortedFacts DEF ListInv, LoopInv
    <2>4. at \in 1..(Len(list) + 1) \/ list = <<>>
      BY DEF ListInv
    <2>5. run \in 0..Cardinality(Devices) \cup {1, 2}
      <3>1. Cardinality(Devices) \in Nat /\ run \in Nat
        BY CommandAssumption, FS_CardinalityType DEF TypeInv
      <3>2. CASE Loops
        BY <3>1, <3>2 DEF LoopInv
      <3>3. CASE ~Loops
        <4>1. run <= 2
          BY <3>1, <3>3 DEF FlowInv
        <4> QED BY <3>1, <4>1
      <3> QED BY <3>2, <3>3
    <2>6. handles \in 0..(run + 1) /\ responses \in 0..1
      BY LeftBounded DEF LeftInv
    <2>7. pc = "exit" => rv >= 0
      BY DEF ExitInv
    <2>8. \A i \in DOMAIN log : log[i].outcome \in Outcomes
      <3>1. log \in LogType
        BY DEF TypeInv
      <3>2. \A i \in 1..Len(log) : log[i] \in [device : Devices \cup {NoDevice}, outcome : Outcomes]
        BY <3>1, ElementOfSeq DEF LogType
      <3>3. DOMAIN log = 1..Len(log)
        BY <3>1, LenProperties DEF LogType
      <3> QED BY <3>2, <3>3
    <2>9. Len(log) <= run
      BY DEF FlowInv, TypeInv
    <2> QED BY <2>1, <2>2, <2>3, <2>4, <2>5, <2>6, <2>7, <2>8, <2>9 DEF TypeOK, Pcs
  <1> QED BY <1>1, Invariance, PTL

\* The number list_if prints for an interface is the one every later command
\* takes, in whatever order libpcap gives the devices (hpav_if.c).
THEOREM IndexStaysStable == Spec => []IndexIsStable
  <1>1. Inv => IndexIsStable
    <2> SUFFICES ASSUME ListInv, pc = "macs", at > Len(list)
                 PROVE  /\ \A i \in 1..(Len(list) - 1) : Before(list[i], list[i + 1])
                        /\ \A i \in DOMAIN list : ~Skipped(list[i]) /\ list[i].mac
                        /\ moves = 0 => ToSet(list) = Usable
      BY DEF IndexIsStable, Inv
    <2>1. /\ Len(list) \in Nat /\ DOMAIN list = 1..Len(list)
          /\ \A d : d \in ToSet(list) <=> \E i \in 1..Len(list) : list[i] = d
      BY SortedFacts DEF ListInv
    <2>2. \A i \in 1..(Len(list) - 1) : Before(list[i], list[i + 1])
      <3> SUFFICES ASSUME NEW i \in 1..(Len(list) - 1) PROVE Before(list[i], list[i + 1])
        OBVIOUS
      <3>1. i \in 1..Len(list) /\ i + 1 \in 1..Len(list) /\ i < i + 1
        BY <2>1
      <3> QED BY <3>1 DEF ListInv, SortedList
    <2>3. \A i \in 1..Len(list) : ~Skipped(list[i]) /\ list[i].mac
      BY <2>1 DEF ListInv
    <2>4. moves = 0 => ToSet(list) = Usable
      <3> SUFFICES ASSUME moves = 0 PROVE ToSet(list) = Usable
        OBVIOUS
      <3>1. Usable \subseteq ToSet(list) /\ ToSet(list) \subseteq devs
        BY DEF ListInv
      <3>2. \A d \in ToSet(list) : ~Skipped(d) /\ d.mac
        BY <2>1, <2>3
      <3> QED BY <3>1, <3>2 DEF Usable
    <2> QED BY <2>1, <2>2, <2>3, <2>4
  <1> QED BY <1>1, Invariance, PTL

\* Between its arguments and its call the program is lost only in the ways that
\* are known: of all the arguments the handlers read, in their order and for
\* every number of them, only those of mtk_vs_get_tonemask_req, cm_amp_map_req
\* and a file transfer may not be there; sta.txt may be missing or too long
\* (test_mtk.c, test_hpav.c, hpav_chan.c).
THEOREM LostInKnownWays == Spec => []UndefinedExactly
  BY Invariance, PTL DEF Inv

\* The last step of find_local_sta.
LEMMA LoopEnds ==
    ASSUME Inv, Next, pc = "next", pc' = "exit", Loops
    PROVE  /\ Len(log) = Len(loop)
           /\ \A i \in DOMAIN loop :
                 loop[i].number = NotANumber => log[i].device \in {loop[i], NoDevice}
           /\ rv' = EXIT_SUCCESS <=> \A i \in DOMAIN log : log[i].outcome = "answered"
  <1> USE DEF Inv
  <1>1. NextInterface
    BY DEF Next, Run, Refuse, RunOffline, Dispatch, FindAllDevs, FindAllDevsFails,
           PopulateMac, ListInterfaces, BeginLoop, NoInterface, NotFound, OpenLive, OpenFails,
           Close, UseUnset, OpenOnly, UsageError, CheckArgs, Reads, ReadArg, RefuseMac, ReadMissing,
           EndArgs, RefuseInput, WordsFail, WordsDo, ParseNoWords,
           ReadStaList, StaListOverruns, StaFileFails, Answered,
           OutputFails, Silent, CallFails, SecondImage, Finish, Plug, Ended, GoesOn, Loops, vars
  <1>2. ~(run < Len(loop)) /\ Exit(result')
    BY <1>1 DEF NextInterface, Execute, Go
  <1>3. /\ Len(log) = run /\ run \in Nat /\ run > 0
        /\ DOMAIN log = 1..Len(log) /\ DOMAIN loop = 1..Len(loop) /\ Len(loop) \in Nat
        /\ run <= Len(loop)
    BY LenProperties, SortedFacts
       DEF FlowInvs, FlowInv, TypeInv, LogType, Running, InHandler, LoopInv
  <1>4. Len(log) = Len(loop)
    <2> DEFINE n == Len(loop)
    <2>1. n \in Nat /\ run \in Nat /\ run <= n /\ ~(run < n)
      BY <1>2, <1>3
    <2> HIDE DEF n
    <2>2. run = n
      BY <2>1
    <2> QED BY <1>3, <2>2 DEF n
  <1>5. \A i \in DOMAIN loop :
            loop[i].number = NotANumber => log[i].device \in {loop[i], NoDevice}
    BY <1>3, <1>4 DEF LoopInv
  <1>6. rv' = EXIT_SUCCESS <=> rv = EXIT_SUCCESS /\ result = EXIT_SUCCESS
    <2>1. rv' = result'
      BY <1>1, <1>2 DEF Exit, NextInterface, FlowInvs, TypeInv, EXIT_SUCCESS, EXIT_FAILURE
    <2> QED BY <1>1, <2>1 DEF NextInterface, EXIT_SUCCESS, EXIT_FAILURE
  <1>7. rv = EXIT_SUCCESS <=> log[run].outcome = "answered"
    <2>1. Last(log).outcome # "open" /\ Last(log).outcome # "nobody"
      BY DEF FlowInvs, ReturnInv, Loops
    <2>2. Last(log) = log[run]
      BY <1>3 DEF Last
    <2>3. rv = EXIT_SUCCESS <=> Last(log).outcome \in {"open", "answered", "nobody"}
      BY DEF FlowInvs, ReturnInv
    <2> QED BY <2>1, <2>2, <2>3
  <1>8. result = EXIT_SUCCESS <=> \A i \in 1..(run - 1) : log[i].outcome = "answered"
    BY DEF LoopInv
  <1>9. \A i : i \in DOMAIN log <=> i \in 1..(run - 1) \/ i = run
    BY <1>3
  <1>10. rv' = EXIT_SUCCESS <=> \A i \in DOMAIN log : log[i].outcome = "answered"
    BY <1>6, <1>7, <1>8, <1>9
  <1> QED BY <1>4, <1>5, <1>10

\* find_local_sta tries every interface of its list once, and returns 0 only
\* if all of them answered (main.c).
THEOREM EveryInterface == Spec => EveryInterfaceIsTried
  <1>1. Inv /\ [Next]_vars =>
            [(pc = "next" /\ pc' = "exit" /\ Loops) =>
                /\ Len(log) = Len(loop)
                /\ \A i \in DOMAIN loop :
                      loop[i].number = NotANumber => log[i].device \in {loop[i], NoDevice}
                /\ rv' = EXIT_SUCCESS <=>
                      \A i \in DOMAIN log : log[i].outcome = "answered"]_vars
    BY LoopEnds
  <1> QED BY <1>1, Invariance, PTL DEF Spec, EveryInterfaceIsTried

\* What the 0 of find_local_sta says, also after its last step.
LoopAnswered ==
    pc = "exit" /\ Loops /\ rv = EXIT_SUCCESS =>
        \A i \in DOMAIN log : log[i].outcome = "answered"

LEMMA LoopAnsweredStep ==
    ASSUME Inv, LoopAnswered, [Next]_vars
    PROVE  LoopAnswered'
  <1> USE DEF system, listing, resources
  <1> SUFFICES ASSUME pc' = "exit", Loops', rv' = EXIT_SUCCESS
               PROVE  \A i \in DOMAIN log' : log'[i].outcome = "answered"
    BY DEF LoopAnswered
  <1>1. CASE UNCHANGED vars
    BY <1>1, SameCommand DEF vars, LoopAnswered
  <1>2. CASE pc = "exit" /\ Next
    <2>1. UNCHANGED vars
      BY <1>2 DEF Next, Run, Refuse, RunOffline, Dispatch, FindAllDevs, FindAllDevsFails,
           PopulateMac, ListInterfaces, BeginLoop, NoInterface, NotFound, OpenLive, OpenFails,
           Close, UseUnset, OpenOnly, UsageError, CheckArgs, ReadArg, Reads, RefuseMac,
           ReadMissing, EndArgs, RefuseInput, WordsFail, WordsDo, ParseNoWords,
           ReadStaList, StaListOverruns, StaFileFails, Answered, OutputFails, Silent, CallFails,
           NextInterface, SecondImage, Finish, Plug, Ended
    <2> QED BY <2>1, <1>1
  <1>3. CASE NextInterface
    <2>1. pc = "next" /\ Loops /\ log' = log /\ Next
      BY <1>3 DEF NextInterface, Next, Run
    <2> QED BY <2>1, LoopEnds
  <1>4. CASE pc # "exit" /\ Next /\ ~NextInterface
    <2>1. \/ Refuse \/ RunOffline \/ FindAllDevsFails \/ ListInterfaces \/ BeginLoop \/ Finish
      BY <1>4 DEF Next, Run, Dispatch, FindAllDevs,
           PopulateMac, NoInterface, NotFound, OpenLive, OpenFails,
           Close, UseUnset, OpenOnly, UsageError, CheckArgs, ReadArg, Reads, RefuseMac,
           ReadMissing, EndArgs, RefuseInput, WordsFail, WordsDo, ParseNoWords,
           ReadStaList, StaListOverruns, StaFileFails, Answered, OutputFails, Silent, CallFails,
           SecondImage, Plug, Ended, Go, Execute, HandlerReturns, vars
    <2>2. cmd' = cmd
      BY <2>1 DEF Refuse, RunOffline, FindAllDevsFails, ListInterfaces, BeginLoop, Finish
    <2>3. ~Finish
      BY <2>2, SameCommand DEF Finish
    <2>4. log' = log /\ run = 0 /\ pc \in {"main", "list", "macs"}
      <3>1. /\ pc = "main" => run = 0
            /\ run > 0 => cmd.fct # "list_if"
            /\ run \in Nat
        BY DEF Inv, FlowInvs, FlowInv, TypeInv
      <3> QED BY <2>1, <2>3, <3>1
              DEF Refuse, RunOffline, FindAllDevsFails, ListInterfaces, BeginLoop, Go
    <2>5. Len(log) = 0 /\ DOMAIN log = 1..Len(log)
      BY <2>4, LenProperties
         DEF Inv, FlowInvs, FlowInv, TypeInv, LogType, Running
    <2> QED BY <2>4, <2>5
  <1> QED BY <1>1, <1>2, <1>3, <1>4

\* Exit code 0 is believable: every call and transfer was answered, whatever
\* failed in between and whichever interfaces went away; exit code 3 is only
\* that of silence (main.c, README:28-33).
THEOREM SuccessIsEarned == Spec => []SuccessIsAnswered
  <1>1. Init => LoopAnswered
    BY DEF Init, LoopAnswered
  <1>2. Inv /\ LoopAnswered /\ [Next]_vars => LoopAnswered'
    BY LoopAnsweredStep
  <1>3. Inv /\ LoopAnswered => SuccessIsAnswered
    <2> SUFFICES ASSUME Inv, LoopAnswered, pc = "exit", log # <<>>
                 PROVE  /\ rv = EXIT_SUCCESS =>
                              \A i \in DOMAIN log :
                                 \/ log[i].outcome \in {"open", "answered"}
                                 \/ log[i].outcome = "nobody" /\ Words = "all"
                        /\ rv = EXIT_NO_RESPONSE => Last(log).outcome = "silent"
      BY DEF SuccessIsAnswered
    <2> USE DEF Inv, FlowInvs
    <2>1. CASE Loops
      BY <2>1 DEF LoopAnswered, ExitInv, EXIT_SUCCESS, EXIT_FAILURE, EXIT_NO_RESPONSE
    <2>2. CASE ~Loops
      <3>1. rv = EXIT_NO_RESPONSE => Last(log).outcome = "silent"
        BY <2>2 DEF ExitInv
      <3>2. ASSUME rv = EXIT_SUCCESS, NEW i \in DOMAIN log
            PROVE  \/ log[i].outcome \in {"open", "answered"}
                   \/ log[i].outcome = "nobody" /\ Words = "all"
        <4>1. Len(log) = run /\ run \in Nat /\ i \in 1..run
          BY <3>2, LenProperties DEF FlowInv, TypeInv, LogType, Running, InHandler
        <4>2. \/ log[run].outcome \in {"open", "answered"}
              \/ log[run].outcome = "nobody" /\ Words = "all"
          BY <2>2, <3>2, <4>1 DEF ExitInv, Last
        <4>3. CASE cmd.fct = "fw_upgrade"
          <5>1. run = 2 /\ log[1].outcome = "answered"
            BY <2>2, <3>2, <4>3 DEF ExitInv, UpgradeInv
          <5> QED BY <4>1, <4>2, <5>1
        <4>4. CASE cmd.fct # "fw_upgrade"
          <5>1. i = run
            BY <2>2, <4>1, <4>4 DEF FlowInv
          <5> QED BY <4>2, <5>1
        <4> QED BY <4>3, <4>4
      <3> QED BY <3>1, <3>2
    <2> QED BY <2>1, <2>2
  <1> QED BY <1>1, <1>2, <1>3, Invariance, PTL DEF Spec

=======
