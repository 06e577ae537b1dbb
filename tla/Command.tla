------------------------------ MODULE Command -------------------------------
(***************************************************************************)
(* One run of the program hpav_test: main and the functions it dispatches  *)
(* to (hpav_test/main.c), from the command line to the exit code, with the *)
(* steps of a handler (module Handlers) and of the list of interfaces      *)
(* (module Interfaces) in between.  The steps of libpcap and of the        *)
(* operating system can fail, and interfaces can come and go at any time.  *)
(*                                                                         *)
(* Reading a pointer that was never set, or one that is NULL, ends the run *)
(* in pc = "undefined".                                                    *)
(***************************************************************************)
EXTENDS Interfaces, Handlers, FiniteSets

CONSTANTS
    Devices,     \* the devices that can be plugged in
    Present,     \* the sets of them the program can find when it starts
    CommandLines,
    StaLines,    \* the numbers of words sta.txt can have
    MaxMoves     \* bound: devices plugged in or pulled out during the run

ASSUME CommandAssumption ==
    /\ IsFiniteSet(Devices) /\ NoDevice \notin Devices
    /\ \A d \in Devices : d.len \in Nat /\ d.ord \in Nat /\ d.mac \in BOOLEAN
    /\ \A d, e \in Devices :
           d # e => d.name # e.name /\ (Before(d, e) \/ Before(e, d))
    /\ Present \subseteq SUBSET Devices
    /\ \A c \in CommandLines : c.nargs \in Nat /\ c.bad \subseteq Nat
    /\ StaLines \subseteq Nat
    /\ MaxMoves \in Nat

VARIABLES
    cmd,        \* the command line: [fct, handler, nargs, arg, bad, words],
                \* the main command, its handler's name, its number of
                \* arguments, the interface argument, the arguments that are
                \* no MAC address and the kind of the words that follow one
                \* ("zero": none, and the address is all zero)
    pc,
    devs,       \* the devices present
    moves,      \* changes of devs so far
    list,       \* the list of interfaces in the making or just made
    at,         \* hpav_populate_mac_addr's place in it
    loop,       \* find_local_sta's own list
    run,        \* calls of execute_on_channel begun
    read,       \* arguments the handler has read
    chan,       \* the channel: a device, or NoDevice while it is not set
    handles,    \* libpcap handles open
    responses,  \* chains of answers allocated
    rv,         \* the value of the function that has just returned
    result,     \* find_local_sta's rv
    log         \* for each execute_on_channel, the device it opened (NoDevice
                \* if none) and how it went

resources == <<handles, responses>>
listing == <<list, at>>
system == <<devs, moves>>
vars == <<cmd, pc, system, listing, loop, run, read, chan, resources, rv,
          result, log>>

Init ==
    /\ cmd \in CommandLines
    /\ pc = "main"
    /\ devs \in Present
    /\ moves = 0
    /\ list = <<>>
    /\ at = 1
    /\ loop = <<>>
    /\ run = 0
    /\ read = 0
    /\ chan = NoDevice
    /\ handles = 0
    /\ responses = 0
    /\ rv = EXIT_SUCCESS
    /\ result = EXIT_SUCCESS
    /\ log = <<>>

Offline == {"test_secu", "conf_file parse", "conf_file modify",
            "nvram parse", "nvram modify"}

\* What main and the function it calls accept before they do anything.
Accepted(c) ==
    CASE c.fct = "list_if" -> TRUE
      [] c.fct \in {"open_if", "reboot"} -> c.nargs = 1
      [] c.fct = "test_mme" ->
            /\ c.nargs > 1
            /\ c.arg.name # ""
            /\ c.handler \in DOMAIN test_mme_fct_name_table
      [] c.fct \in {"conf_file read", "conf_file write",
                    "nvram read", "nvram write"} -> c.nargs >= 2
      [] c.fct = "find_local_sta" -> c.nargs <= 1
      [] c.fct = "fw_upgrade" -> c.nargs = 4
      [] c.fct \in Offline -> TRUE
      [] OTHER -> FALSE

\* find_local_sta without an interface goes through all of them.
Loops == cmd.fct = "find_local_sta" /\ cmd.nargs = 0

HandlerOf ==
    CASE cmd.fct = "test_mme" -> test_mme_fct_name_table[cmd.handler]
      [] cmd.fct = "reboot" -> mtk_vs_reset_req
      [] cmd.fct = "find_local_sta" -> mtk_vs_get_nw_info_req
      [] cmd.fct = "fw_upgrade" -> mtk_vs_file_access_req
      [] cmd.fct = "nvram read" -> nvram_read
      [] cmd.fct = "nvram write" -> nvram_write
      [] cmd.fct = "conf_file read" -> conf_file_read
      [] cmd.fct = "conf_file write" -> conf_file_write

\* The number of arguments the handler is given.
argc ==
    CASE cmd.fct \in {"reboot", "find_local_sta"} -> cmd.nargs - 1
      [] cmd.fct = "fw_upgrade" -> IF run = 1 THEN 4 ELSE 5
      [] OTHER -> cmd.nargs - 2

Go(to) == pc' = to

\* Mutated form: the value is not clamped.
ExitUnclamped(value) == Go("exit") /\ rv' = value

\* The whole program ends: main clamps a negative value.
Exit(value) ==
    /\ Go("exit")
    /\ rv' = IF value < 0 THEN EXIT_FAILURE ELSE value

\* execute_on_channel is called.
Execute ==
    /\ run' = run + 1
    /\ chan' = NoDevice
    /\ Go("list")

Logged(outcome) == log' = Append(log, [device |-> chan, outcome |-> outcome])

-----------------------------------------------------------------------------
(* main and the listing of the interfaces.                                 *)

\* An unknown command or a usage error.
Refuse ==
    /\ pc = "main"
    /\ ~Accepted(cmd)
    /\ Exit(EXIT_USAGE)
    /\ UNCHANGED <<cmd, system, listing, loop, run, read, chan, resources,
                   result, log>>

\* The commands on files and keys open no channel.
RunOffline ==
    /\ pc = "main"
    /\ cmd.fct \in Offline
    /\ \E value \in {EXIT_SUCCESS, EXIT_USAGE, -1} : Exit(value)
    /\ UNCHANGED <<cmd, system, listing, loop, run, read, chan, resources,
                   result, log>>

Dispatch ==
    /\ pc = "main"
    /\ Accepted(cmd)
    /\ cmd.fct \notin Offline
    /\ IF cmd.fct = "list_if" \/ Loops
       THEN Go("list") /\ UNCHANGED <<run, chan>>
       ELSE Execute
    /\ UNCHANGED <<cmd, system, listing, loop, read, resources, rv, result, log>>

\* libpcap's devices, in any order, become the list.
FindAllDevs ==
    /\ pc = "list"
    /\ \E found \in SetToSeqs(devs) : list' = hpav_get_interfaces(found)
    /\ at' = 1
    /\ Go("macs")
    /\ UNCHANGED <<cmd, system, loop, run, read, chan, resources, rv, result,
                   log>>

\* open_channel hands on an error_stack it has not set: walking it to print
\* it either works or does not.
FindAllDevsFails ==
    /\ pc = "list"
    /\ \/ run = 0 /\ Exit(EXIT_FAILURE) /\ log' = log
       \/ run > 0 /\ Logged("pcap") /\ Go("next") /\ rv' = -1
       \/ run > 0 /\ Logged("stack") /\ Go("undefined") /\ rv' = rv
    /\ UNCHANGED <<cmd, system, listing, loop, run, read, chan, resources,
                   result>>

\* Mutated form: an interface that goes is looked at for ever.
PopulateMacForever ==
    /\ pc = "macs"
    /\ at <= Len(list)
    /\ at' = IF list[at] \in devs /\ list[at].mac THEN at + 1 ELSE at
    /\ UNCHANGED <<cmd, pc, system, list, loop, run, read, chan, resources, rv,
                   result, log>>

\* One interface of hpav_populate_mac_addr: it stays if it is still there and
\* has an address.
PopulateMac ==
    /\ pc = "macs"
    /\ at <= Len(list)
    /\ IF list[at] \in devs /\ list[at].mac
       THEN at' = at + 1 /\ list' = list
       ELSE at' = at /\ list' = RemoveAt(list, at)
    /\ UNCHANGED <<cmd, pc, system, loop, run, read, chan, resources, rv,
                   result, log>>

\* The list is printed and freed.
ListInterfaces ==
    /\ pc = "macs" /\ at > Len(list)
    /\ cmd.fct = "list_if"
    /\ Exit(EXIT_SUCCESS)
    /\ list' = <<>>
    /\ UNCHANGED <<cmd, system, at, loop, run, read, chan, resources, result,
                   log>>

\* find_local_sta has its list.
BeginLoop ==
    /\ pc = "macs" /\ at > Len(list)
    /\ run = 0 /\ Loops
    /\ IF list = <<>>
       THEN Exit(EXIT_SUCCESS) /\ UNCHANGED <<run, chan, loop>>
       ELSE Execute /\ loop' = list /\ rv' = rv
    /\ UNCHANGED <<cmd, system, listing, read, resources, result, log>>

-----------------------------------------------------------------------------
(* open_channel and close_channel.                                         *)

\* find_local_sta gives the name of the interface.
InterfaceArgument == IF Loops THEN loop[run] ELSE cmd.arg

Selected == hpav_get_interface_by_index_or_name(list, InterfaceArgument)

\* The list is empty: 0 is returned, the channel stays unset.
NoInterface ==
    /\ pc = "macs" /\ at > Len(list) /\ run > 0
    /\ list = <<>>
    /\ rv' = 0
    /\ Go("handler")
    /\ UNCHANGED <<cmd, system, listing, loop, run, read, chan, resources,
                   result, log>>

NotFound ==
    /\ pc = "macs" /\ at > Len(list) /\ run > 0
    /\ list # <<>>
    /\ Selected = NoDevice
    /\ list' = <<>>
    /\ rv' = EXIT_USAGE
    /\ Go("next")
    /\ Logged("usage")
    /\ UNCHANGED <<cmd, system, at, loop, run, read, chan, resources, result>>

\* The interface is opened, the list freed.
OpenLive ==
    /\ pc = "macs" /\ at > Len(list) /\ run > 0
    /\ list # <<>>
    /\ Selected \in devs
    /\ chan' = Selected
    /\ list' = <<>>
    /\ handles' = handles + 1
    /\ Go("handler")
    /\ UNCHANGED <<cmd, system, at, loop, run, read, responses, rv, result, log>>

\* pcap_open_live fails, or pcap_setnonblock does and the handle stays open.
OpenFails ==
    /\ pc = "macs" /\ at > Len(list) /\ run > 0
    /\ list # <<>>
    /\ Selected # NoDevice
    /\ \E nonblock \in BOOLEAN :
           /\ handles' = IF nonblock THEN handles + 1 ELSE handles
           /\ \/ /\ Logged(IF nonblock THEN "nonblock" ELSE "pcap")
                 /\ rv' = EXIT_FAILURE
                 /\ Go("next")
              \/ /\ Logged("stack")
                 /\ rv' = rv
                 /\ Go("undefined")
    /\ list' = <<>>
    /\ UNCHANGED <<cmd, system, at, loop, run, read, chan, responses, result>>

\* Mutated form: a handler that fails does not give its channel back.
CloseOnSuccess ==
    /\ pc = "close"
    /\ chan # NoDevice
    /\ handles' = IF rv = EXIT_SUCCESS THEN handles - 1 ELSE handles
    /\ Go("next")
    /\ UNCHANGED <<cmd, system, listing, loop, run, read, chan, responses, rv,
                   result, log>>

Close ==
    /\ pc = "close"
    /\ chan # NoDevice
    /\ handles' = handles - 1
    /\ Go("next")
    /\ UNCHANGED <<cmd, system, listing, loop, run, read, chan, responses, rv,
                   result, log>>

\* The channel was never set: it is used by the call or, at the latest, closed.
UseUnset ==
    /\ pc \in {"call", "close"}
    /\ chan = NoDevice
    /\ Go("undefined")
    /\ IF pc = "call" THEN Logged("unset")
       ELSE log' = [log EXCEPT ![Len(log)].outcome = "unset"]
    /\ UNCHANGED <<cmd, system, listing, loop, run, read, chan, resources, rv,
                   result>>

-----------------------------------------------------------------------------
(* The handler.                                                            *)

\* It returns value, with the resources it leaves behind.
HandlerReturns(value, outcome) ==
    /\ rv' = value
    /\ Logged(outcome)
    /\ Go("close")

\* open_if has no handler.
OpenOnly ==
    /\ pc = "handler"
    /\ cmd.fct = "open_if"
    /\ HandlerReturns(EXIT_SUCCESS, "open")
    /\ UNCHANGED <<cmd, system, listing, loop, run, read, chan, resources,
                   result>>

UsageError ==
    /\ pc = "handler"
    /\ cmd.fct # "open_if"
    /\ argc \notin HandlerOf.counts
    /\ HandlerReturns(EXIT_USAGE, "usage")
    /\ UNCHANGED <<cmd, system, listing, loop, run, read, chan, resources,
                   result>>

CheckArgs ==
    /\ pc = "handler"
    /\ cmd.fct # "open_if"
    /\ argc \in HandlerOf.counts
    /\ read' = 0
    /\ Go("args")
    /\ UNCHANGED <<cmd, system, listing, loop, run, chan, resources, rv,
                   result, log>>

\* The next argument to read.
Reads == pc = "args" /\ read < Len(HandlerOf.reads)
ToRead == HandlerOf.reads[read + 1]

Missing == ToRead >= argc /\ ToRead \notin HandlerOf.optional
BadMac == ToRead < argc /\ ToRead \in HandlerOf.macs \cap cmd.bad

ReadArg ==
    /\ Reads
    /\ ~Missing /\ ~BadMac
    /\ read' = read + 1
    /\ UNCHANGED <<cmd, pc, system, listing, loop, run, chan, resources, rv,
                   result, log>>

RefuseMac ==
    /\ Reads
    /\ BadMac
    /\ HandlerReturns(EXIT_USAGE, "usage")
    /\ UNCHANGED <<cmd, system, listing, loop, run, read, chan, resources,
                   result>>

\* The argument is a number out of range, or names a file that is missing,
\* unreadable or not what it should be.  A file name that is not there can
\* come to the same: fopen is given the NULL that ends the arguments.
RefuseInput ==
    /\ Reads
    /\ ToRead \in HandlerOf.inputs
    /\ HandlerReturns(-1, "input")
    /\ UNCHANGED <<cmd, system, listing, loop, run, read, chan, resources,
                   result>>

\* It reads past its arguments.
ReadMissing ==
    /\ Reads
    /\ Missing
    /\ Go("undefined")
    /\ Logged("argument")
    /\ UNCHANGED <<cmd, system, listing, loop, run, read, chan, resources, rv,
                   result>>

EndArgs ==
    /\ pc = "args"
    /\ read = Len(HandlerOf.reads)
    /\ Go(IF HandlerOf.makes = "transfer" THEN "words" ELSE "call")
    /\ UNCHANGED <<cmd, system, listing, loop, run, read, chan, resources, rv,
                   result, log>>

\* The words of a file transfer: fw_upgrade makes them itself.
Words == IF cmd.fct = "fw_upgrade" THEN "right" ELSE cmd.words

\* Only a MAC address that is all zero is left among the words, where it is
\* none of the commands.
NoWords == argc = 1 /\ Words # "zero"

WordsFail ==
    /\ pc = "words" /\ ~NoWords
    /\ Words \in {"wrong", "zero"}
    /\ HandlerReturns(EXIT_USAGE, "usage")
    /\ UNCHANGED <<cmd, system, listing, loop, run, read, chan, resources,
                   result>>

WordsDo ==
    /\ pc = "words" /\ ~NoWords
    /\ Words \notin {"wrong", "zero", "all"}
    /\ Go("call")
    /\ UNCHANGED <<cmd, system, listing, loop, run, read, chan, resources, rv,
                   result, log>>

\* The command that was not found is looked at.
ParseNoWords ==
    /\ pc = "words" /\ NoWords
    /\ Go("undefined")
    /\ Logged("argument")
    /\ UNCHANGED <<cmd, system, listing, loop, run, read, chan, resources, rv,
                   result>>

\* mac_list, the stations of "all".
StaListSize == 64

\* The stations are read from sta.txt, where something else than a MAC address
\* can stand.  Without any there is nothing to do.
ReadStaList ==
    /\ pc = "words" /\ ~NoWords
    /\ Words = "all"
    /\ \E lines \in StaLines :
           \/ lines \in 1..StaListSize /\ Go("call") /\ UNCHANGED <<rv, log>>
           \/ lines = 0 /\ HandlerReturns(EXIT_SUCCESS, "nobody")
           \/ lines > 0 /\ HandlerReturns(EXIT_USAGE, "usage")
    /\ UNCHANGED <<cmd, system, listing, loop, run, read, chan, resources,
                   result>>

\* Nothing stops the one station too many.
StaListOverruns ==
    /\ pc = "words" /\ ~NoWords
    /\ Words = "all"
    /\ \E lines \in StaLines : lines > StaListSize
    /\ Go("undefined")
    /\ Logged("mac_list")
    /\ UNCHANGED <<cmd, system, listing, loop, run, read, chan, resources, rv,
                   result>>

\* sta.txt cannot be opened, to be read for "all" or to be written after
\* "scan-sta", and is closed all the same.
StaFileFails ==
    /\ \/ pc = "words" /\ ~NoWords /\ Words = "all"
       \/ pc = "call" /\ chan # NoDevice /\ Words = "scan-sta"
    /\ Go("undefined")
    /\ Logged("sta.txt")
    /\ UNCHANGED <<cmd, system, listing, loop, run, read, chan, resources, rv,
                   result>>

\* The configuration commands leave a MAC address, argument 1, to their
\* transfers: a bad one is one more failure of theirs.
Addressed == HandlerOf.makes = "transfers" => ~(1 < argc /\ 1 \in cmd.bad)

\* The answers are printed one by one and freed.
Answered ==
    /\ pc = "call"
    /\ chan # NoDevice
    /\ Addressed
    /\ HandlerReturns(EXIT_SUCCESS, "answered")
    /\ UNCHANGED <<cmd, system, listing, loop, run, read, chan, resources,
                   result>>

\* Mutated form: an output file that cannot be created is a usage error.
OutputFailsUsage ==
    /\ pc = "call"
    /\ chan # NoDevice
    /\ HandlerOf.makes = "save"
    /\ responses' = responses + 1
    /\ HandlerReturns(EXIT_USAGE, "output")
    /\ UNCHANGED <<cmd, system, listing, loop, run, read, chan, handles, result>>

\* The output file of nvram read cannot be created: the answers stay.
OutputFails ==
    /\ pc = "call"
    /\ chan # NoDevice
    /\ HandlerOf.makes = "save"
    /\ responses' = responses + 1
    /\ HandlerReturns(-1, "output")
    /\ UNCHANGED <<cmd, system, listing, loop, run, read, chan, handles, result>>

\* Mutated form: silence is success.
SilentIgnored ==
    /\ pc = "call"
    /\ chan # NoDevice
    /\ Addressed
    /\ HandlerReturns(EXIT_SUCCESS, "silent")
    /\ UNCHANGED <<cmd, system, listing, loop, run, read, chan, resources,
                   result>>

Silent ==
    /\ pc = "call"
    /\ chan # NoDevice
    /\ Addressed
    /\ HandlerReturns(HandlerOf.silence, "silent")
    /\ UNCHANGED <<cmd, system, listing, loop, run, read, chan, resources,
                   result>>

\* libpcap fails, or a station refuses a file.
CallFails ==
    /\ pc = "call"
    /\ chan # NoDevice
    /\ HandlerReturns(IF HandlerOf.makes \in {"transfer", "transfers"} THEN -1
                      ELSE EXIT_FAILURE, "failed")
    /\ UNCHANGED <<cmd, system, listing, loop, run, read, chan, resources,
                   result>>

-----------------------------------------------------------------------------
(* execute_on_channel has returned.                                        *)

\* Mutated form: the second image is written whatever became of the first.
GoesOnAlways == run = 1 /\ cmd.fct = "fw_upgrade"

\* fw_upgrade writes the firmware after the boot loader.
GoesOn == run = 1 /\ cmd.fct = "fw_upgrade" /\ rv = EXIT_SUCCESS

\* Mutated form: find_local_sta stops at the first failure.
NextInterfaceIfOk ==
    /\ pc = "next" /\ Loops
    /\ result' = IF rv # EXIT_SUCCESS THEN EXIT_FAILURE ELSE result
    /\ IF run < Len(loop) /\ rv = EXIT_SUCCESS
       THEN Execute /\ UNCHANGED <<rv, loop>>
       ELSE Exit(result') /\ loop' = <<>> /\ UNCHANGED <<run, chan>>
    /\ UNCHANGED <<cmd, system, listing, read, resources, log>>

\* find_local_sta remembers an error and goes on.
NextInterface ==
    /\ pc = "next" /\ Loops
    /\ result' = IF rv # EXIT_SUCCESS THEN EXIT_FAILURE ELSE result
    /\ IF run < Len(loop)
       THEN Execute /\ UNCHANGED <<rv, loop>>
       ELSE Exit(result') /\ loop' = <<>> /\ UNCHANGED <<run, chan>>
    /\ UNCHANGED <<cmd, system, listing, read, resources, log>>

SecondImage ==
    /\ pc = "next"
    /\ GoesOn
    /\ Execute
    /\ UNCHANGED <<cmd, system, listing, loop, read, resources, rv, result, log>>

Finish ==
    /\ pc = "next" /\ ~Loops /\ ~GoesOn
    /\ Exit(rv)
    /\ UNCHANGED <<cmd, system, listing, loop, run, read, chan, resources,
                   result, log>>

-----------------------------------------------------------------------------
\* A device comes or goes (the operating system).  At any other time it is as
\* if it did so before the program next looks at the devices.
Plug ==
    /\ moves < MaxMoves
    /\ pc \in {"list", "macs"}
    /\ \E d \in Devices :
           devs' = IF d \in devs THEN devs \ {d} ELSE devs \cup {d}
    /\ moves' = moves + 1
    /\ UNCHANGED <<cmd, pc, listing, loop, run, read, chan, resources, rv,
                   result, log>>

Ended == pc \in {"exit", "undefined"} /\ UNCHANGED vars

Run ==
    \/ Refuse \/ RunOffline \/ Dispatch
    \/ FindAllDevs \/ FindAllDevsFails \/ PopulateMac
    \/ ListInterfaces \/ BeginLoop
    \/ NoInterface \/ NotFound \/ OpenLive \/ OpenFails \/ Close \/ UseUnset
    \/ OpenOnly \/ UsageError \/ CheckArgs
    \/ ReadArg \/ RefuseMac \/ RefuseInput \/ ReadMissing \/ EndArgs
    \/ WordsFail \/ WordsDo \/ ParseNoWords
    \/ ReadStaList \/ StaListOverruns \/ StaFileFails
    \/ Answered \/ OutputFails \/ Silent \/ CallFails
    \/ NextInterface \/ SecondImage \/ Finish

Next == Run \/ Plug \/ Ended

Spec == Init /\ [][Next]_vars

\* The program runs on; the devices owe it nothing.
FairSpec == Spec /\ WF_vars(Run)

-----------------------------------------------------------------------------
(* Properties.                                                             *)

Outcomes == {"usage", "input", "pcap", "nonblock", "stack", "unset",
             "argument", "mac_list", "sta.txt", "open", "nobody", "answered",
             "output", "silent", "failed"}

\* The values the program's variables can have; a command calls
\* execute_on_channel once, fw_upgrade twice, find_local_sta once for each of
\* its interfaces.
TypeOK ==
    /\ cmd.nargs \in Nat /\ cmd.bad \subseteq Nat
    /\ pc \in {"main", "list", "macs", "handler", "args", "words", "call",
               "close", "next", "exit", "undefined"}
    /\ devs \in SUBSET Devices
    /\ moves \in 0..MaxMoves
    /\ ToSet(list) \cup ToSet(loop) \subseteq Devices
    /\ at \in 1..(Len(list) + 1) \/ list = <<>>
    /\ run \in 0..Cardinality(Devices) \cup {1, 2}
    /\ read \in 0..12
    /\ chan \in Devices \cup {NoDevice}
    /\ handles \in 0..(run + 1)
    /\ responses \in 0..1
    /\ rv \in {-2, -1, EXIT_SUCCESS, EXIT_FAILURE, EXIT_USAGE, EXIT_NO_RESPONSE}
    /\ pc = "exit" => rv >= 0
    /\ result \in {EXIT_SUCCESS, EXIT_FAILURE}
    /\ \A i \in DOMAIN log : log[i].outcome \in Outcomes
    /\ Len(log) <= run

Usable == {d \in devs : ~Skipped(d) /\ d.mac}

\* The number list_if prints for an interface is the one every later command
\* takes: whatever the order of libpcap's devices, the finished list is sorted
\* and, while no device comes or goes, holds all the usable ones and no other.
IndexIsStable ==
    (pc = "macs" /\ at > Len(list)) =>
        /\ \A i \in 1..(Len(list) - 1) : Before(list[i], list[i + 1])
        /\ \A i \in DOMAIN list : ~Skipped(list[i]) /\ list[i].mac
        /\ moves = 0 => ToSet(list) = Usable

\* find_local_sta (main.c: "remember error for exit code, but continue") tries
\* every interface of its list once, also when one fails or is gone, and
\* returns 0 only if all of them answered.  A name that is a number is the
\* exception: it is taken as an index.
EveryInterfaceIsTried ==
    [][(pc = "next" /\ pc' = "exit" /\ Loops) =>
          /\ Len(log) = Len(loop)
          /\ \A i \in DOMAIN loop :
                loop[i].number = NotANumber =>
                    log[i].device \in {loop[i], NoDevice}
          /\ rv' = EXIT_SUCCESS <=>
                \A i \in DOMAIN log : log[i].outcome = "answered"]_vars

Sent(i) == log[i].outcome \in {"answered", "output", "silent", "failed"}

\* "On usage errors [...] the tool returns with exit code 2" (README:30-31): a
\* user who sees 2 may correct the command line and repeat it, as nothing was
\* sent.  fw_upgrade is the exception: its interface can be gone after the
\* boot loader was written.
UsageSendsNothing ==
    (pc = "exit" /\ rv = EXIT_USAGE) =>
        \A i \in DOMAIN log :
            Sent(i) => cmd.fct = "fw_upgrade" /\ i = 1 /\ run = 2

\* The exit code claims no more than happened: 0 only if every call and
\* transfer was answered, whatever order failures, silence and interfaces that
\* go away come in, 3 only if the last one was met with silence.  The exception
\* is a transfer to the stations of an empty sta.txt: it reaches nobody.
SuccessIsAnswered ==
    (pc = "exit" /\ log # <<>>) =>
        /\ rv = EXIT_SUCCESS =>
               \A i \in DOMAIN log :
                   \/ log[i].outcome \in {"open", "answered"}
                   \/ log[i].outcome = "nobody" /\ Words = "all"
        /\ rv = EXIT_NO_RESPONSE => Last(log).outcome = "silent"

\* "On commands with network communication, the tool returns with exit code 3
\* in case no station responded to the request" (README:32-33).
SilenceIsReported ==
    (pc = "exit" /\ log # <<>> /\ Last(log).outcome = "silent") =>
        rv = EXIT_NO_RESPONSE

\* No firmware is written after a boot loader that was not, and an upgrade
\* that stops half way is never reported as done.
HalfUpgradeIsReported ==
    cmd.fct = "fw_upgrade" =>
        /\ run = 2 => log[1].outcome = "answered"
        /\ (pc = "exit" /\ rv = EXIT_SUCCESS) =>
                Len(log) = 2 /\ \A i \in 1..2 : log[i].outcome = "answered"

\* The handles and answers left at the end are those of the two paths that
\* forget them: pcap_setnonblock failed (hpav_chan.c), the output file of
\* nvram read could not be created (test_nvram.c).
LeftOpenExactly ==
    pc = "exit" =>
        /\ handles = Cardinality({i \in DOMAIN log :
                                     log[i].outcome = "nonblock"})
        /\ responses = Cardinality({i \in DOMAIN log :
                                       log[i].outcome = "output"})

\* The handlers whose count of arguments lets them read one that is not there,
\* with that count.
TooFew == [mtk_vs_get_tonemask_req |-> 1, mtk_vs_file_access_req |-> 1,
           cm_amp_map_req |-> 2]

\* Between the arguments and the call the program is lost only in these ways:
\* there was no usable interface, an error is chained to a stack that was not
\* set, one of three handlers reads an argument that is not there, sta.txt
\* cannot be opened or names too many stations.  Of all arguments, MAC address
\* or not, no other handler reads one it has not counted.  (What a call itself
\* can do to the program is SndRcv's, and no length of a word is modelled.)
UndefinedExactly ==
    pc = "undefined" =>
        \/ Last(log).outcome = "unset" /\ (moves = 0 => Usable = {})
        \/ Last(log).outcome = "stack"
        \/ /\ Last(log).outcome = "argument"
           /\ cmd.fct = "test_mme" /\ cmd.handler \in DOMAIN TooFew
           /\ argc = TooFew[cmd.handler]
        \/ Last(log).outcome = "sta.txt" /\ Words \in {"all", "scan-sta"}
        \/ /\ Last(log).outcome = "mac_list" /\ Words = "all"
           /\ \E lines \in StaLines : lines > StaListSize

\* Every command ends, whatever the interfaces do meanwhile.
Ends == <>(pc \in {"exit", "undefined"})

=============================================================================
