# Verification of tulum_utils (hpav_test)

`hpav_test` is a command-line tool that talks to HomePlug AV power-line
stations over raw Ethernet: it sends management messages (MMEs) through
libpcap, reassembles the answers and prints them, reads and writes files,
configuration and NVRAM of a station. These modules model the parts of it that
are hard to test, check them with TLC on small instances, and prove the most
important results for every instance with TLAPS.

Paths below are relative to `src/hpav_test/`.

## 1. Inventory

| Component | Source | State | Operations |
| --- | --- | --- | --- |
| Reassembly | `libhpav/hpav_mme.c:81-388` | group list, chain of packets, last packet | add a frame to a group, build a packet, chain it |
| Send/receive | macro in `libhpav/hpav_mme.h:176-373`, seven functions in `libhpav_mtk/hpav_mtk_mme.c:536-1488` | callback data (frames received, their number, stop flag), frames owned, start time | set filter, send, poll with a callback, reassemble, decode |
| Channel | `libhpav/hpav_chan.c` | libpcap handle with its capture queue, host address | open, close |
| File transfer | `hpav_test/test_mtk.c:2252-2661` | destination, fragment number, total, retries, result, output file | send a fragment, take an answer, retry, next station |
| Command handlers | `hpav_test/test_mtk.c`, `test_hpav.c` | arguments, response, exit code | check arguments, one or two calls, print, free |
| Main program | `hpav_test/main.c` | channel, interface list, error stack | dispatch a command, open a channel by name or index, `find_local_sta`, `fw_upgrade` |
| Interfaces, errors | `libhpav/hpav_if.c`, `hpav_error.c` | list of interfaces in sorted order, chain of errors | make the list, fill in addresses, find by index or name, free |
| Configuration file | `hpav_test/conf_file.c` | the user's file, two temporary files, JSON values; two files on the device | read (two transfers, merge), write (delete, write), modify (eleven edits), parse |
| NVRAM | `hpav_test/test_nvram.c`, `test_mtk.c:84-198` | the user's file, a request with block, size and checksum | read to a file, write from a file, show, modify, write one block |
| Encrypted, raw, sniff | `libhpav/hpav_mme.c:760-974`, `hpav_security.c` | callback data, key | as send/receive, with other rules |
| Utilities | `libhpav/hpav_utils.c` | none | clock, listing of a tone map, conversions of addresses and keys |
| JSON | `libjson/parson.c` | values, objects with a capacity | parse, access, set, merge (written for the tool), serialise |
| MD5 | `libhpav_mtk/openssl_*` | | third-party |

**Interaction.** A handler runs on a channel opened by `execute_on_channel` and
makes one or several send/receive calls on it. A call sends one frame, then
polls: libpcap calls `rx_callback` for each frame of the capture queue. The
queue belongs to the channel, not to the call: an answer that misses its call
is found by the next one. The callback compares the destination address and
the message type and nothing else. The frames kept are grouped and reassembled
by `hpav_defrag_frames` and decoded into the `response` chain that the handler
prints and frees. The file transfer is a loop of such calls in which each
answer decides the destination and the fragment of the next request;
`conf_file`, `nvram` and `fw_upgrade` are sequences of such commands.

**What is hard.** The program has one thread; the concurrency is with the
stations, the network and the clock. Answers are late, lost, interleaved with
those of other stations, of other hosts and of earlier calls; a broadcast is
answered by any number of stations; a libpcap error may end a call at several
points; retries meet the answers they were meant to replace. `PROJECT.json`
lists the hazards, each at the line where it bites.

**What makes each component correct.**
- Reassembly: exactly the complete messages come out, each once; no fragment
  of another message is mixed in; a broken message costs only itself.
- Send/receive: a response consists of whole answers for this host of the type
  asked for; nothing that was completely received is dropped; an empty response
  means silence; broadcasts wait; calls end and free what they allocated.
- File transfer: success is returned only when the file is there, complete and
  in order; no fragment is skipped; the command ends.
- Handlers and main: the exit codes mean what the README of the tool says; a
  usage error has sent nothing; an interface's index is the one `list_if`
  printed; every interface is tried by `find_local_sta`; channels and answers
  are given back; no argument that is not there is read.
- Configuration: what `read` writes is the device's configuration with its
  update over it; what is written comes back; an edit changes what it names and
  nothing else; no file becomes unreadable, no temporary file stays.
- NVRAM: factory data survives any sequence of commands; the blocks of a file
  add up to that file.
- Tone map: the list has the carriers the station encoded, no run lost, listed
  twice or of another length.

## 2. Modules

| Module | Models | EXTENDS |
| --- | --- | --- |
| `Frames` | what the reassembly computes, without loops | |
| `Positions_proofs` | facts about sets of positions in a sequence and induction over them | |
| `Defrag` (`MCDefrag`) | `hpav_defrag_frames`, loop by loop | `Frames` |
| `Defrag_proofs` | theorems about `Defrag` | `Defrag`, `Positions_proofs` |
| `SndRcv` (`MCSndRcv`) | send/receive calls on one channel, with stations, network and clock | `Frames` |
| `Exchange` | what the calls on a channel promise about answers | |
| `SndRcvRefinement` | the refinement mapping from `SndRcv` to `Exchange` | `SndRcv`; INSTANCE `Exchange` |
| `SndRcv_proofs` | theorems about `SndRcv`, and that it implements `Exchange` | `SndRcvRefinement`, `Positions_proofs` |
| `FileAccess` (`MCFileAccess`) | `test_mme_mtk_vs_file_access_req` with its stations | |
| `Transfer` | what a file transfer to one destination promises | |
| `FileRefinement` | the refinement mapping from `FileAccess` to `Transfer` | `FileAccess`; INSTANCE `Transfer` |
| `FileAccess_proofs` | theorems about `FileAccess`, and that it implements `Transfer` | `FileRefinement` |
| `Interfaces` | the list of `hpav_if.c`: what it keeps, its order, look-up | |
| `Handlers` | each command handler as a record of what tells it from the others | |
| `Command` (`MCCommand`) | one run of the program, from command line to exit code | `Interfaces`, `Handlers` |
| `Command_proofs` | theorems about `Command` | `Command`, `Positions_proofs` |
| `Json` | the values and operations of `parson.c` the tool uses | |
| `Calibration` | the arithmetic of `psd_cali` on the numbers of am_infile | |
| `ConfEdit` | the functions of `conf_file modify` on JSON values | `Json`, `Calibration` |
| `ConfFile` (`MCConfFile`) | the configuration commands, one after the other | `ConfEdit` |
| `ConfFile_proofs` | theorems about the merge, the edits, the calibration and `ConfFile` | `ConfFile`, `Positions_proofs` |
| `Nvram` (`MCNvram`) | the NVRAM commands, one after the other | |
| `Nvram_proofs` | theorems about `Nvram` | `Nvram` |
| `Tonemap` (`MCTonemap`) | `hpav_dump_tonemap`, loop by loop | |
| `Tonemap_proofs` | theorems about `Tonemap` | `Tonemap`, `Positions_proofs` |

**Frames, Defrag.** A frame is a record of the fields the code looks at: the
five of the key, the fragment count `nf` (low nibble of `fmi_nf_fn`) and the
fragment number `fn`. A chain is a sequence; a group in `Defrag` is the
sequence of its positions, in `Frames` the set of them. `AddFrame` is one turn
of the loop at `hpav_mme.c:357`; `BuildFirst`, `ChainPacket` and `ChainToNull`
are one turn of the loop at 365, told apart by `new_packets` and
`last_packet`. A packet that fails is NULL (`<<>>`), and writing through a NULL
`last_packet` ends the process (`pc = "crashed"`). Payload bytes are abstracted:
a packet is the positions of its frames, in order. `Frames` is the abstract
specification: `ReturnsCompletePackets` and `CrashesExactlyAfterGap` say that
the loops compute `Packets` and fail exactly on `DereferencesNull`. `SndRcv`
then uses those definitions as one step.

**SndRcv.** The functions are one algorithm; they differ in the message type,
in whether they send, in whether `num_fragments` reaches the callback data, and
in the rule that breaks the loop. Each is a profile (a record), and one state
machine runs them all. `Call` is the code up to the encoded request,
`SetFilter` compile and setfilter, `Send` the transmission, `RxCallback` the
callback for one frame, `Dispatched`, `NothingToDispatch` and `LoopBroken` the
results > 0, 0 and -2 of `pcap_dispatch`, `PcapError` every libpcap failure,
`CheckLoop` the loop condition, `Assemble` what follows the loop. `stop`, `fn`
and `num_fragments_received` are functions of the frames kept (`Stop`, `Fn`,
`Len(rx)`). The channel starts with a pending `pcap_breakloop`, as
`hpav_open_channel` leaves it, so the first dispatch may return -2. `owned` is
the memory of the call. The field `of` of a frame is a ghost that says which
answer it belongs to; no guard reads it. Stations (external code) answer a
request at once, late or never, in `nf + 1` fragments under their next message
number; the frames of one station arrive in order, those of several interleave.

**Exchange, SndRcvRefinement.** `Exchange` knows requests and answers, no frames:
a call begins, asks some stations, and returns; a station answers a request
once; answers get lost. A call returns answers that wait, are for this host and of its
type, and then they wait no more. It does not promise that an answer is to the
request of the call that returns it: nothing in the code compares the two, so a late
answer goes to the next call of its type. `SndRcvRefinement` maps an answer that waits
to one all of whose frames are received by the call in progress, in the capture
queue or on the network (`Waiting`), and the result to the answers the packets are
made of (`Delivered`). That frames kept from one call are not returned by
another, and that what a call drops can come back to no later one, is what
`ImplementsExchange` adds to `PacketsAreWhole`.

**FileAccess.** `cmd` is the parsed command: the operation, the destinations
(one, or those of `sta.txt` with `all`) and the size of the file in fragments; and
what it meets: whether answers can be `late` and the output file `unwritable`.
`Begin` and `Refuse` are the head of the loop over the stations with its early
returns; `Send` with `ReceiveOne`, `ReceiveTwo`, `NoAnswer` or `PcapError` is
one turn of the inner loop. The call it makes is abstracted to what `SndRcv`
shows of the profile `file_access_sndrcv`: it takes the answers the first
successful dispatch finds, of any station and for any fragment. Fragment
numbers are taken modulo `TotalMod` (2^16 in the code). The stations are
external: `Serve` stores a fragment or refuses it, and its answer may be lost.
`stored[s]` are the fragments station `s` has carried out.

**Transfer, FileRefinement.** `Transfer` has three variables: the job, the
fragments each station has carried out, and the outcome. A station carries out
the fragment after those it has; the command decides once, and says "ok" only
when an addressed station has everything. `FileRefinement` maps `stored`, the
destination and `pc`/`rv` to them; the loop, its retries and the messages are
invisible. `ImplementsTransfer` is the abstract specification with its fairness.

**Command.** `pc` walks through `main` ("main"), the list of interfaces ("list",
"macs"), the handler ("handler", "args", "words", "call"),
`close_channel` ("close") and what follows `execute_on_channel` ("next"). `log`
records each `execute_on_channel` with the device it opened and how it went, and
no guard reads it except through the properties. All handlers have one shape,
which is why `Handlers` has a record for each and `Command` one action for each
step of the shape. The record has the numbers of arguments the handler accepts and
every argument it reads, in its order: MAC addresses, files, numbers and words alike,
so that a count that does not cover them shows (`ReadMissing`). The words of a file
transfer are parsed by a function of their own (`WordsDo`, `WordsFail`,
`ParseNoWords`); with `all` the stations come from sta.txt, of which the model has
the number of words (`ReadStaList`, `StaListOverruns`, `StaFileFails`).
The call of a handler ends in one of four ways: `Answered`,
`Silent` (what each handler returns then is its field `silence`), `CallFails`,
and for `nvram read` `OutputFails`. What leads there is in `SndRcv` and
`FileAccess`. `Plug` is the operating system: a device comes or goes between two
looks at the devices. Reading what was never set ends in "undefined": an
unset channel is used at the latest when it is closed; an unset `error_stack`
either works or does not, by chance, so both are outcomes.

**Json, Calibration, ConfEdit, ConfFile.** A value is a record with its type; an
object is the sequence of its members (an order the code has, and that
`json_object_remove` changes). `Nested[n]` are the values of up to n levels, and
`JSON` those of as many as the parser takes (`MAX_NESTING`, 19 in the code), so
a function over a value is a recursive function over `JSON`. NULL and JSONFailure
are `NoValue`. A file is the value it was written from, or a value `Escaped` by
another program, which writes a control character as an escape (`\u0001`).
Serialising and parsing is not the identity: the parser takes the escape, the
serialiser writes the character as it is, and the parser then refuses the file;
`json_parse_file` returns the content of a file if no name is twice in an object
(`Parses`) and no control character is in it raw (`Printable`). The spare capacity
of an object is gone, too.
The capacity matters while a merge is on its way, and is part of its state
there (`Merged`, one turn of its loop being `MergeMember`; `whole` says whether the
results that nobody looks at were good). `Calibration` is `psd_cali`: 4 bits a
carrier, clamped, packed into an int, sign-extended into a 64-bit long, and
stored as a double with 53 bits (`Packed`, `AsDouble`, `AmpMap`), on machines
with either width of a long. In `ConfEdit` an edit is an operator from a
configuration to its outcomes. In `ConfFile` one action is one call of the code
that can fail; the transfers are reduced to what `FileAccess` shows they can
leave: the file, no file, or, after a late answer, a garbled one. `fault` and
`written` are history variables. `Same`, `IsOverlay`, `IsEdited` and
`KeepsNotches` are what the properties compare with; they are definitions of
their own and use no setter, merge or loop of the model.

**Nvram.** A byte is one bit, which is enough for the exclusive or. `request` is
the request on its way; the station stores it if its checksum fits, and its
answer may be lost. `nvram_size` and `block_index` keep their width (`SizeMod`,
`IndexMod`). `genuine`, `macs`, `original`, `stored`, `intact` are history.

**Tonemap.** One action is one turn of the loop, told apart by the field and
by whether a digit is pending. The char `modulation` is modelled as signed,
as on x86; where it is unsigned the comparison with -1 never holds.

Definitions in the modules marked "Mutated form" are plausible bugs of the
definition that follows them. No specification uses them; they show that each
property would notice.

## 3. Runs

| Run | Checks | Instance |
| --- | --- | --- |
| `reassembly` | types; grouping keeps messages and order; exactly the complete packets; crash exactly after a gap | all chains of up to 4 frames of 6 messages, one per field of the key, whole or in two fragments |
| `calls_mixed` | no early empty response, nothing captured is dropped, broadcasts wait, calls return | 2 stations, 2 calls (broadcast and unicast with one fragment expected, or listening for a calibration), another host's traffic, a calibration reported unasked, answers that never come |
| `rule_functions` | types, fragments of different answers are not put together, what an early empty response is, nothing dropped, nothing leaks, refinement of `Exchange` (answers are returned whole, once, by a call of their type) | 1 station, 2 calls of five profiles that send (two more differ from one of them only in the message type), answers in one or two fragments, an answer owed to an earlier command, losses, libpcap errors |
| `file_transfer` | types, success means written, no fragment skipped, a save in time is complete and in order, termination, refinement of `Transfer` | 2 stations; with late answers: write (3 fragments to one station, 2 to broadcast), save with an output file that may not open, read, delete; with answers in time: save of 1 and 3 fragments, also over an older file |
| `commands` | what success, usage errors and silence say, order and choice of interfaces, every interface tried, half upgrades reported, what is left open, where the program is lost, termination | 4 devices (one called "1", a loopback that is up, "any") in every order, 2 changes; every handler with its fewest arguments, one less, two more, and each MAC address wrong; all main commands with 5 interface arguments; sta.txt with 0, 2, 64 and 65 words |
| `conf_file` | read merges, written comes back, edits are exact, calibration keeps notches, files stay readable, temporary files removed | 2 commands; 4 configurations and 6 updates, one of each with an escaped control character, 28 edits; late answers, full disk, both widths of a long |
| `nvram` | factory data is kept, blocks make the file | 5 commands, files of up to 18 bytes with blocks of 6 |
| `tone_map` | the loop keeps every run; the list is the map but for the known omission | all maps of up to 3 runs of 2 modulations and 5 lengths, both forms |

Runs whose property is expected to fail, each a disagreement between the code
and what a document or comment says (the `findings` of `PROJECT.json`):

| Run | Property | Shows |
| --- | --- | --- |
| `reassembly_null` | `EveryGroupIsBuilt` | three messages, the second incomplete: write through NULL (`hpav_mme.c:378`) |
| `tonemap_fragments` | `EmptyMeansSilence` | one frame expected, two come: the answer is dropped and exit code 3 says nobody answered |
| `file_save_late` | `ReturnedOkIsSaved` | a late answer is appended as a second copy, exit code 0 |
| `commands_silent` | `SilenceIsReported` | a transfer nobody answers ends with exit code 1, where README and `exitcodes.h` say 3 (`test_mtk.c:2640`) |

Also known, and stated as exceptions in the properties that would otherwise
fail, or shown by changing a constant of a run:

- A broadcast `pwm_stats` request ends with the first station's answer
  (`hpav_mtk_mme.c:776`).
- `file_transfer` checks `ReturnedOkIsWritten` with one destination. With the option
  `all` it does not hold: the result of the last station is returned and hides the
  others' (`test_mtk.c:2600`), and a late answer of the station before, to its last
  fragment, ends the turn of the next one with success (`test_mtk.c:2622`). A command
  with two members in `mac_list` shows both.
- `nvram write` (`test_nvram.c:188`), `find_local_sta` without an interface
  (`main.c:360`) and what is built on transfers (`fw_upgrade`, `conf_file read` and
  `write`) exit with 1, too, when nobody answers. `SuccessIsAnswered` says what the
  exit codes do tell: 0 that everything was answered, 3 that the last call was not.
- An empty sta.txt: success, and nothing was sent (`test_mtk.c:2514`).
- A save whose output file cannot be opened (`unwritable`) returns success
  (`test_mtk.c:2342`). `FileTransfer` with `TotalMod` equal to the number of
  fragments: the 16-bit total becomes 0 and the loop ends after one answer.
- Without a usable interface `open_channel` returns 0 (`main.c:72`);
  `get_tonemask` reads a second argument it has not checked for and `cm_amp_map` a
  third one (`test_hpav.c:225`); a file transfer with a MAC address alone
  dereferences NULL, and more than 64 words of sta.txt run over the list of stations
  (`test_mtk.c:2499`). `UndefinedExactly` says that these are all.
- On hosts with a 64-bit long, `psd_cali` turns every number of am_infile whose
  first carrier has a backoff of 8 or more, or is notched, into one near 2^64;
  the next `psd_cali` reads other carriers from it (`CalibrationKeepsNotches`
  says that this is the only way a map is lost).
- `psd_cali` also puts what was in memory into the first number
  (`conf_file.c:643`), and runs out of the array for a carrier am_infile does not
  have.
- An edit puts a name with a control character into the file, which no command
  can then read. A file that holds such a character as an escape (`parson.c:463`) is
  made unreadable by any edit, and a device's file or update that does makes the
  result of a read unreadable (`parson.c:854`). These and a full disk are the only
  ways (`StaysReadable`).
- If inka_update.conf cannot be deleted, `conf_file write` goes on
  (`conf_file.c:166`), and the next read merges the old update into what was
  written; `RoundTrip` excludes this (`fault = "kept"`) and late answers.
- A failed transfer of inka_update.conf, for whatever reason, means no update;
  a member that does not fit into an object inside the configuration is lost in the
  merge without a word (`parson.c:1781`, `fault = "part"`; both are exceptions of
  `ReadIsMerged`); what a merge does to an object that the update has as a
  number is nothing, and `IsOverlay` says so; the result of writing a modified file is not looked at
  (`conf_file.c:749`).
- The run that is open at the last whole byte of a tone map is not listed.

**Bounds.** Chains of four frames are enough for a good, a bad and a following
group with one of them in two fragments, for a repeated fragment, and for a pair
of messages that differ in any single field. Two stations and two calls are
enough for an answer of one to be taken for the other's; the answer owed to an earlier
command is the third message that the NULL chain (`Crash`) needs within one call. `calls_mixed` loses no
frame (`Lossy`), since with answers of one frame a lost one is one that
stays on the network for ever; `rule_functions`, with answers in one or two parts
(`Sizes`), does: a lost part of one message beside a part of the next is what
`PacketsAreWhole` is about. `MaxRetry` is the code's 3. `Copies`
limits identical messages in flight to one: two copies differ in nothing the
program reads. `ReceiveTwo` bounds the answers one dispatch finds at two, since
the code uses the first for the next request and the others only for their
status and data. Timeouts are 1 unit: time only has to be up or not up, and any
number of steps fits in a unit. `FmsnMod` is larger than the messages of one
station in a run, so that their numbers do not repeat: with a repetition two
answers fall into one group and are both dropped.

`commands`: `UIntMod` is 8 for 2^32, so that a number that wraps is among the
arguments. Two changes of the devices are enough for one to go and another to
come between two looks. `MaxArgs` 13 is more than any handler reads.
`commands_silent` runs the transfers among the command lines.
`conf_file`: an edit and a read or write in either order, or two edits, are the
shortest sequences in which one command finds what another left behind;
the initial files are chosen freely, so longer histories start in the middle.
Objects have 2 members at first and 12 at most for 15 and 960, and values 4 levels
for 20 (`MAX_NESTING` 3 for 19), which is what a configuration with an array inside
of an object has; a number has 2
carriers for 8, and a double lacks 3 of 16 bits for 11 of 64; of seven ranges of
notched carriers six are looked at, as in the code (of eleven). `nvram`:
blocks of 6 bytes, words of 2, an nvram_t of 4 are the smallest sizes for
which a block, a word and nvram_t differ; 16 and 4 for the widths of the size and
the index let both be reached; five commands allow read, modify and two writes
with a repetition. `tone_map`: lengths 1, 3, 9, 10 and 58 are those at which the
number of digits changes; three runs put a run at the end of a byte, in its
middle and across it; 2 bytes per line for 16. `CHECK_DEADLOCK FALSE` is said
where the function returns (`tone_map`) or the bound on commands is reached
(`nvram`).

**Fairness.** `FairSpec` assumes that the program keeps running
(`WF_vars(Run)`: one thread, a non-blocking libpcap handle, no lock) and in
`SndRcv` that time passes (`WF_vars(Tick)`: CLOCK_MONOTONIC). Nothing is assumed of
the network, the stations or libpcap: no fairness on answers, arrivals or losses.
`Call` and `Close` are the caller's choice and are not fair. `CallsReturn` and
`Terminates` therefore hold with a network that is silent for ever. In `Command`
the program runs on (`WF_vars(Run)`) while devices come and go as they like;
`Transfer` promises a decision and no progress of the stations. `ConfFile`,
`Nvram` and `Tonemap` have safety properties only.

## 4. Proofs

All theorems are about the specifications TLC runs, for every value of the
constants that satisfies the assumption of the module; where a theorem needs
more, its statement says so. Each component has an inductive invariant
(`Inv` in its proof module unless named below), shown to hold initially and to be
preserved by every action, from which its theorems follow. All invariants and
action properties of the passing runs are proved.

*Defrag*, for every set of frames and chains of any length: `TypeCorrect`,
`GroupsAreKept`, `PacketsAreReturned`, `CrashesExactly`. `GroupingInv` says that
the groups are those of the frames looked at so far, in the order of their first
frames; `BuildingInv` that the packets chained are those of the good groups
walked, and that a bad group after a good one is the last one walked, which is
where `last_packet` is NULL. That the loops compute `Frames!Packets` needs that
a complete group has each fragment number once, hence that a set of `nf + 1`
positions with different fragment numbers up to `nf` is in order only one way
(`Positions_proofs`). The inductions are over sets of numbers (`SetInduction`),
since the library's induction theorems, over an operator, cannot be used.

*SndRcv*, for every set of stations and calls, any number of calls, fragments,
losses and delays.
- `TypeCorrect`: also that the clock of a call stops one unit after its timeout.
- `NeverLeaks`: `NothingLeaks`. Invariant `OwnedInv` says which memory can be
  owned at each point of a call (for instance, received frames only from the
  receive loop on).
- `BroadcastsWait`: `BroadcastWaits`. Invariant `WaitInv` says that such a call
  reaches the reassembly only with its time over.
- `PacketsWhole`, `WholeReturned`, `EmptyIsCutShort`, with `AnswerInv`: a request is
  pending or answered, never both (`RequestInv`); what is on its way, queued or
  received are fragments of answers, and those of one answer agree in count and
  number (`FramesInv`); fragments of an answer keep their order through the
  network, the queue and the call (`OrderInv`); the response is `Packets` of what
  was received, and the loop is left early only with a frame (`EndInv`). The code
  tells messages apart by sender and an 8-bit number, so the three theorems are
  about the states where that is enough, `NumbersDiffer`. Without it they are
  false: two messages 256 apart in one call are reassembled as one.
- `NumbersStayApart`, `AnswersAreWhole`: with no more messages of a station on a
  channel than there are numbers (`NumbersFit`) that condition always holds, and
  the first two theorems need none. `NumberInv` says that a station numbers its
  messages in the order it answers, `CountInv` that it answers each request once.
- `CallsExchange`: on such channels `SndRcv` implements `Exchange`
  (`ImplementsExchange`, all of it: it has no fairness). Each step is a step of
  `Exchange` or not seen (`ExchangeStep`). A packet is an answer that was waiting
  (`PacketIsAnAnswer`); after the return it is not, since a fragment 0 of it that were still in
  the queue or on the network would have to follow one received (`OrderInv`).
- `EmptyIsCutShort` is `EarlyEmptyIsCutShort`, for answers of any number of
  fragments: a call that returns nothing before its time is over had frames of
  answers, and had none of these answers whole. That it was answered by nobody
  (`EmptyMeansSilence`) is true of answers in one fragment, as in `calls_mixed`, and
  false with more (`tonemap_fragments`).

*FileAccess*, for any destinations, sizes, losses, delays and mix-ups.
- `TypeCorrect`. `TypeOK` alone is not inductive: that `sta_idx` and
  `retry_count` stay in range when a step increases them depends on the loop
  being active (`LoopsInRange`).
- `NeverSkips`: `NoFragmentSkipped`, for any number of destinations, any loss,
  delay or mix-up of answers, and past the wrap of the counter. Invariant
  `FollowInv`: an answer that reports success comes from a station that stores
  everything up to its fragment (`AnswersFollow`), and while the loop is active
  the station(s) addressed store everything before `fragment` (`NextFollows`).
  Both are needed because the next request is built from the answer, not from the
  request it answers.
- `OneDestinationIsWritten`: a write command with one destination and fewer than
  `TotalMod` fragments (`OneWrite`) returns 0 only when the file is complete there.
  `FileInv` adds that all
  messages are about this file and from this destination, that nothing else is
  stored, and that the destination is left with 0 only after the answer to the
  last fragment. The restriction to one destination is needed (section 3).
- `OneSaveIsInOrder`: a save from one station of fewer than `TotalMod` fragments
  (`SavesFromOne`) satisfies `InTimeIsSaved`: it returns 0 only with each fragment in
  the output file once, in order, if answers are in time and the file can be opened.
  `SaveInv`: no request or answer is left over when the next one is sent, and the
  output file is the beginning of the file up to the fragment asked for. Both
  conditions of the property are needed: section 3 shows what a late answer and a
  file that cannot be opened do.
- `OneDestinationIsATransfer` (at the end of `FileAccess_proofs`): such a write command implements
  `TransferSafety`, the initial states and steps of `Transfer`. Invariant
  `FilesAreBeginnings`: every station's file is a beginning of the file written,
  so that a station that serves a request has the fragment already or writes the
  next one (`ServeCarriesOut`, from `NoFragmentSkipped`).

*Command*, for every finite set of devices in any order, all command lines, any
number of changes of the devices: `TypeCorrect`, `UsageErrorsSendNothing`,
`SuccessIsEarned`, `HalfUpgradesAreReported`, `WhatIsLeftOpen`,
`IndexStaysStable`, `LostInKnownWays`, `EveryInterface`. `CommandAssumption` says
that no two interfaces have one name and that the order of the list tells any
two apart (length of the name, then its characters). The invariant has three
parts. `FlowInvs`: how many calls the log holds at each point, and what the last
entry has to do with the value on its way to become the exit code. `OpenInv`:
handles and answers held are counted by the entries that forget them
("nonblock", "output"), plus the channel in use. `ListInv`, `LoopInv` and the
rest: the list is sorted and names no device twice, also while those without an
address are taken out of it, and what `find_local_sta` goes through is such a
list. `SuccessIsEarned` needs besides that `find_local_sta` remembers every failure
(`LoopAnswered`); `LostInKnownWays` that an argument is read only once the count was
accepted, for each handler's own counts. The proof of `TypeCorrect` showed that `TypeOK` was wrong where
there is no device at all: `fw_upgrade` makes two calls whatever the devices, and
`run` was bounded by their number; its bound is now at least 2.

*Nvram*, for all sizes of a block, of `nvram_t`, of a word and of files, and any
number of commands: `FactoryDataStaysKept`, `BlocksMakeTheWholeFile`.
`NvramAssumption` says what is true of the code's numbers (blocks of 1024 bytes, an
`nvram_t` of 968, checksums of 4 bytes, 16 bits of size and 8 of index): `nvram_t` fits a block, both are whole words, a size that fits the request
has few enough blocks for the index. `RequestInv`: a request waiting for its answer sends
a block of the file as it still is; `FactoryInv`: file and station differ from
the factory's data in the MAC address at most, as long as every read brought
data; `StoredInv`: the blocks stored agree with the file.

*Tonemap*, for any number of runs of every length a station can encode and
lines of any length: `RunsStayKept`, `WholeMapIsListed`. A length digit is above
every modulation, so the next nibble tells where the loop is (`WhereItIs`):
between two runs, after a modulation or after its first digit. `RunsInv` says for
each what is listed and what is open, `LinesInv` that whole lines have been printed.
`FlattenSeq` is a recursive function; the lemmas first show that it exists and
what it is for one part more, by induction over the positions.

*ConfFile*, for every file, update and edit, values of any number of levels,
objects of any size, calibrations of any length, and any number of commands.
- The recursive functions of the model (`Parses`, `json_value_equals`, `Merged`,
  `json_value_merge`, `Same`, `IsOverlay`, `Power`, `Compensated`, `Packed`) are
  each the choice of a function that satisfies an equation. That there is one is
  the first thing proved: `RecursionByRank` makes a solution for every recursion
  over members of a smaller rank, and a value inside another one has fewer levels
  (`Height`, `ItemIsLower`, `ValueIsLower`); loops have `RecursionByCount`.
  `ParsesDef`, `EqualsDef`, `MergeDef`, `SameDef`, `OverlayDef` are the equations.
  What a function does then follows by induction over the levels, as an induction
  over sets of numbers.
- `MergeIsOverlay`: a merge that succeeds and loses nothing inside lays the
  update over the configuration. `AfterInv` is the invariant of its loop: the
  names whose turn has come have what they are to have, all others what they had.
  It needs that no name is twice in an object (`Distinct`), which is what the
  parser ensures, and that the merge of two members keeps to their levels
  (`MergeKeepsLevels`). A merge leaves a value that the parser takes.
- `CalibratedKeepsNotches`: the carriers that `Packed` puts together are those that
  `Backoffs` will read (`SumHasDigits`), the loop over the lines changes what a
  correct line names and no notch (`CompensatedKeeps`), and a double has every
  number of an int (`DoubleFacts`, which needs `DoubleAssumption`: the lost bits
  are no more than those of an int).
- `AppliedOutcome`: every outcome of every edit of a configuration that can be
  read is refused, or is the configuration with the values `IsEdited` names and
  nothing else; the text of the edit is the only one it adds.
- `TypeCorrect`, `NoTempIsLeft`, `ReadMerges`, `WritesAreRead`, `EditsAreExact`,
  `CalibrationsKeepNotches`, `FilesStayReadable`: the properties of the run. `Inv`
  adds to `TypeOK` where temporary files can be (`TempsInv`), what the ones a read
  has fetched are (`FetchInv`: the device's files, or `fault` says why not), and
  that after a write without a fault the device has that file and no update
  (`WriteInv`). `TypeOK` says of each file that it is a value of at most the
  parser's levels, escaped or not, garbled or absent: a merge or an edit that made a
  deeper value would break it.
- `FilesStayReadable` needs that a merge and an edit take every text from one of
  their inputs: what a merge returns has a control character only where one of the
  two values has (`MergeIsPlain`), and what an edit does only where the
  configuration or its own text has.
- `ConfFileAssumption` says what the command line can ask for and what a device
  can hold: any value, any edit with arguments of the right kind.
  `NameAssumption` says that the names in the code are strings.
  `JsonAssumption`: values have at least 4 levels (20 in the code), since `hpav`
  and its array `nmk` have to fit.

**Only model-checked:** the liveness properties `CallsReturn`, `Terminates`,
`Ends` and the fairness of `ImplementsTransfer`: fairness and ENABLED are outside
the prover.

## 5. Not modelled

- MD5, and the grammar of the JSON parser: third-party code the tool uses as a
  function.
- The structures of the MMEs (declarations), the encoding of payloads, and what
  is printed, except for the tone map.
- `hpav_cm_encrypted_payload_sndrcv`, `hpav_mme_sniff` and `hpav_send_raw`: no
  command of the tool calls them. The key derivations of `test_secu`.
- In `Json`, the length of a text (`json_serialization_size` leaves no room for the
  terminating NUL, `parson.c:1215`), control characters in the names of members and
  the escape of NUL. In `Command` and `ConfEdit`, the characters of an argument or a
  file: `cm_amp_map` converts two characters that no NUL follows
  (`test_hpav.c:238`), and more than 4096 lines of a calibration file overrun two
  arrays (`conf_file.c:583`).
- In `FileAccess`, the block checksum and what `scan-sta`, `read` and `listdir`
  write or print. In `Command`, the values handlers put into requests and the
  chaining of errors.

## 6. Plan

1. *Done:* reassembly, calls, transfers and their refinement, the program around
   them, configuration, NVRAM, tone map.
2. *Done:* proofs of the invariants and action properties of every component, and
   of the refinements of `Transfer` and `Exchange`.
3. The functions of `hpav_mme.c` that no command uses yet, when one does.
4. A specification of what `read`, `write` and `modify` promise, without
   transfers and temporary files, that `ConfFile` implements.
