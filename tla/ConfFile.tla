------------------------------ MODULE ConfFile ------------------------------
(***************************************************************************)
(* The configuration commands of hpav_test (hpav_test/conf_file.c): read,  *)
(* write, modify and parse, one after the other, on one file of the host   *)
(* and one device.  read fetches the device's inka.conf and                *)
(* inka_update.conf into temporary files and merges them; write deletes    *)
(* the second and replaces the first.  The transfers are those of          *)
(* FileAccess, reduced to what they can leave behind.                      *)
(***************************************************************************)
EXTENDS ConfEdit

CONSTANTS
    Configurations,  \* what inka.conf can hold
    Updates,         \* what the device can put in inka_update.conf
    Edits,           \* the edits of modify
    MaxCommands,     \* bound: commands
    LateAnswers,     \* answers can come after their transfer has given up
    DiskErrors       \* the host's file cannot be written, or not all of it

EditNames == [
    number |-> {"mac", "psd_limit", "spi_slave_clk"},
    word   |-> {"enable_nvram", "store_key_change", "role"},
    text   |-> {"avln_hfid", "m_hfid", "u_hfid"}]

\* The edits a command line can ask for.
EveryEdit ==
    [name : EditNames.number, number : Int]
    \cup [name : EditNames.word, word : STRING]
    \cup [name : EditNames.text, text : Texts, length : Nat]
    \cup [name : {"nmk"}, key : Seq(Int)]
    \cup [name : {"psd_cali"}, readable : BOOLEAN, lines : Seq(Lines)]
    \cup [name : {"none"}]

ASSUME ConfFileAssumption ==
    /\ Configurations \subseteq Files \ {Absent, Garbled}
    /\ Updates \subseteq Files \ {Absent}
    /\ Edits \subseteq EveryEdit
    /\ MaxCommands \in Nat /\ LateAnswers \in BOOLEAN /\ DiskErrors \in BOOLEAN

VARIABLES
    host,      \* the user's file
    inka,      \* the device's inka.conf
    update,    \* the device's inka_update.conf
    tmp,       \* the two temporary files
    pc,
    job,       \* the command: [name], or [name, edit] once modify edits
    exists,    \* inka_update_exist
    late,      \* an answer of this command's first transfer is still to come
    rv,        \* what the command returned
    fault,     \* history: what went wrong around a command that went on
    written,   \* history: the file last written without a fault, while
               \* nothing has touched the device since
    commands   \* commands so far

device == <<inka, update>>
vars == <<host, device, tmp, pc, job, exists, late, rv, fault, written, commands>>

NoTemps == [inka |-> Absent, update |-> Absent]
Idle == [name |-> "none"]

Init ==
    /\ host \in Configurations \cup {Absent, Garbled}
    /\ inka \in Configurations
    /\ update \in Updates \cup {Absent}
    /\ tmp = NoTemps
    /\ pc = "idle"
    /\ job = Idle
    /\ exists = FALSE
    /\ late = FALSE
    /\ rv = 0
    /\ fault = "none"
    /\ written = Absent
    /\ commands = 0

Go(to) == pc' = to

Begin(command, at) ==
    /\ pc = "idle"
    /\ commands < MaxCommands
    /\ commands' = commands + 1
    /\ job' = command
    /\ exists' = FALSE
    /\ late' = FALSE
    /\ fault' = "none"
    /\ Go(at)

Ends(value) == Go("idle") /\ rv' = value

\* Mutated form: the temporary files stay when a step fails.
RemoveTempsOnSuccess == tmp' = IF rv' = 0 THEN NoTemps ELSE tmp

RemoveTemps == tmp' = NoTemps

\* Mutated form: a value that is not there is written all the same.
SerialisedUnchecked(value) == {[file |-> value, went |-> "none"]}

\* Mutated form: the file is opened before there is a text to write.
SerialisedTruncating(value) ==
    IF value = NoValue THEN {[file |-> Garbled, went |-> "failed"]}
    ELSE {[file |-> value, went |-> "none"]}

\* What json_serialize_to_file leaves in the file, for each way it can go.
Serialised(value) ==
    IF value = NoValue THEN {[file |-> host, went |-> "failed"]}
    ELSE {[file |-> value, went |-> "none"]}
         \cup IF DiskErrors
              THEN {[file |-> f, went |-> "disk"] : f \in {host, Garbled}}
              ELSE {}

-----------------------------------------------------------------------------
(* read.                                                                   *)

BeginRead ==
    /\ Begin([name |-> "read"], "temps")
    /\ UNCHANGED <<host, device, tmp, rv, written>>

CreateTemps ==
    /\ pc = "temps"
    /\ \/ Go("save inka") /\ rv' = rv
          /\ tmp' = [inka |-> Garbled, update |-> Garbled]
       \/ Ends(-1) /\ RemoveTemps
    /\ UNCHANGED <<host, device, job, exists, late, fault, written, commands>>

SaveInka ==
    /\ pc = "save inka"
    /\ inka # Absent
    /\ tmp' = [tmp EXCEPT !.inka = inka]
    /\ late' \in {FALSE, LateAnswers}
    /\ Go("save update")
    /\ UNCHANGED <<host, device, job, exists, rv, fault, written, commands>>

\* A repeated request is answered twice: a fragment is in the file twice.
SaveInkaTwice ==
    /\ pc = "save inka"
    /\ LateAnswers /\ inka # Absent
    /\ tmp' = [tmp EXCEPT !.inka = Garbled]
    /\ fault' = "late"
    /\ late' \in BOOLEAN
    /\ Go("save update")
    /\ UNCHANGED <<host, device, job, exists, rv, written, commands>>

SaveInkaFails ==
    /\ pc = "save inka"
    /\ Ends(-1)
    /\ RemoveTemps
    /\ UNCHANGED <<host, device, job, exists, late, fault, written, commands>>

SaveUpdate ==
    /\ pc = "save update"
    /\ update # Absent
    /\ tmp' = [tmp EXCEPT !.update = update]
    /\ exists' = TRUE
    /\ Go("merge")
    /\ UNCHANGED <<host, device, job, late, rv, fault, written, commands>>

\* Whatever the reason, a transfer that fails means that there is no update.
SaveUpdateFails ==
    /\ pc = "save update"
    /\ exists' = FALSE
    /\ Go("merge")
    /\ fault' = IF update = Absent THEN fault ELSE "unseen"
    /\ UNCHANGED <<host, device, tmp, job, late, rv, written, commands>>

\* The late answer, with a fragment of inka.conf, is taken for the first
\* answer about the update, and its number for the fragment's.
SaveUpdateLate ==
    /\ pc = "save update"
    /\ late
    /\ \E saved \in {inka, Garbled} : tmp' = [tmp EXCEPT !.update = saved]
    /\ exists' = TRUE
    /\ late' = FALSE
    /\ fault' = "late"
    /\ Go("merge")
    /\ UNCHANGED <<host, device, job, rv, written, commands>>

Merge ==
    json_value_merge[<<json_parse_file(tmp.inka), json_parse_file(tmp.update)>>]

MergeFails ==
    /\ pc = "merge"
    /\ exists /\ ~Merge.ok
    /\ Ends(-1)
    /\ RemoveTemps
    /\ UNCHANGED <<host, device, job, exists, late, fault, written, commands>>

\* The result of the merge, or inka.conf alone, goes to the user's file.
EndRead ==
    /\ pc = "merge"
    /\ exists => Merge.ok
    /\ \E s \in Serialised(IF exists THEN Merge.value
                           ELSE json_parse_file(tmp.inka)) :
           /\ host' = s.file
           /\ Ends(IF s.went = "none" THEN 0 ELSE -1)
           /\ fault' = CASE s.went = "disk" -> "disk"
                         [] s.went # "disk" /\ fault = "none" /\ exists
                              /\ ~Merge.whole -> "part"
                         [] OTHER -> fault
    /\ RemoveTemps
    /\ UNCHANGED <<device, job, exists, late, written, commands>>

-----------------------------------------------------------------------------
(* write.                                                                  *)

BeginWrite ==
    /\ Begin([name |-> "write"], "delete")
    /\ UNCHANGED <<host, device, tmp, rv, written>>

\* Mutated form: the update is not deleted.
DeleteSkipped ==
    /\ pc = "delete"
    /\ Go("write")
    /\ UNCHANGED <<host, device, tmp, job, exists, late, rv, fault, written,
                   commands>>

\* Whether inka_update.conf was deleted is not looked at.  An answer that does
\* not come in the time of three requests can come later.
Delete ==
    /\ pc = "delete"
    /\ \/ update' = Absent /\ late' \in {FALSE, LateAnswers} /\ fault' = fault
       \/ update # Absent /\ update' = update /\ late' = FALSE /\ fault' = "kept"
    /\ Go("write")
    /\ UNCHANGED <<host, inka, tmp, job, exists, rv, written, commands>>

WriteInka ==
    /\ pc = "write"
    /\ host # Absent
    /\ inka' = host
    /\ written' = IF fault = "none" THEN host ELSE Absent
    /\ Ends(0)
    /\ UNCHANGED <<host, update, tmp, job, exists, late, fault, commands>>

\* There is no file to write, the device refuses it, or falls silent half way.
WriteFails ==
    /\ pc = "write"
    /\ inka' \in IF host = Absent THEN {inka} ELSE {inka, Garbled, host}
    /\ written' = Absent
    /\ Ends(-1)
    /\ UNCHANGED <<host, update, tmp, job, exists, late, fault, commands>>

\* The late answer to the deletion has no fragments: it ends the transfer after
\* the first request, successfully.
WriteEndsEarly ==
    /\ pc = "write"
    /\ late /\ host # Absent
    /\ inka' \in {inka, Garbled, host}
    /\ written' = Absent
    /\ fault' = "late"
    /\ late' = FALSE
    /\ Ends(0)
    /\ UNCHANGED <<host, update, tmp, job, exists, commands>>

-----------------------------------------------------------------------------
(* modify and parse: no device, so each is one step.                       *)

Refuses ==
    LET conf == json_parse_file(host) IN ~Usable(conf)

\* The file is written back only if the function succeeded; whether that
\* worked is not looked at.
Modify ==
    /\ pc = "idle" /\ commands < MaxCommands
    /\ commands' = commands + 1
    /\ exists' = FALSE /\ late' = FALSE
    /\ ~Refuses
    /\ \E edit \in Edits :
        /\ ~Undefined(json_parse_file(host), edit)
        /\ job' = [name |-> "modify", edit |-> edit]
        /\ \E o \in Applied(json_parse_file(host), edit) :
               /\ rv' = Returned(edit, o.result)
               /\ IF o.result = 0
                  THEN \E s \in Serialised(o.value) : host' = s.file /\ fault' = s.went
                  ELSE host' = host /\ fault' = "none"
    /\ UNCHANGED <<device, tmp, pc, written>>

\* Not enough arguments, or a file that is no JSON: the value is still -1.
ModifyRefused ==
    /\ Begin([name |-> "modify"], "idle")
    /\ Refuses
    /\ rv' = -1
    /\ UNCHANGED <<host, device, tmp, written>>

\* The calibration file makes the program use what is not there.
ModifyUndefined ==
    \E edit \in Edits :
        /\ Begin([name |-> "modify", edit |-> edit], "undefined")
        /\ ~Refuses
        /\ Undefined(json_parse_file(host), edit)
        /\ UNCHANGED <<host, device, tmp, rv, written>>

conf_file_parse ==
    /\ Begin([name |-> "parse"], "idle")
    /\ LET conf == json_parse_file(host) IN
           rv' = CASE conf = NoValue -> EXIT_USAGE
                   [] conf # NoValue /\ ~Usable(conf) -> -1
                   [] OTHER -> 0
    /\ UNCHANGED <<host, device, tmp, written>>

-----------------------------------------------------------------------------
\* The device keeps a change of its own in inka_update.conf.  During a read it
\* is as if it did so before or after it; a write is not to race with it.
DeviceUpdates ==
    /\ pc = "idle"
    /\ commands < MaxCommands
    /\ update' \in Updates \ {update}
    /\ written' = Absent
    /\ job' = Idle
    /\ UNCHANGED <<host, inka, tmp, pc, exists, late, rv, fault, commands>>

Ended ==
    /\ pc = "undefined" \/ (pc = "idle" /\ commands = MaxCommands)
    /\ UNCHANGED vars

Next ==
    \/ BeginRead \/ CreateTemps
    \/ SaveInka \/ SaveInkaTwice \/ SaveInkaFails
    \/ SaveUpdate \/ SaveUpdateFails \/ SaveUpdateLate
    \/ MergeFails \/ EndRead
    \/ BeginWrite \/ Delete \/ WriteInka \/ WriteFails \/ WriteEndsEarly
    \/ Modify \/ ModifyRefused \/ ModifyUndefined \/ conf_file_parse
    \/ DeviceUpdates \/ Ended

Spec == Init /\ [][Next]_vars

-----------------------------------------------------------------------------
(* What the properties compare.                                            *)

\* The same configuration, in whatever order its members are.
Same[p \in JSON \X JSON] ==
    LET a == p[1]
        b == p[2]
    IN /\ a.type = b.type
       /\ IsObject(a) =>
              /\ Names(a) = Names(b)
              /\ \A name \in Names(a) : Same[<<json_object_get_value(a, name),
                                             json_object_get_value(b, name)>>]
       /\ a.type = "array" =>
              /\ DOMAIN a.items = DOMAIN b.items
              /\ \A i \in DOMAIN a.items : Same[<<a.items[i], b.items[i]>>]
       /\ a.type \notin {"array", "object"} => a = b

\* r is a with b over it: names of either, b's values, objects one inside the
\* other.  What is an object stays one.
IsOverlay[p \in JSON \X JSON \X JSON] ==
    LET r == p[1]
        a == p[2]
        b == p[3]
        In(v, name) == json_object_get_value(v, name)
    IN /\ ~IsObject(a) => Same[<<r, b>>]
       /\ IsObject(a) /\ ~IsObject(b) => Same[<<r, a>>]
       /\ IsObject(a) /\ IsObject(b) =>
              /\ IsObject(r) /\ Names(r) = Names(a) \cup Names(b)
              /\ \A name \in Names(a) \ Names(b) : Same[<<In(r, name), In(a, name)>>]
              /\ \A name \in Names(b) \ Names(a) : Same[<<In(r, name), In(b, name)>>]
              /\ \A name \in Names(a) \cap Names(b) :
                     IsOverlay[<<In(r, name), In(a, name), In(b, name)>>]

\* The object new is old with the values of these names, and nothing else.
IsWith(new, old, values) ==
    /\ Names(new) = Names(old) \cup DOMAIN values
    /\ \A name \in Names(new) :
           json_object_get_value(new, name) =
               IF name \in DOMAIN values THEN values[name]
               ELSE json_object_get_value(old, name)

\* The same for an object inside of a configuration.
IsWithIn(new, old, part, values) ==
    LET Part(conf) == json_object_get_object(conf, part)
    IN /\ IsWith(new, old, [name \in {part} |-> Part(new)])
       /\ Part(old) # NoValue /\ Part(new) # NoValue
       /\ IsWith(Part(new), Part(old), values)

\* What an edit that succeeds is to make of a configuration.
IsEdited(new, old, edit) ==
    LET key == json_object_get_array(json_object_get_object(old, "hpav"), "nmk").items
        newkey == Array([i \in DOMAIN key |-> IF i <= 4 THEN Number(edit.key[i])
                                              ELSE key[i]])
        Version(name) == json_object_get_number(old, name)
    IN CASE edit.name = "mac" -> IsWith(new, old, [mac |-> Number(edit.number)])
         [] edit.name = "enable_nvram" ->
               IsWith(new, old, [use_nvram |-> Boolean(edit.word = "true")])
         [] edit.name = "store_key_change" ->
               IsWithIn(new, old, "hpav",
                        [host_set_key_save |-> Boolean(edit.word = "true")])
         [] edit.name = "nmk" ->
               IsWithIn(new, old, "hpav", [nmk |-> newkey, nid |-> Number(0)])
         [] edit.name = "role" ->
               IsWithIn(new, old, "cp", [force_role |-> String(edit.word, "plain")])
         [] edit.name \in EditNames.text ->
               IsWithIn(new, old, "hpav", [name \in {edit.name} |-> edit.text])
         [] edit.name = "psd_limit" ->
               IsWithIn(new, old, "phy",
                        [direct_afe_tx_idx |-> Number((edit.number + 95) \div 3)])
         [] /\ edit.name = "spi_slave_clk"
            /\ Version("version") = 4 /\ Version("sub_version") > 0 ->
               IsWithIn(new, old, "eos", [spi_clock_idx |-> Number(edit.number)])
         [] OTHER -> new = old

\* What a calibration with these lines is to leave of the numbers of am_infile.
\* Apart from the first, no carrier changes that no correct line names; none
\* becomes notched, and none that is becomes usable.  A number that was one of
\* four bits a carrier stays one, unless a long is wider than an int and its
\* first carrier, by a shift into the sign (conf_file.c:644), fills the upper
\* half: the next calibration reads such a number as other carriers.
KeepsNotches(new, old, lines) ==
    LET Of(numbers, m, place) == Digit(numbers[m], place)
        Named(m, place) ==
            \E i \in DOMAIN lines :
                /\ PerNumber * (m - 1) + place \in lines[i].first..lines[i].last
                /\ Correct(lines[i].compensate)
    IN \A m \in 2..Len(old) : old[m] \in 0..(IntMod - 1) =>
          IF new[m] \in 0..(IntMod - 1)
          THEN \A place \in 0..(PerNumber - 1) :
                   /\ Of(old, m, place) = PSD_Notched <=> Of(new, m, place) = PSD_Notched
                   /\ ~Named(m, place) => Of(new, m, place) = Of(old, m, place)
          ELSE Of(old, m, 0) >= 8 \/ Named(m, 0)

-----------------------------------------------------------------------------
(* Properties.                                                             *)

\* The program's variables have the values the code can give them; an edit
\* that is refused returns 2, -1, -2 or -3.
TypeOK ==
    /\ {host, inka, update, tmp.inka, tmp.update} \subseteq Files
    /\ tmp = [inka |-> tmp.inka, update |-> tmp.update]
    /\ pc \in {"idle", "temps", "save inka", "save update", "merge", "delete",
               "write", "undefined"}
    /\ job.name \in {"none", "read", "write", "modify", "parse"}
    /\ exists \in BOOLEAN /\ late \in BOOLEAN
    /\ rv \in {0, -1, EXIT_USAGE, -2, -3}
    /\ fault \in {"none", "late", "unseen", "kept", "part", "disk"}
    /\ commands \in 0..MaxCommands

\* No command leaves a temporary file, whichever of its steps fails.
TempFilesRemoved == pc \in {"idle", "undefined"} => tmp = NoTemps

ReadOk == pc = "idle" /\ job.name = "read" /\ rv = 0

\* A read that returns 0 has written the device's configuration with its update
\* over it: all of both, nothing else.  Three exceptions: the update could not be
\* fetched, which is taken for "may not exist" (conf_file.c:117), an answer came
\* late, and an object inside of the configuration had no room for the update's
\* values, which is not looked at (parson.c:1781).
ReadIsMerged ==
    (ReadOk /\ fault \notin {"late", "part"}) =>
        /\ host \in JSON /\ Content(inka) \in JSON
        /\ IF update = Absent \/ fault = "unseen" THEN Same[<<host, Content(inka)>>]
           ELSE /\ Content(update) \in JSON
                /\ IsOverlay[<<host, Content(inka), Content(update)>>]

\* A file that was written and is read back, with nothing in between, is the
\* same configuration, also if the device had an update when it was written.
\* Two exceptions: the update could not be deleted, which write does not look at
\* (conf_file.c:166), so that the next read puts it over what was written; and
\* an answer came late, to the write or to the read.
RoundTrip ==
    (ReadOk /\ fault # "late" /\ written # Absent) =>
        /\ host \in JSON /\ Content(written) \in JSON
        /\ Same[<<host, Content(written)>>]

Modifies == commands' > commands /\ job'.name = "modify" /\ pc' = "idle"

\* An edit that succeeds changes the values it names and no other; one that is
\* refused leaves the file as it was.
ModifyIsExact ==
    [][Modifies =>
          /\ rv' # 0 => host' = host
          /\ (rv' = 0 /\ fault' = "none" /\ job'.edit.name # "psd_cali") =>
                IsEdited(host', Content(host), job'.edit)]_vars

\* A calibration touches nothing but am_infile, and keeps there what it is to.
CalibrationKeepsNotches ==
    [][(Modifies /\ rv' = 0 /\ fault' = "none" /\ job'.edit.name = "psd_cali") =>
          LET Am(conf) == json_object_get_array(json_object_get_object(conf, "phy"),
                                                "am_infile")
              old == Content(host)
          IN \/ host' = old
             \/ /\ IsWithIn(host', old, "phy", [am_infile |-> Am(host')])
                /\ KeepsNotches(AmNumbers(host'), AmNumbers(old), job'.edit.lines)]_vars

Readable(file) == json_parse_file(file) # NoValue

\* The parser takes the file, and what the serialiser makes of it is refused.
Escapes(file) == file.type = "escaped" /\ ~Printable[file.value]

\* A file that could be parsed is made one that cannot in three ways only: the
\* disk is full; a name with a control character is put in; or a file holds one
\* as an escape (parson.c:463), and any edit of it, and any read of the device
\* that takes something from it, writes it without (parson.c:854).
StaysReadable ==
    [][(Readable(host) /\ ~Readable(host')) =>
          \/ fault' = "disk"
          \/ /\ job'.name = "modify"
             /\ \/ Escapes(host)
                \/ /\ job'.edit.name \in {"avln_hfid", "m_hfid", "u_hfid"}
                   /\ job'.edit.text.kind = "control"
          \/ /\ job'.name = "read"
             /\ Escapes(tmp.inka) \/ (exists /\ Escapes(tmp.update))]_vars
=============================================================================
