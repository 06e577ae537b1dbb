------------------------------ MODULE ConfEdit ------------------------------
(***************************************************************************)
(* What "conf_file modify" does to a configuration: conf_file_modify and   *)
(* the functions of its table (hpav_test/conf_file.c) as operators on JSON *)
(* values.  An edit is [name, ...] with its argument parsed: a number, a   *)
(* word, a key, or the lines of a calibration file.  The outcome is the    *)
(* value the function returns and the configuration it leaves.             *)
(***************************************************************************)
EXTENDS Json, Calibration

EXIT_USAGE == 2

\* The names the edits put into a configuration, and the objects these are in.
Edited == {"mac", "use_nvram", "host_set_key_save", "nmk", "nid", "force_role",
           "avln_hfid", "m_hfid", "u_hfid", "direct_afe_tx_idx", "spi_clock_idx",
           "am_infile"}
Parts == {"hpav", "cp", "phy", "eos"}

\* They are names; no prover takes that from the quotation marks.
ASSUME NameAssumption == Edited \cup Parts \subseteq STRING

Outcome(result, value) == [result |-> result, value |-> value]
Stored(value) == IF value = NoValue THEN Outcome(-2, NoValue) ELSE Outcome(0, value)
Invalid == Outcome(-1, NoValue)

\* name becomes new in the object part of the configuration.
SetIn(conf, part, name, new) ==
    LET o == json_object_set_value(json_object_get_object(conf, part), name, new)
    IN IF o = NoValue THEN NoValue ELSE json_object_set_value(conf, part, o)

BadNumber == -1
Truth(word) == IF word \in {"true", "false"} THEN Boolean(word = "true") ELSE NoValue

conf_file_modify_enable_nvram(conf, word) ==
    IF Truth(word) = NoValue THEN Invalid
    ELSE Stored(json_object_set_value(conf, "use_nvram", Truth(word)))

conf_file_modify_store_key_change(conf, word) ==
    IF Truth(word) = NoValue THEN Invalid
    ELSE Stored(SetIn(conf, "hpav", "host_set_key_save", Truth(word)))

conf_file_modify_mac(conf, mac) ==
    IF mac = BadNumber THEN Invalid
    ELSE Stored(json_object_set_value(conf, "mac", Number(mac)))

\* Mutated form: the network ID of the old key stays.
conf_file_modify_nmk_only(conf, key) ==
    LET array == json_object_get_array(json_object_get_object(conf, "hpav"), "nmk")
    IN IF Len(key) # 4 THEN Invalid
       ELSE IF array = NoValue \/ Len(array.items) < 4 THEN Stored(NoValue)
       ELSE Stored(SetIn(conf, "hpav", "nmk", Array([i \in 1..4 |-> Number(key[i])])))

\* The key's four words go into the array; the network ID that belonged to the
\* old key is cleared.
conf_file_modify_nmk(conf, key) ==
    LET array == json_object_get_array(json_object_get_object(conf, "hpav"), "nmk")
        With(a, i) == json_array_replace_value(a, i, Number(key[i]))
        replaced == With(With(With(With(array, 1), 2), 3), 4)
    IN IF Len(key) # 4 THEN Invalid
       ELSE IF replaced = NoValue THEN Stored(NoValue)
       ELSE Stored(SetIn(SetIn(conf, "hpav", "nmk", replaced),
                         "hpav", "nid", Number(0)))

conf_file_modify_role(conf, word) ==
    IF word \notin {"cco", "sta"} THEN Invalid
    ELSE Stored(SetIn(conf, "cp", "force_role", String(word, "plain")))

\* The three names of the network and the device, of up to 64 characters.
conf_file_modify_hfid(conf, name, text, length) ==
    IF length > 64 THEN Invalid
    ELSE Stored(SetIn(conf, "hpav", name, json_value_init_string(text)))

conf_file_modify_psd_limit(conf, val) ==
    IF val > -50 \/ val < -95 \/ (-50 - val) % 3 # 0 THEN Invalid
    ELSE Stored(SetIn(conf, "phy", "direct_afe_tx_idx",
                      Number(15 - (-50 - val) \div 3)))

\* A configuration of another version is left as it is, and that is success.
conf_file_modify_spi_slave_clk(conf, idx) ==
    IF /\ json_object_get_number(conf, "version") = 4
       /\ json_object_get_number(conf, "sub_version") > 0
    THEN IF json_object_get_object(conf, "eos") = NoValue \/ idx \notin 1..4
         THEN Invalid
         ELSE Stored(SetIn(conf, "eos", "spi_clock_idx", Number(idx)))
    ELSE Outcome(0, conf)

-----------------------------------------------------------------------------
(* psd_cali.                                                               *)

AmInfile(conf) ==
    LET a == json_object_get_array(json_object_get_object(conf, "phy"), "am_infile")
    IN IF a = NoValue THEN <<>> ELSE a.items

AmNumbers(conf) ==
    [m \in DOMAIN AmInfile(conf) |-> json_value_get_number(AmInfile(conf)[m])]

conf_file_modify_psd_cali(conf, lines, before, machine) ==
    LET numbers == Calibrated(AmNumbers(conf), lines, before, machine)
    IN IF AmInfile(conf) = <<>> THEN Outcome(0, conf)
       ELSE Stored(SetIn(conf, "phy", "am_infile",
                         Array([m \in DOMAIN numbers |-> Number(numbers[m])])))

-----------------------------------------------------------------------------
(* conf_file_modify.                                                       *)

\* The objects every command on a configuration wants to see.
Usable(conf) ==
    /\ IsObject(conf)
    /\ \A part \in {"hpav", "cp", "phy"} :
           json_object_get_object(conf, part) # NoValue

Undefined(conf, edit) ==
    edit.name = "psd_cali" /\ edit.readable /\ Overruns(AmNumbers(conf), edit.lines)

\* The outcomes of the function for the edit.
Applied(conf, edit) ==
    CASE edit.name = "mac" -> {conf_file_modify_mac(conf, edit.number)}
      [] edit.name = "enable_nvram" -> {conf_file_modify_enable_nvram(conf, edit.word)}
      [] edit.name = "store_key_change" ->
            {conf_file_modify_store_key_change(conf, edit.word)}
      [] edit.name = "nmk" -> {conf_file_modify_nmk(conf, edit.key)}
      [] edit.name = "role" -> {conf_file_modify_role(conf, edit.word)}
      [] edit.name \in {"avln_hfid", "m_hfid", "u_hfid"} ->
            {conf_file_modify_hfid(conf, edit.name, edit.text, edit.length)}
      [] edit.name = "psd_limit" -> {conf_file_modify_psd_limit(conf, edit.number)}
      [] edit.name = "psd_cali" ->
            IF edit.readable
            THEN {conf_file_modify_psd_cali(conf, edit.lines, before, machine) :
                     before \in Garbage, machine \in Machines}
            ELSE {Outcome(-3, NoValue)}
      [] edit.name = "spi_slave_clk" -> {conf_file_modify_spi_slave_clk(conf, edit.number)}
      [] OTHER -> {Outcome(-4, NoValue)}

\* What conf_file_modify returns for it.
Returned(edit, result) ==
    CASE result = -1 -> EXIT_USAGE
      [] result = -4 -> -1
      [] OTHER -> result
=============================================================================
