----------------------------- MODULE MCConfFile -----------------------------
(* ConfFile with small configurations, and every kind of edit.             *)
EXTENDS ConfFile

Text(s) == String(s, "plain")
Numbers(s) == Array([i \in DOMAIN s |-> Number(s[i])])

\* Two carriers to a number, eight in all: the second and third are in ranges
\* that are looked at, the sixth in one that is not.
MCNotched == <<<<1, 1>>, <<2, 2>>, <<20, 21>>, <<30, 31>>, <<40, 41>>,
               <<50, 51>>, <<5, 5>>>>
AmMap == Numbers(<<19, 52, 15 * 16 + 13, 14>>)

MCMachines == [wide : BOOLEAN, saturates : BOOLEAN]

Hpav(name) ==
    Object(<<Member("nmk", Numbers(<<9, 9, 9, 9>>)), Member("nid", Number(5)),
             Member("avln_hfid", name)>>)

Conf(sub_version, hpav) ==
    Object(<<Member("version", Number(4)),
             Member("sub_version", Number(sub_version)),
             Member("hpav", hpav),
             Member("cp", Object(<<Member("force_role", Text("sta"))>>)),
             Member("phy", Object(<<Member("am_infile", AmMap),
                                    Member("direct_afe_tx_idx", Number(9))>>)),
             Member("eos", Object(<<Member("spi_clock_idx", Number(1))>>))>>)

\* Complete; of an older version, with a short key and no room for more beside
\* it; with a name that has a control character as an escape; without its parts.
MCConfigurations ==
    {Conf(1, Hpav(Text("a"))),
     Conf(0, Object(<<Member("nmk", Numbers(<<9, 9, 9>>)), Member("a", Number(1)),
                      Member("b", Number(1)), Member("c", Number(1)),
                      Member("d", Number(1)), Member("e", Number(1)),
                      Member("f", Number(1))>>)),
     Escaped(Conf(1, Hpav(String("a", "control")))),
     Object(<<Member("hpav", Object(<<>>)), Member("mac", Number(3))>>)}

\* New and changed values, with an array; a number in place of an object and an
\* object in place of a number; more members than fit; a control character as an
\* escape; no object; no JSON.
MCUpdates ==
    {Object(<<Member("hpav", Object(<<Member("avln_hfid", Text("b")),
                                      Member("nid", Number(5)),
                                      Member("u_hfid", Text("u"))>>)),
              Member("version", Number(5)),
              Member("phy", Object(<<Member("am_infile", Numbers(<<7>>))>>))>>),
     Object(<<Member("cp", Number(1)),
              Member("version", Object(<<Member("nid", Number(1))>>))>>),
     Object(<<Member("mac", Number(1)), Member("use_nvram", Boolean(TRUE)),
              Member("a", Number(1)), Member("b", Number(1)), Member("c", Number(1)),
              Member("d", Number(1)), Member("e", Number(1))>>),
     Escaped(Object(<<Member("hpav",
                             Object(<<Member("u_hfid", String("u", "control"))>>))>>)),
     Numbers(<<1>>),
     Garbled}

Line(first, last, compensate) ==
    [first |-> first, last |-> last, compensate |-> compensate, whole |-> TRUE]

Calibration(lines) == [name |-> "psd_cali", readable |-> TRUE, lines |-> lines]

Calibrations ==
    {Calibration(<<Line(0, 7, -6)>>),
     Calibration(<<Line(3, 5, 10), Line(5, 7, -28), Line(6, 6, 3)>>),
     Calibration(<<Line(7, 8, 2)>>), Calibration(<<Line(7, 8, 1)>>),
     Calibration(<<[Line(0, 0, 2) EXCEPT !.whole = FALSE]>>),
     [name |-> "psd_cali", readable |-> FALSE, lines |-> <<>>]}

Hfid(name, text, length) == [name |-> name, text |-> text, length |-> length]

MCEdits ==
    Calibrations \cup
    {[name |-> "mac", number |-> n] : n \in {7, BadNumber}} \cup
    {[name |-> name, word |-> w] :
        name \in {"enable_nvram", "store_key_change"}, w \in {"true", "yes"}} \cup
    {[name |-> "role", word |-> w] : w \in {"cco", "true"}} \cup
    {[name |-> "nmk", key |-> k] : k \in {<<1, 2, 3, 4>>, <<1, 2>>}} \cup
    {[name |-> "psd_limit", number |-> n] : n \in {-50, -54, -95, -47}} \cup
    {[name |-> "spi_slave_clk", number |-> n] : n \in {4, 5}} \cup
    {Hfid("avln_hfid", String("a", "control"), 64), Hfid("avln_hfid", Text("c"), 65),
     Hfid("m_hfid", Text("m"), 1), Hfid("m_hfid", String("m", "invalid"), 1),
     Hfid("u_hfid", Text("u"), 1), [name |-> "none"]}
=============================================================================
