----------------------------- MODULE MCCommand ------------------------------
(* Command with four devices and the command lines of the runs.            *)
EXTENDS Command

Device(name, number, len, ord, kind, flags, address) ==
    [name |-> name, number |-> number, len |-> len, ord |-> ord,
     kind |-> kind, flags |-> flags, mac |-> address]

\* The device called 1 sorts before eth0.
eth0 == Device("eth0", NotANumber, 4, 1, "plain", {"up"}, TRUE)
one == Device("1", 1, 1, 1, "plain", {"up"}, TRUE)
lo == Device("lo", NotANumber, 2, 1, "plain", {"loopback", "up"}, FALSE)
any == Device("any", NotANumber, 3, 1, "any", {"up"}, FALSE)

MCDevices == {eth0, one, lo, any}

\* None, one that can be used, one that cannot, and more.
MCPresent == {{}, {eth0}, {lo, any}, {one, eth0, any}}

Arg(name, number) == [name |-> name, number |-> number]
Args == {Arg("0", 0), Arg("7", 7), Arg("", 0), Arg("8", UIntMod),
         Arg("eth0", NotANumber)}

Line(fct, handler, nargs, arg, bad, words) ==
    [fct |-> fct, handler |-> handler, nargs |-> nargs, arg |-> arg,
     bad |-> bad, words |-> words]

Fewest(counts) == CHOOSE n \in counts : \A m \in counts : n <= m

\* Every handler with the fewest arguments it takes, one less and two more,
\* and with each of its MAC addresses wrong.
MmeLines ==
    {Line("test_mme", h, n, Arg("eth0", NotANumber), bad, "right") :
        h \in DOMAIN test_mme_fct_name_table, n \in 1..15,
        bad \in {{}, {0}, {1}, {6}}}

OfInterest(c) ==
    LET h == test_mme_fct_name_table[c.handler]
        least == IF -1 \in h.counts THEN 0 ELSE Fewest(h.counts)
    IN /\ c.nargs - 2 \in {least - 1, least, least + 2}
       /\ c.bad # {} => c.nargs - 2 = least + 2 /\ c.bad \subseteq h.macs

\* Transfers to one station and to those of a list, and a lone address.
FileLines ==
    {Line("test_mme", "mtk_vs_file_access_req", 5, Arg("0", 0), {}, w) :
        w \in {"right", "wrong", "all", "scan-sta"}}
    \cup {Line("test_mme", "mtk_vs_file_access_req", 3, Arg("0", 0), {}, "zero")}

\* An empty list of stations, a short and a full one, and one too long.
MCStaLines == {0, 2, StaListSize, StaListSize + 1}

OtherLines ==
    {Line(fct, "none", n, arg, bad, "right") :
        fct \in {"open_if", "reboot", "find_local_sta", "fw_upgrade",
                 "conf_file read", "nvram read"},
        n \in {0, 1, 4}, arg \in Args, bad \in {{}}}
    \cup {Line("conf_file write", "none", 4, Arg("0", 0), bad, "right") :
             bad \in {{}, {1}}}
    \cup {Line("nvram write", "none", 4, Arg("0", 0), {}, "right"),
          Line("list_if", "none", 0, Arg("", 0), {}, "right"),
          Line("nonsense", "none", 0, Arg("", 0), {}, "right"),
          Line("nvram parse", "none", 1, Arg("", 0), {}, "right"),
          Line("test_mme", "nonsense", 2, Arg("0", 0), {}, "right"),
          Line("test_mme", "mtk_vs_reset_req", 2, Arg("", 0), {}, "right")}

AllLines == {c \in MmeLines : OfInterest(c)} \cup FileLines \cup OtherLines
=============================================================================
