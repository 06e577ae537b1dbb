----------------------------- MODULE Interfaces -----------------------------
(***************************************************************************)
(* The list of network interfaces of libhpav (libhpav/hpav_if.c): which of *)
(* libpcap's devices it keeps, the order it gives them and how the user's  *)
(* argument selects one.                                                   *)
(*                                                                         *)
(* A device is [name, number, len, ord, kind, flags, mac]: its name with   *)
(* the number strtoul makes of all of it (NotANumber if it cannot), the    *)
(* length of the name and its place among the names of one length, the     *)
(* kind its prefix tells, libpcap's flags, and whether it has a hardware   *)
(* address.                                                                *)
(***************************************************************************)
EXTENDS Integers, Sequences, SequencesExt

CONSTANT UIntMod    \* an unsigned int is below it (2^32)

ASSUME InterfacesAssumption == UIntMod \in Nat \ {0}

NotANumber == -1
NoDevice == [name |-> "no device"]

\* Devices that are left out of the list.  PCAP_IF_LOOPBACK must be the only
\* flag, so a loopback device that is also up is not left out here.
Skipped(d) == d.kind \in {"any", "nflog", "usbmon"} \/ d.flags = {"loopback"}

Before(d, e) == d.len < e.len \/ (d.len = e.len /\ d.ord < e.ord)

\* Mutated form: new interfaces go to the end of the list.
InsertedLast(list, d) == Append(list, d)

\* The new interface goes before the first one that sorts after it.
Inserted(list, d) ==
    LET after == {i \in DOMAIN list : Before(d, list[i])}
        at == IF after = {} THEN Len(list) + 1
              ELSE CHOOSE i \in after : \A j \in after : i <= j
    IN InsertAt(list, at, d)

\* The list hpav_get_interfaces makes of libpcap's, before the addresses.
hpav_get_interfaces(found) ==
    LET after[n \in 0..Len(found)] ==
            IF n = 0 THEN <<>>
            ELSE IF Skipped(found[n]) THEN after[n - 1]
            ELSE Inserted(after[n - 1], found[n])
    IN after[Len(found)]

hpav_get_interface_by_index(list, if_num) ==
    IF if_num < Len(list) THEN list[if_num + 1] ELSE NoDevice

hpav_get_interface_by_name(list, if_name) ==
    LET named == {i \in DOMAIN list : list[i].name = if_name}
    IN IF named = {} THEN NoDevice
       ELSE list[CHOOSE i \in named : \A j \in named : i <= j]

\* An argument that is a number throughout is an index, cut to an unsigned
\* int; the empty string is the number 0.
hpav_get_interface_by_index_or_name(list, arg) ==
    IF arg.number # NotANumber
    THEN hpav_get_interface_by_index(list, arg.number % UIntMod)
    ELSE hpav_get_interface_by_name(list, arg.name)
=============================================================================
