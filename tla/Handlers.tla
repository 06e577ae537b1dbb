------------------------------ MODULE Handlers ------------------------------
(***************************************************************************)
(* The command handlers of hpav_test: test_mme_* in hpav_test/test_mtk.c   *)
(* and hpav_test/test_hpav.c, the NVRAM and configuration file commands.   *)
(* All of them have one shape, which module Command runs: check the number *)
(* of arguments, read them in some order, make one send/receive call (or a *)
(* file transfer), print every station's answer, free the answers.  A      *)
(* handler is what differs:                                                *)
(*   counts   the numbers of arguments it accepts (all the others are a    *)
(*            usage error),                                                *)
(*   reads    the arguments it reads, numbered from 0, in that order,      *)
(*   optional those of them it looks for only if there are enough,         *)
(*   macs     those that have to be MAC addresses,                         *)
(*   inputs   those it gives up on with -1 if what they say or name is not *)
(*            good,                                                        *)
(*   makes    what it then does: a "call", one with an output file         *)
(*            ("save"), a file "transfer", or several of them              *)
(*            ("transfers", whose failures are all reported as -1),        *)
(*   silence  what it returns when no station answered.                    *)
(***************************************************************************)
EXTENDS Integers

CONSTANT MaxArgs    \* bound: arguments of a handler

ASSUME HandlersAssumption == MaxArgs \in Nat /\ MaxArgs >= 12

EXIT_SUCCESS == 0
EXIT_FAILURE == 1
EXIT_USAGE == 2
EXIT_NO_RESPONSE == 3

Handler(counts, reads) ==
    [counts |-> counts, reads |-> reads, optional |-> {0}, macs |-> {0},
     inputs |-> {}, makes |-> "call", silence |-> EXIT_NO_RESPONSE]

AtLeast(n) == n..MaxArgs
UpTo(n) == [i \in 1..(n + 1) |-> i - 1]

\* The MAC address may be left out: the request is broadcast.  find_local_sta
\* calls its handler with argc = -1.
MacOnly == Handler(-1..MaxArgs, <<0>>)

\* The twelfth argument names the key to send it with.
cm_set_key_req == [Handler(AtLeast(11), UpTo(11)) EXCEPT !.optional = {0, 11}]

\* AMLEN and the file of amplitudes: two arguments are enough to get to the
\* third.
cm_amp_map_req == [Handler(AtLeast(2), UpTo(2)) EXCEPT !.inputs = {1, 2}]

\* The MAC address is looked at after the file.
mtk_vs_set_nvram_req ==
    [Handler(AtLeast(3), <<1, 2, 0>>) EXCEPT !.inputs = {2}]
mtk_vs_get_version_req == MacOnly
mtk_vs_reset_req == MacOnly
mtk_vs_get_nvram_req == Handler(AtLeast(2), UpTo(1))

\* It takes one argument for two.
mtk_vs_get_tonemask_req ==
    [Handler(AtLeast(1), <<0, 1>>) EXCEPT !.macs = {0, 1}]
mtk_vs_get_eth_phy_req == MacOnly
mtk_vs_eth_stats_req == Handler(AtLeast(2), UpTo(1))
mtk_vs_get_status_req == MacOnly
mtk_vs_get_tonemap_req ==
    [Handler(AtLeast(6), <<1, 0, 2, 3, 4, 5>>) EXCEPT !.macs = {0, 1}]
mtk_vs_set_capture_state_req ==
    [Handler(AtLeast(5), UpTo(4)) EXCEPT !.macs = {0, 1}]
mtk_vs_get_snr_req == [Handler(AtLeast(4), UpTo(3)) EXCEPT !.macs = {0, 1}]

\* Mutated form: the last argument it reads may be missing.
mtk_vs_get_link_stats_req_one_short ==
    [Handler(AtLeast(6), UpTo(6)) EXCEPT !.macs = {0, 6}]

mtk_vs_get_link_stats_req ==
    [Handler(AtLeast(7), UpTo(6)) EXCEPT !.macs = {0, 6}]
mtk_vs_get_nw_info_req == MacOnly
mtk_vs_get_pwm_stats_req == MacOnly
mtk_vs_get_pwm_conf_req == MacOnly
mtk_vs_set_pwm_conf_req == Handler({10}, <<1, 2, 3, 4, 5, 6, 7, 8, 9, 0>>)
mtk_vs_set_tx_cali_req == Handler(AtLeast(2), UpTo(1))
mtk_vs_spi_stats_req == Handler(AtLeast(2), UpTo(1))
vc_vs_set_sniffer_conf_req == Handler(AtLeast(2), UpTo(1))
vc_vs_get_remote_access_req == MacOnly
vc_vs_set_remote_access_req == Handler(AtLeast(2), UpTo(1))
mtk_vs_pwm_generation_req == Handler(AtLeast(4), UpTo(3))

\* The words after the MAC address are read by parse_mtk_vs_file_access (the
\* actions on "words" of Command).
mtk_vs_file_access_req ==
    [Handler(AtLeast(1), <<0>>) EXCEPT !.makes = "transfer", !.silence = -2]

nvram_read == [Handler(AtLeast(2), UpTo(1)) EXCEPT !.makes = "save"]
nvram_write == [Handler(AtLeast(2), UpTo(1)) EXCEPT !.inputs = {1},
                                                    !.silence = EXIT_FAILURE]

\* The MAC address, argument 1, is looked at by the transfers.
Transfers == [Handler(AtLeast(1), <<1, 0>>) EXCEPT
                  !.optional = {1}, !.macs = {}, !.makes = "transfers",
                  !.silence = -1]
conf_file_read == Transfers
conf_file_write == Transfers

test_mme_fct_name_table ==
    [cm_set_key_req |-> cm_set_key_req,
     cm_amp_map_req |-> cm_amp_map_req,
     mtk_vs_get_version_req |-> mtk_vs_get_version_req,
     mtk_vs_reset_req |-> mtk_vs_reset_req,
     mtk_vs_get_tonemask_req |-> mtk_vs_get_tonemask_req,
     mtk_vs_get_eth_phy_req |-> mtk_vs_get_eth_phy_req,
     mtk_vs_eth_stats_req |-> mtk_vs_eth_stats_req,
     mtk_vs_get_status_req |-> mtk_vs_get_status_req,
     mtk_vs_get_tonemap_req |-> mtk_vs_get_tonemap_req,
     mtk_vs_get_snr_req |-> mtk_vs_get_snr_req,
     mtk_vs_get_link_stats_req |-> mtk_vs_get_link_stats_req,
     mtk_vs_get_nw_info_req |-> mtk_vs_get_nw_info_req,
     mtk_vs_set_capture_state_req |-> mtk_vs_set_capture_state_req,
     mtk_vs_set_nvram_req |-> mtk_vs_set_nvram_req,
     mtk_vs_get_nvram_req |-> mtk_vs_get_nvram_req,
     mtk_vs_get_pwm_stats_req |-> mtk_vs_get_pwm_stats_req,
     mtk_vs_get_pwm_conf_req |-> mtk_vs_get_pwm_conf_req,
     mtk_vs_set_pwm_conf_req |-> mtk_vs_set_pwm_conf_req,
     mtk_vs_pwm_generation_req |-> mtk_vs_pwm_generation_req,
     mtk_vs_spi_stats_req |-> mtk_vs_spi_stats_req,
     mtk_vs_set_tx_cali_req |-> mtk_vs_set_tx_cali_req,
     vc_vs_set_sniffer_conf_req |-> vc_vs_set_sniffer_conf_req,
     vc_vs_set_remote_access_req |-> vc_vs_set_remote_access_req,
     vc_vs_get_remote_access_req |-> vc_vs_get_remote_access_req,
     mtk_vs_file_access_req |-> mtk_vs_file_access_req]
=============================================================================
