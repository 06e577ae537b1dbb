------------------------------ MODULE MCSndRcv ------------------------------
(* SndRcv with the calls of hpav_test's commands on small networks.        *)
EXTENDS SndRcvRefinement

CONSTANTS s1, s2, s3, Other

OneStation == {s1}
TwoStations == {s1, s2}

None == {}

\* The traffic of another host of the network, and a calibration a station
\* reports of its own accord.
OthersTraffic ==
    {[sta |-> s1, host |-> Other, type |-> "version", call |-> 0],
     [sta |-> s2, host |-> Host, type |-> "tx_cali_ind", call |-> 0]}

\* A station still owes the answer to a request of a command that has ended.
OlderTraffic ==
    {[sta |-> s1, host |-> Host, type |-> "pwm_stats", call |-> 0]}

\* Calls that expect one fragment (as for set_key), to all and to one, and one
\* that sends nothing.
MixedCalls ==
    {Sndrcv("version", Broadcast, 1, 1), Sndrcv("version", s1, 1, 1),
     set_tx_cali_ind_rcv(1, 0)}

\* The functions with rules of their own that send a request; get_pwm_conf and
\* set_pwm_conf differ from get_pwm_stats in nothing but the type.
RuleCalls ==
    {reset_ind_sndrcv(s1, 0, 0), get_pwm_stats_sndrcv(s1, 1, 0),
     set_tx_cali_sndrcv(s1, 1, 0),
     file_access_sndrcv(s1, 1, 0, 0), file_access_sndrcv(Broadcast, 1, 0, 1)}

TonemapCalls == {Sndrcv("tonemap", s1, 1, 1)}
=============================================================================
