----------------------------- MODULE MCStartup -----------------------------
(* Files with one hostif for two ports, one for each, or as many as the     *)
(* array holds; prefixes of one to eight addresses, of which five fit the   *)
(* table; every kind of backup_vip.  Eips of both families and parities.    *)
EXTENDS Startup

CONSTANTS e4, o4, e6, o6

Hostif == [ip6 : BOOLEAN, same_mc : BOOLEAN]
Both == [ip6 |-> TRUE, same_mc |-> TRUE]
Own == [ip6 |-> TRUE, same_mc |-> FALSE]
Plain == [ip6 |-> FALSE, same_mc |-> FALSE]

MCFiles ==
    [hostifs : [1..1 -> Hostif], bad : {<<>>}, dl_ip : {3}, prefix_len : {2}, backup : {"other"}]
    \union [hostifs : {<<Own, Both>>}, bad : {<<>>}, dl_ip : {3}, prefix_len : {4}, backup : {"other"}]
    \union [hostifs : {<<Plain>>}, bad : {<<>>}, dl_ip : {1, 6, 11}, prefix_len : 1..4, backup : {"none"}]
    \union [hostifs : {<<Both>>}, bad : {<<0, 3>>, <<1, 3>>}, dl_ip : {3}, prefix_len : {3}, backup : {"none"}]
    \union [hostifs : {<<Both>>}, bad : {<<>>}, dl_ip : {3}, prefix_len : {4}, backup : {"vip"}]
    \union [hostifs : {<<Plain, Own, Plain>>}, bad : {<<>>}, dl_ip : {3}, prefix_len : {4}, backup : {"none"}]
=============================================================================
