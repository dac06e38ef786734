----------------------------- MODULE MCServices -----------------------------
(* TLC instance of Services: one tool server with two process ids, one     *)
(* client of the daemon, small limits and channels that are soon full.     *)
EXTENDS Services, TLC

CONSTANTS c1, s1, p1, p2, x, y, open, save

Text(piece) == [kind |-> "text", part |-> piece]
Call(k, name, piece) == [kind |-> "call", index |-> k, name |-> name, part |-> piece]
Usage == [kind |-> "usage"]
Bad == [kind |-> "bad"]

(* Two calls whose pieces are mixed, one that comes second, data that      *)
(* cannot be parsed, a place in the list that is never named.              *)
MCReplies == {
    <<Text(x), Text(y), Text(x), Usage>>,
    <<Text(x), Call(1, open, x), Call(2, save, y), Call(1, NoName, y), Usage>>,
    <<Call(2, save, x), Bad, Call(2, NoName, y), Text(x)>> }

(* A loop that does not run is in one of its initial states.               *)
MCInit == ServicesInit /\ (part # "ralph" => caller = "ralph" /\ ralphGood)

MCSpec == MCInit /\ [][ServicesNext]_servicesVars /\ ServicesFairness

ASSUME ServicesConstants
=============================================================================
