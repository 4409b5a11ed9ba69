--------------------------- MODULE MCChannelActor ---------------------------
(***************************************************************************)
(* Instances of ChannelActor: every operation against one subscriber, with *)
(* and without a restart budget; and two subscribers that publishes must   *)
(* both reach across a restart whose re-link can find one of them dead.    *)
(***************************************************************************)
EXTENDS ChannelActor

CONSTANTS s1, s2

MCSubs == {s1, s2}

MCDeployments ==
    {[budget |-> b, kinds |-> AllKinds, pids |-> {s1}] : b \in {0, 2}}
        \cup {[budget |-> 2, kinds |-> {"publish"}, pids |-> MCSubs]}
=============================================================================
