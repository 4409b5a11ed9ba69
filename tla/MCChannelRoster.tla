-------------------------- MODULE MCChannelRoster --------------------------
(***************************************************************************)
(* Two callers, one boot-configured and two free names, room for one        *)
(* runtime registration; two documents whose digests collide and one that    *)
(* does not compile.                                                         *)
(***************************************************************************)
EXTENDS ChannelRoster

CONSTANTS d1, d2, bad, n0

MCDigest == [d \in Docs |-> IF d = bad THEN 2 ELSE 1]
MCLimits == {<<>>, <<1>>}
MCBoot == {[name |-> n0, mode |-> "ephemeral", doc |-> d1]}
=============================================================================
