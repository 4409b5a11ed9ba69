---------------------------- MODULE MCDelivery ----------------------------
(***************************************************************************)
(* A publisher connection and a subscriber connection with two             *)
(* subscriptions; messages of two lengths, a byte budget that the two       *)
(* inboxes share and that two long messages overflow.                       *)
(***************************************************************************)
EXTENDS Delivery

CONSTANTS p, a, s1, s2

MCMembers == <<s1, s2>>
MCOwner == (s1 :> a) @@ (s2 :> a)
MCBytes == <<1, 2, 1, 1>>
Env(n, subs) ==
    [pubs |-> n, subs |-> subs, unsubscribes |-> {}, loses |-> {}, stops |-> FALSE,
     deadlines |-> FALSE, slow |-> FALSE, depth |-> 2, room |-> 2]
MCQuotas ==
    {Env(3, {s1}),
     [Env(4, {s1}) EXCEPT !.depth = 1, !.room = 1],
     [Env(2, {s1, s2}) EXCEPT !.unsubscribes = {s1}],
     [Env(1, {s1, s2}) EXCEPT !.stops = TRUE],
     [Env(1, {s1}) EXCEPT !.stops = TRUE, !.loses = {a}],
     [Env(1, {s1}) EXCEPT !.stops = TRUE, !.slow = TRUE],
     [Env(1, {s1}) EXCEPT !.stops = TRUE, !.deadlines = TRUE]}
===========================================================================
