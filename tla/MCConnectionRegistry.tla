----------------------- MODULE MCConnectionRegistry -----------------------
(***************************************************************************)
(* Instances of ConnectionRegistry small enough to explore: each behaviour *)
(* has one of these environments, which together cover the races.          *)
(***************************************************************************)
EXTENDS ConnectionRegistry

Quiet == [spawns |-> 0, pushes |-> 0, deadlines |-> FALSE, closes |-> FALSE,
          workers |-> FALSE, drains |-> FALSE, stops |-> FALSE]

\* One connection with everything that can happen to it; two pushes competing
\* for its one slot; a reconnecting client, with a drain, a push or a worker;
\* the supervisor's shutdown with a push and a worker, or with two clients.
MCQuotas ==
    {[Quiet EXCEPT !.spawns = 1, !.pushes = 1, !.deadlines = TRUE, !.closes = TRUE, !.workers = TRUE],
     [Quiet EXCEPT !.spawns = 1, !.pushes = 2, !.deadlines = TRUE],
     [Quiet EXCEPT !.spawns = 2, !.drains = TRUE],
     [Quiet EXCEPT !.spawns = 2, !.pushes = 1],
     [Quiet EXCEPT !.spawns = 2, !.workers = TRUE],
     [Quiet EXCEPT !.spawns = 1, !.pushes = 1, !.workers = TRUE, !.stops = TRUE],
     [Quiet EXCEPT !.spawns = 2, !.stops = TRUE]}
=============================================================================
