------------------------ MODULE MCIncarnationStream ------------------------
(***************************************************************************)
(* One process with two connections, or two processes over one store with  *)
(* one connection each.                                                    *)
(***************************************************************************)
EXTENDS IncarnationStream

MCDeployments == [Connection -> Process]

\* Processes and slots are interchangeable, and no liveness is checked.
MCSymmetry == Permutations(Process) \cup Permutations(Connection)
=============================================================================
