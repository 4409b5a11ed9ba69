------------------------ MODULE MCParticipantOutbox ------------------------
(***************************************************************************)
(* Instances of ParticipantOutbox: every request over four rows with a     *)
(* fault; and five rows of enrollments, attaches and departures, which     *)
(* give a binding away while its own marker is being offered.              *)
(***************************************************************************)
EXTENDS ParticipantOutbox

MCQuotas == {[rows |-> 4, faults |-> 1, kinds |-> Kinds],
             [rows |-> 5, faults |-> 0, kinds |-> {"enroll", "attach", "leave"}]}

EpochQuotas == {[rows |-> 7, faults |-> 0, kinds |-> Kinds]}
=============================================================================
