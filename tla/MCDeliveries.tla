------------------------------ MODULE MCDeliveries ------------------------------
(* Instances of OutboundDeliveries for TLC. *)
EXTENDS OutboundDeliveries, TLC

CONSTANTS s1, c1, e1

DeliveryJobs == Subs \X Events
OneClient == [s \in Subs |-> c1]
OneAttempt == [r \in Rows |-> 1]
TwoAttempts == [r \in Rows |-> 2]
WorkerSymmetry == Permutations(Workers)
=============================================================================
