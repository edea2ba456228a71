------------------------------- MODULE MCTickets -------------------------------
(* A small instance of the ticket desk: every tier has one slot of the job *)
(* to answer, and two instances of the job, like two staff members, are    *)
(* interchangeable.                                                        *)
EXTENDS Tickets, TLC

MCWait == [tier \in Tier |-> Cadence]
MCSymmetry == Permutations(Staff) \cup Permutations(Run)
===============================================================================
