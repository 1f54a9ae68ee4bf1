------------------------- MODULE MCTicketLifecycle -------------------------
(* Instances of TicketLifecycle for TLC. *)
EXTENDS TicketLifecycle, TLC

\* Requests in flight are interchangeable: no action names one of them.
Interchangeable == Permutations(Requests)
============================================================================
