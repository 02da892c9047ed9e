----------------------------- MODULE MCClaimQueue -----------------------------
(***************************************************************************)
(* Hours on both sides of the deadlines.  At hour 73 a MEDIUM ticket from  *)
(* hour 0 is one hour past its SLA, an URGENT one from hour 48 is past its *)
(* own and too late to overtake it, and a LOW one from hour 0 is in time.  *)
(***************************************************************************)
EXTENDS ClaimQueue, TLC

TicketSymmetry == Permutations(Tickets)
============================================================================
