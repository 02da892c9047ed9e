----------------------------- MODULE MCIncidents -----------------------------
(***************************************************************************)
(* Four tickets and incidents of two reports, so that two incidents are    *)
(* ordered; by their words t1 is like t2 and t3, and t3 is like t4.        *)
(***************************************************************************)
EXTENDS Incidents, TLC

CONSTANTS t1, t2, t3, t4

Filed(status, priority, suggested) ==
  [status |-> status, priority |-> priority, suggested |-> suggested]

Board == (t1 :> Filed("OPEN", "NONE", "HIGH"))
           @@ (t2 :> Filed("IN_PROGRESS", "LOW", "HIGH"))
           @@ (t3 :> Filed("RESOLVED", "URGENT", "NONE"))
           @@ (t4 :> Filed("NONE", "NONE", "NONE"))

SharedWords == [p \in Pairs |->
  CASE p = {t1, t2} -> 40 [] p = {t1, t3} -> 12 [] p = {t3, t4} -> 40
    [] OTHER -> 5]
============================================================================
