----------------------------- MODULE MCScheduler -----------------------------
(***************************************************************************)
(* Two classifications of equal priority and an incident clustering        *)
(* without a ticket.                                                       *)
(***************************************************************************)
EXTENDS Scheduler, TLC

CONSTANTS label1, label2, batch

Kinds == (label1 :> "classify") @@ (label2 :> "classify") @@ (batch :> "cluster")
Levels == (label1 :> "LOW") @@ (label2 :> "LOW")
            @@ (batch :> "NONE")
============================================================================
