------------------------------ MODULE Priorities ------------------------------
(***************************************************************************)
(* The priority of a ticket (effective_priority in services/queueing.py),  *)
(* which orders the queue and makes the severity of an incident.           *)
(***************************************************************************)

Priorities == {"URGENT", "HIGH", "MEDIUM", "LOW"}

\* The agent's priority, else the AI's suggestion, else MEDIUM.
EffectivePriority(doc) ==
  IF doc.priority \in Priorities THEN doc.priority
  ELSE IF doc.suggested \in Priorities THEN doc.suggested
  ELSE "MEDIUM"
==============================================================================
