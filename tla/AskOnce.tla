------------------------------- MODULE AskOnce -------------------------------
(***************************************************************************)
(* What the AI scheduler promises to a caller: the work of a call is begun *)
(* at most once, the call gets one answer and keeps it, a rejected call is *)
(* never worked on, and a result or an error comes from finished work.     *)
(***************************************************************************)
CONSTANTS Calls

VARIABLES work,     \* call -> none, begun, ended
          answer    \* call -> none, result, error, overloaded, timeout

vars == <<work, answer>>

Init == work = [c \in Calls |-> "none"] /\ answer = [c \in Calls |-> "none"]

Begin(c) == /\ work[c] = "none" /\ answer[c] # "overloaded"
            /\ work' = [work EXCEPT ![c] = "begun"]
            /\ UNCHANGED answer

End(c) == /\ work[c] = "begun"
          /\ work' = [work EXCEPT ![c] = "ended"]
          /\ UNCHANGED answer

Reply(c, a) == /\ answer[c] = "none"
               /\ a = "overloaded" => work[c] = "none"
               /\ a \in {"result", "error"} => work[c] = "ended"
               /\ answer' = [answer EXCEPT ![c] = a]
               /\ UNCHANGED work

\* A shutdown ends whatever is in progress.
Halt == /\ work' = [c \in Calls |-> IF work[c] = "begun" THEN "ended"
                                                         ELSE work[c]]
        /\ UNCHANGED answer

Next == \/ \E c \in Calls :
             \/ Begin(c) \/ End(c)
             \/ \E a \in {"result", "error", "overloaded", "timeout"} :
                  Reply(c, a)
        \/ Halt

Spec == Init /\ [][Next]_vars
============================================================================
