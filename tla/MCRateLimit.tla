----------------------------- MODULE MCRateLimit -----------------------------
(***************************************************************************)
(* Behind one proxy and one address: a user with both budgets, and someone *)
(* without a token.                                                        *)
(***************************************************************************)
EXTENDS RateLimit, TLC

CONSTANTS ann, nat, proxy

Call(dep, write, subject) ==
  [dep |-> dep, write |-> write, subject |-> subject, peer |-> proxy,
   forwarded |-> nat]

Calls == { Call("rate_limit_by_method", TRUE, ann),
           Call("rate_limit_by_method", FALSE, ann),
           Call("rate_limit", TRUE, Nobody) }

Limits == [all |-> 2, write |-> 1]
============================================================================
