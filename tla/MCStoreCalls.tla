---------------------------- MODULE MCStoreCalls ----------------------------
(* Instances of StoreCalls for TLC. *)
EXTENDS StoreCalls, TLC

CONSTANTS a, b, d, v1, v2, c1, c2, c3, gpt

Caller(cred, session) == [cred |-> cred, session |-> session, turn |-> None]

TwoKeys == {Caller(a, None), Caller(b, None)}

ThreeKeys == TwoKeys \cup {Caller(d, None)}

Rule(scope, ttl, pinned) ==
  [enabled |-> TRUE, scope |-> scope, ttl |-> ttl, pinned |-> pinned, dropped |-> {}]

(* An edit changes scope, lifetime and pinned length at once. *)
RuleEdits == {Rule("model", 2, {v1, v2}), Rule("credential", 1, {v1})}

OneRuleOneValue == {Rule("credential", 2, {v1})}

(* No definition tells calls or API keys apart. *)
CallSymmetry ==
  {p @@ q : p \in Permutations({c1, c2, c3}), q \in Permutations({a, b, d})}
=============================================================================
