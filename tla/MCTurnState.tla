---------------------------- MODULE MCTurnState ----------------------------
(* Instances of TurnState for TLC. *)
EXTENDS TurnState, TLC

CONSTANTS a, b, v1, v2, r1, r2, r3, gpt

Caller(cred, session) == [cred |-> cred, session |-> session, turn |-> None]

OneKey == {Caller(a, None)}
TwoKeys == {Caller(a, None), Caller(b, None)}

Rule(enabled, scope, ttl) ==
  [enabled |-> enabled, scope |-> scope, ttl |-> ttl, pinned |-> Values, dropped |-> {}]

SharedRule == {Rule(TRUE, "model", 3)}
(* A shorter lifetime, the scope narrowed or widened, and switched off.    *)
RuleEdits ==
  {Rule(TRUE, "model", 3), Rule(TRUE, "model", 2), Rule(TRUE, "credential", 3),
   Rule(FALSE, "model", 3)}

(* Two requests, two values and two API keys are interchangeable. *)
PairSymmetry ==
  {p @@ q @@ r : p \in Permutations({r1, r2}), q \in Permutations({v1, v2}),
                 r \in Permutations({a, b})}
ValueSymmetry == Permutations({v1, v2})
RequestSymmetry == Permutations({r1, r2, r3})

(* Without a restart (MaxBoots = 0) nothing reads saved and unsaved.       *)
InMemory == <<now, rules, epochs, objects, pins, gateVars, serverVars>>
=============================================================================
