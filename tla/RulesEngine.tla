---------------------------- MODULE RulesEngine ----------------------------
(***************************************************************************)
(* utils/rules_engine.py evaluate and _match_condition, and what           *)
(* routing_node makes of the result, as operators.                         *)
(*                                                                         *)
(* For the one email being looked at, a condition is what _match_condition *)
(* does with it: "true", "false" (which includes every condition on a      *)
(* field the email has no value for, is_not and not_in too) or "error" (a  *)
(* number comparison of a text, "in" without a list).  A rule is a record  *)
(* of its priority, active flag, match_mode, conditions and actions.       *)
(***************************************************************************)
EXTENDS Naturals, FiniteSets, Sequences, SequencesExt

Priorities == {"high", "medium", "low", "other"}
Rules == [priority : Priorities, active : BOOLEAN, match_mode : {"all", "any"},
          conditions : Seq({"true", "false", "error"}), actions : SUBSET STRING]

\* priority_map.get(..., 3)
Rank(rule) ==
    CASE rule.priority = "high"   -> 0
      [] rule.priority = "medium" -> 1
      [] rule.priority = "low"    -> 2
      [] OTHER                    -> 3

ActiveRules(rules) == {i \in DOMAIN rules : rules[i].active}

\* Mutant: the active rules in the order of the list.
EvaluationOrderUnsorted(rules) ==
    CHOOSE order \in [1..Cardinality(ActiveRules(rules)) -> ActiveRules(rules)] :
        \A p, q \in DOMAIN order : p < q => order[p] < order[q]

\* sorted(active rules, key = Rank) as indices into rules: by rank, and as sorted is
\* stable, in the order of the list where the rank is the same.
StablySorted(rules, order) ==
    \A p, q \in DOMAIN order : p < q =>
        LET i == order[p]
            j == order[q]
        IN  Rank(rules[i]) <= Rank(rules[j]) /\ (Rank(rules[i]) = Rank(rules[j]) => i < j)

EvaluationOrder(rules) ==
    CHOOSE order \in [1..Cardinality(ActiveRules(rules)) -> ActiveRules(rules)] :
        StablySorted(rules, order)

\* Every condition is evaluated before all() or any() looks at the results.
RuleRaises(rule) == "error" \in ToSet(rule.conditions)

\* all([]) is True and any([]) is False.
RuleMatches(rule) ==
    IF rule.match_mode = "all" THEN ToSet(rule.conditions) \subseteq {"true"}
    ELSE "true" \in ToSet(rule.conditions)

\* evaluate: the index of the rule it returns, 0 for None; an exception, which
\* routing_node turns into None, is 0 as well.
Evaluate(rules) ==
    LET order    == EvaluationOrder(rules)
        deciding == {i \in DOMAIN order : RuleRaises(rules[order[i]])
                                          \/ RuleMatches(rules[order[i]])}
        first    == CHOOSE i \in deciding : \A j \in deciding : i <= j
    IN  IF deciding = {} \/ RuleRaises(rules[order[first]]) THEN 0 ELSE order[first]

\* routing_node: a matched rule decides if it names a team (route_to, apply_label) or
\* holds the email; otherwise the static matrix does, which is 0 again.
DecidingRule(rules) ==
    LET i == Evaluate(rules)
    IN  IF i # 0 /\ rules[i].actions \cap {"route_to", "apply_label", "hold_for_review"} # {}
        THEN i ELSE 0

----------------------------------------------------------------------------
(* The reference.                                                          *)

\* i is tried before j: a better priority, or the same and listed earlier.
Before(rules, i, j) ==
    \/ Rank(rules[i]) < Rank(rules[j])
    \/ Rank(rules[i]) = Rank(rules[j]) /\ i < j

\* The rule an administrator expects: active, matching, and no active rule tried
\* before it matches or fails.
IsFirstMatch(rules, j) ==
    /\ rules[j].active /\ RuleMatches(rules[j]) /\ ~RuleRaises(rules[j])
    /\ \A i \in DOMAIN rules :
        rules[i].active /\ Before(rules, i, j) =>
            ~RuleMatches(rules[i]) /\ ~RuleRaises(rules[i])

=============================================================================
