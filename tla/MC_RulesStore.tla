--------------------------- MODULE MC_RulesStore ---------------------------
(* A small instance of RulesStore.  The rule lists have a rule that the sort *)
(* moves, a tie, an inactive rule, an "any" rule without conditions, a rule  *)
(* that fails to evaluate and one whose actions decide nothing.              *)
EXTENDS RulesStore

Rule(p, a, m, c, acts) == [priority |-> p, active |-> a, match_mode |-> m,
                           conditions |-> c, actions |-> acts]

Sorted == <<Rule("low", TRUE, "all", <<>>, {"route_to"}),
            Rule("high", FALSE, "all", <<"true">>, {"route_to"}),
            Rule("medium", TRUE, "all", <<"true", "true">>, {"hold_for_review"}),
            Rule("medium", TRUE, "any", <<"false", "true">>, {"apply_label"})>>
Undecided == <<Rule("other", TRUE, "any", <<"true", "error">>, {"route_to"}),
               Rule("low", TRUE, "all", <<"true">>, {"notify_slack"}),
               Rule("low", TRUE, "all", <<"true">>, {"route_to"}),
               Rule("high", TRUE, "any", <<>>, {"route_to"})>>

MCPayloads == {"sorted", "undecided"}
MCRulesOf == [p \in MCPayloads |-> IF p = "sorted" THEN Sorted ELSE Undecided]

=============================================================================
