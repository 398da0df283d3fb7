---------------------------- MODULE Restrictions ----------------------------
(***************************************************************************)
(* The ceiling of an API key (src/api-keys/restrictions.ts): what a key    *)
(* may be used for, and when one ceiling lies within another.              *)
(*                                                                         *)
(* A resource is a function from field names to values: its type, its id   *)
(* (absent on a collection) and its attributes.  A rule is such a function *)
(* too, on the fields it sets.                                             *)
(***************************************************************************)

\* No restrictions at all: AuthBoundry alone decides.
Unrestricted == [limited |-> FALSE, capabilities |-> {}, ruled |-> FALSE, resources |-> {}]

\* What normalizeRestrictions lets through and stores: without limits nothing is kept,
\* without rules no rule is, and normalizeRule refuses a rule that sets no field.
Normalized(restrictions) ==
  /\ ~restrictions.limited => restrictions = Unrestricted
  /\ ~restrictions.ruled => restrictions.resources = {}
  /\ \A rule \in restrictions.resources : DOMAIN rule # {}

\* Every field that is set in outer has the same value in inner.
Agrees(inner, outer) == \A f \in DOMAIN outer : f \in DOMAIN inner /\ inner[f] = outer[f]

\* ruleMatches and ruleNarrows
RuleMatches(rule, resource) == Agrees(resource, rule)

RuleNarrows(inner, outer) == Agrees(inner, outer)

\* restrictionsPermit
Permits(restrictions, capability, resource) ==
  \/ ~restrictions.limited
  \/ /\ capability \in restrictions.capabilities
     /\ \/ ~restrictions.ruled
        \/ \E rule \in restrictions.resources : RuleMatches(rule, resource)

\* restrictionsWithin
Within(child, parent) ==
  \/ ~parent.limited
  \/ /\ child.limited
     /\ child.capabilities \subseteq parent.capabilities
     /\ \/ ~parent.ruled
        \/ /\ child.ruled
           /\ \A rule \in child.resources :
                \E outer \in parent.resources : RuleNarrows(rule, outer)
=============================================================================
