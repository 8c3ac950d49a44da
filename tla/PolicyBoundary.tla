--------------------------- MODULE PolicyBoundary ---------------------------
(***************************************************************************)
(* The offline check of scripts/policy_boundary.py that a policy allows no *)
(* more than the policy of the organisation.  Domain and path patterns are *)
(* globs; allowed_ips is the set of addresses its ranges hold, so a range  *)
(* that two ranges of the boundary cover between them counts as covered,   *)
(* which the code, that asks for one, reports.                             *)
(***************************************************************************)
EXTENDS PolicyEngine, Globs

CONSTANT Localhost      \* the domain "localhost"

(* Covers[p] is what fnmatchcase accepts for p.                            *)
ASSUME CoversAssumption ==
  \A p \in DOMAIN Covers :
    /\ p \in Seq(Tokens) /\ Covers[p] \subseteq Seq(STRING)
    /\ \A q \in DOMAIN Covers : \A s \in Covers[q] : s \in Covers[p] <=> GlobMatches(p, s)

DomainSubsumed(domain, boundary) ==
  \E b \in boundary.domains : GlobSubsumes(b, domain)

(* _boundary_exempts_name                                                  *)
ExemptsName(boundary, domain) ==
  IF domain = Localhost
  THEN \/ ~boundary.internal_ip_guard
       \/ Localhost \in boundary.domains
       \/ Literals[Localhost] \subseteq boundary.allowed_ips
  ELSE \A ip \in Literals[domain] \cap Internal : RuleExemptsIp(boundary, ip)

IpsWithin(candidate, boundary) ==
  boundary.internal_ip_guard => candidate.allowed_ips \subseteq boundary.allowed_ips

(* Mutant: a name that is an internal address is no gap.                   *)
NamesUnchecked(candidate, boundary) ==
  candidate.internal_ip_guard \/ ~boundary.internal_ip_guard

(* Every domain of the candidate counts, whichever one is being covered:   *)
(* a rule that names an address exempts it for all its names.              *)
GuardWithin(candidate, boundary) ==
  IF candidate.internal_ip_guard
  THEN \A d \in candidate.domains : ExemptsName(boundary, d)
  ELSE ~boundary.internal_ip_guard

PortsWithin(candidate, boundary) ==
  \/ boundary.ports = {}
  \/ candidate.ports # {} /\ candidate.ports \subseteq boundary.ports

PathsWithin(candidate, boundary) ==
  \/ boundary.paths = {}
  \/ /\ candidate.paths # {}
     /\ \A p \in candidate.paths : \E b \in boundary.paths : GlobSubsumes(b, p)

MethodsWithin(candidate, boundary) ==
  \/ boundary.methods = {}
  \/ candidate.protocols \cap HttpProtocols = {}
  \/ candidate.methods # {} /\ candidate.methods \subseteq boundary.methods

(* dimension_gaps finds none.  A rule with no protocol matches no          *)
(* connection: it only lets its names resolve.                             *)
NoGaps(candidate, boundary) ==
  /\ IpsWithin(candidate, boundary)
  /\ GuardWithin(candidate, boundary)
  /\ \/ candidate.protocols = {}
     \/ /\ PortsWithin(candidate, boundary)
        /\ candidate.protocols \subseteq boundary.protocols
        /\ PathsWithin(candidate, boundary)
        /\ MethodsWithin(candidate, boundary)
        /\ candidate.allow_request_body => boundary.allow_request_body
        /\ candidate.tls = "passthrough" => boundary.tls = "passthrough"

(* Each domain of the rule is covered by one rule of the boundary, which   *)
(* need not be the same for all.                                           *)
CheckRule(candidate, boundary) ==
  \A d \in candidate.domains : \E b \in RulesOf(boundary) :
    DomainSubsumed(d, b) /\ NoGaps(candidate, b)

CheckPolicy(rules, boundary) ==
  \A candidate \in RulesOf(rules) : CheckRule(candidate, boundary)
=============================================================================
