---------------------------- MODULE PolicyEngine ----------------------------
(***************************************************************************)
(* The allowlist verdicts of policy/matcher.py, as operators over a list   *)
(* of rules.                                                               *)
(*                                                                         *)
(* A rule is a record whose list-valued fields are sets: no verdict reads  *)
(* their order.  What a glob pattern, a literal address or a path means is *)
(* data, and comes in as constants:                                        *)
(*   Covers[p]      the names (or paths) fnmatchcase accepts for p         *)
(*   Literals[p]    the addresses p names literally ("localhost" included) *)
(*   Unprefixed[n]  n without its leading "_service." labels               *)
(*   Normalised[x]  path x percent-decoded with its dot segments resolved, *)
(*                  NoPath when no rule may match it                       *)
(*   Internal       the addresses that have an internal_ip_category        *)
(***************************************************************************)
EXTENDS Naturals, Sequences

CONSTANTS Covers, Literals, Unprefixed, Normalised, NoPath, Internal

HttpProtocols == {"http", "https"}

RulesOf(rules) == {rules[i] : i \in DOMAIN rules}

DomainMatches(patterns, host) == \E p \in patterns : host \in Covers[p]

PortMatches(ports, port) == ports = {} \/ port \in ports

MethodMatches(methods, conn) ==
  \/ methods = {}
  \/ conn.protocol \notin HttpProtocols
  \/ conn.method \in methods

PathMatches(patterns, path) ==
  \/ patterns = {}
  \/ /\ Normalised[path] # NoPath
     /\ \E p \in patterns : Normalised[path] \in Covers[p]

MatchesExceptMethod(rule, conn) ==
  /\ DomainMatches(rule.domains, conn.host)
  /\ PortMatches(rule.ports, conn.port)
  /\ conn.protocol \in rule.protocols
  /\ PathMatches(rule.paths, conn.path)

Matches(rule, conn) ==
  MatchesExceptMethod(rule, conn) /\ MethodMatches(rule.methods, conn)

(* Mutant: the name as it came is not tried.                               *)
StrippedNameOnly(rules, qname) ==
  \E rule \in RulesOf(rules) : DomainMatches(rule.domains, Unprefixed[qname])

(* A name is matched both stripped of its service labels and as it came.   *)
AllowsDns(rules, qname) ==
  \E rule \in RulesOf(rules) :
    \/ DomainMatches(rule.domains, Unprefixed[qname])
    \/ DomainMatches(rule.domains, qname)

Allows(rules, conn) ==
  IF conn.protocol = "dns"
  THEN AllowsDns(rules, conn.host)
  ELSE \E rule \in RulesOf(rules) : Matches(rule, conn)

(* What a verdict that is not "allowed" is called in each mode.            *)
Refusal(mode) == IF mode = "monitor" THEN "would_block" ELSE "blocked"

Evaluate(rules, mode, conn) ==
  IF Allows(rules, conn) THEN "allowed" ELSE Refusal(mode)

(* Mutant: a rule about the same host is taken for a rule of this request. *)
SameHostRule(rules, conn) ==
  \E rule \in RulesOf(rules) :
    rule.methods # {} /\ DomainMatches(rule.domains, conn.host)

MethodMiss(rules, conn) ==
  \E rule \in RulesOf(rules) :
    rule.methods # {} /\ MatchesExceptMethod(rule, conn)

(* Mutant: the first matching rule decides.                                *)
FirstMatchOptsOut(rules, conn) ==
  \E i \in DOMAIN rules :
    /\ rules[i].allow_request_body /\ Matches(rules[i], conn)
    /\ \A j \in 1..(i - 1) : ~Matches(rules[j], conn)

AllowsRequestBody(rules, conn) ==
  /\ conn.protocol # "dns"
  /\ \E rule \in RulesOf(rules) :
       rule.allow_request_body /\ Matches(rule, conn)

HasPassthroughRule(rules, conn) ==
  /\ conn.protocol = "https"
  /\ \E rule \in RulesOf(rules) :
       rule.tls = "passthrough" /\ Matches(rule, conn)

RuleExemptsIp(rule, ip) ==
  \/ ~rule.internal_ip_guard
  \/ ip \in rule.allowed_ips
  \/ \E p \in rule.domains : ip \in Literals[p]

DnsAllowsInternalIp(rules, qname, ip) ==
  \E rule \in RulesOf(rules) :
    RuleExemptsIp(rule, ip) /\ DomainMatches(rule.domains, qname)

(* Mutant: every matching rule has to exempt the address.                  *)
SomeRuleObjects(rules, conn, ip) ==
  /\ ip \in Internal
  /\ \E rule \in RulesOf(rules) :
       ~RuleExemptsIp(rule, ip) /\ Matches(rule, conn)

InternalIpViolation(rules, conn, ip) ==
  /\ ip \in Internal
  /\ IF conn.protocol = "dns"
     THEN ~DnsAllowsInternalIp(rules, conn.host, ip)
     ELSE ~\E rule \in RulesOf(rules) :
             RuleExemptsIp(rule, ip) /\ Matches(rule, conn)

GuardsInternalIps(rules) == \E rule \in RulesOf(rules) : rule.internal_ip_guard
=============================================================================
