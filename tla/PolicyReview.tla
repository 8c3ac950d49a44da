---------------------------- MODULE PolicyReview ----------------------------
(***************************************************************************)
(* Policies grown one rule at a time, beside a boundary policy that is     *)
(* grown the same way, and what every verdict of PolicyEngine and the      *)
(* boundary check promise about them.  The rules of one file are all of    *)
(* one version (policy/parser.py), so all guarded or none.                 *)
(***************************************************************************)
EXTENDS PolicyBoundary, SequencesExt

CONSTANTS Rules, BoundaryRules,  \* the rules an author may write
          Connections,           \* no dns among them
          DnsQueries,            \* only dns
          Ips, Methods,
          MaxRules,              \* bound: the rules of a policy
          MaxBoundary,           \* bound: the rules of a boundary
          MaxChecked             \* bound: the rules of a policy beside one

ASSUME RulesAssumption ==
  \A r \in Rules \cup BoundaryRules :
    /\ r.domains \cup r.paths \subseteq DOMAIN Covers
    /\ r.methods \subseteq Methods

ASSUME ConnectionsAssumption ==
  \A c \in Connections :
    /\ c = [protocol |-> c.protocol, host |-> c.host, port |-> c.port,
            path |-> c.path, method |-> c.method]
    /\ c.protocol # "dns"

VARIABLES rules, boundary

vars == <<rules, boundary>>

Init == rules = <<>> /\ boundary = <<>>

OneVersion(list, r) ==
  \A i \in DOMAIN list : list[i].internal_ip_guard = r.internal_ip_guard

AddRule(r) ==
  /\ Len(rules) < (IF boundary = <<>> THEN MaxRules ELSE MaxChecked)
  /\ OneVersion(rules, r)
  /\ rules' = Append(rules, r)
  /\ UNCHANGED boundary

AddBoundaryRule(r) ==
  /\ Len(boundary) < MaxBoundary /\ rules = <<>>
  /\ OneVersion(boundary, r)
  /\ boundary' = Append(boundary, r)
  /\ UNCHANGED rules

Next ==
  \/ \E r \in Rules : AddRule(r)
  \/ \E r \in BoundaryRules : AddBoundaryRule(r)

Spec == Init /\ [][Next]_vars

-----------------------------------------------------------------------------
(* Every verdict a caller asks for about one connection.                   *)
Verdicts(rs, conn) ==
  <<Allows(rs, conn), MethodMiss(rs, conn), AllowsRequestBody(rs, conn),
    HasPassthroughRule(rs, conn), {ip \in Ips : InternalIpViolation(rs, conn, ip)}>>

(* wide allows, leaves unscanned, relays undecrypted and clears for an     *)
(* internal address whatever narrow does.                                  *)
NoWider(narrow, wide) ==
  \A conn \in Connections \cup DnsQueries :
    /\ Allows(narrow, conn) => Allows(wide, conn)
    /\ AllowsRequestBody(narrow, conn) => AllowsRequestBody(wide, conn)
    /\ HasPassthroughRule(narrow, conn) => HasPassthroughRule(wide, conn)
    /\ \A ip \in Ips : InternalIpViolation(wide, conn, ip)
                         => InternalIpViolation(narrow, conn, ip)

(* Rule order never changes a verdict: not whether a connection is allowed *)
(* or scanned, not whether its TLS is relayed, not whether an internal     *)
(* address is refused (matcher.py: any-match, not first-match).            *)
RuleOrderIrrelevant ==
  \A conn \in Connections \cup DnsQueries :
    Verdicts(rules, conn) = Verdicts(Reverse(rules), conn)

(* Adding a rule only widens: nothing is taken back, so a policy can be    *)
(* reviewed rule by rule.                                                  *)
AddedRuleOnlyWidens == [][NoWider(rules, rules')]_rules

(* Resolution never undercuts the connection it is for: a name the policy  *)
(* lets a job connect to resolves, and an answer the connection could use  *)
(* is not withheld by the internal-address check of the resolver.          *)
DnsCoversConnections ==
  \A conn \in Connections : Allows(rules, conn) =>
    LET q == [conn EXCEPT !.protocol = "dns"]
    IN  /\ Allows(rules, q)
        /\ \A ip \in Ips : InternalIpViolation(rules, q, ip)
                             => InternalIpViolation(rules, conn, ip)

(* A refusal explained by its method is about nothing else: some other     *)
(* method of the same request would have been allowed.                     *)
MethodMissExplains ==
  \A conn \in Connections :
    ~Allows(rules, conn) /\ MethodMiss(rules, conn)
      => \E m \in Methods : Allows(rules, [conn EXCEPT !.method = m])

(* A policy that passes the boundary check never allows more than the      *)
(* boundary (the docstring of policy_boundary.py), in any verdict the      *)
(* proxy and the resolver take of it, though each of its domains may be    *)
(* covered by another rule and globs are compared by their text.           *)
BoundaryIsRespected == CheckPolicy(rules, boundary) => NoWider(rules, boundary)
=============================================================================
