------------------------------- MODULE Denial -------------------------------
(***************************************************************************)
(* The loop the 403 body invites: a request is refused in enforce mode for *)
(* want of a rule, the author pastes the rule the body suggests, and the   *)
(* job runs again under the longer policy (proxy/addon.py).  A suggestion  *)
(* is named after its host alone, and a file with two rules of one name    *)
(* does not parse: after a second paste for a host no job runs until the   *)
(* author renames one of the two.                                          *)
(*                                                                         *)
(* A path is [base, query]; the log, and so the policy, sees the query     *)
(* only as a marker.  Not modelled: the clipping of paths longer than 256  *)
(* characters, and a policy merged from two files.                         *)
(***************************************************************************)
EXTENDS PolicyEngine

CONSTANTS Requests,     \* requests a job may make: [protocol, host, port, path, method]
          GlobFree,     \* hosts and path bases without glob characters
          MaxRules      \* bound on the length of the policy

VARIABLES rules,        \* the rules of the policy file
          pasted        \* the requests a rule was pasted for

vars == <<rules, pasted>>

Roots == {"", "/"}

NoQuery == ""

RedactPath(path) ==
  [path EXCEPT !.query = IF @ = NoQuery THEN NoQuery ELSE "<redacted>"]

(* The entry the verdict is taken on and the log shows.                    *)
Entry(r) == [r EXCEPT !.path = RedactPath(@)]

(* Mutants: the suggestion names no path; it names the path as requested.  *)
PathsDropped(entry) == {}
RequestedPath(entry) ==
  IF entry.path.base \in GlobFree \ Roots THEN {entry.path.base} ELSE {}

(* The path a suggested rule is restricted to, if any: the base of the     *)
(* request's path, normalised, unless it is the root or could match more.  *)
SuggestedPaths(entry) ==
  LET normalised == Normalised[[entry.path EXCEPT !.query = NoQuery]]
  IN  IF /\ entry.path.base \notin Roots
         /\ normalised # NoPath
         /\ normalised.base \in GlobFree \ {""}
      THEN {normalised.base}
      ELSE {}

(* A name is a host and what the author made of it: "allow a.x" is         *)
(* <<"a.x", 0>>, "allow a.x 2" is <<"a.x", 2>>.                            *)
Named(name, entry) ==
  [name |-> name, domains |-> {entry.host}, ports |-> {entry.port},
   protocols |-> {entry.protocol}, paths |-> SuggestedPaths(entry),
   methods |-> {}, allow_request_body |-> FALSE, allowed_ips |-> {},
   internal_ip_guard |-> TRUE, tls |-> "intercept"]

SuggestedRule(entry) == Named(<<entry.host, 0>>, entry)

(* The names of the rules of a file are distinct, or it does not parse.    *)
Loads(file) ==
  \A i, j \in DOMAIN file : file[i].name = file[j].name => i = j

(* The rules the engine is given: none from a file that does not parse.    *)
Effective == IF Loads(rules) THEN rules ELSE <<>>

(* What is no glob matches itself, and a normal form keeps the query.      *)
ASSUME RequestsAssumption ==
  \A r \in Requests :
    LET path == Entry(r).path
        n    == Normalised[path]
    IN  /\ r = [protocol |-> r.protocol, host |-> r.host, port |-> r.port,
                path |-> [base |-> r.path.base, query |-> r.path.query],
                method |-> r.method]
        /\ r.protocol # "dns"
        /\ r.host \in GlobFree => Covers[r.host] = {r.host}
        /\ n # NoPath => /\ n = [base |-> n.base, query |-> path.query]
                         /\ path.base \in Roots => n.base \in Roots
        /\ n # NoPath /\ path.query = NoQuery /\ n.base \in GlobFree \ {""}
             => Covers[n.base] = {[base |-> n.base, query |-> NoQuery]}

(* The kind of refusal whose body carries a suggestion.                    *)
PolicyMiss(entry) ==
  /\ ~Allows(Effective, entry) /\ ~MethodMiss(Effective, entry)
  /\ entry.host \in GlobFree

(* The request is refused and the rule its body suggests is pasted.  The   *)
(* proxy of a job whose policy does not parse shuts down and refuses none. *)
PasteSuggestion(r) ==
  /\ Loads(rules) /\ PolicyMiss(Entry(r)) /\ Len(rules) < MaxRules
  /\ rules' = Append(rules, SuggestedRule(Entry(r)))
  /\ pasted' = pasted \cup {r}

(* The author gives a rule another name.                                   *)
Rename(i, n) ==
  /\ ~Loads(rules)
  /\ rules' = [rules EXCEPT ![i].name = <<@[1], n>>]
  /\ UNCHANGED pasted

Init == rules = <<>> /\ pasted = {}
Next == \/ \E r \in Requests : PasteSuggestion(r)
        \/ \E i \in DOMAIN rules, n \in 1..MaxRules : Rename(i, n)
Spec == Init /\ [][Next]_vars

-----------------------------------------------------------------------------
Queryless(r) == r.path.query = NoQuery

(* A pasted rule ends the refusal it was pasted for, whatever other rules  *)
(* were pasted around it and however they were renamed, for requests that  *)
(* carry no query: once the file parses, which it does not while a second  *)
(* suggestion for a host has the name of the first.                        *)
PastedRuleAdmitsPlain ==
  Loads(rules) => \A r \in pasted : Queryless(r) => Allows(Effective, Entry(r))

(* A suggestion is exact: what the policy allows after any number of       *)
(* pastes is the host, port, protocol of a request someone pasted for,     *)
(* and its very path when that path has a meaning and is glob-free.        *)
PastesAreExact ==
  \A r \in Requests : Allows(Effective, Entry(r)) =>
    \E s \in pasted :
      /\ r.host = s.host /\ r.port = s.port /\ r.protocol = s.protocol
      /\ /\ Queryless(s) /\ Normalised[s.path] # NoPath
         /\ Normalised[s.path].base \in GlobFree \ Roots
         => Normalised[r.path] = Normalised[s.path]
=============================================================================
