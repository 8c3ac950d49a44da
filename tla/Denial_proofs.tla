---------------------------- MODULE Denial_proofs ----------------------------
(* Proofs about Denial, for any requests and any number of pastes.         *)
EXTENDS Denial, SequenceTheorems, TLAPS

-----------------------------------------------------------------------------
(* What a suggestion matches.                                              *)

LEMMA EntryOfRequest ==
  ASSUME NEW r \in Requests
  PROVE  LET e == Entry(r)
         IN  /\ e.protocol = r.protocol /\ e.host = r.host /\ e.port = r.port
             /\ e.method = r.method
             /\ e.path.base = r.path.base
             /\ Queryless(r) => e.path = r.path
             /\ ~Queryless(r) => e.path.query = "<redacted>"
             /\ [e.path EXCEPT !.query = NoQuery] = [base |-> r.path.base, query |-> NoQuery]
<1>1. r = [protocol |-> r.protocol, host |-> r.host, port |-> r.port,
           path |-> [base |-> r.path.base, query |-> r.path.query],
           method |-> r.method]
  BY RequestsAssumption
<1>2. r.path = [base |-> r.path.base, query |-> r.path.query]
  BY <1>1
<1> DEFINE q == IF r.path.query = NoQuery THEN NoQuery ELSE "<redacted>"
<1>3. RedactPath(r.path) = [base |-> r.path.base, query |-> q]
  BY <1>2 DEF RedactPath
<1>4. Entry(r) = [protocol |-> r.protocol, host |-> r.host, port |-> r.port,
                  path |-> [base |-> r.path.base, query |-> q], method |-> r.method]
  BY <1>1, <1>3 DEF Entry
<1> QED
  BY <1>2, <1>4 DEF Queryless

LEMMA PathOfRequest ==
  ASSUME NEW r \in Requests
  PROVE  r.path = [base |-> r.path.base, query |-> r.path.query]
<1>1. r = [protocol |-> r.protocol, host |-> r.host, port |-> r.port,
           path |-> [base |-> r.path.base, query |-> r.path.query],
           method |-> r.method]
  BY RequestsAssumption
<1> QED
  BY <1>1

LEMMA QueryOf ==
  ASSUME NEW n, NEW b, NEW q, n = [base |-> b, query |-> q]
  PROVE  n.query = q
OBVIOUS

LEMMA NormalForm ==
  ASSUME NEW r \in Requests, NEW path, path = Entry(r).path, NEW n, n = Normalised[path],
         n # NoPath
  PROVE  /\ n = [base |-> n.base, query |-> path.query]
         /\ n.query = path.query
         /\ path.base \in Roots => n.base \in Roots
         /\ path.query = NoQuery /\ n.base \in GlobFree \ {""} => Covers[n.base] = {n}
<1>1. /\ n = [base |-> n.base, query |-> path.query]
      /\ path.base \in Roots => n.base \in Roots
      /\ path.query = NoQuery /\ n.base \in GlobFree \ {""}
           => Covers[n.base] = {[base |-> n.base, query |-> NoQuery]}
  BY RequestsAssumption
<1>2. n.query = path.query
  <2>1. \A b, q : n = [base |-> b, query |-> q] => n.query = q
    BY QueryOf
  <2> QED
    BY <1>1, <2>1, Zenon
<1> QED
  BY <1>1, <1>2

(* A suggested rule, however it is named, matches the plain request it was *)
(* made for.                                                               *)
LEMMA SuggestionMatches ==
  ASSUME NEW r \in Requests, r.host \in GlobFree, Queryless(r), NEW name
  PROVE  Matches(Named(name, Entry(r)), Entry(r))
<1> DEFINE e == Entry(r)
           n == Normalised[e.path]
<1>1. /\ e.host = r.host /\ e.path = r.path /\ e.path.query = NoQuery
      /\ e.path.base = r.path.base
      /\ [e.path EXCEPT !.query = NoQuery] = [base |-> r.path.base, query |-> NoQuery]
  BY EntryOfRequest DEF Queryless
<1>2. r.path = [base |-> r.path.base, query |-> r.path.query]
  BY PathOfRequest
<1>3. [e.path EXCEPT !.query = NoQuery] = e.path
  BY <1>1, <1>2
<1>4. e.host \in Covers[e.host]
  BY <1>1, RequestsAssumption
<1>5. PathMatches(SuggestedPaths(e), e.path)
  <2>1. SuggestedPaths(e) = IF e.path.base \notin Roots /\ n # NoPath
                               /\ n.base \in GlobFree \ {""}
                            THEN {n.base} ELSE {}
    BY <1>3 DEF SuggestedPaths
  <2>2. n # NoPath /\ n.base \in GlobFree \ {""} => Covers[n.base] = {n}
    BY <1>1, NormalForm
  <2> HIDE DEF e
  <2> QED
    BY <2>1, <2>2 DEF PathMatches
<1> QED
  BY <1>4, <1>5 DEF Named, Matches, MatchesExceptMethod, DomainMatches,
     PortMatches, MethodMatches

(* And nothing but its destination.                                        *)
LEMMA SuggestionIsExact ==
  ASSUME NEW s \in Requests, s.host \in GlobFree, NEW r \in Requests, NEW name,
         Matches(Named(name, Entry(s)), Entry(r))
  PROVE  /\ r.host = s.host /\ r.port = s.port /\ r.protocol = s.protocol
         /\ /\ Queryless(s) /\ Normalised[s.path] # NoPath
            /\ Normalised[s.path].base \in GlobFree \ Roots
            => Normalised[r.path] = Normalised[s.path]
<1> DEFINE d == Entry(s)
           e == Entry(r)
           n == Normalised[s.path]
<1>1. /\ e.host = r.host /\ e.port = r.port /\ e.protocol = r.protocol
      /\ d.host = s.host /\ d.port = s.port /\ d.protocol = s.protocol
  BY EntryOfRequest
<1>2. /\ e.host \in Covers[d.host] /\ e.port \in {d.port} /\ e.protocol \in {d.protocol}
      /\ PathMatches(SuggestedPaths(d), e.path)
  BY DEF Named, Matches, MatchesExceptMethod, DomainMatches, PortMatches
<1>3. Covers[s.host] = {s.host}
  BY RequestsAssumption
<1>4. ASSUME Queryless(s), n # NoPath, n.base \in GlobFree \ Roots
      PROVE  Normalised[r.path] = n
  <2>1. /\ d.path = s.path /\ d.path.base = s.path.base /\ d.path.query = NoQuery
        /\ [d.path EXCEPT !.query = NoQuery] = [base |-> s.path.base, query |-> NoQuery]
    BY <1>4, EntryOfRequest DEF Queryless
  <2>2. s.path = [base |-> s.path.base, query |-> s.path.query]
    BY PathOfRequest
  <2>3. [d.path EXCEPT !.query = NoQuery] = s.path
    BY <2>1, <2>2
  <2>4. n = [base |-> n.base, query |-> NoQuery] /\ (s.path.base \in Roots => n.base \in Roots)
    <3>1. /\ n = [base |-> n.base, query |-> d.path.query]
          /\ d.path.base \in Roots => n.base \in Roots
      BY <1>4, <2>1, NormalForm
    <3> QED
      BY <2>1, <3>1
  <2>5. Covers[n.base] = {n}
    BY <1>4, <2>1, NormalForm DEF Roots
  <2>6. SuggestedPaths(d) = {n.base}
    BY <1>4, <2>1, <2>3, <2>4 DEF SuggestedPaths, Roots
  <2>7. Normalised[e.path] # NoPath /\ Normalised[e.path] = n
    BY <1>2, <2>5, <2>6 DEF PathMatches
  <2>8. Normalised[e.path].query = e.path.query
    BY <2>7, NormalForm
  <2>9. n.query = NoQuery
    BY <2>4, QueryOf
  <2>10. Queryless(r)
    BY <2>7, <2>8, <2>9, EntryOfRequest DEF NoQuery
  <2> QED
    BY <2>7, <2>10, EntryOfRequest
<1> QED
  BY <1>1, <1>2, <1>3, <1>4

-----------------------------------------------------------------------------
(* The policy is what was pasted, no more and no less, but for the names.  *)
Names == {<<r.host, n>> : r \in Requests, n \in Nat}
Suggestions == {Named(name, Entry(r)) : name \in Names, r \in Requests}

IsFor(rule, s) == \E name \in Names : rule = Named(name, Entry(s))

PasteInv ==
  /\ rules \in Seq(Suggestions)
  /\ pasted \subseteq {r \in Requests : r.host \in GlobFree}
  /\ \A i \in DOMAIN rules : \E s \in pasted : IsFor(rules[i], s)
  /\ \A s \in pasted : \E i \in DOMAIN rules : IsFor(rules[i], s)

LEMMA RenamedRecord ==
  ASSUME NEW a, NEW b, NEW entry
  PROVE  [Named(a, entry) EXCEPT !.name = b] = Named(b, entry)
<1> DEFINE R(name, d, po, pr, pa, m, body, ips, guard, tls) ==
      [name |-> name, domains |-> d, ports |-> po, protocols |-> pr,
       paths |-> pa, methods |-> m, allow_request_body |-> body,
       allowed_ips |-> ips, internal_ip_guard |-> guard, tls |-> tls]
<1>1. ASSUME NEW d, NEW po, NEW pr, NEW pa, NEW m, NEW body, NEW ips, NEW guard, NEW tls
      PROVE  [R(a, d, po, pr, pa, m, body, ips, guard, tls) EXCEPT !.name = b]
             = R(b, d, po, pr, pa, m, body, ips, guard, tls)
  OBVIOUS
<1>2. PICK d, po, pr, pa, m, body, ips, guard, tls :
        /\ Named(a, entry) = R(a, d, po, pr, pa, m, body, ips, guard, tls)
        /\ Named(b, entry) = R(b, d, po, pr, pa, m, body, ips, guard, tls)
  <2> WITNESS {entry.host}, {entry.port}, {entry.protocol}, SuggestedPaths(entry),
              {}, FALSE, {}, TRUE, "intercept"
  <2> QED
    BY Zenon DEF Named
<1>3. [R(a, d, po, pr, pa, m, body, ips, guard, tls) EXCEPT !.name = b]
      = R(b, d, po, pr, pa, m, body, ips, guard, tls)
  BY <1>1
<1> HIDE DEF R
<1> QED
  BY <1>2, <1>3

(* A rule that is renamed stays the suggestion it was.                     *)
LEMMA RenamedRule ==
  ASSUME NEW s \in Requests, NEW rule, IsFor(rule, s), NEW n \in Nat
  PROVE  IsFor([rule EXCEPT !.name = <<rule.name[1], n>>], s)
<1>1. PICK name \in Names : rule = Named(name, Entry(s))
  BY DEF IsFor
<1>2. PICK r \in Requests, m \in Nat : name = <<r.host, m>>
  BY DEF Names
<1>3. rule.name = name
  BY <1>1 DEF Named
<1>4. <<rule.name[1], n>> = <<r.host, n>> /\ <<r.host, n>> \in Names
  BY <1>2, <1>3 DEF Names
<1>5. [rule EXCEPT !.name = <<r.host, n>>] = Named(<<r.host, n>>, Entry(s))
  BY <1>1, RenamedRecord
<1> QED
  BY <1>4, <1>5 DEF IsFor

LEMMA PasteInvariant == Spec => []PasteInv
<1>1. Init => PasteInv
  BY DEF Init, PasteInv
<1>2. PasteInv /\ [Next]_vars => PasteInv'
  <2> SUFFICES ASSUME PasteInv, [Next]_vars
               PROVE  PasteInv'
    OBVIOUS
  <2>1. ASSUME NEW r \in Requests, PasteSuggestion(r)
        PROVE  PasteInv'
    <3> DEFINE new == SuggestedRule(Entry(r))
    <3>1. r.host \in GlobFree /\ Entry(r).host = r.host
      BY <2>1, EntryOfRequest DEF PasteSuggestion, PolicyMiss
    <3>2. IsFor(new, r) /\ new \in Suggestions
      BY <3>1 DEF SuggestedRule, IsFor, Names, Suggestions
    <3>3. rules' = Append(rules, new) /\ pasted' = pasted \cup {r}
      BY <2>1 DEF PasteSuggestion
    <3> HIDE DEF new
    <3>4. /\ rules' \in Seq(Suggestions)
          /\ DOMAIN rules' = DOMAIN rules \cup {Len(rules) + 1}
          /\ rules'[Len(rules) + 1] = new
          /\ \A i \in DOMAIN rules : rules'[i] = rules[i]
      BY <3>2, <3>3, AppendProperties, LenProperties DEF PasteInv
    <3>5. \A i \in DOMAIN rules' : \E s \in pasted' : IsFor(rules'[i], s)
      BY <3>2, <3>3, <3>4 DEF PasteInv
    <3>6. \A s \in pasted' : \E i \in DOMAIN rules' : IsFor(rules'[i], s)
      BY <3>2, <3>3, <3>4 DEF PasteInv
    <3> QED
      BY <3>1, <3>3, <3>4, <3>5, <3>6 DEF PasteInv
  <2>2. ASSUME NEW i \in DOMAIN rules, NEW n \in 1..MaxRules, Rename(i, n)
        PROVE  PasteInv'
    <3> DEFINE new == [rules[i] EXCEPT !.name = <<rules[i].name[1], n>>]
    <3>1. rules' = [rules EXCEPT ![i] = new] /\ pasted' = pasted
      BY <2>2 DEF Rename
    <3>2. \A s \in pasted : IsFor(rules[i], s) => IsFor(new, s)
      BY RenamedRule DEF PasteInv
    <3>3. PICK s \in pasted : IsFor(rules[i], s)
      BY DEF PasteInv
    <3>4. new \in Suggestions
      BY <3>2, <3>3 DEF IsFor, Suggestions, PasteInv
    <3> HIDE DEF new
    <3>5. /\ rules' \in Seq(Suggestions) /\ DOMAIN rules' = DOMAIN rules
          /\ \A j \in DOMAIN rules : rules'[j] = IF j = i THEN new ELSE rules[j]
      BY <3>1, <3>4, ExceptSeq DEF PasteInv
    <3> QED
      BY <3>1, <3>2, <3>3, <3>5 DEF PasteInv
  <2>3. CASE UNCHANGED vars
    BY <2>3 DEF PasteInv, vars
  <2> QED
    BY <2>1, <2>2, <2>3 DEF Next
<1> QED
  BY <1>1, <1>2, PTL DEF Spec

(* No request a job makes is a DNS query: an entry is judged rule by rule. *)
LEMMA AllowedByRule ==
  ASSUME NEW r \in Requests
  PROVE  Allows(Effective, Entry(r)) <=>
           Loads(rules) /\ \E i \in DOMAIN rules : Matches(rules[i], Entry(r))
<1>1. Entry(r).protocol # "dns"
  BY EntryOfRequest, RequestsAssumption
<1> QED
  BY <1>1 DEF Allows, RulesOf, Effective

(* Pasting the suggestion ends the refusal, whatever else was pasted, once *)
(* the file parses.                                                        *)
THEOREM SuggestionAdmits == Spec => []PastedRuleAdmitsPlain
<1>1. PasteInv => PastedRuleAdmitsPlain
  BY SuggestionMatches, AllowedByRule DEF PasteInv, PastedRuleAdmitsPlain, IsFor
<1> QED
  BY <1>1, PasteInvariant, PTL

(* Pasting suggestions never opens more than the destinations pasted for.  *)
THEOREM SuggestionsExact == Spec => []PastesAreExact
<1>1. PasteInv => PastesAreExact
  <2> SUFFICES ASSUME PasteInv, NEW r \in Requests, Allows(Effective, Entry(r))
               PROVE  \E s \in pasted :
                        /\ r.host = s.host /\ r.port = s.port /\ r.protocol = s.protocol
                        /\ /\ Queryless(s) /\ Normalised[s.path] # NoPath
                           /\ Normalised[s.path].base \in GlobFree \ Roots
                           => Normalised[r.path] = Normalised[s.path]
    BY DEF PastesAreExact
  <2>1. PICK s \in pasted, name \in Names : Matches(Named(name, Entry(s)), Entry(r))
    BY AllowedByRule DEF PasteInv, IsFor
  <2>2. s \in Requests /\ s.host \in GlobFree
    BY DEF PasteInv
  <2> QED
    BY <2>1, <2>2, SuggestionIsExact
<1> QED
  BY <1>1, PasteInvariant, PTL
=============================================================================
