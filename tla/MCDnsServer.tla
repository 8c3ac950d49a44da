---------------------------- MODULE MCDnsServer ----------------------------
(* DnsServer over two names of a policy that allows a.x and x.a, and       *)
(* exempts the internal address 10.1 for x.a, and one it does not allow.   *)
EXTENDS DnsServer

MCNames    == {"a.x", "x.a", "b.x"}
MCIps      == {"8.8", "9.9", "10.1"}
MCCovers   == [p \in {"a.x", "x.a"} |-> {p}]
MCLiterals == [p \in {"a.x", "x.a"} |-> {}]
MCUnprefixed == [n \in MCNames |-> n]
MCNormalised == [x \in {"none"} |-> x]

Rule(domain, ips) ==
  [domains |-> {domain}, ports |-> {}, protocols |-> {"http", "https"},
   paths |-> {}, methods |-> {}, allow_request_body |-> FALSE,
   allowed_ips |-> ips, internal_ip_guard |-> TRUE, tls |-> "intercept"]
MCPolicy == <<Rule("a.x", {}), Rule("x.a", {"10.1"})>>

Answered(a, aaaa) == [a |-> a, aaaa |-> aaaa]

(* Two queries that race for the maps, and one for IPv6, which may also    *)
(* come malformed.                                                         *)
MCShape   == [q \in {"a1", "x1", "a6"} |->
                IF q = "a6" THEN {"bad", "empty", "probe", "query"} ELSE {"query"}]
MCNameOf  == [q \in DOMAIN MCShape |-> IF q = "x1" THEN "x.a" ELSE "a.x"]
MCTypeOf  == [q \in DOMAIN MCShape |-> IF q = "a6" THEN "AAAA" ELSE "A"]
MCResponses ==
  [q \in DOMAIN MCShape |->
     CASE q = "a1" -> {Answered(<<>>, <<>>), Answered(<<"8.8">>, <<>>),
                       Answered(<<"8.8", "10.1">>, <<>>)}
       [] q = "x1" -> {Answered(<<"10.1">>, <<>>)}
       [] OTHER    -> {Answered(<<>>, <<"10.1">>)}]

(* The queries of the runs at the cap: each answer has other addresses,    *)
(* and b.x is a name of no rule.                                           *)
CapShape  == [q \in {"a1", "x1", "b1"} |-> {"query"}]
CapNameOf == [q \in DOMAIN CapShape |->
                IF q = "x1" THEN "x.a" ELSE IF q = "b1" THEN "b.x" ELSE "a.x"]
CapTypeOf == [q \in DOMAIN CapShape |-> "A"]
CapResponses ==
  [q \in DOMAIN CapShape |->
     CASE q = "a1" -> {Answered(<<"8.8">>, <<>>)}
       [] q = "x1" -> {Answered(<<"9.9">>, <<>>)}
       [] OTHER    -> {Answered(<<"10.1">>, <<>>)}]
=============================================================================
