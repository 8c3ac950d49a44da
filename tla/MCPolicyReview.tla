--------------------------- MODULE MCPolicyReview ---------------------------
(* PolicyReview over a universe in which rules overlap: a broad wildcard   *)
(* and the names under it, a literal address, a service-prefixed name,     *)
(* "localhost".  Covers also has every glob of at most three tokens over   *)
(* two letters.                                                            *)
EXTENDS PolicyReview

StarX == <<Star, Lit(".x")>>
AX    == <<Lit("a"), Lit(".x")>>
SAX   == <<Lit("_s."), Lit("a"), Lit(".x")>>
Star10 == <<Lit("10."), Star>>
Ten1   == <<Lit("10."), Lit("1")>>
MCLocalhost == <<Lit("localhost")>>
PathP  == <<Lit("/"), Lit("p")>>

Names == {<<"a", ".x">>, <<"b", ".x">>, <<"_s.", "a", ".x">>, <<"10.", "1">>,
          <<"localhost">>}
Paths == {<<"/", "p">>, <<"/", "q">>, <<"/", "%2e">>}
MCIps == {"10.1", "10.2", "127.1"}
MCNoPath == <<"none">>
Letters  == BoundedSeq({"a", "b"}, 4)
AllGlobs ==
  {g \in BoundedSeq({Lit("a"), Lit("b"), One, Star, Class({"a", "b"})}, 3) : Tokenized(g)}

MCCovers ==
  [p \in AllGlobs \cup {StarX, AX, SAX, Star10, Ten1, MCLocalhost, PathP, <<Lit("/"), Star>>} |->
     {s \in Letters \cup Names \cup Paths : GlobMatches(p, s)}]
MCLiterals ==
  [p \in DOMAIN MCCovers |->
     IF p = Ten1 THEN {"10.1"} ELSE IF p = MCLocalhost THEN {"127.1"} ELSE {}]
MCUnprefixed ==
  [n \in Names |-> IF n = <<"_s.", "a", ".x">> THEN <<"a", ".x">> ELSE n]
MCNormalised == [x \in Paths |-> IF x = <<"/", "%2e">> THEN MCNoPath ELSE x]

Plain(ds) ==
  [domains |-> ds, ports |-> {}, protocols |-> {"https", "http"},
   paths |-> {}, methods |-> {}, allow_request_body |-> FALSE,
   allowed_ips |-> {}, internal_ip_guard |-> TRUE, tls |-> "intercept"]

(* A rule, plain or with one setting of its own.                           *)
Variants(ds) ==
  {Plain(ds),
   [Plain(ds) EXCEPT !.ports = {443}],
   [Plain(ds) EXCEPT !.protocols = {"tcp"}],
   [Plain(ds) EXCEPT !.paths = {PathP}],
   [Plain(ds) EXCEPT !.methods = {"GET"}, !.allow_request_body = TRUE],
   [Plain(ds) EXCEPT !.allow_request_body = TRUE],
   [Plain(ds) EXCEPT !.allowed_ips = {"10.2"}],
   [Plain(ds) EXCEPT !.internal_ip_guard = FALSE],
   [Plain(ds) EXCEPT !.tls = "passthrough"]}

MCRules ==
  UNION {Variants({d}) : d \in {StarX, AX, SAX, Star10, Ten1}}
    \cup {Plain({AX, Ten1}), Plain({MCLocalhost}),
          [Plain({AX}) EXCEPT !.protocols = {}, !.allowed_ips = {"10.2"}]}
MCBoundaryRules ==
  {Plain({StarX}), Plain({Star10}), Plain({Ten1}), Plain({AX, Ten1}),
   [Plain({<<Star>>}) EXCEPT !.allowed_ips = {"127.1"}],
   [Plain({StarX}) EXCEPT !.ports = {443}, !.protocols = {"https", "tcp"}],
   [Plain({StarX}) EXCEPT !.methods = {"GET"}, !.allow_request_body = TRUE],
   [Plain({StarX}) EXCEPT !.paths = {<<Lit("/"), Star>>}, !.allowed_ips = {"10.2"}],
   [Plain({StarX}) EXCEPT !.internal_ip_guard = FALSE],
   [Plain({StarX}) EXCEPT !.tls = "passthrough"]}

MCConnections ==
  [protocol : {"https", "tcp"}, host : Names, port : {80, 443},
   path : Paths, method : {"GET", "PUT"}]
MCDnsQueries ==
  [protocol : {"dns"}, host : Names, port : {53}, path : {<<"/", "p">>},
   method : {"GET"}]
=============================================================================
