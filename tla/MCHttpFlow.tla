----------------------------- MODULE MCHttpFlow -----------------------------
(* HttpFlow over one name the policy allows (a.x), with an internal        *)
(* exemption for one of its paths only, one it does not (b.x), a shared    *)
(* public address and an internal one.                                     *)
EXTENDS HttpFlow

MCClientOf == [f \in Flows |-> IF f = "f3" THEN "c2" ELSE "c1"]
MCIps      == {"8.8", "10.1", "::8"}
MCNames    == {"a.x", "b.x"} \cup MCIps
MCKnown    == [n \in MCNames |-> IF n = "8.8" THEN {"8.8", "a.x", "b.x"} ELSE {n}]
MCAnswers  ==
  [n \in MCNames |->
     CASE n \in MCIps -> {<<n>>}
       [] n = "a.x"   -> {<<>>, <<"8.8">>, <<"10.1">>, <<"::8", "8.8">>,
                          <<"8.8", "10.1">>}
       [] OTHER       -> {<<>>, <<"8.8">>}]

MCPaths    == {"/p", "/in"}
MCCovers   == [p \in {"a.x", "/p", "/in"} |-> {p}]
MCLiterals == [p \in DOMAIN MCCovers |-> {}]

Rule(domain, path) ==
  [domains |-> {domain}, ports |-> {}, protocols |-> {"http", "https"},
   paths |-> {path}, methods |-> {}, allow_request_body |-> FALSE,
   allowed_ips |-> {}, internal_ip_guard |-> TRUE, tls |-> "intercept"]
MCPolicy ==
  <<Rule("a.x", "/p"),
    [Rule("a.x", "/in") EXCEPT !.allowed_ips = {"10.1"},
                               !.allow_request_body = TRUE]>>

Http(host, path) ==
  [protocol |-> "http", host |-> host, port |-> 80, path |-> path,
   method |-> "GET", sni |-> NoName, authority |-> NoName, ip |-> NoIp,
   badCert |-> FALSE, secret |-> FALSE]
Https(host, ip) ==
  [Http(host, "/p") EXCEPT !.protocol = "https", !.port = 443, !.ip = ip,
                           !.sni = "a.x", !.authority = "a.x"]
MCRequests ==
  {Http("a.x", "/p"), Http("a.x", "/in"), Http("b.x", "/p"),
   [Http("a.x", "/p") EXCEPT !.secret = TRUE],
   [Http("8.8", "/p") EXCEPT !.ip = "8.8", !.authority = "a.x"],
   [Http("8.8", "/p") EXCEPT !.ip = "8.8", !.authority = "b.x"],
   Https("8.8", "8.8"), Https("a.x", "10.1"),
   [Https("8.8", "8.8") EXCEPT !.authority = "b.x"],
   [Https("8.8", "8.8") EXCEPT !.badCert = TRUE],
   [Https("a.x", "8.8") EXCEPT !.secret = TRUE, !.path = "/in"]}
MCNormalised == [x \in MCPaths |-> x]
MCUnprefixed == [n \in MCNames |-> n]
=============================================================================
