----------------------------- MODULE MCTcpFlow -----------------------------
(* TcpFlow over a pinned service (p.x, passed through), a service reached  *)
(* over raw TCP (d.x), a name of no rule (n.x), one public address the     *)
(* three share and an internal one.                                        *)
EXTENDS TcpFlow

MCNames    == {"p.x", "d.x", "n.x"}
MCIps      == {"8.8", "10.1"}
MCCovers   == [p \in {"p.x", "d.x"} |-> {p}]
MCLiterals == [p \in {"p.x", "d.x"} |-> {}]
MCUnprefixed == [n \in MCNames |-> n]
MCNormalised == [x \in {""} |-> x]

Rule(domain, protocols, tls) ==
  [domains |-> {domain}, ports |-> {}, protocols |-> protocols, paths |-> {},
   methods |-> {}, allow_request_body |-> FALSE, allowed_ips |-> {},
   internal_ip_guard |-> TRUE, tls |-> tls]
MCPolicy == <<Rule("p.x", {"https"}, "passthrough"), Rule("d.x", {"tcp"}, "intercept")>>

Tls(sni, addr, ip) == [tls |-> TRUE, sni |-> sni, addr |-> addr, ip |-> ip, port |-> 443]
Raw(addr, ip) == [Tls("none", addr, ip) EXCEPT !.tls = FALSE, !.port = 5432]
MCConnections ==
  {Tls("p.x", "8.8", "8.8"), Tls("p.x", "10.1", "10.1"), Tls("p.x", "p.x", "10.1"),
   Tls("n.x", "8.8", "8.8"), Tls("none", "8.8", "8.8"),
   Raw("8.8", "8.8"), Raw("d.x", "10.1")}
MCResolved == {<<"8.8", "p.x">>, <<"8.8", "d.x">>, <<"10.1", "d.x">>, <<"10.1", "p.x">>}
=============================================================================
