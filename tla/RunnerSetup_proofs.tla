------------------------- MODULE RunnerSetup_proofs -------------------------
(* Proofs about RunnerSetup, for any set of configurations.                *)
EXTENDS RunnerSetup, SequenceTheorems, TLAPS

-----------------------------------------------------------------------------
(* The list of additions.  What the proofs need of it: each rule is added  *)
(* by one command, and a command that needs a flag comes after all that    *)
(* set one.                                                                *)

Flags == {"v4", "log4", "forward", "v6"}

RulesOf(c) ==
  CASE c.intercept = "transparent" ->
         {"nat443", "nat80", "log", "forward"}
         \cup (IF c.enforce THEN {"quic", "dotTcp", "dotUdp"} ELSE {})
         \cup (IF c.enforce /\ c.dns THEN {"dnsUdp", "dnsTcp"} ELSE {})
         \cup (IF c.ip6 THEN {"log6"} ELSE {})
         \cup (IF c.ip6 /\ c.enforce THEN {"webTcp6", "webUdp6"} ELSE {})
    [] c.intercept = "none" ->
         {"log"}
         \cup (IF c.ip6 THEN {"log6"} ELSE {})
         \cup (IF c.enforce /\ c.dns
               THEN {"dnsUdp", "dnsTcp", "dotTcpRoot", "dotUdpRoot", "dnsUdp6", "dnsTcp6"}
               ELSE {})
    [] OTHER -> {}

FlagsOf(c, r) ==
  CASE r = "log" -> IF c.intercept = "none" THEN {"v4", "log4"} ELSE {"v4"}
    [] r = "dotUdpRoot" -> {"v4"}
    [] r = "forward"    -> {"forward"}
    [] r = "log6"       -> {"v6"}
    [] OTHER            -> {}

NeedsOf(r) == IF r \in {"webTcp6", "webUdp6", "dnsUdp6", "dnsTcp6"} THEN {"v6"} ELSE {}
FatalOf(c, r) == r \notin {"forward", "log6"} /\ ~(r = "log" /\ c.intercept = "none")

Item(c, r) == [rule |-> r, fatal |-> FatalOf(c, r), flags |-> FlagsOf(c, r),
               needs |-> NeedsOf(r)]
Items(c)   == {Item(c, r) : r \in RulesOf(c)}

Ordered(s) == \A i, j \in DOMAIN s : i < j /\ s[i].needs # {} => s[j].flags = {}
Needless(s) == \A i \in DOMAIN s : s[i].needs = {}

LEMMA OrderedConcat ==
  ASSUME NEW S, NEW s \in Seq(S), NEW t \in Seq(S), Needless(s)
  PROVE  /\ Ordered(t) => Ordered(s \o t)
         /\ Needless(t) => Needless(s \o t)
<1> DEFINE m == Len(s)
           n == Len(t)
<1>1. /\ m \in Nat /\ n \in Nat /\ DOMAIN s = 1..m /\ DOMAIN t = 1..n
      /\ s \o t \in Seq(S) /\ Len(s \o t) = m + n /\ DOMAIN (s \o t) = 1..(m + n)
  BY ConcatProperties, LenProperties
<1>2. \A i \in 1..(m + n) : (s \o t)[i] = IF i <= m THEN s[i] ELSE t[i - m]
  BY ConcatProperties
<1> HIDE DEF m, n
<1>3. \A i \in 1..(m + n) : ~(i <= m) => i - m \in 1..n
  BY <1>1
<1>4. Ordered(t) => Ordered(s \o t)
  <2> SUFFICES ASSUME Ordered(t), NEW i \in 1..(m + n), NEW j \in 1..(m + n),
                      i < j, (s \o t)[i].needs # {}
               PROVE  (s \o t)[j].flags = {}
    BY <1>1 DEF Ordered
  <2>1. ~(i <= m) /\ ~(j <= m) /\ i - m < j - m
    BY <1>1, <1>2 DEF Needless
  <2> QED
    BY <1>1, <1>2, <1>3, <2>1 DEF Ordered
<1>5. Needless(t) => Needless(s \o t)
  BY <1>1, <1>2, <1>3 DEF Needless
<1> QED
  BY <1>4, <1>5

(* A part of the list adds the rules R, and needs no flag for any of them. *)
Adds(c, s, R) == s \in Seq(Items(c)) /\ Range(s) = {Item(c, r) : r \in R}

LEMMA AddsConcat ==
  ASSUME NEW c, NEW s, NEW t, NEW R, NEW Q, Adds(c, s, R), Adds(c, t, Q), Needless(s)
  PROVE  /\ Adds(c, s \o t, R \cup Q)
         /\ Needless(t) => Needless(s \o t)
         /\ Ordered(t) => Ordered(s \o t)
<1>1. s \in Seq(Items(c)) /\ t \in Seq(Items(c))
  BY DEF Adds
<1>2. s \o t \in Seq(Items(c))
  BY <1>1, ConcatProperties
<1>3. Range(s \o t) = Range(s) \cup Range(t)
  BY <1>1, RangeConcatenation
<1>4. Range(s \o t) = {Item(c, r) : r \in R \cup Q}
  BY <1>3 DEF Adds
<1>5. Adds(c, s \o t, R \cup Q)
  BY <1>2, <1>4 DEF Adds
<1> QED
  BY <1>1, <1>5, OrderedConcat

(* Each command setup.sh gives is the item of its rule.                    *)
LEMMA CommandItems ==
  ASSUME NEW c \in ConfigSpace, c.intercept \in {"transparent", "none"}
  PROVE  /\ \A r \in {"nat443", "nat80", "quic", "dotTcp", "dotUdp", "dnsUdp", "dnsTcp",
                      "dotTcpRoot"} : Must(r) = Item(c, r)
         /\ c.intercept = "transparent" => MustMark("log", {"v4"}) = Item(c, "log")
         /\ c.intercept = "none" => Try("log", {"v4", "log4"}) = Item(c, "log")
         /\ MustMark("dotUdpRoot", {"v4"}) = Item(c, "dotUdpRoot")
         /\ Try("forward", {"forward"}) = Item(c, "forward")
         /\ Try("log6", {"v6"}) = Item(c, "log6")
         /\ \A r \in {"webTcp6", "webUdp6", "dnsUdp6", "dnsTcp6"} :
              MustIf(r, "v6") = Item(c, r)
<1>1. ASSUME NEW r \in {"nat443", "nat80", "quic", "dotTcp", "dotUdp", "dnsUdp", "dnsTcp",
                        "dotTcpRoot"}
      PROVE  Must(r) = Item(c, r)
  <2>1. FatalOf(c, r) = TRUE /\ FlagsOf(c, r) = {} /\ NeedsOf(r) = {}
    BY DEF FatalOf, FlagsOf, NeedsOf
  <2> QED
    BY <2>1 DEF Must, MustMark, Item
<1>2. c.intercept = "transparent" => MustMark("log", {"v4"}) = Item(c, "log")
  <2> HAVE c.intercept = "transparent"
  <2>1. FatalOf(c, "log") = TRUE /\ FlagsOf(c, "log") = {"v4"} /\ NeedsOf("log") = {}
    BY DEF FatalOf, FlagsOf, NeedsOf
  <2> QED
    BY <2>1 DEF MustMark, Item
<1>3. c.intercept = "none" => Try("log", {"v4", "log4"}) = Item(c, "log")
  <2> HAVE c.intercept = "none"
  <2>1. /\ FatalOf(c, "log") = FALSE /\ FlagsOf(c, "log") = {"v4", "log4"}
        /\ NeedsOf("log") = {}
    BY DEF FatalOf, FlagsOf, NeedsOf
  <2> QED
    BY <2>1 DEF Try, Item
<1>4. MustMark("dotUdpRoot", {"v4"}) = Item(c, "dotUdpRoot")
  <2>1. /\ FatalOf(c, "dotUdpRoot") = TRUE /\ FlagsOf(c, "dotUdpRoot") = {"v4"}
        /\ NeedsOf("dotUdpRoot") = {}
    BY DEF FatalOf, FlagsOf, NeedsOf
  <2> QED
    BY <2>1 DEF MustMark, Item
<1>5. ASSUME NEW r \in {"forward", "log6"}, NEW fl, FlagsOf(c, r) = fl
      PROVE  Try(r, fl) = Item(c, r)
  <2>1. FatalOf(c, r) = FALSE /\ NeedsOf(r) = {}
    BY DEF FatalOf, NeedsOf
  <2> QED
    BY <1>5, <2>1 DEF Try, Item
<1>6. FlagsOf(c, "forward") = {"forward"} /\ FlagsOf(c, "log6") = {"v6"}
  BY DEF FlagsOf
<1>7. ASSUME NEW r \in {"webTcp6", "webUdp6", "dnsUdp6", "dnsTcp6"}
      PROVE  MustIf(r, "v6") = Item(c, r)
  <2>1. FatalOf(c, r) = TRUE /\ FlagsOf(c, r) = {} /\ NeedsOf(r) = {"v6"}
    BY DEF FatalOf, FlagsOf, NeedsOf
  <2> QED
    BY <2>1 DEF MustIf, Item
<1> QED
  BY <1>1, <1>2, <1>3, <1>4, <1>5, <1>6, <1>7

LEMMA ItemFields ==
  ASSUME NEW c, NEW r
  PROVE  /\ Item(c, r).rule = r /\ Item(c, r).fatal = FatalOf(c, r)
         /\ Item(c, r).flags = FlagsOf(c, r) /\ Item(c, r).needs = NeedsOf(r)
  BY DEF Item

LEMMA PlainParts ==
  ASSUME NEW c, NEW s, NEW R, Adds(c, s, R)
  PROVE  /\ (\A r \in R : NeedsOf(r) = {}) => Needless(s)
         /\ (\A r \in R : FlagsOf(c, r) = {}) => Ordered(s)
<1>1. \A i \in DOMAIN s : \E r \in R : s[i] = Item(c, r)
  BY DEF Adds, Range
<1>2. (\A r \in R : NeedsOf(r) = {}) => Needless(s)
  BY <1>1, ItemFields DEF Needless
<1>3. (\A r \in R : FlagsOf(c, r) = {}) => Ordered(s)
  BY <1>1, ItemFields DEF Ordered
<1> QED
  BY <1>2, <1>3

LEMMA LiteralParts ==
  ASSUME NEW c
  PROVE  /\ \A r \in RulesOf(c) : Adds(c, <<Item(c, r)>>, {r})
         /\ \A r, q \in RulesOf(c) : Adds(c, <<Item(c, r), Item(c, q)>>, {r, q})
         /\ \A r, q, p \in RulesOf(c) :
              Adds(c, <<Item(c, r), Item(c, q), Item(c, p)>>, {r, q, p})
         /\ Adds(c, <<>>, {})
<1>1. \A r \in RulesOf(c) : Item(c, r) \in Items(c)
  BY DEF Items
<1>2. ASSUME NEW r \in RulesOf(c) PROVE Adds(c, <<Item(c, r)>>, {r})
  <2>1. \A x \in Items(c) : <<x>> \in Seq(Items(c)) /\ Range(<<x>>) = {x}
    BY DEF Range
  <2> QED
    BY <1>1, <2>1 DEF Adds
<1>3. ASSUME NEW r \in RulesOf(c), NEW q \in RulesOf(c)
      PROVE  Adds(c, <<Item(c, r), Item(c, q)>>, {r, q})
  <2>1. \A x, y \in Items(c) : <<x, y>> \in Seq(Items(c)) /\ Range(<<x, y>>) = {x, y}
    BY DEF Range
  <2> QED
    BY <1>1, <2>1 DEF Adds
<1>4. ASSUME NEW r \in RulesOf(c), NEW q \in RulesOf(c), NEW p \in RulesOf(c)
      PROVE  Adds(c, <<Item(c, r), Item(c, q), Item(c, p)>>, {r, q, p})
  <2>1. \A x, y, z \in Items(c) : /\ <<x, y, z>> \in Seq(Items(c))
                                  /\ Range(<<x, y, z>>) = {x, y, z}
    BY DEF Range
  <2> QED
    BY <1>1, <2>1 DEF Adds
<1>5. Adds(c, <<>>, {})
  BY DEF Adds, Range
<1> QED
  BY <1>2, <1>3, <1>4, <1>5

LEMMA TransparentAdds ==
  ASSUME NEW c \in ConfigSpace, c.intercept = "transparent"
  PROVE  Adds(c, Transparent(c), RulesOf(c)) /\ Ordered(Transparent(c))
<1> DEFINE P1 == <<Must("nat443"), Must("nat80"), MustMark("log", {"v4"})>>
           P2 == When(c.enforce, <<Must("quic"), Must("dotTcp"), Must("dotUdp")>>)
           P3 == When(c.enforce /\ c.dns, <<Must("dnsUdp"), Must("dnsTcp")>>)
           P4 == <<Try("forward", {"forward"})>>
           P5 == When(c.ip6, <<Try("log6", {"v6"})>>)
           P6 == When(c.ip6 /\ c.enforce,
                      <<MustIf("webTcp6", "v6"), MustIf("webUdp6", "v6")>>)
           R1 == {"nat443", "nat80", "log"}
           R2 == IF c.enforce THEN {"quic", "dotTcp", "dotUdp"} ELSE {}
           R3 == IF c.enforce /\ c.dns THEN {"dnsUdp", "dnsTcp"} ELSE {}
           R4 == {"forward"}
           R5 == IF c.ip6 THEN {"log6"} ELSE {}
           R6 == IF c.ip6 /\ c.enforce THEN {"webTcp6", "webUdp6"} ELSE {}
<1>r. RulesOf(c) = R1 \cup R2 \cup R3 \cup R4 \cup R5 \cup R6
  BY DEF RulesOf
<1>n. \A r \in R1 \cup R2 \cup R3 \cup R4 \cup R5 : NeedsOf(r) = {}
  BY DEF NeedsOf
<1>f. \A r \in R6 : FlagsOf(c, r) = {}
  BY DEF FlagsOf
<1>1. Adds(c, P1, R1)
  <2>1. P1 = <<Item(c, "nat443"), Item(c, "nat80"), Item(c, "log")>>
    BY CommandItems
  <2> QED
    BY <1>r, <2>1, LiteralParts
<1>2. Adds(c, P2, R2)
  <2>1. CASE c.enforce
    <3>1. P2 = <<Item(c, "quic"), Item(c, "dotTcp"), Item(c, "dotUdp")>>
      BY <2>1, CommandItems DEF When
    <3>2. R2 = {"quic", "dotTcp", "dotUdp"}
      BY <2>1
    <3> QED
      BY <1>r, <3>1, <3>2, LiteralParts
  <2>2. CASE ~c.enforce
    BY <2>2, LiteralParts DEF When
  <2> QED
    BY <2>1, <2>2
<1>3. Adds(c, P3, R3)
  <2>1. CASE c.enforce /\ c.dns
    <3>1. P3 = <<Item(c, "dnsUdp"), Item(c, "dnsTcp")>>
      BY <2>1, CommandItems DEF When
    <3> QED
      BY <1>r, <2>1, <3>1, LiteralParts
  <2>2. CASE ~(c.enforce /\ c.dns)
    BY <2>2, LiteralParts DEF When
  <2> QED
    BY <2>1, <2>2
<1>4. Adds(c, P4, R4)
  <2>1. P4 = <<Item(c, "forward")>>
    BY CommandItems
  <2> QED
    BY <1>r, <2>1, LiteralParts
<1>5. Adds(c, P5, R5)
  <2>1. CASE c.ip6
    <3>1. P5 = <<Item(c, "log6")>>
      BY <2>1, CommandItems DEF When
    <3> QED
      BY <1>r, <2>1, <3>1, LiteralParts
  <2>2. CASE ~c.ip6
    BY <2>2, LiteralParts DEF When
  <2> QED
    BY <2>1, <2>2
<1>6. Adds(c, P6, R6)
  <2>1. CASE c.ip6 /\ c.enforce
    <3>1. P6 = <<Item(c, "webTcp6"), Item(c, "webUdp6")>>
      BY <2>1, CommandItems DEF When
    <3> QED
      BY <1>r, <2>1, <3>1, LiteralParts
  <2>2. CASE ~(c.ip6 /\ c.enforce)
    BY <2>2, LiteralParts DEF When
  <2> QED
    BY <2>1, <2>2
<1>7. Transparent(c) = ((((P1 \o P2) \o P3) \o P4) \o P5) \o P6
  BY Zenon DEF Transparent
<1> HIDE DEF P1, P2, P3, P4, P5, P6, R1, R2, R3, R4, R5, R6
<1>8. Adds(c, P1 \o P2, R1 \cup R2) /\ Needless(P1 \o P2)
  BY <1>1, <1>2, <1>n, PlainParts, AddsConcat
<1>9. Adds(c, (P1 \o P2) \o P3, R1 \cup R2 \cup R3) /\ Needless((P1 \o P2) \o P3)
  BY <1>8, <1>3, <1>n, PlainParts, AddsConcat
<1>10. /\ Adds(c, ((P1 \o P2) \o P3) \o P4, R1 \cup R2 \cup R3 \cup R4)
       /\ Needless(((P1 \o P2) \o P3) \o P4)
  BY <1>9, <1>4, <1>n, PlainParts, AddsConcat
<1>11. /\ Adds(c, (((P1 \o P2) \o P3) \o P4) \o P5, R1 \cup R2 \cup R3 \cup R4 \cup R5)
       /\ Needless((((P1 \o P2) \o P3) \o P4) \o P5)
  BY <1>10, <1>5, <1>n, PlainParts, AddsConcat
<1>12. Ordered(P6)
  BY <1>6, <1>f, PlainParts
<1>13. /\ Adds(c, ((((P1 \o P2) \o P3) \o P4) \o P5) \o P6, RulesOf(c))
       /\ Ordered(((((P1 \o P2) \o P3) \o P4) \o P5) \o P6)
  BY <1>r, <1>11, <1>6, <1>12, AddsConcat
<1> QED
  BY <1>7, <1>13

LEMMA NoInterceptAdds ==
  ASSUME NEW c \in ConfigSpace, c.intercept = "none"
  PROVE  Adds(c, NoIntercept(c), RulesOf(c)) /\ Ordered(NoIntercept(c))
<1> DEFINE P1 == <<Try("log", {"v4", "log4"})>>
           P2 == When(c.ip6, <<Try("log6", {"v6"})>>)
           L3 == <<Must("dnsUdp"), Must("dnsTcp"), Must("dotTcpRoot"),
                   MustMark("dotUdpRoot", {"v4"}),
                   MustIf("dnsUdp6", "v6"), MustIf("dnsTcp6", "v6")>>
           P3 == When(c.enforce /\ c.dns, L3)
           R1 == {"log"}
           R2 == IF c.ip6 THEN {"log6"} ELSE {}
           Q3 == {"dnsUdp", "dnsTcp", "dotTcpRoot", "dotUdpRoot", "dnsUdp6", "dnsTcp6"}
           R3 == IF c.enforce /\ c.dns THEN Q3 ELSE {}
<1>r. RulesOf(c) = R1 \cup R2 \cup R3
  BY DEF RulesOf
<1>n. \A r \in R1 \cup R2 : NeedsOf(r) = {}
  BY DEF NeedsOf
<1>1. Adds(c, P1, R1)
  <2>1. P1 = <<Item(c, "log")>>
    BY CommandItems
  <2> QED
    BY <1>r, <2>1, LiteralParts
<1>2. Adds(c, P2, R2)
  <2>1. CASE c.ip6
    <3>1. P2 = <<Item(c, "log6")>>
      BY <2>1, CommandItems DEF When
    <3> QED
      BY <1>r, <2>1, <3>1, LiteralParts
  <2>2. CASE ~c.ip6
    BY <2>2, LiteralParts DEF When
  <2> QED
    BY <2>1, <2>2
<1>3. L3 = <<Item(c, "dnsUdp"), Item(c, "dnsTcp"), Item(c, "dotTcpRoot"),
             Item(c, "dotUdpRoot"), Item(c, "dnsUdp6"), Item(c, "dnsTcp6")>>
  BY CommandItems
<1>4. ASSUME c.enforce /\ c.dns PROVE Adds(c, L3, Q3) /\ Ordered(L3)
  <2>1. \A r \in Q3 : Item(c, r) \in Items(c)
    BY <1>4, <1>r DEF Items
  <2>2. \A S : \A u, v, w, x, y, z \in S :
          /\ <<u, v, w, x, y, z>> \in Seq(S)
          /\ Range(<<u, v, w, x, y, z>>) = {u, v, w, x, y, z}
    BY DEF Range
  <2>3. Adds(c, L3, Q3)
    <3> HIDE DEF L3
    <3> QED
      BY <1>3, <2>1, <2>2 DEF Adds
  <2>4. /\ \A r \in {"dnsUdp", "dnsTcp", "dotTcpRoot", "dotUdpRoot"} :
             Item(c, r).needs = {}
        /\ Item(c, "dnsTcp6").flags = {}
    BY ItemFields DEF NeedsOf, FlagsOf
  <2>5. ASSUME NEW u, NEW v, NEW w, NEW x, NEW y, NEW z,
               u.needs = {}, v.needs = {}, w.needs = {}, x.needs = {}, z.flags = {}
        PROVE  Ordered(<<u, v, w, x, y, z>>)
    BY <2>5 DEF Ordered
  <2>6. Ordered(L3)
    <3> HIDE DEF L3
    <3> QED
      BY <1>3, <2>4, <2>5
  <2> QED
    BY <2>3, <2>6
<1>5. Adds(c, P3, R3) /\ Ordered(P3)
  <2>1. CASE c.enforce /\ c.dns
    <3> HIDE DEF L3, Q3
    <3>1. P3 = L3 /\ R3 = Q3
      BY <2>1 DEF When
    <3> HIDE DEF P3, R3
    <3> QED
      BY <1>4, <2>1, <3>1
  <2>2. CASE ~(c.enforce /\ c.dns)
    <3> HIDE DEF L3, Q3
    <3>1. P3 = <<>> /\ R3 = {}
      BY <2>2 DEF When
    <3>2. Ordered(<<>>)
      BY DEF Ordered
    <3>3. Adds(c, <<>>, {})
      BY LiteralParts
    <3> HIDE DEF P3, R3
    <3> QED
      BY <3>1, <3>2, <3>3
  <2> QED
    BY <2>1, <2>2
<1>6. NoIntercept(c) = (P1 \o P2) \o P3
  BY Zenon DEF NoIntercept
<1> HIDE DEF P1, P2, P3, R1, R2, R3
<1>7. Adds(c, P1 \o P2, R1 \cup R2) /\ Needless(P1 \o P2)
  BY <1>1, <1>2, <1>n, PlainParts, AddsConcat
<1>8. Adds(c, (P1 \o P2) \o P3, RulesOf(c)) /\ Ordered((P1 \o P2) \o P3)
  BY <1>r, <1>7, <1>5, AddsConcat
<1> QED
  BY <1>6, <1>8

(* What setup.sh adds, in every configuration.                             *)
LEMMA AdditionsAdds ==
  ASSUME NEW c \in ConfigSpace
  PROVE  Adds(c, Additions(c), RulesOf(c)) /\ Ordered(Additions(c))
<1>1. CASE c.intercept = "transparent"
  BY <1>1, TransparentAdds DEF Additions
<1>2. CASE c.intercept = "none"
  BY <1>2, NoInterceptAdds DEF Additions
<1>3. CASE c.intercept \notin {"transparent", "none"}
  BY <1>3 DEF Additions, RulesOf, Adds, Ordered, Range
<1> QED
  BY <1>1, <1>2, <1>3

-----------------------------------------------------------------------------
(* What the proofs strengthen the properties with.                         *)
PendingOf(s) == {a.rule : a \in Range(s)}
Pending      == PendingOf(todo)

(* What is left to add, and that no flag is set any more once a rule that  *)
(* needs one had its turn.                                                 *)
TodoInv ==
  /\ todo \in Seq(Items(cfg))
  /\ Ordered(todo)
  /\ \A r \in RulesOf(cfg) : NeedsOf(r) # {} /\ r \notin Pending
                               => \A p \in Pending : FlagsOf(cfg, p) = {}

(* R is what the flags say was installed, and nothing setup could not do   *)
(* without is missing from it.                                             *)
Explained(R) ==
  /\ R \subseteq RulesOf(cfg)
  /\ \A r \in R : FlagsOf(cfg, r) \cup NeedsOf(r) \subseteq flags
  /\ \A fl \in flags : \E r \in R : fl \in FlagsOf(cfg, r)
Complete(R) ==
  \A r \in RulesOf(cfg) : \/ r \in R \/ r \in Pending
                          \/ ~FatalOf(cfg, r) \/ ~(NeedsOf(r) \subseteq flags)

Setup  == {"start", "rules", "stop", "serve", "ready", "canary"}
Before == Setup \cup {"rollback", "job", "check"}

RulesInv ==
  /\ stage \in Setup => /\ Explained(rules) /\ Complete(rules)
                        /\ ~exported
                        /\ stage \notin {"start", "rules"} => todo = <<>>
  /\ stage = "rollback" => ~exported
  /\ stage = "job" => exported
  /\ exported => /\ Explained(installed) /\ Complete(installed)
                 /\ todo = <<>>
                 /\ rules \subseteq installed
  /\ stage \in Before => boundary = "unchecked"
  /\ (stage \in {"restore", "over"} /\ exported /\ "v4" \in flags) => rules = {}

ResolverInv ==
  /\ stage \in {"start", "rules", "stop"} => resolved = cfg.resolved
  /\ stage \in {"stop", "serve", "ready"} => cfg.dns
  /\ stage \in {"serve", "ready", "canary", "job"} /\ cfg.dns => resolved # "active"
  /\ stage \in {"ready", "canary", "job"} /\ cfg.dns => resolvConf = "ours"
  /\ cfg.resolved = "active" =>
       /\ resolved \in {"active", "stopped"}
       /\ stage \in Setup \cup {"rollback"} /\ resolved = "stopped" => stopped
       /\ stage \notin Setup \cup {"rollback"} /\ ~exported => resolved = "active"
       /\ ~cfg.dns => resolved = "active"
       /\ stage = "over" => resolved = "active"

RunnerInv == TypeOK /\ TodoInv /\ RulesInv /\ ResolverInv /\ BoundaryIsExact

-----------------------------------------------------------------------------
LEMMA ConfigTyped ==
  ASSUME NEW c \in ConfigSpace
  PROVE  /\ c.intercept \in {"transparent", "regular", "none"}
         /\ c.enforce \in BOOLEAN /\ c.dns \in BOOLEAN /\ c.ip6 \in BOOLEAN
         /\ c.resolved \in {"active", "inactive", "absent"}
  BY DEF ConfigSpace

LEMMA RulesAndFlags ==
  ASSUME NEW c \in ConfigSpace
  PROVE  /\ RulesOf(c) \subseteq Rules
         /\ \A r : FlagsOf(c, r) \subseteq Flags
  BY DEF RulesOf, Rules, V4Rules, V6Rules, FlagsOf, Flags

LEMMA HeadOfTodo ==
  ASSUME NEW c, NEW s \in Seq(Items(c)), s # <<>>, Ordered(s)
  PROVE  /\ Tail(s) \in Seq(Items(c)) /\ Ordered(Tail(s))
         /\ \E r \in RulesOf(c) :
              /\ Head(s) = Item(c, r)
              /\ PendingOf(s) = {r} \cup PendingOf(Tail(s))
              /\ NeedsOf(r) # {} => \A p \in PendingOf(Tail(s)) : FlagsOf(c, p) = {}
<1> DEFINE n == Len(s)
           t == Tail(s)
<1>1. /\ n \in Nat \ {0} /\ DOMAIN s = 1..n /\ s \in [1..n -> Items(c)]
  BY LenProperties, EmptySeq
<1>2. /\ Head(s) \in Items(c) /\ Head(s) = s[1]
      /\ t \in Seq(Items(c)) /\ Len(t) = n - 1 /\ DOMAIN t = 1..(n - 1)
      /\ \A i \in 1..(n - 1) : t[i] = s[i + 1]
  BY HeadTailProperties, LenProperties
<1> HIDE DEF n, t
<1>3. Ordered(t)
  <2> SUFFICES ASSUME NEW i \in 1..(n - 1), NEW j \in 1..(n - 1), i < j, t[i].needs # {}
               PROVE  t[j].flags = {}
    BY <1>2 DEF Ordered
  <2>1. i + 1 \in 1..n /\ j + 1 \in 1..n /\ i + 1 < j + 1
    BY <1>1
  <2> QED
    BY <1>1, <1>2, <2>1 DEF Ordered
<1>4. PICK r \in RulesOf(c) : Head(s) = Item(c, r)
  BY <1>2 DEF Items
<1>5. \A i \in 1..n : i = 1 \/ (i - 1 \in 1..(n - 1) /\ t[i - 1] = s[i])
  BY <1>1, <1>2
<1>6. \A i \in 1..(n - 1) : i + 1 \in 1..n /\ t[i] = s[i + 1]
  BY <1>1, <1>2
<1>7. 1 \in 1..n
  BY <1>1
<1>8. Range(s) = {s[1]} \cup Range(t)
  BY <1>1, <1>2, <1>5, <1>6, <1>7 DEF Range
<1>9. PendingOf(s) = {r} \cup PendingOf(t)
  BY <1>8, <1>2, <1>4, ItemFields DEF PendingOf
<1>10. ASSUME NeedsOf(r) # {}, NEW p \in PendingOf(t) PROVE FlagsOf(c, p) = {}
  <2>1. PICK i \in 1..(n - 1) : t[i].rule = p
    BY <1>2 DEF PendingOf, Range
  <2>2. i + 1 \in 1..n /\ 1 < i + 1 /\ s[i + 1].rule = p
    BY <1>1, <1>6, <2>1
  <2>3. s[i + 1].flags = {}
    BY <1>1, <1>2, <1>4, <1>7, <1>10, <2>2, ItemFields DEF Ordered
  <2>4. PICK q \in RulesOf(c) : s[i + 1] = Item(c, q)
    BY <1>1, <2>2 DEF Items
  <2> QED
    BY <2>2, <2>3, <2>4, ItemFields
<1> QED
  BY <1>2, <1>3, <1>4, <1>9, <1>10 DEF t

(* What Head(todo) is, in the terms of the invariant.                      *)
LEMMA HeadCommand ==
  ASSUME TodoInv, todo # <<>>
  PROVE  /\ Tail(todo) \in Seq(Items(cfg)) /\ Ordered(Tail(todo))
         /\ \E r \in RulesOf(cfg) :
              /\ Head(todo).rule = r /\ Head(todo).fatal = FatalOf(cfg, r)
              /\ Head(todo).flags = FlagsOf(cfg, r) /\ Head(todo).needs = NeedsOf(r)
              /\ Pending = {r} \cup PendingOf(Tail(todo))
              /\ NeedsOf(r) # {} => \A p \in PendingOf(Tail(todo)) : FlagsOf(cfg, p) = {}
<1>1. todo \in Seq(Items(cfg)) /\ Ordered(todo)
  BY DEF TodoInv
<1>2. PICK r \in RulesOf(cfg) :
        /\ Head(todo) = Item(cfg, r)
        /\ Pending = {r} \cup PendingOf(Tail(todo))
        /\ NeedsOf(r) # {} => \A p \in PendingOf(Tail(todo)) : FlagsOf(cfg, p) = {}
  BY <1>1, HeadOfTodo DEF Pending
<1> QED
  BY <1>1, <1>2, HeadOfTodo, ItemFields

LEMMA TodoTyped == ASSUME NEW c \in ConfigSpace, NEW s \in Seq(Items(c))
                   PROVE  \A i \in DOMAIN s : s[i].rule \in Rules
<1>1. \A i \in DOMAIN s : s[i] \in Items(c)
  BY LenProperties, ElementOfSeq
<1> QED
  BY <1>1, ItemFields, RulesAndFlags DEF Items

LEMMA InitTodo == Init => TodoInv
<1> HAVE Init
<1>1. cfg \in ConfigSpace /\ todo = Additions(cfg)
  BY ConfigsAssumption DEF Init
<1>2. Adds(cfg, todo, RulesOf(cfg)) /\ Ordered(todo)
  BY <1>1, AdditionsAdds
<1>3. RulesOf(cfg) \subseteq Pending
  BY <1>2, ItemFields DEF Adds, Pending, PendingOf
<1> QED
  BY <1>2, <1>3 DEF TodoInv, Adds

(* Only AddRule and SkipRule touch the list, and both take its first.      *)
LEMMA TodoMoves ==
  ASSUME [Next]_vars
  PROVE  \/ UNCHANGED <<cfg, todo>>
         \/ stage = "rules" /\ todo # <<>> /\ todo' = Tail(todo) /\ UNCHANGED <<cfg, stage>>
<1>1. CASE AddRule
  BY <1>1 DEF AddRule, AddMarking
<1>2. CASE SkipRule
  BY <1>2 DEF SkipRule
<1>3. CASE UNCHANGED vars
  BY <1>3 DEF vars
<1>4. CASE Next /\ ~AddRule /\ ~SkipRule
  BY <1>4 DEF Next, SetupFails, StartProxy, RulesDone, StopResolved, StopMarking, ServeDns,
     DnsReady, Export, Rollback, Tamper, JobEnds, CheckBoundary, StopProxy, DeleteRules,
     RestoreDns, script
<1> QED
  BY <1>1, <1>2, <1>3, <1>4

LEMMA NextTodo == TodoInv /\ [Next]_vars => TodoInv'
<1> SUFFICES ASSUME TodoInv, [Next]_vars PROVE TodoInv'
  OBVIOUS
<1>1. CASE UNCHANGED <<cfg, todo>>
  BY <1>1 DEF TodoInv, Pending
<1>2. CASE todo # <<>> /\ todo' = Tail(todo) /\ UNCHANGED cfg
  <2>1. PICK r \in RulesOf(cfg) :
          /\ Pending = {r} \cup PendingOf(Tail(todo))
          /\ NeedsOf(r) # {} => \A p \in PendingOf(Tail(todo)) : FlagsOf(cfg, p) = {}
    BY <1>2, HeadCommand
  <2>2. Tail(todo) \in Seq(Items(cfg)) /\ Ordered(Tail(todo))
    BY <1>2, HeadCommand
  <2>3. ASSUME NEW q \in RulesOf(cfg), NeedsOf(q) # {}, q \notin PendingOf(Tail(todo)),
               NEW p \in PendingOf(Tail(todo))
        PROVE  FlagsOf(cfg, p) = {}
    BY <2>1, <2>3 DEF TodoInv
  <2>4. Pending' = PendingOf(Tail(todo))
    BY <1>2 DEF Pending
  <2> QED
    BY <1>2, <2>2, <2>3, <2>4 DEF TodoInv
<1> QED
  BY <1>1, <1>2, TodoMoves

LEMMA NextType == TypeOK /\ TodoInv /\ TodoInv' /\ [Next]_vars => TypeOK'
<1> SUFFICES ASSUME TypeOK, TodoInv, TodoInv', [Next]_vars PROVE TypeOK'
  OBVIOUS
<1>c. cfg' = cfg /\ cfg \in Configs /\ cfg \in ConfigSpace /\ cfg' \in ConfigSpace
  BY TodoMoves, ConfigsAssumption DEF TypeOK
<1>t. \A i \in DOMAIN todo' : todo'[i].rule \in Rules
  <2>1. todo' \in Seq(Items(cfg'))
    BY DEF TodoInv
  <2> QED
    BY <1>c, <2>1, TodoTyped
<1>1. CASE AddRule
  <2>1. PICK r \in RulesOf(cfg) : Head(todo).rule = r /\ Head(todo).flags = FlagsOf(cfg, r)
    BY <1>1, HeadCommand DEF AddRule, AddMarking
  <2>2. rules' \subseteq Rules /\ flags' \subseteq {"v4", "log4", "forward", "v6"}
    BY <1>1, <1>c, <2>1, RulesAndFlags DEF TypeOK, Flags, AddRule, AddMarking, verdict
  <2> QED
    BY <1>1, <1>c, <1>t, <2>2 DEF AddRule, AddMarking, verdict, TypeOK
<1>2. CASE SkipRule
  BY <1>2, <1>c, <1>t DEF SkipRule, verdict, network, TypeOK, Stages
<1>3. CASE SetupFails
  BY <1>3, <1>c, <1>t DEF SetupFails, Fails, script, verdict, network, TypeOK, Stages
<1>4. CASE StartProxy
  <2>1. proxyUp' \in BOOLEAN
    BY Zenon, <1>4 DEF StartProxy
  <2> QED
    BY <1>4, <1>c, <1>t, <2>1 DEF StartProxy, script, verdict, TypeOK, Stages
<1>5. CASE RulesDone
  BY <1>5, <1>c, <1>t DEF RulesDone, script, verdict, network, TypeOK, Stages
<1>6. CASE StopResolved
  <2>1. stopped' \in BOOLEAN
    BY Zenon, <1>6 DEF StopResolved, StopMarking, WasActive
  <2> QED
    BY <1>6, <1>c, <1>t, <2>1 DEF StopResolved, StopMarking, WasActive, verdict, TypeOK, Stages
<1>7. CASE ServeDns
  BY <1>7, <1>c, <1>t DEF ServeDns, script, verdict, TypeOK, Stages
<1>8. CASE DnsReady
  BY <1>8, <1>c, <1>t DEF DnsReady, script, verdict, network, TypeOK, Stages
<1>9. CASE Export
  BY <1>9, <1>c, <1>t DEF Export, script, network, TypeOK, Stages
<1>10. CASE Rollback
  BY <1>10, <1>c, <1>t DEF Rollback, RolledBack, script, verdict, TypeOK, Stages
<1>11. CASE Tamper
  BY <1>11, <1>c, <1>t DEF Tamper, script, verdict, TypeOK, Stages
<1>12. CASE JobEnds
  BY <1>12, <1>c, <1>t DEF JobEnds, script, verdict, network, TypeOK, Stages
<1>13. CASE CheckBoundary
  <2>1. boundary' \in {"unchecked", "intact", "broken"}
    BY <1>13 DEF TypeOK, CheckBoundary
  <2> QED
    BY <1>13, <1>c, <1>t, <2>1 DEF CheckBoundary, script, network, TypeOK, Stages
<1>14. CASE StopProxy
  <2>1. proxyUp' \in BOOLEAN
    BY Zenon, <1>14 DEF StopProxy
  <2> QED
    BY <1>14, <1>c, <1>t, <2>1 DEF StopProxy, script, verdict, TypeOK, Stages
<1>15. CASE DeleteRules
  BY <1>15, <1>c, <1>t DEF DeleteRules, script, verdict, TypeOK, Stages
<1>16. CASE RestoreDns
  BY <1>16, <1>c, <1>t DEF RestoreDns, script, verdict, TypeOK, Stages
<1>17. CASE UNCHANGED vars
  BY <1>17, <1>c, <1>t DEF vars, TypeOK, Stages
<1> QED
  BY <1>1, <1>2, <1>3, <1>4, <1>5, <1>6, <1>7, <1>8, <1>9, <1>10, <1>11, <1>12, <1>13,
     <1>14, <1>15, <1>16, <1>17 DEF Next

(* The resolver: none of this depends on the list of rules.                *)
LEMMA InitResolver == Init => ResolverInv
  BY DEF Init, ResolverInv, Setup

LEMMA NextResolver ==
  TypeOK /\ TypeOK' /\ RulesInv /\ ResolverInv /\ [Next]_vars => ResolverInv'
<1> SUFFICES ASSUME TypeOK, TypeOK', RulesInv, ResolverInv, [Next]_vars PROVE ResolverInv'
  OBVIOUS
<1>c. cfg' = cfg /\ cfg \in ConfigSpace
  BY TodoMoves, ConfigsAssumption DEF TypeOK
<1>t. /\ cfg.resolved \in {"active", "inactive", "absent"} /\ cfg.dns \in BOOLEAN
      /\ stopped \in BOOLEAN /\ stopped' \in BOOLEAN
      /\ exported \in BOOLEAN /\ exported' \in BOOLEAN /\ stage \in Stages
  BY <1>c, ConfigTyped DEF TypeOK
<1>e. /\ stage \in Setup \cup {"rollback"} => ~exported
      /\ stage = "job" => exported
  BY DEF RulesInv
<1>1. CASE AddRule
  BY <1>1, <1>c, <1>t, <1>e DEF AddRule, AddMarking, verdict, ResolverInv, Setup, Stages
<1>2. CASE SkipRule
  BY <1>2, <1>c, <1>t, <1>e DEF SkipRule, verdict, network, ResolverInv, Setup, Stages
<1>3. CASE SetupFails
  BY <1>3, <1>c, <1>t, <1>e DEF SetupFails, Fails, script, verdict, network,
     ResolverInv, Setup, Stages
<1>4. CASE StartProxy
  BY <1>4, <1>c, <1>t, <1>e DEF StartProxy, script, verdict, ResolverInv, Setup, Stages
<1>5. CASE RulesDone
  BY <1>5, <1>c, <1>t, <1>e DEF RulesDone, script, verdict, network, ResolverInv,
     Setup, Stages
<1>6. CASE StopResolved
  <2>1. (resolved = "active") => stopped'
    BY Zenon, <1>6 DEF StopResolved, StopMarking, WasActive
  <2> QED
    BY <1>6, <1>c, <1>t, <1>e, <2>1 DEF StopResolved, StopMarking, WasActive, verdict,
       ResolverInv, Setup, Stages
<1>7. CASE ServeDns
  BY <1>7, <1>c, <1>t, <1>e DEF ServeDns, script, verdict, ResolverInv, Setup, Stages
<1>8. CASE DnsReady
  BY <1>8, <1>c, <1>t, <1>e DEF DnsReady, script, verdict, network, ResolverInv, Setup,
     Stages
<1>9. CASE Export
  BY <1>9, <1>c, <1>t, <1>e DEF Export, script, network, ResolverInv, Setup, Stages
<1>10. CASE Rollback
  BY <1>10, <1>c, <1>t, <1>e DEF Rollback, RolledBack, script, verdict, ResolverInv,
     Setup, Stages
<1>11. CASE Tamper
  BY <1>11, <1>c, <1>t, <1>e DEF Tamper, script, verdict, ResolverInv, Setup, Stages
<1>12. CASE JobEnds
  BY <1>12, <1>c, <1>t, <1>e DEF JobEnds, script, verdict, network, ResolverInv, Setup,
     Stages
<1>13. CASE CheckBoundary
  BY <1>13, <1>c, <1>t, <1>e DEF CheckBoundary, script, network, ResolverInv, Setup,
     Stages
<1>14. CASE StopProxy
  BY <1>14, <1>c, <1>t, <1>e DEF StopProxy, script, verdict, ResolverInv, Setup, Stages
<1>15. CASE DeleteRules
  BY <1>15, <1>c, <1>t, <1>e DEF DeleteRules, script, verdict, ResolverInv, Setup,
     Stages
<1>16. CASE RestoreDns
  BY <1>16, <1>c, <1>t, <1>e DEF RestoreDns, script, verdict, ResolverInv, Setup, Stages
<1>17. CASE UNCHANGED vars
  BY <1>17, <1>c, <1>t, <1>e DEF vars, ResolverInv, Setup, Stages
<1> QED
  BY <1>1, <1>2, <1>3, <1>4, <1>5, <1>6, <1>7, <1>8, <1>9, <1>10, <1>11, <1>12, <1>13,
     <1>14, <1>15, <1>16, <1>17 DEF Next

-----------------------------------------------------------------------------
(* The rules and the flags.                                                *)
LEMMA InitRules == Init /\ TodoInv => RulesInv
<1> SUFFICES ASSUME Init, TodoInv PROVE RulesInv
  OBVIOUS
<1>1. cfg \in ConfigSpace /\ todo = Additions(cfg)
  BY ConfigsAssumption DEF Init
<1>2. RulesOf(cfg) \subseteq Pending
  BY <1>1, AdditionsAdds, ItemFields DEF Adds, Pending, PendingOf
<1>3. Explained(rules) /\ Complete(rules)
  BY <1>2 DEF Init, Explained, Complete
<1> QED
  BY <1>3 DEF Init, RulesInv, Setup

LEMMA AddRuleRules ==
  ASSUME TypeOK, TodoInv, RulesInv, AddRule
  PROVE  Explained(rules)' /\ Complete(rules)'
<1>1. /\ stage = "rules" /\ todo # <<>> /\ Head(todo).needs \subseteq flags
      /\ rules' = rules \cup {Head(todo).rule} /\ flags' = flags \cup Head(todo).flags
      /\ todo' = Tail(todo) /\ cfg' = cfg
  BY DEF AddRule, AddMarking
<1>2. Explained(rules) /\ Complete(rules)
  BY <1>1 DEF RulesInv, Setup
<1>3. PICK r \in RulesOf(cfg) :
        /\ Head(todo).rule = r /\ Head(todo).flags = FlagsOf(cfg, r)
        /\ Head(todo).needs = NeedsOf(r)
        /\ Pending = {r} \cup PendingOf(Tail(todo))
  BY <1>1, HeadCommand
<1>4. Pending' = PendingOf(Tail(todo))
  BY <1>1 DEF Pending
<1>5. Explained(rules)'
  <2>1. rules' \subseteq RulesOf(cfg)
    BY <1>1, <1>2, <1>3 DEF Explained
  <2>2. \A q \in rules' : FlagsOf(cfg, q) \cup NeedsOf(q) \subseteq flags'
    BY <1>1, <1>2, <1>3 DEF Explained
  <2>3. \A fl \in flags' : \E q \in rules' : fl \in FlagsOf(cfg, q)
    BY <1>1, <1>2, <1>3 DEF Explained
  <2> QED
    BY <1>1, <2>1, <2>2, <2>3 DEF Explained
<1>6. ASSUME NEW q \in RulesOf(cfg)
      PROVE  \/ q \in rules' \/ q \in Pending'
             \/ ~FatalOf(cfg, q) \/ ~(NeedsOf(q) \subseteq flags')
  <2>1. CASE q \in rules \cup Pending
    BY <1>1, <1>3, <1>4, <2>1
  <2>2. CASE q \notin rules \cup Pending /\ FatalOf(cfg, q)
    <3>1. ~(NeedsOf(q) \subseteq flags) /\ NeedsOf(q) # {}
      BY <1>2, <2>2 DEF Complete
    <3>2. FlagsOf(cfg, r) = {}
      BY <1>3, <2>2, <3>1 DEF TodoInv
    <3> QED
      BY <1>1, <1>3, <3>1, <3>2
  <2> QED
    BY <2>1, <2>2
<1>7. Complete(rules)'
  BY <1>1, <1>6 DEF Complete
<1> QED
  BY <1>5, <1>7

LEMMA SkipRuleRules ==
  ASSUME TypeOK, TodoInv, RulesInv, SkipRule
  PROVE  Explained(rules)' /\ Complete(rules)'
<1>1. /\ stage = "rules" /\ todo # <<>>
      /\ ~Head(todo).fatal \/ ~(Head(todo).needs \subseteq flags)
      /\ rules' = rules /\ flags' = flags /\ todo' = Tail(todo) /\ cfg' = cfg
  BY DEF SkipRule, network
<1>2. Explained(rules) /\ Complete(rules)
  BY <1>1 DEF RulesInv, Setup
<1>3. PICK r \in RulesOf(cfg) :
        /\ Head(todo).fatal = FatalOf(cfg, r) /\ Head(todo).needs = NeedsOf(r)
        /\ Pending = {r} \cup PendingOf(Tail(todo))
  BY <1>1, HeadCommand
<1>4. Pending' = PendingOf(Tail(todo))
  BY <1>1 DEF Pending
<1>5. Explained(rules)'
  BY <1>1, <1>2 DEF Explained
<1>6. Complete(rules)'
  BY <1>1, <1>2, <1>3, <1>4 DEF Complete
<1> QED
  BY <1>5, <1>6

(* The other steps leave the flags and the list, and rules only shrink.    *)
LEMMA OtherRules ==
  ASSUME UNCHANGED <<cfg, todo, flags>>
  PROVE  /\ rules' = rules => /\ Explained(rules) => Explained(rules)'
                              /\ Complete(rules) => Complete(rules)'
         /\ installed' = installed => /\ Explained(installed) => Explained(installed)'
                                      /\ Complete(installed) => Complete(installed)'
         /\ installed' = rules => /\ Explained(rules) => Explained(installed)'
                                  /\ Complete(rules) => Complete(installed)'
<1>1. Pending' = Pending
  BY DEF Pending
<1>2. ASSUME NEW R, NEW Q, Explained(R), Q = R
      PROVE  /\ Q \subseteq RulesOf(cfg')
             /\ \A r \in Q : FlagsOf(cfg', r) \cup NeedsOf(r) \subseteq flags'
             /\ \A fl \in flags' : \E r \in Q : fl \in FlagsOf(cfg', r)
  BY <1>2 DEF Explained
<1>3. ASSUME NEW R, NEW Q, Complete(R), Q = R
      PROVE  \A r \in RulesOf(cfg') : \/ r \in Q \/ r \in Pending'
                                      \/ ~FatalOf(cfg', r) \/ ~(NeedsOf(r) \subseteq flags')
  BY <1>1, <1>3 DEF Complete
<1>4. rules' = rules => /\ Explained(rules) => Explained(rules)'
                        /\ Complete(rules) => Complete(rules)'
  BY <1>2, <1>3 DEF Explained, Complete
<1>5. installed' = installed => /\ Explained(installed) => Explained(installed)'
                                /\ Complete(installed) => Complete(installed)'
  BY <1>2, <1>3 DEF Explained, Complete
<1>6. installed' = rules => /\ Explained(rules) => Explained(installed)'
                            /\ Complete(rules) => Complete(installed)'
  BY <1>2, <1>3 DEF Explained, Complete
<1> QED
  BY <1>4, <1>5, <1>6

(* What the rules and the flags of a job that began say of each other.     *)
LEMMA InstalledRules ==
  ASSUME TypeOK, RulesInv, exported
  PROVE  /\ installed \subseteq RulesOf(cfg) /\ rules \subseteq installed
         /\ \A r \in RulesOf(cfg) : FatalOf(cfg, r) /\ NeedsOf(r) \subseteq flags
                                      => r \in installed
         /\ "forward" \in flags <=> "forward" \in installed
         /\ "v6" \in flags <=> "log6" \in installed
         /\ "log4" \in flags <=> ("log" \in installed /\ cfg.intercept = "none")
         /\ \A r \in installed : NeedsOf(r) \subseteq flags
<1>1. Explained(installed) /\ Complete(installed) /\ todo = <<>> /\ rules \subseteq installed
  BY DEF RulesInv
<1>2. Pending = {}
  BY <1>1 DEF Pending, PendingOf, Range
<1>3. \A r \in RulesOf(cfg) : FatalOf(cfg, r) /\ NeedsOf(r) \subseteq flags => r \in installed
  BY <1>1, <1>2 DEF Complete
<1>4. /\ \A r : "forward" \in FlagsOf(cfg, r) <=> r = "forward"
      /\ \A r : "v6" \in FlagsOf(cfg, r) <=> r = "log6"
      /\ \A r : "log4" \in FlagsOf(cfg, r) <=> (r = "log" /\ cfg.intercept = "none")
  BY DEF FlagsOf
<1>5. "forward" \in flags <=> "forward" \in installed
  BY <1>1, <1>4 DEF Explained
<1>6. "v6" \in flags <=> "log6" \in installed
  BY <1>1, <1>4 DEF Explained
<1>7. "log4" \in flags <=> ("log" \in installed /\ cfg.intercept = "none")
  BY <1>1, <1>4 DEF Explained
<1> QED
  BY <1>1, <1>3, <1>5, <1>6, <1>7 DEF Explained

(* teardown.sh deletes all that the job began with.                        *)
LEMMA DeletedAll ==
  ASSUME TypeOK, RulesInv, exported, "v4" \in flags
  PROVE  rules \subseteq Deleted
<1>c. cfg \in ConfigSpace
  BY ConfigsAssumption DEF TypeOK
<1>1. /\ rules \subseteq RulesOf(cfg)
      /\ "forward" \in rules => "forward" \in flags
      /\ "log6" \in rules => "v6" \in flags
      /\ \A r \in rules : NeedsOf(r) \subseteq flags
      /\ "v6" \in flags => "log6" \in RulesOf(cfg)
  BY InstalledRules
<1>2. "v6" \in flags => cfg.ip6
  BY <1>1, <1>c, ConfigTyped DEF RulesOf
<1>3. CASE cfg.intercept = "transparent"
  <2>1. /\ "webTcp6" \in rules => "v6" \in flags
        /\ "webUdp6" \in rules => "v6" \in flags
    BY <1>1 DEF NeedsOf
  <2>2. RulesOf(cfg) \subseteq {"nat443", "nat80", "log", "forward", "quic", "dotTcp",
                                "dotUdp", "dnsUdp", "dnsTcp", "log6", "webTcp6", "webUdp6"}
    BY <1>3 DEF RulesOf
  <2> QED
    BY <1>1, <1>2, <1>3, <2>1, <2>2 DEF Deleted, TransparentSeen
<1>4. CASE cfg.intercept = "none"
  <2>1. /\ "dnsUdp6" \in rules => "v6" \in flags
        /\ "dnsTcp6" \in rules => "v6" \in flags
    BY <1>1 DEF NeedsOf
  <2>2. RulesOf(cfg) \subseteq {"log", "log6", "dnsUdp", "dnsTcp", "dotTcpRoot",
                                "dotUdpRoot", "dnsUdp6", "dnsTcp6"}
    BY <1>4 DEF RulesOf
  <2> QED
    BY <1>1, <1>2, <1>4, <2>1, <2>2 DEF Deleted, TransparentSeen, LoggingSeen
<1>5. CASE cfg.intercept \notin {"transparent", "none"}
  BY <1>1, <1>5 DEF RulesOf
<1> QED
  BY <1>3, <1>4, <1>5

LEMMA NextRules == TypeOK /\ TypeOK' /\ TodoInv /\ RulesInv /\ [Next]_vars => RulesInv'
<1> SUFFICES ASSUME TypeOK, TypeOK', TodoInv, RulesInv, [Next]_vars PROVE RulesInv'
  OBVIOUS
<1>t. exported \in BOOLEAN /\ exported' \in BOOLEAN /\ stage \in Stages
  BY DEF TypeOK
<1>s. /\ stage \in Setup \cup {"rollback"} => ~exported
      /\ stage = "job" => exported
      /\ exported => /\ Explained(installed) /\ Complete(installed)
                     /\ todo = <<>> /\ rules \subseteq installed
      /\ stage \in Setup => Explained(rules) /\ Complete(rules)
      /\ stage \in Setup \ {"start", "rules"} => todo = <<>>
  BY DEF RulesInv
<1>1. CASE AddRule
  BY <1>1, <1>t, <1>s, AddRuleRules DEF AddRule, AddMarking, verdict, RulesInv, Setup,
     Before
<1>2. CASE SkipRule
  BY <1>2, <1>t, <1>s, SkipRuleRules DEF SkipRule, verdict, RulesInv, Setup, Before
<1>3. CASE SetupFails
  BY <1>3, <1>t, <1>s, OtherRules DEF SetupFails, Fails, script, verdict, network,
     RulesInv, Setup, Before, Stages
<1>4. CASE StartProxy
  BY <1>4, <1>t, <1>s, OtherRules DEF StartProxy, script, verdict, RulesInv, Setup,
     Before, Stages
<1>5. CASE RulesDone
  BY <1>5, <1>t, <1>s, OtherRules DEF RulesDone, script, verdict, network, RulesInv,
     Setup, Before, Stages
<1>6. CASE StopResolved
  BY <1>6, <1>t, <1>s, OtherRules DEF StopResolved, StopMarking, WasActive, verdict,
     RulesInv, Setup, Before, Stages
<1>7. CASE ServeDns
  BY <1>7, <1>t, <1>s, OtherRules DEF ServeDns, script, verdict, RulesInv, Setup,
     Before, Stages
<1>8. CASE DnsReady
  BY <1>8, <1>t, <1>s, OtherRules DEF DnsReady, script, verdict, network, RulesInv,
     Setup, Before, Stages
<1>9. CASE Export
  BY <1>9, <1>t, <1>s, OtherRules DEF Export, script, network, RulesInv, Setup, Before,
     Stages
<1>10. CASE Rollback
  BY <1>10, <1>t, <1>s, OtherRules DEF Rollback, RolledBack, script, verdict, RulesInv,
     Setup, Before, Stages
<1>11. CASE Tamper
  BY <1>11, <1>t, <1>s, OtherRules DEF Tamper, script, verdict, RulesInv, Setup,
     Before, Stages
<1>12. CASE JobEnds
  BY <1>12, <1>t, <1>s, OtherRules DEF JobEnds, script, verdict, network, RulesInv,
     Setup, Before, Stages
<1>13. CASE CheckBoundary
  BY <1>13, <1>t, <1>s, OtherRules DEF CheckBoundary, script, network, RulesInv, Setup,
     Before, Stages
<1>14. CASE StopProxy
  BY <1>14, <1>t, <1>s, OtherRules DEF StopProxy, script, verdict, RulesInv, Setup,
     Before, Stages
<1>15. CASE DeleteRules
  <2>1. exported /\ "v4" \in flags => rules' = {}
    BY <1>15, DeletedAll DEF DeleteRules
  <2> QED
    BY <1>15, <1>t, <1>s, <2>1, OtherRules DEF DeleteRules, script, verdict, RulesInv, Setup, Before, Stages
<1>16. CASE RestoreDns
  BY <1>16, <1>t, <1>s, OtherRules DEF RestoreDns, script, verdict, RulesInv, Setup,
     Before, Stages
<1>17. CASE UNCHANGED vars
  BY <1>17, <1>t, <1>s, OtherRules DEF vars, RulesInv, Setup, Before, Stages
<1> QED
  BY <1>1, <1>2, <1>3, <1>4, <1>5, <1>6, <1>7, <1>8, <1>9, <1>10, <1>11, <1>12, <1>13,
     <1>14, <1>15, <1>16, <1>17 DEF Next

-----------------------------------------------------------------------------
(* The rules teardown.sh looks for are those the job began with.           *)
LEMMA CheckedExactly ==
  ASSUME TypeOK, RulesInv, exported
  PROVE  /\ cfg.intercept = "transparent" => CheckedTransparent = installed
         /\ cfg.intercept = "none" => CheckedNoIntercept = installed
<1>c. cfg \in ConfigSpace
  BY ConfigsAssumption DEF TypeOK
<1>i. /\ installed \subseteq RulesOf(cfg)
      /\ \A r \in RulesOf(cfg) : FatalOf(cfg, r) /\ NeedsOf(r) \subseteq flags
                                   => r \in installed
      /\ "forward" \in flags <=> "forward" \in installed
      /\ "v6" \in flags <=> "log6" \in installed
      /\ "log4" \in flags <=> ("log" \in installed /\ cfg.intercept = "none")
      /\ \A r \in installed : NeedsOf(r) \subseteq flags
  BY InstalledRules
<1>n. \A r : NeedsOf(r) = IF r \in {"webTcp6", "webUdp6", "dnsUdp6", "dnsTcp6"}
                          THEN {"v6"} ELSE {}
  BY DEF NeedsOf
<1>1. ASSUME cfg.intercept = "transparent" PROVE CheckedTransparent = installed
  <2>1. RulesOf(cfg) =
         {"nat443", "nat80", "log", "forward"}
         \cup (IF cfg.enforce THEN {"quic", "dotTcp", "dotUdp"} ELSE {})
         \cup (IF cfg.enforce /\ cfg.dns THEN {"dnsUdp", "dnsTcp"} ELSE {})
         \cup (IF cfg.ip6 THEN {"log6"} ELSE {})
         \cup (IF cfg.ip6 /\ cfg.enforce THEN {"webTcp6", "webUdp6"} ELSE {})
    BY <1>1 DEF RulesOf
  <2>2. \A r : FatalOf(cfg, r) <=> r \notin {"forward", "log6"}
    BY <1>1 DEF FatalOf
  <2>3. ASSUME NEW r \in installed PROVE r \in CheckedTransparent
    BY <1>i, <1>n, <2>1 DEF CheckedTransparent
  <2>4. ASSUME NEW r \in CheckedTransparent PROVE r \in installed
    <3>1. CASE r \in {"nat443", "nat80", "log"}
      BY <1>i, <1>n, <2>1, <2>2, <3>1
    <3>2. CASE cfg.enforce /\ r \in {"quic", "dotTcp", "dotUdp"}
      BY <1>i, <1>n, <2>1, <2>2, <3>2
    <3>3. CASE cfg.enforce /\ cfg.dns /\ r \in {"dnsUdp", "dnsTcp"}
      BY <1>i, <1>n, <2>1, <2>2, <3>3
    <3>4. CASE r \in {"forward", "log6"}
      BY <1>i, <3>4 DEF CheckedTransparent
    <3>5. CASE "v6" \in flags /\ cfg.enforce /\ r \in {"webTcp6", "webUdp6"}
      <4>1. cfg.ip6
        BY <1>i, <2>1, <3>5
      <4> QED
        BY <1>i, <1>n, <2>1, <2>2, <3>5, <4>1
    <3> QED
      BY <3>1, <3>2, <3>3, <3>4, <3>5 DEF CheckedTransparent
  <2> QED
    BY <2>3, <2>4
<1>2. ASSUME cfg.intercept = "none" PROVE CheckedNoIntercept = installed
  <2>1. RulesOf(cfg) =
         {"log"}
         \cup (IF cfg.ip6 THEN {"log6"} ELSE {})
         \cup (IF cfg.enforce /\ cfg.dns
               THEN {"dnsUdp", "dnsTcp", "dotTcpRoot", "dotUdpRoot", "dnsUdp6", "dnsTcp6"}
               ELSE {})
    BY <1>2 DEF RulesOf
  <2>2. \A r : FatalOf(cfg, r) <=> r \notin {"forward", "log6", "log"}
    BY <1>2 DEF FatalOf
  <2>3. ASSUME NEW r \in installed PROVE r \in CheckedNoIntercept
    BY <1>i, <1>n, <1>2, <2>1 DEF CheckedNoIntercept
  <2>4. ASSUME NEW r \in CheckedNoIntercept PROVE r \in installed
    <3>1. CASE r \in {"log", "log6"}
      BY <1>i, <1>2, <3>1 DEF CheckedNoIntercept
    <3>2. CASE cfg.enforce /\ cfg.dns
                 /\ r \in {"dnsUdp", "dnsTcp", "dotTcpRoot", "dotUdpRoot"}
      BY <1>i, <1>n, <2>1, <2>2, <3>2
    <3>3. CASE cfg.enforce /\ cfg.dns /\ "v6" \in flags /\ r \in {"dnsUdp6", "dnsTcp6"}
      BY <1>i, <1>n, <2>1, <2>2, <3>3
    <3> QED
      BY <3>1, <3>2, <3>3 DEF CheckedNoIntercept
  <2> QED
    BY <2>3, <2>4
<1> QED
  BY <1>1, <1>2

LEMMA NextBoundary ==
  TypeOK /\ TypeOK' /\ RulesInv /\ BoundaryIsExact /\ [Next]_vars => BoundaryIsExact'
<1> SUFFICES ASSUME TypeOK, TypeOK', RulesInv, BoundaryIsExact, [Next]_vars
             PROVE  BoundaryIsExact'
  OBVIOUS
<1>1. CASE CheckBoundary
  <2>1. /\ stage = "check" /\ boundary = "unchecked"
        /\ UNCHANGED <<cfg, rules, installed, proxyUp, dnsUp>>
    BY <1>1 DEF CheckBoundary, network, RulesInv, Before
  <2>2. exported => rules \subseteq installed
    BY DEF RulesInv
  <2>3. CASE TransparentSeen
    <3>1. CheckedTransparent = installed /\ cfg.intercept = "transparent"
      BY <2>3, CheckedExactly DEF TransparentSeen
    <3>2. boundary' = IF installed \subseteq rules /\ proxyUp /\ (cfg.dns => dnsUp)
                      THEN "intact" ELSE "broken"
      BY <1>1, <2>3, <3>1 DEF CheckBoundary
    <3> QED
      BY <2>1, <2>2, <2>3, <3>1, <3>2 DEF BoundaryIsExact, AllUp, TransparentSeen
  <2>4. CASE ~TransparentSeen /\ cfg.intercept = "none" /\ LoggingSeen
    <3>1. CheckedNoIntercept = installed /\ exported
      BY <2>4, CheckedExactly DEF LoggingSeen
    <3>2. boundary' = IF installed \subseteq rules /\ (cfg.dns => dnsUp)
                      THEN "intact" ELSE "broken"
      BY <1>1, <2>4, <3>1 DEF CheckBoundary
    <3> QED
      BY <2>1, <2>2, <2>4, <3>1, <3>2 DEF BoundaryIsExact, AllUp
  <2>5. CASE ~TransparentSeen /\ ~(cfg.intercept = "none" /\ LoggingSeen)
    <3>1. boundary' = boundary
      BY <1>1, <2>5 DEF CheckBoundary
    <3> QED
      BY <2>1, <3>1 DEF BoundaryIsExact
  <2> QED
    BY <2>3, <2>4, <2>5
<1>2. CASE UNCHANGED vars
  BY <1>2 DEF vars, BoundaryIsExact, AllUp
<1>3. ASSUME Next, ~CheckBoundary PROVE stage' # "stopProxy"
  BY <1>3 DEF Next, SetupFails, StartProxy, AddRule, AddMarking, SkipRule, RulesDone,
     StopResolved, StopMarking, ServeDns, DnsReady, Export, Rollback, Tamper, JobEnds,
     StopProxy, DeleteRules, RestoreDns
<1> QED
  BY <1>1, <1>2, <1>3 DEF BoundaryIsExact

-----------------------------------------------------------------------------
LEMMA RunnerInvariant == Spec => []RunnerInv
<1>1. Init => RunnerInv
  <2> SUFFICES ASSUME Init PROVE RunnerInv
    OBVIOUS
  <2>1. cfg \in Configs /\ cfg \in ConfigSpace
    BY ConfigsAssumption DEF Init
  <2>2. TodoInv
    BY InitTodo
  <2>3. \A i \in DOMAIN todo : todo[i].rule \in Rules
    BY <2>1, <2>2, TodoTyped DEF TodoInv
  <2>4. TypeOK
    BY <2>1, <2>3, ConfigTyped DEF Init, TypeOK, Stages
  <2>5. BoundaryIsExact
    BY DEF Init, BoundaryIsExact
  <2> QED
    BY <2>2, <2>4, <2>5, InitRules, InitResolver DEF RunnerInv
<1>2. RunnerInv /\ [Next]_vars => RunnerInv'
  BY NextTodo, NextType, NextRules, NextResolver, NextBoundary DEF RunnerInv
<1> QED
  BY <1>1, <1>2, PTL DEF Spec

(* Every state the scripts leave the runner in is one they can name: the   *)
(* rules are ones setup.sh adds, and its variables have their values.      *)
THEOREM TypeCorrect == Spec => []TypeOK
<1>1. RunnerInv => TypeOK
  BY DEF RunnerInv
<1> QED
  BY <1>1, RunnerInvariant, PTL

(* The boundary check of teardown.sh never passes a runner that lost a     *)
(* rule or a server, and never fails one that lost none, whichever rules   *)
(* setup.sh could not add.                                                 *)
THEOREM BoundaryExact == Spec => []BoundaryIsExact
<1>1. RunnerInv => BoundaryIsExact
  BY DEF RunnerInv
<1> QED
  BY <1>1, RunnerInvariant, PTL

(* An enforcing job starts with every reject in, whichever command failed. *)
THEOREM EnforcedAtStart == Spec => []EnforcedFromTheStart
<1>1. RunnerInv => EnforcedFromTheStart
  <2> SUFFICES ASSUME RunnerInv, stage = "job", cfg.enforce PROVE EnforcedFromTheStart
    BY DEF EnforcedFromTheStart
  <2>1. TypeOK /\ RulesInv /\ ResolverInv /\ exported
    BY DEF RunnerInv, RulesInv
  <2>2. /\ cfg.intercept = "transparent" => CheckedTransparent = installed
        /\ cfg.intercept = "none" => CheckedNoIntercept = installed
        /\ "v6" \in flags <=> "log6" \in installed
    BY <2>1, CheckedExactly, InstalledRules
  <2>3. cfg.intercept \in {"transparent", "regular", "none"}
    BY <2>1, ConfigTyped, ConfigsAssumption DEF TypeOK
  <2>4. cfg.dns => resolvConf = "ours" /\ resolved # "active"
    BY <2>1 DEF ResolverInv
  <2>5. CASE cfg.intercept = "transparent"
    BY <2>2, <2>4, <2>5 DEF EnforcedFromTheStart, CheckedTransparent
  <2>6. CASE cfg.intercept = "none"
    BY <2>2, <2>4, <2>6 DEF EnforcedFromTheStart, CheckedNoIntercept
  <2>7. CASE cfg.intercept = "regular"
    BY <2>4, <2>7 DEF EnforcedFromTheStart
  <2> QED
    BY <2>3, <2>5, <2>6, <2>7
<1> QED
  BY <1>1, RunnerInvariant, PTL

(* teardown.sh leaves no rule of a job that began, whatever the job did.   *)
THEOREM NoRuleLeft == Spec => []TeardownLeavesNoRule
<1>1. RunnerInv => TeardownLeavesNoRule
  BY DEF RunnerInv, RulesInv, TeardownLeavesNoRule
<1> QED
  BY <1>1, RunnerInvariant, PTL

(* A runner that had systemd-resolved has it back, wherever setup failed.  *)
THEOREM ResolverRestored == Spec => []ResolvedComesBack
<1>1. RunnerInv => ResolvedComesBack
  BY DEF RunnerInv, ResolverInv, ResolvedComesBack
<1> QED
  BY <1>1, RunnerInvariant, PTL
=============================================================================
