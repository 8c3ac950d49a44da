------------------------- MODULE PolicyReview_proofs -------------------------
(* Proofs about PolicyReview, for any rules, any globs and addresses, and  *)
(* any connections.                                                        *)
EXTENDS PolicyReview, TLAPS, NaturalsInduction, WellFoundedInduction

-----------------------------------------------------------------------------
(* Lists of rules as sets.                                                 *)

LEMMA RulesOfReverse ==
  ASSUME NEW S, NEW list \in Seq(S)
  PROVE  RulesOf(Reverse(list)) = RulesOf(list)
<1>1. \A i \in 1..Len(list) :
        /\ (Len(list) - i) + 1 \in 1..Len(list)
        /\ (Len(list) - ((Len(list) - i) + 1)) + 1 = i
  OBVIOUS
<1>2. DOMAIN Reverse(list) = 1..Len(list) /\ DOMAIN list = 1..Len(list)
  BY DEF Reverse
<1>3. \A i \in 1..Len(list) : Reverse(list)[i] = list[(Len(list) - i) + 1]
  BY DEF Reverse
<1>4. RulesOf(Reverse(list)) \subseteq RulesOf(list)
  BY <1>1, <1>2, <1>3 DEF RulesOf
<1>5. ASSUME NEW i \in 1..Len(list)
      PROVE  \E j \in 1..Len(list) : list[i] = Reverse(list)[j]
  <2>1. Reverse(list)[(Len(list) - i) + 1] = list[i]
    BY <1>1, <1>3
  <2> QED
    BY <1>1, <2>1
<1> QED
  BY <1>2, <1>4, <1>5 DEF RulesOf

LEMMA RulesOfAppend ==
  ASSUME NEW S, NEW list \in Seq(S), NEW r
  PROVE  RulesOf(list) \subseteq RulesOf(Append(list, r))
<1>1. \A i \in DOMAIN list : i \in DOMAIN Append(list, r) /\ Append(list, r)[i] = list[i]
  OBVIOUS
<1> QED
  BY <1>1 DEF RulesOf

LEMMA RulesOfSeq ==
  ASSUME NEW S, NEW list \in Seq(S)
  PROVE  RulesOf(list) \subseteq S
BY DEF RulesOf

(* Every verdict reads the rules as a set.                                 *)
LEMMA VerdictsOfSet ==
  ASSUME NEW a, NEW b, RulesOf(a) = RulesOf(b), NEW conn
  PROVE  Verdicts(a, conn) = Verdicts(b, conn)
<1>1. Allows(a, conn) = Allows(b, conn)
  BY DEF Allows, AllowsDns
<1>2. MethodMiss(a, conn) = MethodMiss(b, conn)
  BY DEF MethodMiss
<1>3. AllowsRequestBody(a, conn) = AllowsRequestBody(b, conn)
  BY DEF AllowsRequestBody
<1>4. HasPassthroughRule(a, conn) = HasPassthroughRule(b, conn)
  BY DEF HasPassthroughRule
<1>5. \A ip : InternalIpViolation(a, conn, ip) = InternalIpViolation(b, conn, ip)
  BY DEF InternalIpViolation, DnsAllowsInternalIp
<1> QED
  BY <1>1, <1>2, <1>3, <1>4, <1>5 DEF Verdicts

-----------------------------------------------------------------------------
(* Globs.                                                                  *)

(* What holds of 0, and of the successor of each number it holds of, holds *)
(* of all of them: induction as a fact about sets.                         *)
LEMMA Upward ==
  ASSUME NEW S, 0 \in S, \A n \in Nat : n \in S => n + 1 \in S
  PROVE  Nat \subseteq S
<1> DEFINE T == Nat \ S
           R == OpToRel(<, Nat)
<1> SUFFICES ASSUME T # {} PROVE FALSE
  OBVIOUS
<1>1. IsWellFoundedOn(R, Nat)
  BY NatLessThanWellFounded
<1>2. T \subseteq Nat
  OBVIOUS
<1>3. \A a, b \in Nat : a < b => <<a, b>> \in R
  BY DEF OpToRel
<1> HIDE DEF T, R
<1>4. PICK x \in T : \A y \in T : ~ (<<y, x>> \in R)
  BY <1>1, <1>2, WFMin
<1> USE DEF T
<1>5. x # 0 /\ x \in Nat
  OBVIOUS
<1>6. x - 1 \in Nat /\ (x - 1) + 1 = x
  BY <1>5
<1>7. x - 1 \in T /\ x - 1 < x
  BY <1>5, <1>6
<1> QED
  BY <1>3, <1>4, <1>5, <1>7

(* One place of a walk, from what it makes of the places after it.         *)
Step(glob, n, fits, passes, j, i) ==
  IF j > Len(glob) THEN i > n
  ELSE \/ /\ glob[j] = Star
          /\ passes[<<j + 1, i>>] \/ (i <= n /\ passes[<<j, i + 1>>])
       \/ /\ glob[j] # Star /\ i <= n /\ <<j, i>> \in fits
          /\ passes[<<j + 1, i + 1>>]

Places(glob, n) == (1..(Len(glob) + 1)) \X (1..(n + 1))

(* A walk is decided at each place by the places after it.                 *)
LEMMA WalkUnfolds ==
  ASSUME NEW T, NEW glob \in Seq(T), NEW n \in Nat, NEW fits
  PROVE  \E passes :
           /\ Walk(glob, n, fits) = passes[<<1, 1>>]
           /\ \A j \in 1..(Len(glob) + 1), i \in 1..(n + 1) :
                passes[<<j, i>>] <=> Step(glob, n, fits, passes, j, i)
<1> DEFINE m == Len(glob)
           D == Places(glob, n)
           rest(at) == (m + 1 - at[1]) + (n + 1 - at[2])
           Near(r) == {at \in D : rest(at) < r}
           step(f, at) == Step(glob, n, fits, f, at[1], at[2])
           Defined == {r \in Nat : \E f : f = [at \in Near(r) |-> step(f, at)]}
           walk == CHOOSE f : f = [at \in D |-> step(f, at)]
<1>1. Walk(glob, n, fits) = walk[<<1, 1>>]
  BY Zenon DEF Walk, Step, Places
<1>2. m \in Nat
  OBVIOUS
<1> HIDE DEF m
<1>3. ASSUME NEW at \in D
      PROVE  /\ at[1] \in 1..(m + 1) /\ at[2] \in 1..(n + 1) /\ at = <<at[1], at[2]>>
             /\ rest(at) \in Nat /\ rest(at) <= m + n
  BY <1>2 DEF Places, m
<1>4. ASSUME NEW f, NEW g, NEW at \in D,
             \A x \in D : rest(x) < rest(at) => f[x] = g[x]
      PROVE  step(f, at) = step(g, at)
  <2> DEFINE j == at[1]
             i == at[2]
  <2>1. j \in 1..(m + 1) /\ i \in 1..(n + 1)
    BY <1>3
  <2>2. CASE j > m
    BY <2>2 DEF Step, m
  <2>3. CASE j <= m
    <3>1. /\ <<j + 1, i>> \in D /\ rest(<<j + 1, i>>) < rest(at)
      BY <1>2, <2>1, <2>3 DEF Places, m
    <3>2. i <= n => /\ <<j, i + 1>> \in D /\ rest(<<j, i + 1>>) < rest(at)
                    /\ <<j + 1, i + 1>> \in D /\ rest(<<j + 1, i + 1>>) < rest(at)
      <4> SUFFICES ASSUME i <= n
                   PROVE  /\ <<j, i + 1>> \in D /\ rest(<<j, i + 1>>) < rest(at)
                          /\ <<j + 1, i + 1>> \in D /\ rest(<<j + 1, i + 1>>) < rest(at)
        OBVIOUS
      <4>1. j + 1 \in 1..(m + 1) /\ i + 1 \in 1..(n + 1)
        BY <1>2, <2>1, <2>3
      <4>2. <<j, i + 1>> \in D /\ <<j + 1, i + 1>> \in D
        BY <2>1, <4>1 DEF Places, m
      <4>3. rest(<<j, i + 1>>) < rest(at) /\ rest(<<j + 1, i + 1>>) < rest(at)
        <5>1. /\ rest(<<j, i + 1>>) = (m + 1 - j) + (n + 1 - (i + 1))
              /\ rest(<<j + 1, i + 1>>) = (m + 1 - (j + 1)) + (n + 1 - (i + 1))
          OBVIOUS
        <5>2. rest(at) = (m + 1 - j) + (n + 1 - i)
          OBVIOUS
        <5> HIDE DEF rest, m
        <5>3. i \in Nat /\ j \in Nat
          BY <2>1
        <5> HIDE DEF i, j
        <5> QED
          BY <1>2, <5>1, <5>2, <5>3
      <4> QED
        BY <4>2, <4>3
    <3>3. f[<<j + 1, i>>] = g[<<j + 1, i>>]
      BY <1>4, <3>1
    <3>4. i <= n => f[<<j, i + 1>>] = g[<<j, i + 1>>] /\ f[<<j + 1, i + 1>>] = g[<<j + 1, i + 1>>]
      BY <1>4, <3>2
    <3> QED
      BY <3>3, <3>4, Zenon DEF Step
  <2> QED
    BY <1>2, <2>1, <2>2, <2>3
<1> HIDE DEF D, step
<1>5. 0 \in Defined
  <2>1. Near(0) = {}
    BY <1>3
  <2>2. \A f : [at \in {} |-> step(f, at)] = [at \in {} |-> at]
    OBVIOUS
  <2> DEFINE none == [at \in {} |-> at]
  <2>3. none = [at \in Near(0) |-> step(none, at)]
    BY <2>1, <2>2, Zenon
  <2> QED
    BY <2>3
<1>6. ASSUME NEW r \in Nat, r \in Defined PROVE r + 1 \in Defined
  <2>1. PICK g : g = [at \in Near(r) |-> step(g, at)]
    BY <1>6
  <2> DEFINE h == [at \in Near(r + 1) |-> IF rest(at) < r THEN g[at] ELSE step(g, at)]
  <2>2. ASSUME NEW at \in Near(r + 1) PROVE h[at] = step(h, at)
    <3>1. at \in D /\ rest(at) \in Nat /\ rest(at) < r + 1
      BY <1>3
    <3>2. \A x \in D : rest(x) < r => x \in Near(r) /\ x \in Near(r + 1)
      BY <1>3
    <3>3. \A x \in D : rest(x) < rest(at) => rest(x) < r
      BY <1>3, <3>1
    <3>4. \A x \in D : rest(x) < r => h[x] = g[x]
      BY <3>2, Zenon
    <3>5. step(h, at) = step(g, at)
      BY <1>4, <3>1, <3>3, <3>4
    <3>6. CASE rest(at) < r
      <4>1. h[at] = g[at] /\ g[at] = step(g, at)
        BY <2>1, <3>1, <3>2, <3>4, <3>6, Zenon
      <4> QED
        BY <3>5, <4>1
    <3>7. CASE ~ (rest(at) < r)
      <4>1. h[at] = step(g, at)
        BY <3>7, Zenon
      <4> QED
        BY <3>5, <4>1
    <3> QED
      BY <3>6, <3>7
  <2>3. h = [at \in Near(r + 1) |-> step(h, at)]
    <3> DEFINE k == [at \in Near(r + 1) |-> step(h, at)]
    <3>1. \A at \in Near(r + 1) : h[at] = k[at]
      BY <2>2
    <3> QED
      BY <3>1, Zenon
  <2>4. \E f : f = [at \in Near(r + 1) |-> step(f, at)]
    <3> HIDE DEF h
    <3> QED
      BY <2>3, Zenon
  <2>5. r + 1 \in Nat
    OBVIOUS
  <2> QED
    BY <2>4, <2>5, Zenon
<1>7. m + n + 1 \in Defined
  <2> HIDE DEF Defined
  <2> QED
    BY <1>2, <1>5, <1>6, Upward
<1>8. Near(m + n + 1) = D
  BY <1>2, <1>3
<1>9. walk = [at \in D |-> step(walk, at)]
  BY <1>7, <1>8, Zenon
<1> HIDE DEF walk
<1>10. ASSUME NEW j \in 1..(m + 1), NEW i \in 1..(n + 1)
       PROVE  walk[<<j, i>>] <=> Step(glob, n, fits, walk, j, i)
  <2>1. <<j, i>> \in D
    BY DEF D, m, Places
  <2>2. walk[<<j, i>>] = step(walk, <<j, i>>)
    BY <1>9, <2>1, Zenon
  <2> QED
    BY <2>2 DEF step
<1> QED
  BY <1>1, <1>10 DEF m

(* What a token takes, a token that covers it takes.                       *)
LEMMA CoveringTokenTakes ==
  ASSUME NEW b, NEW p, TokenCovers(b, p), NEW c, p = One \/ c \in p.chars
  PROVE  b = One \/ c \in b.chars
<1>1. One.kind = "one" /\ "one" # "lit"
  BY DEF One
<1>2. CASE p = One
  BY <1>1, <1>2 DEF TokenCovers
<1>3. CASE c \in p.chars
  BY <1>3 DEF TokenCovers
<1> QED
  BY <1>2, <1>3

LEMMA PairsOf ==
  ASSUME NEW s, NEW t, NEW j, NEW i
  PROVE  <<j, i>> \in Pairs(s, t) <=> j \in DOMAIN s /\ i \in DOMAIN t
BY DEF Pairs

(* A pattern that glob_subsumes places under another accepts nothing that  *)
(* the other does not, for any patterns and any subject.                   *)
THEOREM SubsumesIsSound ==
  ASSUME NEW T, NEW b \in Seq(T), NEW p \in Seq(T), NEW s \in Seq(STRING),
         GlobSubsumes(b, p), GlobMatches(p, s)
  PROVE  GlobMatches(b, s)
<1> DEFINE Taken(g) == {at \in Pairs(g, s) : g[at[1]] = One \/ s[at[2]] \in g[at[1]].chars}
           Covered == {at \in Pairs(b, p) : TokenCovers(b[at[1]], p[at[2]])}
           J == 1..(Len(b) + 1)
           I == 1..(Len(p) + 1)
           K == 1..(Len(s) + 1)
<1>1. Len(b) \in Nat /\ Len(p) \in Nat /\ Len(s) \in Nat
  OBVIOUS
<1>2. PICK sub :
        /\ Walk(b, Len(p), Covered) = sub[<<1, 1>>]
        /\ \A j \in J, i \in I : sub[<<j, i>>] <=> Step(b, Len(p), Covered, sub, j, i)
  <2> HIDE DEF Covered
  <2> QED
    BY <1>1, WalkUnfolds
<1>3. PICK narrow :
        /\ Walk(p, Len(s), Taken(p)) = narrow[<<1, 1>>]
        /\ \A i \in I, k \in K : narrow[<<i, k>>] <=> Step(p, Len(s), Taken(p), narrow, i, k)
  <2> HIDE DEF Taken
  <2> QED
    BY <1>1, WalkUnfolds
<1>4. PICK wide :
        /\ Walk(b, Len(s), Taken(b)) = wide[<<1, 1>>]
        /\ \A j \in J, k \in K : wide[<<j, k>>] <=> Step(b, Len(s), Taken(b), wide, j, k)
  <2> HIDE DEF Taken
  <2> QED
    BY <1>1, WalkUnfolds
<1> DEFINE rest(j, i, k) == (Len(b) + 1 - j) + (Len(p) + 1 - i) + (Len(s) + 1 - k)
           Follows(j, i, k) == sub[<<j, i>>] /\ narrow[<<i, k>>] => wide[<<j, k>>]
           Upto == {r \in Nat : \A j \in J, i \in I, k \in K :
                                  rest(j, i, k) < r => Follows(j, i, k)}
<1>5. ASSUME NEW j \in J, NEW i \in I, NEW k \in K
      PROVE  rest(j, i, k) \in Nat /\ rest(j, i, k) <= Len(b) + Len(p) + Len(s)
  BY <1>1
<1>6. 0 \in Upto
  BY <1>5
<1>7. ASSUME NEW r \in Nat, r \in Upto PROVE r + 1 \in Upto
  <2> SUFFICES ASSUME NEW j \in J, NEW i \in I, NEW k \in K, rest(j, i, k) < r + 1,
                      sub[<<j, i>>], narrow[<<i, k>>]
               PROVE  wide[<<j, k>>]
    OBVIOUS
  <2>1. \A x \in J, y \in I, z \in K :
          rest(x, y, z) < rest(j, i, k) => Follows(x, y, z)
    <3> SUFFICES ASSUME NEW x \in J, NEW y \in I, NEW z \in K, rest(x, y, z) < rest(j, i, k)
                 PROVE  Follows(x, y, z)
      OBVIOUS
    <3>1. rest(x, y, z) \in Nat /\ rest(j, i, k) \in Nat
      BY <1>5
    <3>2. rest(x, y, z) < r
      <4> HIDE DEF rest
      <4> QED
        BY <3>1
    <3> QED
      BY <1>7, <3>2
  <2>2. Step(b, Len(p), Covered, sub, j, i)
    BY <1>2
  <2>3. Step(p, Len(s), Taken(p), narrow, i, k)
    BY <1>3
  <2>4. wide[<<j, k>>] <=> Step(b, Len(s), Taken(b), wide, j, k)
    BY <1>4
  <2>5. CASE j > Len(b)
    <3>1. i > Len(p)
      BY <2>2, <2>5 DEF Step
    <3>2. k > Len(s)
      BY <2>3, <3>1 DEF Step
    <3> QED
      BY <2>4, <2>5, <3>2 DEF Step
  <2>6. CASE j <= Len(b)
    <3>1. j + 1 \in J /\ ~ (j > Len(b))
      BY <1>1, <2>6
    <3>2. i <= Len(p) => i + 1 \in I /\ ~ (i > Len(p))
      BY <1>1
    <3>3. k <= Len(s) => k + 1 \in K /\ ~ (k > Len(s))
      BY <1>1
    <3>4. /\ Follows(j + 1, i, k)
          /\ i <= Len(p) => Follows(j, i + 1, k)
          /\ k <= Len(s) => Follows(j, i, k + 1)
          /\ i <= Len(p) /\ k <= Len(s) => Follows(j, i + 1, k + 1) /\ Follows(j + 1, i + 1, k + 1)
      <4>1. /\ rest(j + 1, i, k) < rest(j, i, k)
            /\ rest(j, i + 1, k) < rest(j, i, k)
            /\ rest(j, i, k + 1) < rest(j, i, k)
            /\ rest(j, i + 1, k + 1) < rest(j, i, k)
            /\ rest(j + 1, i + 1, k + 1) < rest(j, i, k)
        BY <1>1
      <4> HIDE DEF rest, Follows, I, J, K
      <4> QED
        BY <2>1, <3>1, <3>2, <3>3, <4>1
    <3> HIDE DEF I, J, K, rest
    <3>5. CASE b[j] = Star
      <4>1. wide[<<j + 1, k>>] \/ (k <= Len(s) /\ wide[<<j, k + 1>>]) => wide[<<j, k>>]
        BY <2>4, <3>1, <3>5 DEF Step
      <4>2. CASE sub[<<j + 1, i>>]
        BY <3>4, <4>1, <4>2
      <4>3. CASE i <= Len(p) /\ sub[<<j, i + 1>>]
        <5>1. CASE p[i] = Star
          <6>1. narrow[<<i + 1, k>>] \/ (k <= Len(s) /\ narrow[<<i, k + 1>>])
            BY <2>3, <3>2, <4>3, <5>1 DEF Step
          <6> QED
            BY <3>4, <4>1, <4>3, <6>1
        <5>2. CASE p[i] # Star
          <6>1. k <= Len(s) /\ narrow[<<i + 1, k + 1>>]
            BY <2>3, <3>2, <4>3, <5>2 DEF Step
          <6> QED
            BY <3>4, <4>1, <4>3, <6>1
        <5> QED
          BY <5>1, <5>2
      <4> QED
        BY <2>2, <3>1, <3>5, <4>2, <4>3 DEF Step
    <3>6. CASE b[j] # Star
      <4>1. /\ i <= Len(p) /\ <<j, i>> \in Covered
            /\ sub[<<j + 1, i + 1>>]
        BY <2>2, <3>1, <3>6 DEF Step
      <4>2. TokenCovers(b[j], p[i])
        BY <4>1
      <4>3. p[i] # Star
        BY <4>2 DEF TokenCovers
      <4>4. /\ k <= Len(s) /\ <<i, k>> \in Taken(p)
            /\ narrow[<<i + 1, k + 1>>]
        BY <2>3, <3>2, <4>1, <4>3 DEF Step
      <4>5. p[i] = One \/ s[k] \in p[i].chars
        BY <4>4
      <4>6. b[j] = One \/ s[k] \in b[j].chars
        BY <4>2, <4>5, CoveringTokenTakes
      <4>7. <<j, k>> \in Pairs(b, s)
        <5>1. <<j, i>> \in Pairs(b, p) /\ <<i, k>> \in Pairs(p, s)
          BY <4>1, <4>4, Zenon
        <5>2. j \in DOMAIN b /\ k \in DOMAIN s
          BY <5>1, PairsOf, Zenon
        <5> QED
          BY <5>2, PairsOf, Zenon
      <4>8. <<j, k>> \in Taken(b)
        BY <4>6, <4>7
      <4>9. wide[<<j + 1, k + 1>>]
        BY <3>4, <4>1, <4>4
      <4> QED
        BY <2>4, <3>1, <3>6, <4>4, <4>8, <4>9 DEF Step
    <3> QED
      BY <3>5, <3>6
  <2> QED
    BY <1>1, <2>5, <2>6
<1>8. Len(b) + Len(p) + Len(s) + 1 \in Upto
  <2> HIDE DEF Upto
  <2> QED
    BY <1>1, <1>6, <1>7, Upward
<1>9. 1 \in J /\ 1 \in I /\ 1 \in K
  BY <1>1
<1>10. Follows(1, 1, 1)
  BY <1>1, <1>8, <1>9
<1>11. sub[<<1, 1>>] /\ narrow[<<1, 1>>]
  BY <1>2, <1>3 DEF GlobSubsumes, GlobMatches
<1>12. wide[<<1, 1>>]
  BY <1>10, <1>11
<1> QED
  BY <1>4, <1>12 DEF GlobMatches

(* The names and paths of a pattern are those of any that covers it.       *)
LEMMA SubsumedCovers ==
  ASSUME NEW b \in DOMAIN Covers, NEW p \in DOMAIN Covers, GlobSubsumes(b, p)
  PROVE  Covers[p] \subseteq Covers[b]
<1>1. b \in Seq(Tokens) /\ p \in Seq(Tokens) /\ Covers[p] \subseteq Seq(STRING)
  BY CoversAssumption
<1> SUFFICES ASSUME NEW s \in Covers[p] PROVE s \in Covers[b]
  OBVIOUS
<1>2. GlobMatches(p, s)
  BY CoversAssumption
<1>3. GlobMatches(b, s)
  <2>1. s \in Seq(STRING)
    BY <1>1
  <2> HIDE DEF Tokens
  <2> QED
    BY <1>1, <1>2, <2>1, SubsumesIsSound
<1> QED
  BY <1>3, CoversAssumption

-----------------------------------------------------------------------------
(* One rule of the policy under one rule of the boundary.                  *)

PatternsKnown(rule) == rule.domains \cup rule.paths \subseteq DOMAIN Covers

(* A name of a covered domain is a name of the rule that covers it.        *)
LEMMA CoveredDomain ==
  ASSUME NEW b, NEW d \in DOMAIN Covers, PatternsKnown(b), DomainSubsumed(d, b),
         NEW host \in Covers[d]
  PROVE  DomainMatches(b.domains, host)
<1>1. PICK bd \in b.domains : GlobSubsumes(bd, d)
  BY DEF DomainSubsumed
<1>2. bd \in DOMAIN Covers
  BY <1>1 DEF PatternsKnown
<1>3. Covers[d] \subseteq Covers[bd]
  BY <1>1, <1>2, SubsumedCovers
<1> QED
  BY <1>1, <1>3 DEF DomainMatches

LEMMA CoveredPath ==
  ASSUME NEW c, NEW b, PatternsKnown(c), PatternsKnown(b), PathsWithin(c, b),
         NEW path, PathMatches(c.paths, path)
  PROVE  PathMatches(b.paths, path)
<1>1. CASE b.paths = {}
  BY <1>1 DEF PathMatches
<1>2. CASE b.paths # {}
  <2>1. c.paths # {} /\ \A p \in c.paths : \E q \in b.paths : GlobSubsumes(q, p)
    BY <1>2 DEF PathsWithin
  <2>2. PICK p \in c.paths : Normalised[path] \in Covers[p]
    BY <2>1 DEF PathMatches
  <2>3. PICK q \in b.paths : GlobSubsumes(q, p)
    BY <2>1
  <2>4. p \in DOMAIN Covers /\ q \in DOMAIN Covers
    BY DEF PatternsKnown
  <2>5. Covers[p] \subseteq Covers[q]
    BY <2>3, <2>4, SubsumedCovers
  <2>6. Normalised[path] # NoPath
    BY <2>1 DEF PathMatches
  <2> QED
    BY <2>2, <2>5, <2>6 DEF PathMatches
<1> QED
  BY <1>1, <1>2

(* A connection the candidate matches under a covered domain, the rule of  *)
(* the boundary matches, with its settings.                                *)
LEMMA CoveredConnection ==
  ASSUME NEW c, NEW b, PatternsKnown(c), PatternsKnown(b), NoGaps(c, b),
         NEW d \in c.domains, DomainSubsumed(d, b),
         NEW conn, conn.host \in Covers[d], Matches(c, conn)
  PROVE  /\ Matches(b, conn)
         /\ c.allow_request_body => b.allow_request_body
         /\ c.tls = "passthrough" => b.tls = "passthrough"
<1>1. conn.protocol \in c.protocols /\ PortMatches(c.ports, conn.port)
      /\ PathMatches(c.paths, conn.path) /\ MethodMatches(c.methods, conn)
  BY DEF Matches, MatchesExceptMethod
<1>2. /\ PortsWithin(c, b) /\ c.protocols \subseteq b.protocols
      /\ PathsWithin(c, b) /\ MethodsWithin(c, b)
      /\ c.allow_request_body => b.allow_request_body
      /\ c.tls = "passthrough" => b.tls = "passthrough"
  BY <1>1 DEF NoGaps
<1>3. DomainMatches(b.domains, conn.host)
  <2>1. d \in DOMAIN Covers
    BY DEF PatternsKnown
  <2> QED
    BY <2>1, CoveredDomain
<1>4. PortMatches(b.ports, conn.port)
  BY <1>1, <1>2 DEF PortsWithin, PortMatches
<1>5. PathMatches(b.paths, conn.path)
  BY <1>1, <1>2, CoveredPath
<1>6. MethodMatches(b.methods, conn)
  BY <1>1, <1>2 DEF MethodsWithin, MethodMatches
<1> QED
  BY <1>1, <1>2, <1>3, <1>4, <1>5, <1>6 DEF Matches, MatchesExceptMethod

(* An internal address the candidate exempts, the boundary exempts.        *)
LEMMA CoveredExemption ==
  ASSUME NEW c, NEW b, NoGaps(c, b), NEW ip \in Internal, RuleExemptsIp(c, ip)
  PROVE  RuleExemptsIp(b, ip)
<1>1. IpsWithin(c, b) /\ GuardWithin(c, b)
  BY DEF NoGaps
<1>2. CASE ~c.internal_ip_guard
  BY <1>1, <1>2 DEF GuardWithin, RuleExemptsIp
<1>3. CASE ip \in c.allowed_ips
  BY <1>1, <1>3 DEF IpsWithin, RuleExemptsIp
<1>4. CASE c.internal_ip_guard /\ \E d \in c.domains : ip \in Literals[d]
  <2>1. PICK d \in c.domains : ip \in Literals[d]
    BY <1>4
  <2>2. ExemptsName(b, d)
    BY <1>1, <1>4, <2>1 DEF GuardWithin
  <2> QED
    BY <2>1, <2>2 DEF ExemptsName, RuleExemptsIp
<1> QED
  BY <1>2, <1>3, <1>4 DEF RuleExemptsIp

(* The rule of the boundary that answers for a name.                       *)
LEMMA Answerable ==
  ASSUME NEW rs, NEW bs, CheckPolicy(rs, bs), NEW c \in RulesOf(rs),
         NEW host, DomainMatches(c.domains, host)
  PROVE  \E d \in c.domains, b \in RulesOf(bs) :
           host \in Covers[d] /\ DomainSubsumed(d, b) /\ NoGaps(c, b)
<1>1. PICK d \in c.domains : host \in Covers[d]
  BY DEF DomainMatches
<1>2. \E b \in RulesOf(bs) : DomainSubsumed(d, b) /\ NoGaps(c, b)
  BY <1>1 DEF CheckPolicy, CheckRule
<1> QED
  BY <1>1, <1>2

(* What a checked policy matches, a rule of the boundary matches, which is *)
(* no narrower in its settings.                                            *)
LEMMA CheckedMatch ==
  ASSUME NEW rs, NEW bs, CheckPolicy(rs, bs),
         \A r \in RulesOf(rs) \cup RulesOf(bs) : PatternsKnown(r),
         NEW c \in RulesOf(rs), NEW conn, Matches(c, conn)
  PROVE  \E b \in RulesOf(bs) :
           /\ Matches(b, conn)
           /\ c.allow_request_body => b.allow_request_body
           /\ c.tls = "passthrough" => b.tls = "passthrough"
           /\ \A ip \in Internal : RuleExemptsIp(c, ip) => RuleExemptsIp(b, ip)
<1>1. DomainMatches(c.domains, conn.host)
  BY DEF Matches, MatchesExceptMethod
<1>2. PICK d \in c.domains, b \in RulesOf(bs) :
        conn.host \in Covers[d] /\ DomainSubsumed(d, b) /\ NoGaps(c, b)
  BY <1>1, Answerable
<1>3. PatternsKnown(c) /\ PatternsKnown(b)
  OBVIOUS
<1>4. /\ Matches(b, conn)
      /\ c.allow_request_body => b.allow_request_body
      /\ c.tls = "passthrough" => b.tls = "passthrough"
  BY <1>2, <1>3, CoveredConnection
<1>5. \A ip \in Internal : RuleExemptsIp(c, ip) => RuleExemptsIp(b, ip)
  BY <1>2, CoveredExemption
<1> QED
  BY <1>4, <1>5

(* And what it resolves, a rule of the boundary resolves.                  *)
LEMMA CheckedName ==
  ASSUME NEW rs, NEW bs, CheckPolicy(rs, bs),
         \A r \in RulesOf(rs) \cup RulesOf(bs) : PatternsKnown(r),
         NEW c \in RulesOf(rs), NEW host, DomainMatches(c.domains, host)
  PROVE  \E b \in RulesOf(bs) :
           /\ DomainMatches(b.domains, host)
           /\ \A ip \in Internal : RuleExemptsIp(c, ip) => RuleExemptsIp(b, ip)
<1>1. PICK d \in c.domains, b \in RulesOf(bs) :
        host \in Covers[d] /\ DomainSubsumed(d, b) /\ NoGaps(c, b)
  BY Answerable
<1>2. d \in DOMAIN Covers /\ PatternsKnown(b)
  BY DEF PatternsKnown
<1>3. DomainMatches(b.domains, host)
  BY <1>1, <1>2, CoveredDomain
<1>4. \A ip \in Internal : RuleExemptsIp(c, ip) => RuleExemptsIp(b, ip)
  BY <1>1, CoveredExemption
<1> QED
  BY <1>3, <1>4

(* A policy that passes the check is no wider than the boundary, whatever  *)
(* the lengths of the two (policy_boundary.py check_policy).               *)
THEOREM CheckIsSound ==
  ASSUME NEW rs, NEW bs, CheckPolicy(rs, bs),
         \A r \in RulesOf(rs) \cup RulesOf(bs) : PatternsKnown(r)
  PROVE  NoWider(rs, bs)
<1> SUFFICES ASSUME NEW conn \in Connections \cup DnsQueries
             PROVE  /\ Allows(rs, conn) => Allows(bs, conn)
                    /\ AllowsRequestBody(rs, conn) => AllowsRequestBody(bs, conn)
                    /\ HasPassthroughRule(rs, conn) => HasPassthroughRule(bs, conn)
                    /\ \A ip \in Ips : InternalIpViolation(bs, conn, ip)
                                         => InternalIpViolation(rs, conn, ip)
  BY DEF NoWider
<1>1. Allows(rs, conn) => Allows(bs, conn)
  <2>1. CASE conn.protocol = "dns"
    <3>1. \A host : (\E c \in RulesOf(rs) : DomainMatches(c.domains, host))
                      => \E b \in RulesOf(bs) : DomainMatches(b.domains, host)
      BY CheckedName
    <3> QED
      BY <2>1, <3>1 DEF Allows, AllowsDns
  <2>2. CASE conn.protocol # "dns"
    <3>1. (\E c \in RulesOf(rs) : Matches(c, conn)) => \E b \in RulesOf(bs) : Matches(b, conn)
      BY CheckedMatch
    <3> QED
      BY <2>2, <3>1 DEF Allows
  <2> QED
    BY <2>1, <2>2
<1>2. AllowsRequestBody(rs, conn) => AllowsRequestBody(bs, conn)
  BY CheckedMatch DEF AllowsRequestBody
<1>3. HasPassthroughRule(rs, conn) => HasPassthroughRule(bs, conn)
  BY CheckedMatch DEF HasPassthroughRule
<1>4. ASSUME NEW ip \in Internal, ~InternalIpViolation(rs, conn, ip)
      PROVE  ~InternalIpViolation(bs, conn, ip)
  <2>1. CASE conn.protocol = "dns"
    <3>1. PICK c \in RulesOf(rs) : RuleExemptsIp(c, ip) /\ DomainMatches(c.domains, conn.host)
      BY <1>4, <2>1 DEF InternalIpViolation, DnsAllowsInternalIp
    <3>2. \E b \in RulesOf(bs) : RuleExemptsIp(b, ip) /\ DomainMatches(b.domains, conn.host)
      BY <3>1, CheckedName
    <3> QED
      BY <2>1, <3>2 DEF InternalIpViolation, DnsAllowsInternalIp
  <2>2. CASE conn.protocol # "dns"
    <3>1. PICK c \in RulesOf(rs) : RuleExemptsIp(c, ip) /\ Matches(c, conn)
      BY <1>4, <2>2 DEF InternalIpViolation
    <3>2. \E b \in RulesOf(bs) : RuleExemptsIp(b, ip) /\ Matches(b, conn)
      BY <3>1, CheckedMatch
    <3> QED
      BY <2>2, <3>2 DEF InternalIpViolation
  <2> QED
    BY <2>1, <2>2
<1>5. \A ip \in Ips : InternalIpViolation(bs, conn, ip) => InternalIpViolation(rs, conn, ip)
  <2>1. \A ip : InternalIpViolation(bs, conn, ip) => ip \in Internal
    BY DEF InternalIpViolation
  <2> QED
    BY <1>4, <2>1
<1> QED
  BY <1>1, <1>2, <1>3, <1>5

-----------------------------------------------------------------------------
(* The files are lists of rules their authors may write.                   *)
Files == rules \in Seq(Rules) /\ boundary \in Seq(BoundaryRules)

LEMMA FilesInv == Spec => []Files
<1>1. Init => Files
  BY DEF Init, Files
<1>2. Files /\ [Next]_vars => Files'
  <2> SUFFICES ASSUME Files, [Next]_vars
               PROVE  Files'
    OBVIOUS
  <2>1. ASSUME NEW r \in Rules, AddRule(r)
        PROVE  Files'
    BY <2>1 DEF Files, AddRule
  <2>2. ASSUME NEW r \in BoundaryRules, AddBoundaryRule(r)
        PROVE  Files'
    BY <2>2 DEF Files, AddBoundaryRule
  <2>3. CASE UNCHANGED vars
    BY <2>3 DEF Files, vars
  <2> QED
    BY <2>1, <2>2, <2>3 DEF Next
<1> QED
  BY <1>1, <1>2, PTL DEF Spec

(* A policy that passes the boundary check never allows more than the      *)
(* boundary, for any globs, rules and connections.                         *)
THEOREM BoundaryRespected == Spec => []BoundaryIsRespected
<1>1. Files => BoundaryIsRespected
  <2> SUFFICES ASSUME Files, CheckPolicy(rules, boundary)
               PROVE  NoWider(rules, boundary)
    BY DEF BoundaryIsRespected
  <2>1. RulesOf(rules) \subseteq Rules /\ RulesOf(boundary) \subseteq BoundaryRules
    BY RulesOfSeq DEF Files
  <2>2. \A r \in RulesOf(rules) \cup RulesOf(boundary) : PatternsKnown(r)
    BY <2>1, RulesAssumption DEF PatternsKnown
  <2> QED
    BY <2>2, CheckIsSound
<1> QED
  BY <1>1, FilesInv, PTL

(* The order of the rules never changes a verdict, for policies of any     *)
(* length.                                                                 *)
THEOREM OrderIrrelevant == Spec => []RuleOrderIrrelevant
<1>1. Files => RuleOrderIrrelevant
  <2> SUFFICES ASSUME Files
               PROVE  RuleOrderIrrelevant
    OBVIOUS
  <2>1. RulesOf(rules) = RulesOf(Reverse(rules))
    BY RulesOfReverse DEF Files
  <2> QED
    BY <2>1, VerdictsOfSet DEF RuleOrderIrrelevant
<1> QED
  BY <1>1, FilesInv, PTL

(* More rules are no narrower.                                             *)
LEMMA MoreRules ==
  ASSUME NEW rs, NEW ws, RulesOf(rs) \subseteq RulesOf(ws)
  PROVE  NoWider(rs, ws)
<1> SUFFICES ASSUME NEW conn \in Connections \cup DnsQueries
             PROVE  /\ Allows(rs, conn) => Allows(ws, conn)
                    /\ AllowsRequestBody(rs, conn) => AllowsRequestBody(ws, conn)
                    /\ HasPassthroughRule(rs, conn) => HasPassthroughRule(ws, conn)
                    /\ \A ip \in Ips : InternalIpViolation(ws, conn, ip)
                                         => InternalIpViolation(rs, conn, ip)
  BY DEF NoWider
<1>1. Allows(rs, conn) => Allows(ws, conn)
  BY DEF Allows, AllowsDns
<1>2. AllowsRequestBody(rs, conn) => AllowsRequestBody(ws, conn)
  BY DEF AllowsRequestBody
<1>3. HasPassthroughRule(rs, conn) => HasPassthroughRule(ws, conn)
  BY DEF HasPassthroughRule
<1>4. \A ip \in Ips : InternalIpViolation(ws, conn, ip) => InternalIpViolation(rs, conn, ip)
  BY DEF InternalIpViolation, DnsAllowsInternalIp
<1> QED
  BY <1>1, <1>2, <1>3, <1>4

(* Adding a rule takes nothing back.                                       *)
THEOREM AddingOnlyWidens == Spec => AddedRuleOnlyWidens
<1>1. Files /\ [Next]_vars => [NoWider(rules, rules')]_rules
  <2> SUFFICES ASSUME Files, [Next]_vars, rules' # rules
               PROVE  NoWider(rules, rules')
    OBVIOUS
  <2>1. PICK r \in Rules : AddRule(r)
    BY DEF Next, AddBoundaryRule, vars
  <2>2. rules' = Append(rules, r)
    BY <2>1 DEF AddRule
  <2>3. RulesOf(rules) \subseteq RulesOf(rules')
    BY <2>2, RulesOfAppend DEF Files
  <2> QED
    BY <2>3, MoreRules
<1> QED
  BY <1>1, FilesInv, PTL DEF Spec, AddedRuleOnlyWidens

(* A host that may be connected to resolves, to the addresses it may be    *)
(* connected at.                                                           *)
THEOREM DnsCovers == Spec => []DnsCoversConnections
<1>1. DnsCoversConnections
  <2> SUFFICES ASSUME NEW conn \in Connections, Allows(rules, conn),
                      NEW q, q = [conn EXCEPT !.protocol = "dns"]
               PROVE  /\ Allows(rules, q)
                      /\ \A ip \in Ips : InternalIpViolation(rules, q, ip)
                                           => InternalIpViolation(rules, conn, ip)
    BY DEF DnsCoversConnections
  <2>1. /\ conn = [protocol |-> conn.protocol, host |-> conn.host, port |-> conn.port,
                   path |-> conn.path, method |-> conn.method]
        /\ conn.protocol # "dns"
    BY ConnectionsAssumption
  <2>2. q.protocol = "dns" /\ q.host = conn.host
    BY <2>1
  <2>3. \A rule : Matches(rule, conn) => DomainMatches(rule.domains, q.host)
    BY <2>2 DEF Matches, MatchesExceptMethod
  <2>4. Allows(rules, q)
    BY <2>2, <2>3 DEF Allows, AllowsDns
  <2>5. \A ip \in Ips : InternalIpViolation(rules, q, ip)
                          => InternalIpViolation(rules, conn, ip)
    BY <2>2, <2>3 DEF InternalIpViolation, DnsAllowsInternalIp
  <2> QED
    BY <2>4, <2>5
<1> QED
  BY <1>1, PTL

(* A refusal that is blamed on the method is about nothing else.           *)
THEOREM MethodExplains == Spec => []MethodMissExplains
<1>1. Files => MethodMissExplains
  <2> SUFFICES ASSUME Files, NEW conn \in Connections,
                      ~Allows(rules, conn), MethodMiss(rules, conn)
               PROVE  \E m \in Methods : Allows(rules, [conn EXCEPT !.method = m])
    BY DEF MethodMissExplains
  <2>1. PICK rule \in RulesOf(rules) : rule.methods # {} /\ MatchesExceptMethod(rule, conn)
    BY DEF MethodMiss
  <2>2. rule \in Rules
    BY RulesOfSeq DEF Files
  <2>3. PICK m \in rule.methods : m \in Methods
    BY <2>1, <2>2, RulesAssumption
  <2>4. conn = [protocol |-> conn.protocol, host |-> conn.host, port |-> conn.port,
                path |-> conn.path, method |-> conn.method]
    BY ConnectionsAssumption
  <2> DEFINE other == [conn EXCEPT !.method = m]
  <2>5. /\ other.host = conn.host /\ other.port = conn.port /\ other.path = conn.path
        /\ other.protocol = conn.protocol /\ other.method = m
    BY <2>4
  <2>6. Matches(rule, other)
    BY <2>1, <2>3, <2>5 DEF Matches, MatchesExceptMethod, MethodMatches
  <2>7. other.protocol # "dns"
    BY <2>5, ConnectionsAssumption
  <2>8. Allows(rules, other)
    BY <2>6, <2>7 DEF Allows
  <2> QED
    BY <2>3, <2>8
<1> QED
  BY <1>1, FilesInv, PTL
=============================================================================
