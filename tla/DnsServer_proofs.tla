-------------------------- MODULE DnsServer_proofs --------------------------
(* Proofs about DnsServer, for any queries, answers, policy and caps: each *)
(* group of invariants speaks of one thing the threads share.              *)
EXTENDS DnsServer, SequenceTheorems, FiniteSetTheorems, TLAPS

-----------------------------------------------------------------------------
(* What the proofs strengthen the properties with.                         *)

(* A handler that asked upstream has a verdict, one at an address has one, *)
(* and one that evicts knows which.                                        *)
Busy == {"learning", "naming", "sizing", "iterating", "picking", "evicting"}
Live == Busy \cup {"forwarding", "publishing", "answering"}
WorkInv ==
  \A q \in Queries : /\ phase[q] \in Live => status[q] # "none"
                     /\ phase[q] \in Busy => todo[q] # <<>>
                     /\ phase[q] = "evicting" => oldest[q] \in Ips

(* A query waits in the queue once, before its handler starts.             *)
QueueInv ==
  /\ \A i \in DOMAIN queue : phase[queue[i]] = "queued"
  /\ \A i, j \in DOMAIN queue : queue[i] = queue[j] => i = j

(* What a handler of enforce mode carries from one await to the next was   *)
(* judged: the name before it was asked for, the addresses as they came.   *)
Fit(name, ip) ==
  LET e == [protocol |-> "dns", host |-> name]
  IN  Allows(Policy, e) /\ ~InternalIpViolation(Policy, e, ip)
Judged(q) ==
  /\ phase[q] \in Live \cup {"unsent", "queued"} => log[q] = <<>> /\ reply[q] = "none"
  /\ phase[q] \in Live => status[q] = "allowed" /\ Allows(Policy, Entry(q))
  /\ phase[q] \in Live \ {"forwarding"} => \A ip \in Range(todo[q]) : Fit(NameOf[q], ip)
  /\ reply[q] = "answer" => log[q] = <<"allowed">>
JudgedInv ==
  mode = "enforce" =>
    /\ \A p \in Range(ipToDomain) \cup mapFile \cup cache : Fit(p.name, p.ip)
    /\ \A q \in Queries : Judged(q)

(* A map above its cap has a handler that will not die of it.              *)
Able(q) ==
  \/ phase[q] \in {"naming", "sizing", "iterating"}
  \/ phase[q] = "picking" /\ used[q] = Len(ipToDomain)
  \/ phase[q] = "evicting" /\ \E p \in Range(ipToDomain) : p.ip = oldest[q]
CapInv == Len(ipToDomain) > MaxEntries => \E q \in Queries : Able(q)

(* What the flusher has written since it last woke is current, unless the  *)
(* event is set or a handler is yet to set it.                             *)
DiskInv ==
  ~dirty /\ Settled =>
    /\ flusher \in {"names", "asleep", "waiting"} => mapFile = Range(ipToDomain)
    /\ flusher \in {"asleep", "waiting"} => namesFile = ipNames

(* The addon dates what it read no later than the file it read.            *)
CacheInv ==
  /\ mtime <= version /\ statted <= version
  /\ reader = "dating" /\ statted = version => cache = mapFile
  /\ CachedMapIsCurrent

(* An address is once in the map.                                          *)
KeysOnce == \A i, j \in DOMAIN ipToDomain :
              ipToDomain[i].ip = ipToDomain[j].ip => i = j
Once(names) == \A i, j \in DOMAIN names : names[i] = names[j] => i = j
NamesOnce == /\ \A q \in Queries : Once(prior[q])
             /\ \A ip \in Ips : Once(ipNames[ip])

-----------------------------------------------------------------------------
(* Sequences.                                                              *)
LEMMA RemoveAtProperties ==
  ASSUME NEW S, NEW s \in Seq(S), NEW k \in 1..Len(s)
  PROVE  /\ RemoveAt(s, k) \in Seq(S)
         /\ Len(RemoveAt(s, k)) = Len(s) - 1
         /\ \A i \in 1..(Len(s) - 1) : RemoveAt(s, k)[i] = IF i < k THEN s[i] ELSE s[i + 1]
<1> DEFINE n == Len(s)
           u == SubSeq(s, 1, k - 1)
           v == SubSeq(s, k + 1, n)
<1>1. n \in Nat /\ \A i \in 1..n : s[i] \in S
  BY LenProperties, ElementOfSeq
<1>2. RemoveAt(s, k) = u \o v
  BY DEF RemoveAt
<1>3. /\ u \in Seq(S) /\ Len(u) = k - 1
      /\ \A i \in 1..(k - 1) : u[i] = s[i]
  <2>1. 1 \in Int /\ k - 1 \in Int /\ \A i \in 1..(k - 1) : s[i] \in S
    BY <1>1
  <2> QED
    BY <1>1, <2>1, SubSeqProperties
<1>4. /\ v \in Seq(S) /\ Len(v) = n - k
      /\ \A i \in 1..(n - k) : v[i] = s[k + i]
  <2>1. k + 1 \in Int /\ n \in Int /\ \A i \in (k + 1)..n : s[i] \in S
    BY <1>1
  <2>2. /\ v \in Seq(S)
        /\ Len(v) = IF k + 1 <= n THEN n - (k + 1) + 1 ELSE 0
        /\ \A i \in 1..(n - (k + 1) + 1) : v[i] = s[(k + 1) + i - 1]
    BY <2>1, SubSeqProperties
  <2>3. n - (k + 1) + 1 = n - k /\ \A i \in 1..(n - k) : (k + 1) + i - 1 = k + i
    BY <1>1
  <2> HIDE DEF v, n
  <2>4. k \in 1..n
    BY DEF n
  <2>5. Len(v) = n - k
    BY <1>1, <2>2, <2>3, <2>4
  <2>6. \A i \in 1..(n - k) : v[i] = s[k + i]
    BY <2>2, <2>3
  <2> QED
    BY <2>2, <2>5, <2>6
<1>5. /\ u \o v \in Seq(S) /\ Len(u \o v) = Len(u) + Len(v)
      /\ \A i \in 1..(Len(u) + Len(v)) :
           (u \o v)[i] = IF i <= Len(u) THEN u[i] ELSE v[i - Len(u)]
  BY <1>3, <1>4, ConcatProperties
<1> HIDE DEF u, v, n
<1>6. Len(u) + Len(v) = n - 1 /\ k \in 1..n
  BY <1>1, <1>3, <1>4 DEF n
<1>7. ASSUME NEW i \in 1..(n - 1) PROVE (u \o v)[i] = IF i < k THEN s[i] ELSE s[i + 1]
  <2>1. CASE i < k
    BY <1>1, <1>3, <1>5, <1>6, <2>1
  <2>2. CASE ~(i < k)
    <3>1. i - (k - 1) \in 1..(n - k) /\ k + (i - (k - 1)) = i + 1
      BY <1>1, <1>6, <2>2
    <3> QED
      BY <1>1, <1>3, <1>4, <1>5, <1>6, <2>2, <3>1
  <2> QED
    BY <2>1, <2>2
<1> QED
  BY <1>2, <1>5, <1>6, <1>7 DEF n

LEMMA DropTyped ==
  ASSUME NEW S, NEW s \in Seq(S), NEW places \in SUBSET DOMAIN s
  PROVE  Drop(s, places) \in Seq(S) /\ Range(Drop(s, places)) \subseteq Range(s)
<1>1. CASE places = {}
  BY <1>1 DEF Drop
<1>2. CASE places # {}
  <2> DEFINE k == CHOOSE i \in places : TRUE
             r == RemoveAt(s, k)
  <2>1. k \in DOMAIN s
    BY <1>2
  <2>2. Len(s) \in Nat /\ DOMAIN s = 1..Len(s)
    BY LenProperties
  <2>3. Drop(s, places) = r
    BY <1>2 DEF Drop
  <2> HIDE DEF k
  <2>4. /\ r \in Seq(S) /\ Len(r) = Len(s) - 1
        /\ \A i \in 1..(Len(s) - 1) : r[i] = IF i < k THEN s[i] ELSE s[i + 1]
    BY <2>1, <2>2, RemoveAtProperties
  <2> HIDE DEF r
  <2>5. DOMAIN r = 1..(Len(s) - 1)
    BY <2>4, LenProperties
  <2>6. ASSUME NEW i \in DOMAIN r PROVE r[i] \in Range(s)
    <3>1. i \in DOMAIN s /\ i + 1 \in DOMAIN s
      BY <2>2, <2>5
    <3> QED
      BY <2>4, <2>5, <3>1 DEF Range
  <2>7. Range(r) \subseteq Range(s)
    BY <2>6 DEF Range
  <2> QED
    BY <2>3, <2>4, <2>7
<1> QED
  BY <1>1, <1>2

LEMMA AppendRange ==
  ASSUME NEW S, NEW s \in Seq(S), NEW x \in S
  PROVE  Append(s, x) \in Seq(S) /\ Range(Append(s, x)) = Range(s) \cup {x}
<1>1. <<x>> \in Seq(S) /\ Range(<<x>>) = {x}
  BY DEF Range
<1>2. Append(s, x) = s \o <<x>> /\ Append(s, x) \in Seq(S)
  BY AppendIsConcat, AppendProperties
<1>3. Range(s \o <<x>>) = Range(s) \cup Range(<<x>>)
  BY <1>1, RangeConcatenation
<1> QED
  BY <1>1, <1>2, <1>3

LEMMA MaxLow ==
  ASSUME NEW S, NEW s \in Seq(S)
  PROVE  LET low == Max({1, Len(s) - MaxNames + 1}) IN low \in Int /\ low >= 1
<1> DEFINE low == Max({1, Len(s) - MaxNames + 1})
<1>1. Len(s) \in Nat /\ MaxNames \in Nat
  BY LenProperties, NamesAssumption
<1>2. \E m \in {1, Len(s) - MaxNames + 1} : \A y \in {1, Len(s) - MaxNames + 1} : m >= y
  <2>1. CASE Len(s) - MaxNames + 1 <= 1
    BY <1>1, <2>1
  <2>2. CASE ~(Len(s) - MaxNames + 1 <= 1)
    BY <1>1, <2>2
  <2> QED
    BY <2>1, <2>2
<1>3. /\ low \in {1, Len(s) - MaxNames + 1}
      /\ \A y \in {1, Len(s) - MaxNames + 1} : low >= y
  BY <1>2 DEF Max
<1> QED
  BY <1>1, <1>3

LEMMA NewestTyped ==
  ASSUME NEW S, NEW s \in Seq(S)
  PROVE  Newest(s) \in Seq(S)
<1> DEFINE low == Max({1, Len(s) - MaxNames + 1})
<1>1. Len(s) \in Nat /\ MaxNames \in Nat /\ \A i \in 1..Len(s) : s[i] \in S
  BY LenProperties, ElementOfSeq, NamesAssumption
<1>2. low \in Int /\ low >= 1
  BY MaxLow
<1> HIDE DEF low
<1>3. \A i \in low..Len(s) : s[i] \in S
  BY <1>1, <1>2
<1>4. SubSeq(s, low, Len(s)) \in Seq(S)
  BY <1>1, <1>2, <1>3, SubSeqProperties
<1> QED
  BY <1>4 DEF Newest, low

-----------------------------------------------------------------------------
(* Verdicts.                                                               *)
LEMMA EvaluatedOfMode ==
  ASSUME TypeOK, NEW q \in Queries
  PROVE  /\ Evaluated(q) \in {"allowed", "would_block", "blocked"}
         /\ mode = "enforce" => Evaluated(q) \in {"allowed", "blocked"}
         /\ mode = "enforce" /\ Evaluated(q) = "allowed" => Allows(Policy, Entry(q))
BY DEF TypeOK, Evaluated, Evaluate, Refusal

(* handle_query before it asks upstream either ends, or goes on with a     *)
(* name that is not refused.                                               *)
Ended(q) ==
  \E records \in {<<>>, <<"blocked">>, <<"allowed">>} :
    \E answer \in {"formerr", "none", "nxdomain", "nodata"} :
      /\ log'   = [log EXCEPT ![q] = @ \o records]
      /\ reply' = [reply EXCEPT ![q] = answer]
      /\ phase' = [phase EXCEPT ![q] = "done"]
      /\ status' = status
Forwards(q) ==
  /\ Evaluated(q) \in {"allowed", "would_block"}
  /\ status' = [status EXCEPT ![q] = Evaluated(q)]
  /\ phase' = [phase EXCEPT ![q] = "forwarding"]
  /\ log' = log /\ reply' = reply

LEMMA HandleEnds ==
  ASSUME TypeOK, NEW q \in Queries, Handle(q)
  PROVE  Ended(q) \/ Forwards(q)
<1>1. PICK shape \in Shape[q] :
        CASE shape = "bad"   -> EndsEarly(q, <<>>, "formerr")
          [] shape = "empty" -> EndsEarly(q, <<>>, "none")
          [] shape = "probe" -> EndsEarly(q, <<>>, "nxdomain")
          [] shape = "query" /\ Refused(q) -> EndsEarly(q, <<"blocked">>, "nxdomain")
          [] shape = "query" /\ AaaaSuppressed(q) -> EndsEarly(q, <<"allowed">>, "nodata")
          [] OTHER -> /\ status' = [status EXCEPT ![q] = Evaluated(q)]
                      /\ Goto(q, "forwarding")
                      /\ UNCHANGED <<log, reply>>
  BY DEF Handle
<1>2. shape \in {"bad", "empty", "probe", "query"}
  BY ShapeAssumption
<1>3. ASSUME NEW records \in {<<>>, <<"blocked">>, <<"allowed">>},
             NEW answer \in {"formerr", "none", "nxdomain", "nodata"},
             EndsEarly(q, records, answer)
      PROVE  Ended(q)
  BY <1>3, Zenon DEF EndsEarly, Ended, Send, Goto
<1>4. CASE shape = "bad"
  BY <1>1, <1>3, <1>4
<1>5. CASE shape = "empty"
  BY <1>1, <1>3, <1>5
<1>6. CASE shape = "probe"
  BY <1>1, <1>3, <1>6
<1>7. CASE shape = "query" /\ Refused(q)
  BY <1>1, <1>3, <1>7
<1>8. CASE shape = "query" /\ ~Refused(q) /\ AaaaSuppressed(q)
  BY <1>1, <1>3, <1>8
<1>9. CASE shape = "query" /\ ~Refused(q) /\ ~AaaaSuppressed(q)
  <2>1. status' = [status EXCEPT ![q] = Evaluated(q)] /\ Goto(q, "forwarding")
        /\ UNCHANGED <<log, reply>>
    BY <1>1, <1>9
  <2>2. Evaluated(q) # "blocked"
    BY <1>9 DEF Refused
  <2> QED
    BY <2>1, <2>2, EvaluatedOfMode DEF Forwards, Goto
<1> QED
  BY <1>2, <1>4, <1>5, <1>6, <1>7, <1>8, <1>9

(* Of an answer either all addresses are kept, or none.                    *)
Keeps(q, response) ==
  /\ mode = "enforce" => ~InternalAnswer(q, response) /\ status' = status
  /\ \E s \in {status[q], "would_block"} : status' = [status EXCEPT ![q] = s]
  /\ todo' = [todo EXCEPT ![q] = response.a]
  /\ phase' = [phase EXCEPT ![q] = IF response.a = <<>> THEN "answering" ELSE "learning"]
  /\ log' = log /\ reply' = reply

LEMMA ForwardedKeeps ==
  ASSUME TypeOK, NEW q \in Queries, NEW response \in Responses[q], Forwarded(q, response)
  PROVE  (Ended(q) /\ todo' = todo) \/ Keeps(q, response)
<1>1. CASE InternalAnswer(q, response) /\ mode = "enforce"
  <2>1. EndsEarly(q, <<"blocked">>, "nxdomain") /\ todo' = todo
    BY <1>1 DEF Forwarded
  <2> QED
    BY <2>1, Zenon DEF EndsEarly, Ended, Send, Goto
<1>2. CASE ~(InternalAnswer(q, response) /\ mode = "enforce")
  <2>1. /\ status' = [status EXCEPT ![q] =
                        IF InternalAnswer(q, response) THEN "would_block" ELSE status[q]]
        /\ todo' = [todo EXCEPT ![q] = response.a]
        /\ phase' = [phase EXCEPT ![q] = IF response.a = <<>> THEN "answering" ELSE "learning"]
        /\ log' = log /\ reply' = reply
    BY <1>2 DEF Forwarded, Goto
  <2>2. mode = "enforce" => ~InternalAnswer(q, response) /\ status' = status
    <3> HAVE mode = "enforce"
    <3>1. status' = [status EXCEPT ![q] = status[q]]
      BY <1>2, <2>1
    <3> QED
      BY <1>2, <3>1 DEF TypeOK
  <2>3. \E s \in {status[q], "would_block"} : status' = [status EXCEPT ![q] = s]
    BY <2>1
  <2> QED
    BY <2>1, <2>2, <2>3 DEF Keeps
<1> QED
  BY <1>1, <1>2

(* The other variables of the two steps.                                   *)
LEMMA HandleFrame ==
  ASSUME NEW q, Handle(q)
  PROVE  /\ queue # <<>> /\ q = Head(queue) /\ queue' = Tail(queue)
         /\ UNCHANGED <<mode, todo, prior, used, oldest, ipToDomain, ipNames, dirty, flusher,
                        mapFile, namesFile, version, reader, statted, mtime, cache>>
BY DEF Handle, scratch, maps, disk, addon

LEMMA ForwardedFrame ==
  ASSUME NEW q, NEW response, Forwarded(q, response)
  PROVE  /\ phase[q] = "forwarding"
         /\ UNCHANGED <<mode, queue, prior, used, oldest, ipToDomain, ipNames, dirty, flusher,
                        mapFile, namesFile, version, reader, statted, mtime, cache>>
BY DEF Forwarded, scratch, maps, disk, addon

LEMMA EndedTyped ==
  ASSUME TypeOK, NEW q \in Queries, Ended(q)
  PROVE  /\ log' \in [Queries -> Seq({"allowed", "would_block", "blocked"})]
         /\ reply' \in [Queries -> {"none", "formerr", "nxdomain", "nodata", "answer"}]
         /\ phase' \in [Queries -> Phases] /\ status' = status
<1> DEFINE Records == {"allowed", "would_block", "blocked"}
<1>1. PICK records \in {<<>>, <<"blocked">>, <<"allowed">>},
           answer \in {"formerr", "none", "nxdomain", "nodata"} :
        /\ log'   = [log EXCEPT ![q] = log[q] \o records]
        /\ reply' = [reply EXCEPT ![q] = answer]
        /\ phase' = [phase EXCEPT ![q] = "done"]
        /\ status' = status
  BY DEF Ended
<1>2. records \in Seq(Records)
  <2>1. \A x \in Records : <<x>> \in Seq(Records)
    OBVIOUS
  <2>2. <<>> \in Seq(Records)
    BY EmptySeq
  <2> QED
    BY <2>1, <2>2
<1>3. log[q] \in Seq(Records)
  BY DEF TypeOK
<1>4. log[q] \o records \in Seq(Records)
  BY <1>2, <1>3, ConcatProperties
<1> QED
  BY <1>1, <1>4 DEF TypeOK, Phases

LEMMA WriteLogTyped ==
  ASSUME TypeOK, NEW q \in Queries, WriteLog(q, status[q]), status[q] # "none"
  PROVE  log' \in [Queries -> Seq({"allowed", "would_block", "blocked"})]
<1>1. /\ log[q] \in Seq({"allowed", "would_block", "blocked"})
      /\ status[q] \in {"allowed", "would_block", "blocked"}
  BY DEF TypeOK
<1>2. Append(log[q], status[q]) \in Seq({"allowed", "would_block", "blocked"})
  BY <1>1, AppendProperties
<1> QED
  BY <1>2 DEF TypeOK, WriteLog

-----------------------------------------------------------------------------
(* Types, and the work a handler has left.                                 *)
LEMMA InitWork == Init => TypeOK /\ WorkInv /\ QueueInv
<1> SUFFICES ASSUME Init PROVE TypeOK /\ WorkInv /\ QueueInv
  OBVIOUS
<1>1. \A S : <<>> \in Seq(S)
  BY EmptySeq
<1>2. DOMAIN <<>> = {}
  OBVIOUS
<1>3. Range(<<>>) = {}
  BY DEF Range
<1>4. TypeOK
  BY <1>1 DEF Init, TypeOK, Phases
<1>5. WorkInv
  BY DEF Init, WorkInv, Busy, Live
<1>6. QueueInv
  BY <1>2 DEF Init, QueueInv
<1> QED
  BY <1>4, <1>5, <1>6

LEMMA NextType == TypeOK /\ WorkInv /\ [Next]_vars => TypeOK'
<1> SUFFICES ASSUME TypeOK, WorkInv, [Next]_vars PROVE TypeOK'
  OBVIOUS
<1>w. \A q \in Queries : phase[q] \in {"forwarding", "answering"} => status[q] # "none"
  BY DEF WorkInv, Live
<1>1. ASSUME NEW q \in Queries, Receive(q) PROVE TypeOK'
  <2>1. queue' \in Seq(Queries)
    BY <1>1, AppendProperties DEF Receive, TypeOK
  <2> QED
    BY <1>1, <2>1 DEF Receive, Goto, scratch, maps, disk, addon, TypeOK, Phases
<1>2. ASSUME NEW q \in Queries, Handle(q) PROVE TypeOK'
  <2>1. queue' \in Seq(Queries)
    <3>1. queue \in Seq(Queries) /\ queue # <<>> /\ queue' = Tail(queue)
      BY <1>2, HandleFrame DEF TypeOK
    <3> QED
      BY <3>1, HeadTailProperties
  <2>2. CASE Ended(q)
    BY <1>2, <2>1, <2>2, EndedTyped, HandleFrame DEF TypeOK
  <2>3. CASE Forwards(q)
    BY <1>2, <2>1, <2>3, HandleFrame DEF TypeOK, Forwards, Phases
  <2> QED
    BY <1>2, <2>2, <2>3, HandleEnds
<1>3. ASSUME NEW q \in Queries, Unanswered(q) PROVE TypeOK'
  <2>1. log' \in [Queries -> Seq({"allowed", "would_block", "blocked"})]
    BY <1>3, <1>w, WriteLogTyped DEF Unanswered
  <2> QED
    BY <1>3, <2>1 DEF Unanswered, Goto, scratch, maps, disk, addon, TypeOK, Phases
<1>4. ASSUME NEW q \in Queries, NEW response \in Responses[q], Forwarded(q, response)
      PROVE  TypeOK'
  <2>1. CASE Ended(q) /\ todo' = todo
    BY <1>4, <2>1, EndedTyped, ForwardedFrame DEF TypeOK
  <2>2. CASE Keeps(q, response)
    <3>1. response.a \in Seq(Ips)
      BY ResponsesAssumption
    <3>2. status' \in [Queries -> {"none", "allowed", "would_block"}]
      BY <2>2 DEF Keeps, TypeOK
    <3> QED
      BY <1>4, <2>2, <3>1, <3>2, ForwardedFrame DEF Keeps, TypeOK, Phases
  <2> QED
    BY <1>4, <2>1, <2>2, ForwardedKeeps
<1>5. ASSUME NEW q \in Queries, Learn(q) PROVE TypeOK'
  <2>1. Head(todo[q]) \in Ips /\ NameOf[q] \in Names
    BY <1>5, HeadTailProperties, NameOfAssumption DEF Learn, TypeOK, WorkInv, Busy
  <2>2. Without(Head(todo[q])) \in Seq(Entries)
    BY DropTyped DEF Without, TypeOK
  <2>3. [ip |-> Head(todo[q]), name |-> NameOf[q]] \in Entries
    BY <2>1 DEF Entries
  <2>4. ipToDomain' \in Seq(Entries)
    BY <1>5, <2>2, <2>3, AppendProperties DEF Learn
  <2>5. prior' \in [Queries -> Seq(Names)]
    BY <1>5, <2>1 DEF Learn, TypeOK
  <2> QED
    BY <1>5, <2>4, <2>5 DEF Learn, Goto, disk, addon, TypeOK, Phases
<1>6. ASSUME NEW q \in Queries, LearnName(q) PROVE TypeOK'
  <2>1. Head(todo[q]) \in Ips /\ NameOf[q] \in Names /\ prior[q] \in Seq(Names)
    BY <1>6, HeadTailProperties, NameOfAssumption DEF LearnName, TypeOK, WorkInv, Busy
  <2>2. Other(prior[q], NameOf[q]) \in Seq(Names)
    BY <2>1, DropTyped DEF Other
  <2>3. Append(Other(prior[q], NameOf[q]), NameOf[q]) \in Seq(Names)
    BY <2>1, <2>2, AppendProperties
  <2>4. Newest(Append(Other(prior[q], NameOf[q]), NameOf[q])) \in Seq(Names)
    BY <2>3, NewestTyped
  <2>5. ipNames' \in [Ips -> Seq(Names)]
    BY <1>6, <2>1, <2>4 DEF LearnName, TypeOK
  <2>6. prior' \in [Queries -> Seq(Names)]
    BY <1>6, EmptySeq DEF LearnName, TypeOK
  <2> QED
    BY <1>6, <2>5, <2>6 DEF LearnName, Goto, disk, addon, TypeOK, Phases
<1>7. ASSUME NEW q \in Queries, Size(q) PROVE TypeOK'
  <2>1. Tail(todo[q]) \in Seq(Ips)
    BY <1>7, HeadTailProperties DEF Size, TypeOK, WorkInv, Busy
  <2>2. todo' \in [Queries -> Seq(Ips)] /\ phase' \in [Queries -> Phases]
    BY <1>7, <2>1 DEF Size, Goto, TypeOK, Phases
  <2> QED
    BY <1>7, <2>2 DEF Size, scratch, maps, disk, addon, TypeOK
<1>8. ASSUME NEW q \in Queries, Iterate(q) PROVE TypeOK'
  <2>1. Len(ipToDomain) \in Nat
    BY LenProperties DEF TypeOK
  <2> QED
    BY <1>8, <2>1 DEF Iterate, Goto, maps, disk, addon, TypeOK, Phases
<1>9. ASSUME NEW q \in Queries, PickOldest(q) PROVE TypeOK'
  <2>1. ipToDomain # <<>> => Head(ipToDomain).ip \in Ips
    <3>1. ipToDomain \in Seq(Entries)
      BY DEF TypeOK
    <3>2. ipToDomain # <<>> => Head(ipToDomain) \in Entries
      BY <3>1, HeadTailProperties
    <3> QED
      BY <3>2 DEF Entries
  <2>2. /\ oldest' \in [Queries -> Ips \cup {"none"}] /\ phase' \in [Queries -> Phases]
        /\ used' \in [Queries -> Nat]
    BY <1>9, <2>1 DEF PickOldest, Goto, TypeOK, Phases
  <2> QED
    BY <1>9, <2>2 DEF PickOldest, maps, disk, addon, TypeOK
<1>10. ASSUME NEW q \in Queries, Evict(q) PROVE TypeOK'
  <2>1. Without(oldest[q]) \in Seq(Entries)
    BY DropTyped DEF Without, TypeOK
  <2>2. ipToDomain' \in Seq(Entries)
    BY <1>10, <2>1 DEF Evict, maps, TypeOK
  <2>3. ipNames' \in [Ips -> Seq(Names)]
    <3>1. <<>> \in Seq(Names)
      BY EmptySeq
    <3> QED
      BY <1>10, <3>1 DEF Evict, maps, TypeOK
  <2>4. phase' \in [Queries -> Phases] /\ oldest' \in [Queries -> Ips \cup {"none"}]
    BY <1>10 DEF Evict, Goto, TypeOK, Phases
  <2> QED
    BY <1>10, <2>2, <2>3, <2>4 DEF Evict, disk, addon, TypeOK
<1>11. ASSUME NEW q \in Queries, Publish(q) PROVE TypeOK'
  BY <1>11 DEF Publish, Goto, scratch, maps, disk, addon, TypeOK, Phases
<1>12. ASSUME NEW q \in Queries, Answer(q) PROVE TypeOK'
  <2>1. log' \in [Queries -> Seq({"allowed", "would_block", "blocked"})]
    BY <1>12, <1>w, WriteLogTyped DEF Answer
  <2> QED
    BY <1>12, <2>1 DEF Answer, Goto, Send, scratch, maps, disk, addon, TypeOK, Phases
<1>13. CASE Wake
  BY <1>13 DEF Wake, handling, scratch, maps, addon, TypeOK, Phases
<1>14. CASE WriteMap
  <2>1. Range(ipToDomain) \subseteq Entries
    BY RangeOfSeq DEF TypeOK
  <2> QED
    BY <1>14, <2>1 DEF WriteMap, handling, scratch, maps, addon, TypeOK
<1>15. CASE WriteNames
  BY <1>15 DEF WriteNames, handling, scratch, maps, addon, TypeOK, Phases
<1>16. CASE Nap
  BY <1>16 DEF Nap, handling, scratch, maps, addon, TypeOK, Phases
<1>17. CASE StatMap
  BY <1>17 DEF StatMap, handling, scratch, maps, disk, TypeOK, Phases
<1>18. CASE OpenMap
  BY <1>18 DEF OpenMap, handling, scratch, maps, disk, TypeOK, Phases
<1>19. CASE DateMap
  BY <1>19 DEF DateMap, handling, scratch, maps, disk, TypeOK, Phases
<1>20. CASE UNCHANGED vars
  BY <1>20 DEF vars, handling, scratch, maps, disk, addon, TypeOK, Phases
<1> QED
  BY <1>1, <1>2, <1>3, <1>4, <1>5, <1>6, <1>7, <1>8, <1>9, <1>10, <1>11, <1>12,
     <1>13, <1>14, <1>15, <1>16, <1>17, <1>18, <1>19, <1>20 DEF Next, Handler, Flusher

LEMMA NextWork == TypeOK /\ TypeOK' /\ WorkInv /\ [Next]_vars => WorkInv'
<1> SUFFICES ASSUME TypeOK, TypeOK', WorkInv, [Next]_vars PROVE WorkInv'
  OBVIOUS
<1>t. /\ phase \in [Queries -> Phases] /\ todo \in [Queries -> Seq(Ips)]
      /\ DOMAIN status = Queries /\ DOMAIN oldest = Queries
  BY DEF TypeOK
<1>f. ASSUME NEW q \in Queries,
             \A p \in Queries \ {q} : /\ phase'[p] = phase[p] /\ status'[p] = status[p]
                                      /\ todo'[p] = todo[p] /\ oldest'[p] = oldest[p],
             phase'[q] \in Live => status'[q] # "none",
             phase'[q] \in Busy => todo'[q] # <<>>,
             phase'[q] = "evicting" => oldest'[q] \in Ips
      PROVE  WorkInv'
  BY <1>f DEF WorkInv
<1>1. ASSUME NEW q \in Queries, Receive(q) PROVE WorkInv'
  BY <1>1, <1>t DEF Receive, Goto, scratch, maps, disk, addon, WorkInv, Busy, Live
<1>2. ASSUME NEW q \in Queries, Handle(q) PROVE WorkInv'
  <2>1. CASE Ended(q)
    <3>1. /\ phase' = [phase EXCEPT ![q] = "done"] /\ status' = status
          /\ todo' = todo /\ oldest' = oldest
      BY <1>2, <2>1, HandleFrame DEF Ended
    <3> QED
      BY <1>t, <1>f, <3>1 DEF Busy, Live
  <2>2. CASE Forwards(q)
    <3>1. /\ phase' = [phase EXCEPT ![q] = "forwarding"]
          /\ status' = [status EXCEPT ![q] = Evaluated(q)] /\ Evaluated(q) # "none"
          /\ todo' = todo /\ oldest' = oldest
      BY <1>2, <2>2, HandleFrame DEF Forwards
    <3> QED
      BY <1>t, <1>f, <3>1 DEF Busy, Live
  <2> QED
    BY <1>2, <2>1, <2>2, HandleEnds
<1>3. ASSUME NEW q \in Queries, Unanswered(q) PROVE WorkInv'
  BY <1>3, <1>t DEF Unanswered, Goto, WriteLog, scratch, maps, disk, addon, WorkInv,
     Busy, Live
<1>4. ASSUME NEW q \in Queries, NEW response \in Responses[q], Forwarded(q, response)
      PROVE  WorkInv'
  <2>1. CASE Ended(q) /\ todo' = todo
    <3>1. /\ phase' = [phase EXCEPT ![q] = "done"] /\ status' = status
          /\ todo' = todo /\ oldest' = oldest
      BY <1>4, <2>1, ForwardedFrame DEF Ended
    <3> QED
      BY <1>t, <1>f, <3>1 DEF Busy, Live
  <2>2. CASE Keeps(q, response)
    <3>1. phase[q] = "forwarding" /\ oldest' = oldest
      BY <1>4, ForwardedFrame
    <3>2. PICK s \in {status[q], "would_block"} : status' = [status EXCEPT ![q] = s]
      BY <2>2 DEF Keeps
    <3>3. s # "none"
      BY <3>1, <3>2 DEF WorkInv, Live
    <3>4. /\ todo' = [todo EXCEPT ![q] = response.a]
          /\ phase' = [phase EXCEPT ![q] = IF response.a = <<>> THEN "answering" ELSE "learning"]
      BY <2>2 DEF Keeps
    <3> QED
      BY <1>t, <1>f, <3>1, <3>2, <3>3, <3>4 DEF Busy
  <2> QED
    BY <1>4, <2>1, <2>2, ForwardedKeeps
<1>5. ASSUME NEW q \in Queries, Learn(q) PROVE WorkInv'
  BY <1>5, <1>t DEF Learn, Goto, disk, addon, WorkInv, Busy, Live
<1>6. ASSUME NEW q \in Queries, LearnName(q) PROVE WorkInv'
  BY <1>6, <1>t DEF LearnName, Goto, disk, addon, WorkInv, Busy, Live
<1>7. ASSUME NEW q \in Queries, Size(q) PROVE WorkInv'
  <2>1. todo[q] \in Seq(Ips) /\ todo[q] # <<>> /\ status[q] # "none"
    BY <1>t, <1>7 DEF Size, WorkInv, Busy, Live
  <2>2. Len(todo[q]) # 1 => Tail(todo[q]) # <<>>
    <3>1. Len(todo[q]) \in Nat \ {0} /\ Len(Tail(todo[q])) = Len(todo[q]) - 1
      BY <2>1, EmptySeq, HeadTailProperties
    <3>2. Tail(todo[q]) = <<>> => Len(Tail(todo[q])) = 0
      BY EmptySeq
    <3> QED
      BY <3>1, <3>2
  <2>3. CASE Len(ipToDomain) > MaxEntries
    <3>1. phase' = [phase EXCEPT ![q] = "iterating"] /\ UNCHANGED <<todo, status, oldest>>
      BY <1>7, <2>3 DEF Size, Goto, scratch
    <3> QED
      BY <1>t, <1>f, <2>1, <3>1 DEF Busy
  <2>4. CASE ~(Len(ipToDomain) > MaxEntries)
    <3>1. /\ phase' = [phase EXCEPT ![q] = IF Len(todo[q]) = 1 THEN "publishing" ELSE "learning"]
          /\ todo' = [todo EXCEPT ![q] = Tail(todo[q])]
          /\ UNCHANGED <<status, oldest>>
      BY <1>7, <2>4 DEF Size, Goto, scratch
    <3> QED
      BY <1>t, <1>f, <2>1, <2>2, <3>1 DEF Busy
  <2> QED
    BY <2>3, <2>4
<1>8. ASSUME NEW q \in Queries, Iterate(q) PROVE WorkInv'
  BY <1>8, <1>t DEF Iterate, Goto, maps, disk, addon, WorkInv, Busy, Live
<1>9. ASSUME NEW q \in Queries, PickOldest(q) PROVE WorkInv'
  <2>1. phase[q] = "picking" /\ todo[q] # <<>> /\ status[q] # "none"
        /\ UNCHANGED <<status, todo>>
    BY <1>9 DEF PickOldest, WorkInv, Busy, Live
  <2>2. CASE ipToDomain = <<>> \/ Len(ipToDomain) # used[q]
    <3>1. phase' = [phase EXCEPT ![q] = "raised"] /\ oldest' = oldest
      BY <1>9, <2>2 DEF PickOldest, Goto
    <3> QED
      BY <1>t, <1>f, <2>1, <3>1 DEF Busy, Live
  <2>3. CASE ~(ipToDomain = <<>> \/ Len(ipToDomain) # used[q])
    <3>1. ipToDomain \in Seq(Entries)
      BY DEF TypeOK
    <3>2. Head(ipToDomain) \in Entries
      BY <2>3, <3>1, HeadTailProperties
    <3>3. Head(ipToDomain).ip \in Ips
      BY <3>2 DEF Entries
    <3>4. /\ phase' = [phase EXCEPT ![q] = "evicting"]
          /\ oldest' = [oldest EXCEPT ![q] = Head(ipToDomain).ip]
      BY <1>9, <2>3 DEF PickOldest, Goto
    <3> QED
      BY <1>t, <1>f, <2>1, <3>3, <3>4 DEF Busy
  <2> QED
    BY <2>2, <2>3
<1>10. ASSUME NEW q \in Queries, Evict(q) PROVE WorkInv'
  <2>1. /\ phase[q] = "evicting" /\ todo[q] # <<>> /\ status[q] # "none"
        /\ UNCHANGED <<status, todo>> /\ oldest' = [oldest EXCEPT ![q] = "none"]
    BY <1>10 DEF Evict, WorkInv, Busy, Live
  <2>2. \E p \in {"sizing", "raised"} : phase' = [phase EXCEPT ![q] = p]
    BY <1>10 DEF Evict, Goto
  <2> QED
    BY <1>t, <1>f, <2>1, <2>2 DEF Busy, Live
<1>11. ASSUME NEW q \in Queries, Publish(q) PROVE WorkInv'
  BY <1>11, <1>t DEF Publish, Goto, scratch, maps, disk, addon, WorkInv, Busy, Live
<1>12. ASSUME NEW q \in Queries, Answer(q) PROVE WorkInv'
  BY <1>12, <1>t DEF Answer, Goto, WriteLog, Send, scratch, maps, disk, addon,
     WorkInv, Busy, Live
<1>13. CASE Wake
  BY <1>13, <1>t DEF Wake, handling, scratch, maps, addon, WorkInv, Busy, Live
<1>14. CASE WriteMap
  BY <1>14, <1>t DEF WriteMap, handling, scratch, maps, addon, WorkInv, Busy, Live
<1>15. CASE WriteNames
  BY <1>15, <1>t DEF WriteNames, handling, scratch, maps, addon, WorkInv, Busy, Live
<1>16. CASE Nap
  BY <1>16, <1>t DEF Nap, handling, scratch, maps, addon, WorkInv, Busy, Live
<1>17. CASE StatMap
  BY <1>17, <1>t DEF StatMap, handling, scratch, maps, disk, WorkInv, Busy, Live
<1>18. CASE OpenMap
  BY <1>18, <1>t DEF OpenMap, handling, scratch, maps, disk, WorkInv, Busy, Live
<1>19. CASE DateMap
  BY <1>19, <1>t DEF DateMap, handling, scratch, maps, disk, WorkInv, Busy, Live
<1>20. CASE UNCHANGED vars
  BY <1>20, <1>t DEF vars, handling, scratch, maps, disk, addon, WorkInv, Busy, Live
<1> QED
  BY <1>1, <1>2, <1>3, <1>4, <1>5, <1>6, <1>7, <1>8, <1>9, <1>10, <1>11, <1>12,
     <1>13, <1>14, <1>15, <1>16, <1>17, <1>18, <1>19, <1>20 DEF Next, Handler, Flusher

(* Only Receive queues a query, and only Handle takes one from the queue.  *)
LEMMA NextQueue == TypeOK /\ TypeOK' /\ QueueInv /\ [Next]_vars => QueueInv'
<1> SUFFICES ASSUME TypeOK, TypeOK', QueueInv, [Next]_vars PROVE QueueInv'
  OBVIOUS
<1>q. /\ queue \in Seq(Queries) /\ Len(queue) \in Nat /\ DOMAIN queue = 1..Len(queue)
      /\ \A i \in DOMAIN queue : queue[i] \in Queries
  BY LenProperties, ElementOfSeq DEF TypeOK
<1>t. phase \in [Queries -> Phases]
  BY DEF TypeOK
<1>m. ASSUME NEW q \in Queries, NEW p, phase' = [phase EXCEPT ![q] = p],
             phase[q] # "queued", queue' = queue
      PROVE  QueueInv'
  <2>1. \A i \in DOMAIN queue : queue[i] # q
    BY <1>m DEF QueueInv
  <2> QED
    BY <1>m, <1>q, <1>t, <2>1 DEF QueueInv
<1>1. ASSUME NEW q \in Queries, Receive(q) PROVE QueueInv'
  <2> DEFINE n == Len(queue)
             r == Append(queue, q)
  <2>1. /\ r \in Seq(Queries) /\ Len(r) = n + 1
        /\ \A i \in 1..n : r[i] = queue[i]
        /\ r[n + 1] = q
    BY <1>q, AppendProperties
  <2>2. /\ queue' = r /\ phase[q] = "unsent"
        /\ phase' = [phase EXCEPT ![q] = "queued"]
    BY <1>1 DEF Receive, Goto
  <2>3. \A i \in 1..n : queue[i] # q
    BY <1>q, <2>2 DEF QueueInv
  <2> HIDE DEF r
  <2>4. DOMAIN r = 1..(n + 1) /\ \A i \in 1..(n + 1) : i \in 1..n \/ i = n + 1
    BY <1>q, <2>1, LenProperties
  <2>5. ASSUME NEW i \in 1..(n + 1) PROVE phase'[r[i]] = "queued"
    <3>1. CASE i \in 1..n
      <4>1. r[i] = queue[i] /\ queue[i] \in Queries /\ phase[queue[i]] = "queued"
        BY <1>q, <2>1, <3>1 DEF QueueInv
      <4> QED
        BY <1>t, <2>2, <4>1
    <3>2. CASE i = n + 1
      BY <1>t, <2>1, <2>2, <3>2
    <3> QED
      BY <2>4, <3>1, <3>2
  <2>6. ASSUME NEW i \in 1..(n + 1), NEW j \in 1..(n + 1), r[i] = r[j] PROVE i = j
    BY <1>q, <2>1, <2>3, <2>4, <2>6 DEF QueueInv
  <2> QED
    BY <2>2, <2>4, <2>5, <2>6 DEF QueueInv
<1>2. ASSUME NEW q \in Queries, Handle(q) PROVE QueueInv'
  <2> DEFINE n == Len(queue)
             r == Tail(queue)
  <2>1. /\ queue' = r /\ queue # <<>> /\ q = queue[1] /\ n # 0
        /\ r \in Seq(Queries) /\ Len(r) = n - 1
        /\ \A i \in 1..(n - 1) : r[i] = queue[i + 1]
    BY <1>q, <1>2, HandleFrame, HeadTailProperties, EmptySeq
  <2>2. \E p : phase' = [phase EXCEPT ![q] = p]
    BY <1>2, HandleEnds DEF Ended, Forwards
  <2> HIDE DEF r
  <2>3. DOMAIN r = 1..(n - 1)
    BY <2>1, LenProperties
  <2>4. ASSUME NEW i \in 1..(n - 1)
        PROVE  phase'[r[i]] = "queued" /\ \A j \in 1..(n - 1) : r[i] = r[j] => i = j
    <3>1. /\ i + 1 \in 1..n /\ 1 \in 1..n /\ i + 1 # 1
          /\ \A j \in 1..(n - 1) : j + 1 \in 1..n /\ (i + 1 = j + 1 => i = j)
      BY <1>q, <2>1
    <3>2. queue[i + 1] # q
      BY <1>q, <2>1, <3>1 DEF QueueInv
    <3>3. phase'[r[i]] = "queued"
      <4>1. r[i] = queue[i + 1] /\ queue[i + 1] \in Queries /\ phase[queue[i + 1]] = "queued"
        BY <1>q, <2>1, <3>1 DEF QueueInv
      <4> QED
        BY <1>t, <2>2, <3>2, <4>1
    <3>4. \A j \in 1..(n - 1) : r[i] = r[j] => i = j
      BY <1>q, <2>1, <3>1 DEF QueueInv
    <3> QED
      BY <3>3, <3>4
  <2> QED
    BY <2>1, <2>3, <2>4 DEF QueueInv
<1>3. ASSUME NEW q \in Queries, Unanswered(q) PROVE QueueInv'
  BY <1>3, <1>m DEF Unanswered, Goto
<1>4. ASSUME NEW q \in Queries, NEW response \in Responses[q], Forwarded(q, response)
      PROVE  QueueInv'
  <2>1. phase[q] = "forwarding" /\ queue' = queue
    BY <1>4, ForwardedFrame
  <2>2. \E p : phase' = [phase EXCEPT ![q] = p]
    BY <1>4, ForwardedKeeps DEF Ended, Keeps
  <2> QED
    BY <1>m, <2>1, <2>2
<1>5. ASSUME NEW q \in Queries, Learn(q) PROVE QueueInv'
  BY <1>5, <1>m DEF Learn, Goto
<1>6. ASSUME NEW q \in Queries, LearnName(q) PROVE QueueInv'
  BY <1>6, <1>m DEF LearnName, Goto
<1>7. ASSUME NEW q \in Queries, Size(q) PROVE QueueInv'
  <2>1. queue' = queue /\ phase[q] # "queued"
    BY <1>7 DEF Size
  <2>2. \E p : phase' = [phase EXCEPT ![q] = p]
    BY <1>7 DEF Size, Goto
  <2> QED
    BY <1>m, <2>1, <2>2
<1>8. ASSUME NEW q \in Queries, Iterate(q) PROVE QueueInv'
  BY <1>8, <1>m DEF Iterate, Goto
<1>9. ASSUME NEW q \in Queries, PickOldest(q) PROVE QueueInv'
  <2>1. queue' = queue /\ phase[q] # "queued"
    BY <1>9 DEF PickOldest
  <2>2. \E p : phase' = [phase EXCEPT ![q] = p]
    BY <1>9 DEF PickOldest, Goto
  <2> QED
    BY <1>m, <2>1, <2>2
<1>10. ASSUME NEW q \in Queries, Evict(q) PROVE QueueInv'
  <2>1. queue' = queue /\ phase[q] # "queued"
    BY <1>10 DEF Evict
  <2>2. \E p : phase' = [phase EXCEPT ![q] = p]
    BY <1>10 DEF Evict, Goto
  <2> QED
    BY <1>m, <2>1, <2>2
<1>11. ASSUME NEW q \in Queries, Publish(q) PROVE QueueInv'
  BY <1>11, <1>m DEF Publish, Goto
<1>12. ASSUME NEW q \in Queries, Answer(q) PROVE QueueInv'
  BY <1>12, <1>m DEF Answer, Goto
<1>13. CASE Wake
  BY <1>13 DEF Wake, handling, scratch, maps, addon, QueueInv
<1>14. CASE WriteMap
  BY <1>14 DEF WriteMap, handling, scratch, maps, addon, QueueInv
<1>15. CASE WriteNames
  BY <1>15 DEF WriteNames, handling, scratch, maps, addon, QueueInv
<1>16. CASE Nap
  BY <1>16 DEF Nap, handling, scratch, maps, addon, QueueInv
<1>17. CASE StatMap
  BY <1>17 DEF StatMap, handling, scratch, maps, disk, QueueInv
<1>18. CASE OpenMap
  BY <1>18 DEF OpenMap, handling, scratch, maps, disk, QueueInv
<1>19. CASE DateMap
  BY <1>19 DEF DateMap, handling, scratch, maps, disk, QueueInv
<1>20. CASE UNCHANGED vars
  BY <1>20 DEF vars, handling, scratch, maps, disk, addon, QueueInv
<1> QED
  BY <1>1, <1>2, <1>3, <1>4, <1>5, <1>6, <1>7, <1>8, <1>9, <1>10, <1>11, <1>12,
     <1>13, <1>14, <1>15, <1>16, <1>17, <1>18, <1>19, <1>20 DEF Next, Handler, Flusher

-----------------------------------------------------------------------------
(* The cap.                                                                *)
LEMMA QueuedHead ==
  ASSUME TypeOK, QueueInv, NEW q \in Queries, Handle(q)
  PROVE  phase[q] = "queued"
<1>1. queue \in Seq(Queries) /\ queue # <<>> /\ q = Head(queue)
  BY HandleFrame DEF TypeOK
<1>2. 1 \in DOMAIN queue /\ q = queue[1]
  BY <1>1, EmptySeq, LenProperties, HeadTailProperties
<1> QED
  BY <1>2 DEF QueueInv

(* A step of a handler that leaves the map and was not able is harmless.   *)
LEMMA CapKept ==
  ASSUME TypeOK, CapInv, NEW q \in Queries, ~Able(q),
         NEW p, phase' = [phase EXCEPT ![q] = p], ipToDomain' = ipToDomain,
         \A o \in Queries \ {q} : used'[o] = used[o] /\ oldest'[o] = oldest[o]
  PROVE  CapInv'
<1> SUFFICES ASSUME Len(ipToDomain) > MaxEntries PROVE \E o \in Queries : Able(o)'
  BY DEF CapInv
<1>1. PICK o \in Queries : Able(o) /\ o # q
  BY DEF CapInv
<1>2. phase'[o] = phase[o]
  BY <1>1 DEF TypeOK
<1>3. Able(o)'
  BY <1>1, <1>2 DEF Able
<1> QED
  BY <1>3

LEMMA NextCap == TypeOK /\ TypeOK' /\ QueueInv /\ CapInv /\ [Next]_vars => CapInv'
<1> SUFFICES ASSUME TypeOK, TypeOK', QueueInv, CapInv, [Next]_vars PROVE CapInv'
  OBVIOUS
<1>t. phase \in [Queries -> Phases] /\ used \in [Queries -> Nat]
      /\ DOMAIN oldest = Queries
  BY DEF TypeOK
<1>n. Len(ipToDomain) \in Nat /\ Len(ipToDomain') \in Nat /\ MaxEntries \in Nat
  BY LenProperties, EntriesAssumption DEF TypeOK
<1>a. ASSUME NEW q \in Queries, Able(q)' PROVE CapInv'
  BY <1>a DEF CapInv
<1>1. ASSUME NEW q \in Queries, Receive(q) PROVE CapInv'
  <2>1. ~Able(q) /\ UNCHANGED <<ipToDomain, used, oldest>>
    BY <1>1 DEF Receive, scratch, maps, Able
  <2>2. phase' = [phase EXCEPT ![q] = phase'[q]]
    BY <1>1, <1>t DEF Receive, Goto
  <2> QED
    BY <2>1, <2>2, CapKept
<1>2. ASSUME NEW q \in Queries, Handle(q) PROVE CapInv'
  <2>1. ~Able(q) /\ UNCHANGED <<ipToDomain, used, oldest>>
    BY <1>2, QueuedHead, HandleFrame DEF Able
  <2>2. \E p : phase' = [phase EXCEPT ![q] = p]
    BY <1>2, HandleEnds DEF Ended, Forwards
  <2> QED
    BY <2>1, <2>2, CapKept
<1>3. ASSUME NEW q \in Queries, Unanswered(q) PROVE CapInv'
  <2>1. ~Able(q) /\ UNCHANGED <<ipToDomain, used, oldest>>
    BY <1>3 DEF Unanswered, scratch, maps, Able
  <2>2. phase' = [phase EXCEPT ![q] = phase'[q]]
    BY <1>3, <1>t DEF Unanswered, Goto
  <2> QED
    BY <2>1, <2>2, CapKept
<1>4. ASSUME NEW q \in Queries, NEW response \in Responses[q], Forwarded(q, response)
      PROVE  CapInv'
  <2>1. ~Able(q) /\ UNCHANGED <<ipToDomain, used, oldest>>
    BY <1>4, ForwardedFrame DEF Able
  <2>2. \E p : phase' = [phase EXCEPT ![q] = p]
    BY <1>4, ForwardedKeeps DEF Ended, Keeps
  <2> QED
    BY <2>1, <2>2, CapKept
<1>5. ASSUME NEW q \in Queries, Learn(q) PROVE CapInv'
  <2>1. phase'[q] = "naming"
    BY <1>5, <1>t DEF Learn, Goto
  <2> QED
    BY <1>a, <2>1 DEF Able
<1>6. ASSUME NEW q \in Queries, LearnName(q) PROVE CapInv'
  <2>1. phase'[q] = "sizing"
    BY <1>6, <1>t DEF LearnName, Goto
  <2> QED
    BY <1>a, <2>1 DEF Able
<1>7. ASSUME NEW q \in Queries, Size(q) PROVE CapInv'
  <2>1. CASE Len(ipToDomain) > MaxEntries
    <3>1. phase'[q] = "iterating"
      BY <1>7, <1>t, <2>1 DEF Size, Goto
    <3> QED
      BY <1>a, <3>1 DEF Able
  <2>2. CASE ~(Len(ipToDomain) > MaxEntries)
    BY <1>7, <2>2 DEF Size, maps, CapInv
  <2> QED
    BY <2>1, <2>2
<1>8. ASSUME NEW q \in Queries, Iterate(q) PROVE CapInv'
  <2>1. phase'[q] = "picking" /\ used'[q] = Len(ipToDomain')
    BY <1>8, <1>t DEF Iterate, Goto, maps
  <2> QED
    BY <1>a, <2>1 DEF Able
<1>9. ASSUME NEW q \in Queries, PickOldest(q) PROVE CapInv'
  <2>1. phase[q] = "picking" /\ ipToDomain' = ipToDomain
        /\ used' = [used EXCEPT ![q] = 0]
    BY <1>9 DEF PickOldest, maps
  <2>2. CASE ipToDomain = <<>>
    BY <1>n, <2>1, <2>2, EmptySeq DEF CapInv
  <2>3. CASE ipToDomain # <<>> /\ Len(ipToDomain) # used[q]
    <3>1. phase' = [phase EXCEPT ![q] = "raised"] /\ oldest' = oldest
      BY <1>9, <2>3 DEF PickOldest, Goto
    <3>2. ~Able(q)
      BY <2>1, <2>3 DEF Able
    <3>3. \A o \in Queries \ {q} : used'[o] = used[o] /\ oldest'[o] = oldest[o]
      BY <1>t, <2>1, <3>1
    <3> QED
      BY <2>1, <3>1, <3>2, <3>3, CapKept
  <2>4. CASE ipToDomain # <<>> /\ Len(ipToDomain) = used[q]
    <3>1. phase'[q] = "evicting" /\ oldest'[q] = Head(ipToDomain).ip
      BY <1>9, <1>t, <2>4 DEF PickOldest, Goto
    <3>2. ipToDomain \in Seq(Entries) /\ ipToDomain # <<>>
      BY <2>4 DEF TypeOK
    <3>3. 1 \in DOMAIN ipToDomain /\ Head(ipToDomain) = ipToDomain[1]
      BY <3>2, EmptySeq, LenProperties, HeadTailProperties
    <3>4. Head(ipToDomain) \in Range(ipToDomain')
      BY <2>1, <3>3 DEF Range
    <3> QED
      BY <1>a, <3>1, <3>4 DEF Able
  <2> QED
    BY <2>2, <2>3, <2>4
<1>10. ASSUME NEW q \in Queries, Evict(q) PROVE CapInv'
  <2>1. CASE \E p \in Range(ipToDomain) : p.ip = oldest[q]
    <3>1. phase'[q] = "sizing"
      BY <1>10, <1>t, <2>1 DEF Evict, Goto
    <3> QED
      BY <1>a, <3>1 DEF Able
  <2>2. CASE ~\E p \in Range(ipToDomain) : p.ip = oldest[q]
    <3>1. /\ phase[q] = "evicting" /\ phase' = [phase EXCEPT ![q] = "raised"]
          /\ ipToDomain' = ipToDomain /\ used' = used
          /\ oldest' = [oldest EXCEPT ![q] = "none"]
      BY <1>10, <2>2 DEF Evict, Goto, maps
    <3>2. ~Able(q)
      BY <2>2, <3>1 DEF Able
    <3>3. \A o \in Queries \ {q} : used'[o] = used[o] /\ oldest'[o] = oldest[o]
      BY <1>t, <3>1
    <3> QED
      BY <3>1, <3>2, <3>3, CapKept
  <2> QED
    BY <2>1, <2>2
<1>11. ASSUME NEW q \in Queries, Publish(q) PROVE CapInv'
  <2>1. ~Able(q) /\ UNCHANGED <<ipToDomain, used, oldest>>
    BY <1>11 DEF Publish, scratch, maps, Able
  <2>2. phase' = [phase EXCEPT ![q] = phase'[q]]
    BY <1>11, <1>t DEF Publish, Goto
  <2> QED
    BY <2>1, <2>2, CapKept
<1>12. ASSUME NEW q \in Queries, Answer(q) PROVE CapInv'
  <2>1. ~Able(q) /\ UNCHANGED <<ipToDomain, used, oldest>>
    BY <1>12 DEF Answer, scratch, maps, Able
  <2>2. phase' = [phase EXCEPT ![q] = phase'[q]]
    BY <1>12, <1>t DEF Answer, Goto
  <2> QED
    BY <2>1, <2>2, CapKept
<1>13. CASE Wake
  BY <1>13 DEF Wake, handling, scratch, maps, addon, CapInv, Able
<1>14. CASE WriteMap
  BY <1>14 DEF WriteMap, handling, scratch, maps, addon, CapInv, Able
<1>15. CASE WriteNames
  BY <1>15 DEF WriteNames, handling, scratch, maps, addon, CapInv, Able
<1>16. CASE Nap
  BY <1>16 DEF Nap, handling, scratch, maps, addon, CapInv, Able
<1>17. CASE StatMap
  BY <1>17 DEF StatMap, handling, scratch, maps, disk, CapInv, Able
<1>18. CASE OpenMap
  BY <1>18 DEF OpenMap, handling, scratch, maps, disk, CapInv, Able
<1>19. CASE DateMap
  BY <1>19 DEF DateMap, handling, scratch, maps, disk, CapInv, Able
<1>20. CASE UNCHANGED vars
  BY <1>20 DEF vars, handling, scratch, maps, disk, addon, CapInv, Able
<1> QED
  BY <1>1, <1>2, <1>3, <1>4, <1>5, <1>6, <1>7, <1>8, <1>9, <1>10, <1>11, <1>12,
     <1>13, <1>14, <1>15, <1>16, <1>17, <1>18, <1>19, <1>20 DEF Next, Handler, Flusher

-----------------------------------------------------------------------------
(* The files.                                                              *)
Away(q) == ~Remembering(q) /\ phase[q] # "raised"

LEMMA NextDisk == TypeOK /\ TypeOK' /\ QueueInv /\ DiskInv /\ [Next]_vars => DiskInv'
<1> SUFFICES ASSUME TypeOK, TypeOK', QueueInv, DiskInv, [Next]_vars PROVE DiskInv'
  OBVIOUS
<1>t. phase \in [Queries -> Phases]
  BY DEF TypeOK
<1>k. ASSUME NEW q \in Queries, Away(q), NEW p, phase' = [phase EXCEPT ![q] = p],
             UNCHANGED <<ipToDomain, ipNames, dirty, flusher, mapFile, namesFile>>
      PROVE  DiskInv'
  <2>1. Settled' => Settled
    <3> SUFFICES ASSUME Settled', NEW o \in Queries PROVE Away(o)
      BY DEF Settled, Away
    <3>1. CASE o = q
      BY <1>k, <3>1
    <3>2. CASE o # q
      <4>1. phase'[o] = phase[o]
        BY <1>k, <1>t, <3>2
      <4> QED
        BY <4>1 DEF Settled, Remembering, Away
    <3> QED
      BY <3>1, <3>2
  <2> QED
    BY <1>k, <2>1 DEF DiskInv
<1>b. ASSUME NEW q \in Queries,
             phase'[q] \in {"naming", "sizing", "iterating", "picking", "evicting",
                            "learning", "publishing", "raised"}
      PROVE  DiskInv'
  BY <1>b DEF DiskInv, Settled, Remembering
<1>1. ASSUME NEW q \in Queries, Receive(q) PROVE DiskInv'
  <2>1. Away(q) /\ UNCHANGED <<ipToDomain, ipNames, dirty, flusher, mapFile, namesFile>>
    BY <1>1 DEF Receive, maps, disk, Away, Remembering
  <2>2. phase' = [phase EXCEPT ![q] = phase'[q]]
    BY <1>1, <1>t DEF Receive, Goto
  <2> QED
    BY <1>k, <2>1, <2>2
<1>2. ASSUME NEW q \in Queries, Handle(q) PROVE DiskInv'
  <2>1. Away(q) /\ UNCHANGED <<ipToDomain, ipNames, dirty, flusher, mapFile, namesFile>>
    BY <1>2, QueuedHead, HandleFrame DEF Away, Remembering
  <2>2. \E p : phase' = [phase EXCEPT ![q] = p]
    BY <1>2, HandleEnds DEF Ended, Forwards
  <2> QED
    BY <1>k, <2>1, <2>2
<1>3. ASSUME NEW q \in Queries, Unanswered(q) PROVE DiskInv'
  <2>1. Away(q) /\ UNCHANGED <<ipToDomain, ipNames, dirty, flusher, mapFile, namesFile>>
    BY <1>3 DEF Unanswered, maps, disk, Away, Remembering
  <2>2. phase' = [phase EXCEPT ![q] = phase'[q]]
    BY <1>3, <1>t DEF Unanswered, Goto
  <2> QED
    BY <1>k, <2>1, <2>2
<1>4. ASSUME NEW q \in Queries, NEW response \in Responses[q], Forwarded(q, response)
      PROVE  DiskInv'
  <2>1. Away(q) /\ UNCHANGED <<ipToDomain, ipNames, dirty, flusher, mapFile, namesFile>>
    BY <1>4, ForwardedFrame DEF Away, Remembering
  <2>2. \E p : phase' = [phase EXCEPT ![q] = p]
    BY <1>4, ForwardedKeeps DEF Ended, Keeps
  <2> QED
    BY <1>k, <2>1, <2>2
<1>5. ASSUME NEW q \in Queries, Learn(q) PROVE DiskInv'
  BY <1>5, <1>b, <1>t DEF Learn, Goto
<1>6. ASSUME NEW q \in Queries, LearnName(q) PROVE DiskInv'
  BY <1>6, <1>b, <1>t DEF LearnName, Goto
<1>7. ASSUME NEW q \in Queries, Size(q) PROVE DiskInv'
  BY <1>7, <1>b, <1>t DEF Size, Goto
<1>8. ASSUME NEW q \in Queries, Iterate(q) PROVE DiskInv'
  BY <1>8, <1>b, <1>t DEF Iterate, Goto
<1>9. ASSUME NEW q \in Queries, PickOldest(q) PROVE DiskInv'
  BY <1>9, <1>b, <1>t DEF PickOldest, Goto
<1>10. ASSUME NEW q \in Queries, Evict(q) PROVE DiskInv'
  BY <1>10, <1>b, <1>t DEF Evict, Goto
<1>11. ASSUME NEW q \in Queries, Publish(q) PROVE DiskInv'
  BY <1>11 DEF Publish, DiskInv
<1>12. ASSUME NEW q \in Queries, Answer(q) PROVE DiskInv'
  <2>1. Away(q) /\ UNCHANGED <<ipToDomain, ipNames, dirty, flusher, mapFile, namesFile>>
    BY <1>12 DEF Answer, maps, disk, Away, Remembering
  <2>2. phase' = [phase EXCEPT ![q] = phase'[q]]
    BY <1>12, <1>t DEF Answer, Goto
  <2> QED
    BY <1>k, <2>1, <2>2
<1>13. CASE Wake
  BY <1>13 DEF Wake, handling, scratch, maps, addon, DiskInv, Settled, Remembering
<1>14. CASE WriteMap
  BY <1>14 DEF WriteMap, handling, scratch, maps, addon, DiskInv, Settled, Remembering
<1>15. CASE WriteNames
  BY <1>15 DEF WriteNames, handling, scratch, maps, addon, DiskInv, Settled,
     Remembering
<1>16. CASE Nap
  BY <1>16 DEF Nap, handling, scratch, maps, addon, DiskInv, Settled, Remembering
<1>17. CASE StatMap
  BY <1>17 DEF StatMap, handling, scratch, maps, disk, DiskInv, Settled, Remembering
<1>18. CASE OpenMap
  BY <1>18 DEF OpenMap, handling, scratch, maps, disk, DiskInv, Settled, Remembering
<1>19. CASE DateMap
  BY <1>19 DEF DateMap, handling, scratch, maps, disk, DiskInv, Settled, Remembering
<1>20. CASE UNCHANGED vars
  BY <1>20 DEF vars, handling, scratch, maps, disk, addon, DiskInv, Settled,
     Remembering
<1> QED
  BY <1>1, <1>2, <1>3, <1>4, <1>5, <1>6, <1>7, <1>8, <1>9, <1>10, <1>11, <1>12,
     <1>13, <1>14, <1>15, <1>16, <1>17, <1>18, <1>19, <1>20 DEF Next, Handler, Flusher

(* The addon's copy.                                                       *)
LEMMA NextCache == TypeOK /\ CacheInv /\ [Next]_vars => CacheInv'
<1> SUFFICES ASSUME TypeOK, CacheInv, [Next]_vars PROVE CacheInv'
  OBVIOUS
<1>t. version \in Nat /\ statted \in Nat /\ mtime \in Nat
  BY DEF TypeOK
<1>k. ASSUME UNCHANGED <<version, mapFile, reader, statted, mtime, cache>> PROVE CacheInv'
  BY <1>k DEF CacheInv, CachedMapIsCurrent
<1>1. ASSUME NEW q \in Queries, Receive(q) PROVE CacheInv'
  BY <1>1, <1>k DEF Receive, disk, addon
<1>2. ASSUME NEW q \in Queries, Handle(q) PROVE CacheInv'
  BY <1>2, <1>k, HandleFrame
<1>3. ASSUME NEW q \in Queries, Unanswered(q) PROVE CacheInv'
  BY <1>3, <1>k DEF Unanswered, disk, addon
<1>4. ASSUME NEW q \in Queries, NEW response \in Responses[q], Forwarded(q, response)
      PROVE  CacheInv'
  BY <1>4, <1>k, ForwardedFrame
<1>5. ASSUME NEW q \in Queries, Learn(q) PROVE CacheInv'
  BY <1>5, <1>k DEF Learn, disk, addon
<1>6. ASSUME NEW q \in Queries, LearnName(q) PROVE CacheInv'
  BY <1>6, <1>k DEF LearnName, disk, addon
<1>7. ASSUME NEW q \in Queries, Size(q) PROVE CacheInv'
  BY <1>7, <1>k DEF Size, disk, addon
<1>8. ASSUME NEW q \in Queries, Iterate(q) PROVE CacheInv'
  BY <1>8, <1>k DEF Iterate, disk, addon
<1>9. ASSUME NEW q \in Queries, PickOldest(q) PROVE CacheInv'
  BY <1>9, <1>k DEF PickOldest, disk, addon
<1>10. ASSUME NEW q \in Queries, Evict(q) PROVE CacheInv'
  BY <1>10, <1>k DEF Evict, disk, addon
<1>11. ASSUME NEW q \in Queries, Publish(q) PROVE CacheInv'
  BY <1>11, <1>k DEF Publish, disk, addon
<1>12. ASSUME NEW q \in Queries, Answer(q) PROVE CacheInv'
  BY <1>12, <1>k DEF Answer, disk, addon
<1>13. CASE Wake
  BY <1>13, <1>k DEF Wake, addon
<1>14. CASE WriteMap
  BY <1>14, <1>t DEF WriteMap, handling, scratch, maps, addon, CacheInv,
     CachedMapIsCurrent
<1>15. CASE WriteNames
  BY <1>15, <1>k DEF WriteNames, addon
<1>16. CASE Nap
  BY <1>16, <1>k DEF Nap, addon
<1>17. CASE StatMap
  BY <1>17, <1>t DEF StatMap, handling, scratch, maps, disk, CacheInv, CachedMapIsCurrent
<1>18. CASE OpenMap
  BY <1>18, <1>t DEF OpenMap, handling, scratch, maps, disk, CacheInv, CachedMapIsCurrent
<1>19. CASE DateMap
  BY <1>19, <1>t DEF DateMap, handling, scratch, maps, disk, CacheInv, CachedMapIsCurrent
<1>20. CASE UNCHANGED vars
  BY <1>20, <1>k DEF vars, disk, addon
<1> QED
  BY <1>1, <1>2, <1>3, <1>4, <1>5, <1>6, <1>7, <1>8, <1>9, <1>10, <1>11, <1>12,
     <1>13, <1>14, <1>15, <1>16, <1>17, <1>18, <1>19, <1>20 DEF Next, Handler, Flusher

-----------------------------------------------------------------------------
(* What was judged.                                                        *)
LEMMA InitJudged == Init => JudgedInv
<1> SUFFICES ASSUME Init PROVE JudgedInv
  OBVIOUS
<1>1. Range(<<>>) = {}
  BY DEF Range
<1>2. \A q \in Queries : Judged(q)
  BY DEF Init, Judged, Live, Busy
<1>3. Range(ipToDomain) \cup mapFile \cup cache = {}
  BY <1>1 DEF Init
<1> QED
  BY <1>2, <1>3 DEF JudgedInv

(* A step of one handler: the others are judged as they were.              *)
LEMMA JudgedKept ==
  ASSUME TypeOK, JudgedInv, mode = "enforce", NEW q \in Queries,
         \A o \in Queries \ {q} : /\ phase'[o] = phase[o] /\ status'[o] = status[o]
                                  /\ todo'[o] = todo[o] /\ log'[o] = log[o]
                                  /\ reply'[o] = reply[o],
         Judged(q)',
         \A p \in Range(ipToDomain)' \cup mapFile' \cup cache' :
           p \in Range(ipToDomain) \cup mapFile \cup cache \/ Fit(p.name, p.ip)
  PROVE  JudgedInv'
<1>1. \A o \in Queries : Judged(o)'
  <2> SUFFICES ASSUME NEW o \in Queries, o # q PROVE Judged(o)'
    OBVIOUS
  <2>1. /\ phase'[o] = phase[o] /\ status'[o] = status[o] /\ todo'[o] = todo[o]
        /\ log'[o] = log[o] /\ reply'[o] = reply[o]
    OBVIOUS
  <2>2. Judged(o)
    BY DEF JudgedInv
  <2> QED
    BY <2>1, <2>2 DEF Judged
<1>2. \A p \in Range(ipToDomain)' \cup mapFile' \cup cache' : Fit(p.name, p.ip)
  BY DEF JudgedInv
<1> QED
  BY <1>1, <1>2 DEF JudgedInv

LEMMA EndedJudged ==
  ASSUME TypeOK, JudgedInv, mode = "enforce", NEW q \in Queries, Ended(q), todo' = todo,
         UNCHANGED <<ipToDomain, mapFile, cache>>
  PROVE  JudgedInv'
<1>t. /\ phase \in [Queries -> Phases] /\ DOMAIN log = Queries /\ DOMAIN reply = Queries
  BY DEF TypeOK
<1>1. PICK records \in {<<>>, <<"blocked">>, <<"allowed">>},
           answer \in {"formerr", "none", "nxdomain", "nodata"} :
        /\ log'   = [log EXCEPT ![q] = log[q] \o records]
        /\ reply' = [reply EXCEPT ![q] = answer]
        /\ phase' = [phase EXCEPT ![q] = "done"]
        /\ status' = status
  BY DEF Ended
<1>2. phase'[q] = "done" /\ reply'[q] # "answer"
  BY <1>t, <1>1
<1>3. Judged(q)'
  BY <1>2 DEF Judged, Live, Busy
<1>4. \A o \in Queries \ {q} : /\ phase'[o] = phase[o] /\ status'[o] = status[o]
                               /\ todo'[o] = todo[o] /\ log'[o] = log[o]
                               /\ reply'[o] = reply[o]
  BY <1>t, <1>1
<1>5. \A p \in Range(ipToDomain)' \cup mapFile' \cup cache' :
        p \in Range(ipToDomain) \cup mapFile \cup cache
  OBVIOUS
<1> QED
  BY <1>3, <1>4, <1>5, JudgedKept

LEMMA NextJudged ==
  TypeOK /\ TypeOK' /\ WorkInv /\ QueueInv /\ JudgedInv /\ [Next]_vars => JudgedInv'
<1> SUFFICES ASSUME TypeOK, TypeOK', WorkInv, QueueInv, JudgedInv, [Next]_vars,
                    mode' = "enforce"
             PROVE  JudgedInv'
  BY DEF JudgedInv
<1>t. /\ phase \in [Queries -> Phases] /\ todo \in [Queries -> Seq(Ips)]
      /\ DOMAIN status = Queries /\ DOMAIN log = Queries /\ DOMAIN reply = Queries
  BY DEF TypeOK
<1>j. mode = "enforce" => /\ \A q \in Queries : Judged(q)
                          /\ \A p \in Range(ipToDomain) \cup mapFile \cup cache :
                               Fit(p.name, p.ip)
  BY DEF JudgedInv
<1>o. ASSUME NEW q \in Queries, mode = "enforce",
             NEW p, phase' = [phase EXCEPT ![q] = p],
             UNCHANGED <<status, todo, log, reply>>,
             p \in Live \cup {"unsent", "queued"}
               => phase[q] \in Live \cup {"unsent", "queued"},
             p \in Live => phase[q] \in Live,
             p \in Live \ {"forwarding"} => phase[q] \in Live \ {"forwarding"},
             \A x \in Range(ipToDomain)' \cup mapFile' \cup cache' :
               x \in Range(ipToDomain) \cup mapFile \cup cache \/ Fit(x.name, x.ip)
      PROVE  JudgedInv'
  <2>1. phase'[q] = p /\ \A o \in Queries \ {q} : phase'[o] = phase[o]
    BY <1>o, <1>t
  <2>2. Judged(q)
    BY <1>o, <1>j
  <2>3. Judged(q)'
    BY <1>o, <2>1, <2>2 DEF Judged, Entry
  <2> QED
    BY <1>o, <2>1, <2>3, JudgedKept
<1>m. ASSUME UNCHANGED <<mode, phase, status, todo, log, reply>>,
             Range(ipToDomain)' \cup mapFile' \cup cache'
               \subseteq Range(ipToDomain) \cup mapFile \cup cache
      PROVE  JudgedInv'
  <2>1. \A q \in Queries : Judged(q)'
    BY <1>j, <1>m DEF Judged, Entry
  <2> QED
    BY <1>j, <1>m, <2>1 DEF JudgedInv
<1>1. ASSUME NEW q \in Queries, Receive(q) PROVE JudgedInv'
  <2>1. /\ phase[q] = "unsent" /\ phase' = [phase EXCEPT ![q] = "queued"]
        /\ UNCHANGED <<mode, status, todo, log, reply, ipToDomain, mapFile, cache>>
    BY <1>1 DEF Receive, Goto, maps, disk, addon
  <2> QED
    BY <1>o, <2>1 DEF Live, Busy
<1>2. ASSUME NEW q \in Queries, Handle(q) PROVE JudgedInv'
  <2>1. /\ UNCHANGED <<mode, todo, ipToDomain, mapFile, cache>> /\ phase[q] = "queued"
    BY <1>2, HandleFrame, QueuedHead
  <2>2. CASE Ended(q)
    BY <2>1, <2>2, EndedJudged
  <2>3. CASE Forwards(q)
    <3>1. /\ phase' = [phase EXCEPT ![q] = "forwarding"] /\ log' = log /\ reply' = reply
          /\ status' = [status EXCEPT ![q] = Evaluated(q)]
          /\ Evaluated(q) \in {"allowed", "would_block"}
      BY <2>3 DEF Forwards
    <3>2. Evaluated(q) = "allowed" /\ Allows(Policy, Entry(q))
      BY <2>1, <3>1, EvaluatedOfMode
    <3>3. Judged(q)
      BY <1>j, <2>1
    <3>4. phase'[q] = "forwarding" /\ status'[q] = "allowed"
      BY <1>t, <3>1, <3>2
    <3>5. Judged(q)'
      BY <2>1, <3>1, <3>2, <3>3, <3>4 DEF Judged, Live, Busy
    <3>6. \A o \in Queries \ {q} : /\ phase'[o] = phase[o] /\ status'[o] = status[o]
                                   /\ todo'[o] = todo[o] /\ log'[o] = log[o]
                                   /\ reply'[o] = reply[o]
      BY <1>t, <2>1, <3>1
    <3> QED
      BY <2>1, <3>5, <3>6, JudgedKept
  <2> QED
    BY <1>2, <2>2, <2>3, HandleEnds
<1>3. ASSUME NEW q \in Queries, Unanswered(q) PROVE JudgedInv'
  <2>1. /\ phase' = [phase EXCEPT ![q] = "done"] /\ phase[q] = "forwarding"
        /\ log' = [log EXCEPT ![q] = Append(log[q], status[q])]
        /\ UNCHANGED <<mode, status, todo, reply, ipToDomain, mapFile, cache>>
    BY <1>3 DEF Unanswered, WriteLog, Goto, maps, disk, addon
  <2>2. Judged(q)
    BY <1>j, <2>1
  <2>3. reply[q] = "none"
    BY <2>1, <2>2 DEF Judged, Live
  <2>4. phase'[q] = "done" /\ reply'[q] = "none"
    BY <1>t, <2>1, <2>3
  <2>5. Judged(q)'
    BY <2>4 DEF Judged, Live, Busy
  <2>6. \A o \in Queries \ {q} : /\ phase'[o] = phase[o] /\ status'[o] = status[o]
                                 /\ todo'[o] = todo[o] /\ log'[o] = log[o]
                                 /\ reply'[o] = reply[o]
    BY <1>t, <2>1
  <2> QED
    BY <2>1, <2>5, <2>6, JudgedKept
<1>4. ASSUME NEW q \in Queries, NEW response \in Responses[q], Forwarded(q, response)
      PROVE  JudgedInv'
  <2>1. /\ UNCHANGED <<mode, ipToDomain, mapFile, cache>> /\ phase[q] = "forwarding"
    BY <1>4, ForwardedFrame
  <2>2. CASE Ended(q) /\ todo' = todo
    BY <2>1, <2>2, EndedJudged
  <2>3. CASE Keeps(q, response)
    <3>1. /\ ~InternalAnswer(q, response) /\ status' = status
          /\ todo' = [todo EXCEPT ![q] = response.a] /\ log' = log /\ reply' = reply
          /\ phase' = [phase EXCEPT ![q] = IF response.a = <<>> THEN "answering"
                                           ELSE "learning"]
      BY <2>1, <2>3 DEF Keeps
    <3>2. Judged(q)
      BY <1>j, <2>1
    <3>3. /\ status[q] = "allowed" /\ Allows(Policy, Entry(q))
          /\ log[q] = <<>> /\ reply[q] = "none"
      BY <2>1, <3>2 DEF Judged, Live
    <3>4. \A ip \in Range(response.a \o response.aaaa) :
            ~InternalIpViolation(Policy, Entry(q), ip)
      BY <2>1, <3>1, <3>3 DEF InternalAnswer
    <3>5. Range(response.a) \subseteq Range(response.a \o response.aaaa)
      BY ResponsesAssumption, RangeConcatenation
    <3>6. \A ip \in Range(response.a) : Fit(NameOf[q], ip)
      BY <3>3, <3>4, <3>5 DEF Fit, Entry
    <3>7. phase'[q] \in {"answering", "learning"} /\ todo'[q] = response.a
      BY <1>t, <3>1
    <3>8. Judged(q)'
      BY <3>1, <3>3, <3>6, <3>7 DEF Judged
    <3>9. \A o \in Queries \ {q} : /\ phase'[o] = phase[o] /\ status'[o] = status[o]
                                   /\ todo'[o] = todo[o] /\ log'[o] = log[o]
                                   /\ reply'[o] = reply[o]
      BY <1>t, <3>1
    <3> QED
      BY <2>1, <3>8, <3>9, JudgedKept
  <2> QED
    BY <1>4, <2>2, <2>3, ForwardedKeeps
<1>5. ASSUME NEW q \in Queries, Learn(q) PROVE JudgedInv'
  <2> DEFINE ip  == Head(todo[q])
             new == [ip |-> ip, name |-> NameOf[q]]
  <2>1. /\ phase' = [phase EXCEPT ![q] = "naming"] /\ phase[q] = "learning"
        /\ ipToDomain' = Append(Without(ip), new)
        /\ UNCHANGED <<mode, status, todo, log, reply, mapFile, cache>>
    BY <1>5 DEF Learn, Goto, disk, addon
  <2>2. todo[q] \in Seq(Ips) /\ todo[q] # <<>>
    BY <1>t, <2>1 DEF WorkInv, Busy
  <2>3. ip \in Ips /\ ip \in Range(todo[q])
    <3>1. ip \in Ips /\ ip = todo[q][1] /\ 1 \in DOMAIN todo[q]
      BY <2>2, HeadTailProperties, EmptySeq, LenProperties
    <3> QED
      BY <3>1 DEF Range
  <2>4. Judged(q)
    BY <1>j, <2>1
  <2>5. Fit(NameOf[q], ip)
    BY <2>1, <2>3, <2>4 DEF Judged, Live, Busy
  <2>6. /\ Without(ip) \in Seq(Entries) /\ Range(Without(ip)) \subseteq Range(ipToDomain)
    BY DropTyped DEF Without, TypeOK
  <2>7. new \in Entries
    BY <2>3, NameOfAssumption DEF Entries
  <2>8. Range(ipToDomain)' = Range(Without(ip)) \cup {new}
    BY <2>1, <2>6, <2>7, AppendRange
  <2>9. new.name = NameOf[q] /\ new.ip = ip
    OBVIOUS
  <2> HIDE DEF new, ip
  <2>10. \A x \in Range(ipToDomain)' \cup mapFile' \cup cache' :
           x \in Range(ipToDomain) \cup mapFile \cup cache \/ Fit(x.name, x.ip)
    BY <2>1, <2>5, <2>6, <2>8, <2>9
  <2> QED
    BY <1>o, <2>1, <2>10 DEF Live, Busy
<1>6. ASSUME NEW q \in Queries, LearnName(q) PROVE JudgedInv'
  <2>1. /\ phase[q] = "naming" /\ phase' = [phase EXCEPT ![q] = "sizing"]
        /\ UNCHANGED <<mode, status, todo, log, reply, ipToDomain, mapFile, cache>>
    BY <1>6 DEF LearnName, Goto, disk, addon
  <2> QED
    BY <1>o, <2>1 DEF Live, Busy
<1>7. ASSUME NEW q \in Queries, Size(q) PROVE JudgedInv'
  <2>1. phase[q] = "sizing" /\ UNCHANGED <<mode, status, log, reply, ipToDomain, mapFile, cache>>
    BY <1>7 DEF Size, maps, disk, addon
  <2>2. CASE Len(ipToDomain) > MaxEntries
    <3>1. todo' = todo /\ phase' = [phase EXCEPT ![q] = "iterating"]
      BY <1>7, <2>2 DEF Size, Goto
    <3> QED
      BY <1>o, <2>1, <3>1 DEF Live, Busy
  <2>3. CASE ~(Len(ipToDomain) > MaxEntries)
    <3>1. PICK p \in {"publishing", "learning"} :
            /\ todo' = [todo EXCEPT ![q] = Tail(todo[q])]
            /\ phase' = [phase EXCEPT ![q] = p]
      BY <1>7, <2>3 DEF Size, Goto
    <3>2. todo[q] \in Seq(Ips) /\ todo[q] # <<>>
      BY <1>t, <2>1 DEF WorkInv, Busy
    <3>3. Range(Tail(todo[q])) \subseteq Range(todo[q])
      <4>1. /\ Tail(todo[q]) \in Seq(Ips) /\ Len(todo[q]) \in Nat \ {0}
            /\ Len(Tail(todo[q])) = Len(todo[q]) - 1
            /\ \A i \in 1..Len(Tail(todo[q])) : Tail(todo[q])[i] = todo[q][i + 1]
        BY <3>2, HeadTailProperties, EmptySeq
      <4>2. /\ DOMAIN Tail(todo[q]) = 1..Len(Tail(todo[q]))
            /\ DOMAIN todo[q] = 1..Len(todo[q])
        BY <3>2, <4>1, LenProperties
      <4>3. \A i \in 1..Len(Tail(todo[q])) : i + 1 \in 1..Len(todo[q])
        BY <4>1
      <4> QED
        BY <4>1, <4>2, <4>3 DEF Range
    <3>4. /\ phase'[q] = p /\ todo'[q] = Tail(todo[q])
          /\ \A o \in Queries \ {q} : phase'[o] = phase[o] /\ todo'[o] = todo[o]
      BY <1>t, <3>1
    <3>5. Judged(q)
      BY <1>j, <2>1
    <3>6. Judged(q)'
      BY <2>1, <3>3, <3>4, <3>5 DEF Judged, Live, Busy
    <3> QED
      BY <2>1, <3>4, <3>6, JudgedKept
  <2> QED
    BY <2>2, <2>3
<1>8. ASSUME NEW q \in Queries, Iterate(q) PROVE JudgedInv'
  <2>1. /\ phase[q] = "iterating" /\ phase' = [phase EXCEPT ![q] = "picking"]
        /\ UNCHANGED <<mode, status, todo, log, reply, ipToDomain, mapFile, cache>>
    BY <1>8 DEF Iterate, Goto, maps, disk, addon
  <2> QED
    BY <1>o, <2>1 DEF Live, Busy
<1>9. ASSUME NEW q \in Queries, PickOldest(q) PROVE JudgedInv'
  <2>1. /\ phase[q] = "picking"
        /\ UNCHANGED <<mode, status, todo, log, reply, ipToDomain, mapFile, cache>>
    BY <1>9 DEF PickOldest, maps, disk, addon
  <2>2. PICK p \in {"evicting", "raised"} : phase' = [phase EXCEPT ![q] = p]
    BY <1>9 DEF PickOldest, Goto
  <2> QED
    BY <1>o, <2>1, <2>2 DEF Live, Busy
<1>10. ASSUME NEW q \in Queries, Evict(q) PROVE JudgedInv'
  <2>1. /\ phase[q] = "evicting"
        /\ UNCHANGED <<mode, status, todo, log, reply, mapFile, cache>>
        /\ ipToDomain' \in {ipToDomain, Without(oldest[q])}
    BY <1>10 DEF Evict, maps, disk, addon
  <2>2. PICK p \in {"sizing", "raised"} : phase' = [phase EXCEPT ![q] = p]
    BY <1>10 DEF Evict, Goto
  <2>3. Range(Without(oldest[q])) \subseteq Range(ipToDomain)
    BY DropTyped DEF Without, TypeOK
  <2>4. \A x \in Range(ipToDomain)' \cup mapFile' \cup cache' :
          x \in Range(ipToDomain) \cup mapFile \cup cache
    BY <2>1, <2>3
  <2> QED
    BY <1>o, <2>1, <2>2, <2>4 DEF Live, Busy
<1>11. ASSUME NEW q \in Queries, Publish(q) PROVE JudgedInv'
  <2>1. /\ phase[q] = "publishing" /\ phase' = [phase EXCEPT ![q] = "answering"]
        /\ UNCHANGED <<mode, status, todo, log, reply, ipToDomain, mapFile, cache>>
    BY <1>11 DEF Publish, Goto, maps, disk, addon
  <2> QED
    BY <1>o, <2>1 DEF Live, Busy
<1>12. ASSUME NEW q \in Queries, Answer(q) PROVE JudgedInv'
  <2>1. /\ phase' = [phase EXCEPT ![q] = "done"] /\ phase[q] = "answering"
        /\ log' = [log EXCEPT ![q] = Append(log[q], status[q])]
        /\ reply' = [reply EXCEPT ![q] = "answer"]
        /\ UNCHANGED <<mode, status, todo, ipToDomain, mapFile, cache>>
    BY <1>12 DEF Answer, WriteLog, Send, Goto, maps, disk, addon
  <2>2. Judged(q)
    BY <1>j, <2>1
  <2>3. log[q] = <<>> /\ status[q] = "allowed"
    BY <2>1, <2>2 DEF Judged, Live
  <2>4. Append(<<>>, "allowed") = <<"allowed">>
    OBVIOUS
  <2>5. phase'[q] = "done" /\ log'[q] = <<"allowed">>
    BY <1>t, <2>1, <2>3, <2>4
  <2>6. Judged(q)'
    BY <2>5 DEF Judged, Live, Busy
  <2>7. \A o \in Queries \ {q} : /\ phase'[o] = phase[o] /\ status'[o] = status[o]
                                 /\ todo'[o] = todo[o] /\ log'[o] = log[o]
                                 /\ reply'[o] = reply[o]
    BY <1>t, <2>1
  <2> QED
    BY <2>1, <2>6, <2>7, JudgedKept
<1>13. CASE Wake
  BY <1>13, <1>m DEF Wake, handling, maps, addon
<1>14. CASE WriteMap
  BY <1>14, <1>m DEF WriteMap, handling, maps, addon
<1>15. CASE WriteNames
  BY <1>15, <1>m DEF WriteNames, handling, maps, addon
<1>16. CASE Nap
  BY <1>16, <1>m DEF Nap, handling, maps, addon
<1>17. CASE StatMap
  BY <1>17, <1>m DEF StatMap, handling, maps, disk
<1>18. CASE OpenMap
  BY <1>18, <1>m DEF OpenMap, handling, maps, disk
<1>19. CASE DateMap
  BY <1>19, <1>m DEF DateMap, handling, maps, disk
<1>20. CASE UNCHANGED vars
  BY <1>20, <1>m DEF vars, handling, maps, disk, addon
<1> QED
  BY <1>1, <1>2, <1>3, <1>4, <1>5, <1>6, <1>7, <1>8, <1>9, <1>10, <1>11, <1>12,
     <1>13, <1>14, <1>15, <1>16, <1>17, <1>18, <1>19, <1>20 DEF Next, Handler, Flusher

-----------------------------------------------------------------------------
(* One entry per key.                                                      *)

(* What is left after dropping the only place of a key keeps its order.    *)
LEMMA DropOnly ==
  ASSUME NEW S, NEW s \in Seq(S), NEW places \in SUBSET DOMAIN s,
         \A i, j \in places : i = j
  PROVE  \E from :
           \A i \in DOMAIN Drop(s, places) :
             /\ from[i] \in DOMAIN s \ places
             /\ Drop(s, places)[i] = s[from[i]]
             /\ \A j \in DOMAIN Drop(s, places) : from[i] = from[j] => i = j
<1>1. CASE places = {}
  <2>1. Drop(s, places) = s
    BY <1>1 DEF Drop
  <2> WITNESS [i \in DOMAIN s |-> i]
  <2> QED
    BY <1>1, <2>1
<1>2. CASE places # {}
  <2> DEFINE k == CHOOSE i \in places : TRUE
             r == RemoveAt(s, k)
             f == [i \in DOMAIN r |-> IF i < k THEN i ELSE i + 1]
  <2>1. k \in DOMAIN s /\ places = {k}
    BY <1>2
  <2>2. Len(s) \in Nat /\ DOMAIN s = 1..Len(s)
    BY LenProperties
  <2>3. Drop(s, places) = r
    BY <1>2 DEF Drop
  <2> HIDE DEF k
  <2>4. /\ r \in Seq(S) /\ Len(r) = Len(s) - 1
        /\ \A i \in 1..(Len(s) - 1) : r[i] = IF i < k THEN s[i] ELSE s[i + 1]
    BY <2>1, <2>2, RemoveAtProperties
  <2> HIDE DEF r
  <2>5. DOMAIN r = 1..(Len(s) - 1)
    BY <2>4, LenProperties
  <2>6. \A i \in 1..(Len(s) - 1) : f[i] = IF i < k THEN i ELSE i + 1
    BY <2>5
  <2> HIDE DEF f
  <2>7. ASSUME NEW i \in 1..(Len(s) - 1)
        PROVE  /\ f[i] \in 1..Len(s) /\ f[i] # k
               /\ r[i] = s[f[i]]
               /\ \A j \in 1..(Len(s) - 1) : f[i] = f[j] => i = j
    <3>1. f[i] \in 1..Len(s) /\ f[i] # k
      BY <2>1, <2>2, <2>6
    <3>2. r[i] = s[f[i]]
      BY <2>4, <2>6
    <3>3. ASSUME NEW j \in 1..(Len(s) - 1), f[i] = f[j] PROVE i = j
      BY <2>1, <2>2, <2>6, <3>3
    <3> QED
      BY <3>1, <3>2, <3>3
  <2> WITNESS f
  <2> QED
    BY <2>1, <2>2, <2>3, <2>5, <2>7
<1> QED
  BY <1>1, <1>2

LEMMA OtherOnce ==
  ASSUME NEW s \in Seq(Names), NEW n \in Names, Once(s)
  PROVE  Once(Append(Other(s, n), n)) /\ Append(Other(s, n), n) \in Seq(Names)
<1> DEFINE places == {i \in DOMAIN s : s[i] = n}
           r == Other(s, n)
           a == Append(r, n)
           m == Len(r)
<1>1. r = Drop(s, places)
  BY DEF Other
<1>2. r \in Seq(Names)
  BY <1>1, DropTyped
<1>a. places \in SUBSET DOMAIN s /\ \A i, j \in places : i = j
  BY DEF Once
<1>b. \A i \in DOMAIN s \ places : s[i] # n
  OBVIOUS
<1> HIDE DEF r, places
<1>c. \E from : \A i \in DOMAIN Drop(s, places) :
                    /\ from[i] \in DOMAIN s \ places
                    /\ Drop(s, places)[i] = s[from[i]]
                    /\ \A j \in DOMAIN Drop(s, places) : from[i] = from[j] => i = j
  BY <1>a, DropOnly
<1>3. PICK from : \A i \in DOMAIN r : /\ from[i] \in DOMAIN s \ places
                                      /\ r[i] = s[from[i]]
                                      /\ \A j \in DOMAIN r : from[i] = from[j] => i = j
  BY <1>1, <1>c
<1>4. m \in Nat /\ DOMAIN r = 1..m
  BY <1>2, LenProperties
<1>5. /\ a \in Seq(Names) /\ Len(a) = m + 1
      /\ \A i \in 1..m : a[i] = r[i]
      /\ a[m + 1] = n
  BY <1>2, AppendProperties
<1>6. DOMAIN a = 1..(m + 1)
  BY <1>5, LenProperties
<1> HIDE DEF a, m
<1>7. \A i \in 1..m : a[i] # n /\ \A j \in 1..m : a[i] = a[j] => i = j
  <2> TAKE i \in 1..m
  <2>1. a[i] = s[from[i]] /\ from[i] \in DOMAIN s \ places
    BY <1>3, <1>4, <1>5
  <2>2. ASSUME NEW j \in 1..m, a[i] = a[j] PROVE i = j
    <3>1. a[j] = s[from[j]] /\ from[j] \in DOMAIN s \ places
      BY <1>3, <1>4, <1>5
    <3>2. from[i] = from[j]
      BY <2>1, <2>2, <3>1 DEF Once
    <3> QED
      BY <1>3, <1>4, <3>2
  <2> QED
    BY <1>b, <2>1, <2>2
<1>8. \A i \in 1..(m + 1) : i \in 1..m \/ i = m + 1
  BY <1>4
<1>9. Once(a)
  BY <1>5, <1>6, <1>7, <1>8 DEF Once
<1> QED
  BY <1>5, <1>9 DEF a, r

LEMMA NewestOnce ==
  ASSUME NEW s \in Seq(Names), Once(s)
  PROVE  Once(Newest(s))
<1> DEFINE low == Max({1, Len(s) - MaxNames + 1})
           r == SubSeq(s, low, Len(s))
<1>1. Len(s) \in Nat /\ MaxNames \in Nat /\ DOMAIN s = 1..Len(s)
      /\ \A i \in 1..Len(s) : s[i] \in Names
  BY LenProperties, ElementOfSeq, NamesAssumption
<1>2. low \in Int /\ low >= 1
  BY MaxLow
<1> HIDE DEF low
<1>3. \A i \in low..Len(s) : s[i] \in Names
  BY <1>1, <1>2
<1>4. /\ r \in Seq(Names)
      /\ Len(r) = IF low <= Len(s) THEN Len(s) - low + 1 ELSE 0
      /\ \A i \in 1..(Len(s) - low + 1) : r[i] = s[low + i - 1]
  BY <1>1, <1>2, <1>3, SubSeqProperties
<1> HIDE DEF r
<1>5. DOMAIN r = 1..Len(r)
  BY <1>4, LenProperties
<1>6. ASSUME NEW i \in 1..Len(r), NEW j \in 1..Len(r), r[i] = r[j] PROVE i = j
  <2>1. /\ i \in 1..(Len(s) - low + 1) /\ j \in 1..(Len(s) - low + 1)
        /\ low + i - 1 \in 1..Len(s) /\ low + j - 1 \in 1..Len(s)
    BY <1>1, <1>2, <1>4
  <2>2. low + i - 1 = low + j - 1
    BY <1>1, <1>4, <1>6, <2>1 DEF Once
  <2> QED
    BY <1>2, <2>1, <2>2
<1>7. Once(r)
  BY <1>5, <1>6 DEF Once
<1> QED
  BY <1>7 DEF Newest, r, low

LEMMA WithoutOnce ==
  ASSUME TypeOK, KeysOnce, NEW ip \in Ips
  PROVE  /\ Without(ip) \in Seq(Entries)
         /\ \A i \in DOMAIN Without(ip) : /\ Without(ip)[i].ip # ip
              /\ \A j \in DOMAIN Without(ip) :
                   Without(ip)[i].ip = Without(ip)[j].ip => i = j
<1> DEFINE places == {i \in DOMAIN ipToDomain : ipToDomain[i].ip = ip}
           r == Without(ip)
<1>1. ipToDomain \in Seq(Entries) /\ r = Drop(ipToDomain, places)
  BY DEF Without, TypeOK
<1>2. r \in Seq(Entries)
  BY <1>1, DropTyped
<1>a. places \in SUBSET DOMAIN ipToDomain /\ \A i, j \in places : i = j
  BY DEF KeysOnce
<1>b. \A i \in DOMAIN ipToDomain \ places : ipToDomain[i].ip # ip
  OBVIOUS
<1> HIDE DEF r, places
<1>c. \E from : \A i \in DOMAIN Drop(ipToDomain, places) :
                    /\ from[i] \in DOMAIN ipToDomain \ places
                    /\ Drop(ipToDomain, places)[i] = ipToDomain[from[i]]
                    /\ \A j \in DOMAIN Drop(ipToDomain, places) :
                         from[i] = from[j] => i = j
  BY <1>1, <1>a, DropOnly
<1>3. PICK from : \A i \in DOMAIN r :
                    /\ from[i] \in DOMAIN ipToDomain \ places
                    /\ r[i] = ipToDomain[from[i]]
                    /\ \A j \in DOMAIN r : from[i] = from[j] => i = j
  BY <1>1, <1>c
<1>4. ASSUME NEW i \in DOMAIN r
      PROVE  r[i].ip # ip /\ \A j \in DOMAIN r : r[i].ip = r[j].ip => i = j
  <2>1. r[i].ip # ip
    BY <1>b, <1>3
  <2>2. ASSUME NEW j \in DOMAIN r, r[i].ip = r[j].ip PROVE i = j
    <3>1. from[i] = from[j]
      BY <1>3, <2>2 DEF KeysOnce
    <3> QED
      BY <1>3, <3>1
  <2> QED
    BY <2>1, <2>2
<1> QED
  BY <1>2, <1>4 DEF r

LEMMA NextOnce ==
  TypeOK /\ TypeOK' /\ WorkInv /\ KeysOnce /\ NamesOnce /\ [Next]_vars
    => KeysOnce' /\ NamesOnce'
<1> SUFFICES ASSUME TypeOK, TypeOK', WorkInv, KeysOnce, NamesOnce, [Next]_vars
             PROVE  KeysOnce' /\ NamesOnce'
  OBVIOUS
<1>e. Once(<<>>)
  BY DEF Once
<1>t. prior \in [Queries -> Seq(Names)] /\ ipNames \in [Ips -> Seq(Names)]
  BY DEF TypeOK
<1>k. ASSUME UNCHANGED <<ipToDomain, prior, ipNames>> PROVE KeysOnce' /\ NamesOnce'
  BY <1>k DEF KeysOnce, NamesOnce
<1>1. ASSUME NEW q \in Queries, Receive(q) PROVE KeysOnce' /\ NamesOnce'
  BY <1>1, <1>k DEF Receive, scratch, maps
<1>2. ASSUME NEW q \in Queries, Handle(q) PROVE KeysOnce' /\ NamesOnce'
  BY <1>2, <1>k, HandleFrame
<1>3. ASSUME NEW q \in Queries, Unanswered(q) PROVE KeysOnce' /\ NamesOnce'
  BY <1>3, <1>k DEF Unanswered, scratch, maps
<1>4. ASSUME NEW q \in Queries, NEW response \in Responses[q], Forwarded(q, response)
      PROVE  KeysOnce' /\ NamesOnce'
  BY <1>4, <1>k, ForwardedFrame
<1>5. ASSUME NEW q \in Queries, Learn(q) PROVE KeysOnce' /\ NamesOnce'
  <2> DEFINE ip  == Head(todo[q])
             new == [ip |-> ip, name |-> NameOf[q]]
             r   == Without(ip)
             a   == Append(r, new)
             n   == Len(r)
  <2>1. /\ phase[q] = "learning" /\ ipToDomain' = a /\ ipNames' = ipNames
        /\ prior' = [prior EXCEPT ![q] = ipNames[ip]]
    BY <1>5 DEF Learn
  <2>2. ip \in Ips
    BY <2>1, HeadTailProperties DEF TypeOK, WorkInv, Busy
  <2>3. new \in Entries /\ new.ip = ip
    BY <2>2, NameOfAssumption DEF Entries
  <2> HIDE DEF ip, new
  <2>4. /\ r \in Seq(Entries)
        /\ \A i \in DOMAIN r : r[i].ip # ip /\ \A j \in DOMAIN r : r[i].ip = r[j].ip => i = j
    BY <2>2, WithoutOnce
  <2> HIDE DEF r
  <2>5. /\ n \in Nat /\ DOMAIN r = 1..n
        /\ a \in Seq(Entries) /\ Len(a) = n + 1
        /\ \A i \in 1..n : a[i] = r[i]
        /\ a[n + 1] = new
    BY <2>3, <2>4, AppendProperties, LenProperties
  <2> HIDE DEF n
  <2>6. DOMAIN a = 1..(n + 1)
    BY <2>5, LenProperties
  <2>7. \A i \in 1..(n + 1) : i \in 1..n \/ i = n + 1
    BY <2>5
  <2> HIDE DEF a
  <2>8. \A i, j \in 1..(n + 1) : a[i].ip = a[j].ip => i = j
    BY <2>3, <2>4, <2>5, <2>7
  <2>9. KeysOnce'
    BY <2>1, <2>6, <2>8 DEF KeysOnce
  <2>10. NamesOnce'
    BY <1>t, <2>1, <2>2 DEF NamesOnce
  <2> QED
    BY <2>9, <2>10
<1>6. ASSUME NEW q \in Queries, LearnName(q) PROVE KeysOnce' /\ NamesOnce'
  <2> DEFINE ip    == Head(todo[q])
             names == Newest(Append(Other(prior[q], NameOf[q]), NameOf[q]))
  <2>1. /\ phase[q] = "naming" /\ ipToDomain' = ipToDomain
        /\ ipNames' = [ipNames EXCEPT ![ip] = names]
        /\ prior' = [prior EXCEPT ![q] = <<>>]
    BY <1>6 DEF LearnName
  <2>2. prior[q] \in Seq(Names) /\ Once(prior[q]) /\ NameOf[q] \in Names
    BY <1>t, NameOfAssumption DEF NamesOnce
  <2>3. Once(names)
    BY <2>2, OtherOnce, NewestOnce
  <2> HIDE DEF ip, names
  <2>4. NamesOnce'
    BY <1>e, <1>t, <2>1, <2>3 DEF NamesOnce
  <2>5. KeysOnce'
    BY <2>1 DEF KeysOnce
  <2> QED
    BY <2>4, <2>5
<1>7. ASSUME NEW q \in Queries, Size(q) PROVE KeysOnce' /\ NamesOnce'
  BY <1>7, <1>k DEF Size, scratch, maps
<1>8. ASSUME NEW q \in Queries, Iterate(q) PROVE KeysOnce' /\ NamesOnce'
  BY <1>8, <1>k DEF Iterate, maps
<1>9. ASSUME NEW q \in Queries, PickOldest(q) PROVE KeysOnce' /\ NamesOnce'
  BY <1>9, <1>k DEF PickOldest, maps
<1>10. ASSUME NEW q \in Queries, Evict(q) PROVE KeysOnce' /\ NamesOnce'
  <2>1. CASE \E p \in Range(ipToDomain) : p.ip = oldest[q]
    <3>1. /\ phase[q] = "evicting" /\ ipToDomain' = Without(oldest[q]) /\ prior' = prior
          /\ ipNames' = [ipNames EXCEPT ![oldest[q]] = <<>>]
      BY <1>10, <2>1 DEF Evict
    <3>2. oldest[q] \in Ips
      BY <3>1 DEF WorkInv
    <3>3. KeysOnce'
      BY <3>1, <3>2, WithoutOnce DEF KeysOnce
    <3>4. NamesOnce'
      BY <1>e, <1>t, <3>1 DEF NamesOnce
    <3> QED
      BY <3>3, <3>4
  <2>2. CASE ~\E p \in Range(ipToDomain) : p.ip = oldest[q]
    <3>1. UNCHANGED <<ipToDomain, prior, ipNames>>
      BY <1>10, <2>2 DEF Evict, maps
    <3> QED
      BY <1>k, <3>1
  <2> QED
    BY <2>1, <2>2
<1>11. ASSUME NEW q \in Queries, Publish(q) PROVE KeysOnce' /\ NamesOnce'
  BY <1>11, <1>k DEF Publish, scratch, maps
<1>12. ASSUME NEW q \in Queries, Answer(q) PROVE KeysOnce' /\ NamesOnce'
  BY <1>12, <1>k DEF Answer, scratch, maps
<1>13. CASE Wake
  BY <1>13, <1>k DEF Wake, scratch, maps
<1>14. CASE WriteMap
  BY <1>14, <1>k DEF WriteMap, scratch, maps
<1>15. CASE WriteNames
  BY <1>15, <1>k DEF WriteNames, scratch, maps
<1>16. CASE Nap
  BY <1>16, <1>k DEF Nap, scratch, maps
<1>17. CASE StatMap
  BY <1>17, <1>k DEF StatMap, scratch, maps
<1>18. CASE OpenMap
  BY <1>18, <1>k DEF OpenMap, scratch, maps
<1>19. CASE DateMap
  BY <1>19, <1>k DEF DateMap, scratch, maps
<1>20. CASE UNCHANGED vars
  BY <1>20, <1>k DEF vars, scratch, maps
<1> QED
  BY <1>1, <1>2, <1>3, <1>4, <1>5, <1>6, <1>7, <1>8, <1>9, <1>10, <1>11, <1>12,
     <1>13, <1>14, <1>15, <1>16, <1>17, <1>18, <1>19, <1>20 DEF Next, Handler, Flusher

-----------------------------------------------------------------------------
ServerInv == /\ TypeOK /\ WorkInv /\ QueueInv
             /\ JudgedInv /\ CapInv /\ DiskInv /\ CacheInv
             /\ KeysOnce /\ NamesOnce

LEMMA ServerInvariant == Spec => []ServerInv
<1>1. Init => ServerInv
  <2> SUFFICES ASSUME Init PROVE ServerInv
    OBVIOUS
  <2>1. Len(<<>>) = 0 /\ Range(<<>>) = {} /\ Once(<<>>)
    BY DEF Range, Once
  <2>2. CapInv
    BY <2>1, EntriesAssumption DEF Init, CapInv
  <2>3. DiskInv
    BY <2>1 DEF Init, DiskInv
  <2>4. CacheInv
    BY DEF Init, CacheInv, CachedMapIsCurrent
  <2>5. KeysOnce /\ NamesOnce
    BY <2>1 DEF Init, KeysOnce, NamesOnce
  <2> QED
    BY <2>2, <2>3, <2>4, <2>5, InitWork, InitJudged DEF ServerInv
<1>2. ServerInv /\ [Next]_vars => ServerInv'
  <2> SUFFICES ASSUME ServerInv, [Next]_vars PROVE ServerInv'
    OBVIOUS
  <2>1. TypeOK'
    BY NextType DEF ServerInv
  <2> QED
    BY <2>1, NextWork, NextQueue, NextJudged, NextCap, NextDisk, NextCache, NextOnce
    DEF ServerInv
<1> QED
  BY <1>1, <1>2, PTL DEF Spec

(* The threads of dns_server.py and the addon keep their variables typed.  *)
THEOREM TypeCorrect == Spec => []TypeOK
<1>1. ServerInv => TypeOK
  BY DEF ServerInv
<1> QED
  BY <1>1, ServerInvariant, PTL

(* In enforce mode no name the policy refuses and no internal address it   *)
(* does not exempt gets into the map, its file or the addon's copy, and no *)
(* client gets such an answer, whatever upstream says and however the      *)
(* handlers interleave.                                                    *)
THEOREM RefusedNotLearned == Spec => []RefusedIsNeverLearned
<1>1. ServerInv => RefusedIsNeverLearned
  <2> SUFFICES ASSUME ServerInv, mode = "enforce" PROVE RefusedIsNeverLearned
    BY DEF RefusedIsNeverLearned
  <2>1. \A p \in Range(ipToDomain) \cup mapFile \cup cache :
          LET e == [protocol |-> "dns", host |-> p.name]
          IN  Allows(Policy, e) /\ ~InternalIpViolation(Policy, e, p.ip)
    BY DEF ServerInv, JudgedInv, Fit
  <2>2. \A q \in Queries : reply[q] = "answer" => log[q] = <<"allowed">>
    BY DEF ServerInv, JudgedInv, Judged
  <2> QED
    BY <2>1, <2>2 DEF RefusedIsNeverLearned
<1> QED
  BY <1>1, ServerInvariant, PTL

(* Handlers that race for the oldest entry never leave the map above its   *)
(* cap, for any cap and any number of them.                                *)
THEOREM MapBounded == Spec => []MapIsBounded
<1>1. ServerInv => MapIsBounded
  <2> SUFFICES ASSUME ServerInv, \A q \in Queries : ~Remembering(q)
               PROVE  Len(ipToDomain) <= MaxEntries
    BY DEF MapIsBounded
  <2>1. \A q \in Queries : ~Able(q)
    BY DEF Able, Remembering
  <2>2. Len(ipToDomain) \in Nat /\ MaxEntries \in Nat
    BY LenProperties, EntriesAssumption DEF ServerInv, TypeOK
  <2> QED
    BY <2>1, <2>2 DEF ServerInv, CapInv
<1> QED
  BY <1>1, ServerInvariant, PTL

(* The flusher loses no wake-up, although it clears the event before it    *)
(* writes and handlers set it meanwhile.                                   *)
THEOREM SettledOnDisk == Spec => []SettledMapIsOnDisk
<1>1. ServerInv => SettledMapIsOnDisk
  BY DEF ServerInv, DiskInv, SettledMapIsOnDisk
<1> QED
  BY <1>1, ServerInvariant, PTL

(* The addon never takes an older map for the one on disk.                 *)
THEOREM CachedCurrent == Spec => []CachedMapIsCurrent
<1>1. ServerInv => CachedMapIsCurrent
  BY DEF ServerInv, CacheInv
<1> QED
  BY <1>1, ServerInvariant, PTL

(* An address has one entry in the map and a name is once in a list: what  *)
(* lets Drop remove a single place.                                        *)
THEOREM EntriesOnce == Spec => [](KeysOnce /\ NamesOnce)
<1>1. ServerInv => KeysOnce /\ NamesOnce
  BY DEF ServerInv
<1> QED
  BY <1>1, ServerInvariant, PTL
=============================================================================
