----------------------------- MODULE DnsServer -----------------------------
(***************************************************************************)
(* The resolver (proxy/dns_server.py): a pool of handler threads that      *)
(* judge, forward and log queries and learn which name an address was      *)
(* handed out for, one flusher thread that persists what they learned, and *)
(* the addon process that reads it back (proxy/addon.py).                  *)
(*                                                                         *)
(* Threads share the maps without a lock and CPython switches between them *)
(* after a call and at the end of a loop body, so _remember_ip is cut      *)
(* there.  An exception ends the handler: the pool keeps it in a future    *)
(* nobody asks.  A list that is empty stands for a missing ip_names key.   *)
(* A write of a map file is one step: the snapshot is taken under the GIL  *)
(* and os.replace publishes it whole.                                      *)
(***************************************************************************)
EXTENDS PolicyEngine, SequencesExt

CONSTANTS Queries,      \* the datagrams clients may send
          Shape,        \* [Queries -> SUBSET {"bad", "empty", "probe", "query"}]
          NameOf,       \* [Queries -> Names]
          TypeOf,       \* [Queries -> {"A", "AAAA"}]
          Names, Ips,   \* what is asked for, and the addresses in answers
          Responses,    \* [Queries -> the address lists [a, aaaa] upstream may send]
          Policy,       \* the rules of the policy file, if there is one
          SuppressAaaa, \* DNS_SUPPRESS_AAAA
          MaxWorkers, MaxEntries, MaxNames

ASSUME WorkersAssumption == MaxWorkers \in Nat \ {0}
ASSUME EntriesAssumption == MaxEntries \in Nat \ {0}
ASSUME NamesAssumption   == MaxNames \in Nat \ {0}
ASSUME ShapeAssumption ==
  Shape \in [Queries -> SUBSET {"bad", "empty", "probe", "query"}]
ASSUME NameOfAssumption  == NameOf \in [Queries -> Names]
ASSUME ResponsesAssumption ==
  \A q \in Queries : \A response \in Responses[q] :
    response.a \in Seq(Ips) /\ response.aaaa \in Seq(Ips)

VARIABLES
  mode,        \* "discovery" when no policy is loaded
  phase,       \* where the handler of each query is
  queue,       \* queries submitted to the pool, none of its threads has yet
  status,      \* the verdict each handler carries
  todo,        \* the addresses a handler has still to remember
  prior,       \* the name list ip_names.get gave it
  used,        \* the map size its iterator was made for
  oldest,      \* the address it is about to evict
  log,         \* the records logged for each query
  reply,       \* what was sent back
  ipToDomain,  \* the map, oldest entry first: [ip, name] records
  ipNames,     \* [Ips -> Seq(Names)]
  dirty,       \* _map_dirty
  flusher,     \* where _map_flusher is
  mapFile, namesFile, version, \* what is on disk; version is the mtime
  reader, statted, mtime, cache \* the addon's copy, and how old it thinks it is

handling == <<mode, phase, queue, status, todo, log, reply>>
scratch  == <<prior, used, oldest>>
maps     == <<ipToDomain, ipNames>>
disk     == <<flusher, mapFile, namesFile, version>>
addon    == <<reader, statted, mtime, cache>>
vars     == <<handling, scratch, maps, dirty, disk, addon>>

Init ==
  /\ mode \in {"monitor", "enforce", "discovery"}
  /\ phase      = [q \in Queries |-> "unsent"]
  /\ queue      = <<>>
  /\ status     = [q \in Queries |-> "none"]
  /\ todo       = [q \in Queries |-> <<>>]
  /\ prior      = [q \in Queries |-> <<>>]
  /\ used       = [q \in Queries |-> 0]
  /\ oldest     = [q \in Queries |-> "none"]
  /\ log        = [q \in Queries |-> <<>>]
  /\ reply      = [q \in Queries |-> "none"]
  /\ ipToDomain = <<>>
  /\ ipNames    = [ip \in Ips |-> <<>>]
  /\ dirty      = FALSE
  /\ flusher    = "waiting"
  /\ mapFile    = {} /\ namesFile = ipNames /\ version = 0
  /\ reader     = "idle" /\ statted = 0 /\ mtime = 0 /\ cache = {}

Goto(q, p)     == phase' = [phase EXCEPT ![q] = p]
WriteLog(q, s) == log' = [log EXCEPT ![q] = Append(@, s)]
Send(q, r)     == reply' = [reply EXCEPT ![q] = r]
Handlers       == {q \in Queries : phase[q] \notin {"unsent", "queued", "done", "raised"}}
Entry(q)       == [protocol |-> "dns", host |-> NameOf[q]]

-----------------------------------------------------------------------------
(* The receiving loop and the pool.                                        *)
Receive(q) ==
  /\ phase[q] = "unsent"
  /\ Goto(q, "queued")
  /\ queue' = Append(queue, q)
  /\ UNCHANGED <<mode, status, todo, log, reply, scratch, maps, dirty, disk, addon>>

Evaluated(q) ==
  IF mode = "discovery" THEN "allowed" ELSE Evaluate(Policy, mode, Entry(q))

(* A handler ends before it asks upstream: it logs and sends what it says. *)
EndsEarly(q, records, answer) ==
  /\ log'   = [log EXCEPT ![q] = @ \o records]
  /\ Send(q, answer)
  /\ Goto(q, "done")
  /\ UNCHANGED status

AaaaSuppressed(q) ==
  /\ SuppressAaaa /\ TypeOf[q] = "AAAA" /\ Evaluated(q) = "allowed"
  /\ mode = "enforce"

(* Mutant: no verdict keeps a query from being forwarded.                  *)
NeverRefused(q) == FALSE

Refused(q) == Evaluated(q) = "blocked"

(* handle_query up to forward_query.                                       *)
Handle(q) ==
  /\ queue # <<>> /\ Head(queue) = q
  /\ Cardinality(Handlers) < MaxWorkers
  /\ queue' = Tail(queue)
  /\ \E shape \in Shape[q] :
       CASE shape = "bad"   -> EndsEarly(q, <<>>, "formerr")
         [] shape = "empty" -> EndsEarly(q, <<>>, "none")
         [] shape = "probe" -> EndsEarly(q, <<>>, "nxdomain")
         [] shape = "query" /\ Refused(q) -> EndsEarly(q, <<"blocked">>, "nxdomain")
         [] shape = "query" /\ AaaaSuppressed(q) -> EndsEarly(q, <<"allowed">>, "nodata")
         [] OTHER -> /\ status' = [status EXCEPT ![q] = Evaluated(q)]
                     /\ Goto(q, "forwarding")
                     /\ UNCHANGED <<log, reply>>
  /\ UNCHANGED <<mode, todo, scratch, maps, dirty, disk, addon>>

(* Mutant: a query nobody answered is not logged.                          *)
UnansweredUnlogged(q) ==
  /\ phase[q] = "forwarding"
  /\ Goto(q, "done")
  /\ UNCHANGED <<mode, queue, status, todo, log, reply, scratch, maps, dirty, disk, addon>>

(* No resolver answered in time: logged, and the client is left to retry.  *)
Unanswered(q) ==
  /\ phase[q] = "forwarding"
  /\ WriteLog(q, status[q])
  /\ Goto(q, "done")
  /\ UNCHANGED <<mode, queue, status, todo, reply, scratch, maps, dirty, disk, addon>>

(* Mutant: only the first A record is checked.                             *)
FirstAnswerInternal(q, response) ==
  /\ mode # "discovery" /\ status[q] = "allowed"
  /\ response.a # <<>>
  /\ InternalIpViolation(Policy, Entry(q), Head(response.a))

InternalAnswer(q, response) ==
  /\ mode # "discovery" /\ status[q] = "allowed"
  /\ \E ip \in Range(response.a \o response.aaaa) :
       InternalIpViolation(Policy, Entry(q), ip)

(* forward_query returned: an answer with an internal address is refused   *)
(* whole in enforce mode; of any other the A records are remembered.       *)
Forwarded(q, response) ==
  /\ phase[q] = "forwarding"
  /\ IF InternalAnswer(q, response) /\ mode = "enforce"
     THEN EndsEarly(q, <<"blocked">>, "nxdomain") /\ UNCHANGED todo
     ELSE /\ status' = [status EXCEPT ![q] =
                          IF InternalAnswer(q, response) THEN "would_block" ELSE @]
          /\ todo' = [todo EXCEPT ![q] = response.a]
          /\ Goto(q, IF response.a = <<>> THEN "answering" ELSE "learning")
          /\ UNCHANGED <<log, reply>>
  /\ UNCHANGED <<mode, queue, scratch, maps, dirty, disk, addon>>

-----------------------------------------------------------------------------
(* _remember_ip, from one switch point to the next.                        *)
(* A dictionary has a key once, and a list has a name once.                *)
Drop(s, places) == IF places = {} THEN s ELSE RemoveAt(s, CHOOSE i \in places : TRUE)
Without(ip)     == Drop(ipToDomain, {i \in DOMAIN ipToDomain : ipToDomain[i].ip = ip})
Other(names, n) == Drop(names, {i \in DOMAIN names : names[i] = n})
Newest(names)   == SubSeq(names, Max({1, Len(names) - MaxNames + 1}), Len(names))

Learn(q) ==
  /\ phase[q] = "learning"
  /\ LET ip == Head(todo[q])
     IN  /\ ipToDomain' = Append(Without(ip), [ip |-> ip, name |-> NameOf[q]])
         /\ prior' = [prior EXCEPT ![q] = ipNames[ip]]
  /\ Goto(q, "naming")
  /\ UNCHANGED <<mode, queue, status, todo, log, reply, used, oldest, ipNames, dirty,
                 disk, addon>>

LearnName(q) ==
  /\ phase[q] = "naming"
  /\ ipNames' = [ipNames EXCEPT ![Head(todo[q])] =
                   Newest(Append(Other(prior[q], NameOf[q]), NameOf[q]))]
  /\ prior' = [prior EXCEPT ![q] = <<>>]
  /\ Goto(q, "sizing")
  /\ UNCHANGED <<mode, queue, status, todo, log, reply, used, oldest, ipToDomain,
                 dirty, disk, addon>>

(* The loop's condition; below the cap the next address is taken up.       *)
Size(q) ==
  /\ phase[q] = "sizing"
  /\ IF Len(ipToDomain) > MaxEntries
     THEN Goto(q, "iterating") /\ UNCHANGED todo
     ELSE /\ todo' = [todo EXCEPT ![q] = Tail(@)]
          /\ Goto(q, IF Len(todo[q]) = 1 THEN "publishing" ELSE "learning")
  /\ UNCHANGED <<mode, queue, status, log, reply, scratch, maps, dirty, disk, addon>>

Iterate(q) ==
  /\ phase[q] = "iterating"
  /\ used' = [used EXCEPT ![q] = Len(ipToDomain)]
  /\ Goto(q, "picking")
  /\ UNCHANGED <<mode, queue, status, todo, log, reply, prior, oldest, maps, dirty,
                 disk, addon>>

(* next() raises when the map changed its size since, or has no entry.     *)
PickOldest(q) ==
  /\ phase[q] = "picking"
  /\ IF ipToDomain = <<>> \/ Len(ipToDomain) # used[q]
     THEN Goto(q, "raised") /\ UNCHANGED oldest
     ELSE /\ oldest' = [oldest EXCEPT ![q] = Head(ipToDomain).ip]
          /\ Goto(q, "evicting")
  /\ used' = [used EXCEPT ![q] = 0]
  /\ UNCHANGED <<mode, queue, status, todo, log, reply, prior, maps, dirty, disk, addon>>

(* Mutant: one entry is evicted, without a second look at the size.        *)
EvictOnce(q) ==
  /\ phase[q] = "evicting"
  /\ ipToDomain' = Without(oldest[q])
  /\ ipNames' = [ipNames EXCEPT ![oldest[q]] = <<>>]
  /\ todo' = [todo EXCEPT ![q] = Tail(@)]
  /\ Goto(q, IF Len(todo[q]) = 1 THEN "publishing" ELSE "learning")
  /\ oldest' = [oldest EXCEPT ![q] = "none"]
  /\ UNCHANGED <<mode, queue, status, log, reply, prior, used, dirty, disk, addon>>

(* del raises when the entry is gone.                                      *)
Evict(q) ==
  /\ phase[q] = "evicting"
  /\ IF \E p \in Range(ipToDomain) : p.ip = oldest[q]
     THEN /\ ipToDomain' = Without(oldest[q])
          /\ ipNames' = [ipNames EXCEPT ![oldest[q]] = <<>>]
          /\ Goto(q, "sizing")
     ELSE Goto(q, "raised") /\ UNCHANGED maps
  /\ oldest' = [oldest EXCEPT ![q] = "none"]
  /\ UNCHANGED <<mode, queue, status, todo, log, reply, prior, used, dirty, disk, addon>>

(* Mutant: the flusher is not woken.                                       *)
PublishUnflagged(q) ==
  /\ phase[q] = "publishing"
  /\ Goto(q, "answering")
  /\ UNCHANGED <<mode, queue, status, todo, log, reply, scratch, maps, dirty, disk, addon>>

(* _map_dirty.set(), once every address of the answer is remembered.       *)
Publish(q) ==
  /\ phase[q] = "publishing"
  /\ dirty' = TRUE
  /\ Goto(q, "answering")
  /\ UNCHANGED <<mode, queue, status, todo, log, reply, scratch, maps, disk, addon>>

(* The end of handle_query: the answer is logged, then sent.               *)
Answer(q) ==
  /\ phase[q] = "answering"
  /\ WriteLog(q, status[q])
  /\ Send(q, "answer")
  /\ Goto(q, "done")
  /\ UNCHANGED <<mode, queue, status, todo, scratch, maps, dirty, disk, addon>>

-----------------------------------------------------------------------------
(* _map_flusher: wait, clear, write one file, then the other, sleep.       *)

Wake ==
  /\ flusher = "waiting" /\ dirty
  /\ dirty' = FALSE
  /\ flusher' = "map"
  /\ UNCHANGED <<handling, scratch, maps, mapFile, namesFile, version, addon>>

WriteMap ==
  /\ flusher = "map"
  /\ mapFile' = Range(ipToDomain)
  /\ version' = version + 1
  /\ flusher' = "names"
  /\ UNCHANGED <<handling, scratch, maps, dirty, namesFile, addon>>

WriteNames ==
  /\ flusher = "names"
  /\ namesFile' = ipNames
  /\ flusher' = "asleep"
  /\ UNCHANGED <<handling, scratch, maps, dirty, mapFile, version, addon>>

(* Mutant: the event is cleared (again) once the files are written.        *)
NapCleared ==
  /\ flusher = "asleep"
  /\ flusher' = "waiting"
  /\ dirty' = FALSE
  /\ UNCHANGED <<handling, scratch, maps, mapFile, namesFile, version, addon>>

Nap ==
  /\ flusher = "asleep"
  /\ flusher' = "waiting"
  /\ UNCHANGED <<handling, scratch, maps, dirty, mapFile, namesFile, version, addon>>

Flusher == Wake \/ WriteMap \/ WriteNames \/ Nap

(* The addon, asked for an address: it stats the file, and reads it when   *)
(* it is newer than what it holds.                                         *)
StatMap ==
  /\ reader = "idle" /\ version > mtime
  /\ statted' = version
  /\ reader' = "opening"
  /\ UNCHANGED <<handling, scratch, maps, dirty, disk, mtime, cache>>

OpenMap ==
  /\ reader = "opening"
  /\ cache' = mapFile
  /\ reader' = "dating"
  /\ UNCHANGED <<handling, scratch, maps, dirty, disk, statted, mtime>>

(* Mutant: the file's age is looked up after it was read.                  *)
DateLate ==
  /\ reader = "dating"
  /\ mtime' = version
  /\ statted' = 0
  /\ reader' = "idle"
  /\ UNCHANGED <<handling, scratch, maps, dirty, disk, cache>>

DateMap ==
  /\ reader = "dating"
  /\ mtime' = statted
  /\ statted' = 0
  /\ reader' = "idle"
  /\ UNCHANGED <<handling, scratch, maps, dirty, disk, cache>>

-----------------------------------------------------------------------------
Handler(q) ==
  \/ Handle(q) \/ Unanswered(q)
  \/ \E response \in Responses[q] : Forwarded(q, response)
  \/ Learn(q) \/ LearnName(q) \/ Size(q) \/ Iterate(q) \/ PickOldest(q)
  \/ Evict(q) \/ Publish(q) \/ Answer(q)

Next ==
  \/ \E q \in Queries : Receive(q) \/ Handler(q)
  \/ Flusher
  \/ StatMap \/ OpenMap \/ DateMap

(* The threads of the pool and the flusher run; a lookup times out.  No    *)
(* client has to ask, and the addon need not look an address up.           *)
Fairness == WF_vars(Flusher) /\ \A q \in Queries : WF_vars(Handler(q))

Spec == Init /\ [][Next]_vars /\ Fairness

-----------------------------------------------------------------------------
Phases == {"unsent", "queued", "forwarding", "learning", "naming", "sizing",
           "iterating", "picking", "evicting", "publishing", "answering",
           "done", "raised"}
Entries == [ip : Ips, name : Names]

TypeOK ==
  /\ mode       \in {"monitor", "enforce", "discovery"}
  /\ phase      \in [Queries -> Phases]
  /\ queue      \in Seq(Queries)
  /\ status     \in [Queries -> {"none", "allowed", "would_block"}]
  /\ todo       \in [Queries -> Seq(Ips)]
  /\ prior      \in [Queries -> Seq(Names)]
  /\ used       \in [Queries -> Nat]
  /\ oldest     \in [Queries -> Ips \cup {"none"}]
  /\ log        \in [Queries -> Seq({"allowed", "would_block", "blocked"})]
  /\ reply      \in [Queries -> {"none", "formerr", "nxdomain", "nodata", "answer"}]
  /\ ipToDomain \in Seq(Entries)
  /\ ipNames    \in [Ips -> Seq(Names)]
  /\ dirty      \in BOOLEAN
  /\ flusher    \in {"waiting", "map", "names", "asleep"}
  /\ mapFile    \subseteq Entries
  /\ namesFile  \in [Ips -> Seq(Names)]
  /\ reader     \in {"idle", "opening", "dating"}
  /\ cache      \subseteq Entries
  /\ version \in Nat /\ statted \in Nat /\ mtime \in Nat

Remembering(q) == phase[q] \in {"learning", "naming", "sizing", "iterating",
                                "picking", "evicting", "publishing"}
Loggable(q)    == Shape[q] = {"query"}

(* In enforce mode neither the map, nor its file, nor the addon's copy has *)
(* a name the policy refuses, or an internal address it does not exempt,   *)
(* and no client got such an answer.                                       *)
RefusedIsNeverLearned ==
  mode = "enforce" =>
    /\ \A p \in Range(ipToDomain) \cup mapFile \cup cache :
         LET e == [protocol |-> "dns", host |-> p.name]
         IN  Allows(Policy, e) /\ ~InternalIpViolation(Policy, e, p.ip)
    /\ \A q \in Queries : reply[q] = "answer" => log[q] = <<"allowed">>

(* While no handler is busy with the maps, none died of them and the       *)
(* flusher has nothing to do, what is on disk is what is in memory: no     *)
(* wake-up is lost.                                                        *)
Settled == \A q \in Queries : ~Remembering(q) /\ phase[q] # "raised"
SettledMapIsOnDisk ==
  flusher = "waiting" /\ ~dirty /\ Settled =>
    mapFile = Range(ipToDomain) /\ namesFile = ipNames

(* The addon never takes an older file for the one on disk.                *)
CachedMapIsCurrent == reader = "idle" /\ mtime = version => cache = mapFile

(* A map no handler is working on is within its cap, even when handlers    *)
(* that raced for the oldest entry died of it.                             *)
MapIsBounded ==
  (\A q \in Queries : ~Remembering(q)) => Len(ipToDomain) <= MaxEntries

(* Every query a handler took up is logged in the end (as long as the map  *)
(* is below its cap), whatever upstream answers.                           *)
QueryIsLogged ==
  \A q \in Queries : (phase[q] = "queued" /\ Loggable(q)) ~> (log[q] # <<>>)

(* An address that was learned is in the file in the end (as long as it is *)
(* not evicted), although the flusher is woken once for many answers.      *)
LearnedIsPublished ==
  \A ip \in Ips : (\E p \in Range(ipToDomain) : p.ip = ip)
                    ~> (\E p \in mapFile : p.ip = ip)
=============================================================================
