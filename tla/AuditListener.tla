---------------------------- MODULE AuditListener ----------------------------
(* The audit tier of scripts/attribution_helper.py: start() claims the     *)
(* delivery of audit records and adds a rule, stop() gives both back, and  *)
(* setup.sh and teardown.sh end a helper that takes too long.  The kernel  *)
(* and another consumer of its records (auditd) are external: a request    *)
(* takes effect or not, and its answer is read or not (in stop the reading *)
(* thread may take it off the socket), but never read for another's: as    *)
(* _status says, the kernel acknowledges before it replies.                *)
EXTENDS Naturals

RequestWait == 2   \* the seconds _request waits for an answer
StartGrace  == 5   \* the seconds setup.sh waits for the helper's socket
TermGrace   == 3   \* the seconds teardown.sh waits before SIGKILL

VARIABLES
  owner,      \* who gets the records of the kernel
  enabled,    \* the switch of the audit subsystem
  rule,       \* the connect() rule is in the kernel
  alive,      \* the other consumer runs
  late,       \* ... and started after start() had read the status
  pc,         \* the main thread of the helper
  open,       \* sock is not None
  claimed,    \* self.claimed
  prior,      \* self.prior_enabled
  kept,       \* self.rule is not None
  stopping,   \* the Event of main
  asked,      \* server.shutdown was called
  elapsed,    \* the seconds of unanswered requests since the start, or SIGTERM
  heard,      \* start() read the status of the subsystem
  known,      \* start() got an answer to every request
  effective,  \* every request of stop() took effect, and none was skipped
  before      \* the switch as the others left it before start() read it

kernel   == <<owner, enabled, rule>>
consumer == <<alive, late>>
listener == <<open, claimed, prior, kept>>
service  == <<stopping, asked>>
ghosts   == <<heard, known, effective, before>>
vars     == <<kernel, consumer, pc, listener, service, elapsed, ghosts>>

-----------------------------------------------------------------------------
Init ==
  /\ owner \in {"nobody", "other"} /\ alive \in BOOLEAN
  /\ alive => owner = "other"
  /\ enabled \in {"off", "on"} /\ before = enabled
  /\ rule = FALSE /\ late = FALSE
  /\ pc = "open" /\ open = FALSE
  /\ claimed = FALSE /\ prior = "unknown" /\ kept = FALSE
  /\ stopping = FALSE /\ asked = FALSE
  /\ elapsed = 0 /\ heard = FALSE /\ known = TRUE /\ effective = TRUE

(* The outcomes of a request; one without an answer waits, or fails at     *)
(* once.                                                                   *)
Outcomes == [applied : BOOLEAN, answered : BOOLEAN]
Granted(o) == o.applied /\ o.answered
Takes(o) ==
  elapsed' \in {elapsed} \cup IF o.answered THEN {} ELSE {elapsed + RequestWait}

-----------------------------------------------------------------------------
(* start().                                                                *)

(* No netlink socket, or no known architecture: no audit tier.             *)
OpenSocket ==
  /\ pc = "open"
  /\ open' \in BOOLEAN
  /\ pc' = IF open' THEN "status" ELSE "bind"
  /\ UNCHANGED <<kernel, consumer, claimed, prior, kept, service, elapsed, ghosts>>

(* Mutant: whoever holds the delivery, it is taken.                        *)
NoConflict == FALSE

(* audit_owner_conflict: the pid of a dead owner stays in the kernel.      *)
OwnerConflict == owner = "other" /\ alive

(* Mutant: another field of the status is kept.                            *)
OwnerKept ==
  /\ pc = "status"
  /\ pc' = IF OwnerConflict THEN "close" ELSE "claim"
  /\ prior' = IF OwnerConflict THEN prior ELSE owner
  /\ heard' = TRUE
  /\ UNCHANGED <<kernel, consumer, open, claimed, kept, service, elapsed,
                 known, effective, before>>

StatusRead ==
  /\ pc = "status"
  /\ pc' = IF OwnerConflict THEN "close" ELSE "claim"
  /\ prior' = IF OwnerConflict THEN prior ELSE enabled
  /\ heard' = TRUE
  /\ UNCHANGED <<kernel, consumer, open, claimed, kept, service, elapsed,
                 known, effective, before>>

(* An unreadable status does not keep the helper from its claim.           *)
StatusUnread ==
  /\ pc = "status"
  /\ pc' = "claim"
  /\ elapsed' \in {elapsed, elapsed + RequestWait}
  /\ known' = FALSE
  /\ UNCHANGED <<kernel, consumer, listener, service, heard, effective, before>>

Claim(o) ==
  /\ pc = "claim"
  /\ IF o.applied THEN owner' = "helper" /\ enabled' = "on"
                  ELSE UNCHANGED <<owner, enabled>>
  /\ claimed' = Granted(o)
  /\ pc' = IF Granted(o) THEN "rule" ELSE "close"
  /\ known' = (known /\ o.answered)
  /\ Takes(o)
  /\ UNCHANGED <<rule, consumer, open, prior, kept, service, heard, effective,
                 before>>

(* A rule that was not granted is forgotten before stop() is called.       *)
AddRule(o) ==
  /\ pc = "rule"
  /\ rule' = (rule \/ o.applied)
  /\ kept' = Granted(o)
  /\ pc' = IF Granted(o) THEN "bind" ELSE "release"
  /\ known' = (known /\ o.answered)
  /\ Takes(o)
  /\ UNCHANGED <<owner, enabled, consumer, open, claimed, prior, service, heard,
                 effective, before>>

-----------------------------------------------------------------------------
(* stop().  In the thread of the signal handler an exception may end it    *)
(* early: _ingest runs in two threads then, over one dict.                 *)

StopRequest(o, next) ==
  /\ pc' \in {next} \cup IF stopping THEN {"close"} ELSE {}
  /\ effective' = (effective /\ o.applied /\ pc' = next)
  /\ UNCHANGED <<consumer, open, claimed, prior, service, heard, known, before>>

(* Mutant: an unanswered deletion is tried again.                          *)
DeleteRetried(o) ==
  /\ pc = "delete"
  /\ rule' = (rule /\ ~o.applied)
  /\ StopRequest(o, IF claimed THEN "release" ELSE "close")
  /\ kept' = (pc' = "close" /\ claimed)
  /\ elapsed' = elapsed + IF o.answered THEN 0 ELSE 2 * RequestWait
  /\ UNCHANGED <<owner, enabled>>

DeleteRule(o) ==
  /\ pc = "delete"
  /\ rule' = (rule /\ ~o.applied)
  /\ StopRequest(o, IF claimed THEN "release" ELSE "close")
  /\ kept' = (pc' = "close" /\ claimed)
  /\ Takes(o)
  /\ UNCHANGED <<owner, enabled>>

(* Mutant: the switch is not put back.                                     *)
SwitchLeft == "close"

AfterRelease == IF prior = "off" THEN "restore" ELSE "close"

Release(o) ==
  /\ pc = "release"
  /\ owner' = IF o.applied THEN "nobody" ELSE owner
  /\ StopRequest(o, AfterRelease)
  /\ Takes(o)
  /\ UNCHANGED <<enabled, rule, kept>>

Restore(o) ==
  /\ pc = "restore"
  /\ enabled' = IF o.applied THEN prior ELSE enabled
  /\ StopRequest(o, "close")
  /\ Takes(o)
  /\ UNCHANGED <<owner, rule, kept>>

Close ==
  /\ pc = "close"
  /\ open' = FALSE
  /\ \/ claimed' = FALSE /\ prior' = "unknown"
     \/ stopping /\ UNCHANGED <<claimed, prior>>
  /\ pc' = IF stopping THEN "handing" ELSE "bind"
  /\ UNCHANGED <<kernel, consumer, kept, service, elapsed, ghosts>>

-----------------------------------------------------------------------------
(* main().                                                                 *)

(* The socket is bound, the handlers are set, the server serves.           *)
Serve ==
  /\ pc = "bind"
  /\ pc' = "serving"
  /\ UNCHANGED <<kernel, consumer, listener, service, elapsed, ghosts>>

(* SIGTERM, from rollback_on_failure or teardown.sh.                       *)
Sigterm ==
  /\ pc = "serving" /\ ~stopping
  /\ stopping' = TRUE
  /\ elapsed' = 0
  /\ pc' = IF open THEN "delete" ELSE "handing"
  /\ UNCHANGED <<kernel, consumer, listener, asked, ghosts>>

(* Mutant: the handler itself waits for the loop it interrupted.           *)
HandedInline ==
  /\ pc = "handing"
  /\ asked' = TRUE
  /\ UNCHANGED <<kernel, consumer, pc, listener, stopping, elapsed, ghosts>>

HandOver ==
  /\ pc = "handing"
  /\ asked' = TRUE
  /\ pc' = "serving"
  /\ UNCHANGED <<kernel, consumer, listener, stopping, elapsed, ghosts>>

LoopEnds ==
  /\ pc = "serving" /\ asked
  /\ pc' = "exited"
  /\ UNCHANGED <<kernel, consumer, listener, service, elapsed, ghosts>>

(* setup.sh gives up on a helper that has not bound its socket: SIGTERM,   *)
(* which has no handler yet.                                               *)
GiveUp ==
  /\ ~stopping /\ pc \in {"open", "status", "claim", "rule", "release", "restore",
                          "close", "bind"}
  /\ elapsed > StartGrace
  /\ pc' = "killed"
  /\ UNCHANGED <<kernel, consumer, listener, service, elapsed, ghosts>>

(* teardown.sh: "did not exit on SIGTERM - forcing".                       *)
ForceStop ==
  /\ stopping /\ pc \notin {"exited", "killed", "forced"}
  /\ elapsed > TermGrace
  /\ pc' = "forced"
  /\ UNCHANGED <<kernel, consumer, listener, service, elapsed, ghosts>>

-----------------------------------------------------------------------------
(* The other consumer starts where the delivery is free, or stops.         *)
ConsumerStarts ==
  /\ ~alive /\ owner # "helper"
  /\ alive' = TRUE /\ owner' = "other" /\ enabled' = "on"
  /\ late' = (late \/ heard)
  /\ before' = IF heard THEN before ELSE "on"
  /\ UNCHANGED <<rule, pc, listener, service, elapsed, heard, known, effective>>

ConsumerDies ==
  /\ alive
  /\ alive' = FALSE
  /\ UNCHANGED <<kernel, late, pc, listener, service, elapsed, ghosts>>

Helper ==
  \/ OpenSocket \/ StatusRead \/ StatusUnread
  \/ \E o \in Outcomes :
       Claim(o) \/ AddRule(o) \/ DeleteRule(o) \/ Release(o) \/ Restore(o)
  \/ Close \/ Serve \/ HandOver \/ LoopEnds

Next ==
  \/ Helper
  \/ Sigterm \/ GiveUp \/ ForceStop
  \/ ConsumerStarts \/ ConsumerDies

(* The helper's threads run, and every wait of theirs is bounded.          *)
Spec == Init /\ [][Next]_vars /\ WF_vars(Helper)

-----------------------------------------------------------------------------
TypeOK ==
  /\ owner \in {"nobody", "helper", "other"} /\ enabled \in {"off", "on"}
  /\ rule \in BOOLEAN /\ alive \in BOOLEAN /\ late \in BOOLEAN
  /\ pc \in {"open", "status", "claim", "rule", "delete", "release", "restore",
             "close", "bind", "serving", "handing", "exited", "killed", "forced"}
  /\ open \in BOOLEAN /\ claimed \in BOOLEAN /\ kept \in BOOLEAN
  /\ prior \in {"unknown", "off", "on"} /\ before \in {"off", "on"}
  /\ stopping \in BOOLEAN /\ asked \in BOOLEAN
  /\ elapsed \in Nat /\ heard \in BOOLEAN
  /\ known \in BOOLEAN /\ effective \in BOOLEAN

(* A consumer that held the delivery when start() read the status keeps    *)
(* it: nothing the helper does, or leaves undone, takes it away.           *)
ConsumerKeepsDelivery ==
  [][owner = "other" /\ alive /\ heard /\ ~late => owner' = "other"]_vars

(* Once the socket is closed, on any path of start() and stop(), the       *)
(* subsystem is as it was, although answers of stop() may go to the thread *)
(* that reads records (as long as nobody else meddled with it).            *)
StoppedIsClean ==
  (~open /\ known /\ effective /\ ~late) =>
    owner # "helper" /\ ~rule /\ (owner = "other" \/ enabled = before)

(* A helper that teardown.sh forces has got rid of its rule and its claim  *)
(* by then, if its requests take effect at all: only the switch may be     *)
(* left on.                                                                *)
ForcedIsHarmless ==
  (pc = "forced" /\ known /\ effective) => ~rule /\ owner # "helper"

(* A helper that is told to stop is gone in the end.                       *)
ExitsOnSigterm == stopping ~> pc \in {"exited", "forced"}
=============================================================================
