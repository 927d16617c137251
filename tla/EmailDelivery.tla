----------------------------- MODULE EmailDelivery -----------------------------
(***************************************************************************)
(* Transactional mail: the queue's worker tries the configured providers   *)
(* in order, the ledger of deliveries, and the providers' webhooks, which  *)
(* arrive in any order and more than once.  One action per statement or    *)
(* call.                                                                   *)
(*                                                                         *)
(* BullMQ (attempts, stalled jobs) and the SQL function email_reserve_send *)
(* (suppression, daily quota, one reservation per job) are external.  All  *)
(* mail goes to one recipient of one tenant; credentials do not change.    *)
(***************************************************************************)
EXTENDS Integers, FiniteSets, Sequences

CONSTANTS Jobs, Providers,
          Events,    \* what a provider reports of a message: [hard : BOOLEAN, at : Nat]
          None,      \* no webhook
          Attempts,  \* of a job
          Quota      \* EMAIL_DAILY_TENANT_QUOTA

VARIABLES config,     \* configured providers, the preferred one first
          job,        \* job[j]: where it is, its next provider, attempts made
          reserved,   \* jobs with a quota reservation
          accepted,   \* history: <<job, provider>> pairs the provider has answered it accepts
          lastEventAt, \* email_deliveries: lastEventAt of each recorded message
          events,     \* email_delivery_events: <<message, event>> pairs
          suppressed, \* the recipient's email_suppressions row is active
          hook,       \* the webhook transaction that is open, or None
          dead        \* jobs in the dead-letter queue

deliveryVars == <<config, job, reserved, accepted, lastEventAt, events, suppressed, hook, dead>>

-------------------------------------------------------------------------------
Messages == Jobs \X Providers

Recorded == DOMAIN lastEventAt

\* A preference moves its provider to the front.
Orders == UNION {{s \in [1..n -> Providers] : \A i, k \in 1..n : s[i] = s[k] => i = k}
                 : n \in 0..Cardinality(Providers)}

TypeOK ==
    /\ config \in Orders
    /\ job \in [Jobs -> [pc : {"absent", "waiting", "send", "ledger", "done", "failed"},
                         next : 1..(Cardinality(Providers) + 1), made : 0..Attempts]]
    /\ reserved \subseteq Jobs /\ Cardinality(reserved) <= Quota
    /\ Recorded \subseteq accepted /\ accepted \subseteq Messages
    /\ lastEventAt \in [Recorded -> {0} \cup {e.at : e \in Events}]
    /\ events \subseteq Recorded \X Events
    /\ suppressed \in BOOLEAN
    /\ hook # None => hook.msg \in Recorded /\ hook.event \in Events
    /\ dead \subseteq Jobs

Init ==
    /\ config \in Orders
    /\ job = [j \in Jobs |-> [pc |-> "absent", next |-> 1, made |-> 0]]
    /\ reserved = {} /\ accepted = {} /\ lastEventAt = <<>> /\ events = {}
    /\ suppressed = FALSE
    /\ hook = None
    /\ dead = {}

-------------------------------------------------------------------------------
(* The queue and its worker *)

Enqueue(j) ==
    /\ job[j].pc = "absent"
    /\ job' = [job EXCEPT ![j].pc = "waiting"]
    /\ UNCHANGED <<config, reserved, accepted, lastEventAt, events, suppressed, hook, dead>>

\* process throws: BullMQ retries until the attempts are used up.
Throw(j) ==
    job' = [job EXCEPT ![j] = [pc |-> IF @.made + 1 < Attempts THEN "waiting" ELSE "failed",
                               next |-> 1, made |-> @.made + 1]]

Refused(j) == \/ config = <<>>
              \/ suppressed
              \/ j \notin reserved /\ Cardinality(reserved) = Quota

Reserve(j) ==
    /\ job[j].pc = "waiting"
    /\ IF Refused(j) THEN Throw(j) /\ UNCHANGED reserved
       ELSE /\ job' = [job EXCEPT ![j].pc = "send", ![j].next = 1]
            /\ reserved' = reserved \cup {j}
    /\ UNCHANGED <<config, accepted, lastEventAt, events, suppressed, hook, dead>>

\* The provider refuses, or its answer does not come in time.
TryNext(j) ==
    /\ job[j].pc = "send"
    /\ IF job[j].next < Len(config) THEN job' = [job EXCEPT ![j].next = @ + 1]
       ELSE Throw(j)
    /\ UNCHANGED <<config, reserved, accepted, lastEventAt, events, suppressed, hook, dead>>

Deliver(j) ==
    /\ job[j].pc = "send"
    /\ accepted' = accepted \cup {<<j, config[job[j].next]>>}
    /\ job' = [job EXCEPT ![j].pc = "ledger"]
    /\ UNCHANGED <<config, reserved, lastEventAt, events, suppressed, hook, dead>>

\* An upsert; when it fails, process throws.
RecordAccepted(j) ==
    LET m == <<j, config[job[j].next]>>
    IN  /\ job[j].pc = "ledger"
        /\ \/ /\ lastEventAt' = [n \in Recorded \cup {m} |-> IF n \in Recorded THEN lastEventAt[n] ELSE 0]
              /\ job' = [job EXCEPT ![j].pc = "done"]
           \/ Throw(j) /\ UNCHANGED lastEventAt
        /\ UNCHANGED <<config, reserved, accepted, events, suppressed, hook, dead>>

\* The worker dies and the job is taken up again.
Stall(j) ==
    /\ job[j].pc \in {"send", "ledger"}
    /\ job' = [job EXCEPT ![j].pc = "waiting"]
    /\ UNCHANGED <<config, reserved, accepted, lastEventAt, events, suppressed, hook, dead>>

\* The failure event may be delivered again: the entry has an id of its own.
OnFailed(j) ==
    /\ job[j].pc = "failed" /\ job[j].made = Attempts
    /\ dead' = dead \cup {j}
    /\ UNCHANGED <<config, job, reserved, accepted, lastEventAt, events, suppressed, hook>>

-------------------------------------------------------------------------------
(* ingest.  Of a message that is not recorded, and of an event that is, it  *)
(* changes nothing.                                                         *)

\* The transaction inserts the event and reads the delivery ...
Ingest(m, e) ==
    /\ hook = None
    /\ m \in Recorded /\ <<m, e>> \notin events
    /\ hook' = [msg |-> m, event |-> e, newest |-> lastEventAt[m] <= e.at]
    /\ UNCHANGED <<config, job, reserved, accepted, lastEventAt, events, suppressed, dead>>

\* ... a transaction of the other worker commits in between ...
IngestMeanwhile(m, e) ==
    /\ hook # None /\ hook # [hook EXCEPT !.msg = m, !.event = e]
    /\ m \in Recorded /\ <<m, e>> \notin events
    /\ events' = events \cup {<<m, e>>}
    /\ lastEventAt' = [lastEventAt EXCEPT ![m] = IF @ <= e.at THEN e.at ELSE @]
    /\ suppressed' = (suppressed \/ e.hard)
    /\ UNCHANGED <<config, job, reserved, accepted, hook, dead>>

\* Fault: only the newest event counts for the suppression.
CommitEvent_NewestOnly ==
    /\ hook # None
    /\ events' = events \cup {<<hook.msg, hook.event>>}
    /\ lastEventAt' = [lastEventAt EXCEPT ![hook.msg] = IF hook.newest THEN hook.event.at ELSE @]
    /\ suppressed' = (suppressed \/ (hook.newest /\ hook.event.hard))
    /\ hook' = None
    /\ UNCHANGED <<config, job, reserved, accepted, dead>>

\* ... and this one writes by what it has read.
CommitEvent ==
    /\ hook # None
    /\ events' = events \cup {<<hook.msg, hook.event>>}
    /\ lastEventAt' = [lastEventAt EXCEPT ![hook.msg] = IF hook.newest THEN hook.event.at ELSE @]
    /\ suppressed' = (suppressed \/ hook.event.hard)
    /\ hook' = None
    /\ UNCHANGED <<config, job, reserved, accepted, dead>>

Rollback ==
    /\ hook # None
    /\ hook' = None
    /\ UNCHANGED <<config, job, reserved, accepted, lastEventAt, events, suppressed, dead>>

-------------------------------------------------------------------------------
Next ==
    \/ \E j \in Jobs : \/ Enqueue(j) \/ Reserve(j) \/ TryNext(j) \/ Deliver(j)
                       \/ RecordAccepted(j) \/ Stall(j) \/ OnFailed(j)
    \/ \E m \in Messages, e \in Events : Ingest(m, e) \/ IngestMeanwhile(m, e)
    \/ CommitEvent \/ Rollback

Spec == Init /\ [][Next]_deliveryVars

-------------------------------------------------------------------------------
(* Properties *)

\* Whatever the order in which events of one message arrive and commit, a hard
\* bounce or a complaint that is recorded stops further mail to the recipient.
HardBounceSuppresses == \A p \in events : p[2].hard => suppressed

\* A job ends accounted for: completed with its delivery in the ledger, or in
\* the dead-letter queue and then only after all its attempts.
JobAccounted ==
    \A j \in Jobs : /\ job[j].pc = "done" => \E p \in Providers : <<j, p>> \in Recorded
                    /\ j \in dead => job[j].pc = "failed" /\ job[j].made = Attempts

===============================================================================
