------------------------------ MODULE ChangeTrail ------------------------------
(***************************************************************************)
(* The two records of what requests change in one entity:                  *)
(* ChangeHistoryInterceptor, which reads the entity before and after the   *)
(* handler and stores the difference, and AuditInterceptor around it,      *)
(* which stores who did what and is not waited for.  Neither may fail the  *)
(* request.                                                                *)
(*                                                                         *)
(* The requests overlap, and each writes a value of its own.  The settings *)
(* of a module are the only entity with @TrackChanges: their routes have   *)
(* no parameter "id" and their answers no field of that name.              *)
(***************************************************************************)
EXTENDS Integers

CONSTANTS Calls,   \* requests
          Missing  \* no row, or a query for it that threw

VARIABLES entity,   \* the row, by who wrote it, or Missing
          call,     \* requests and the snapshots they have taken
          history,  \* change_history rows
          audit,    \* audit_log rows, by the request
          pending,  \* those that are being written
          swallowed \* history: a snapshot or a record was lost and nobody told

trailVars == <<entity, call, history, audit, pending, swallowed>>

\* Version 0 was there before.
Snapshots == {0, Missing} \cup Calls
Actions == {"CREATE", "UPDATE", "DELETE"}

Record == [action : Actions, from : Snapshots, to : Snapshots]

Idle == [at |-> "idle", method |-> "UPDATE", named |-> FALSE, old |-> Missing, new |-> Missing]

Call == [at : {"idle", "before", "handler", "after", "record", "answered", "refused"},
         method : Actions, \* POST, PUT or PATCH, DELETE
         named : BOOLEAN,  \* the route has the parameter that @TrackChanges names
         old : Snapshots, new : Snapshots]

TypeOK ==
    /\ entity \in Snapshots
    /\ call \in [Calls -> Call]
    /\ history \subseteq Record
    /\ audit \subseteq Calls /\ pending \subseteq Calls
    /\ swallowed \in BOOLEAN

Init ==
    /\ entity \in {0, Missing}
    /\ call = [c \in Calls |-> Idle]
    /\ history = {} /\ audit = {} /\ pending = {} /\ swallowed = FALSE

-------------------------------------------------------------------------------
(* ChangeHistoryInterceptor *)

\* What intercept takes a request for: without the parameter, for a CREATE.
ActionOf(c) ==
    IF call[c].method = "DELETE" \/ call[c].named THEN call[c].method ELSE "CREATE"

Begin(c) ==
    /\ call[c].at = "idle"
    /\ \E method \in Actions, named \in BOOLEAN :
         /\ method = "CREATE" => ~named
         /\ call' = [call EXCEPT ![c] = [Idle EXCEPT
                         !.at = IF named THEN "before" ELSE "handler",
                         !.method = method, !.named = named]]
    /\ UNCHANGED <<entity, history, audit, pending, swallowed>>

\* getEntitySnapshot: null if the query throws.
TakeOld(c) ==
    /\ call[c].at = "before"
    /\ \E thrown \in BOOLEAN :
         /\ call' = [call EXCEPT ![c].at = "handler",
                                 ![c].old = IF thrown THEN Missing ELSE entity]
         /\ swallowed' = (swallowed \/ thrown)
    /\ UNCHANGED <<entity, history, audit, pending>>

\* The handler creates what is not there, or changes what is; else, or if it throws,
\* nothing is recorded.
Handle(c) ==
    /\ call[c].at = "handler"
    /\ \/ /\ (call[c].method = "CREATE") = (entity = Missing)
          /\ entity' = IF call[c].method = "DELETE" THEN Missing ELSE c
          /\ call' = [call EXCEPT ![c].at = "after"]
       \/ /\ call' = [call EXCEPT ![c].at = "refused"]
          /\ UNCHANGED entity
    /\ UNCHANGED <<history, audit, pending, swallowed>>

\* Fault: the entity is found in a cache that the handler has not dropped.
NewSnapshot_Cached(c) ==
    IF ActionOf(c) = "DELETE" THEN Missing ELSE IF call[c].named THEN call[c].old ELSE entity

\* After a DELETE there are no fields.
NewSnapshot(c) == IF ActionOf(c) = "DELETE" THEN Missing ELSE entity

\* The entity is known by the parameter, or by the id of what the handler returned.
TakeNew(c) ==
    /\ call[c].at = "after"
    /\ \E thrown, returned \in BOOLEAN :
         IF call[c].named \/ returned
         THEN /\ call' = [call EXCEPT ![c].at = "record",
                                      ![c].new = IF thrown THEN Missing ELSE NewSnapshot(c)]
              /\ swallowed' = (swallowed \/ thrown)
              /\ UNCHANGED pending
         ELSE /\ call' = [call EXCEPT ![c].at = "answered"]
              /\ swallowed' = TRUE
              /\ pending' = pending \cup {c}
    /\ UNCHANGED <<entity, history, audit>>

\* diffFields: nothing is stored of fields that are as they were, whoever wrote them.
Recorded(c) ==
    IF ActionOf(c) # "DELETE" /\ call[c].old = call[c].new THEN {}
    ELSE {[action |-> ActionOf(c), from |-> call[c].old, to |-> call[c].new]}

\* recordChange, then the answer; AuditInterceptor starts its record and does not wait.
RecordChange(c) ==
    /\ call[c].at = "record"
    /\ \/ history' = history \cup Recorded(c) /\ UNCHANGED swallowed
       \/ swallowed' = TRUE /\ UNCHANGED history
    /\ call' = [call EXCEPT ![c].at = "answered"]
    /\ pending' = pending \cup {c}
    /\ UNCHANGED <<entity, audit>>

-------------------------------------------------------------------------------
(* AuditInterceptor.record *)

Audit(c) ==
    /\ c \in pending /\ pending' = pending \ {c}
    /\ \/ audit' = audit \cup {c} /\ UNCHANGED swallowed
       \/ swallowed' = TRUE /\ UNCHANGED audit
    /\ UNCHANGED <<entity, call, history>>

-------------------------------------------------------------------------------
Next ==
    \E c \in Calls : \/ Begin(c) \/ TakeOld(c) \/ Handle(c) \/ TakeNew(c)
                     \/ RecordChange(c) \/ Audit(c)

Spec == Init /\ [][Next]_trailVars

-------------------------------------------------------------------------------
(* Properties *)

Quiet == pending = {} /\ \A c \in Calls : call[c].at \in {"idle", "answered", "refused"}

\* "Audit answers who did what, change history answers what exactly changed"
\* (AuditInterceptor): when no request is under way and none has lost a record, each
\* that changed the entity is in the audit log, and what the entity now is, is in its
\* history, though the snapshots of overlapping requests mix.
TrailComplete ==
    Quiet /\ ~swallowed =>
        /\ audit = {c \in Calls : call[c].at = "answered"}
        /\ entity \in Calls => \E r \in history : r.to = entity
        /\ entity = Missing /\ audit # {} =>
               \E r \in history : r.action = "DELETE" /\ r.to = Missing

===============================================================================
