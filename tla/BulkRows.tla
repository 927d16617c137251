------------------------------- MODULE BulkRows -------------------------------
(***************************************************************************)
(* ImportService and BulkOperationsService: rows that are written one by   *)
(* one inside transactions, an error of one row being counted and the next *)
(* row tried.  An import logs that it started, writes its rows in batches, *)
(* a transaction each, and logs the outcome; a bulk operation is one       *)
(* transaction and logs nothing.                                           *)
(*                                                                         *)
(* PostgreSQL ends a transaction at the first statement that fails: the    *)
(* statements after it fail as well, and its COMMIT is a ROLLBACK that the *)
(* client is not told of.  A row that the database client itself turns     *)
(* away (Malformed) does not reach the database and does no such harm.     *)
(*                                                                         *)
(* Two calls overlap on the same keys: the second waits for a key the      *)
(* first has written, until the first ends or the two wait for each other. *)
(***************************************************************************)
EXTENDS Integers, Sequences

CONSTANTS Calls,
          Keys,      \* rows, by their unique field or their id
          Malformed, \* a row that the client turns away
          Files,     \* the sequences of rows that calls are given
          BatchSize

VARIABLES table,  \* keys that are committed; a deleted row keeps its key
          call    \* calls under way

bulkVars == <<table, call>>

\* bulkUpdate, bulkDelete, bulkRestore and bulkStatusChange are a "change" each.
Operations == {"import", "create", "change"}
Modes == {"plain", "skip", "overwrite"} \* skipDuplicates, updateExisting

Idle == [at |-> "idle", operation |-> "import", mode |-> "plain", rows |-> <<>>, next |-> 1,
         wrote |-> {}, aborted |-> FALSE, succeeded |-> 0, failed |-> 0, log |-> "none",
         done |-> {}]

Call == [at : {"idle", "look", "create", "update", "commit", "finish", "answered", "thrown"},
         operation : Operations, mode : Modes,
         rows : Files \cup {<<>>}, next : Nat \ {0},
         wrote : SUBSET Keys,  \* by the open transaction
         aborted : BOOLEAN,    \* the open transaction has failed
         succeeded : Nat, failed : Nat,
         log : {"none", "IMPORT_STARTED", "COMPLETED", "PARTIAL", "FAILED"},
         done : SUBSET Keys]   \* history: committed by it, or found there and skipped

TypeOK ==
    /\ table \subseteq Keys
    /\ call \in [Calls -> Call]

Init ==
    /\ table \in SUBSET Keys
    /\ call = [c \in Calls |-> Idle]

-------------------------------------------------------------------------------
(* Rows and batches *)

\* The rows are at hand: validateModel and the parsing of the file come before.
Begin(c) ==
    /\ call[c].at = "idle"
    /\ \E operation \in Operations, mode \in Modes, rows \in Files :
         /\ operation # "import" => mode = "plain"
         /\ call' = [call EXCEPT ![c] = [Idle EXCEPT
                        !.at = "look", !.operation = operation, !.mode = mode, !.rows = rows,
                        !.log = IF operation = "import" THEN "IMPORT_STARTED" ELSE "none"]]
    /\ UNCHANGED table

Row(c) == call[c].rows[call[c].next]
Seen(c, k) == k \in table \cup call[c].wrote
Locked(c, k) == \E d \in Calls \ {c} : k \in call[d].wrote
Waits(c) == call[c].at \in {"create", "update"} /\ Locked(c, Row(c))

\* Rows of one transaction.
Batch(c) == IF call[c].operation = "import" THEN BatchSize ELSE Len(call[c].rows)

\* Fault: a batch is cut one row short.
Following_ShortBatch(c) ==
    LET n == call[c].next
        skips == n < Len(call[c].rows) /\ (n + 1) % Batch(c) = 0
    IN [at |-> IF skips \/ n = Len(call[c].rows) \/ n % Batch(c) = 0 THEN "commit" ELSE "look",
        next |-> IF skips THEN n + 2 ELSE n + 1]

\* After a row comes the next of its batch, or the COMMIT.
Following(c) ==
    LET n == call[c].next
    IN [at |-> IF n = Len(call[c].rows) \/ n % Batch(c) = 0 THEN "commit" ELSE "look",
        next |-> n + 1]

Succeed(c, wrote, done) ==
    call' = [call EXCEPT ![c] = [call[c] EXCEPT
                !.at = Following(c).at, !.next = Following(c).next, !.succeeded = @ + 1,
                !.wrote = @ \cup wrote, !.done = @ \cup done]]

\* The catch of a row: counted, and the loop goes on.
FailRow(c, aborts) ==
    call' = [call EXCEPT ![c] = [call[c] EXCEPT
                !.at = Following(c).at, !.next = Following(c).next, !.failed = @ + 1,
                !.aborted = @ \/ aborts]]

-------------------------------------------------------------------------------
(* Statements *)

\* findFirst of an import that minds duplicates, findUnique of a change.
Look(c) ==
    LET k == Row(c)
        sent == k # Malformed /\ ~call[c].aborted
        change == call[c].operation = "change"
        mode == call[c].mode
    IN
    /\ call[c].at = "look"
    /\ \/ ~sent /\ FailRow(c, FALSE)
       \/ sent /\ change /\ ~Seen(c, k) /\ FailRow(c, FALSE)
       \/ /\ sent /\ ~change /\ (mode = "plain" \/ ~Seen(c, k))
          /\ call' = [call EXCEPT ![c].at = "create"]
       \/ /\ sent /\ Seen(c, k) /\ (change \/ mode = "overwrite")
          /\ call' = [call EXCEPT ![c].at = "update"]
       \/ sent /\ Seen(c, k) /\ mode = "skip" /\ Succeed(c, {}, {k} \cap table)
    /\ UNCHANGED table

\* create: the key may have been committed since it was looked for.
Create(c) ==
    /\ call[c].at = "create" /\ ~Waits(c)
    /\ IF Seen(c, Row(c)) THEN FailRow(c, TRUE) ELSE Succeed(c, {Row(c)}, {})
    /\ UNCHANGED table

Update(c) ==
    /\ call[c].at = "update" /\ ~Waits(c)
    /\ Succeed(c, {Row(c)}, {})
    /\ UNCHANGED table

\* Two transactions that wait for each other: the database fails one statement.
BreakDeadlock(c) ==
    /\ Waits(c) /\ \E d \in Calls \ {c} : Waits(d) /\ Row(d) \in call[c].wrote
    /\ FailRow(c, TRUE)
    /\ UNCHANGED table

\* The row breaks another constraint of the table.
Violate(c) ==
    /\ call[c].at \in {"create", "update"} /\ ~Waits(c)
    /\ FailRow(c, TRUE)
    /\ UNCHANGED table

\* COMMIT, which an aborted transaction answers as well.
Commit(c) ==
    LET kept == IF call[c].aborted THEN {} ELSE call[c].wrote IN
    /\ call[c].at = "commit"
    /\ table' = table \cup kept
    /\ call' = [call EXCEPT ![c] = [call[c] EXCEPT
                   !.at = IF call[c].next > Len(call[c].rows) THEN "finish" ELSE "look",
                   !.wrote = {}, !.aborted = FALSE, !.done = @ \cup kept]]

\* The outcome, and for an import the log of it.
Finish(c) ==
    /\ call[c].at = "finish"
    /\ call' = [call EXCEPT ![c] = [call[c] EXCEPT
                   !.at = "answered",
                   !.log = IF @ = "none" THEN @
                           ELSE IF call[c].failed = 0 THEN "COMPLETED"
                           ELSE IF call[c].succeeded > 0 THEN "PARTIAL" ELSE "FAILED"]]
    /\ UNCHANGED table

\* A transaction is given up (it may last five seconds), or the log is not written:
\* the call throws, and the log of an import stays as it is.
Throw(c) ==
    /\ call[c].at \in {"look", "create", "update", "commit", "finish"}
    /\ call' = [call EXCEPT ![c] = [call[c] EXCEPT !.at = "thrown", !.wrote = {}, !.aborted = FALSE]]
    /\ UNCHANGED table

-------------------------------------------------------------------------------
Next ==
    \E c \in Calls : \/ Begin(c) \/ Look(c) \/ Create(c) \/ Update(c) \/ BreakDeadlock(c)
                     \/ Violate(c) \/ Commit(c) \/ Finish(c) \/ Throw(c)

Spec == Init /\ [][Next]_bulkVars

-------------------------------------------------------------------------------
(* Properties *)

\* What processImport reports of all rows is so, whatever another call does to them
\* meanwhile: an import that is COMPLETED has every row in the table, one that FAILED
\* has put none there.  So have bulk operations with none, or all, failed.  (Of a
\* PARTIAL one the numbers say little: rows counted before the transaction failed are
\* rolled back with it.)
OutcomeTrue ==
    \A c \in Calls : call[c].at = "answered" =>
        /\ call[c].failed = 0 =>
               \A i \in DOMAIN call[c].rows : call[c].rows[i] \in call[c].done \cap table
        /\ call[c].succeeded = 0 => call[c].done = {}

===============================================================================
