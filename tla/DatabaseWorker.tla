--------------------------- MODULE DatabaseWorker ---------------------------
(***************************************************************************)
(* The worker thread of a DatabaseSession: it runs the DatabaseRequests of *)
(* all threads one by one against SQLite and batches them in transactions. *)
(*                                                                         *)
(* Threads: one calling thread per request, the worker, and the GUI thread *)
(* that destroys the session.  m_workerLock is held for reading by callers *)
(* inside DatabaseSession::request and by maintenance requests inside      *)
(* disable() and enable(), and for writing by the destructor, which waits  *)
(* for the worker.  An action is what a thread does between two points     *)
(* where another thread can interfere.                                     *)
(*                                                                         *)
(* A request writes one record, itself; a row of a node, a site or a key   *)
(* that it adds on its way is not one, nor a cache entry that it removes.  *)
(* Only an import writes several.  "pending" are the requests with records *)
(* in the open transaction, "store" those with records that survive a      *)
(* crash or the end.                                                       *)
(*                                                                         *)
(* COMMIT and ROLLBACK are taken to succeed; BEGIN may fail.  The query    *)
(* object of the worker remembers the error of its last statement until    *)
(* the next one is executed; commit() turns into a rollback if there is    *)
(* one.  Without an open transaction nothing depends on it.                *)
(***************************************************************************)
EXTENDS Integers, Sequences, FiniteSets

CONSTANTS
    Reqs,        \* request objects; each is executed at most once
    Kinds,       \* subset of AllKinds: the classes of requests in use
    BatchLimit,  \* a batch is committed when qcnt exceeds it (200)
    QueueLimit,  \* callers wait while the queue is this long (100000)
    None

\* plain:  statements in the transaction of the worker
\* bulk:   transaction() ... commit() inside run (vehicle and mission saving,
\*         tables, indices, the telemetry cache, vacuum); an update, or
\*         nothing, if it is there already
\* import: DBReqImportVehicleConfig, which runs several bulk requests
\* trash:  DBReqTelemetryEmptyTrash and EmptyCache, one commit per record
\* fields: DBReqTelemetryUpdateMandala that removes deprecated fields
AllKinds == {"plain", "bulk", "import", "trash", "fields"}

\* Requests that disable the session while they run
Maintenance == {"trash", "fields"}

ASSUME ConstantsAssumption ==
    /\ Kinds \subseteq AllKinds
    /\ BatchLimit \in Nat
    /\ QueueLimit \in Nat \ {0}
    /\ None \notin Reqs \cup {"Success", "Error", "Discarded", "true", "false"}

VARIABLES
    caller,         \* where the calling thread of a request is
    kind,           \* class of the request
    sync,           \* isSynchronous: the caller waits for the reply
    alive,          \* the request object exists
    discarded,      \* m_discarded
    reply,          \* status of finished(), None before
    told,           \* value of m_finishedPromise, None before
    queue,          \* DatabaseWorker::queue
    pc,             \* where the worker thread is
    current,        \* DatabaseWorker::run, req (a local of the loop body)
    result,         \* DatabaseWorker::run, rv
    qcnt,           \* DatabaseWorker::run, qcnt
    bEmpty,         \* DatabaseWorker::run, bEmpty
    inTransaction,  \* DatabaseSession::inTransaction
    lastError,      \* the last statement in the open transaction has failed
    pending,        \* requests with writes in the open transaction
    store,          \* requests with writes that are committed
    bare,           \* requests that ran outside of any transaction
    enabled,        \* DatabaseSession::enabled()
    session         \* the destructor: not called yet, asking for the lock,
                    \* waiting for the worker, done

callVars == <<caller, kind, sync>>
objVars  == <<alive, discarded, reply, told>>
runVars  == <<pc, current, result, qcnt, bEmpty>>
dataVars == <<inTransaction, lastError, pending, store, bare>>
vars == <<caller, kind, sync, alive, discarded, reply, told, queue, pc,
          current, result, qcnt, bEmpty, inTransaction, lastError, pending,
          store, bare, enabled, session>>

\* Requests whose caller has passed DatabaseSession::request
Accepted == {r \in Reqs : caller[r] \in {"waiting", "returned"}}

TypeOK ==
    /\ caller \in [Reqs -> {"new", "inside", "waiting", "returned", "dropped"}]
    /\ kind \in [Reqs -> Kinds \cup {None}]
    /\ sync \in [Reqs -> BOOLEAN]
    /\ alive \in [Reqs -> BOOLEAN]
    /\ discarded \subseteq Reqs
    /\ reply \in [Reqs -> {"Success", "Error", "Discarded", None}]
    /\ told \in [Reqs -> {"true", "false", None}]
    /\ queue \in Seq(Reqs)
    /\ pc \in {"loop", "run", "busy", "finish", "release", "check",
               "stopped", "crashed"}
    /\ current \in Reqs \cup {None}
    /\ result \in {"ok", "error", "skip"}
    /\ qcnt \in 0 .. BatchLimit + 1
    /\ bEmpty \in BOOLEAN
    /\ inTransaction \in BOOLEAN
    /\ lastError \in BOOLEAN
    /\ pending \subseteq Reqs
    /\ store \subseteq Reqs
    /\ bare \subseteq Reqs
    /\ enabled \in BOOLEAN
    /\ session \in {"open", "locking", "closing", "closed"}

Init ==
    /\ caller = [r \in Reqs |-> "new"]
    /\ kind = [r \in Reqs |-> None]
    /\ sync = [r \in Reqs |-> FALSE]
    /\ alive = [r \in Reqs |-> TRUE]
    /\ discarded = {}
    /\ reply = [r \in Reqs |-> None]
    /\ told = [r \in Reqs |-> None]
    /\ queue = <<>>
    /\ pc = "loop"
    /\ current = None
    /\ result = "ok"
    /\ qcnt = 0
    /\ bEmpty = TRUE
    /\ inTransaction = FALSE
    /\ lastError = FALSE
    /\ pending = {}
    /\ store = {}
    /\ bare = {}
    /\ enabled = TRUE
    /\ session = "open"

-----------------------------------------------------------------------------
(* Calling threads *)

\* m_workerLock can be taken for reading: a writer waiting for it comes first.
Readable == session = "open"

\* DatabaseSession::request: with the lock held, a request to a disabled
\* session is dropped without a word; its object is leaked, and a
\* synchronous caller waits forever.
Enter(r, k, s) ==
    /\ caller[r] = "new"
    /\ Readable
    /\ s => k \notin Maintenance
    /\ IF enabled
         THEN /\ caller' = [caller EXCEPT ![r] = "inside"]
              /\ kind' = [kind EXCEPT ![r] = k]
              /\ sync' = [sync EXCEPT ![r] = s]
         ELSE caller' = [caller EXCEPT ![r] = "dropped"] /\ UNCHANGED <<kind, sync>>
    /\ UNCHANGED <<objVars, runVars, dataVars, queue, enabled, session>>

\* DatabaseWorker::request: the request is queued and the worker woken.
Enqueue(r) ==
    /\ caller[r] = "inside"
    /\ caller' = [caller EXCEPT ![r] = "waiting"]
    /\ queue' = Append(queue, r)
    /\ UNCHANGED <<objVars, runVars, dataVars, kind, sync, enabled, session>>

\* The caller leaves when the queue is short again; the lock is held until
\* then, so that no end of the worker can be asked for meanwhile.
Return(r) ==
    /\ caller[r] = "waiting"
    /\ Len(queue) < QueueLimit
    /\ caller' = [caller EXCEPT ![r] = "returned"]
    /\ UNCHANGED <<objVars, runVars, dataVars, kind, sync, queue, enabled,
                   session>>

\* execSynchronous returns: the request, a local variable of the caller, is
\* gone.
Destroy(r) ==
    /\ caller[r] = "returned"
    /\ sync[r]
    /\ alive[r]
    /\ told[r] # None
    /\ alive' = [alive EXCEPT ![r] = FALSE]
    /\ UNCHANGED <<callVars, runVars, dataVars, discarded, reply, told,
                   queue, enabled, session>>

\* The slot discard(), from the user or from a newer query of the view; nobody
\* reads the flag after the answer.
Discard(r) ==
    /\ r \in Accepted
    /\ kind[r] \in {"plain", "bulk", "trash"}
    /\ ~sync[r]
    /\ alive[r]
    /\ reply[r] = None
    /\ r \notin discarded
    /\ discarded' = discarded \cup {r}
    /\ UNCHANGED <<callVars, runVars, dataVars, alive, reply, told, queue,
                   enabled, session>>

-----------------------------------------------------------------------------
(* The session is destroyed *)

\* ~DatabaseSession asks for the lock.
Close ==
    /\ session = "open"
    /\ session' = "locking"
    /\ UNCHANGED <<callVars, objVars, runVars, dataVars, queue, enabled>>

\* m_workerLock can be taken for writing: no caller is inside.
Writable == \A r \in Reqs : caller[r] \notin {"inside", "waiting"}

\* With the lock, no caller being inside, ~DatabaseWorker asks the thread to
\* end and waits for it.
Interrupt ==
    /\ session = "locking"
    /\ Writable
    /\ session' = "closing"
    /\ UNCHANGED <<callVars, objVars, runVars, dataVars, queue, enabled>>

\* The thread has ended; the connection is closed and SQLite undoes the
\* transaction that is still open.
Closed ==
    /\ session = "closing"
    /\ pc = "stopped"
    /\ session' = "closed"
    /\ inTransaction' = FALSE
    /\ lastError' = FALSE
    /\ pending' = {}
    /\ UNCHANGED <<callVars, objVars, runVars, store, bare, queue, enabled>>

-----------------------------------------------------------------------------
(* The worker thread.  Waiting for a request changes no state and ends     *)
(* after a second at the latest, so that a wake-up that comes before the   *)
(* wait is not lost.                                                       *)

\* A slip: pop_front is forgotten.
FrontOnly == current' = Head(queue) /\ queue' = queue

\* A slip: the youngest is taken first.
PopLast == current' = queue[Len(queue)] /\ queue' = SubSeq(queue, 1, Len(queue) - 1)

PopFront == current' = Head(queue) /\ queue' = Tail(queue)

\* The count starts again when the queue was empty after the last request.
Count == qcnt' = IF bEmpty THEN 0 ELSE qcnt + 1

\* The next request was discarded while it waited: it is not run, and the
\* end of the batch is not looked for.
TakeDiscarded ==
    /\ pc = "loop"
    /\ session # "closing"
    /\ queue # <<>>
    /\ Head(queue) \in discarded
    /\ PopFront
    /\ result' = "skip"
    /\ pc' = "finish"
    /\ UNCHANGED <<callVars, objVars, dataVars, qcnt, bEmpty, enabled,
                   session>>

\* The next request is taken and a transaction begun, unless one is open.
\* If BEGIN fails, the request is run all the same, without one.
Take ==
    /\ pc = "loop"
    /\ session # "closing"
    /\ queue # <<>>
    /\ Head(queue) \notin discarded
    /\ PopFront
    /\ pc' = "run"
    /\ Count
    /\ inTransaction' \in {inTransaction, TRUE}
    /\ bare' = IF inTransaction' THEN bare ELSE bare \cup {Head(queue)}
    /\ UNCHANGED <<callVars, objVars, result, bEmpty, lastError, pending,
                   store, enabled, session>>

-----------------------------------------------------------------------------
(* What run() of the current request has done to the database when it      *)
(* returns: the outcomes for each class of request.                        *)

\* Nothing is written; f: the last statement has failed.
Untouched(f) == [open |-> inTransaction, pending |-> pending, store |-> store,
                 bare |-> bare, failed |-> f]

\* Without any statement the error of an earlier one is kept.
Nothing == {Untouched(FALSE), Untouched(lastError)}

\* Statements in the transaction of the worker, if there is one
Written(f) ==
    [open    |-> inTransaction,
     pending |-> pending \cup IF inTransaction THEN {current} ELSE {},
     store   |-> store \cup IF inTransaction THEN {} ELSE {current},
     bare    |-> bare,
     failed  |-> f]

\* What is committed when transaction() or commit() ends the batch that is
\* open: all of it, but nothing after an error.  Of the requests that can find
\* an error of an earlier one only some bulk requests begin without a
\* statement of their own.
Flushed == {store \cup pending}
              \cup (IF lastError /\ kind[current] = "bulk" THEN {store} ELSE {})

\* All transactions are ended; own is what the request has committed.
Closing(s, own, b) == [open |-> FALSE, pending |-> {}, store |-> s \cup own,
                       bare |-> b, failed |-> FALSE]

\* The transaction of the request is left open.
LeftOpen(s, f) == [open |-> TRUE, pending |-> {current}, store |-> s,
                   bare |-> bare, failed |-> f]

\* transaction(), which ends the batch, statements, commit()
Committed == {Closing(s, {current}, bare) : s \in Flushed}

\* Only the batch is ended: by vacuum, or by a cache that is discarded while it
\* is made.
Ended == {Closing(s, {}, bare) : s \in Flushed}

\* The own transaction is left open.
Unfinished == {LeftOpen(s, FALSE) : s \in Flushed}

\* A statement has failed after transaction(); BEGIN may have failed, too.
Broken == Unfinished
            \cup {Closing(s, {current}, bare \cup {current}) : s \in Flushed}

\* An import ends with the first of its requests that fails, by an SQL error
\* or for another reason, and any of them may have ended the batch before.
Imported ==
    LET batch == store \cup pending
        more  == batch \cup {current}
    IN  {Untouched(f) : f \in BOOLEAN} \cup {Written(f) : f \in BOOLEAN}
          \cup {Closing(batch, {}, bare), Closing(batch, {current}, bare)}
          \cup {LeftOpen(batch, f) : f \in BOOLEAN} \cup {LeftOpen(more, f) : f \in BOOLEAN}

\* A node configuration without known fields is left in an open transaction
\* and reported as saved; so is an import in which a node has failed.
Successes(k) ==
    CASE k = "plain"  -> Nothing \cup {Written(FALSE)}
      [] k = "bulk"   -> Nothing \cup {Written(FALSE)} \cup Committed \cup Ended
                           \cup Unfinished
      [] k = "import" -> Nothing \cup Imported
      [] k = "trash"  -> {Untouched(FALSE)} \cup Committed
      [] k = "fields" -> {Written(FALSE)} \cup Committed

\* What has failed is rolled back, with the error.  An earlier statement may
\* fail before any write.
Failures(k) ==
    CASE k = "plain"  -> {Untouched(TRUE), Written(TRUE)}
      [] k = "bulk"   -> {Untouched(TRUE)} \cup Broken
      [] k = "import" -> Imported
      [] k = "trash"  -> {Untouched(TRUE)} \cup Committed \cup Broken
      [] k = "fields" -> {Untouched(TRUE), Written(TRUE)} \cup Committed \cup Broken

\* A slip: the batch is left as run() left it.
UndoneNever(ok) == FALSE

\* Whether the worker rolls back after run()
Undone(ok) == ~ok \/ current \in discarded

\* The worker with the outcome: an error or a request that was discarded
\* meanwhile rolls back the open transaction, with what the requests before
\* it wrote there.
Judge(ok, o) ==
    /\ result' = IF ok THEN "ok" ELSE "error"
    /\ pc' = "finish"
    /\ store' = o.store
    /\ bare' = o.bare
    /\ IF Undone(ok)
         THEN inTransaction' = FALSE /\ pending' = {} /\ lastError' = FALSE
         ELSE /\ inTransaction' = o.open
              /\ pending' = o.pending
              /\ lastError' = (o.open /\ o.failed)

\* run() of a request that does not disable the session
Run ==
    /\ pc = "run"
    /\ kind[current] \notin Maintenance
    /\ \/ \E o \in Successes(kind[current]) : Judge(TRUE, o)
       \/ \E o \in Failures(kind[current]) : Judge(FALSE, o)
    /\ UNCHANGED <<callVars, objVars, queue, current, qcnt, bEmpty, enabled,
                   session>>

\* run() of a maintenance request starts with disable(), which needs the
\* lock; until enable() every request to the session is dropped.
Disable ==
    /\ pc = "run"
    /\ kind[current] \in Maintenance
    /\ Readable
    /\ enabled' = FALSE
    /\ pc' = "busy"
    /\ UNCHANGED <<callVars, objVars, dataVars, queue, current, result, qcnt,
                   bEmpty, session>>

\* The end of a maintenance request: enable() needs the lock again.
Enable ==
    /\ pc = "busy"
    /\ Readable
    /\ enabled' = TRUE
    /\ \/ \E o \in Successes(kind[current]) : Judge(TRUE, o)
       \/ /\ kind[current] = "trash"
          /\ \E o \in Failures("trash") : Judge(FALSE, o)
    /\ UNCHANGED <<callVars, objVars, queue, current, qcnt, bEmpty, session>>

\* A statement of the field update fails: it returns without enable().
FailDisabled ==
    /\ pc = "busy"
    /\ kind[current] = "fields"
    /\ \E o \in Failures("fields") : Judge(FALSE, o)
    /\ UNCHANGED <<callVars, objVars, queue, current, qcnt, bEmpty, enabled,
                   session>>

-----------------------------------------------------------------------------
\* A slip: the promise does not depend on the result.
PromiseTrue == IF sync[current] THEN "true" ELSE None

\* The value of the promise of a synchronous request
Promise == IF ~sync[current] THEN None
           ELSE IF result = "error" THEN "false" ELSE "true"

\* DatabaseRequest::finish: the promise is set, from when on the caller may
\* destroy the request, and the signal sent.  A request that is discarded
\* only now is reported as discarded although its writes stay.
Finish ==
    /\ pc = "finish"
    /\ reply' = [reply EXCEPT ![current] =
                   IF current \in discarded THEN "Discarded"
                   ELSE IF result = "error" THEN "Error" ELSE "Success"]
    /\ told' = [told EXCEPT ![current] = Promise]
    /\ pc' = "release"
    /\ UNCHANGED <<callVars, dataVars, alive, discarded, queue, current,
                   result, qcnt, bEmpty, enabled, session>>

\* The worker reads isSynchronous and deletes the request if it is not.  If
\* the caller has destroyed it already, what is read is undefined: the worker
\* carries on, or deletes a local variable of another thread.
ReleaseRequest ==
    /\ pc = "release"
    /\ alive' = [alive EXCEPT ![current] = @ /\ sync[current]]
    /\ \/ pc' = IF result = "skip" THEN "loop" ELSE "check"
       \/ ~alive[current] /\ pc' = "crashed"
    /\ current' = None
    /\ UNCHANGED <<callVars, dataVars, discarded, reply, told, queue, result,
                   qcnt, bEmpty, enabled, session>>

\* A slip: only a full batch is committed.
BatchFull == qcnt > BatchLimit

\* The batch ends when the queue is empty or the batch is full.
BatchEnds == queue = <<>> \/ qcnt > BatchLimit

\* A slip: the batch is rolled back, as after an error.
CommitForced ==
    /\ pending' = {}
    /\ inTransaction' = FALSE
    /\ lastError' = FALSE
    /\ UNCHANGED store

\* commit() rolls back if the last statement has failed: the batch of an import
\* that was reported as done, although one of its requests failed.
CommitBatch ==
    /\ store' = IF lastError THEN store ELSE store \cup pending
    /\ pending' = {}
    /\ inTransaction' = FALSE
    /\ lastError' = FALSE

CheckBatch ==
    /\ pc = "check"
    /\ bEmpty' = (queue = <<>>)
    /\ IF BatchEnds
         THEN qcnt' = 0 /\ CommitBatch
         ELSE UNCHANGED <<qcnt, store, pending, inTransaction, lastError>>
    /\ pc' = "loop"
    /\ result' = "ok"
    /\ UNCHANGED <<callVars, objVars, queue, current, bare, enabled, session>>

\* A slip: the queue is thrown away.
DrainForgets ==
    /\ pc = "loop"
    /\ session = "closing"
    /\ queue # <<>>
    /\ queue' = <<>>
    /\ UNCHANGED <<callVars, objVars, dataVars, pc, current, result, qcnt,
                   bEmpty, enabled, session>>

\* After the loop, the requests left are discarded and finished.
Drain ==
    /\ pc = "loop"
    /\ session = "closing"
    /\ queue # <<>>
    /\ PopFront
    /\ discarded' = discarded \cup {Head(queue)}
    /\ result' = "skip"
    /\ pc' = "finish"
    /\ UNCHANGED <<callVars, dataVars, alive, reply, told, qcnt, bEmpty,
                   enabled, session>>

\* A slip: the end waits for a commit that nobody makes.
StopCommitted ==
    /\ pc = "loop"
    /\ session = "closing"
    /\ queue = <<>>
    /\ ~inTransaction
    /\ pc' = "stopped"
    /\ UNCHANGED <<callVars, objVars, dataVars, queue, current, result, qcnt,
                   bEmpty, enabled, session>>

\* The thread ends; nothing commits the transaction that may be open.
Stop ==
    /\ pc = "loop"
    /\ session = "closing"
    /\ queue = <<>>
    /\ pc' = "stopped"
    /\ UNCHANGED <<callVars, objVars, dataVars, queue, current, result, qcnt,
                   bEmpty, enabled, session>>

-----------------------------------------------------------------------------
Worker ==
    \/ TakeDiscarded \/ Take \/ Run \/ Disable \/ Enable \/ FailDisabled
    \/ Finish \/ ReleaseRequest \/ CheckBatch \/ Drain \/ Stop

Caller(r) ==
    \/ \E k \in Kinds, s \in BOOLEAN : Enter(r, k, s)
    \/ Enqueue(r) \/ Return(r) \/ Destroy(r) \/ Discard(r)

Next ==
    \/ \E r \in Reqs : Caller(r)
    \/ Close \/ Interrupt \/ Closed
    \/ Worker

Spec == Init /\ [][Next]_vars

\* The worker thread runs, a caller leaves once it can, and the destructor
\* gets the lock when the callers have left.
FairSpec ==
    /\ Spec
    /\ WF_vars(Worker)
    /\ WF_vars(Interrupt)
    /\ WF_vars(Closed)
    /\ \A r \in Reqs : WF_vars(Enqueue(r)) /\ WF_vars(Return(r))

-----------------------------------------------------------------------------
(* Properties *)

\* The request the worker has in hand and has not answered yet
InHand(r) == r = current /\ pc \in {"run", "busy", "finish"}

InQueue(r) == \E i \in 1 .. Len(queue) : queue[i] = r

\* No request is lost, and none is answered twice: one that was accepted is
\* in the queue, in hand or answered, and only in one of the three.  The
\* callers' bookkeeping, and the promise that may be set only once, rest on
\* it.
AnsweredOnce ==
    /\ \A i, j \in 1 .. Len(queue) : queue[i] = queue[j] => i = j
    /\ \A r \in Reqs : InQueue(r) => ~InHand(r)
    /\ \A r \in Reqs :
          reply[r] # None <=> r \in Accepted /\ ~InQueue(r) /\ ~InHand(r)

\* A request that was reported as an error has left nothing in the database,
\* if it did not run in autocommit mode and is not a maintenance request; only
\* an import may have committed some of its nodes before it failed.
ErrorLeavesNothing ==
    \A r \in Reqs : reply[r] = "Error" /\ kind[r] \notin Maintenance
        => r \notin pending /\ (r \in store => r \in bare \/ kind[r] = "import")

\* The open transaction is bounded: a power failure or a later error costs
\* at most BatchLimit + 2 requests.
BatchBounded == Cardinality(pending) <= BatchLimit + 2

\* The worker waits with uncommitted writes only if the last request it took
\* had been discarded in the queue.  (Then they stay uncommitted until another
\* request comes, and are lost if none does.)
IdleIsCommitted ==
    pc = "loop" /\ queue = <<>> /\ pending # {} => result = "skip"

\* A synchronous caller that is told "true" has its request done, if it is an
\* import with what could be imported - unless the session is being destroyed,
\* when a request that never ran is also reported as done.
ToldTheTruth ==
    \A r \in Reqs : told[r] = "true"
        => reply[r] = "Success" \/ session \in {"closing", "closed"}

\* An import was reported as done.
ImportDone == \E r \in Reqs : kind[r] = "import" /\ reply[r] = "Success"

\* What is committed stays, and a write reported as Success is undone only
\* by an error or a discarded request later in its batch, when the session is
\* destroyed, or because an import in its batch was reported as Success too
\* although a statement of it had failed: the commit of the batch sees the
\* error and rolls back.  (What an import loses besides the nodes that it has
\* committed is not followed.)
LossHasCause ==
    [][/\ store \subseteq store'
       /\ \A r \in pending \ (pending' \cup store') : reply[r] = "Success" =>
            \/ pc' = "finish" /\ (result' = "error" \/ current \in discarded)
            \/ session' = "closed"
            \/ lastError /\ ImportDone]_vars

\* The requests not answered, and how the one in hand was served
Unanswered == (IF InHand(current) THEN <<current>> ELSE <<>>) \o queue
Served == IF pc = "finish" THEN result ELSE "waiting"

Imports == {r \in Accepted : kind[r] = "import"}

Group == INSTANCE GroupCommit
    WITH line <- Unanswered, stage <- Served, answer <- reply, batch <- pending,
         disk <- store, several <- Imports, torn <- lastError, open <- session # "closed"

\* With all its threads, points of failure and commits inside of requests, the
\* session keeps the promise of GroupCommit.
ImplementsGroupCommit == Group!GroupSpec

\* The worker has crashed (ReleaseRequest), or is in a maintenance request
\* that needs the lock the destructor holds or waits for.
Stuck ==
    \/ pc = "crashed"
    \/ pc \in {"run", "busy"} /\ kind[current] \in Maintenance /\ ~Readable

\* Every accepted request is answered, also when the session is destroyed
\* meanwhile; the two known ways in which the worker hangs are the only ones.
\* (Only the answer ends the wait, so that it is over once it is not for ever.)
EveryRequestAnswered ==
    \A r \in Reqs :
       []<>(caller[r] \in {"new", "dropped"} \/ reply[r] # None \/ Stuck)

\* The destructor of the session ends, with the same two exceptions.
CloseEnds == []<>(session \in {"open", "closed"} \/ Stuck)
=============================================================================
