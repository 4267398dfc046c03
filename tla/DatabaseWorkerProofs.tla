------------------------ MODULE DatabaseWorkerProofs ------------------------
(***************************************************************************)
(* Proofs about DatabaseWorker, for any number of requests and any limits. *)
(*                                                                         *)
(* The invariants are about three different things - where a request is,   *)
(* what it has written, how large a batch is - and are proved one after    *)
(* the other, each for every action.                                       *)
(***************************************************************************)
EXTENDS DatabaseWorker, FiniteSetTheorems, TLAPS

\* Where a request is: only an accepted one is in the queue, in hand or
\* discarded, and its class is known from when its caller is inside.
PlaceInv ==
    /\ \A r \in Reqs : InQueue(r) \/ r = current => r \in Accepted
    /\ current = None <=> pc \in {"loop", "check", "stopped", "crashed"}
    /\ \A r \in Reqs : caller[r] \in {"inside", "waiting", "returned"} => kind[r] \in Kinds
    /\ discarded \subseteq Accepted

\* What has been written: nothing by a request before it has run; by one that
\* has failed, only what it wrote outside of any transaction.
WrittenInv ==
    /\ \A r \in pending \cup store :
          r \in Accepted /\ ~InQueue(r) /\ (r = current => pc \notin {"run", "busy"})
    /\ pc = "run" /\ ~inTransaction => current \in bare
    /\ pc = "finish" /\ result = "error" /\ kind[current] \notin Maintenance
          => /\ current \notin pending
             /\ current \in store => current \in bare \/ kind[current] = "import"

\* The error that commit() finds in an open transaction is that of an import
\* that is, or is about to be, reported as done.
FailedInv ==
    lastError => \E r \in Imports :
                    \/ reply[r] = "Success"
                    \/ r = current /\ pc = "finish" /\ result = "ok" /\ r \notin discarded

\* A synchronous request is only discarded when the session is destroyed.
SyncInv == \A r \in discarded : sync[r] => session \in {"closing", "closed"}

\* The worker has run nothing since the end of a batch was last looked for.
Between == pc = "loop" \/ (pc \in {"finish", "release"} /\ result = "skip")

\* How large a batch is: qcnt counts its requests, but for the first one.
BatchInv ==
    /\ IsFiniteSet(pending)
    /\ Cardinality(pending) <= IF pc \in {"run", "busy"} THEN qcnt ELSE qcnt + 1
    /\ Between => qcnt <= BatchLimit /\ (bEmpty => pending = {})

\* The inductive invariant
IInv ==
    /\ TypeOK
    /\ PlaceInv
    /\ AnsweredOnce
    /\ WrittenInv
    /\ ErrorLeavesNothing
    /\ FailedInv
    /\ SyncInv
    /\ ToldTheTruth
    /\ IdleIsCommitted
    /\ BatchInv

-----------------------------------------------------------------------------
(* The queue *)

\* The requests in the queue differ.
Distinct == \A i, j \in 1 .. Len(queue) : queue[i] = queue[j] => i = j

\* What is appended is in the queue, besides what was there.
LEMMA AppendQueue ==
  ASSUME queue \in Seq(Reqs), NEW r \in Reqs, queue' = Append(queue, r),
         ~InQueue(r), Distinct
  PROVE  /\ queue' \in Seq(Reqs)
         /\ \A x \in Reqs : InQueue(x)' <=> InQueue(x) \/ x = r
         /\ Distinct'
<1>1. /\ queue' \in Seq(Reqs)
      /\ Len(queue') = Len(queue) + 1
      /\ Len(queue) \in Nat
      /\ \A i \in 1 .. Len(queue) : queue'[i] = queue[i]
      /\ queue'[Len(queue) + 1] = r
  OBVIOUS
<1>2. ASSUME NEW x \in Reqs  PROVE InQueue(x)' <=> InQueue(x) \/ x = r
  <2>1. ASSUME InQueue(x) \/ x = r  PROVE InQueue(x)'
    <3>1. CASE x = r
      <4>1. Len(queue) + 1 \in 1 .. Len(queue')
        BY <1>1
      <4>2. QED
        BY <1>1, <3>1, <4>1 DEF InQueue
    <3>2. CASE InQueue(x)
      <4>1. PICK i \in 1 .. Len(queue) : queue[i] = x
        BY <3>2 DEF InQueue
      <4>2. i \in 1 .. Len(queue') /\ queue'[i] = x
        BY <1>1, <4>1
      <4>3. QED
        BY <4>2 DEF InQueue
    <3>3. QED
      BY <2>1, <3>1, <3>2
  <2>2. ASSUME InQueue(x)'  PROVE InQueue(x) \/ x = r
    <3>1. PICK i \in 1 .. Len(queue') : queue'[i] = x
      BY <2>2 DEF InQueue
    <3>2. i \in 1 .. Len(queue) \/ i = Len(queue) + 1
      BY <1>1, <3>1
    <3>3. QED
      BY <1>1, <3>1, <3>2 DEF InQueue
  <2>3. QED
    BY <2>1, <2>2
<1>3. Distinct'
  <2> SUFFICES ASSUME NEW i \in 1 .. Len(queue'), NEW j \in 1 .. Len(queue'),
                      queue'[i] = queue'[j]
               PROVE  i = j
    BY DEF Distinct
  <2>1. /\ i \in 1 .. Len(queue) \/ i = Len(queue) + 1
        /\ j \in 1 .. Len(queue) \/ j = Len(queue) + 1
    BY <1>1
  <2>2. \A n \in 1 .. Len(queue) : queue[n] # r
    BY DEF InQueue
  <2>3. QED
    BY <1>1, <2>1, <2>2 DEF Distinct
<1>4. QED
  BY <1>1, <1>2, <1>3

\* What is taken from the queue was its head, and is not in it any more.
LEMMA PopQueue ==
  ASSUME queue \in Seq(Reqs), queue # <<>>, queue' = Tail(queue), Distinct
  PROVE  /\ queue' \in Seq(Reqs)
         /\ Head(queue) \in Reqs
         /\ InQueue(Head(queue))
         /\ \A x \in Reqs : InQueue(x)' <=> InQueue(x) /\ x # Head(queue)
         /\ Distinct'
<1> DEFINE h == Head(queue)
<1>1. /\ queue' \in Seq(Reqs)
      /\ Len(queue) \in Nat /\ 1 \in 1 .. Len(queue)
      /\ Len(queue') = Len(queue) - 1
      /\ h = queue[1]
      /\ h \in Reqs
      /\ \A i \in 1 .. Len(queue') : queue'[i] = queue[i + 1]
  OBVIOUS
<1> HIDE DEF h
<1>2. InQueue(h)
  BY <1>1 DEF InQueue
<1>3. ASSUME NEW x \in Reqs  PROVE InQueue(x)' <=> InQueue(x) /\ x # h
  <2>1. ASSUME InQueue(x), x # h  PROVE InQueue(x)'
    <3>1. PICK i \in 1 .. Len(queue) : queue[i] = x
      BY <2>1 DEF InQueue
    <3>2. i # 1
      BY <1>1, <2>1, <3>1
    <3>3. i - 1 \in 1 .. Len(queue') /\ (i - 1) + 1 = i
      BY <1>1, <3>1, <3>2
    <3>4. queue'[i - 1] = x
      BY <1>1, <3>1, <3>3
    <3>5. QED
      BY <3>3, <3>4 DEF InQueue
  <2>2. ASSUME InQueue(x)'  PROVE InQueue(x) /\ x # h
    <3>1. PICK i \in 1 .. Len(queue') : queue'[i] = x
      BY <2>2 DEF InQueue
    <3>2. i + 1 \in 1 .. Len(queue) /\ queue[i + 1] = x /\ i + 1 # 1
      BY <1>1, <3>1
    <3>3. x # h
      BY <1>1, <3>2 DEF Distinct
    <3>4. QED
      BY <3>2, <3>3 DEF InQueue
  <2>3. QED
    BY <2>1, <2>2
<1>4. Distinct'
  <2> SUFFICES ASSUME NEW i \in 1 .. Len(queue'), NEW j \in 1 .. Len(queue'),
                      queue'[i] = queue'[j]
               PROVE  i = j
    BY DEF Distinct
  <2>1. /\ i + 1 \in 1 .. Len(queue) /\ j + 1 \in 1 .. Len(queue)
        /\ queue[i + 1] = queue[j + 1]
    BY <1>1
  <2>2. i + 1 = j + 1
    BY <2>1 DEF Distinct
  <2>3. QED
    BY <1>1, <2>2
<1>5. QED
  BY <1>1, <1>2, <1>3, <1>4 DEF h

-----------------------------------------------------------------------------
(* What run() does *)

Outcomes(ok, k) == IF ok THEN Successes(k) ELSE Failures(k)

\* run() of the current request ends with one of the outcomes of its class.
EndOfRun ==
    /\ pc \in {"run", "busy"}
    /\ \E ok \in BOOLEAN : \E o \in Outcomes(ok, kind[current]) : Judge(ok, o)
    /\ UNCHANGED <<caller, kind, sync, alive, discarded, reply, told, queue,
                   current, qcnt, bEmpty, session>>

\* The three actions that end run()
LEMMA RunEnds == Run \/ Enable \/ FailDisabled => EndOfRun
<1>1. ASSUME Run  PROVE EndOfRun
  BY <1>1 DEF Run, EndOfRun, Outcomes, callVars, objVars
<1>2. ASSUME Enable  PROVE EndOfRun
  BY <1>2 DEF Enable, EndOfRun, Outcomes, callVars, objVars
<1>3. ASSUME FailDisabled  PROVE EndOfRun
  BY <1>3 DEF FailDisabled, EndOfRun, Outcomes, callVars, objVars
<1>4. QED
  BY <1>1, <1>2, <1>3

\* What transaction() leaves committed, when there is an error or not
LEMMA FlushedBounds ==
  ASSUME NEW s \in Flushed
  PROVE  /\ store \subseteq s /\ s \subseteq store \cup pending
         /\ s \in {store, store \cup pending}
         /\ lastError \/ s = store \cup pending
BY DEF Flushed

\* An outcome in which the batch goes on
Goes(o) == \E f \in BOOLEAN : o \in {Untouched(f), Written(f)}

\* One in which all transactions are ended
Ends(o) ==
    \E s \in Flushed, own \in {{}, {current}}, b \in {bare, bare \cup {current}} :
       o = Closing(s, own, b)

\* One that leaves a transaction of its own
Leaves(o) ==
    \E s \in Flushed, own \in {{}, {current}}, f \in BOOLEAN : o = LeftOpen(s \cup own, f)

\* There are only these three.
LEMMA OutcomeForms ==
  ASSUME NEW ok \in BOOLEAN, NEW k \in AllKinds, NEW o \in Outcomes(ok, k),
         lastError \in BOOLEAN
  PROVE  Goes(o) \/ Ends(o) \/ Leaves(o)
<1>1. \/ o \in Nothing \cup {Untouched(TRUE), Untouched(FALSE), Written(TRUE), Written(FALSE)}
      \/ o \in Committed \cup Ended \cup Broken \cup Unfinished
      \/ o \in Imported
  BY DEF AllKinds, Outcomes, Successes, Failures
<1>2. CASE o \in Nothing \cup {Untouched(TRUE), Untouched(FALSE), Written(TRUE), Written(FALSE)}
  BY <1>2 DEF Nothing, Goes
<1>3. ASSUME NEW s \in Flushed  PROVE s = s \cup {}
  OBVIOUS
<1>4. CASE o \in Committed \cup Ended \cup Broken \cup Unfinished
  BY <1>3, <1>4 DEF Committed, Ended, Broken, Unfinished, Ends, Leaves
<1>5. CASE o \in Imported
  <2>1. store \cup pending \in Flushed /\ (store \cup pending) \cup {} = store \cup pending
    BY DEF Flushed
  <2>2. QED
    BY <1>5, <2>1 DEF Imported, Goes, Ends, Leaves
<1>6. QED
  BY <1>1, <1>2, <1>4, <1>5

\* An outcome ends with an error only in a request that has failed, in an import
\* or, without any statement, with that of an earlier request.
LEMMA OutcomeFailed ==
  ASSUME NEW k \in AllKinds, NEW o \in Successes(k), k # "import", o.failed
  PROVE  lastError
<1>1. o \in {Untouched(FALSE), Untouched(lastError), Written(FALSE)} \cup Committed
             \cup Ended \cup Unfinished
  BY DEF AllKinds, Successes, Nothing
<1>2. QED
  BY <1>1 DEF Untouched, Written, Committed, Ended, Unfinished, Closing, LeftOpen

\* Every outcome keeps what is committed, writes nothing but the record of the
\* current request, and loses nothing by itself but after an error.
LEMMA OutcomeBounds ==
  ASSUME NEW ok \in BOOLEAN, NEW k \in AllKinds, NEW o \in Outcomes(ok, k),
         inTransaction \in BOOLEAN, lastError \in BOOLEAN
  PROVE  /\ o.open \in BOOLEAN /\ o.failed \in BOOLEAN
         /\ store \subseteq o.store
         /\ o.store \subseteq store \cup pending \cup {current}
         /\ o.pending \subseteq pending \cup {current}
         /\ lastError \/ pending \subseteq o.pending \cup o.store
         /\ o.bare \in {bare, bare \cup {current}}
<1>1. CASE Goes(o)
  BY <1>1 DEF Goes, Written, Untouched
<1>2. CASE Ends(o)
  BY <1>2, FlushedBounds DEF Ends, Closing
<1>3. CASE Leaves(o)
  BY <1>3, FlushedBounds DEF Leaves, LeftOpen
<1>4. QED
  BY <1>1, <1>2, <1>3, OutcomeForms

\* What a failed run() has committed of its own request, outside of maintenance
\* and imports, was written without a transaction.
LEMMA FailureBounds ==
  ASSUME NEW k \in AllKinds \ (Maintenance \cup {"import"}), NEW o \in Failures(k),
         inTransaction \/ current \in bare, current \notin store \cup pending
  PROVE  current \in o.store => current \in o.bare
<1>1. o \in {Untouched(TRUE), Written(TRUE)} \cup Broken
  BY DEF AllKinds, Maintenance, Failures
<1>2. CASE o \in {Untouched(TRUE), Written(TRUE)}
  BY <1>2 DEF Untouched, Written
<1>3. CASE o \in Broken
  BY <1>3, FlushedBounds DEF Broken, Unfinished, LeftOpen, Closing
<1>4. QED
  BY <1>1, <1>2, <1>3

\* The end of run(), after the judgement of the worker
LEMMA AfterRun ==
  ASSUME IInv, EndOfRun
  PROVE  /\ current \in Reqs /\ kind[current] \in Kinds
         /\ pc' = "finish" /\ result' \in {"ok", "error"}
         /\ inTransaction' \in BOOLEAN
         /\ store \subseteq store'
         /\ store' \subseteq store \cup pending \cup {current}
         /\ pending' \subseteq pending \cup {current}
         /\ bare \subseteq bare' /\ bare' \subseteq bare \cup {current}
         /\ result' = "error" => pending' = {}
         /\ result' = "error" \/ current \in discarded \/ lastError
               \/ pending \subseteq pending' \cup store'
         /\ lastError' \in BOOLEAN
         /\ lastError' => result' = "ok" /\ current \notin discarded
                             /\ (lastError \/ kind[current] = "import")
<1>1. current \in Reqs
  BY DEF EndOfRun, IInv, PlaceInv, TypeOK
<1>2. kind[current] \in Kinds
  BY <1>1 DEF IInv, PlaceInv, Accepted
<1>3. PICK ok \in BOOLEAN : \E o \in Outcomes(ok, kind[current]) : Judge(ok, o)
  BY DEF EndOfRun
<1>4. PICK o \in Outcomes(ok, kind[current]) : Judge(ok, o)
  BY <1>3
<1>5. kind[current] \in AllKinds /\ inTransaction \in BOOLEAN /\ lastError \in BOOLEAN
  BY <1>2, ConstantsAssumption DEF IInv, TypeOK
<1>6. /\ o.open \in BOOLEAN
      /\ store \subseteq o.store
      /\ o.store \subseteq store \cup pending \cup {current}
      /\ o.pending \subseteq pending \cup {current}
      /\ lastError \/ pending \subseteq o.pending \cup o.store
      /\ o.bare \in {bare, bare \cup {current}}
      /\ o.failed \in BOOLEAN
  BY <1>5, OutcomeBounds
<1>7. /\ pc' = "finish" /\ store' = o.store /\ bare' = o.bare
      /\ result' = IF ok THEN "ok" ELSE "error"
  BY <1>4 DEF Judge
<1>8. CASE Undone(ok)
  <2>1. inTransaction' = FALSE /\ pending' = {} /\ lastError' = FALSE
    BY <1>4, <1>8 DEF Judge
  <2>2. result' = "error" \/ current \in discarded
    BY <1>7, <1>8 DEF Undone
  <2>3. QED
    BY <1>1, <1>2, <1>6, <1>7, <2>1, <2>2
<1>9. CASE ~Undone(ok)
  <2>1. /\ inTransaction' = o.open /\ pending' = o.pending
        /\ lastError' = (o.open /\ o.failed)
    BY <1>4, <1>9 DEF Judge
  <2>2. result' = "ok" /\ current \notin discarded
    BY <1>7, <1>9 DEF Undone
  <2>3. o \in Successes(kind[current])
    BY <1>4, <1>9 DEF Undone, Outcomes
  <2>4. lastError' => lastError \/ kind[current] = "import"
    BY <1>5, <2>1, <2>3, OutcomeFailed
  <2>5. QED
    BY <1>1, <1>2, <1>6, <1>7, <2>1, <2>2, <2>4
<1>10. QED
  BY <1>8, <1>9

-----------------------------------------------------------------------------
(* The invariant holds in the beginning and is kept. *)

\* The initial state satisfies the inductive invariant.
LEMMA InitInv == Init => IInv
<1> SUFFICES ASSUME Init  PROVE IInv
  OBVIOUS
<1>1. TypeOK
  <2>1. /\ caller \in [Reqs -> {"new", "inside", "waiting", "returned", "dropped"}]
        /\ kind \in [Reqs -> Kinds \cup {None}]
        /\ sync \in [Reqs -> BOOLEAN] /\ alive \in [Reqs -> BOOLEAN]
        /\ reply \in [Reqs -> {"Success", "Error", "Discarded", None}]
        /\ told \in [Reqs -> {"true", "false", None}]
    BY DEF Init
  <2>2. queue \in Seq(Reqs) /\ qcnt \in 0 .. BatchLimit + 1
    BY ConstantsAssumption DEF Init
  <2>3. QED
    BY <2>1, <2>2 DEF Init, TypeOK
<1>2. PlaceInv /\ AnsweredOnce
  BY ConstantsAssumption
     DEF Init, PlaceInv, AnsweredOnce, Accepted, InQueue, InHand
<1>3. WrittenInv /\ ErrorLeavesNothing /\ FailedInv /\ SyncInv /\ ToldTheTruth
                 /\ IdleIsCommitted
  BY ConstantsAssumption
     DEF Init, WrittenInv, ErrorLeavesNothing, FailedInv, SyncInv, ToldTheTruth,
         IdleIsCommitted
<1>4. BatchInv
  BY FS_EmptySet, ConstantsAssumption DEF Init, BatchInv, Between
<1>5. QED
  BY <1>1, <1>2, <1>3, <1>4 DEF IInv

\* A request is taken from the queue.
Pop ==
    /\ pc = "loop"
    /\ queue # <<>>
    /\ PopFront
    /\ pc' \in {"run", "finish"}

\* The three actions that take a request
LEMMA Pops == TakeDiscarded \/ Take \/ Drain => Pop
BY DEF TakeDiscarded, Take, Drain, Pop

\* The one that was taken is in hand, and no longer in the queue.
LEMMA AfterPop ==
  ASSUME IInv, Pop
  PROVE  /\ queue' \in Seq(Reqs)
         /\ current' = Head(queue) /\ current' \in Reqs
         /\ InQueue(Head(queue))
         /\ \A x \in Reqs : InQueue(x)' <=> InQueue(x) /\ x # current'
         /\ Distinct'
BY PopQueue DEF Pop, PopFront, IInv, TypeOK, AnsweredOnce, Distinct

\* The request of a new caller is neither in the queue nor anywhere else.
LEMMA AfterEnqueue ==
  ASSUME IInv, NEW r \in Reqs, Enqueue(r)
  PROVE  /\ queue' \in Seq(Reqs)
         /\ r \notin Accepted
         /\ ~InQueue(r) /\ r # current
         /\ \A x \in Reqs : InQueue(x)' <=> InQueue(x) \/ x = r
         /\ Distinct'
<1>1. r \notin Accepted
  BY DEF Enqueue, Accepted
<1>2. ~InQueue(r) /\ r # current
  BY <1>1 DEF IInv, PlaceInv
<1>3. QED
  BY <1>1, <1>2, AppendQueue DEF Enqueue, IInv, TypeOK, AnsweredOnce, Distinct

\* The types are kept.
LEMMA NextType == IInv /\ [Next]_vars => TypeOK'
<1> SUFFICES ASSUME IInv, [Next]_vars  PROVE TypeOK'
  OBVIOUS
<1> USE ConstantsAssumption DEF TypeOK
<1>0. TypeOK
  BY DEF IInv
<1>1. ASSUME NEW r \in Reqs, NEW k \in Kinds, NEW s \in BOOLEAN, Enter(r, k, s)
      PROVE  TypeOK'
  BY <1>0, <1>1 DEF Enter, objVars, runVars, dataVars
<1>2. ASSUME NEW r \in Reqs, Enqueue(r)  PROVE TypeOK'
  BY <1>0, <1>2, AfterEnqueue DEF Enqueue, objVars, runVars, dataVars
<1>3. ASSUME NEW r \in Reqs, Return(r) \/ Destroy(r) \/ Discard(r)
      PROVE  TypeOK'
  <2>1. CASE Return(r)
    BY <1>0, <2>1 DEF Return, objVars, runVars, dataVars
  <2>2. CASE Destroy(r)
    BY <1>0, <2>2 DEF Destroy, callVars, runVars, dataVars
  <2>3. CASE Discard(r)
    BY <1>0, <2>3 DEF Discard, callVars, runVars, dataVars
  <2>4. QED
    BY <1>3, <2>1, <2>2, <2>3
<1>4. CASE Close \/ Interrupt \/ Closed
  BY <1>0, <1>4 DEF Close, Interrupt, Closed, callVars, objVars, runVars, dataVars
<1>5. CASE TakeDiscarded \/ Drain
  <2>1. queue' \in Seq(Reqs) /\ current' \in Reqs /\ current' = Head(queue)
    BY <1>5, Pops, AfterPop
  <2>2. QED
    BY <1>0, <1>5, <2>1 DEF TakeDiscarded, Drain, callVars, objVars, dataVars
<1>6. CASE Take
  <2>1. queue' \in Seq(Reqs) /\ current' \in Reqs /\ current' = Head(queue)
    BY <1>6, Pops, AfterPop
  <2>2. qcnt <= BatchLimit
    BY <1>6 DEF Take, IInv, BatchInv, Between
  <2>3. qcnt' \in 0 .. BatchLimit + 1
    BY <1>0, <1>6, <2>2 DEF Take, Count
  <2>4. QED
    BY <1>0, <1>6, <2>1, <2>3 DEF Take, callVars, objVars
<1>7. CASE Run \/ Enable \/ FailDisabled
  <2>1. EndOfRun
    BY <1>7, RunEnds
  <2>2. enabled' \in BOOLEAN
    BY <1>0, <1>7 DEF Run, Enable, FailDisabled
  <2>3. QED
    BY <1>0, <2>1, <2>2, AfterRun DEF EndOfRun
<1>8. CASE Disable
  BY <1>0, <1>8 DEF Disable, callVars, objVars, dataVars
<1>9. CASE Finish
  <2>1. Promise \in {"true", "false", None}
    BY DEF Promise
  <2>2. QED
    BY <1>0, <1>9, <2>1 DEF Finish, callVars, dataVars
<1>10. CASE ReleaseRequest
  <2>1. current \in Reqs
    BY <1>10 DEF ReleaseRequest, IInv, PlaceInv
  <2>2. alive' \in [Reqs -> BOOLEAN]
    BY <1>0, <1>10, <2>1 DEF ReleaseRequest
  <2>3. pc' \in {"loop", "check", "crashed"} /\ current' = None
    BY <1>10 DEF ReleaseRequest
  <2>4. UNCHANGED <<caller, kind, sync, inTransaction, lastError, pending, store, bare,
                    discarded, reply, told, queue, result, qcnt, bEmpty,
                    enabled, session>>
    BY <1>10 DEF ReleaseRequest, callVars, dataVars
  <2>5. QED
    BY <1>0, <2>2, <2>3, <2>4
<1>11. CASE CheckBatch
  <2>1. bEmpty' \in BOOLEAN
    BY <1>11 DEF CheckBatch
  <2>2. /\ qcnt' \in 0 .. BatchLimit + 1
        /\ store' \subseteq Reqs /\ pending' \subseteq Reqs
        /\ inTransaction' \in BOOLEAN /\ lastError' \in BOOLEAN
    <3>1. CASE BatchEnds
      <4>1. qcnt' = 0 /\ store' \subseteq store \cup pending /\ pending' = {}
            /\ inTransaction' = FALSE /\ lastError' = FALSE
        BY <1>11, <3>1 DEF CheckBatch, CommitBatch
      <4>2. 0 \in 0 .. BatchLimit + 1
        OBVIOUS
      <4>3. store \subseteq Reqs /\ pending \subseteq Reqs
        BY <1>0
      <4>4. QED
        BY <4>1, <4>2, <4>3
    <3>2. CASE ~BatchEnds
      <4>1. UNCHANGED <<qcnt, store, pending, inTransaction, lastError>>
        BY <1>11, <3>2 DEF CheckBatch
      <4>2. QED
        BY <1>0, <4>1
    <3>3. QED
      BY <3>1, <3>2
  <2>3. pc' = "loop" /\ result' = "ok"
    BY <1>11 DEF CheckBatch
  <2>4. UNCHANGED <<caller, kind, sync, alive, discarded, reply, told, queue,
                    current, bare, enabled, session>>
    BY <1>11 DEF CheckBatch, callVars, objVars
  <2>5. QED
    BY <1>0, <2>1, <2>2, <2>3, <2>4
<1>12. CASE Stop
  BY <1>0, <1>12 DEF Stop, callVars, objVars, dataVars
<1>13. CASE UNCHANGED vars
  BY <1>0, <1>13 DEF vars
<1>14. QED
  BY <1>1, <1>2, <1>3, <1>4, <1>5, <1>6, <1>7, <1>8, <1>9, <1>10, <1>11, <1>12,
     <1>13 DEF Next, Caller, Worker

\* Every request stays in one place, and is answered once.
LEMMA NextPlace == IInv /\ [Next]_vars => PlaceInv' /\ AnsweredOnce'
<1> SUFFICES ASSUME IInv, [Next]_vars  PROVE PlaceInv' /\ AnsweredOnce'
  OBVIOUS
<1> USE ConstantsAssumption
<1>0. PlaceInv /\ AnsweredOnce /\ TypeOK
  BY DEF IInv
<1>1. ASSUME UNCHANGED <<queue, current, pc, discarded, reply>>, Accepted' = Accepted,
             \A x \in Reqs : caller'[x] \in {"inside", "waiting", "returned"}
                                => kind'[x] \in Kinds
      PROVE  PlaceInv' /\ AnsweredOnce'
  BY <1>0, <1>1 DEF PlaceInv, AnsweredOnce, InQueue, InHand
<1>2. ASSUME NEW r \in Reqs, NEW k \in Kinds, NEW s \in BOOLEAN, Enter(r, k, s)
      PROVE  PlaceInv' /\ AnsweredOnce'
  <2>1. Accepted' = Accepted
    BY <1>0, <1>2 DEF Enter, Accepted, TypeOK
  <2>2. \A x \in Reqs : caller'[x] \in {"inside", "waiting", "returned"}
                           => kind'[x] \in Kinds
    BY <1>0, <1>2 DEF Enter, PlaceInv, TypeOK
  <2>3. QED
    BY <1>1, <1>2, <2>1, <2>2 DEF Enter, objVars, runVars
<1>3. ASSUME NEW r \in Reqs, Enqueue(r)  PROVE PlaceInv' /\ AnsweredOnce'
  <2>1. Accepted' = Accepted \cup {r}
    BY <1>0, <1>3 DEF Enqueue, Accepted, TypeOK
  <2>2. /\ r \notin Accepted /\ ~InQueue(r) /\ r # current
        /\ \A x \in Reqs : InQueue(x)' <=> InQueue(x) \/ x = r
        /\ Distinct'
    BY <1>3, AfterEnqueue
  <2>3. UNCHANGED <<current, pc, discarded, reply, kind>>
    BY <1>3 DEF Enqueue, objVars, runVars
  <2>4. \A x \in Reqs : InHand(x)' <=> InHand(x)
    BY <2>3 DEF InHand
  <2>5. PlaceInv'
    <3>1. \A x \in Reqs : caller'[x] \in {"inside", "waiting", "returned"}
                             => kind'[x] \in Kinds
      BY <1>0, <1>3, <2>3 DEF Enqueue, PlaceInv, TypeOK
    <3>2. QED
      BY <1>0, <2>1, <2>2, <2>3, <3>1 DEF PlaceInv
  <2>6. AnsweredOnce'
    BY <1>0, <2>1, <2>2, <2>3, <2>4 DEF AnsweredOnce, Distinct, InHand
  <2>7. QED
    BY <2>5, <2>6
<1>4. ASSUME NEW r \in Reqs, Return(r) \/ Destroy(r)
      PROVE  PlaceInv' /\ AnsweredOnce'
  <2>1. Accepted' = Accepted
    BY <1>0, <1>4 DEF Return, Destroy, callVars, Accepted, TypeOK
  <2>2. \A x \in Reqs : caller'[x] \in {"inside", "waiting", "returned"}
                           => kind'[x] \in Kinds
    BY <1>0, <1>4 DEF Return, Destroy, callVars, PlaceInv, TypeOK
  <2>3. QED
    BY <1>1, <1>4, <2>1, <2>2 DEF Return, Destroy, callVars, objVars, runVars
<1>5. ASSUME NEW r \in Reqs, Discard(r)  PROVE PlaceInv' /\ AnsweredOnce'
  BY <1>0, <1>5 DEF Discard, callVars, runVars, PlaceInv, AnsweredOnce, InQueue,
     InHand, Accepted
<1>6. CASE Close \/ Interrupt \/ UNCHANGED vars
  BY <1>0, <1>6 DEF Close, Interrupt, vars, callVars, objVars, runVars, PlaceInv,
     AnsweredOnce, InQueue, InHand, Accepted
<1>7. CASE Closed
  BY <1>0, <1>7 DEF Closed, callVars, objVars, runVars, PlaceInv, AnsweredOnce,
     InQueue, InHand, Accepted
<1>8. CASE TakeDiscarded \/ Take \/ Drain
  <2>1. Pop
    BY <1>8, Pops
  <2>2. /\ current' = Head(queue) /\ current' \in Reqs /\ InQueue(Head(queue))
        /\ \A x \in Reqs : InQueue(x)' <=> InQueue(x) /\ x # current'
        /\ Distinct'
    BY <2>1, AfterPop
  <2>3. pc = "loop" /\ pc' \in {"run", "finish"}
    BY <2>1 DEF Pop
  <2>4. UNCHANGED <<caller, kind, reply>>
    BY <1>8 DEF TakeDiscarded, Take, Drain, callVars, objVars
  <2>5. Accepted' = Accepted /\ Head(queue) \in Accepted
    BY <1>0, <2>2, <2>4 DEF Accepted, PlaceInv
  <2>6. discarded' \subseteq discarded \cup {Head(queue)}
    BY <1>8 DEF TakeDiscarded, Take, Drain, objVars
  <2>7. PlaceInv'
    BY <1>0, <2>2, <2>3, <2>4, <2>5, <2>6 DEF PlaceInv
  <2>8. \A x \in Reqs : (InHand(x)' <=> x = current') /\ ~InHand(x)
    BY <2>3 DEF InHand
  <2>9. AnsweredOnce'
    BY <1>0, <2>2, <2>4, <2>5, <2>8 DEF AnsweredOnce, Distinct
  <2>10. QED
    BY <2>7, <2>9
<1>9. CASE Run \/ Enable \/ FailDisabled
  BY <1>0, <1>9, RunEnds, AfterRun
     DEF EndOfRun, PlaceInv, AnsweredOnce, InQueue, InHand, Accepted
<1>10. CASE Disable
  BY <1>0, <1>10 DEF Disable, callVars, objVars, PlaceInv, AnsweredOnce, InQueue,
     InHand, Accepted
<1>11. CASE Finish
  <2>1. current \in Reqs /\ InHand(current)
    BY <1>0, <1>11 DEF Finish, PlaceInv, InHand, TypeOK
  <2>2. current \in Accepted /\ ~InQueue(current)
    BY <1>0, <2>1 DEF PlaceInv, AnsweredOnce
  <2>3. UNCHANGED <<caller, kind, queue, current, discarded>> /\ pc' = "release"
    BY <1>11 DEF Finish, callVars
  <2>4. reply'[current] # None
        /\ \A x \in Reqs \ {current} : reply'[x] = reply[x]
    BY <1>0, <1>11, <2>1 DEF Finish, TypeOK
  <2>5. /\ Accepted' = Accepted
        /\ \A x \in Reqs : (InQueue(x)' <=> InQueue(x)) /\ ~InHand(x)'
        /\ \A x \in Reqs \ {current} : ~InHand(x)
    BY <2>3 DEF Accepted, InQueue, InHand
  <2>6. PlaceInv'
    BY <1>0, <1>11, <2>3, <2>5 DEF Finish, PlaceInv
  <2>7. AnsweredOnce'
    BY <1>0, <2>1, <2>2, <2>3, <2>4, <2>5 DEF AnsweredOnce
  <2>8. QED
    BY <2>6, <2>7
<1>12. CASE ReleaseRequest
  <2>1. UNCHANGED <<caller, kind, queue, discarded, reply>>
    BY <1>12 DEF ReleaseRequest, callVars, dataVars
  <2>2. /\ pc = "release" /\ pc' \in {"loop", "check", "crashed"}
        /\ current' = None
    BY <1>12 DEF ReleaseRequest
  <2>3. QED
    BY <1>0, <2>1, <2>2 DEF PlaceInv, AnsweredOnce, InQueue, InHand, Accepted
<1>13. CASE CheckBatch \/ Stop
  <2>1. UNCHANGED <<caller, kind, queue, discarded, reply, current>>
    BY <1>13 DEF CheckBatch, Stop, callVars, objVars
  <2>2. pc \in {"check", "loop"} /\ pc' \in {"loop", "stopped"}
    BY <1>13 DEF CheckBatch, Stop
  <2>3. QED
    BY <1>0, <2>1, <2>2 DEF PlaceInv, AnsweredOnce, InQueue, InHand, Accepted
<1>14. QED
  BY <1>2, <1>3, <1>4, <1>5, <1>6, <1>7, <1>8, <1>9, <1>10, <1>11, <1>12, <1>13
     DEF Next, Caller, Worker

\* Only an accepted request that has run is written.
LEMMA NextWritten == IInv /\ [Next]_vars => WrittenInv'
<1> SUFFICES ASSUME IInv, [Next]_vars  PROVE WrittenInv'
  OBVIOUS
<1> USE ConstantsAssumption
<1>0. WrittenInv /\ PlaceInv /\ AnsweredOnce /\ TypeOK
  BY DEF IInv
<1>1. ASSUME UNCHANGED <<pending, store, queue, current, pc, result, inTransaction,
                         bare>>,
             Accepted' = Accepted,
             \A x \in Reqs : x \in Accepted => kind'[x] = kind[x]
      PROVE  WrittenInv'
  <2>1. pc = "finish" => current \in Accepted
    BY <1>0 DEF PlaceInv, TypeOK
  <2>2. QED
    BY <1>0, <1>1, <2>1 DEF WrittenInv, InQueue, Accepted
<1>2. ASSUME NEW r \in Reqs, NEW k \in Kinds, NEW s \in BOOLEAN, Enter(r, k, s)
      PROVE  WrittenInv'
  <2>1. Accepted' = Accepted /\ r \notin Accepted
    BY <1>0, <1>2 DEF Enter, Accepted, TypeOK
  <2>2. \A x \in Reqs : x \in Accepted => kind'[x] = kind[x]
    BY <1>0, <1>2, <2>1 DEF Enter, TypeOK
  <2>3. QED
    BY <1>1, <1>2, <2>1, <2>2 DEF Enter, runVars, dataVars
<1>3. ASSUME NEW r \in Reqs, Enqueue(r)  PROVE WrittenInv'
  <2>1. Accepted \subseteq Accepted'
    BY <1>0, <1>3 DEF Enqueue, Accepted, TypeOK
  <2>2. r \notin Accepted /\ \A x \in Reqs : InQueue(x)' <=> InQueue(x) \/ x = r
    BY <1>3, AfterEnqueue
  <2>3. pending \cup store \subseteq Reqs
    BY <1>0 DEF TypeOK
  <2>4. QED
    BY <1>0, <1>3, <2>1, <2>2, <2>3 DEF Enqueue, runVars, dataVars, WrittenInv
<1>4. ASSUME NEW r \in Reqs, Return(r) \/ Destroy(r) \/ Discard(r)
      PROVE  WrittenInv'
  <2>1. Accepted' = Accepted
    BY <1>0, <1>4 DEF Return, Destroy, Discard, callVars, Accepted, TypeOK
  <2>2. QED
    BY <1>1, <1>4, <2>1 DEF Return, Destroy, Discard, callVars, runVars, dataVars
<1>5. CASE Close \/ Interrupt \/ UNCHANGED vars
  BY <1>1, <1>5 DEF Close, Interrupt, vars, callVars, runVars, dataVars, Accepted
<1>6. CASE Closed
  BY <1>0, <1>6 DEF Closed, callVars, runVars, WrittenInv, InQueue, Accepted
<1>7. CASE TakeDiscarded \/ Take \/ Drain
  <2>1. Pop
    BY <1>7, Pops
  <2>2. /\ current' = Head(queue) /\ current' \in Reqs /\ InQueue(Head(queue))
        /\ \A x \in Reqs : InQueue(x)' <=> InQueue(x) /\ x # current'
    BY <2>1, AfterPop
  <2>3. UNCHANGED <<caller, kind, pending, store>>
    BY <1>7 DEF TakeDiscarded, Take, Drain, callVars, dataVars
  <2>4. Accepted' = Accepted /\ pending \cup store \subseteq Reqs
    BY <1>0, <2>3 DEF Accepted, TypeOK
  <2>5. current' \notin pending \cup store
    BY <1>0, <2>2 DEF WrittenInv
  <2>6. pc' = "run" /\ ~inTransaction' => current' \in bare'
    BY <1>7, <2>2 DEF TakeDiscarded, Take, Drain
  <2>7. QED
    BY <1>0, <2>2, <2>3, <2>4, <2>5, <2>6 DEF WrittenInv
<1>8. CASE Run \/ Enable \/ FailDisabled
  <2>1. /\ current \in Reqs /\ pc' = "finish"
        /\ store' \subseteq store \cup pending \cup {current}
        /\ pending' \subseteq pending \cup {current}
        /\ result' = "error" => pending' = {}
    BY <1>8, RunEnds, AfterRun
  <2>2. UNCHANGED <<caller, kind, queue, current>> /\ pc \in {"run", "busy"}
    BY <1>8, RunEnds DEF EndOfRun
  <2>3. current \in Accepted /\ ~InQueue(current)
    BY <1>0, <2>1, <2>2 DEF PlaceInv, AnsweredOnce, InHand
  <2>4. \A x \in pending' \cup store' : x \in Accepted' /\ ~InQueue(x)'
    BY <1>0, <2>1, <2>2, <2>3 DEF WrittenInv, Accepted, InQueue
  <2>5. ASSUME result' = "error", kind[current] \notin Maintenance, current \in store',
               kind[current] # "import"
        PROVE  current \in bare'
    <3>1. Run
      <4>1. CASE Enable
        BY <2>5, <4>1 DEF Enable, Judge, Maintenance
      <4>2. CASE FailDisabled
        BY <2>5, <4>2 DEF FailDisabled, Maintenance
      <4>3. QED
        BY <1>8, <4>1, <4>2
    <3>2. PICK o \in Failures(kind[current]) : Judge(FALSE, o)
      BY <2>5, <3>1 DEF Run, Judge
    <3>3. inTransaction \/ current \in bare
      BY <1>0, <3>1 DEF Run, WrittenInv
    <3>4. current \notin store \cup pending
      BY <1>0, <2>2 DEF WrittenInv
    <3>5. kind[current] \in AllKinds \ (Maintenance \cup {"import"})
      BY <2>3, <2>5, <1>0 DEF PlaceInv, Accepted
    <3>6. current \in o.store => current \in o.bare
      BY <3>3, <3>4, <3>5, FailureBounds
    <3>7. QED
      BY <2>5, <3>2, <3>6 DEF Judge
  <2>6. QED
    BY <2>1, <2>2, <2>4, <2>5 DEF WrittenInv
<1>9. CASE Disable
  BY <1>0, <1>9 DEF Disable, callVars, dataVars, WrittenInv, InQueue, Accepted
<1>10. CASE Finish
  BY <1>0, <1>10 DEF Finish, callVars, dataVars, WrittenInv, InQueue, Accepted
<1>11. CASE ReleaseRequest
  <2>1. UNCHANGED <<caller, queue, pending, store>>
    BY <1>11 DEF ReleaseRequest, callVars, dataVars
  <2>2. pc' \in {"loop", "check", "crashed"}
    BY <1>11 DEF ReleaseRequest
  <2>3. QED
    BY <1>0, <2>1, <2>2 DEF WrittenInv, InQueue, Accepted
<1>12. CASE CheckBatch
  <2>1. UNCHANGED <<caller, queue, current>> /\ pc = "check" /\ pc' = "loop"
    BY <1>12 DEF CheckBatch, callVars
  <2>2. pending' \cup store' \subseteq pending \cup store
    BY <1>12 DEF CheckBatch, CommitBatch
  <2>3. QED
    BY <1>0, <2>1, <2>2 DEF WrittenInv, InQueue, Accepted
<1>13. CASE Stop
  BY <1>0, <1>13 DEF Stop, callVars, dataVars, WrittenInv, InQueue, Accepted
<1>14. QED
  BY <1>2, <1>3, <1>4, <1>5, <1>6, <1>7, <1>8, <1>9, <1>10, <1>11, <1>12, <1>13
     DEF Next, Caller, Worker

\* What a request that has failed wrote is gone.
LEMMA NextError == IInv /\ [Next]_vars => ErrorLeavesNothing'
<1> SUFFICES ASSUME IInv, [Next]_vars  PROVE ErrorLeavesNothing'
  OBVIOUS
<1> USE ConstantsAssumption
<1>0. ErrorLeavesNothing /\ WrittenInv /\ PlaceInv /\ AnsweredOnce /\ TypeOK
  BY DEF IInv
<1>1. ASSUME UNCHANGED reply, store' \cup pending' \subseteq store \cup pending,
             pending' \subseteq pending, bare \subseteq bare',
             \A x \in Reqs : x \in Accepted => kind'[x] = kind[x]
      PROVE  ErrorLeavesNothing'
  <2> SUFFICES ASSUME NEW x \in Reqs, reply[x] = "Error",
                      kind'[x] \notin Maintenance
               PROVE  /\ x \notin pending'
                      /\ x \in store' => x \in bare' \/ kind'[x] = "import"
    BY <1>1 DEF ErrorLeavesNothing
  <2>1. x \in Accepted
    BY <1>0 DEF AnsweredOnce
  <2>2. x \notin pending /\ (x \in store => x \in bare \/ kind'[x] = "import")
    BY <1>0, <1>1, <2>1 DEF ErrorLeavesNothing
  <2>3. QED
    BY <1>1, <2>2
<1>2. ASSUME NEW r \in Reqs, NEW k \in Kinds, NEW s \in BOOLEAN, Enter(r, k, s)
      PROVE  ErrorLeavesNothing'
  <2>1. \A x \in Reqs : x \in Accepted => kind'[x] = kind[x]
    BY <1>0, <1>2 DEF Enter, Accepted, TypeOK
  <2>2. QED
    BY <1>1, <1>2, <2>1 DEF Enter, objVars, dataVars
<1>3. ASSUME NEW r \in Reqs, Enqueue(r) \/ Return(r) \/ Destroy(r) \/ Discard(r)
      PROVE  ErrorLeavesNothing'
  BY <1>1, <1>3 DEF Enqueue, Return, Destroy, Discard, callVars, objVars, dataVars
<1>4. CASE Close \/ Interrupt \/ Closed \/ UNCHANGED vars
  BY <1>1, <1>4 DEF Close, Interrupt, Closed, vars, callVars, objVars, dataVars
<1>5. CASE TakeDiscarded \/ Take \/ Drain
  BY <1>1, <1>5 DEF TakeDiscarded, Take, Drain, callVars, objVars, dataVars
<1>6. CASE Run \/ Enable \/ FailDisabled
  <2>1. /\ current \in Reqs
        /\ store' \subseteq store \cup pending \cup {current}
        /\ pending' \subseteq pending \cup {current}
        /\ bare \subseteq bare'
    BY <1>6, RunEnds, AfterRun
  <2>2. UNCHANGED <<reply, kind>> /\ pc \in {"run", "busy"}
    BY <1>6, RunEnds DEF EndOfRun
  <2>3. reply[current] # "Error"
    BY <1>0, <2>1, <2>2 DEF AnsweredOnce, InHand
  <2>4. QED
    BY <1>0, <2>1, <2>2, <2>3 DEF ErrorLeavesNothing
<1>7. CASE Disable \/ Stop
  BY <1>1, <1>7 DEF Disable, Stop, callVars, objVars, dataVars
<1>8. CASE Finish
  <2>1. UNCHANGED <<kind, store, pending, bare>>
    BY <1>8 DEF Finish, callVars, dataVars
  <2>2. current \in Reqs
    BY <1>0, <1>8 DEF Finish, PlaceInv, TypeOK
  <2>3. /\ reply'[current] = "Error" => result = "error"
        /\ \A x \in Reqs \ {current} : reply'[x] = reply[x]
    BY <1>0, <1>8, <2>2 DEF Finish, TypeOK
  <2>4. QED
    BY <1>0, <1>8, <2>1, <2>2, <2>3 DEF Finish, ErrorLeavesNothing, WrittenInv
<1>9. CASE ReleaseRequest
  BY <1>1, <1>9 DEF ReleaseRequest, callVars, dataVars
<1>10. CASE CheckBatch
  BY <1>1, <1>10 DEF CheckBatch, CommitBatch, callVars, objVars
<1>11. QED
  BY <1>2, <1>3, <1>4, <1>5, <1>6, <1>7, <1>8, <1>9, <1>10 DEF Next, Caller, Worker

\* The error in an open transaction stays that of an import reported as done.
LEMMA NextFailed == IInv /\ [Next]_vars => FailedInv'
<1> SUFFICES ASSUME IInv, [Next]_vars  PROVE FailedInv'
  OBVIOUS
<1> USE ConstantsAssumption
<1>0. FailedInv /\ PlaceInv /\ AnsweredOnce /\ TypeOK
  BY DEF IInv
<1>1. ASSUME lastError' => lastError,
             \A x \in Imports : x \in Imports' /\ (reply[x] = "Success" => reply'[x] = "Success"),
             current = None \/ UNCHANGED <<current, pc, result>>,
             \A x \in Imports : x \in discarded' => x \in discarded \/ current = None
      PROVE  FailedInv'
  BY <1>0, <1>1 DEF FailedInv, PlaceInv
<1>2. ASSUME NEW r \in Reqs, Caller(r)  PROVE FailedInv'
  <2>1. UNCHANGED <<lastError, current, pc, result, reply>>
    BY <1>2 DEF Caller, Enter, Enqueue, Return, Destroy, Discard, objVars, runVars, dataVars
  <2>2. ASSUME NEW x \in Imports  PROVE x \in Imports'
    BY <1>0, <1>2 DEF Caller, Enter, Enqueue, Return, Destroy, Discard, callVars,
       Imports, Accepted, TypeOK
  <2>3. ASSUME NEW x \in Imports  PROVE x \in discarded' => x \in discarded
    BY <1>2 DEF Caller, Enter, Enqueue, Return, Destroy, Discard, callVars, objVars, Imports
  <2>4. QED
    BY <1>1, <2>1, <2>2, <2>3
<1>3. CASE Close \/ Interrupt \/ Closed \/ UNCHANGED vars
  BY <1>1, <1>3 DEF Close, Interrupt, Closed, vars, callVars, objVars, runVars,
     dataVars, Imports, Accepted
<1>4. CASE TakeDiscarded \/ Take \/ Drain \/ CheckBatch \/ Stop
  <2>1. current = None
    BY <1>0, <1>4 DEF TakeDiscarded, Take, Drain, CheckBatch, Stop, PlaceInv
  <2>2. UNCHANGED <<caller, kind, reply>>
    BY <1>4 DEF TakeDiscarded, Take, Drain, CheckBatch, Stop, callVars, objVars
  <2>3. lastError' => lastError
    <3>1. CASE CheckBatch
      BY <3>1 DEF CheckBatch, CommitBatch
    <3>2. CASE ~CheckBatch
      BY <1>4, <3>2 DEF TakeDiscarded, Take, Drain, Stop, dataVars
    <3>3. QED
      BY <3>1, <3>2
  <2>4. QED
    BY <1>1, <2>1, <2>2, <2>3 DEF Imports, Accepted
<1>5. CASE Run \/ Enable \/ FailDisabled
  <2>1. /\ current \in Reqs /\ pc' = "finish"
        /\ lastError' => result' = "ok" /\ current \notin discarded
                            /\ (lastError \/ kind[current] = "import")
    BY <1>5, RunEnds, AfterRun
  <2>2. UNCHANGED <<caller, kind, reply, current, discarded>> /\ pc \in {"run", "busy"}
    BY <1>5, RunEnds DEF EndOfRun
  <2>3. Imports' = Imports /\ current \in Accepted
    BY <1>0, <2>1, <2>2 DEF Imports, Accepted, PlaceInv
  <2>4. CASE lastError
    BY <1>0, <2>2, <2>3, <2>4 DEF FailedInv
  <2>5. CASE kind[current] = "import"
    BY <2>1, <2>2, <2>3, <2>5 DEF FailedInv, Imports
  <2>6. QED
    BY <2>1, <2>4, <2>5 DEF FailedInv
<1>6. CASE Disable
  <2>1. UNCHANGED <<caller, kind, reply, current, lastError, discarded>> /\ pc = "run"
    BY <1>6 DEF Disable, callVars, objVars, dataVars
  <2>2. QED
    BY <1>0, <2>1 DEF FailedInv, Imports, Accepted
<1>7. CASE Finish
  <2>1. /\ UNCHANGED <<caller, kind, current, lastError, discarded>>
        /\ current \in Reqs /\ pc = "finish"
    BY <1>0, <1>7 DEF Finish, callVars, dataVars, PlaceInv, TypeOK
  <2>2. Imports' = Imports
    BY <2>1 DEF Imports, Accepted
  <2>3. \A x \in Reqs \ {current} : reply'[x] = reply[x]
    BY <1>0, <1>7, <2>1 DEF Finish, TypeOK
  <2>4. reply[current] = None
    BY <1>0, <2>1 DEF AnsweredOnce, InHand
  <2>5. result = "ok" /\ current \notin discarded => reply'[current] = "Success"
    BY <1>0, <1>7, <2>1 DEF Finish, TypeOK
  <2>6. ASSUME NEW x \in Imports, reply[x] = "Success"  PROVE reply'[x] = "Success"
    <3>1. x # current
      BY <2>4, <2>6, ConstantsAssumption
    <3>2. QED
      BY <2>3, <2>6, <3>1 DEF Imports, Accepted
  <2>7. QED
    BY <1>0, <2>1, <2>2, <2>5, <2>6 DEF FailedInv
<1>8. CASE ReleaseRequest
  <2>1. UNCHANGED <<caller, kind, reply, lastError, discarded>> /\ pc = "release"
    BY <1>8 DEF ReleaseRequest, callVars, dataVars
  <2>2. QED
    BY <1>0, <2>1 DEF FailedInv, Imports, Accepted
<1>9. QED
  BY <1>2, <1>3, <1>4, <1>5, <1>6, <1>7, <1>8 DEF Next, Worker

\* A caller is told the truth, and a synchronous request discarded only at the end.
LEMMA NextTold == IInv /\ [Next]_vars => SyncInv' /\ ToldTheTruth'
<1> SUFFICES ASSUME IInv, [Next]_vars  PROVE SyncInv' /\ ToldTheTruth'
  OBVIOUS
<1> USE ConstantsAssumption
<1>0. SyncInv /\ ToldTheTruth /\ PlaceInv /\ TypeOK
  BY DEF IInv
<1>1. ASSUME UNCHANGED <<reply, told, discarded>>,
             \A x \in discarded : sync'[x] = sync[x],
             session \in {"closing", "closed"} => session' \in {"closing", "closed"}
      PROVE  SyncInv' /\ ToldTheTruth'
  BY <1>0, <1>1 DEF SyncInv, ToldTheTruth
<1>2. ASSUME NEW r \in Reqs, NEW k \in Kinds, NEW s \in BOOLEAN, Enter(r, k, s)
      PROVE  SyncInv' /\ ToldTheTruth'
  <2>1. r \notin discarded
    BY <1>0, <1>2 DEF Enter, PlaceInv, Accepted
  <2>2. \A x \in discarded : sync'[x] = sync[x]
    BY <1>0, <1>2, <2>1 DEF Enter, TypeOK
  <2>3. QED
    BY <1>1, <1>2, <2>2 DEF Enter, objVars
<1>3. ASSUME NEW r \in Reqs, Enqueue(r) \/ Return(r) \/ Destroy(r)
      PROVE  SyncInv' /\ ToldTheTruth'
  BY <1>1, <1>3 DEF Enqueue, Return, Destroy, callVars, objVars
<1>4. ASSUME NEW r \in Reqs, Discard(r)  PROVE SyncInv' /\ ToldTheTruth'
  BY <1>0, <1>4 DEF Discard, callVars, SyncInv, ToldTheTruth
<1>5. CASE Close \/ Interrupt \/ Closed \/ UNCHANGED vars
  BY <1>1, <1>5 DEF Close, Interrupt, Closed, vars, callVars, objVars
<1>6. CASE TakeDiscarded \/ Take
  BY <1>1, <1>6 DEF TakeDiscarded, Take, callVars, objVars
<1>7. CASE Drain
  BY <1>0, <1>7 DEF Drain, callVars, SyncInv, ToldTheTruth
<1>8. CASE Run \/ Enable \/ FailDisabled
  BY <1>1, <1>8, RunEnds DEF EndOfRun
<1>9. CASE Disable \/ Stop
  BY <1>1, <1>9 DEF Disable, Stop, callVars, objVars
<1>10. CASE Finish
  <2>1. current \in Reqs
    BY <1>0, <1>10 DEF Finish, PlaceInv, TypeOK
  <2>2. UNCHANGED <<sync, discarded, session>>
    BY <1>10 DEF Finish, callVars
  <2>3. \A x \in Reqs \ {current} : reply'[x] = reply[x] /\ told'[x] = told[x]
    BY <1>0, <1>10 DEF Finish, TypeOK
  <2>4. ASSUME told'[current] = "true"
        PROVE  reply'[current] = "Success" \/ session \in {"closing", "closed"}
    <3>1. sync[current] /\ result # "error"
      BY <1>0, <1>10, <2>1, <2>4 DEF Finish, Promise, TypeOK
    <3>2. CASE current \in discarded
      BY <1>0, <3>1, <3>2 DEF SyncInv
    <3>3. CASE current \notin discarded
      BY <1>0, <1>10, <2>1, <3>1, <3>3 DEF Finish, TypeOK
    <3>4. QED
      BY <3>2, <3>3
  <2>5. QED
    BY <1>0, <2>2, <2>3, <2>4 DEF SyncInv, ToldTheTruth
<1>11. CASE ReleaseRequest
  BY <1>1, <1>11 DEF ReleaseRequest, callVars
<1>12. CASE CheckBatch
  BY <1>1, <1>12 DEF CheckBatch, callVars, objVars
<1>13. QED
  BY <1>2, <1>3, <1>4, <1>5, <1>6, <1>7, <1>8, <1>9, <1>10, <1>11, <1>12
     DEF Next, Caller, Worker

\* The worker commits before it waits, unless it has just skipped a request.
LEMMA NextIdle == IInv /\ [Next]_vars => IdleIsCommitted'
<1> SUFFICES ASSUME IInv, [Next]_vars, pc' = "loop", queue' = <<>>, pending' # {}
             PROVE  result' = "skip"
  BY DEF IdleIsCommitted
<1>0. IdleIsCommitted /\ PlaceInv /\ TypeOK
  BY DEF IInv
<1>1. CASE UNCHANGED <<pc, queue, pending, result>>
  BY <1>0, <1>1 DEF IdleIsCommitted
<1>2. ASSUME NEW r \in Reqs, NEW k \in Kinds, NEW s \in BOOLEAN, Enter(r, k, s)
      PROVE  result' = "skip"
  BY <1>1, <1>2 DEF Enter, runVars, dataVars
<1>3. ASSUME NEW r \in Reqs, Enqueue(r)  PROVE result' = "skip"
  <2>1. queue' # <<>>
    BY <1>3, AfterEnqueue DEF InQueue
  <2>2. QED
    BY <2>1
<1>4. ASSUME NEW r \in Reqs, Return(r) \/ Destroy(r) \/ Discard(r)
      PROVE  result' = "skip"
  BY <1>1, <1>4 DEF Return, Destroy, Discard, runVars, dataVars
<1>5. CASE Close \/ Interrupt \/ Closed \/ UNCHANGED vars
  BY <1>1, <1>5 DEF Close, Interrupt, Closed, vars, runVars, dataVars
<1>6. CASE TakeDiscarded \/ Take \/ Drain \/ Disable \/ Finish \/ Stop
  BY <1>6 DEF TakeDiscarded, Take, Drain, Disable, Finish, Stop
<1>7. CASE Run \/ Enable \/ FailDisabled
  BY <1>7, RunEnds, AfterRun
<1>8. CASE ReleaseRequest
  BY <1>8 DEF ReleaseRequest
<1>9. CASE CheckBatch
  BY <1>9 DEF CheckBatch, CommitBatch, BatchEnds
<1>10. QED
  BY <1>2, <1>3, <1>4, <1>5, <1>6, <1>7, <1>8, <1>9 DEF Next, Caller, Worker

\* The batch stays bounded.
LEMMA NextBatch == IInv /\ [Next]_vars => BatchInv'
<1> SUFFICES ASSUME IInv, [Next]_vars  PROVE BatchInv'
  OBVIOUS
<1> USE ConstantsAssumption
<1>0. BatchInv /\ PlaceInv
  BY DEF IInv
<1>a. IsFiniteSet(pending) /\ Cardinality(pending) \in Nat
  BY <1>0, FS_CardinalityType DEF BatchInv
<1>b. qcnt \in Nat /\ BatchLimit \in Nat
  BY DEF IInv, TypeOK
<1>1. CASE UNCHANGED <<pending, pc, qcnt, result, bEmpty>>
  BY <1>0, <1>1 DEF BatchInv, Between
<1>2. ASSUME NEW r \in Reqs, Caller(r)  PROVE BatchInv'
  BY <1>1, <1>2 DEF Caller, Enter, Enqueue, Return, Destroy, Discard, runVars, dataVars
<1>3. CASE Close \/ Interrupt \/ UNCHANGED vars
  BY <1>1, <1>3 DEF Close, Interrupt, vars, runVars, dataVars
<1>4. CASE Closed
  <2>1. pending' = {} /\ UNCHANGED <<pc, qcnt, result, bEmpty>>
    BY <1>4 DEF Closed, runVars
  <2>2. QED
    BY <1>0, <1>b, <2>1, FS_EmptySet DEF BatchInv, Between
<1>5. CASE TakeDiscarded \/ Drain
  <2>1. /\ UNCHANGED <<pending, qcnt, bEmpty>>
        /\ pc = "loop" /\ pc' = "finish" /\ result' = "skip"
    BY <1>5 DEF TakeDiscarded, Drain, dataVars
  <2>2. QED
    BY <1>0, <2>1 DEF BatchInv, Between
<1>6. CASE Take
  <2>1. /\ UNCHANGED pending
        /\ pc = "loop" /\ pc' = "run" /\ qcnt' = IF bEmpty THEN 0 ELSE qcnt + 1
    BY <1>6 DEF Take, Count
  <2>2. CASE bEmpty
    BY <1>0, <2>1, <2>2, FS_EmptySet DEF BatchInv, Between
  <2>3. CASE ~bEmpty
    BY <1>0, <2>1, <2>3 DEF BatchInv, Between
  <2>4. QED
    BY <2>2, <2>3
<1>7. CASE Run \/ Enable \/ FailDisabled
  <2>1. /\ pc' = "finish" /\ result' \in {"ok", "error"}
        /\ pending' \subseteq pending \cup {current}
    BY <1>7, RunEnds, AfterRun
  <2>2. UNCHANGED qcnt /\ pc \in {"run", "busy"}
    BY <1>7, RunEnds DEF EndOfRun
  <2>3. /\ IsFiniteSet(pending \cup {current})
        /\ Cardinality(pending \cup {current}) \in Nat
        /\ Cardinality(pending \cup {current}) <= Cardinality(pending) + 1
    <3>1. /\ IsFiniteSet(pending \cup {current})
          /\ Cardinality(pending \cup {current}) =
               IF current \in pending THEN Cardinality(pending)
                                      ELSE Cardinality(pending) + 1
      BY <1>a, FS_AddElement
    <3>2. QED
      BY <1>a, <3>1
  <2>4. /\ IsFiniteSet(pending') /\ Cardinality(pending') \in Nat
        /\ Cardinality(pending') <= Cardinality(pending \cup {current})
    BY <2>1, <2>3, FS_Subset, FS_CardinalityType
  <2>5. Cardinality(pending) <= qcnt
    BY <1>0, <2>2 DEF BatchInv
  <2>6. Cardinality(pending') <= qcnt' + 1
    BY <1>a, <1>b, <2>2, <2>3, <2>4, <2>5
  <2>7. QED
    BY <2>1, <2>4, <2>6 DEF BatchInv, Between
<1>8. CASE Disable
  <2>1. UNCHANGED <<pending, qcnt>> /\ pc = "run" /\ pc' = "busy"
    BY <1>8 DEF Disable, dataVars
  <2>2. QED
    BY <1>0, <2>1 DEF BatchInv, Between
<1>9. CASE Finish \/ ReleaseRequest \/ Stop
  <2>1. UNCHANGED <<pending, qcnt, bEmpty, result>>
    BY <1>9 DEF Finish, ReleaseRequest, Stop, dataVars
  <2>2. /\ pc \notin {"run", "busy"} /\ pc' \notin {"run", "busy"}
        /\ Between' => Between
    BY <1>9, <2>1 DEF Finish, ReleaseRequest, Stop, Between
  <2>3. QED
    BY <1>0, <2>1, <2>2 DEF BatchInv
<1>10. CASE CheckBatch
  <2>1. pc = "check" /\ pc' = "loop"
    BY <1>10 DEF CheckBatch
  <2>2. CASE BatchEnds
    <3>1. qcnt' = 0 /\ pending' = {}
      BY <1>10, <2>2 DEF CheckBatch, CommitBatch
    <3>2. QED
      BY <2>1, <3>1, FS_EmptySet DEF BatchInv, Between
  <2>3. CASE ~BatchEnds
    <3>1. UNCHANGED <<qcnt, pending>> /\ ~bEmpty'
      BY <1>10, <2>3 DEF CheckBatch, BatchEnds
    <3>2. qcnt <= BatchLimit
      BY <1>b, <2>3 DEF BatchEnds
    <3>3. QED
      BY <1>0, <2>1, <3>1, <3>2 DEF BatchInv, Between
  <2>4. QED
    BY <2>2, <2>3
<1>11. QED
  BY <1>2, <1>3, <1>4, <1>5, <1>6, <1>7, <1>8, <1>9, <1>10 DEF Next, Worker

-----------------------------------------------------------------------------
(* The theorems *)

\* The inductive invariant holds in every reachable state.
LEMMA Invariance == Spec => []IInv
<1>1. IInv /\ [Next]_vars => IInv'
  BY NextType, NextPlace, NextWritten, NextError, NextFailed, NextTold, NextIdle,
     NextBatch
     DEF IInv
<1>2. QED
  BY InitInv, <1>1, PTL DEF Spec

\* Every variable keeps its type; that of qcnt is its bound.
THEOREM TypeCorrect == Spec => []TypeOK
<1>1. IInv => TypeOK
  BY DEF IInv
<1>2. QED
  BY <1>1, Invariance, PTL

\* No request is lost or answered twice, and none is run after its answer.
THEOREM AnsweredCorrect == Spec => []AnsweredOnce
<1>1. IInv => AnsweredOnce
  BY DEF IInv
<1>2. QED
  BY <1>1, Invariance, PTL

\* A request that was reported as an error has left nothing behind.
THEOREM ErrorCorrect == Spec => []ErrorLeavesNothing
<1>1. IInv => ErrorLeavesNothing
  BY DEF IInv
<1>2. QED
  BY <1>1, Invariance, PTL

\* A synchronous caller is told "true" only of a success, or at the end.
THEOREM ToldCorrect == Spec => []ToldTheTruth
<1>1. IInv => ToldTheTruth
  BY DEF IInv
<1>2. QED
  BY <1>1, Invariance, PTL

\* The worker waits with uncommitted writes only after a skipped request.
THEOREM IdleCorrect == Spec => []IdleIsCommitted
<1>1. IInv => IdleIsCommitted
  BY DEF IInv
<1>2. QED
  BY <1>1, Invariance, PTL

\* A batch has at most BatchLimit + 2 requests, whatever the limit is.
THEOREM BatchCorrect == Spec => []BatchBounded
<1>1. IInv => BatchBounded
  <2> SUFFICES ASSUME IInv  PROVE BatchBounded
    OBVIOUS
  <2>1. qcnt \in 0 .. BatchLimit + 1 /\ BatchLimit \in Nat
    BY ConstantsAssumption DEF IInv, TypeOK
  <2>2. Cardinality(pending) \in Nat /\ Cardinality(pending) <= qcnt + 1
    <3>1. Cardinality(pending) \in Nat
      BY FS_CardinalityType DEF IInv, BatchInv
    <3>2. QED
      BY <2>1, <3>1 DEF IInv, BatchInv
  <2>3. QED
    BY <2>1, <2>2 DEF BatchBounded
<1>2. QED
  BY <1>1, Invariance, PTL

\* One step loses a write that was reported as done only with a cause.
LEMMA NextLoss ==
  ASSUME IInv, [Next]_vars
  PROVE  /\ store \subseteq store'
         /\ \A r \in pending \ (pending' \cup store') : reply[r] = "Success" =>
              \/ pc' = "finish" /\ (result' = "error" \/ current \in discarded)
              \/ session' = "closed"
              \/ lastError /\ ImportDone
<1>1. ASSUME NEW r \in Reqs, Caller(r)
      PROVE  UNCHANGED <<pending, store>>
  BY <1>1 DEF Caller, Enter, Enqueue, Return, Destroy, Discard, dataVars
<1>2. CASE Close \/ Interrupt \/ TakeDiscarded \/ Take \/ Drain \/ Disable
           \/ Finish \/ ReleaseRequest \/ Stop \/ UNCHANGED vars
  <2>1. UNCHANGED <<pending, store>>
    BY <1>2 DEF Close, Interrupt, TakeDiscarded, Take, Drain, Disable, Finish,
       ReleaseRequest, Stop, vars, dataVars
  <2>2. QED
    BY <2>1
<1>3. CASE Closed
  BY <1>3 DEF Closed
<1>a. lastError /\ pc # "finish" => ImportDone
  BY DEF IInv, FailedInv, ImportDone, Imports, Accepted
<1>4. CASE Run \/ Enable \/ FailDisabled
  BY <1>a, <1>4, RunEnds, AfterRun DEF EndOfRun
<1>5. CASE CheckBatch
  BY <1>a, <1>5 DEF CheckBatch, CommitBatch
<1>6. QED
  BY <1>1, <1>2, <1>3, <1>4, <1>5 DEF Next, Worker

\* What is committed stays, and what was reported as done is undone only by an
\* error or a discarded request in its batch, at the end of the session, or with
\* an import that was reported as done although it had failed.
THEOREM LossCorrect == Spec => LossHasCause
  BY Invariance, NextLoss, PTL DEF Spec, LossHasCause

-----------------------------------------------------------------------------
(* The session implements GroupCommit.                                     *)

\* No caller is inside when the thread is asked to end, and the thread ends
\* with an empty queue.
EndInv ==
    /\ session \in {"closing", "closed"} => Writable
    /\ pc = "stopped" => queue = <<>> /\ session \in {"closing", "closed"}

\* The line, as a sequence of requests
LEMMA LineFacts ==
  ASSUME NEW q \in Seq(Reqs), NEW c \in Reqs
  PROVE  /\ <<>> \o q = q
         /\ <<c>> \o q # <<>>
         /\ Head(<<c>> \o q) = c
         /\ Tail(<<c>> \o q) = q
         /\ \A r : Append(<<>> \o q, r) = <<>> \o Append(q, r)
         /\ \A r \in Reqs : Append(<<c>> \o q, r) = <<c>> \o Append(q, r)
         /\ q # <<>> => q = <<Head(q)>> \o Tail(q)
OBVIOUS

\* A request is in the line when it is in the queue or in hand.
LEMMA InLineIs ==
  ASSUME IInv, NEW r \in Reqs
  PROVE  Group!InLine(r) <=> InQueue(r) \/ InHand(r)
<1>1. queue \in Seq(Reqs) /\ Len(queue) \in Nat
  BY DEF IInv, TypeOK
<1>2. CASE InHand(current)
  <2>1. Unanswered = <<current>> \o queue
    BY <1>2 DEF Unanswered
  <2>2. /\ Len(Unanswered) = Len(queue) + 1
        /\ Unanswered[1] = current
        /\ \A i \in 1 .. Len(queue) : Unanswered[i + 1] = queue[i]
    BY <1>1, <2>1
  <2>3. ASSUME Group!InLine(r)  PROVE InQueue(r) \/ InHand(r)
    <3>1. PICK i \in 1 .. Len(Unanswered) : Unanswered[i] = r
      BY <2>3 DEF Group!InLine
    <3>2. CASE i = 1
      BY <1>2, <2>2, <3>1, <3>2 DEF InHand
    <3>3. CASE i # 1
      <4>1. i - 1 \in 1 .. Len(queue) /\ (i - 1) + 1 = i
        BY <1>1, <2>2, <3>1, <3>3
      <4>2. queue[i - 1] = r
        BY <2>2, <3>1, <4>1
      <4>3. QED
        BY <4>1, <4>2 DEF InQueue
    <3>4. QED
      BY <3>2, <3>3
  <2>4. ASSUME InQueue(r)  PROVE Group!InLine(r)
    <3>1. PICK i \in 1 .. Len(queue) : queue[i] = r
      BY <2>4 DEF InQueue
    <3>2. i + 1 \in 1 .. Len(Unanswered) /\ Unanswered[i + 1] = r
      BY <1>1, <2>2, <3>1
    <3>3. QED
      BY <3>2 DEF Group!InLine
  <2>5. ASSUME InHand(r)  PROVE Group!InLine(r)
    <3>1. 1 \in 1 .. Len(Unanswered) /\ Unanswered[1] = r
      BY <1>1, <2>2, <2>5 DEF InHand
    <3>2. QED
      BY <3>1 DEF Group!InLine
  <2>6. QED
    BY <2>3, <2>4, <2>5
<1>3. CASE ~InHand(current)
  <2>1. Unanswered = queue
    BY <1>1, <1>3 DEF Unanswered
  <2>2. ~InHand(r)
    BY <1>3 DEF InHand
  <2>3. QED
    BY <2>1, <2>2 DEF Group!InLine, InQueue
<1>4. QED
  BY <1>2, <1>3

\* A request joins the line when it is queued.
LEMMA EnqueueGroup ==
  ASSUME IInv, EndInv, NEW r \in Reqs, Enqueue(r)
  PROVE  Group!Join(r)
<1>1. queue \in Seq(Reqs) /\ r \notin Accepted /\ ~InQueue(r) /\ r # current
  BY AfterEnqueue DEF IInv, TypeOK
<1>2. ~Group!InLine(r) /\ reply[r] = None
  BY <1>1, InLineIs DEF InHand, IInv, AnsweredOnce
<1>3. session # "closed"
  BY DEF Enqueue, EndInv, Writable
<1>4. UNCHANGED <<pc, current, result, discarded, reply, pending, store, lastError, session>>
  BY DEF Enqueue, objVars, runVars, dataVars
<1>a. Imports' \in {Imports, Imports \cup {r}}
  BY DEF Enqueue, Imports, Accepted, IInv, TypeOK
<1>5. Unanswered' = Append(Unanswered, r)
  <2>1. queue' = Append(queue, r)
    BY DEF Enqueue
  <2>2. CASE InHand(current)
    <3>1. current \in Reqs
      BY <2>2, <1>1 DEF InHand, IInv, PlaceInv, TypeOK
    <3>2. QED
      BY <1>1, <1>4, <2>1, <2>2, <3>1, LineFacts DEF Unanswered, InHand
  <2>3. CASE ~InHand(current)
    BY <1>1, <1>4, <2>1, <2>3 DEF Unanswered, InHand
  <2>4. QED
    BY <2>2, <2>3
<1>6. Served' = Served
  BY <1>4 DEF Served
<1>7. QED
  BY <1>2, <1>3, <1>4, <1>a, <1>5, <1>6 DEF Group!Join

\* A request in hand is the first of the line.
LEMMA InHandFirst ==
  ASSUME IInv, pc \in {"run", "busy", "finish"}
  PROVE  /\ current \in Reqs /\ queue \in Seq(Reqs)
         /\ Unanswered = <<current>> \o queue
         /\ Unanswered # <<>> /\ Head(Unanswered) = current /\ Tail(Unanswered) = queue
<1>1. current \in Reqs /\ queue \in Seq(Reqs)
  BY DEF IInv, PlaceInv, TypeOK
<1>2. Unanswered = <<current>> \o queue
  BY DEF Unanswered, InHand
<1>3. QED
  BY <1>1, <1>2, LineFacts

\* A request that is taken stays the first of the line.
LEMMA PopGroup ==
  ASSUME IInv, Pop
  PROVE  /\ Unanswered # <<>> /\ Head(Unanswered) = Head(queue)
         /\ Unanswered' = Unanswered /\ Served = "waiting"
<1>1. queue \in Seq(Reqs) /\ queue # <<>>
  BY DEF IInv, TypeOK, Pop
<1>2. Unanswered = queue /\ Served = "waiting"
  BY <1>1 DEF Pop, Unanswered, InHand, Served
<1>3. Unanswered' = <<Head(queue)>> \o Tail(queue)
  BY DEF Pop, PopFront, Unanswered, InHand
<1>4. queue = <<Head(queue)>> \o Tail(queue)
  BY <1>1
<1>5. QED
  BY <1>1, <1>2, <1>3, <1>4

\* The outcomes of run() are those that GroupCommit names.
LEMMA OutcomeGroup ==
  ASSUME NEW ok \in BOOLEAN, NEW k \in AllKinds, NEW o \in Outcomes(ok, k),
         lastError \in BOOLEAN
  PROVE  \E b \in {pending} \cup (IF lastError THEN {{}} ELSE {}) :
            /\ \E own \in {{}, {current}} : o.store \in {store \cup own, store \cup b \cup own}
            /\ \/ o.pending \in {b, b \cup {current}} /\ o.store = store
               \/ o.pending = b /\ o.store = store \cup {current}
               \/ /\ o.pending \subseteq {current}
                  /\ o.store \in {store \cup b, store \cup b \cup {current}}
<1> DEFINE Fits(b) ==
             /\ \E own \in {{}, {current}} : o.store \in {store \cup own, store \cup b \cup own}
             /\ \/ o.pending \in {b, b \cup {current}} /\ o.store = store
                \/ o.pending = b /\ o.store = store \cup {current}
                \/ /\ o.pending \subseteq {current}
                   /\ o.store \in {store \cup b, store \cup b \cup {current}}
           Batches == {pending} \cup (IF lastError THEN {{}} ELSE {})
<1>1. CASE Goes(o)
  <2>1. \/ o.store = store /\ o.pending \in {pending, pending \cup {current}}
        \/ o.store = store \cup {current} /\ o.pending = pending
    <3>1. pending = pending \cup {} /\ store = store \cup {}
      OBVIOUS
    <3>2. CASE inTransaction
      BY <1>1, <3>1, <3>2 DEF Goes, Untouched, Written
    <3>3. CASE ~inTransaction
      BY <1>1, <3>1, <3>3 DEF Goes, Untouched, Written
    <3>4. QED
      BY <3>2, <3>3
  <2>2. store = store \cup {}
    OBVIOUS
  <2>3. Fits(pending)
    BY <2>1, <2>2
  <2>4. QED
    BY <2>3
<1>2. CASE Ends(o) \/ Leaves(o)
  <2>1. PICK s \in Flushed, own \in {{}, {current}} :
           o.store = s \cup own /\ o.pending \subseteq {current}
    BY <1>2 DEF Ends, Leaves, Closing, LeftOpen
  <2>2. PICK b \in Batches : s = store \cup b
    <3>1. store = store \cup {}
      OBVIOUS
    <3>2. QED
      BY <3>1 DEF Flushed
  <2>3. o.store \in {store \cup b, store \cup b \cup {current}}
    BY <2>1, <2>2
  <2>4. Fits(b)
    BY <2>1, <2>2, <2>3
  <2>5. QED
    BY <2>4
<1>3. QED
  BY <1>1, <1>2, OutcomeForms

\* The end of run() serves the first of the line.
LEMMA RunGroup ==
  ASSUME IInv, EndOfRun
  PROVE  \E ok \in BOOLEAN : Group!Serve(ok)
<1>1. current \in Reqs /\ kind[current] \in AllKinds
  BY AfterRun, ConstantsAssumption
<1>2. PICK ok \in BOOLEAN : \E o \in Outcomes(ok, kind[current]) : Judge(ok, o)
  BY DEF EndOfRun
<1>3. PICK o \in Outcomes(ok, kind[current]) : Judge(ok, o)
  BY <1>2
<1>4. /\ pc' = "finish" /\ store' = o.store
      /\ result' = IF ok THEN "ok" ELSE "error"
      /\ IF Undone(ok) THEN pending' = {} /\ lastError' = FALSE ELSE pending' = o.pending
  BY <1>3 DEF Judge
<1>5. /\ pc \in {"run", "busy"}
      /\ UNCHANGED <<caller, kind, current, queue, discarded, reply, session>>
      /\ Imports' = Imports
  BY DEF EndOfRun, Imports, Accepted
<1>6. /\ Unanswered # <<>> /\ Head(Unanswered) = current
      /\ Unanswered' = Unanswered
  BY <1>4, <1>5, InHandFirst DEF Unanswered, InHand
<1>7. Served = "waiting" /\ Served' = IF ok THEN "ok" ELSE "error"
  BY <1>4, <1>5 DEF Served
<1>a. lastError' => lastError \/ current \in Imports
  BY <1>1, AfterRun DEF Imports, Accepted, IInv, PlaceInv
<1>b. PICK b \in Group!Found :
        /\ \E own \in {{}, {current}} : o.store \in {store \cup own, store \cup b \cup own}
        /\ \/ o.pending \in {b, b \cup {current}} /\ o.store = store
           \/ o.pending = b /\ o.store = store \cup {current}
           \/ /\ o.pending \subseteq {current}
              /\ o.store \in {store \cup b, store \cup b \cup {current}}
  BY <1>1, OutcomeGroup DEF Group!Found, IInv, TypeOK
<1>8. CASE ok /\ current \notin discarded
  <2>1. pending' = o.pending
    BY <1>4, <1>8 DEF Undone
  <2>2. Group!Kept(current, b)
    BY <1>4, <1>b, <2>1 DEF Group!Kept
  <2>3. QED
    BY <1>5, <1>6, <1>7, <1>8, <1>a, <2>2 DEF Group!Serve
<1>9. CASE ~(ok /\ current \notin discarded)
  <2>1. pending' = {} /\ lastError' = FALSE
    BY <1>4, <1>9 DEF Undone
  <2>2. Group!Gone(current, b)
    BY <1>4, <1>b, <2>1 DEF Group!Gone
  <2>3. QED
    BY <1>5, <1>6, <1>7, <1>9, <2>1, <2>2 DEF Group!Serve
<1>10. QED
  BY <1>8, <1>9

\* The end of the thread is kept in mind.
LEMMA NextEnd == IInv /\ EndInv /\ [Next]_vars => EndInv'
<1> SUFFICES ASSUME IInv, EndInv, [Next]_vars  PROVE EndInv'
  OBVIOUS
<1>1. ASSUME NEW r \in Reqs, Caller(r)  PROVE EndInv'
  <2>1. session' = session /\ pc' = pc
    BY <1>1 DEF Caller, Enter, Enqueue, Return, Destroy, Discard, runVars, callVars
  <2>2. CASE \E k \in Kinds, s \in BOOLEAN : Enter(r, k, s)
    BY <2>1, <2>2 DEF Enter, Readable, EndInv, Writable
  <2>3. CASE Enqueue(r)
    BY <2>1, <2>3 DEF Enqueue, EndInv, Writable
  <2>4. CASE Return(r)
    BY <2>1, <2>4 DEF Return, EndInv, Writable
  <2>5. CASE Destroy(r) \/ Discard(r)
    BY <2>1, <2>5 DEF Destroy, Discard, callVars, EndInv, Writable
  <2>6. QED
    BY <1>1, <2>2, <2>3, <2>4, <2>5 DEF Caller
<1>2. CASE Close \/ Interrupt \/ Closed \/ UNCHANGED vars
  BY <1>2 DEF Close, Interrupt, Closed, vars, callVars, runVars, EndInv, Writable
<1>3. CASE Worker
  <2>1. session' = session /\ caller' = caller
    BY <1>3 DEF Worker, TakeDiscarded, Take, Run, Disable, Enable, FailDisabled,
       Finish, ReleaseRequest, CheckBatch, Drain, Stop, callVars
  <2>2. pc' = "stopped" => Stop
    BY <1>3 DEF Worker, TakeDiscarded, Take, Run, Disable, Enable, FailDisabled,
       Judge, Finish, ReleaseRequest, CheckBatch, Drain
  <2>3. QED
    BY <2>1, <2>2 DEF EndInv, Writable, Stop
<1>4. QED
  BY <1>1, <1>2, <1>3 DEF Next

\* A step that leaves the line, its answers and what is written alone
LEMMA QuietGroup ==
  ASSUME Unanswered' = Unanswered, Served' = Served,
         UNCHANGED <<discarded, reply, pending, store, lastError>>, Imports' = Imports,
         (session # "closed")' = (session # "closed")
  PROVE  UNCHANGED Group!groupVars
BY DEF Group!groupVars

\* Every step of the session is a step of GroupCommit or leaves it unchanged.
LEMMA NextGroup ==
  IInv /\ EndInv /\ [Next]_vars => [Group!GroupNext]_(Group!groupVars)
<1> SUFFICES ASSUME IInv, EndInv, [Next]_vars
             PROVE  Group!GroupNext \/ UNCHANGED Group!groupVars
  OBVIOUS
<1>1. ASSUME NEW r \in Reqs, Caller(r)
      PROVE  Group!GroupNext \/ UNCHANGED Group!groupVars
  <2>1. CASE (\E k \in Kinds, s \in BOOLEAN : Enter(r, k, s)) \/ Return(r) \/ Destroy(r)
    <3>1. UNCHANGED <<pc, current, result, queue, discarded, reply, pending, store,
                      lastError, session>>
      BY <2>1 DEF Enter, Return, Destroy, objVars, runVars, dataVars
    <3>2. Imports' = Imports
      BY <2>1 DEF Enter, Return, Destroy, callVars, Imports, Accepted, IInv, TypeOK
    <3>3. QED
      BY <3>1, <3>2, QuietGroup DEF Unanswered, InHand, Served
  <2>2. CASE Enqueue(r)
    BY <2>2, EnqueueGroup DEF Group!GroupNext
  <2>3. CASE Discard(r)
    <3>1. /\ UNCHANGED <<pc, current, result, queue, reply, pending, store, lastError,
                       session>>
          /\ Imports' = Imports
      BY <2>3 DEF Discard, callVars, runVars, dataVars, Imports, Accepted
    <3>2. Group!InLine(r)
      BY <2>3, InLineIs DEF Discard, IInv, AnsweredOnce
    <3>3. Group!Discard(r)
      BY <2>3, <3>1, <3>2 DEF Discard, Group!Discard, Unanswered, InHand, Served
    <3>4. QED
      BY <3>3 DEF Group!GroupNext
  <2>4. QED
    BY <1>1, <2>1, <2>2, <2>3 DEF Caller
<1>2. CASE Close \/ Interrupt \/ UNCHANGED vars
  <2>1. /\ UNCHANGED <<pc, current, result, queue, discarded, reply, pending, store,
                      lastError>>
        /\ Imports' = Imports
    BY <1>2 DEF Close, Interrupt, vars, callVars, objVars, runVars, dataVars, Imports,
       Accepted
  <2>2. (session # "closed")' = (session # "closed")
    BY <1>2 DEF Close, Interrupt, vars
  <2>3. QED
    BY <2>1, <2>2, QuietGroup DEF Unanswered, InHand, Served
<1>3. CASE Closed
  <2>1. Unanswered = <<>> /\ Unanswered' = <<>>
    BY <1>3 DEF Closed, EndInv, Unanswered, InHand, runVars
  <2>2. Group!End
    BY <1>3, <2>1 DEF Closed, Group!End, Served, callVars, objVars, runVars, Imports,
       Accepted
  <2>3. QED
    BY <2>2 DEF Group!GroupNext
<1>4. CASE TakeDiscarded \/ Drain
  <2>1. Pop
    BY <1>4, Pops
  <2>2. discarded' = discarded \cup {Head(queue)} /\ pc' = "finish" /\ result' = "skip"
    BY <1>4 DEF TakeDiscarded, Drain, objVars
  <2>3. UNCHANGED <<reply, pending, store, lastError, session>> /\ Imports' = Imports
    BY <1>4 DEF TakeDiscarded, Drain, callVars, objVars, dataVars, Imports, Accepted
  <2>4. Group!Skip
    BY <2>1, <2>2, <2>3, PopGroup DEF Group!Skip, Served
  <2>5. QED
    BY <2>4 DEF Group!GroupNext
<1>5. CASE Take
  <2>1. Pop /\ pc' = "run"
    BY <1>5, Pops DEF Take
  <2>2. UNCHANGED <<discarded, reply, pending, store, lastError, session>> /\ Imports' = Imports
    BY <1>5 DEF Take, callVars, objVars, Imports, Accepted
  <2>3. Served' = Served
    BY <2>1, PopGroup DEF Served
  <2>4. QED
    BY <2>1, <2>2, <2>3, PopGroup, QuietGroup
<1>6. CASE Run \/ Enable \/ FailDisabled
  BY <1>6, RunEnds, RunGroup DEF Group!GroupNext
<1>7. CASE Disable
  <2>1. /\ UNCHANGED <<current, queue, discarded, reply, pending, store, lastError, session>>
        /\ Imports' = Imports
    BY <1>7 DEF Disable, callVars, objVars, dataVars, Imports, Accepted
  <2>2. pc = "run" /\ pc' = "busy"
    BY <1>7 DEF Disable
  <2>3. QED
    BY <2>1, <2>2, QuietGroup DEF Unanswered, InHand, Served
<1>8. CASE Finish
  <2>1. /\ pc = "finish" /\ pc' = "release"
        /\ UNCHANGED <<discarded, queue, pending, store, lastError, session>>
        /\ Imports' = Imports
    BY <1>8 DEF Finish, callVars, dataVars, Imports, Accepted
  <2>2. /\ Head(Unanswered) = current /\ Tail(Unanswered) = queue /\ queue \in Seq(Reqs)
    BY <2>1, InHandFirst
  <2>3. Unanswered' = queue /\ Served' = "waiting"
    BY <2>1, <2>2 DEF Unanswered, InHand, Served
  <2>4. Served = result /\ Served # "waiting"
    BY <2>1 DEF Served, IInv, TypeOK
  <2>5. reply' = [reply EXCEPT ![Head(Unanswered)] =
                    IF Head(Unanswered) \in discarded THEN "Discarded"
                    ELSE IF Served = "error" THEN "Error" ELSE "Success"]
    BY <1>8, <2>2, <2>4 DEF Finish
  <2>6. Group!Answer
    BY <2>1, <2>2, <2>3, <2>4, <2>5 DEF Group!Answer
  <2>7. QED
    BY <2>6 DEF Group!GroupNext
<1>9. CASE ReleaseRequest \/ Stop
  <2>1. /\ UNCHANGED <<queue, discarded, reply, pending, store, lastError, session>>
        /\ Imports' = Imports
    BY <1>9 DEF ReleaseRequest, Stop, callVars, objVars, dataVars, Imports, Accepted
  <2>2. {pc, pc'} \cap {"run", "busy", "finish"} = {}
    BY <1>9 DEF ReleaseRequest, Stop
  <2>3. QED
    BY <2>1, <2>2, QuietGroup DEF Unanswered, InHand, Served
<1>10. CASE CheckBatch
  <2>1. /\ pc = "check" /\ pc' = "loop"
        /\ UNCHANGED <<queue, discarded, reply, session>> /\ Imports' = Imports
    BY <1>10 DEF CheckBatch, callVars, objVars, Imports, Accepted
  <2>2. Unanswered' = Unanswered /\ Served' = Served /\ Served = "waiting"
    BY <2>1 DEF Unanswered, InHand, Served
  <2>3. CASE BatchEnds
    <3>1. Group!Commit
      BY <1>10, <2>1, <2>2, <2>3 DEF CheckBatch, CommitBatch, Group!Commit
    <3>2. QED
      BY <3>1 DEF Group!GroupNext
  <2>4. CASE ~BatchEnds
    BY <1>10, <2>1, <2>2, <2>4, QuietGroup DEF CheckBatch
  <2>5. QED
    BY <2>3, <2>4
<1>11. QED
  BY <1>1, <1>2, <1>3, <1>4, <1>5, <1>6, <1>7, <1>8, <1>9, <1>10 DEF Next, Worker

LEMMA InitGroup == Init => Group!GroupInit /\ EndInv
BY DEF Init, Group!GroupInit, EndInv, Unanswered, InHand, Served, Imports, Accepted

\* The session keeps the promise of GroupCommit: requests are served and
\* answered in their order, and a batch is committed or lost as a whole.
THEOREM GroupCorrect == Spec => ImplementsGroupCommit
<1>1. Spec => []EndInv
  BY InitGroup, Invariance, NextEnd, PTL DEF Spec
<1>2. QED
  BY <1>1, InitGroup, Invariance, NextGroup, PTL
     DEF Spec, ImplementsGroupCommit, Group!GroupSpec
=============================================================================
