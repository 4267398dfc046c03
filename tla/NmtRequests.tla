---------------------------- MODULE NmtRequests ----------------------------
(***************************************************************************)
(* The NMT request sequencer of the PApx protocol: PApxNodes (one per      *)
(* vehicle) sends the requests of all its PApxNode objects one at a time,  *)
(* with a retry budget and two single-shot timers, and PApxNode keeps the  *)
(* list of its own requests, in which the answers are looked up.           *)
(*                                                                         *)
(* All handlers run on the GUI event loop, so an action is one slot call   *)
(* with every call it makes.  A timer is a flag: armed, it may fire at any *)
(* later step, which covers the 0 ms, 100 ms, 1000 ms and node-chosen      *)
(* intervals of the code.                                                  *)
(***************************************************************************)
EXTENDS Integers, FiniteSets

CONSTANTS
    Reqs,      \* request objects; each is constructed at most once
    Nodes,     \* node uids
    Kinds,     \* subset of AllKinds: the request classes in use
    Names,     \* file names / module addresses, the cid() of a request
    Retries,   \* PApxNodeRequest::retries
    MaxSteps,  \* bound: answers that continue or extend one transfer
    None       \* the null pointer

AllKinds == {"ident", "reboot", "mod", "sh", "usr", "upd", "file"}

\* Requests of several packets: each answer asks for the next packet.
Stepped == {"upd", "file"}

\* The answer is looked at only after the request was sent; the base class
\* and the ident request take any answer with their uid.
ChecksActive == {"mod", "upd", "file"}

\* timeout_ms() = 0: sent once, no answer expected.
OneShot == {"usr", "sh"}

ASSUME ConstantsAssumption ==
    /\ Kinds \subseteq AllKinds
    /\ None \notin Reqs
    /\ Retries \in Nat
    /\ MaxSteps \in Nat

\* mod and sh share the uid nmt::mod.
Uid(k) == IF k = "sh" THEN "mod" ELSE k

\* Only module and file requests have a cid().
Cids(k) == IF k \in {"mod", "sh", "file"} THEN Names ELSE {None}

VARIABLES
    stage,         \* life of a request object
    node,          \* PApxNodeRequest::_node
    kind,          \* class of the request
    cid,           \* cid() of the request
    active,        \* PApxNodeRequest::_active
    steps,         \* continuations of a transfer left (bound MaxSteps)
    ended,         \* times finished() was emitted
    nodeRequests,  \* PApxNode::_requests
    requests,      \* PApxNodes::_requests
    since,         \* order of appending to both lists
    appended,      \* number of appends so far
    request,       \* PApxNodes::_request
    retry,         \* PApxNodes::_retry
    reqNext,       \* PApxNodes::_reqNext is armed
    reqTimeout,    \* PApxNodes::_reqTimeout is armed
    crashed        \* a deleted request was used: nothing is known any more

objVars  == <<stage, node, kind, cid, active, steps, ended>>
listVars == <<nodeRequests, requests, since, appended, crashed>>
seqVars  == <<request, retry, reqNext, reqTimeout>>
vars == <<stage, node, kind, cid, active, steps, ended,
          nodeRequests, requests, since, appended,
          request, retry, reqNext, reqTimeout, crashed>>

Stages == {"none", "created", "queued", "deleted", "leaked"}

TypeOK ==
    /\ stage \in [Reqs -> Stages]
    /\ node \in [Reqs -> Nodes \cup {None}]
    /\ kind \in [Reqs -> Kinds \cup {None}]
    /\ cid \in [Reqs -> Names \cup {None}]
    /\ active \in [Reqs -> BOOLEAN]
    /\ steps \in [Reqs -> 0 .. MaxSteps]
    /\ ended \in [Reqs -> Nat]
    /\ nodeRequests \in [Nodes -> SUBSET Reqs]
    /\ requests \in SUBSET Reqs
    /\ since \in [Reqs -> Nat]
    /\ appended \in Nat
    /\ request \in Reqs \cup {None}
    /\ retry \in 0 .. Retries
    /\ reqNext \in BOOLEAN
    /\ reqTimeout \in BOOLEAN
    /\ crashed \in BOOLEAN

Init ==
    /\ stage = [r \in Reqs |-> "none"]
    /\ node = [r \in Reqs |-> None]
    /\ kind = [r \in Reqs |-> None]
    /\ cid = [r \in Reqs |-> None]
    /\ active = [r \in Reqs |-> FALSE]
    /\ steps = [r \in Reqs |-> MaxSteps]
    /\ ended = [r \in Reqs |-> 0]
    /\ nodeRequests = [n \in Nodes |-> {}]
    /\ requests = {}
    /\ since = [r \in Reqs |-> 0]
    /\ appended = 0
    /\ request = None
    /\ retry = 0
    /\ reqNext = FALSE
    /\ reqTimeout = FALSE
    /\ crashed = FALSE

-----------------------------------------------------------------------------
(* The lists.  A QList that is only appended to and removed from is the    *)
(* set of its members with the order in which they were appended.          *)

\* r is the first of the list q
IsFirst(r, q) == r \in q /\ \A x \in q : since[r] <= since[x]

\* A pass that removes "mine" from the list it iterates over.  On a list of
\* fewer than SweepSafe requests it finds them all (NmtSweep); on a longer
\* one the iterator may jump over some, though never over the first.
SweepSafe == 6

Swept(list, mine) ==
    IF Cardinality(list) < SweepSafe
      THEN {mine}
      ELSE {g \in SUBSET mine : \A r \in mine : IsFirst(r, mine) => r \in g}

\* A walk that meets the address of a deleted request goes on, or ends the
\* program.
MayCrash(danger) == crashed' \in IF danger THEN BOOLEAN ELSE {FALSE}

\* PApxNodeRequest::equals, for two requests of one node
Equal(r, x) == Uid(kind[r]) = Uid(kind[x]) /\ cid[r] = cid[x]

\* The requests of node n in the sequencer
OfNode(n) == {r \in requests : node[r] = n}

\* Slips of request_next: the newest request first, the budget of the request
\* before kept.
RequestNextNewest(rest, armed) ==
    /\ reqNext' = (armed \/ rest # {})
    /\ IF rest = {}
         THEN request' = None /\ retry' = retry
         ELSE /\ \E r \in rest : /\ \A x \in rest : since[x] <= since[r]
                                /\ request' = r
              /\ retry' = Retries

RequestNextKeepsBudget(rest, armed) ==
    /\ reqNext' = (armed \/ rest # {})
    /\ retry' = retry
    /\ IF rest = {}
         THEN request' = None
         ELSE \E r \in rest : IsFirst(r, rest) /\ request' = r

\* request_next: the first request left becomes current with a full budget.
\* armed: whether _reqNext is already running.
RequestNext(rest, armed) ==
    /\ reqNext' = (armed \/ rest # {})
    /\ IF rest = {}
         THEN request' = None /\ retry' = retry
         ELSE /\ \E r \in rest : IsFirst(r, rest) /\ request' = r
              /\ retry' = Retries

\* A slip: the answer timer of the ended request is not stopped.
ReleaseKeepsTimeout(gone, armed, tmo) ==
    /\ requests' = requests \ gone
    /\ reqTimeout' = tmo
    /\ IF request = None \/ request \in gone
         THEN RequestNext(requests \ gone, armed)
         ELSE reqNext' = armed /\ UNCHANGED <<request, retry>>

\* The requests of "gone" leave the sequencer: request_finished for each of
\* them, or cancel_requests.  tmo: whether _reqTimeout still runs.
Release(gone, armed, tmo) ==
    /\ requests' = requests \ gone
    /\ IF request = None \/ request \in gone
         THEN /\ RequestNext(requests \ gone, armed)
              /\ reqTimeout' = FALSE
         ELSE /\ reqNext' = armed
              /\ reqTimeout' = tmo
              /\ UNCHANGED <<request, retry>>

\* Slips of deleting: the list of the node is forgotten; finished() is not
\* emitted.
DeleteForgetsNode(gone) ==
    /\ stage' = [r \in Reqs |-> IF r \in gone THEN "deleted" ELSE stage[r]]
    /\ ended' = [r \in Reqs |-> IF r \in gone THEN ended[r] + 1 ELSE ended[r]]
    /\ UNCHANGED nodeRequests

DeleteSilently(gone) ==
    /\ stage' = [r \in Reqs |-> IF r \in gone THEN "deleted" ELSE stage[r]]
    /\ ended' = ended
    /\ nodeRequests' = [n \in Nodes |->
                          nodeRequests[n] \ {r \in gone : node[r] = n}]

\* finished() is emitted and the object deleted; its destructor takes it off
\* the list of its node (request_deleted).
Delete(gone) ==
    /\ stage' = [r \in Reqs |-> IF r \in gone THEN "deleted" ELSE stage[r]]
    /\ ended' = [r \in Reqs |-> IF r \in gone THEN ended[r] + 1 ELSE ended[r]]
    /\ nodeRequests' = [n \in Nodes |->
                          nodeRequests[n] \ {r \in gone : node[r] = n}]

-----------------------------------------------------------------------------
(* Operations *)

\* A request is constructed: it schedules itself from a 1 ms timer whose
\* context object is the node.
Create(r, n, k) ==
    /\ stage[r] = "none"
    /\ stage' = [stage EXCEPT ![r] = "created"]
    /\ node' = [node EXCEPT ![r] = n]
    /\ kind' = [kind EXCEPT ![r] = k]
    /\ \E c \in Cids(k) : cid' = [cid EXCEPT ![r] = c]
    /\ UNCHANGED <<active, steps, ended>>
    /\ UNCHANGED listVars
    /\ UNCHANGED seqVars

\* A slip: duplicates are looked for among the requests that were sent.
RivalsSent(r) == {x \in nodeRequests[node[r]] : Equal(x, r) /\ active[x]}

\* The equal requests that stand in the way of r in the list of its node
Rivals(r) == {x \in nodeRequests[node[r]] : Equal(x, r)}

\* schedule_request: the new request is a duplicate of one that was sent, or
\* of an ident request, and is deleted.  It is in no list, so
\* request_finished only finds that another request is current, or none.
ScheduleDuplicate(r) ==
    /\ stage[r] = "created"
    /\ \E x \in Rivals(r) : Uid(kind[r]) = "ident" \/ active[x]
    /\ Delete({r})
    /\ Release({r}, reqNext, reqTimeout)
    /\ UNCHANGED <<node, kind, cid, active, steps, since, appended, crashed>>

\* schedule_request: r replaces its duplicates that were not sent yet and is
\* appended to both lists.  If the replaced request was current, its removal
\* has already started the next one of the others; r starts when it is alone.
Schedule(r) ==
    /\ stage[r] = "created"
    /\ Uid(kind[r]) # "ident" \/ Rivals(r) = {}
    /\ \A x \in Rivals(r) : ~active[x]
    /\ LET gone == Rivals(r)
           rest == requests \ gone
       IN /\ stage' = [x \in Reqs |-> IF x \in gone THEN "deleted"
                                      ELSE IF x = r THEN "queued"
                                      ELSE stage[x]]
          /\ ended' = [x \in Reqs |-> IF x \in gone THEN ended[x] + 1
                                                    ELSE ended[x]]
          /\ nodeRequests' = [nodeRequests EXCEPT
                                ![node[r]] = (@ \ gone) \cup {r}]
          /\ requests' = rest \cup {r}
          /\ since' = [since EXCEPT ![r] = appended + 1]
          /\ appended' = appended + 1
          /\ IF request = None \/ request \in gone
               THEN /\ IF rest = {}
                         THEN request' = r
                         ELSE \E x \in rest : IsFirst(x, rest) /\ request' = x
                    /\ retry' = Retries
                    /\ reqNext' = TRUE
                    /\ reqTimeout' = (reqTimeout /\ gone = {})
               ELSE UNCHANGED seqVars
    /\ UNCHANGED <<node, kind, cid, active, steps, crashed>>

\* request_current with nothing to send
NextIdle ==
    /\ reqNext
    /\ request = None
    /\ reqNext' = FALSE
    /\ UNCHANGED <<request, retry, reqTimeout>>
    /\ UNCHANGED objVars
    /\ UNCHANGED listVars

\* request_current: the packet is sent and the answer timer started.
Send ==
    /\ reqNext
    /\ request # None
    /\ active' = [active EXCEPT ![request] = TRUE]
    /\ reqNext' = FALSE
    /\ reqTimeout' = TRUE
    /\ UNCHANGED <<request, retry>>
    /\ UNCHANGED <<stage, node, kind, cid, steps, ended>>
    /\ UNCHANGED listVars

\* request_current: the packet cannot be made (the file or the field is not
\* known any more) and the request is discarded.
SendFails ==
    /\ reqNext
    /\ request # None
    /\ kind[request] \in Stepped
    /\ active' = [active EXCEPT ![request] = TRUE]
    /\ Delete({request})
    /\ Release({request}, FALSE, reqTimeout)
    /\ UNCHANGED <<node, kind, cid, steps, since, appended, crashed>>

\* request_timeout of a request that expects no answer: discarded.
TimeoutOneShot ==
    /\ reqTimeout
    /\ request # None
    /\ kind[request] \in OneShot
    /\ Delete({request})
    /\ Release({request}, reqNext, FALSE)
    /\ UNCHANGED <<node, kind, cid, active, steps, since, appended, crashed>>

\* A slip: a retry is not counted.
TimeoutRetryUncounted ==
    /\ reqTimeout
    /\ request # None
    /\ kind[request] \notin OneShot
    /\ retry > 0
    /\ reqNext' = TRUE
    /\ reqTimeout' = FALSE
    /\ UNCHANGED <<request, retry>>
    /\ UNCHANGED objVars
    /\ UNCHANGED listVars

\* request_timeout with budget left: the packet is made and sent again.
TimeoutRetry ==
    /\ reqTimeout
    /\ request # None
    /\ kind[request] \notin OneShot
    /\ retry > 0
    /\ retry' = retry - 1
    /\ reqNext' = TRUE
    /\ reqTimeout' = FALSE
    /\ UNCHANGED request
    /\ UNCHANGED objVars
    /\ UNCHANGED listVars

\* request_timeout with the budget spent: every request of the node is
\* cancelled.  The pass over a long list may touch a deleted request.
TimeoutDrop ==
    /\ reqTimeout
    /\ request # None
    /\ kind[request] \notin OneShot
    /\ retry = 0
    /\ \E gone \in Swept(requests, OfNode(node[request])) :
          Delete(gone) /\ Release(gone, reqNext, FALSE)
    /\ MayCrash(Cardinality(requests) >= SweepSafe)
    /\ UNCHANGED <<node, kind, cid, active, steps, since, appended>>

-----------------------------------------------------------------------------
(* Answers.  Any packet may arrive at any time: late, twice, for a request  *)
(* that was not sent, or never.                                             *)

\* r is in the list of its node and looks at packets of its uid
Listens(r) == \E n \in Nodes : r \in nodeRequests[n]

\* An answer completes r: check_response is true and delete_request follows.
\* The walk of process_downlink over the list goes on.  It meets no other request
\* that takes the answer: of those that do so before they were sent there is one
\* of a uid at most, the others have to be active.  Nor does it meet a deleted
\* one: a single removal leaves one stale slot, the first, which the walk has
\* passed, or the last, which still names the last request, alive unless it was
\* the one removed, and then the walk is over.
Answered(r) ==
    /\ Listens(r)
    /\ kind[r] # "sh"
    /\ kind[r] \in ChecksActive => active[r]
    /\ Delete({r})
    /\ Release({r}, reqNext, reqTimeout)
    /\ UNCHANGED <<node, kind, cid, active, steps, since, appended, crashed>>

\* An ident answer with another list of files: the file requests of the node
\* are deleted first (updateFiles), then the ident request itself.  When a
\* file request was current, deleting it has started _reqNext.  The walk of
\* process_downlink that found r goes on over the changed list, and may meet a
\* deleted request if a file request stood behind r (AnswerIsSafe of NmtSweep).
AnsweredNewFiles(r) ==
    /\ Listens(r)
    /\ kind[r] = "ident"
    /\ LET list == nodeRequests[node[r]]
           mine == {x \in list : kind[x] = "file"}
       IN /\ \E files \in Swept(list, mine) :
               /\ Delete(files \cup {r})
               /\ Release(files \cup {r}, reqNext \/ request \in files,
                          reqTimeout)
          /\ MayCrash(\/ Cardinality(list) >= SweepSafe
                      \/ \E x \in mine : since[x] > since[r])
    /\ UNCHANGED <<node, kind, cid, active, steps, since, appended>>

\* An answer moves a transfer on: reschedule_request, which is ignored by
\* the sequencer unless the request is the current one.
Continue(r) ==
    /\ Listens(r)
    /\ kind[r] \in Stepped
    /\ active[r]
    /\ steps[r] > 0
    /\ steps' = [steps EXCEPT ![r] = @ - 1]
    /\ IF request = r
         THEN /\ retry' = Retries
              /\ reqTimeout' = FALSE
              /\ reqNext' = TRUE
              /\ UNCHANGED request
         ELSE UNCHANGED seqVars
    /\ UNCHANGED <<stage, node, kind, cid, active, ended>>
    /\ UNCHANGED listVars

\* The node asks for more time for a write: the answer timer is restarted.
Extend(r) ==
    /\ Listens(r)
    /\ kind[r] = "file"
    /\ active[r]
    /\ steps[r] > 0
    /\ steps' = [steps EXCEPT ![r] = @ - 1]
    /\ reqTimeout' = (reqTimeout \/ request = r)
    /\ UNCHANGED <<request, retry, reqNext>>
    /\ UNCHANGED <<stage, node, kind, cid, active, ended>>
    /\ UNCHANGED listVars

-----------------------------------------------------------------------------
(* Cancellation *)

\* PBase::cancelRequests: the user stops all requests.
CancelAll ==
    /\ requests # {}
    /\ Delete(requests)
    /\ Release(requests, reqNext, reqTimeout)
    /\ UNCHANGED <<node, kind, cid, active, steps, since, appended, crashed>>

\* ~PApxNode: the requests of the node are cancelled, and those whose 1 ms
\* timer had the node as its context are never scheduled nor deleted.  An
\* object for the same uid may be made later by getNode.  Left out: a list
\* so long that the pass may leave requests with a dangling node.
NodeDestroyed(n) ==
    /\ \E r \in Reqs : node[r] = n /\ stage[r] \in {"created", "queued"}
    /\ Cardinality(requests) < SweepSafe
    /\ LET gone == OfNode(n)
       IN /\ stage' = [r \in Reqs |->
                         IF r \in gone THEN "deleted"
                         ELSE IF node[r] = n /\ stage[r] = "created"
                              THEN "leaked" ELSE stage[r]]
          /\ ended' = [r \in Reqs |->
                         IF r \in gone THEN ended[r] + 1 ELSE ended[r]]
          /\ nodeRequests' = [nodeRequests EXCEPT ![n] = {}]
          /\ Release(gone, reqNext, reqTimeout)
    /\ UNCHANGED <<node, kind, cid, active, steps, since, appended, crashed>>

-----------------------------------------------------------------------------
Timers ==
    \/ NextIdle \/ Send \/ SendFails
    \/ TimeoutOneShot \/ TimeoutRetry \/ TimeoutDrop

Answers(r) ==
    \/ Answered(r) \/ AnsweredNewFiles(r) \/ Continue(r) \/ Extend(r)

Next ==
    /\ ~crashed
    /\ \/ \E r \in Reqs, n \in Nodes, k \in Kinds : Create(r, n, k)
       \/ \E r \in Reqs : ScheduleDuplicate(r) \/ Schedule(r)
       \/ Timers
       \/ \E r \in Reqs : Answers(r)
       \/ CancelAll
       \/ \E n \in Nodes : NodeDestroyed(n)

Spec == Init /\ [][Next]_vars

\* The event loop fires an armed timer.
Fairness ==
    /\ WF_vars(~crashed /\ Timers)
    /\ \A r \in Reqs :
          WF_vars(~crashed /\ (ScheduleDuplicate(r) \/ Schedule(r)))

FairSpec == Spec /\ Fairness
-----------------------------------------------------------------------------
(* Properties *)

\* PApxNodes::_requests and the PApxNode::_requests lists are updated by
\* different functions of two classes; they always hold the same requests.
ListsAgree ==
    /\ \A n \in Nodes : nodeRequests[n] = OfNode(n)
    /\ requests = {r \in Reqs : stage[r] = "queued"}

\* Requests are served in the order they were scheduled: whatever was
\* cancelled, replaced or answered, the current request is the oldest one.
CurrentIsOldest == request # None => IsFirst(request, requests)

\* The queue never stalls: while requests wait, one of them is current and a
\* timer is running that will send it or give it up.
NoStall == requests # {} => request # None /\ (reqNext \/ reqTimeout)

\* At most one request of the vehicle is on the air: a request that was
\* sent is the current one.  The duplicate check and the "inactive" check of
\* the answers rely on it.
OneOnAir == \A r \in requests : active[r] => r = request

\* The answer timer only runs for a current request that was sent: a timer
\* left over from an ended request never costs the next one a retry, and the
\* null check of request_timeout is never needed.
TimeoutHasOwner == reqTimeout => request # None /\ active[request]

\* The sequencer: whose turn it is, and that somebody's turn always ends
SequencerInv == CurrentIsOldest /\ NoStall /\ OneOnAir /\ TimeoutHasOwner

\* Two equal requests are never in the list of a node together.
NoDuplicates ==
    \A r, x \in requests : node[r] = node[x] /\ Equal(r, x) => r = x

\* finished() is emitted exactly once by a request that is deleted, and not
\* before: the callers waiting for it (upgrade, configuration reload) are
\* called back once.
FinishedOnce ==
    \A r \in Reqs : ended[r] = IF stage[r] = "deleted" THEN 1 ELSE 0

\* A request starts its turn with the full budget of retries, and within a
\* turn the budget shrinks one by one or is refilled by an answer.  A request
\* on the air is not displaced by one that is scheduled, not even by a newer
\* duplicate of it, and its timers are left alone.
Turns ==
    [][/\ request' # request /\ request' # None => retry' = Retries
       /\ retry' < retry => retry' = retry - 1 /\ request' = request
       /\ requests' \ requests # {} /\ request # None /\ active[request]
            => UNCHANGED seqVars /\ request \in requests']_vars

\* Every scheduled request is finished, if a node does not continue or
\* extend its transfers forever: a silent node, a lost answer or a vanished
\* file cannot block the queue.  Nothing is promised once a deleted request was
\* used.
EveryRequestEnds ==
    \A r \in Reqs : stage[r] = "queued" ~> stage[r] = "deleted" \/ crashed

\* The life of a request as NmtFifo sees it
Phase(r) ==
    CASE stage[r] = "queued" /\ ~active[r] -> "waiting"
      [] stage[r] = "queued" /\ active[r]  -> "sent"
      [] stage[r] = "deleted"              -> "ended"
      [] OTHER                             -> "idle"

Fifo == INSTANCE NmtFifo
        WITH phase <- [r \in Reqs |-> Phase(r)], ticket <- since

\* The sequencer, with its two lists, two timers and the retries, keeps the
\* promise of NmtFifo.
ImplementsFifo == Fifo!FifoSpec
=============================================================================
