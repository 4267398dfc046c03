-------------------------- MODULE FirmwareUpgrade --------------------------
(***************************************************************************)
(* The upgrade of nodes.  Firmware keeps a queue of items, connects to the *)
(* item it starts, and starts the next one 100 ms after an item has        *)
(* finished.  An item hands its file to PApxFirmware, the only upgrade the *)
(* protocol has: reboot into the loader, ident, write of the file, each a  *)
(* request whose finished() signal goes on with the next.  The items and   *)
(* the nodes all hear how the upgrade of the protocol has finished.        *)
(*                                                                         *)
(* The GUI thread runs one handler at a time.  A handler is an operator on *)
(* a record of the state (Now), as handlers call each other; an action     *)
(* assigns the result (Become).  The requests are served as NmtRequests    *)
(* says: each of them ends, or is removed, at some time.  Which file a     *)
(* node shows after its ident, and how a write ends, is up to the node.    *)
(***************************************************************************)
EXTENDS Naturals, Sequences, FiniteSets, Functions

CONSTANTS
    Uids,          \* nodes
    Types,         \* files of a node: "fw" and "ldr"
    IdentRetries,  \* idents of a node that does not show the file
    MaxItems,      \* bound: items put into the queue
    MaxStops,      \* bound: stops and cancellations by the user
    NoNode

ASSUME UpgradeAssumption ==
    /\ NoNode \notin Uids
    /\ IdentRetries \in Nat
    /\ MaxItems \in Nat
    /\ MaxStops \in Nat

Items == 1 .. MaxItems

VARIABLES
    made,        \* every item made: uid (NoNode: an STM loader) and type
    queue,       \* Firmware::f_queue
    upgrading,   \* Fact::active of Firmware
    nexts,       \* timers of itemFinished that have not fired
    tuned,       \* connections of an item's finished() to itemFinished
    serial,      \* STM loaders with their timer running
    posted,      \* queued calls and deferred deletions, in their order
    linked,      \* items connected to PFirmware::upgradeFinished
    node,        \* PApxFirmware::_node
    item,        \* the item _uid, _name and _data are of
    identRetry,  \* PApxFirmware::_retry
    success,     \* PFirmware::_success
    fresh,       \* requests constructed, to be scheduled in 1 ms
    line,        \* requests of the upgrade in the sequencer, in their order
    told,        \* what an item reported
    written,     \* items whose file was written while they listened
    mixed,       \* items of an upgrade that began within another one
    orphaned,    \* the item at work was taken out of the queue
    stops        \* stops and cancellations so far

upgradeVars == <<made, queue, upgrading, nexts, tuned, serial, posted, linked,
                 node, item, identRetry, success, fresh, line, told, written,
                 mixed, orphaned, stops>>

Requests ==
    [kind : {"reboot", "ident"}, uid : Uids] \cup
    [kind : {"write"}, uid : Uids, name : Types]

Events == {<<"finish">>, <<"size">>} \cup {<<"delete", i>> : i \in Items}

UpgradeTypeOK ==
    /\ made \in Seq([uid : Uids \cup {NoNode}, type : Types])
    /\ Len(made) <= MaxItems
    /\ queue \in Seq(DOMAIN made)
    /\ upgrading \in BOOLEAN
    /\ nexts \in Nat
    /\ tuned \in [Items -> Nat]
    /\ serial \subseteq DOMAIN made
    /\ posted \in Seq(Events)
    /\ linked \subseteq DOMAIN made
    /\ node \in Uids \cup {NoNode}
    /\ item \in DOMAIN made \cup {0}
    /\ identRetry \in 0 .. IdentRetries
    /\ success \in BOOLEAN
    /\ fresh \in Seq(Requests)
    /\ line \in Seq(Requests)
    /\ told \in [Items -> {"nothing", "ok", "error"}]
    /\ written \subseteq DOMAIN made
    /\ mixed \subseteq DOMAIN made
    /\ orphaned \in BOOLEAN
    /\ stops \in 0 .. MaxStops

UpgradeInit ==
    /\ made = <<>>
    /\ queue = <<>>
    /\ upgrading = FALSE
    /\ nexts = 0
    /\ tuned = [i \in Items |-> 0]
    /\ serial = {}
    /\ posted = <<>>
    /\ linked = {}
    /\ node = NoNode
    /\ item = 0
    /\ identRetry = 0
    /\ success = FALSE
    /\ fresh = <<>>
    /\ line = <<>>
    /\ told = [i \in Items |-> "nothing"]
    /\ written = {}
    /\ mixed = {}
    /\ orphaned = FALSE
    /\ stops = 0

\* What the handlers work on.
Now == [made |-> made, queue |-> queue, upgrading |-> upgrading,
        nexts |-> nexts, tuned |-> tuned, serial |-> serial, posted |-> posted,
        linked |-> linked, node |-> node, item |-> item,
        identRetry |-> identRetry, success |-> success, fresh |-> fresh,
        line |-> line, told |-> told, mixed |-> mixed]

Become(t) == \E s \in {t} :
    /\ made' = s.made
    /\ queue' = s.queue
    /\ upgrading' = s.upgrading
    /\ nexts' = s.nexts
    /\ tuned' = s.tuned
    /\ serial' = s.serial
    /\ posted' = s.posted
    /\ linked' = s.linked
    /\ node' = s.node
    /\ item' = s.item
    /\ identRetry' = s.identRetry
    /\ success' = s.success
    /\ fresh' = s.fresh
    /\ line' = s.line
    /\ told' = s.told
    /\ mixed' = s.mixed

-----------------------------------------------------------------------------
(* The queue *)

\* The elements of q that are in S, in their order
Kept(q, S) ==
    LET kept[k \in 0 .. Len(q)] ==
            IF k = 0 THEN <<>>
            ELSE IF q[k] \in S THEN Append(kept[k - 1], q[k])
            ELSE kept[k - 1]
    IN  kept[Len(q)]

Without(q, S) == Kept(q, Range(q) \ S)

\* sizeChanged is connected through a queued call.  A second one right behind
\* another finds what the first one finds.
PostSize(p) ==
    IF p # <<>> /\ p[Len(p)] = <<"size">> THEN p ELSE Append(p, <<"size">>)

\* deleteLater of these items, the last one first
PostDeletes(p, q) ==
    p \o [k \in 1 .. Len(q) |-> <<"delete", q[Len(q) + 1 - k]>>]

\* Items leave the queue at once, and are deleted later: of that is told only of
\* those that may still hear or do something.
Taken(s, S) ==
    LET gone == S \cap Range(s.queue)
    IN  IF gone = {} THEN s
        ELSE [s EXCEPT !.queue = Without(@, gone),
                       !.posted = PostSize(PostDeletes(
                           @, Kept(s.queue, gone \cap (s.linked \cup s.serial))))]

\* f_queue->deleteChildren()
Emptied(s) == Taken(s, Range(s.queue))

\* itemFinished starts a timer for every connection of these items to it.
Timers(s, S) ==
    LET sum[k \in 0 .. MaxItems] ==
            IF k = 0 THEN 0 ELSE sum[k - 1] + IF k \in S THEN s.tuned[k] ELSE 0
    IN  sum[MaxItems]

\* A slip: nobody looks for the next item after a success.
NoNext(s, S, ok) ==
    LET t == IF ok THEN Taken(s, S) ELSE Emptied(s)
        n == Timers(s, S)
    IN  IF S = {} THEN s
        ELSE [t EXCEPT !.nexts = IF ok THEN @ ELSE @ + n,
                       !.upgrading = @ /\ t.queue # <<>>,
                       !.told = [i \in Items |-> IF i \in S
                                                 THEN IF ok THEN "ok" ELSE "error"
                                                 ELSE @[i]]]

\* itemFinished, as often as the finished() of these items is connected to it.
ItemsFinished(s, S, ok) ==
    LET t == IF ok THEN Taken(s, S) ELSE Emptied(s)
        n == Timers(s, S)
    IN  IF S = {} THEN s
        ELSE [t EXCEPT !.nexts = @ + n,
                       !.upgrading = @ /\ t.queue # <<>>,
                       !.told = [i \in Items |-> IF i \in S
                                                 THEN IF ok THEN "ok" ELSE "error"
                                                 ELSE @[i]]]

-----------------------------------------------------------------------------
(* The upgrade of the protocol *)

Later(s, r) == [s EXCEPT !.fresh = Append(@, r)]

RebootFinished(s) ==
    IF s.node = NoNode THEN s ELSE Later(s, [kind |-> "ident", uid |-> s.node])

\* PApxFirmware::start
StartNode(s) ==
    LET uid == s.made[s.item].uid
        t   == [s EXCEPT !.node = uid]
    IN  IF s.made[s.item].type = "ldr" THEN RebootFinished(t)
        ELSE Later(t, [kind |-> "reboot", uid |-> uid])

\* PApxFirmware::finish.  Every item that listens takes the result for its own.
UpgradeFinished(s) ==
    IF s.node = NoNode THEN s
    ELSE ItemsFinished([s EXCEPT !.node = NoNode, !.identRetry = 0, !.success = FALSE,
                                 !.linked = {}],
                       s.linked, s.success)

IdentFinished(s, shown) ==
    IF s.node = NoNode THEN s
    ELSE IF shown
         THEN Later(s, [kind |-> "write", uid |-> s.node, name |-> s.made[s.item].type])
         ELSE IF s.identRetry < IdentRetries THEN StartNode([s EXCEPT !.identRetry = @ + 1])
         ELSE UpgradeFinished(s)

\* fileUploaded
Uploaded(s) == [s EXCEPT !.success = @ \/ s.node # NoNode]

\* A slip: the end of a write is taken for its success.
EndIsSuccess(s, r, shown) ==
    CASE r.kind = "reboot" -> RebootFinished(s)
      [] r.kind = "ident"  -> IdentFinished(s, shown)
      [] r.kind = "write"  -> UpgradeFinished(Uploaded(s))

\* finished() of a request: answered, given up, replaced or cancelled.
RequestFinished(s, r, shown) ==
    CASE r.kind = "reboot" -> RebootFinished(s)
      [] r.kind = "ident"  -> IdentFinished(s, shown)
      [] r.kind = "write"  -> UpgradeFinished(s)

\* QueueItem::upload with upgradeFirmware
Upgrade(s, i) ==
    LET busy == s.node # NoNode \/ s.linked # {} \/ s.fresh # <<>> \/ s.line # <<>>
        t    == StartNode([s EXCEPT !.item = i, !.success = FALSE, !.identRetry = 0])
    IN  [t EXCEPT !.linked = @ \cup {i},
                  !.mixed = IF busy THEN @ \cup {i} \cup s.linked ELSE @]

-----------------------------------------------------------------------------
(* The queue goes on *)

FirstOf(q, S) ==
    q[CHOOSE k \in DOMAIN q : q[k] \in S /\ \A j \in 1 .. k - 1 : q[j] \notin S]

\* Loaders first, then the oldest.  (next() means to sort by names, but compares
\* them with titles, which are "name:hardware" for the items of nodes; only a
\* loader on a port has its name as title, and it always is the oldest.)
NextItem(s) ==
    LET ldrs == {i \in Range(s.queue) : s.made[i].type = "ldr"}
    IN  IF ldrs # {} THEN FirstOf(s.queue, ldrs) ELSE Head(s.queue)

\* Firmware::next with the start of the item; loaded: its file is in the archive.
NextStarted(s, loaded) ==
    IF s.queue = <<>> THEN [s EXCEPT !.upgrading = FALSE]
    ELSE LET i == NextItem(s)
             t == [s EXCEPT !.upgrading = TRUE,
                            !.tuned[i] = @ + 1,
                            !.queue = <<i>> \o Without(@, {i})]
         IN  IF ~loaded THEN ItemsFinished(t, {i}, FALSE)
             ELSE IF t.made[i].uid = NoNode THEN [t EXCEPT !.serial = @ \cup {i}]
             ELSE Upgrade(t, i)

-----------------------------------------------------------------------------
(* The user *)

\* requestUpgrade, from the page of a node or from a script.
RequestUpgrade(uid, type, loaded) ==
    /\ Len(made) < MaxItems
    /\ LET old == {i \in Range(queue) : made[i].uid = uid}
           i   == Len(made) + 1
           s   == [Taken(Now, old) EXCEPT
                      !.made = Append(@, [uid |-> uid, type |-> type]),
                      !.queue = Append(@, i),
                      !.posted = PostSize(@)]
       IN  /\ Become(IF upgrading THEN s ELSE NextStarted(s, loaded))
           /\ orphaned' = (orphaned \/ old \cap linked # {})
    /\ UNCHANGED <<written, stops>>

\* requestInitialize
RequestInitialize(type) ==
    /\ Len(made) < MaxItems
    /\ Become([Emptied(Now) EXCEPT
                  !.upgrading = FALSE,
                  !.made = Append(@, [uid |-> NoNode, type |-> type]),
                  !.queue = <<Len(made) + 1>>,
                  !.posted = PostSize(@)])
    /\ orphaned' = FALSE
    /\ UNCHANGED <<written, stops>>

\* The signal cancelRequests: the sequencer clears its list, each of the
\* requests emits finished(), and the upgrade is finished by a queued call.
Cancelled(s, shown) ==
    LET after[k \in 0 .. Len(s.line)] ==
            IF k = 0 THEN [s EXCEPT !.line = <<>>]
            ELSE RequestFinished(after[k - 1], s.line[k], shown)
    IN  [after[Len(s.line)] EXCEPT !.posted = Append(@, <<"finish">>)]

\* Firmware::stop
Stop(shown) ==
    /\ stops < MaxStops
    /\ upgrading
    /\ Become([Emptied(Cancelled(Now, shown)) EXCEPT !.upgrading = FALSE])
    /\ orphaned' = FALSE
    /\ stops' = stops + 1
    /\ UNCHANGED written

\* Nodes::stop
CancelRequests(shown) ==
    /\ stops < MaxStops
    /\ Become(Cancelled(Now, shown))
    /\ stops' = stops + 1
    /\ UNCHANGED <<written, orphaned>>

-----------------------------------------------------------------------------
(* Timers, posted events, requests *)

NextTimer(loaded) ==
    /\ nexts > 0
    /\ Become(NextStarted([Now EXCEPT !.nexts = @ - 1], loaded))
    /\ UNCHANGED <<written, orphaned, stops>>

Popped == [Now EXCEPT !.posted = Tail(@)]

\* The queued call of sizeChanged
SizeChanged(loaded) ==
    /\ posted # <<>> /\ Head(posted) = <<"size">>
    /\ Become(IF Len(queue) = 1 /\ ~upgrading THEN NextStarted(Popped, loaded) ELSE Popped)
    /\ UNCHANGED <<written, orphaned, stops>>

\* The queued call of cancelRequests
FinishPosted ==
    /\ posted # <<>> /\ Head(posted) = <<"finish">>
    /\ Become(UpgradeFinished(Popped))
    /\ UNCHANGED <<written, orphaned, stops>>

\* A deferred deletion: connections and timers go, and so does the item.
Deleted ==
    /\ posted # <<>> /\ Head(posted)[1] = "delete"
    /\ LET i == Head(posted)[2]
           s == [Popped EXCEPT !.linked = @ \ {i}, !.serial = @ \ {i}, !.tuned[i] = 0]
       IN  Become(Taken(s, {i}))
    /\ UNCHANGED <<written, orphaned, stops>>

\* The loader on the port is done; its item deletes itself and tells nobody.
SerialEnds(i) ==
    /\ i \in serial
    /\ Become([Now EXCEPT !.serial = @ \ {i}, !.posted = Append(@, <<"delete", i>>)])
    /\ orphaned' = (orphaned \/ i \in Range(queue))
    /\ UNCHANGED <<written, stops>>

\* schedule_request: an ident goes to the sequencer unless there is one;
\* another request replaces the older one unless that was sent.  One of the
\* two is finished.
Schedule(shown, replace) ==
    /\ fresh # <<>>
    /\ LET r == Head(fresh)
           s == [Now EXCEPT !.fresh = Tail(@)]
       IN  IF r \notin Range(line)
           THEN Become([s EXCEPT !.line = Append(@, r)])
           ELSE Become(RequestFinished(
                    IF replace /\ r.kind # "ident"
                    THEN [s EXCEPT !.line = Append(Without(@, {r}), r)]
                    ELSE s, r, shown))
    /\ UNCHANGED <<written, orphaned, stops>>

RemovedAt(q, k) == SubSeq(q, 1, k - 1) \o SubSeq(q, k + 1, Len(q))

\* A request is answered, or given up.  Not only the first one: a new list of
\* files and the end of another request of the node take it out of its turn.
RequestEnds(k, shown) ==
    /\ k \in DOMAIN line
    /\ Become(RequestFinished([Now EXCEPT !.line = RemovedAt(@, k)], line[k], shown))
    /\ UNCHANGED <<written, orphaned, stops>>

\* The node has the whole file.
WriteDone ==
    /\ line # <<>> /\ Head(line).kind = "write"
    /\ Become(UpgradeFinished(Uploaded([Now EXCEPT !.line = Tail(@)])))
    /\ written' = written \cup {i \in linked : /\ made[i].uid = Head(line).uid
                                               /\ made[i].type = Head(line).name}
    /\ UNCHANGED <<orphaned, stops>>

-----------------------------------------------------------------------------
Internal ==
    \/ \E loaded \in BOOLEAN : NextTimer(loaded) \/ SizeChanged(loaded)
    \/ FinishPosted
    \/ Deleted
    \/ \E i \in Items : SerialEnds(i)
    \/ \E shown, replace \in BOOLEAN : Schedule(shown, replace)
    \/ \E k \in DOMAIN line, shown \in BOOLEAN : RequestEnds(k, shown)
    \/ WriteDone

User ==
    \/ \E uid \in Uids, type \in Types, loaded \in BOOLEAN :
          RequestUpgrade(uid, type, loaded)
    \/ \E type \in Types : RequestInitialize(type)
    \/ \E shown \in BOOLEAN : Stop(shown) \/ CancelRequests(shown)

UpgradeNext == Internal \/ User

UpgradeSpec == UpgradeInit /\ [][UpgradeNext]_upgradeVars

\* There is something for the event loop to do: a timer runs, an event is posted
\* or a request is alive.  Then, and only then, Internal is enabled.
Busy == nexts > 0 \/ serial # {} \/ posted # <<>> \/ fresh # <<>> \/ line # <<>>

\* The event loop goes on: while it has something to do, one of these steps has
\* its turn.  Each request ends (NmtRequests), and a loader on a port ends unless
\* it was told to go on forever.  This is the weak fairness of Internal with its
\* ENABLED written out, which TLC is slow to evaluate here.
FairUpgradeSpec == UpgradeSpec /\ ([]<>~Busy \/ []<><<Internal>>_upgradeVars)

-----------------------------------------------------------------------------
(* Properties *)

\* An item reports success exactly if its file was written while it listened.
\* The exception: an upgrade that began while requests of an earlier one were
\* alive, or that was begun over, may be told the result of the other one.
ResultIsTrue ==
    \A i \in DOMAIN made \ mixed :
        /\ told[i] = "ok" => i \in written
        /\ told[i] = "error" => i \notin written

\* Every item leaves the queue: an item in it is at work, or a timer or a queued
\* call will look for the next one.  The exceptions: the item at work was
\* replaced by a new request for its node, or was an STM loader, which tells
\* nobody that it is done.
QueueMovesOn ==
    \A i \in Items : (i \in Range(queue)) ~> (i \notin Range(queue) \/ orphaned)
=============================================================================
