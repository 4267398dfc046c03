# A formal model of the GCS

This directory holds TLA+ models of the ground control station: its state
machines, the properties they keep, the configurations with which TLC checks
them and the proofs that TLAPS checks.

| check everything about | command |
|---|---|
| a run | `tlc -workers 2 -config X.cfg M.tla` with the pairs of the table in section 5 |
| the proofs | `tlapm M.tla` with `M` one of `NmtRequestsProofs`, `DatabaseWorkerProofs`, `FileTransferProofs`, `NodeChangeProofs`, `SquawkMapProofs`, `NodeConfigProofs`, `DatalinkLinksProofs`, `TelemetryRecorderProofs` |

Paths below are relative to `src/` of the repository.

## 1. The system

The GCS is a Qt program. One GUI event loop runs nearly all of it: a handler (a
slot, a timer, the arrival of a packet) runs to its end before the next one
starts. The threads beside it are the worker of each database session and
those of file and archive jobs.

| component | state it keeps | operations | what makes it right |
|---|---|---|---|
| **Request sequencer** `Plugins/Protocols/PApx/PApxNodes` | list of requests of all nodes of a vehicle, the current one, retries left, send timer, answer timer | schedule, extend, reschedule, finished, next, timeout, cancel | one request on the air; order of scheduling; never stalls; every request ends |
| **Node protocol** `PApxNode`, `PApxNodeRequest` | list of its own requests, its files, dictionary hashes | schedule with removal of duplicates, dispatch of answers, change of the list of files | both lists agree; no duplicates; `finished()` once |
| **File transfer** `PApxNodeRequestFile`, `PApxNodeFile` | operation, offset, count and hash, twice: of the request, and of what was overheard | open, transfer, close, abort, hand over | data handed over is a content of the file; success means delivered |
| **Parameter upload** `PApxNodeRequestUpdate`, `NodeItem`, `NodeField` | values to send, index, backup of each field | edit, upload, confirm | after saving, GCS and node agree |
| **Database worker** `lib/ApxData/Database` | queue, open transaction, lock, promise of each request | queue, run, commit, roll back, discard, disable, end | each request answered once and truthfully; loss only with a cause; end without deadlock |
| **Firmware loader** `Plugins/System/FirmwareLoader`, `PApxFirmware` | queue of items, the item at work, node, retries, connections of signals | request, start, reboot, ident, write, finish, stop | the result an item reports is that of its node; the queue goes on |
| **Vehicle identification** `PApx`, `PApxVehicle` | map of squawks to vehicles, list of recent assignments, squawks to ask for | ident, delayed request, assignment, removal | each vehicle gets a squawk of its own and keeps it; the map names vehicles that exist |
| **Datalink** `lib/ApxGcs/Datalink` | the server and its retries, clients, the remote with its socket and slots, masks | listen, accept, connect, answer, close, forward, block | a listening server takes clients; a remote becomes active or is lost; no packet goes round for ever |
| **Nodes and storage** `lib/ApxGcs/Nodes` | ident, dictionary, configuration, cache | load, compare, save, restore | a configuration is only used with its own dictionary |
| **Recorder and player** `lib/ApxGcs/Telemetry` | number of the record, request for it, samples that wait, values known | sample, restart, record created, trash emptied, play | each sample is in the record that was on when it came; what is played back is what was received |
| **Vehicles, missions, facts, windows** | trees of values behind the user interface | | no protocol of their own |

How they interact. `NodeItem` and `PApxFirmware` construct requests; a request
schedules itself 1 ms later with its node, and the node with the sequencer. The
sequencer puts it on the air through `Datalink`. A packet from the vehicle goes
to the node, which shows it first to its `PApxNodeFile` and then to each of its
requests, until one takes it; a request that is done is deleted, and
`finished()` calls its constructor's side back. What is received is recorded by
requests to the database, which the worker thread runs; their results come back
as queued signals.

What is hard: answers that are late, repeated, or meant for another GCS; timers
that race them; requests deleted by four different paths in the middle of
other handlers; a list changed during a walk over it; a batch of the database
shared by requests of different callers; a lock between callers, worker and
destructor. `PROJECT.json` lists each hazard at its line, with the property
that covers it or the reason why none does.

## 2. Modules

| module | models | composed of |
|---|---|---|
| `NmtFifo` | what the sequencer promises: requests are served in the order they came, one at a time | |
| `NmtRequests` | `PApxNodes`, the lists of `PApxNode`, the life of a `PApxNodeRequest` | refines `NmtFifo` |
| `NmtSweep` | `PApxNodes::cancel_requests`, and `PApxNode`'s removal of file requests inside the dispatch of an answer, at the level of `QList` | justifies the operators `Swept` and `MayCrash` of `NmtRequests` |
| `NmtRequestsProofs` | the proofs about `NmtRequests` and `NmtSweep` | extends them |
| `FileTransfer` | `PApxNodeRequestFile` and its subclasses, with `PApxNodeFile`, the link and the node | sequencer reduced to one request |
| `FileTransferProofs` | the proofs about `FileTransfer` | extends it |
| `NodeUpdate` | `PApxNodeRequestUpdate` with the fields of a `NodeItem`, the link and the node | sequencer reduced to one request |
| `GroupCommit` | what a session of the database promises: requests are served in the order they came, one at a time; what they write is committed, or lost, as a whole; every answer says whether its request has cost the others theirs | |
| `DatabaseWorker` | `DatabaseWorker::run`, `DatabaseRequest`, the lock and the transaction of `DatabaseSession` | refines `GroupCommit` |
| `DatabaseWorkerProofs` | the proofs about `DatabaseWorker` | extends it |
| `FirmwareUpgrade` | `Firmware`, `QueueItem`, `PFirmware`, `PApxFirmware`, the deletion of a `Fact`, the end of `LoaderStm` | sequencer reduced to what `NmtRequests` proves: each request ends or is removed |
| `NodeChangeProofs` | the proofs about `NodeUpdate` and `FirmwareUpgrade`, which change a node | extends them |
| `TelemetryRecorder` | `TelemetryRecorder` with the requests it makes of the database and the emptying of the trash | worker reduced to queue, batch and undoing |
| `TelemetryRecorderProofs` | the proofs about `TelemetryRecorder` | extends it |
| `SquawkMap` | `PApx`, with the removal in `Vehicles`, the vehicles and the link | |
| `SquawkMapProofs` | the proofs about `SquawkMap` | extends it |
| `NodeConfig` | what `PApxNode` parses, what `NodeItem` shows of it and `NodeStorage` saves, with the node, the database and another GCS | transfers of files reduced to a step, the sequencer to a queue, the worker to a queue |
| `NodeConfigProofs` | the proofs about `NodeConfig` | extends it |
| `DatalinkLinks` | `DatalinkServer`, `DatalinkRemote` with `DatalinkTcp` and `DatalinkSocket`, the forwarding in `Datalink`, in each of two GCSs, with TCP between them | |
| `DatalinkLinksProofs` | the proofs about `DatalinkLinks` | extends it |
| `MCFileTransfer`, `MCDatabaseWorker`, `MCTelemetryRecorder` | values that a configuration cannot write, symmetry | |

**NmtRequests.** An action is one slot with all it calls: `Schedule` is
`PApxNode::schedule_request` with the removal of the older duplicate, both
appends and the start of the timer; every end of a request is `Delete`
(`finished()`, removal from both lists, destruction) with `Release`, which is
`PApxNodes::request_finished`. A `QTimer` is a flag: armed, it may fire at any
later step, so that no interval of the code is relied on. A `QList` that is
only appended to and removed from is a set, with a number for the order of
appending. An answer that continues a transfer is `Continue`, one that asks for
time is `Extend`; `steps` bounds both. An answer to an ident request may delete
the requests for files (`AnsweredNewFiles`). Where a walk over a `QList` that
changes meanwhile may use a deleted request, the outcome is that the model goes
on or ends (`crashed`, set by `MayCrash`): in `AnsweredNewFiles` when a file
request stands behind the ident request, and in both `AnsweredNewFiles` and
`TimeoutDrop` when the list is not shorter than `SweepSafe`. An answer that
removes one request only (`Answered`) cannot do so: no other request of the list
takes the same answer (those of the other classes have to be active for it), and
a single gap never moves the request just deleted under the iterator.

**NmtSweep.** `cancel_requests` removes from the list that a range-based `for`
walks over. `QList` closes a gap from the shorter side, so the walk may miss
elements. The module has the slots of the array, the iterator and the end
fixed at the start, and shows that the walk is exact in lists shorter than
`Safe`, which is the `SweepSafe` of `NmtRequests`. On longer lists `Swept` of
`NmtRequests` is any subset with the node's first request, because that one is
always removed. Where a missed request would leave a
dangling node (`NodeDestroyed`), `NmtRequests` leaves long lists out.
`PApxNode::updateFiles` makes the same pass over the requests of one node, to
remove those for files, from inside another walk over the same list, that of
`process_downlink`. `asked` is the ident request whose answer began it; the
`walk` actions are the outer walk, which goes on behind the place where it
found that request, after the pass and the deletion of the ident request have
moved what is there.

**FileTransfer.** A file is a sequence of chunks. Size and hash of a file are
the sequence itself, i.e. a CRC32 is taken to have no collisions. Packets are
kept in order, lost and delayed; repetitions come from the retries. `disturbed`
names the cases in which request and `PApxNodeFile` may disagree, packets that
were under way when the request was made among them; see the
property `SuccessIsDelivered`. Uploads have exceptions of their own, which are
much narrower: `changed` (the node has changed the file since the request was
made) and `misled` (the request has taken an answer to an earlier request). To
tell the latter, packets carry the number `no` of the request they belong to;
nothing but `misled` looks at it.

**NodeUpdate.** `base` is the value a field is compared with to be shown as
modified (the backup), `param` what runs in the node, `stored` what it has
saved. `suspect` names the fields for which there is a known cause of a
difference.

**DatabaseWorker.** Threads interleave: one per caller, the worker, the
destructor. SQL is reduced to one record per request. `pc` names the points of
`run()` between which others may act. `lastError` is the last error of the
query: `commit()` rolls back when it is set, and run() may return true with it
set (`Successes`: an import one of whose parts has failed) or with a transaction of
its own still open (a node configuration without known fields). An import is
several requests in one; what it may leave is `Imported`.

**FirmwareUpgrade.** Handlers call each other through direct signals, and some
calls are queued (`Qt::QueuedConnection`, `deleteLater`, timers). A handler is
an operator on a record of the state, so that one may call another; an action
applies it to the present state (`Now`) and assigns the result (`Become`). `posted` is the queue of the event loop for
what must keep its order: queued `finished()`, changes of the size of a list,
deferred deletions. A timer that was started twice may fire twice (`nexts`).
What the node shows after its ident, whether its file is found and whether a
request replaces an older one are chosen freely. The next item is the oldest
one, after loaders: `Firmware::next` means to sort by the names of nodes
("servo", "gps", ...), but compares them with the titles of the items, which are
"name:hardware", so that none is ever found. `mixed` marks the items of an
upgrade that began while requests of an earlier one were alive, or that was
begun over; `orphaned` is set when the item at work is taken out of the queue,
or is a loader on a port, which deletes itself and tells nobody.

**TelemetryRecorder.** A sample is reduced to the values it changes; a row of
the database to what it comes to when it is played back, and to whether all of
it belongs together (`pure`, `kept`). Numbers of records are used again after
an undone batch, as SQLite does. `gaps`, `late`, `confLate`, `mute` and
`vanished` remember the causes of the exceptions the properties name, and do
not act on anything.

**SquawkMap.** A handler is an action, from the arrival of a packet to the
last one it sends. A deleted object that is still in the map is the number of
the deletion, so that it is neither a vehicle nor nothing. Whether a byte of
the uid tells two vehicles apart is free (`HearData`, `HearMismatch`). The
random choice of a squawk is any free one, or any at all when none is free: the
counter of trials has wrapped around when the code tests it. Packets of the
vehicles are on the link in their order, with those that other GCS ask for.

**NodeConfig.** The handlers of `PApxNode`, `NodeItem` and `NodeStorage` call
each other through direct signals; they are operators on a record `gcs`, and an
action applies one of them. A node has one parameter and, in some firmware, a
script, which is a field with a hash and a file beside it: so a configuration
may come in two parts. The transfer of a file is one step, that ends with
`Parse` of what it carried. What another GCS does with the node changes it in
one step, heard or not. An update that is heard is looked up in the lists of
fields there are (`HearUpdate`): between a change of firmware and the next ident
these are of the earlier one, and the value may be shown as another field, as
something else than was meant, or not at all (`Misread`). Of `gcs`, the members `suspect`, `overtaken`, `source`,
`shownOf`, `unsaved`, `doubtful` and `spoilt` only remember what the properties
speak of: which values may be old, of which dictionary they are, whether a save
is missing, why the node need not become valid.

**DatalinkLinks.** A TCP connection is a record: who made it, how far the
exchange of request and answer has come (`stage`), which ends are left, whether
the network was cut. Its client end is the server's, from the kernel that has
accepted it to the `DatalinkTcp` that is made for it. `disconnected()` is the
one signal that reaches its slot through the event queue (`posted`); events that
are posted are handled before sockets are read. A port that another program
has taken refuses a connection or accepts it (`foreign`) and may never answer.
A network that is cut is noticed by the server, whose sockets have KeepAlive
set, but perhaps never by a remote, which sets it before its socket is open:
`LossNoticed` may happen, and need not. `header` is the connection of
`readyRead` to `readyReadHeader`. A packet has no content: `air` holds its
copies, each with the end that is to read it. `hasty`, `doubled` and `crossed`
only remember the causes of the exceptions the properties name.

## 3. Plan

Done, in this order:

1. `NmtFifo`, `NmtRequests`, `NmtSweep` and the proofs: everything the GCS asks
   of a node passes here.
2. `GroupCommit` and `DatabaseWorker`.
3. `NodeUpdate`.
4. `FileTransfer`.
5. `FirmwareUpgrade`: timers against stop and restart; the end of a cancelled
   upgrade against the start of the next one.
6. `TelemetryRecorder`: numbers of records that arrive late, samples that wait,
   restart, the trash.
7. `SquawkMap`: identification, assignment, removal.
8. `NodeConfig`: ident, dictionary (cached or downloaded) and configuration in
   any order, their storage; what another GCS does.
9. `DatalinkLinks`: server, remote and forwarding of two GCSs.
10. Proofs: the safety of all modules, `NmtSweep` and `FirmwareUpgrade` the last.

Left, in this order:

11. `TelemetryPlayer`: results of an earlier position or record that arrive
    after a stop or a seek.
12. `DatalinkRouting`: masks and blocking, UDP clients, serial ports, three or
    more GCSs.

## 4. Where state and actions come from

`PROJECT.json` maps every definition to lines. The main ones:

| code | model |
|---|---|
| `PApxNodes::_requests`, `_request`, `_retry`, `_reqNext`, `_reqTimeout` | `requests` with `since`, `request`, `retry`, `reqNext`, `reqTimeout` |
| `PApxNode::_requests` | `nodeRequests` |
| constructor of `PApxNodeRequest`; its 1 ms timer | `Create`; `Schedule`, `ScheduleDuplicate` |
| `request_next` called by its timer | `Send`, `SendFails`, `NextIdle` |
| `request_timeout` | `TimeoutOneShot`, `TimeoutRetry`, `TimeoutDrop` |
| `PApxNode::process_downlink` | `Answered`, `AnsweredNewFiles`, `Continue`, `Extend` |
| `cancelRequests`; `~PApxNode` | `CancelAll`; `NodeDestroyed` |
| `PApxNodeRequestFile::request`, `response` | `Packet`; `Opened`, `Transferred`, `Closed`, `Aborted` |
| `PApxNodeFile::process_downlink` | `Observe`, in the same step as the request's answer: `Receive` |
| `PApxNodeRequestUpdate::request`, `response` | `Send`; `Answer` |
| `NodeItem::upload`, `confSaved` | `Upload`, `Confirmed` |
| `DatabaseSession::request` | `Enter`, `Enqueue`, `Return` |
| the loop of `DatabaseWorker::run` | `TakeDiscarded`, `Take`, `Run`, `Finish`, `ReleaseRequest`, `CheckBatch`, `Drain`, `Stop` |
| `DatabaseSession::commit` at the end of a batch; inside of a request | `CommitBatch`; `Flushed`, `Closing` |
| `disable`, `enable` inside maintenance requests | `Disable`, `Enable`, `FailDisabled` |
| `~DatabaseSession`, `~DatabaseWorker` | `Close`, `Interrupt`, `Closed` |
| `Firmware::requestUpgrade`, `next`, `itemFinished`, `stop` | `RequestUpgrade`, `NextTimer` with `NextStarted`, `ItemsFinished`, `Stop` |
| `PApxFirmware::start`, `rebootFinished`, `identFinished`, `finish` | `StartNode`, `RebootFinished`, `IdentFinished`, `UpgradeFinished` |
| queued connections, `deleteLater` | `posted` with `FinishPosted`, `SizeChanged`, `Deleted` |
| `TelemetryRecorder::recordTelemetry`, `recordData`, the `record...` of events | `Telemetry`, `Data`, `Event` |
| `reset`, `dbCheckRecord`, `dbRecordCreated` | `Reset`, `CheckRecord`, `RecordCreated` |
| the `run` of `DBReqTelemetryNewRecord`, `...WriteData`, `...EmptyTrash` | `RunNew`, `RunWrite`, `TrashBegins` to `TrashEnds` or `TrashFails` |
| `PApx::process_downlink`, an ident; another packet | `HearIdent` with `Identified`, `Conflict`; `HearData`, `HearMismatch` |
| `request_ident_schedule`, `request_next`, `assign_squawk` | `Schedule`, `RequestNext`, `Assign` |
| `Vehicles::deleteVehicle` and its timer of 1 s | `RemoveVehicle`; `Delete` |
| `identReceived`, `dictReceived`, `confReceived`, `confUpdated` | `IdentReceived`, `DictReceived`, `ConfReceived`, `ConfUpdated` |
| `parseDictData`, `parseConfData`, `parseScriptData` | `ParseDict`, `ParseConf` with `ConfParsed` and `ConfError`, `ParseScript` |
| `requestDict`, `dictCacheLoaded`, `dictCacheMissing`; `requestConf` | `RequestDict`, `DictCacheLoaded`, `DictCacheMissing`; `RequestConf` |
| `saveNodeConfig`, `updateConfigID` | `SaveNodeConfig`, `Deliver` |
| `tryBindHttpServer` by its timers; `httpActiveChanged` | `BindTimer`; `HttpOn`, `HttpOff` |
| `newHttpConnection`; `readyReadHeader` of a client | `Accept`; `ReadRequest` |
| `DatalinkRemote::open`, `connectToHost`; `close` | `SwitchOn` with `Exists`, `Connect`; `SwitchOff` with `CloseRemote` |
| `requestDatalinkHeader`; `readyReadHeader` of the remote | `Connected`; `ReadAnswer` |
| `socketError`; `socketDisconnected` | `RemoteLost`, `ClientLost`; `SocketDisconnected` |
| what TCP is sure to tell a remote, and what not | `Lost`; `Unanswered` |
| `connectionPacketReceived`, `sendPacket` | `Deliver`, `FromPort` with `Sent` |

Definitions whose comment begins with "A slip", "Slip" or "Slips" are not part of a
specification. They are the same operators with a plausible mistake; put in the
place of the right one, they make a property fail, and so show that the
property depends on that code.

## 5. Runs

| run | module and configuration | question | bounds, and why they are enough |
|---|---|---|---|
| `nmt_requests` | `NmtRequests`, `NmtRequests.cfg` | Do the lists, timers and the current request stay consistent, whatever is answered, dropped, replaced, cancelled or destroyed, and does every request end? | 3 requests on 2 nodes: a current request, a duplicate of it and a third one of the same or another node. One class of each behaviour (no rivals, one answer, several answers); the theorems of section 7 say the same, but for liveness, of all seven classes. 1 retry, 1 continuation. |
| `nmt_sweep` | `NmtSweep`, `NmtSweep.cfg` | How long may the list be for the walk of `cancel_requests` to be exact, and what does it do of a longer one? When may the dispatch of an answer use a deleted request? | All lists up to 7, any of them the node's, or for files, any of them the ident request. The first failure comes at 6 and 7. |
| `nmt_sweep_long` | `NmtSweep`, `NmtSweepLong.cfg` | Does it clear the node, as its comment says? It does not. | as above |
| `node_update` | `NodeUpdate`, `NodeUpdate.cfg` | Why may GCS and node differ after an upload, and does it end? | 2 fields with 2 values, 2 edits, 2 retries, 2 packets on the link: a field edited during the upload of another, a lost packet, a late answer. |
| `node_update_loss` | `NodeUpdate`, `NodeUpdateLoss.cfg` | Is all written when saving is requested, as its comment says? It is not. | one retry is enough |
| `file_transfer` | `MCFileTransfer`, `FileTransfer.cfg` | Is what is handed over whole, and does success mean delivered? | Files of 0 and 2 chunks, 2 transfers, 1 retry, 1 change of the file or packet of another GCS, 2 packets on the link: an answer of the first transfer in the second one, a repeated part, a file that changes between its parts; confirmations of the first upload while the second one runs. |
| `db_worker` | `MCDatabaseWorker`, `DatabaseWorker.cfg` | What are callers told, what does an error or the end cost, is every request answered, in its turn, and does the destructor end? | 2 requests of all 5 classes: one undoes the other, hangs it, or meets the end of the session at any step. The theorems of section 7 say the same, but for liveness, of any number. |
| `firmware` | `FirmwareUpgrade`, `FirmwareUpgrade.cfg` | Is what an item reports true, and does the queue go on? | 2 items, on 2 nodes or a port, 1 stop or cancellation, 1 retry of the ident: the second item may replace the first, wait behind it, or meet what the first has left posted. |
| `recorder` | `MCTelemetryRecorder`, `TelemetryRecorder.cfg` | Is each sample in its record, is the record what was received, and does it stay? | 2 values, 3 records, 4 inputs (samples, choices, failures), 2 samples that wait: a restart between request and answer, a record of another vehicle, an undone batch, a list that is full. |
| `squawk` | `SquawkMap`, `SquawkMap.cfg` | Does every vehicle get a squawk of its own and keep it, and does the map name living vehicles? | 2 vehicles that begin with any squawks, 4 squawks, 1 that is remembered as assigned, 1 packet of its own accord on the link (answers and orders come on top), 1 event: a loss, a removal, a restart, a foreign request or assignment. Contested squawks, several entries of a vehicle and use of a deleted one are all reached. |
| `node_config` | `NodeConfig`, `NodeConfig.cfg` | Is what is shown and saved of a node its own, and does it become valid? | 2 firmwares, one of them with a script, 2 values, any 2 events from outside: another firmware or a foreign change between any two steps, a second ident, a dictionary that is cached, missing or cannot be read. |
| `datalink` | `DatalinkLinks`, `DatalinkLinks.cfg` | Does a listening server take clients, does a remote that connects get through or fail, and do packets come to rest? | 2 GCSs, 4 events (clicks, cut links, the port taken): off and on again on each side, a retry that waits twice, both connecting at once. A connection of which no end is left is free again; with four events, three are enough for every `SwitchOn`. |

Constants of the code that are smaller here: retries (`Retries`), the limits of
200 for a batch and of 100000 for the queue (`BatchLimit`, `QueueLimit`),
retries of an ident (`IdentRetries`), 50000 samples that wait (`PendingLimit`),
1000 remembered assignments (`BlacklistLimit`). The code compares them, and
does nothing else with them, so that the boundary lies at another number only.
Bounds that are not in the code: `MaxSteps` (answers that continue a transfer),
`MaxEdits`, `MaxStarts`, `MaxEvents`, `MaxLink`, `MaxLen`, `MaxItems`,
`MaxStops`, `MaxInputs`, `MaxLinks`, `Keys`.

The number of squawks is a matter of its own: the code has 65,000 of them. With
three, or with two packets of a vehicle on the link at once, the search is so
often left with squawks that are in use that two vehicles may be assigned each
other's for ever, which chance excludes in the program. `Settles` is therefore
checked with four, where the last resort is still reached, but not for ever.

`CHECK_DEADLOCK FALSE` is set where the system may stop for good: each request
is made at most once, and after the last of them nothing is left to do.

What the passing runs show, in short:

- `SequencerInv`: the current request is the oldest, it alone is on the air, a
  timer runs while any request waits, and the answer timer belongs to the
  request that was sent. `Turns`: a request that is scheduled leaves the one on
  the air alone; a new turn starts with full retries.
- `ListsAgree`, `FinishedOnce`: of two classes that hold the
  same requests, and their callers. (That no two equal requests are in a list,
  `NoDuplicates`, is proved.)
- `EveryRequestEnds`: a request that is scheduled is deleted in the end, unless a
  deleted one was used before.
- `ImplementsFifo`: all this keeps the promise of `NmtFifo`.
- `ShortIsExact`: in a list shorter than six the walk finds every request of the node,
  and touches no deleted one. `FirstIsRemoved`: in a list of any length it removes
  the first request of the node before it touches a deleted one. `AnswerIsSafe`:
  the dispatch of an ident answer asks no deleted request for its uid. The
  exception: when the answer brings other files, and a request for a file stands
  behind the ident request, the walk may come to that one again after it was
  deleted.
- `DriftHasCause`: without one of the named causes (a lost
  packet, an edit during the upload, an upload given up, an answer later than
  the timeout) the fields not shown as modified are what the node has saved.
- `DownloadedIsWhole`: never a mixture of two contents. `SuccessIsDelivered`:
  the request and `PApxNodeFile` agree, and what is handed over is the file as
  it is on the node, but for a change of the file and for
  answers to opening or closing that only `PApxNodeFile` takes. Such answers
  come with the request's own retries: then the request emits its success, and
  the data is never handed over. `UploadedIsWritten`: an upload reported as such
  is on the node, although confirmations of an earlier upload may be under way
  all the time: once its own opening is answered, none of them can come any more.
  The exceptions: the node has changed the file since, or the request has taken
  an answer to an earlier one. An upload that is given up leaves an answer to
  opening under way; the next upload takes it for its own, and if its own
  opening was lost or is late, the parts go into the file as it was opened
  before, and confirmations and the closing of the earlier upload count as its
  own. That the file is one of `Contents` is not a property: with
  three transfers and files of different lengths, an answer to opening that is
  left from an earlier upload lets a later, shorter one close a mixture of the
  two. It is not reported as done, because the hash differs.
- `AnsweredOnce`, `ToldTheTruth`, `ErrorLeavesNothing`, `LossHasCause`,
  `IdleIsCommitted`: what the callers of the database can rely on.
  `ImplementsGroupCommit`: a session keeps the promise of `GroupCommit`. (That a
  transaction holds no more than `BatchLimit + 2` requests, `BatchBounded`, is
  proved.) The exceptions in them are behaviours of the code: a
  write that was reported as done is undone by a later error in its batch; an
  import of a configuration reports success although one of its parts has
  failed, and then the commit at the end of the batch sees the error and rolls
  back, without any answer that says so; the nodes an import had committed before it
  failed stay, also when it reports an error; the
  worker waits with an open transaction after a request that was discarded in
  the queue; the end of a session commits nothing.
- `ResultIsTrue`, `QueueMovesOn`: an item reports success exactly
  if its file was written, and the queue goes on. The exceptions: upgrades that
  overlap with requests of an earlier one, as after a stop and a new request,
  may be told each other's result; a new request for the node at work, or the
  loader on a port, leaves the queue waiting until the user stops it.
- `OwnRecord`, `OneEraOneRecord`, `Replayable`, `ConfigIsNamed`: a record holds
  the samples of its own recording and plays back what was received. The
  exceptions: a restart while the record is being created lets the next
  recording go on in it; a configuration saved then is not written at all; when
  the vehicle takes off as the record is created, that record is given up with
  the hash in hand, and the next one does not begin with it either; a record whose
  number was given out before its batch was undone, or which was deleted with the
  trash while it was written, is gone, and its number is used again.
  `PendingIsAwaited`: samples that wait are waiting for something, unless the
  request for the record was dropped or has failed; then they wait for ever.
  `CommittedStays`: none of this costs a recording made on purpose once it is
  committed.
- `SettledStays`, `Settles`: from any squawks, with anything lost, the vehicles
  come to have squawks of their own, and then nothing the GCS hears makes it
  reassign them. `MapNamesTheLiving`: but for a vehicle that had two entries in
  the map when it was removed. This is a fault of the code that the model
  reaches: a contested squawk leaves a vehicle with an entry for an earlier one;
  when the user removes the vehicle, `remove(key(...))` takes one entry, the
  other points to a deleted object, and the next packet with that squawk is
  handed to it (`crashed`).
- `ShownIsHeld`: a node that is valid is shown with the values of its own
  dictionary and its present configuration, but for changes whose packets were
  lost or came while they could not be taken. `ConfigsAreTrue`: saved
  configurations are true, and the one that is named for a node is the one
  shown. `ShownIsHeld` also excepts an update of another GCS that is heard
  between a change of firmware and the ident that tells of it: it is decoded with the lists
  of the earlier firmware, and a wrong or meaningless value is shown in a
  node that is still valid, until the ident clears it. Two other exceptions are behaviours of the code: when another GCS saves
  before this one has read the configuration, the values of new, empty fields
  are saved; after a save that failed, the late answer to an earlier save names
  its configuration.
- `BecomesValid`: a node that tells its ident becomes valid unless a request
  fails. The exception: when its configuration is asked for twice at a time, as
  after two idents, the end of one request resets the flag that the other
  needs; a node with a script then stays not valid.
- `ListeningServes`: the server listens exactly if it is shown as active, so that
  no client is accepted by TCP and turned away. The exception: when the server is
  switched off and on while a retry waits, there are two retries; the later one
  finds the port taken by the server itself, and marks it as inactive for ever.
- `Connects`: a remote that connects becomes active or loses its connection. The
  exception: switched off and on in a row, it handles the end of the old
  connection when the new one is on its way, and no longer waits for the answer.
  Or the network is cut after it has sent its request, or another program has
  taken its connection: it may wait for ever.
  A remote that is lost stays switched on and is not retried: `reconnect()` is
  connected to signals that are declared twice, and the ones it hears are
  never emitted.
- `Rests`: forwarding ends. The exception: two GCSs that connect to each other at
  once, before either could see the connection of the other, send every packet
  round between them for ever.

The types (`TypeOK`, `UpgradeTypeOK`) are proved, for any values of the
constants, and not checked in the runs as well. `NmtSweep` has its types in
`WalkInv`.

Where the code disagrees with its own comments and texts (`findings`):

1. `PApxNodes::request_timeout` says it clears all requests of the node. With
   six or more requests in the list, it may leave one behind.
2. `PApxNodeRequestUpdate::request` says "all written" when it asks for saving.
   After a lost packet, the field in it is skipped.

`FirmwareUpgrade` also shows what "Stop upgrading" does: it cancels the requests
of the upgrade, the end of a cancelled ident is taken for the end of its step,
and the request for the write is made, and written to the node, after the stop.

## 6. Fairness and liveness

- `NmtRequests`, `FileTransfer`, `NodeUpdate`: weak fairness of the timers of
  the event loop. An armed timer fires unless it is stopped. Nothing is assumed
  of the node, the link or the user. The bounds on continuations stand for a
  node that does not go on forever: each answer refills the retries, and a node
  that always continues does keep its turn. After the use of a deleted request
  (`crashed`) nothing is assumed.
- `FileTransfer`: `TransferEnds` leaves out requests of information. They ask
  again while the node answers with a file that is not empty, because their
  second operation is their first.
- `FirmwareUpgrade`: weak fairness of all that is internal: while a timer runs,
  a call is posted or a request is alive, one of them has its turn. That a
  request ends is the property `EveryRequestEnds` of `NmtRequests`. This
  fairness is written out, with `Busy` for the state in which such a step can be
  taken, because TLC is slow to evaluate `ENABLED` of handlers on a record.
- `SquawkMap`: the event loop takes what arrives and fires its timers, and the
  vehicles hear what is sent to them and go on sending (weak fairness, strong
  for the sending of each vehicle, as they share the bound of the link). Strong
  fairness of `HearMismatch`: packets carry the bytes of the uid in turn, so
  that of two vehicles with one squawk the wrong one is noticed in the end.
- `NodeConfig`: the event loop schedules, sends and delivers (`Schedule`,
  `Send`, `Deliver`), the worker works (`Work`), and a request on the air ends
  in one of three ways (`EveryRequestEnds` of `NmtRequests`, `TransferEnds` of
  `FileTransfer`).
- `DatalinkLinks`: timers fire, the event loops go on (`RemoteLoop` and
  `ServerLoop` of each GCS, each as a whole), and packets move on. TCP delivers,
  or reports in the end that a connection is refused, not answered or closed by
  the other side, and to a server (KeepAlive) also that the network is cut; to a
  remote that only waits it need not (`LossNoticed` has no fairness). Nothing is
  assumed of the users.
- `TelemetryRecorder` has no liveness: nothing in the code retries a record that
  was not created. `PendingIsAwaited` says what there is to wait for.
- `DatabaseWorker`: the thread of the worker runs, a caller that can leave
  leaves, and the lock is given to the destructor when the callers have left.
  Two states are exceptions of `EveryRequestAnswered` and `CloseEnds`, named
  `Stuck`: the worker uses a request that its synchronous caller has destroyed,
  and a maintenance request waits for the lock that the destructor holds.

Liveness is checked by TLC only: `EveryRequestEnds`, `UploadEnds`, `TransferEnds`,
`EveryRequestAnswered`, `CloseEnds`, `QueueMovesOn`, `Settles`, `BecomesValid`,
`Connects` and `Rests`. All other properties of the passing runs are also proved.

## 7. Proofs

Each theorem says of all values of the constants what a run says of some. They
rest on the assumption on the constants of their module (`ConstantsAssumption`,
`SweepAssumption`, `UpgradeAssumption`), and on nothing else; the bounds of the
runs (`MaxSteps`, `MaxEdits`, `MaxLink`, `MaxLen` and the like) are any natural
numbers. The provers have neither liveness, nor the library's theorems of
induction, which take an operator as a parameter. Where a definition recurs up to
a number, as a cancellation by `FirmwareUpgrade` does, `SetInduction` and
`FiniteRecursion` of `NodeChangeProofs` take their place: they speak of sets and
functions, and follow from the well-foundedness of `<`.

In each module, `IInv` (`UpgradeInv` for `FirmwareUpgrade`, `WalkInv` with
`FirstInv` for `NmtSweep`) is the inductive invariant: it joins the properties,
because none is inductive alone, with the facts they need. There is one lemma for each
action, or for each conjunct with one step for each action.

### The sequencer

`NmtRequestsProofs` proves for any number of requests, nodes, names and retries:

| theorem | |
|---|---|
| `TypeCorrect` | `Spec => []TypeOK` |
| `SequencerCorrect` | `Spec => []SequencerInv` |
| `ListsCorrect` | `Spec => []ListsAgree` |
| `FinishedCorrect` | `Spec => []FinishedOnce` |
| `DuplicatesCorrect` | `Spec => []NoDuplicates` |
| `FifoCorrect` | `Spec => ImplementsFifo` |
| `TurnsCorrect` | `Spec => Turns` |

`IInv` has two facts beside the properties. `SinceInv`: the numbers of the requests in the list
differ and are not above the counter. It makes "the oldest" unique, and a newly
scheduled request the youngest. `LifeInv`: what a request is before it is
queued, and that a queued one has a node and a class. It is what makes
`Release` and the removal from the list of the node remove the same requests.

`crashed` is in no invariant but its type: nothing is done after it, so that a step that sets it
need only be one that would be right without it.

The argument. `Release` and `Delete` are in nearly all actions, so two lemmas
carry most of the proof: `ReleaseSequencer` (from a state with `SequencerInv`,
releasing any set of requests gives one with it, if the timers passed on are
those of a surviving current request) and `ReleaseKeepsInv` (the same for
`IInv`, with `Delete`). Then there is one lemma per action, and `NextInv` joins
them. For the refinement, each action is matched with a step of `NmtFifo`:
`Schedule` with `Join`, `Send` with `PutOnAir`, a duplicate that is dropped with
`Refuse`, ends with its end of a set of requests, the rest with stuttering.

### The walk that cancels

`NmtRequestsProofs` also proves, for lists of any length:

| theorem | |
|---|---|
| `SweepCorrect` | `SweepSpec => []ShortIsExact` |
| `SweepRemovesFirst` | `SweepSpec => []FirstIsRemoved` |
| `AnswerCorrect` | `SweepSpec => []AnswerIsSafe` |

`WalkInv` holds of lists shorter than six: what was not visited is still in its
slot, and the requests of the node that were passed are just those deleted. Six
is the exact limit. A removal moves something under the iterator only when
`QList` closes the gap from the right and something is left to visit. In a list
shorter than six that is the removal of the last request but one at the earliest, and the last one is found again in the slot it has left; with
six it is an earlier one, and the request behind it is passed (`nmt_sweep_long`).
`FirstInv` needs no limit: until the first removal the list is what it was, and a
request that was deleted stays so.
`BehindInv` is for lists without a file request behind the ident request: then
the pass and the deletion of the ident request leave in the slots behind its
place only requests that stood behind it, and these live.

### The database worker

`DatabaseWorkerProofs` proves, for any number of requests of any classes and any
limits:

| theorem | |
|---|---|
| `TypeCorrect` | `Spec => []TypeOK` |
| `AnsweredCorrect` | `Spec => []AnsweredOnce` |
| `ErrorCorrect` | `Spec => []ErrorLeavesNothing` |
| `ToldCorrect` | `Spec => []ToldTheTruth` |
| `IdleCorrect` | `Spec => []IdleIsCommitted` |
| `BatchCorrect` | `Spec => []BatchBounded` |
| `LossCorrect` | `Spec => LossHasCause` |
| `GroupCorrect` | `Spec => ImplementsGroupCommit` |

`PlaceInv` says where a request is (with its caller, in the queue, with the
worker, answered), so that only one step can answer it. `WrittenInv` ties what is
written but not committed to the requests of the open batch; with it, an error
that rolls back leaves nothing, and a commit is of what was reported. That the
last error is still set when the batch ends means that an import was reported as done,
which is the third cause of `LossHasCause`, and what `torn` says in `GroupCommit`.
By `SyncInv`, a synchronous request is only discarded when the session ends.
`BatchInv` bounds the batch by the counter that the worker compares. The outcomes of
`run()` have a lemma of their own, `AfterRun`.

`GroupCorrect` maps the line of `GroupCommit` to the request in the worker's hand
followed by the queue, what was served to `result` while `pc` is at the answer, and
the end of the session to the end of the thread. Each step is then a `Join`,
`Discard`, `Serve`, `Skip`, `Answer`, `Commit` or `End`, or changes nothing of
these. Two facts are needed that no other property states (`EndInv`): no caller is
about to queue a request when the session closes, and the thread ends with an
empty queue; so nobody joins a line that is no longer served.

### The file transfer

`FileTransferProofs` proves, for any contents made of any chunks:

| theorem | |
|---|---|
| `DownloadedCorrect` | `Spec => []DownloadedIsWhole` |
| `DeliveredCorrect` | `Spec => []SuccessIsDelivered` |
| `UploadedCorrect` | `Spec => UploadedIsWritten` |
| `TypeCorrect` | `Spec => []TypeOK` |

A mixture of two contents is never handed over: an answer to closing carries
a content the file has had (`HadInv`), and what was collected must equal it.
`SuccessIsDelivered` holds because, until something disturbs it, the file has
not changed since it was opened, and request and `PApxNodeFile` have collected
the same part of it (`ReadInv`); and when it is done, neither has an upload open
nor is one on the link, so that the file stays what was read (`KeptInv`). For uploads, `WriteInv` orders what is on the
link by the numbers of the requests: until the request has taken the answer to
its own opening it has had nothing confirmed, or it was misled; from then on
nothing of an earlier request is left, what the request takes for confirmed the
node has, and once a part is
confirmed no packet is left that would open the file again. `TypeOK` adds that a
request never transfers more than the size it was told, and `PApxNodeFile` never
more than its own; a request that opens has transferred nothing (`RestInv`).

### The upload of parameters

`NodeChangeProofs` proves, for any fields, values and bounds:

| theorem | |
|---|---|
| `TypeCorrect` | `Spec => []TypeOK` |
| `DriftCorrect` | `Spec => []DriftHasCause` |

`DriftHasCause` speaks of a request that has ended; `DriftInv` says how it gets
there. While no answer has been later than the timeout, at most one packet is
under way, and it is the one that was sent last (`LinkInv`). A field that is
not suspect then has either not been sent, and its copies in the GCS and in the
node agree, or it has been sent and the node has its value or is about to
(`Follows`). That the next field to be sent exists is a minimum of a set of
natural numbers, which follows from the well-foundedness of `<`.

### The upgrade of firmware

`NodeChangeProofs` proves, for any nodes and files, any number of items, of stops
and of retries of an ident:

| theorem | |
|---|---|
| `UpgradeTypeCorrect` | `UpgradeSpec => []UpgradeTypeOK` |
| `ResultCorrect` | `UpgradeSpec => []ResultIsTrue` |

`ResultIsTrue` looks at what was told. What makes it true is where an item is
before that, and which requests live meanwhile. `Good(s, w)` says it of a state
`s` of the handlers and the set `w` of items whose file was written. `Placed`: all items that
are named anywhere were made. `AtWork`: an
item that listens to `PApxFirmware`, and that no other upgrade was mixed with, is the
item at work, and its node is the node of the upgrade. `WritesMatch`: every
write that lives, scheduled or not, is then for that node and that file. So the
write that ends is that of the item that listens, and the item enters `w` in the
step in which it is told. `WrittenIsDone`: an item in `w` is neither in the queue
nor listens, and so cannot be told of a failure afterwards. `ToldTrue` is the
property itself.

Each handler is an operator on `s`, and has a lemma: it keeps `Good`. An action
is one to three of them, after a change of the lists of requests or posted calls
that takes something away (`LessGood`). A cancellation runs the end of each
request it deletes, in turn, and each of these may begin the next step of the
upgrade: `FiniteRecursion` gives the result of that as a function, and
`SetInduction` that each of its values is `Good`.

### The identification of vehicles

`SquawkMapProofs` proves, for finite sets of vehicles and squawks of any size:

| theorem | |
|---|---|
| `TypeCorrect` | `Spec => []TypeOK` |
| `LivingCorrect` | `Spec => []MapNamesTheLiving` |
| `StaysCorrect` | `Spec => SettledStays` |

Here the two invariants are inductive together. Each handler either clears
entries of the map and assigns a squawk (`AssignTypes`), or enters a known
vehicle (`IdentifiedTypes`); a deletion leaves an entry of the deleted object
only if there were two (`DeleteFacts`). `Settled` fixes what each packet on the
link says, so that no handler reaches the branches that assign.

### The configuration of a node

`NodeConfigProofs` proves, for any firmware, any values, and any number of
requests, of saves that wait and of events from outside:

| theorem | |
|---|---|
| `ShownCorrect` | `Spec => []ShownIsHeld` |
| `TypeCorrect` | `Spec => []TypeOK` |
| `ConfigsCorrect` | `Spec => []ConfigsAreTrue` |

The handlers are operators on `gcs`, and the invariants are too: `Fit(g, n)` says
that the GCS in state `g` fits the node in state `n`. Each handler keeps it; an
action is one or two handlers. `ShownIsHeld` alone is not inductive, because a
configuration waits for its script between being read and being shown.
`ValuesInv` says of it what `ShownInv` says of what is shown: of which dictionary
it is, and that it is what the node has unless that has changed since.
`DictInv` ties the lists of fields to the dictionary that is shown, so that what
is parsed with other lists is never taken. The update of another GCS is the exception
that `ShownIsHeld` names: `HeardFits` says that it can change only a field that
it also marks as suspect, or is read with the node's own lists.

`SavedInv` is about what is saved. Of a valid node the last save is of what is
shown; it waits for the worker, or its answer waits for the event loop, or it
was taken (`Named`). A handler either saves nothing and leaves what is shown, or
marks it as unsaved (`Quiet`); or it saves what is then shown (`Saved`), and that
is what the node has, by `Fit`, or is marked as doubtful. Steps that are `Quiet`
or `Saved` join, and both keep `SavedInv`; the worker and its answers move the
last save from one place to the next.

### The links between ground controls

`DatalinkLinksProofs` proves, for any number of connections and events:

| theorem | |
|---|---|
| `ServerCorrect` | `Spec => []ListeningServes` |
| `TypeCorrect` | `Spec => []TypeOK` |

A server that listens and is not shown as active can only come from a `listen()`
on a port of its own, that is from a timer that fires while it listens. `OneTimer` says that
there is none: as long as the server was never switched on with a timer
running, there is at most one timer, and none while it listens.
`ClosedWhenOff` is the other half: a server that is off does not listen. For
`TypeOK`, `SockTypes` ties the socket of a remote to the connection that holds
its end: only the GCS that made a connection holds its remote end, so that no
other step can take it away or send its stage back.

### The recorder

`TelemetryRecorderProofs` proves, for any values and configurations, any number
of records, of samples that may wait and of inputs:

| theorem | |
|---|---|
| `Invariance` | `Spec => []IInv` |
| `TypeCorrect` | `Spec => []TypeOK` |
| `OwnCorrect` | `Spec => []OwnRecord` |
| `EraCorrect` | `Spec => []OneEraOneRecord` |
| `ReplayCorrect` | `Spec => []Replayable` |
| `ConfigCorrect` | `Spec => []ConfigIsNamed` |
| `AwaitedCorrect` | `Spec => []PendingIsAwaited` |
| `StaysCorrect` | `Spec => CommittedStays` |

Like the handlers, the invariants are operators on the state `s` of the recorder
and on what is posted to it, `S`; `Good(s, S, {})` is what holds between
handlers. It has these parts. `OneInv`: there is at most one request for a
record or answer to it, and no present record meanwhile. `AwaitInv`:
`PendingIsAwaited`. `EraInv`: whatever is on its way to a record, and what would
be sent to it now, was sampled after the restart and with the choice that the
record was asked for, or is marked as late. `FreshInv`: a record that is about to
be adopted is empty, and nothing under way will fill it. `PlayInv`: the values
in the row, with those under way, end in what the recorder believes them to be
(`known`). `ConfInv`: the same for the configuration and `confHash`.

None of the properties is inductive. What is under way is in three places, one
after the other: the list of the recorder, the queue, the row. `Ends` states of
a list of values on a base which of them counts last; its lemmas say what
becomes of that when a value is appended, when the first one goes into the base,
when two lists are joined (`EndsBlank`, `EndsNew`, `EndsTail`, `EndsShift` and
others). So the sample, the write, and the sending of the list keep
`PlayInv` and `ConfInv` by the same few lemmas. The set `F` in `PlayInv` are the facts
that the vehicle has just changed and the recorder has not yet written: it is
empty between two handlers, and lets the steps inside one be treated one by one.
`SavedInv` says that the last commit is an earlier state of the records
there are, so that undoing a batch restores no sample of another recording, and
emptying the trash, which looks at the records as they are, deletes none that was
committed as recorded on purpose (`CommittedStays`);
`KnownInv` ties `known` and `confHash` to what the vehicle shows.

The invariant of the configuration failed at first: when the vehicle takes off
exactly as a record is created, `dbRecordCreated` has cleared `configHash`,
and the record in which it would be written is given up. `confLate` therefore
covers that case too.

## 8. Not modelled

- What goes on after a deleted object was used: the model ends there (`crashed`)
  or goes on as if its memory still held what it did.
- Parsing and encoding of packets and dictionaries, the contents of SQL
  statements, hashes with collisions. A `COMMIT` or `ROLLBACK` that fails; rows
  of lookup tables that requests share.
- A list of six or more requests at the moment its node is destroyed.
- The packets of another GCS that uploads a file: the file changes in a step,
  and is heard or not (`NodeConfig`).
- Of the configuration of a node: the formats, arrays and groups, the flag that
  announces new data, the local vehicle, a node that is being upgraded, the
  loading of an earlier configuration and the descriptions of fields. A
  configuration that is read with the lists of another dictionary is junk or an
  error.
- A node that is destroyed during its upgrade; the flag of a node that it is
  being upgraded; the serial protocol of the loader on a port, and the choice
  of the release.
- Titles, times and uplinks in a telemetry record, restoring a record from the
  trash, import, export and sharing; the player.
- The dispatch of packets by `PApx` to the vehicle's data, telemetry and
  mission, and uplinks of another GCS. The search for a vehicle by its uid casts
  every child of `PApx`, the firmware loader among them, to `PApxVehicle`; what
  it reads there is undefined, and taken to be no uid.
- The order of answers on the link is kept; the code does not depend on more.
- The library of the autopilot (`apx-lib`) is not in the repository: what the
  node answers is taken from how the code uses it, and marked as external.
- Of the datalink: UDP, serial ports, discovery, masks and blocking (clients and
  remotes are taken to forward everything, as they do by default), the decoder of
  the stream, other requests to the web server, switching a single client off,
  rings of more than two GCSs.
- The player and the rest of the datalink, the plan's steps 11 and 12. User interface, facts, missions,
  archives, video, simulators: no protocol of their own.
