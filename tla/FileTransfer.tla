---------------------------- MODULE FileTransfer ----------------------------
(***************************************************************************)
(* The transfer of a file between GCS and node.  Two objects follow it on  *)
(* the GCS: PApxNodeRequestFile drives it, packet by packet, and           *)
(* PApxNodeFile collects the data from what it hears, from whatever GCS it *)
(* was asked for, and hands it over when the file is closed.  Both look at *)
(* every answer, PApxNodeFile first.                                       *)
(*                                                                         *)
(* A file is a sequence of chunks; its size and its hash stand for the     *)
(* sequence.  The request is the only one of the sequencer (NmtRequests).  *)
(* The link loses and delays packets and keeps their order.  The node is   *)
(* external; another GCS may read the file of the node at the same time.   *)
(*                                                                         *)
(* Each packet has the number of the request it belongs to or answers, 0   *)
(* for the other GCS.  Real packets have no such number and no action asks *)
(* for it; it only tells which answers a request has been misled by.       *)
(***************************************************************************)
EXTENDS Integers, Sequences

CONSTANTS
    Chunks,     \* values of a part of a file
    Contents,   \* set of contents: sequences of chunks
    Retries,    \* PApxNodeRequest::retries
    MaxStarts,  \* bound: requests
    MaxEvents,  \* bound: changes of the file and packets of the other GCS
    MaxLink,    \* bound: packets under way in a direction; more are lost
    None

ASSUME ConstantsAssumption ==
    /\ <<>> \in Contents
    /\ Contents \subseteq Seq(Chunks)
    /\ None \notin Seq(Chunks)
    /\ None \notin {"read", "write", "info", "downloaded", "uploaded", "failed"}
    /\ Retries \in Nat
    /\ MaxStarts \in Nat
    /\ MaxEvents \in Nat
    /\ MaxLink \in Nat

VARIABLES
    dir,        \* class of the request (_op_init, _op_file), None if none
    want,       \* PApxNodeRequestFileWrite::_data
    op,         \* PApxNodeRequestFile::_op: open, data or close
    info,       \* PApxNodeRequestFile::_info
    got,        \* chunks transferred: _tcnt, _offset, and _hash of a read
    sent,       \* part of a write that _hash is of, None after a reset
    active,     \* PApxNodeRequest::_active
    tx,         \* the sequencer: no request, about to send, answer awaited
    retry,      \* PApxNodes::_retry
    openOp,     \* PApxNodeFile::_open_op
    fileInfo,   \* PApxNodeFile::_info
    data,       \* PApxNodeFile::_data, _offset, _tcnt and _hash
    downloaded, \* argument of the last signal PApxNodeFile::downloaded
    up, down,   \* packets to the node, packets from it
    file,       \* the file on the node
    part,       \* what was written since the node opened it for writing
    starts,     \* requests so far
    events,     \* changes and foreign packets so far
    result,     \* how the last request ended, None while it runs
    disturbed,  \* packets were under way when the request was made, or since
                \* then an answer came that PApxNodeFile took and the request
                \* did not
    changed,    \* the node has changed the file since the request was made
    misled,     \* the request has taken an answer to an earlier one
    had         \* contents the file has had

reqVars  == <<dir, want, op, info, got, sent, active, tx, retry, result>>
fileVars == <<openOp, fileInfo, data, downloaded>>
nodeVars == <<file, part, had>>
causes   == <<disturbed, changed, misled>>
vars == <<dir, want, op, info, got, sent, active, tx, retry, result, openOp,
          fileInfo, data, downloaded, up, down, file, part, had, starts,
          events, disturbed, changed, misled>>

\* The classes of requests; the last one asks for the size and the hash only.
Directions == {"read", "write", "info"}

\* _info.size: opened() of a write puts the size of the data there.
Size == IF dir = "write" THEN Len(want) ELSE Len(info)

\* The file on the node is any sequence of chunks: when answers of an earlier
\* upload are still under way, a later one may take over what is left of it.
TypeOK ==
    /\ dir \in Directions \cup {None}
    /\ want \in Contents
    /\ op \in {"open", "data", "close"}
    /\ info \in Seq(Chunks)
    /\ dir # None => Len(got) <= Size
    /\ active \in BOOLEAN
    /\ tx \in {"idle", "send", "wait"}
    /\ retry \in 0 .. Retries
    /\ openOp \in {"read", "write", None}
    /\ fileInfo \in Seq(Chunks)
    /\ Len(data) <= Len(fileInfo)
    /\ downloaded \in Seq(Chunks) \cup {None}
    /\ Len(up) <= MaxLink
    /\ Len(down) <= MaxLink
    /\ file \in Seq(Chunks)
    /\ part \in Seq(Chunks) \cup {None}
    /\ starts \in 0 .. MaxStarts
    /\ events \in 0 .. MaxEvents
    /\ result \in {"downloaded", "uploaded", "failed", None}
    /\ {disturbed, changed, misled} \subseteq BOOLEAN
    /\ had \subseteq Seq(Chunks)

Init ==
    /\ dir = None
    /\ want = <<>>
    /\ op = "open"
    /\ info = <<>>
    /\ got = <<>>
    /\ sent = None
    /\ active = FALSE
    /\ tx = "idle"
    /\ retry = 0
    /\ result = None
    /\ openOp = None
    /\ fileInfo = <<>>
    /\ data = <<>>
    /\ downloaded = None
    /\ up = <<>>
    /\ down = <<>>
    /\ file \in Contents
    /\ part = None
    /\ had = {file}
    /\ starts = 0
    /\ events = 0
    /\ disturbed = FALSE
    /\ changed = FALSE
    /\ misled = FALSE

-----------------------------------------------------------------------------
(* The request and its timers *)

\* A transfer is asked for; a write has the content at hand.
Start(d, c) ==
    /\ tx = "idle"
    /\ starts < MaxStarts
    /\ d # "write" => c = <<>>
    /\ starts' = starts + 1
    /\ dir' = d
    /\ want' = c
    /\ op' = "open"
    /\ info' = <<>>
    /\ got' = <<>>
    /\ sent' = None
    /\ active' = FALSE
    /\ tx' = "send"
    /\ retry' = Retries
    /\ result' = None
    /\ disturbed' = (up # <<>> \/ down # <<>>)
    /\ changed' = FALSE
    /\ misled' = FALSE
    /\ downloaded' = None
    /\ UNCHANGED <<openOp, fileInfo, data, up, down, nodeVars, events>>

\* The request is deleted.
End(how) ==
    /\ result' = how
    /\ dir' = None
    /\ active' = FALSE
    /\ tx' = "idle"
    /\ UNCHANGED <<want, op, info, got, sent, retry>>

\* PApxNodeRequestFile::request
Packet ==
    [op |-> op, dir |-> dir, no |-> starts,
     at |-> IF op = "data" THEN Len(got) ELSE 0,
     val |-> IF op = "data" /\ dir = "write" THEN want[Len(got) + 1] ELSE None]

Onto(link, p) == IF Len(link) < MaxLink THEN Append(link, p) ELSE link

Send ==
    /\ tx = "send"
    /\ up' = Onto(up, Packet)
    /\ sent' = IF op = "data" /\ dir = "write" THEN Packet.val ELSE sent
    /\ active' = TRUE
    /\ tx' = "wait"
    /\ UNCHANGED <<dir, want, op, info, got, retry, result, fileVars, down,
                   nodeVars, starts, events, causes>>

\* request_timeout with budget left: the packet is made again.
TimeoutRetry ==
    /\ tx = "wait"
    /\ retry > 0
    /\ retry' = retry - 1
    /\ tx' = "send"
    /\ UNCHANGED <<dir, want, op, info, got, sent, active, result, fileVars, up,
                   down, nodeVars, starts, events, causes>>

\* Without, all requests of the node are cancelled.
TimeoutDrop ==
    /\ tx = "wait"
    /\ retry = 0
    /\ End("failed")
    /\ UNCHANGED <<fileVars, up, down, nodeVars, starts, events, causes>>

-----------------------------------------------------------------------------
(* PApxNodeFile::process_downlink *)

\* A slip: parts are taken whatever their offset.
CollectAny(a) == data' = Append(data, a.val)

\* PApxNodeFile::read: what is not next is skipped.
Collect(a) == data' = IF a.at = Len(data) THEN Append(data, a.val) ELSE data

\* A slip: the size is checked, the hash is not.
SizeOnly(a) == Len(data) = Len(a.val)

\* A closed file is handed over if nothing of it changed since it was opened
\* and what was collected has its size and its hash.
Complete(a) == a.val = fileInfo /\ data = fileInfo

Observe(a) ==
    CASE a.op = "open" /\ a.dir = "info" ->
           IF a.val = fileInfo THEN UNCHANGED fileVars
           ELSE /\ openOp' = None
                /\ fileInfo' = a.val
                /\ data' = <<>>
                /\ UNCHANGED downloaded
      [] a.op = "open" /\ a.dir # "info" ->
           /\ openOp' = a.dir
           /\ fileInfo' = a.val
           /\ data' = <<>>
           /\ UNCHANGED downloaded
      [] a.op = "data" /\ a.dir = "read" /\ openOp = "read" /\ fileInfo # <<>> ->
           /\ IF Len(data) < Len(fileInfo) \/ a.at # Len(data)
                THEN Collect(a) /\ UNCHANGED openOp
                ELSE openOp' = None /\ data' = <<>>
           /\ UNCHANGED <<fileInfo, downloaded>>
      [] a.op = "data" /\ a.dir = "write" -> UNCHANGED fileVars
      [] a.op = "close" ->
           /\ downloaded' = IF openOp = "read" /\ Complete(a)
                              THEN data ELSE downloaded
           /\ fileInfo' = CASE openOp = None    -> fileInfo
                            [] openOp = "read"  -> a.val
                            [] openOp = "write" -> data
           /\ openOp' = None
           /\ data' = <<>>
      [] OTHER ->
           /\ openOp' = None
           /\ data' = <<>>
           /\ UNCHANGED <<fileInfo, downloaded>>

-----------------------------------------------------------------------------
(* PApxNodeRequestFile::response *)

\* A slip: the offset of an answer is not compared.
AwaitedAnywhere(a) ==
    /\ tx # "idle"
    /\ active
    /\ \/ a.op = "abort"
       \/ a.op = op /\ (a.op # "close" => a.dir = dir)

\* The answer is to the packet that was sent last.
Awaited(a) ==
    /\ tx # "idle"
    /\ active
    /\ \/ a.op = "abort"
       \/ /\ a.op = op
          /\ a.op # "close" => a.dir = dir
          /\ a.op = "data" => a.at = Len(got)

\* next(): another part, or close.  For a request of information, the next
\* operation is the first again, so that it only ends with an empty file, a
\* refusal or a silent node.
Proceed(size) ==
    /\ op' = IF Len(got') = size THEN "close"
             ELSE IF dir = "info" THEN "open" ELSE "data"
    /\ tx' = "send"
    /\ retry' = Retries
    /\ UNCHANGED <<dir, want, active, result>>

Opened(a) ==
    /\ a.op = "open"
    /\ info' = a.val
    /\ got' = <<>>
    /\ sent' = None
    /\ Proceed(IF dir = "write" THEN Len(want) ELSE Len(a.val))

\* A part is there; a part that was written is confirmed by its hash.
Transferred(a) ==
    /\ a.op = "data"
    /\ IF dir = "write" /\ a.val # sent THEN UNCHANGED reqVars
       ELSE /\ got' = Append(got, a.val)
            /\ UNCHANGED <<info, sent>>
            /\ Proceed(Size)

\* A slip: the comparison of the hashes is the wrong way round.
ClosedInverted(a) ==
    /\ a.op = "close"
    /\ IF dir = "read" /\ got = info
         THEN /\ op' = "open"
              /\ info' = <<>>
              /\ got' = <<>>
              /\ sent' = None
              /\ UNCHANGED <<dir, want, active, tx, retry, result>>
         ELSE End(IF dir = "read" THEN "downloaded" ELSE "uploaded")

\* The file is closed.  A download with a wrong hash starts again, with the
\* next timeout.
Closed(a) ==
    /\ a.op = "close"
    /\ IF dir = "read" /\ got # info
         THEN /\ op' = "open"
              /\ info' = <<>>
              /\ got' = <<>>
              /\ sent' = None
              /\ UNCHANGED <<dir, want, active, tx, retry, result>>
         ELSE End(IF dir = "read" THEN "downloaded" ELSE "uploaded")

Aborted(a) == a.op = "abort" /\ End("failed")

\* The answer is to a packet of an earlier request.
Earlier(a) == a.no \in 1 .. (starts - 1)

Respond(a) ==
    IF Awaited(a)
      THEN Opened(a) \/ Transferred(a) \/ Closed(a) \/ Aborted(a)
      ELSE UNCHANGED reqVars

\* A packet from the node: PApxNode::process_downlink
Receive ==
    /\ down # <<>>
    /\ Observe(Head(down))
    /\ Respond(Head(down))
    /\ disturbed' = (disturbed \/ (Head(down).op # "data" /\ ~Awaited(Head(down))))
    /\ misled' = (misled \/ (Awaited(Head(down)) /\ Earlier(Head(down))))
    /\ UNCHANGED changed
    /\ down' = Tail(down)
    /\ UNCHANGED <<up, nodeVars, starts, events>>

-----------------------------------------------------------------------------
(* The link, the node, the other GCS *)

Answer(p, v) ==
    down' = Onto(down, [op |-> p.op, dir |-> p.dir, no |-> p.no, at |-> p.at,
                        val |-> v])

Refuse(p) ==
    /\ Answer([p EXCEPT !.op = "abort"], None)
    /\ UNCHANGED nodeVars

NodeOpens(p) ==
    /\ p.op = "open"
    /\ part' = CASE p.dir = "write" -> <<>>
                 [] p.dir = "read"  -> None
                 [] p.dir = "info"  -> part
    /\ Answer(p, file)
    /\ UNCHANGED <<file, had>>

NodeReads(p) ==
    /\ p.op = "data" /\ p.dir = "read" /\ p.at < Len(file)
    /\ Answer(p, file[p.at + 1])
    /\ UNCHANGED nodeVars

\* A part that comes again is written again.
NodeWrites(p) ==
    /\ p.op = "data" /\ p.dir = "write" /\ part # None
    /\ p.at <= Len(part)
    /\ part' = IF p.at = Len(part) THEN Append(part, p.val)
               ELSE [part EXCEPT ![p.at + 1] = p.val]
    /\ Answer(p, p.val)
    /\ UNCHANGED <<file, had>>

NodeCloses(p) ==
    /\ p.op = "close"
    /\ file' = IF part = None THEN file ELSE part
    /\ had' = had \cup {file'}
    /\ part' = None
    /\ Answer(p, file')

\* The node takes a packet and answers it, or refuses.
NodeTakes ==
    /\ up # <<>>
    /\ up' = Tail(up)
    /\ LET p == Head(up)
       IN Refuse(p) \/ NodeOpens(p) \/ NodeReads(p) \/ NodeWrites(p) \/ NodeCloses(p)
    /\ UNCHANGED <<reqVars, fileVars, starts, events, causes>>

Lose ==
    /\ \/ up # <<>> /\ up' = Tail(up) /\ UNCHANGED down
       \/ down # <<>> /\ down' = Tail(down) /\ UNCHANGED up
    /\ UNCHANGED <<reqVars, fileVars, nodeVars, starts, events, causes>>

\* The node itself writes another content.
FileChanges ==
    /\ events < MaxEvents
    /\ events' = events + 1
    /\ part = None
    /\ file' \in Contents \ {file}
    /\ had' = had \cup {file'}
    /\ changed' = TRUE
    /\ UNCHANGED <<reqVars, fileVars, up, down, part, starts, disturbed, misled>>

\* The other GCS opens, reads or closes the file: the answer is heard here.
OtherReads ==
    /\ events < MaxEvents
    /\ events' = events + 1
    /\ part = None
    /\ \/ \E o \in {"open", "close"} :
             down' = Onto(down, [op |-> o, dir |-> "read", no |-> 0, at |-> 0,
                                 val |-> file])
       \/ \E i \in DOMAIN file :
             down' = Onto(down, [op |-> "data", dir |-> "read", no |-> 0, at |-> i - 1,
                                 val |-> file[i]])
    /\ UNCHANGED <<reqVars, fileVars, nodeVars, up, starts, causes>>

Timers == Send \/ TimeoutRetry \/ TimeoutDrop

Next ==
    \/ \E d \in Directions, c \in Contents : Start(d, c)
    \/ Timers \/ Receive
    \/ NodeTakes \/ Lose \/ FileChanges \/ OtherReads

\* The event loop fires the timers of the sequencer.
Spec == Init /\ [][Next]_vars /\ WF_vars(Timers)

-----------------------------------------------------------------------------
(* Properties *)

\* What is handed over as downloaded is a content the file has really had,
\* not a mixture of two, whatever was lost, came twice or was changed.
DownloadedIsWhole == downloaded # None => downloaded \in had

\* The two objects that follow a download agree on its end: when the request
\* reports success, the data has been handed over, and is the file - unless the
\* node has changed it, packets were under way when the request was made, or an
\* answer to opening or closing came that the request did not wait for.
SuccessIsDelivered ==
    result = "downloaded" /\ ~disturbed /\ ~changed
      => downloaded = got /\ got = file

\* A request that reports an upload has written every chunk, in its place,
\* though confirmations of an earlier upload were under way when it started and
\* packets of its own were lost, came late or twice - unless it has taken an
\* answer of the earlier one for its own (the answer to opening, when its own
\* was lost or late), or the node has changed the file since.
UploadedIsWritten ==
    [][result' = "uploaded" /\ dir = "write" /\ ~changed /\ ~misled'
         => file = want]_vars

\* Every upload or download ends, if the file is not changed forever: neither lost nor
\* repeated packets keep it going, though each answer refills the retries.
TransferEnds == active /\ dir # "info" ~> ~active
=============================================================================
