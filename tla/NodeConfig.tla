----------------------------- MODULE NodeConfig -----------------------------
(***************************************************************************)
(* How a node becomes known: its ident names a dictionary, the dictionary  *)
(* comes from the database or from the node, the configuration and the     *)
(* script from the node; then the node is valid and its configuration is   *)
(* saved.  PApxNode parses what comes, NodeItem shows it, NodeStorage      *)
(* saves it.  Another GCS works with the same node; its packets are heard, *)
(* or not.                                                                 *)
(*                                                                         *)
(* A transfer of a file is one step (FileTransfer), and requests are       *)
(* served in their order (NmtRequests).  A node has one parameter, p, and  *)
(* perhaps a script, s; editing and uploading by this GCS are in           *)
(* NodeUpdate.                                                             *)
(***************************************************************************)
EXTENDS Naturals, Sequences, FiniteSets, Functions

CONSTANTS
    Dicts,      \* hashes of dictionaries, one for each firmware of the node
    Scripted,   \* those of them that have a field for a script
    Vals,       \* values of p, and contents (or their hashes) of scripts
    MaxEvents,  \* bound on what comes from outside of this GCS
    Junk,       \* a value that is not the one that was meant
    None

ASSUME ConstantsAssumption ==
    /\ Scripted \subseteq Dicts
    /\ MaxEvents \in Nat
    /\ None \notin Dicts \cup Vals \cup {Junk}
    /\ Junk \notin Vals

VARIABLES
    node,    \* the node: hash of its dictionary, p, the field and the file of
             \* the script
    gcs,     \* PApxNode with the requests and NodeItem, see below
    posted,  \* results of the database that wait in the event loop
    dicts,   \* dictionaries in the database
    configs, \* configurations in the database
    held,    \* configurations the node has had
    events   \* number of events from outside

vars == <<node, gcs, posted, dicts, configs, held, events>>

Fields(h) == IF h \in Scripted THEN {"p", "s"} ELSE {"p"}

Files(h) == IF h \in Scripted THEN {"dict", "conf", "script"}
                              ELSE {"dict", "conf"}

Requests == {"ident", "dict", "conf", "script"}

\* Values of some of the fields
Values == UNION {[F -> Vals \cup {Junk, None}] : F \in SUBSET {"p", "s"}}

Nothing == [f \in {} |-> None]

Configs == [hash : Dicts, values : Values]

\* What waits for the worker of the database
Jobs == [op : {"load", "saveDict"}, hash : Dicts]
            \cup [op : {"saveConf"}, config : Configs]

Signals == [sig : {"loaded", "missing", "failed"}, hash : Dicts]
            \cup [sig : {"saved"}, config : Configs]

\* PApxNode: _files_map, _dict_hash, the lists _field_* (of which dictionary),
\* _script_field, _script_value, _values, _req_conf, _skip_cache; its requests,
\* those that wait for their timer of 1 ms and those that are queued, the first
\* of them sent or not; requests to the database.
\* NodeItem: _ident, m_valid, _dict with m_fields, the values; _configID.
\* The rest only remembers what the properties speak of: "source" and "shownOf",
\* the dictionary of the configuration that was read and of the value of p that
\* is shown, None if that was read with the lists of another one;
\* "overtaken" and "suspect", fields of them that have changed without being
\* shown; "unsaved", the values have changed or a save has failed since they
\* were saved; "doubtful", configurations saved while not valid or suspect;
\* "spoilt", why the node need not become valid.
State == [files : SUBSET {"dict", "conf", "script"},
          dictHash : Dicts \cup {None}, tables : Dicts \cup {None},
          scriptField : BOOLEAN, scriptValue : Vals \cup {Junk, None},
          values : Values, reqConf : BOOLEAN, skipCache : BOOLEAN,
          created : Seq(Requests), requests : Seq(Requests), sent : BOOLEAN,
          db : Seq(Jobs),
          ident : Dicts \cup {None}, valid : BOOLEAN, dict : Dicts \cup {None},
          shown : Values, configID : Configs \cup {None},
          suspect : SUBSET {"p", "s"}, overtaken : SUBSET {"p", "s"},
          source : Dicts \cup {None}, shownOf : Dicts \cup {None},
          unsaved : BOOLEAN, doubtful : SUBSET Configs, spoilt : BOOLEAN]

TypeOK ==
    /\ node \in [hash : Dicts, p : Vals, field : Vals, file : Vals]
    /\ gcs \in State
    /\ posted \in Seq(Signals)
    /\ dicts \subseteq Dicts
    /\ configs \subseteq Configs
    /\ held \subseteq Configs
    /\ events \in 0 .. MaxEvents

\* The configuration the node has
Held(n) == [hash |-> n.hash,
            values |-> [f \in Fields(n.hash) |-> IF f = "p" THEN n.p ELSE n.file]]

Init ==
    /\ node \in {[hash |-> h, p |-> v, field |-> v, file |-> v] : h \in Dicts, v \in Vals}
    /\ gcs = [files |-> {}, dictHash |-> None, tables |-> None,
              scriptField |-> FALSE, scriptValue |-> None, values |-> Nothing,
              reqConf |-> FALSE, skipCache |-> FALSE, created |-> <<"ident">>,
              requests |-> <<>>, sent |-> FALSE, db |-> <<>>, ident |-> None,
              valid |-> FALSE, dict |-> None, shown |-> Nothing,
              configID |-> None, suspect |-> {}, overtaken |-> {},
              source |-> None, shownOf |-> None, unsaved |-> FALSE,
              doubtful |-> {}, spoilt |-> FALSE]
    /\ posted = <<>>
    /\ dicts \in SUBSET Dicts
    /\ configs = {}
    /\ held = {Held(node)}
    /\ events = 0

-----------------------------------------------------------------------------
(* NodeItem and NodeStorage.  A handler is an operator on the state g of   *)
(* the GCS.                                                                *)

\* A request is constructed; it is scheduled 1 ms later.
Create(g, r) == [g EXCEPT !.created = Append(@, r)]

\* DatabaseRequest::exec
Exec(g, job) == [g EXCEPT !.db = Append(@, job)]

Clear(g) == [g EXCEPT !.valid = FALSE, !.configID = None, !.dict = None,
                      !.shown = Nothing]

\* The values that are shown are saved, whatever they are.
SaveShown(g) ==
    LET config == [hash |-> g.dict, values |-> g.shown] IN
    Exec([g EXCEPT !.configID = None, !.unsaved = FALSE,
                   !.doubtful = IF g.valid /\ g.suspect = {} THEN @
                                ELSE @ \cup {config}],
         [op |-> "saveConf", config |-> config])

SaveNodeConfig(g) == IF g.dict = None THEN [g EXCEPT !.configID = None]
                                      ELSE SaveShown(g)

\* A slip: the request is not remembered.
RequestConfOnly(g) == Create(g, "conf")

\* PApxNode::requestConf; _req_conf is the last request that was constructed.
\* A second one before the first has ended replaces it, or is replaced, and in
\* both cases _req_conf is reset before the configuration comes.
RequestConf(g) ==
    LET twice == "conf" \in Range(g.created) \cup Range(g.requests) IN
    Create([g EXCEPT !.reqConf = TRUE,
                     !.spoilt = @ \/ (twice /\ g.tables \in Scripted)], "conf")

DictReceived(g, h) ==
    IF g.valid THEN g
    ELSE RequestConf(
           Exec([Clear(g) EXCEPT !.dict = h,
                                 !.shown = [f \in Fields(h) |-> None]],
                [op |-> "saveDict", hash |-> h]))

\* PApxNode::requestDict, every node has a dictionary
RequestDict(g) ==
    IF g.skipCache THEN Create([g EXCEPT !.skipCache = FALSE], "dict")
    ELSE Exec(g, [op |-> "load", hash |-> g.dictHash])

\* The slots of identReceived: PApxNode's, then NodeItem's.  A node that is valid
\* stays so if the ident is the one it had, in its version and its flags, too.
IdentReceived(g, h, same) ==
    LET k == [g EXCEPT !.dictHash = h] IN
    IF k.ident = h /\ k.valid /\ same THEN k
    ELSE RequestDict(Clear([k EXCEPT !.ident = h, !.spoilt = FALSE]))

\* A slip: what is shown of g is saved before the values of k are taken.
SaveFirst(g, k) ==
    LET s == SaveNodeConfig([g EXCEPT !.valid = TRUE]) IN
    [k EXCEPT !.valid = TRUE, !.db = s.db, !.doubtful = s.doubtful]

\* With all its values the node is valid, and they are saved.
Validate(g, k) == SaveNodeConfig([k EXCEPT !.valid = TRUE])

\* A node that is valid takes what there is; one that is not must have all.
ConfReceived(g, vs) ==
    LET fresh == DOMAIN vs \cap DOMAIN g.shown
        k == [g EXCEPT
                !.shown = [f \in DOMAIN @ |-> IF f \in fresh THEN vs[f] ELSE @[f]],
                !.suspect = (@ \ fresh) \cup (g.overtaken \cap fresh),
                !.shownOf = IF "p" \in fresh THEN g.source ELSE @]
    IN  CASE g.dict = None -> g
          [] g.dict # None /\ g.valid ->
               [k EXCEPT !.unsaved = @ \/ k.shown # g.shown]
          [] g.dict # None /\ ~g.valid /\ fresh = DOMAIN g.shown -> Validate(g, k)
          [] OTHER -> k

\* A value that another GCS has sent to the node
ConfUpdated(g, f, v) ==
    IF ~g.valid \/ f \notin DOMAIN g.shown THEN g
    ELSE [g EXCEPT !.shown[f] = v, !.unsaved = TRUE]

-----------------------------------------------------------------------------
(* PApxNode: what is parsed *)

\* The lists of fields are those of h, or empty; what was kept is forgotten.
SetTables(g, h) ==
    [g EXCEPT !.tables = h, !.values = Nothing, !.scriptField = FALSE,
              !.scriptValue = None]

\* A slip: a dictionary asked for with an earlier hash is taken.
DictCacheTaken(g, h) == DictReceived(SetTables(g, h), h)

DictCacheLoaded(g, h) ==
    IF g.dictHash # h THEN g ELSE DictReceived(SetTables(g, h), h)

DictCacheMissing(g, h) ==
    IF g.dictHash # h THEN g ELSE Create(g, "dict")

ParseDict(g) ==
    IF node.hash # g.dictHash THEN [SetTables(g, None) EXCEPT !.spoilt = TRUE]
    ELSE DictReceived(SetTables(g, node.hash), node.hash)

\* The configuration is of another dictionary, or cannot be read.
ConfError(g) == [g EXCEPT !.values = Nothing, !.skipCache = TRUE, !.spoilt = TRUE]

\* The configuration was read, p as v and the hash of the script as s: a script
\* is asked for, but only if the configuration was, too.
ConfParsed(g, v, s) ==
    LET k == [g EXCEPT !.values = Nothing, !.source = node.hash,
                       !.overtaken = {},
                       !.scriptField = @ \/ g.tables \in Scripted,
                       !.scriptValue = IF g.tables \in Scripted THEN s ELSE @]
        vs == [f \in Fields(g.tables) |-> IF f = "p" THEN v ELSE None]
    IN  IF ~k.scriptField THEN ConfReceived(k, vs)
        ELSE IF g.reqConf THEN Create([k EXCEPT !.values = vs], "script")
        ELSE [k EXCEPT !.values = vs]

\* Read with the lists of another dictionary, it makes no sense, or is an error
\* found before or after the field of a script.
ParseConf(g) ==
    CASE node.hash # g.dictHash \/ g.tables = None -> {ConfError(g)}
      [] node.hash = g.dictHash /\ g.tables = node.hash -> {ConfParsed(g, node.p, node.field)}
      [] OTHER -> {ConfError(g), ConfParsed(g, Junk, Junk)}
                     \cup {[ConfError(g) EXCEPT !.scriptField = TRUE, !.scriptValue = Junk] :
                            h \in {g.tables} \cap Scripted}

\* The script that belongs to the configuration makes it complete.
ParseScript(g) ==
    IF node.file # g.scriptValue \/ ~g.scriptField
    THEN [g EXCEPT !.spoilt = @ \/ g.scriptField]
    ELSE [ConfReceived([g EXCEPT !.overtaken = @ \ {"s"}],
                       [f \in DOMAIN g.values \cup {"s"} |->
                          IF f = "s" THEN node.file ELSE g.values[f]])
            EXCEPT !.values = Nothing]

\* A file of the node was received as a whole.
Parse(g, f) ==
    CASE f = "dict"   -> {ParseDict(g)}
      [] f = "conf"   -> ParseConf(g)
      [] f = "script" -> {ParseScript(g)}

\* An update that was read with the lists of another firmware shows v in field f,
\* though it was not meant for it, or makes no sense as v.
Misread(g, f, v) ==
    IF ~g.valid \/ f \notin DOMAIN g.shown THEN g
    ELSE [ConfUpdated(g, f, v) EXCEPT !.suspect = @ \cup {f},
                                      !.shownOf = IF f = "p" THEN None ELSE @]

\* The fields an update is taken for: not the script, once its field is known.
Updatable(g) == {f \in Fields(g.tables) : f = "s" => ~g.scriptField}

\* Another GCS writes v to field f of the node.  The number of the field is looked
\* up in the lists there are: those of another firmware have no such number, or
\* another field, or another type for it.
HearUpdate(g, f, v) ==
    CASE g.tables = None -> {g}
      [] g.tables = node.hash ->
           {IF f \in Updatable(g) THEN ConfUpdated(g, f, v) ELSE g}
      [] OTHER ->
           {g} \cup {Misread(g, x, v) : x \in Updatable(g)}
               \cup {Misread(g, x, Junk) : x \in Updatable(g)}

-----------------------------------------------------------------------------
(* Requests to the node *)

InList(g, r) == r \in Range(g.requests)

\* removeOne
Without(q, r) ==
    IF r \notin Range(q) THEN q
    ELSE LET n == CHOOSE i \in DOMAIN q : q[i] = r
         IN  SubSeq(q, 1, n - 1) \o SubSeq(q, n + 1, Len(q))

\* A request is deleted; finished() of any request for the configuration
\* resets _req_conf.
Delete(g, r) ==
    [g EXCEPT !.requests = Without(@, r),
              !.sent = @ /\ g.requests[1] # r,
              !.reqConf = @ /\ r # "conf"]

RestUnchanged == UNCHANGED <<node, posted, dicts, configs, held, events>>

\* PApxNode::schedule_request: of two equal requests one is deleted, the new
\* one if the older is on the air or asks for the ident.
Schedule ==
    /\ gcs.created # <<>>
    /\ LET r == Head(gcs.created)
           g == [gcs EXCEPT !.created = Tail(@)]
           older == IF InList(g, r) THEN Delete(g, r) ELSE g
       IN  IF InList(g, r) /\ (r = "ident" \/ (g.sent /\ g.requests[1] = r))
           THEN gcs' = [g EXCEPT !.reqConf = @ /\ r # "conf"]
           ELSE gcs' = [older EXCEPT !.requests = Append(@, r)]
    /\ RestUnchanged

\* The first request is sent, if its file exists.
Send ==
    /\ gcs.requests # <<>>
    /\ ~gcs.sent
    /\ LET r == gcs.requests[1] IN
       gcs' = IF r = "ident" \/ r \in gcs.files THEN [gcs EXCEPT !.sent = TRUE]
              ELSE [Delete(gcs, r) EXCEPT !.spoilt = TRUE]
    /\ RestUnchanged

\* PApxNode::updateFiles: with other files, the requests for them are deleted.
UpdateFiles(g, fs) ==
    IF fs = g.files THEN g
    ELSE [Delete(Delete(Delete(g, "dict"), "conf"), "script") EXCEPT !.files = fs]

\* The ident that answers a request
Ident(g, same) ==
    Delete(IdentReceived(UpdateFiles(g, Files(node.hash)), node.hash, same), "ident")

Answer ==
    /\ gcs.sent
    /\ LET r == gcs.requests[1] IN
       \/ r = "ident" /\ \E same \in BOOLEAN : gcs' = Ident(gcs, same)
       \/ /\ r \in Files(node.hash)
          /\ \E g \in Parse(gcs, r) : gcs' = Delete(g, r)
    /\ RestUnchanged

\* The transfer of a file fails or is not noticed as complete.
TransferFails ==
    /\ gcs.sent
    /\ gcs.requests[1] # "ident"
    /\ gcs' = [Delete(gcs, gcs.requests[1]) EXCEPT !.spoilt = TRUE]
    /\ RestUnchanged

\* No answer comes: all requests of the node are dropped.
Drop ==
    /\ gcs.sent
    /\ gcs' = [gcs EXCEPT !.requests = <<>>, !.sent = FALSE, !.spoilt = TRUE,
                          !.reqConf = @ /\ ~InList(gcs, "conf")]
    /\ RestUnchanged

-----------------------------------------------------------------------------
(* The database *)

\* The worker runs a request; what it finds is posted to the event loop.
Work ==
    /\ gcs.db # <<>>
    /\ LET job == Head(gcs.db) IN
       \/ /\ job.op = "load"
          /\ \E sig \in {IF job.hash \in dicts THEN "loaded" ELSE "missing", "failed"} :
                posted' = Append(posted, [sig |-> sig, hash |-> job.hash])
          /\ gcs' = [gcs EXCEPT !.db = Tail(@)]
          /\ UNCHANGED <<dicts, configs>>
       \/ /\ job.op = "saveDict"
          /\ dicts' \in {dicts, dicts \cup {job.hash}}
          /\ gcs' = [gcs EXCEPT !.db = Tail(@)]
          /\ UNCHANGED <<configs, posted>>
       \/ /\ job.op = "saveConf"
          /\ job.config.hash \in dicts
          /\ configs' = configs \cup {job.config}
          /\ posted' = Append(posted, [sig |-> "saved", config |-> job.config])
          /\ gcs' = [gcs EXCEPT !.db = Tail(@)]
          /\ UNCHANGED dicts
       \/ /\ job.op = "saveConf"
          /\ gcs' = [gcs EXCEPT !.db = Tail(@), !.unsaved = TRUE]
          /\ UNCHANGED <<dicts, configs, posted>>
    /\ UNCHANGED <<node, held, events>>

\* A result comes to the event loop.
Deliver ==
    /\ posted # <<>>
    /\ posted' = Tail(posted)
    /\ LET m == Head(posted) IN
       \/ m.sig = "loaded" /\ gcs' = DictCacheLoaded(gcs, m.hash)
       \/ m.sig = "missing" /\ gcs' = DictCacheMissing(gcs, m.hash)
       \/ m.sig = "failed" /\ gcs' = Create(gcs, "dict")
       \/ m.sig = "saved" /\ gcs' = [gcs EXCEPT !.configID = m.config]
    /\ UNCHANGED <<node, dicts, configs, held, events>>

-----------------------------------------------------------------------------
(* From outside: the node, the user and another GCS *)

Event ==
    /\ events < MaxEvents
    /\ events' = events + 1
    /\ UNCHANGED <<posted, dicts, configs>>

\* The node answers to a search of anyone, or says that it has started.
Announce ==
    /\ Event
    /\ gcs' = Create(gcs, "ident")
    /\ UNCHANGED <<node, held>>

\* The node has got another firmware, with other values.
Reflash(h, v) ==
    /\ Event
    /\ h # node.hash
    /\ node' = [node EXCEPT !.hash = h, !.p = v]
    /\ gcs' = [gcs EXCEPT !.suspect = {"p", "s"}, !.overtaken = {"p", "s"}]
    /\ held' = held \cup {Held(node')}

\* The GCS has missed a change of field f, or has not got it to show.
Missed(g, f, v) ==
    [g EXCEPT !.overtaken = @ \cup {f},
              !.suspect = IF g.valid /\ f \in DOMAIN g.shown /\ g.shown[f] = v
                            THEN @ ELSE @ \cup {f}]

\* Another GCS writes p; this one hears it, or not.
RemoteUpdate(v, heard) ==
    /\ Event
    /\ v # node.p
    /\ node' = [node EXCEPT !.p = v]
    /\ held' = held \cup {Held(node')}
    /\ \E g \in IF heard THEN HearUpdate(gcs, "p", v) ELSE {gcs} :
          gcs' = Missed(g, "p", v)

\* Another GCS has saved its changes, and the answer of the node is heard.
RemoteSave ==
    /\ Event
    /\ gcs' = SaveNodeConfig(gcs)
    /\ UNCHANGED <<node, held>>

\* Another GCS writes the script, the file first.  PApxNode has a PApxNodeFile
\* to hear it.
RemoteScript(v, heard) ==
    /\ Event
    /\ node.hash \in Scripted
    /\ v # node.file
    /\ node' = [node EXCEPT !.file = v]
    /\ LET known == [gcs EXCEPT !.scriptValue = v,
                                !.overtaken = @ \ {"s"}]
           taken == IF ~gcs.scriptField THEN known
                    ELSE [ConfReceived(known, [f \in DOMAIN gcs.values \cup {"s"} |->
                                        IF f = "s" THEN v ELSE gcs.values[f]])
                            EXCEPT !.values = Nothing]
       IN  gcs' = Missed(IF heard /\ "script" \in gcs.files THEN taken ELSE gcs, "s", v)
    /\ held' = held \cup {Held(node')}

\* Then the field, which holds the hash of the file.
RemoteScriptField(heard) ==
    /\ Event
    /\ node.hash \in Scripted
    /\ node.field # node.file
    /\ node' = [node EXCEPT !.field = node.file]
    /\ UNCHANGED held
    /\ \E g \in IF heard THEN HearUpdate(gcs, "s", Junk) ELSE {gcs} :
          gcs' = [g EXCEPT !.suspect = IF g.shown = gcs.shown THEN @ ELSE @ \cup {"s"}]

\* Another GCS reads a file, or asks for the ident.
Overhear(f) ==
    /\ Event
    /\ f \in gcs.files \cap Files(node.hash)
    /\ gcs' \in Parse(gcs, f)
    /\ UNCHANGED <<node, held>>

OverhearIdent ==
    /\ Event
    /\ InList(gcs, "ident")
    /\ \E same \in BOOLEAN : gcs' = Ident(gcs, same)
    /\ UNCHANGED <<node, held>>

-----------------------------------------------------------------------------
Outside ==
    \/ Announce \/ RemoteSave \/ OverhearIdent
    \/ \E h \in Dicts, v \in Vals : Reflash(h, v)
    \/ \E v \in Vals, heard \in BOOLEAN : RemoteUpdate(v, heard) \/ RemoteScript(v, heard)
    \/ \E heard \in BOOLEAN : RemoteScriptField(heard)
    \/ \E f \in {"dict", "conf", "script"} : Overhear(f)

Next == Schedule \/ Send \/ Answer \/ TransferFails \/ Drop \/ Work \/ Deliver \/ Outside

Spec == Init /\ [][Next]_vars

\* The event loop and the worker run; a request on the air ends.
FairSpec ==
    /\ Spec
    /\ WF_vars(Schedule)
    /\ WF_vars(Send)
    /\ WF_vars(Answer \/ TransferFails \/ Drop)
    /\ WF_vars(Work)
    /\ WF_vars(Deliver)

-----------------------------------------------------------------------------
(* Properties *)

\* What is shown of a valid node is of its own dictionary and its configuration,
\* whatever came in between from caches, earlier firmware or another GCS; but
\* for fields that have changed on the node while the packet was lost, or came
\* when it could not be taken: before the node was valid, or after its
\* dictionary had been overheard again; and but for updates that were misread:
\* what another GCS writes between a change of firmware and the ident that tells
\* of it is looked up in the lists of the earlier firmware.
ShownIsHeld ==
    gcs.valid =>
        /\ gcs.dict = gcs.ident
        /\ \/ gcs.shownOf = gcs.dict /\ gcs.shown["p"] \in Vals
           \/ gcs.shownOf = None /\ "p" \in gcs.suspect
        /\ gcs.ident = node.hash /\ "p" \notin gcs.suspect => gcs.shown["p"] = node.p
        /\ gcs.ident = node.hash /\ "s" \in DOMAIN gcs.shown \ gcs.suspect
             => gcs.shown["s"] = node.file

\* The configuration a vehicle's configuration would name for this node is the
\* one that is shown, when no save is under way; but for values that another GCS
\* has changed since, and for a save that failed, after which the answer to an
\* earlier one is taken for it.
NamedIsShown ==
    /\ gcs.valid /\ gcs.configID # None /\ ~gcs.unsaved
    /\ \A i \in DOMAIN gcs.db : gcs.db[i].op # "saveConf"
    /\ \A i \in DOMAIN posted : posted[i].sig # "saved"
    => gcs.configID = [hash |-> gcs.dict, values |-> gcs.shown]

\* A configuration in the database is one the node has had; but for what is
\* saved when another GCS saves while this one has not read the values (then
\* those of a new NodeField are saved) or has missed some.
SavedWasHeld == configs \subseteq held \cup gcs.doubtful

ConfigsAreTrue == NamedIsShown /\ SavedWasHeld

\* A node that has told its ident becomes valid.  The exceptions: a request
\* fails, the node has changed in between, or the configuration of a node with a
\* script was asked for twice at a time, as after two answers to a search; then
\* the script is never asked for, and the node stays not valid until it is
\* searched for again.
BecomesValid == gcs.ident # None /\ ~gcs.valid ~> gcs.valid \/ gcs.spoilt
=============================================================================
