------------------------- MODULE TelemetryRecorder -------------------------
(***************************************************************************)
(* The recording of telemetry.  The first sample after a restart asks the  *)
(* database for a new record; until its number comes back, what is sampled *)
(* waits in a list.  A record begins with all the values known and goes on *)
(* with those that change.  The recording is restarted by the user, by the *)
(* take-off of the vehicle, by a telemetry time that jumps back, and when  *)
(* the trash has been emptied.                                             *)
(*                                                                         *)
(* The GUI thread runs one handler at a time.  A handler is an operator on *)
(* a record of the recorder's state (Now), an action assigns the result    *)
(* (Become).  The worker of the database runs the queued requests in their *)
(* order (DatabaseWorker); a failure undoes the open batch.  Other         *)
(* vehicles have recorders of their own, which share the database.         *)
(***************************************************************************)
EXTENDS Naturals, Sequences, FiniteSets

CONSTANTS
    Facts, Vals,    \* values of the vehicle that are recorded
    Configs,        \* hashes of configurations
    Keys,           \* bound: keys of table Telemetry
    PendingLimit,   \* 50000: samples that may wait for a record
    MaxInputs,      \* bound: samples, choices of the user, statements that fail
    None

VARIABLES
    mandala,    \* values of the vehicle; 0: never received
    flying,     \* Vehicle::flightState is FS_TAKEOFF
    config,     \* hash of the configuration saved last
    recording,  \* f_enable
    flightSeen, \* flightState_s
    recID,      \* recTelemetryID
    reqNew,     \* reqNewRecord is set
    pending,    \* reqPendingList
    known,      \* _values
    confHash,   \* configHash
    based,      \* _ts_t0 is set: an earlier time restarts the recording
    queue,      \* requests in the queue of the database
    rows,       \* table Telemetry with what refers to it, as the worker has it
    saved,      \* the same, as of the last commit
    enabled,    \* DatabaseSession::enabled
    posted,     \* queued signals to the recorder
    era,        \* restarts so far
    late,       \* restarted while the request for a record was under way
    gaps,       \* something of the present record is known to be lost
    confLate,   \* a configuration was saved while a record was being created, or
                \* forgotten as a record that was created was given up at once
    mute,       \* the request for a record was dropped, or has failed
    vanished,   \* keys of records that were given out and are gone
    inputs      \* of them so far

recVars == <<recording, flightSeen, recID, reqNew, pending, known, confHash,
             based, era, late, gaps, mute, queue>>
vars == <<mandala, flying, config, recVars, rows, saved, enabled, posted,
          confLate, vanished, inputs>>

Values == [Facts -> Vals \cup {0}]
Nothing == [f \in Facts |-> 0]

\* One request to write data or an event.
Items == [vals : Values, conf : Configs \cup {None}, on : BOOLEAN, era : Nat, late : BOOLEAN]

\* A record: whose it is, recorded on purpose or into the trash, after which
\* restart it was asked for; then what its data comes to: the values when it is
\* played back, its configuration, whether there is anything, and whether all
\* of it was sampled after the same restart and with the same choice.
Row == [mine : BOOLEAN, on : BOOLEAN, era : Nat,
        play : Values, conf : Configs \cup {None}, used : BOOLEAN, pure : BOOLEAN, kept : BOOLEAN]

\* What is asked of the database: a record, something written, an empty trash
Requests == [kind : {"new"}, mine : BOOLEAN, on : BOOLEAN, era : Nat]
            \cup [kind : {"write"}, id : Keys \cup {0}, item : Items]
            \cup {[kind |-> "trash"]}

ASSUME ConstantsAssumption ==
    /\ IsFiniteSet(Keys) /\ Keys = 1 .. Cardinality(Keys)
    /\ 0 \notin Vals /\ None \notin Configs /\ None \notin Row
    /\ PendingLimit \in Nat \ {0}
    /\ MaxInputs \in Nat

TypeOK ==
    /\ mandala \in Values
    /\ flying \in BOOLEAN
    /\ config \in Configs \cup {None}
    /\ recording \in BOOLEAN
    /\ flightSeen \in BOOLEAN
    /\ recID \in Keys \cup {0}
    /\ reqNew \in BOOLEAN
    /\ pending \in Seq(Items)
    /\ reqNew \/ pending = <<>>
    /\ known \in Values
    /\ confHash \in Configs \cup {None}
    /\ based \in BOOLEAN
    /\ queue \in Seq(Requests)
    /\ rows \in [Keys -> Row \cup {None}]
    /\ saved \in [Keys -> Row \cup {None}]
    /\ enabled \in BOOLEAN
    /\ posted \in Seq(Keys \cup {0})
    /\ era \in Nat
    /\ {late, gaps, confLate, mute} \subseteq BOOLEAN
    /\ vanished \subseteq Keys
    /\ inputs \in 0 .. MaxInputs

Init ==
    /\ mandala = Nothing
    /\ flying = FALSE
    /\ config = None
    /\ recording \in BOOLEAN
    /\ flightSeen = FALSE
    /\ recID = 0
    /\ reqNew = FALSE
    /\ pending = <<>>
    /\ known = Nothing
    /\ confHash = None
    /\ based = FALSE
    /\ queue = <<>>
    /\ rows = [k \in Keys |-> None]
    /\ saved = [k \in Keys |-> None]
    /\ enabled = TRUE
    /\ posted = <<>>
    /\ era = 0
    /\ late = FALSE
    /\ gaps = FALSE
    /\ confLate = FALSE
    /\ mute = FALSE
    /\ vanished = {}
    /\ inputs = 0

Now == [recording |-> recording, flightSeen |-> flightSeen, recID |-> recID,
        reqNew |-> reqNew, pending |-> pending, known |-> known,
        confHash |-> confHash, based |-> based, era |-> era, late |-> late,
        gaps |-> gaps, mute |-> mute, queue |-> queue]

Become(t) == \E s \in {t} :
    /\ recording' = s.recording
    /\ flightSeen' = s.flightSeen
    /\ recID' = s.recID
    /\ reqNew' = s.reqNew
    /\ pending' = s.pending
    /\ known' = s.known
    /\ confHash' = s.confHash
    /\ based' = s.based
    /\ era' = s.era
    /\ late' = s.late
    /\ gaps' = s.gaps
    /\ mute' = s.mute
    /\ queue' = s.queue

-----------------------------------------------------------------------------
(* The recorder *)

\* A request is queued.  While the session is disabled it is forgotten.
Exec(s, r) ==
    IF enabled THEN [s EXCEPT !.queue = Append(@, r)]
    ELSE [s EXCEPT !.gaps = TRUE, !.mute = @ \/ r.kind = "new"]

\* A slip: the samples go on into the record of before.
ResetTime(s) == [s EXCEPT !.based = FALSE, !.era = @ + 1, !.late = @ \/ s.reqNew]

\* reset(): the record is forgotten, a request for one is not.
Reset(s) ==
    [s EXCEPT !.recID = 0, !.based = FALSE, !.era = @ + 1, !.late = @ \/ s.reqNew]

\* setRecording() and the restart it causes, in the handler that calls it
Switch(s, on) == [Reset(s) EXCEPT !.recording = on]

\* checkAutoRecord(); tele: the stream of the vehicle is telemetry.  Nothing
\* sets the state in which a recording would be stopped, FS_LANDED.
CheckAutoRecord(s, tele, fly) ==
    IF ~tele \/ s.flightSeen = fly THEN s
    ELSE IF fly THEN Switch([s EXCEPT !.flightSeen = fly], TRUE)
    ELSE [s EXCEPT !.flightSeen = fly]

Item(s, vals, conf) ==
    [vals |-> vals, conf |-> conf, on |-> s.recording, era |-> s.era, late |-> s.late]

\* A slip: a record begins with the first value that changes.
NewRecordEmpty(s, values) ==
    LET t == [s EXCEPT !.reqNew = TRUE, !.late = FALSE, !.gaps = FALSE]
    IN  Exec([t EXCEPT !.pending = <<Item(t, Nothing, None)>>],
             [kind |-> "new", mine |-> TRUE, on |-> s.recording, era |-> s.era])

\* A record is asked for; all that was ever received comes first.
NewRecord(s, values) ==
    LET t == [s EXCEPT !.reqNew = TRUE, !.known = values, !.late = FALSE, !.gaps = FALSE]
    IN  Exec([t EXCEPT !.pending = <<Item(t, values, None)>>],
             [kind |-> "new", mine |-> TRUE, on |-> s.recording, era |-> s.era])

\* dbCheckRecord()
CheckRecord(s, tele, fly, values) ==
    LET t == CheckAutoRecord(s, tele, fly)
        n == IF t.reqNew THEN t ELSE NewRecord(t, values)
    IN  IF t.recID # 0 THEN t
        ELSE IF Len(n.pending) > PendingLimit
        THEN [n EXCEPT !.pending = Tail(@), !.gaps = TRUE]
        ELSE n

\* dbWriteRequest()
Write(s, vals, conf) ==
    IF s.recID # 0
    THEN Exec(s, [kind |-> "write", id |-> s.recID, item |-> Item(s, vals, conf)])
    ELSE [s EXCEPT !.pending = Append(@, Item(s, vals, conf))]

\* writeEvent()
WriteEvent(s, tele, fly, values, conf) ==
    Write(CheckRecord(s, tele, fly, values), Nothing, conf)

\* recordConfig()
RecordConfig(s, tele, fly, values, hash) ==
    LET t == CheckRecord(s, tele, fly, values)
    IN  IF t.recID = 0 \/ hash = None \/ hash = t.confHash THEN t
        ELSE WriteEvent([t EXCEPT !.confHash = hash], tele, fly, values, hash)

\* Of two values the later one counts.
Onto(values, vals) == [f \in Facts |-> IF vals[f] = 0 THEN values[f] ELSE vals[f]]

\* cleanupValues() and the write of what it leaves
WriteChanged(s, vals) ==
    LET changed == [f \in Facts |-> IF vals[f] = s.known[f] THEN 0 ELSE vals[f]]
        t == [s EXCEPT !.known = Onto(@, vals)]
    IN  IF changed = Nothing THEN t ELSE Write(t, changed, None)

-----------------------------------------------------------------------------
(* What comes in *)

Input ==
    /\ inputs < MaxInputs
    /\ inputs' = inputs + 1

dbVars == <<rows, saved, enabled, posted, vanished>>

Only(f, v) == [g \in Facts |-> IF g = f THEN v ELSE 0]

\* A packet of telemetry: the values of the vehicle are updated, and with them
\* its flight state, then they are recorded.
\* earlier: its time is before the first one since the restart.
Telemetry(f, v, fly, earlier) ==
    /\ Input
    /\ earlier => based
    /\ mandala' = [mandala EXCEPT ![f] = v]
    /\ flying' = fly
    /\ LET s == CheckRecord(IF earlier THEN Reset(Now) ELSE Now, TRUE, fly, mandala')
       IN  Become(WriteChanged([s EXCEPT !.based = TRUE], Only(f, v)))
    /\ UNCHANGED <<config, dbVars, confLate>>

\* A packet of data.  What has not changed is not even looked at.
Data(f, v, tele) ==
    /\ Input
    /\ mandala' = [mandala EXCEPT ![f] = v]
    /\ IF known[f] = v THEN UNCHANGED recVars
       ELSE Become(Write(CheckRecord([Now EXCEPT !.known[f] = v], tele, flying, mandala'),
                         Only(f, v), None))
    /\ UNCHANGED <<flying, config, dbVars, confLate>>

\* The user or a packet of data sets a value of the vehicle: its flight state
\* may follow, and is not looked at until something is recorded.
FlightChanges ==
    /\ Input
    /\ flying' = ~flying
    /\ UNCHANGED <<mandala, config, recVars, dbVars, confLate>>

\* Serial data, a notification, a field that was changed, a mission
Event(tele) ==
    /\ Input
    /\ Become(WriteEvent(Now, tele, flying, mandala, None))
    /\ UNCHANGED <<mandala, flying, config, dbVars, confLate>>

\* The configuration of the vehicle has been saved.
ConfigSaved(c, tele) ==
    /\ Input
    /\ config' = c
    /\ Become(RecordConfig(Now, tele, flying, mandala, c))
    /\ confLate' = (recID' = 0)
    /\ UNCHANGED <<mandala, flying, dbVars>>

\* The user switches the recording: f_enable restarts it.
SwitchRecording ==
    /\ Input
    /\ Become(Switch(Now, ~recording))
    /\ UNCHANGED <<mandala, flying, config, dbVars, confLate>>

\* Requests of others: a record for another vehicle; the trash is to be emptied.
OtherRequest(r) ==
    /\ Input
    /\ r \in {[kind |-> "new", mine |-> FALSE, on |-> TRUE, era |-> 0], [kind |-> "trash"]}
    /\ enabled
    /\ Become([Now EXCEPT !.queue = Append(@, r)])
    /\ UNCHANGED <<mandala, flying, config, dbVars, confLate>>

-----------------------------------------------------------------------------
(* Signals of the database *)

\* The requests that waited are sent, whatever has become of the record.
SendPending(s) ==
    LET sent == [i \in DOMAIN s.pending |->
                    [kind |-> "write", id |-> s.recID, item |-> s.pending[i]]]
    IN  [s EXCEPT !.queue = IF enabled THEN @ \o sent ELSE @,
                  !.gaps = @ \/ ~enabled \/ s.recID = 0,
                  !.pending = <<>>]

\* A slip: the configuration is taken for one that the record has.
AdoptHash(s, k) == [s EXCEPT !.recID = k, !.reqNew = FALSE]

\* A slip: the request stays.
AdoptTwice(s, k) == [s EXCEPT !.recID = k, !.confHash = None]

\* The request is answered.
Adopt(s, k) == [s EXCEPT !.recID = k, !.reqNew = FALSE, !.confHash = None]

\* dbRecordCreated(): the mission and the configuration of before, then what
\* has waited, then the description of this computer.
RecordCreated(tele, mission) ==
    /\ posted # <<>> /\ Head(posted) # 0
    /\ posted' = Tail(posted)
    /\ IF ~reqNew THEN UNCHANGED recVars
       ELSE LET k == Head(posted)
                c == Adopt(Now, k)
                m == IF mission THEN WriteEvent(c, tele, flying, mandala, None) ELSE c
                r == RecordConfig(m, tele, flying, mandala, confHash)
            IN  Become(Exec(SendPending(r),
                            [kind |-> "write", id |-> k, item |-> Item(c, Nothing, None)]))
    /\ confLate' = (confLate \/ (recID' = 0 /\ confHash # None))
    /\ UNCHANGED <<mandala, flying, config, rows, saved, enabled, vanished, inputs>>

\* invalidateRecords: the trash has been emptied.
Invalidated ==
    /\ posted # <<>> /\ Head(posted) = 0
    /\ posted' = Tail(posted)
    /\ Become(Reset(Now))
    /\ UNCHANGED <<mandala, flying, config, rows, saved, enabled, vanished,
                   confLate, inputs>>

-----------------------------------------------------------------------------
(* The worker of the database *)

Unused == {k \in Keys : \A j \in Keys : j >= k => rows[j] = None}
NextKey == CHOOSE k \in Unused : \A j \in Unused : k <= j

workVars == <<mandala, flying, config, recording, flightSeen, recID, reqNew,
              pending, known, confHash, based, era, late, confLate>>

\* The batch is committed when the queue is empty; it holds more than there
\* is in the queue here.
Batched(r) ==
    /\ rows' = r
    /\ saved' = IF queue' = <<>> THEN r ELSE saved

\* A slip: the number of any new record is taken.
AnnouncedToAll(r, k) == Append(posted, k)

\* idUpdated is connected to the recorder that made the request.
Announced(r, k) == IF r.mine THEN Append(posted, k) ELSE posted

\* A record for the recorder is announced before it is committed.
RunNew ==
    /\ enabled
    /\ queue # <<>> /\ Head(queue).kind = "new"
    /\ Unused # {}
    /\ queue' = Tail(queue)
    /\ LET r == Head(queue)
       IN  /\ Batched([rows EXCEPT ![NextKey] =
                  [mine |-> r.mine, on |-> r.on, era |-> r.era, play |-> Nothing,
                   conf |-> None, used |-> FALSE, pure |-> TRUE, kept |-> TRUE]])
           /\ posted' = Announced(r, NextKey)
    /\ UNCHANGED <<workVars, enabled, gaps, mute, vanished, inputs>>

\* The record r with the item x
Written(r, x) ==
    [r EXCEPT !.play = Onto(@, x.vals),
              !.conf = IF x.conf = None THEN @ ELSE x.conf,
              !.used = TRUE,
              !.pure = @ /\ (x.late \/ x.era = r.era),
              !.kept = @ /\ (x.late \/ x.on = r.on)]

RunWrite ==
    /\ enabled
    /\ queue # <<>> /\ Head(queue).kind = "write"
    /\ LET id == Head(queue).id
       IN  /\ id \in Keys /\ rows[id] # None
           /\ queue' = Tail(queue)
           /\ Batched([rows EXCEPT ![id] = Written(@, Head(queue).item)])
    /\ UNCHANGED <<workVars, posted, enabled, gaps, mute, vanished, inputs>>

Gone(r) == {k \in Keys : rows[k] # None /\ rows[k].mine /\ r[k] = None}

\* A request fails: for want of its record, or for any other reason.  The
\* batch is undone.
Fail ==
    /\ enabled
    /\ queue # <<>> /\ Head(queue).kind # "trash"
    /\ \/ /\ Head(queue).kind = "write"
          /\ Head(queue).id \in Keys => rows[Head(queue).id] = None
          /\ UNCHANGED inputs
       \/ Input
    /\ queue' = Tail(queue)
    /\ rows' = saved
    /\ saved' = saved
    /\ gaps' = TRUE
    /\ mute' = (mute \/ (Head(queue).kind = "new" /\ Head(queue).mine))
    /\ vanished' = vanished \cup Gone(saved)
    /\ UNCHANGED <<workVars, posted, enabled>>

\* The trash is emptied: the session is disabled meanwhile, each record of
\* the trash is deleted, unless the user stops it, and the recorder is told.
TrashBegins ==
    /\ enabled
    /\ queue # <<>> /\ Head(queue).kind = "trash"
    /\ enabled' = FALSE
    /\ UNCHANGED <<workVars, queue, rows, saved, posted, gaps, mute, vanished, inputs>>

TrashDone(r) ==
    /\ ~enabled
    /\ enabled' = TRUE
    /\ queue' = Tail(queue)
    /\ rows' = r
    /\ posted' = Append(posted, 0)
    /\ gaps' = (gaps \/ r # rows)
    /\ vanished' = vanished \cup Gone(r)
    /\ UNCHANGED <<workVars, mute>>

\* A slip: what is recorded on purpose is deleted, too.
TrashEndsAll(deleted) ==
    /\ \A k \in deleted : rows[k] # None
    /\ TrashDone([k \in Keys |-> IF k \in deleted THEN None ELSE rows[k]])
    /\ saved' = rows' \/ (deleted = {} /\ queue' # <<>> /\ UNCHANGED saved)
    /\ UNCHANGED inputs

\* The deletion of the first record commits the open batch.
TrashEnds(deleted) ==
    /\ \A k \in deleted : rows[k] # None /\ ~rows[k].on
    /\ TrashDone([k \in Keys |-> IF k \in deleted THEN None ELSE rows[k]])
    /\ saved' = rows' \/ (deleted = {} /\ queue' # <<>> /\ UNCHANGED saved)
    /\ UNCHANGED inputs

\* The records of the trash cannot be counted: the batch is undone.
TrashFails ==
    /\ Input
    /\ TrashDone(saved)
    /\ UNCHANGED saved

-----------------------------------------------------------------------------
Worker ==
    \/ RunNew \/ RunWrite \/ Fail \/ TrashBegins \/ TrashFails
    \/ \E d \in SUBSET Keys : TrashEnds(d)

Signals ==
    Invalidated \/ \E tele, mission \in BOOLEAN : RecordCreated(tele, mission)

Next ==
    \/ \E f \in Facts, v \in Vals, b \in BOOLEAN :
          Data(f, v, b) \/ \E fly \in BOOLEAN : Telemetry(f, v, fly, b)
    \/ FlightChanges
    \/ \E tele \in BOOLEAN : Event(tele) \/ \E c \in Configs : ConfigSaved(c, tele)
    \/ SwitchRecording
    \/ OtherRequest([kind |-> "new", mine |-> FALSE, on |-> TRUE, era |-> 0])
    \/ OtherRequest([kind |-> "trash"])
    \/ Worker
    \/ Signals

Spec == Init /\ [][Next]_vars

-----------------------------------------------------------------------------
(* Properties *)

\* Nothing is written into the record of another vehicle, but for a record
\* that was deleted, or undone after its number had been given out: its number
\* is used again.
OwnRecord ==
    \A k \in Keys \ vanished : rows[k] # None => rows[k].mine \/ ~rows[k].used

\* A record holds what was sampled between two restarts, and is in the trash if
\* and only if the recording was off then, but for a restart while the record
\* was being created.
OneEraOneRecord ==
    \A k \in Keys \ vanished :
        rows[k] # None => rows[k].pure /\ rows[k].kept

\* What is under way to the present record: places in the list, or in the queue
Sent ==
    IF recID = 0 THEN DOMAIN pending
    ELSE {i \in DOMAIN queue : queue[i].kind = "write" /\ queue[i].id = recID}

SentItem(i) == IF recID = 0 THEN pending[i] ELSE queue[i].item

Latest(S) == CHOOSE i \in S : \A j \in S : j <= i

\* A value when the record will be played back.
Played(f) ==
    LET S == {i \in Sent : SentItem(i).vals[f] # 0}
    IN  IF S # {} THEN SentItem(Latest(S)).vals[f]
        ELSE IF recID = 0 \/ rows[recID] = None THEN 0 ELSE rows[recID].play[f]

\* The configuration that the record will have.
Named ==
    LET S == {i \in Sent : SentItem(i).conf # None}
    IN  IF S # {} THEN SentItem(Latest(S)).conf ELSE rows[recID].conf

\* Played back, the record gives the values of the vehicle, although only
\* changes are written; but for what is known to be lost.
Replayable ==
    (recID # 0 \/ reqNew) /\ ~gaps => \A f \in Facts : Played(f) = mandala[f]

\* The record names the configuration in use.  The exceptions: one that was
\* saved while a record was being created is not written; and when the vehicle
\* takes off as a record is created, that record is given up, and nothing is
\* left of the hash that it should have begun with.
ConfigIsNamed == recID # 0 /\ ~gaps /\ ~confLate => config = Named

\* While samples wait for a record, the request for it is in the queue or its
\* answer under way.  The exception: the request was forgotten by a session
\* that was disabled, or has failed; then they wait for ever, as nothing makes
\* another request.
PendingIsAwaited ==
    reqNew => \/ \E i \in DOMAIN queue : queue[i].kind = "new" /\ queue[i].mine
              \/ \E i \in DOMAIN posted : posted[i] # 0
              \/ mute

\* A recording made on purpose that is committed stays, with what is in it,
\* whatever is undone, used again or emptied after it: only the trash is emptied.
CommittedStays ==
    [][\A k \in Keys : saved[k] # None /\ saved[k].on =>
          /\ saved'[k] # None
          /\ saved'[k].mine = saved[k].mine /\ saved'[k].on
          /\ saved'[k].era = saved[k].era
          /\ saved[k].used => saved'[k].used]_vars

=============================================================================
