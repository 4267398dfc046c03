----------------------------- MODULE NodeUpdate -----------------------------
(***************************************************************************)
(* The upload of changed parameters to a node: NodeItem collects the       *)
(* modified fields, PApxNodeRequestUpdate writes them one packet at a time *)
(* and asks the node to save them, and the answer to the last packet makes *)
(* NodeItem take its present values for those of the node.                 *)
(*                                                                         *)
(* The request is the only one of the sequencer (NmtRequests).  The link   *)
(* loses and delays packets and keeps their order; the node is external.   *)
(***************************************************************************)
EXTENDS Integers, Sequences, FiniteSets, FiniteSetsExt

CONSTANTS
    Fields,    \* names of the parameters; keys of a QVariantMap are sorted
    Vals,      \* values of a parameter
    Retries,   \* PApxNodeRequest::retries
    MaxEdits,  \* bound: changes made by the user
    MaxLink,   \* bound: packets under way in a direction; more are lost
    None

Save == 0  \* the fid that asks for saving, 0xFFFFFFFF

ASSUME ConstantsAssumption ==
    /\ Fields \subseteq Nat \ {Save}
    /\ None \notin Fields \cup {Save}
    /\ Retries \in Nat
    /\ MaxEdits \in Nat
    /\ MaxLink \in Nat

VARIABLES
    value,   \* NodeField: value shown to the user
    base,    \* NodeField: value of the last backup()
    vals,    \* PApxNodeRequestUpdate::_values of the upload
    left,    \* keys at _index and after it: not sent yet
    fid,     \* PApxNodeRequestUpdate::_fid
    active,  \* PApxNodeRequest::_active
    tx,      \* the sequencer: no request, about to send, answer awaited
    retry,   \* PApxNodes::_retry
    up,      \* packets to the node
    down,    \* answers of the node
    param,   \* parameters the node works with
    stored,  \* parameters the node has saved
    edits,   \* changes made by the user so far
    late,    \* an upload went on, or was given up, with a packet under way
    suspect  \* fields that may differ without anyone being told

gcsVars  == <<value, base>>
reqVars  == <<vals, left, fid, active, tx, retry>>
nodeVars == <<param, stored>>
vars == <<value, base, vals, left, fid, active, tx, retry, up, down,
          param, stored, edits, late, suspect>>

TypeOK ==
    /\ value \in [Fields -> Vals]
    /\ base \in [Fields -> Vals]
    /\ DOMAIN vals \subseteq Fields
    /\ left \subseteq DOMAIN vals
    /\ fid \in Fields \cup {Save, None}
    /\ active \in BOOLEAN
    /\ tx \in {"idle", "send", "wait"}
    /\ retry \in 0 .. Retries
    /\ \A i \in DOMAIN up : up[i].fid \in Fields \cup {Save}
    /\ \A i \in DOMAIN down : down[i] \in Fields \cup {Save}
    /\ param \in [Fields -> Vals]
    /\ stored \in [Fields -> Vals]
    /\ edits \in 0 .. MaxEdits
    /\ late \in BOOLEAN
    /\ suspect \subseteq Fields

\* The parameters have just been read from the node.
Init ==
    /\ value \in [Fields -> Vals]
    /\ base = value
    /\ vals = <<>>
    /\ left = {}
    /\ fid = None
    /\ active = FALSE
    /\ tx = "idle"
    /\ retry = 0
    /\ up = <<>>
    /\ down = <<>>
    /\ param = value
    /\ stored = value
    /\ edits = 0
    /\ late = FALSE
    /\ suspect = {}

-----------------------------------------------------------------------------
(* The user *)

\* A field is changed, also during an upload.
Edit(f, v) ==
    /\ edits < MaxEdits
    /\ value[f] # v
    /\ value' = [value EXCEPT ![f] = v]
    /\ edits' = edits + 1
    /\ suspect' = IF tx = "idle" THEN suspect ELSE suspect \cup {f}
    /\ UNCHANGED <<reqVars, nodeVars, base, up, down, late>>

Modified == {f \in Fields : value[f] # base[f]}

\* NodeItem::upload: a new upload, or one that replaces an upload that has
\* not sent anything yet.  During an upload it does nothing: the request is a
\* duplicate of the one under way.
Upload ==
    /\ Modified # {}
    /\ ~active
    /\ vals' = [f \in Modified |-> value[f]]
    /\ left' = Modified
    /\ fid' = None
    /\ tx' = "send"
    /\ retry' = Retries
    /\ UNCHANGED <<gcsVars, nodeVars, active, up, down, edits, late, suspect>>

\* The upload is over.
End ==
    /\ vals' = <<>>
    /\ left' = {}
    /\ fid' = None
    /\ active' = FALSE
    /\ tx' = "idle"

\* It is over without having been confirmed: what the node got stays there,
\* and the fields stay modified.
GiveUp ==
    /\ End
    /\ late' = (late \/ up # <<>> \/ down # <<>>)
    /\ suspect' = suspect \cup (DOMAIN vals \ left)

\* The user stops all requests.
Cancel ==
    /\ tx # "idle"
    /\ GiveUp
    /\ UNCHANGED <<gcsVars, nodeVars, retry, up, down, edits>>

-----------------------------------------------------------------------------
(* The request *)

\* The keys that are left after the packet
Rest == left \ {Min(left)}

\* A packet is put on the link.
Put(f, v) ==
    IF Len(up) < MaxLink
      THEN up' = Append(up, [fid |-> f, val |-> v]) /\ UNCHANGED suspect
      ELSE up' = up /\ suspect' = suspect \cup ({f} \ {Save})

\* PApxNodeRequestUpdate::request writes the next field, or asks to save.
Send ==
    /\ tx = "send"
    /\ IF left = {}
         THEN fid' = Save /\ left' = {} /\ Put(Save, None)
         ELSE /\ fid' = Min(left)
              /\ left' = Rest
              /\ Put(Min(left), vals[Min(left)])
    /\ active' = TRUE
    /\ tx' = "wait"
    /\ UNCHANGED <<gcsVars, nodeVars, vals, retry, down, edits, late>>

MayRetry == retry > 0

\* request_timeout with budget left: a packet is made again, and that is the
\* next field.
TimeoutRetry ==
    /\ tx = "wait"
    /\ MayRetry
    /\ retry' = retry - 1
    /\ tx' = "send"
    /\ late' = (late \/ up # <<>> \/ down # <<>>)
    /\ UNCHANGED <<gcsVars, nodeVars, vals, left, fid, active, up, down, edits,
                   suspect>>

TimeoutDrop ==
    /\ tx = "wait"
    /\ retry = 0
    /\ GiveUp
    /\ UNCHANGED <<gcsVars, nodeVars, retry, up, down, edits>>

\* PApxNodeRequestUpdate::response: the answer is the one that is awaited.
Expects(a) == active /\ a = fid

\* A slip: every answer is taken for the last one.
ConfirmedByAny(a) == base' = value

\* The answer to saving, whoever asked: NodeItem::confSaved takes the values
\* of this moment for those of the node.
Confirmed(a) ==
    IF a = Save THEN base' = value ELSE base' = base

\* A slip: the answer to saving is one of the others.
NeverDone == FALSE

\* The answer that is awaited is the last one.
Done == fid = Save

Answer ==
    /\ down # <<>>
    /\ LET a == Head(down)
       IN /\ Confirmed(a)
          /\ IF ~Expects(a) THEN UNCHANGED reqVars
             ELSE IF Done
               THEN End /\ UNCHANGED retry
               ELSE /\ tx' = "send"
                    /\ retry' = Retries
                    /\ UNCHANGED <<vals, left, fid, active>>
    /\ down' = Tail(down)
    /\ UNCHANGED <<nodeVars, value, up, edits, late, suspect>>

-----------------------------------------------------------------------------
(* The link and the node *)

\* The node takes a packet and answers it.
NodeTakes ==
    /\ up # <<>>
    /\ LET p == Head(up)
       IN IF p.fid = Save
            THEN stored' = param /\ UNCHANGED <<param, suspect>>
            ELSE /\ param' = [param EXCEPT ![p.fid] = p.val]
                 /\ suspect' = IF p.val = value[p.fid]
                                 THEN suspect \ {p.fid} ELSE suspect
                 /\ UNCHANGED stored
    /\ down' = IF Len(down) < MaxLink THEN Append(down, Head(up).fid) ELSE down
    /\ up' = Tail(up)
    /\ UNCHANGED <<gcsVars, reqVars, edits, late>>

\* A packet to the node is lost.
LoseRequest ==
    /\ up # <<>>
    /\ up' = Tail(up)
    /\ suspect' = suspect \cup ({Head(up).fid} \ {Save})
    /\ UNCHANGED <<gcsVars, reqVars, nodeVars, down, edits, late>>

LoseAnswer ==
    /\ down # <<>>
    /\ down' = Tail(down)
    /\ UNCHANGED <<gcsVars, reqVars, nodeVars, up, edits, late, suspect>>

Request == Send \/ TimeoutRetry \/ TimeoutDrop

Next ==
    \/ \E f \in Fields, v \in Vals : Edit(f, v)
    \/ Upload \/ Cancel
    \/ Request \/ Answer
    \/ NodeTakes \/ LoseRequest \/ LoseAnswer

\* The event loop fires the timers of the sequencer.
Spec == Init /\ [][Next]_vars /\ WF_vars(Request)

-----------------------------------------------------------------------------
(* Properties *)

\* "all written - request to save" (PApxNodeRequestUpdate::request): when the
\* request to save reaches the node, it has every value of the upload.
AllWritten ==
    fid = Save /\ up # <<>> /\ Head(up).fid = Save =>
        \A f \in DOMAIN vals : param[f] = vals[f]

\* With no upload running, a field shown as unmodified differs from what the
\* node has saved only if its packet was lost, or it was changed during an
\* upload, or an upload that wrote it was given up - unless answers are later
\* than the timeout.  Nothing else makes GCS and node drift apart.
DriftHasCause ==
    tx = "idle" /\ ~late => \A f \in Fields : base[f] # stored[f] => f \in suspect

\* Every upload ends.
UploadEnds == active ~> ~active
=============================================================================
