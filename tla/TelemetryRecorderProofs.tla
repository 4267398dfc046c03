---------------------- MODULE TelemetryRecorderProofs ----------------------
(***************************************************************************)
(* Proofs about TelemetryRecorder, for any facts, values and numbers of    *)
(* records, and any bounds.                                                *)
(*                                                                         *)
(* The handlers of the recorder are operators on a record s of its state,  *)
(* and so are the parts of the invariant about them.  S stands for what is *)
(* posted to the recorder.                                                 *)
(***************************************************************************)
EXTENDS TelemetryRecorder, FiniteSetTheorems, WellFoundedInduction, TLAPS

State == [recording : BOOLEAN, flightSeen : BOOLEAN, recID : Keys \cup {0},
          reqNew : BOOLEAN, pending : Seq(Items), known : Values,
          confHash : Configs \cup {None}, based : BOOLEAN, era : Nat, late : BOOLEAN,
          gaps : BOOLEAN, mute : BOOLEAN, queue : Seq(Requests)]

-----------------------------------------------------------------------------
(* The invariant *)

Own(r) == r.kind = "new" /\ r.mine

\* The recorder waits for at most one record, and has none meanwhile: its
\* request is in the queue or the answer under way.
OneInv(s, S) ==
    /\ s.reqNew => s.recID = 0
    /\ ~s.reqNew => /\ \A i \in 1 .. Len(s.queue) : ~Own(s.queue[i])
                    /\ \A i \in 1 .. Len(S) : S[i] = 0
    /\ \A i, j \in 1 .. Len(s.queue) : Own(s.queue[i]) /\ Own(s.queue[j]) => i = j
    /\ \A i, j \in 1 .. Len(S) : S[i] # 0 /\ S[j] # 0 => i = j
    /\ \A i \in 1 .. Len(s.queue), j \in 1 .. Len(S) : ~(Own(s.queue[i]) /\ S[j] # 0)

\* PendingIsAwaited, of a state of the recorder; and while the session is
\* disabled, nothing is before the request to empty the trash.
AwaitInv(s, S) ==
    /\ s.reqNew => \/ \E i \in 1 .. Len(s.queue) : Own(s.queue[i])
                   \/ \E i \in 1 .. Len(S) : S[i] # 0
                   \/ s.mute
    /\ ~enabled => 1 \in 1 .. Len(s.queue) /\ s.queue[1].kind = "trash"

\* The item x may be written into the record r, or one that r asks for.
Fits(x, r) == x.late \/ (x.era = r.era /\ x.on = r.on)

\* The item x may be sent to the record k.
Right(k, x) ==
    k # 0 /\ k \notin vanished =>
        rows[k] # None /\ rows[k].mine /\ Fits(x, rows[k])

\* What the recorder would write now
Mark(s) == Item(s, Nothing, None)

\* Whatever is sent to a record of this vehicle fits it, now and when what
\* waits is sent.
EraInv(s, S) ==
    /\ Right(s.recID, Mark(s))
    /\ \A i \in 1 .. Len(s.queue) :
          /\ s.queue[i].kind = "write" => Right(s.queue[i].id, s.queue[i].item)
          /\ Own(s.queue[i]) => /\ Fits(Mark(s), s.queue[i])
                                /\ \A j \in 1 .. Len(s.pending) : Fits(s.pending[j], s.queue[i])
    /\ \A i \in 1 .. Len(S) :
          /\ Right(S[i], Mark(s))
          /\ \A j \in 1 .. Len(s.pending) : Right(S[i], s.pending[j])

\* The item x of a request changes nothing of what is played back.
Blank(r) == r.item.vals = Nothing /\ r.item.conf = None

\* A record that is about to be the present one is empty, and will be until then.
FreshInv(s, S) ==
    /\ \A i, j \in 1 .. Len(s.queue) :
          /\ Own(s.queue[i]) /\ i < j
          /\ s.queue[j].kind = "write" /\ s.queue[j].id # 0
          => Blank(s.queue[j])
    /\ ~s.gaps => \A i \in 1 .. Len(S) : S[i] # 0 =>
          /\ rows[S[i]] # None /\ rows[S[i]].play = Nothing /\ rows[S[i]].conf = None
          /\ \A j \in 1 .. Len(s.queue) :
                s.queue[j].kind = "write" /\ s.queue[j].id = S[i] => Blank(s.queue[j])
    /\ \A j \in 1 .. Len(s.pending) : s.pending[j].conf = None

\* Of the values h[1], ..., h[n] after base, the last that is not blank is v.
Ends(h, n, base, blank, v) ==
    \/ \E i \in 1 .. n : /\ h[i] = v /\ v # blank
                         /\ \A j \in i + 1 .. n : h[j] = blank
    \/ base = v /\ \A j \in 1 .. n : h[j] = blank

\* What the requests in q, or the items in p, write of a fact into the record k,
\* and of the configuration
ValsTo(q, k, f) ==
    [i \in 1 .. Len(q) |-> IF q[i].kind = "write" /\ q[i].id = k
                           THEN q[i].item.vals[f] ELSE 0]
ConfsTo(q, k) ==
    [i \in 1 .. Len(q) |-> IF q[i].kind = "write" /\ q[i].id = k
                           THEN q[i].item.conf ELSE None]
ValsOf(p, f) == [i \in 1 .. Len(p) |-> p[i].vals[f]]

\* The present record, or the one asked for, will play back the value of f.
Plays(s, f) ==
    IF s.recID = 0
    THEN Ends(ValsOf(s.pending, f), Len(s.pending), 0, 0, s.known[f])
    ELSE Ends(ValsTo(s.queue, s.recID, f), Len(s.queue), rows[s.recID].play[f], 0,
              s.known[f])

\* ... of all facts but those in F
PlayInv(s, F) ==
    ~s.gaps => /\ s.recID # 0 => rows[s.recID] # None
               /\ s.recID # 0 \/ s.reqNew => \A f \in Facts \ F : Plays(s, f)

\* The present record will name the configuration.
ConfInv(s) ==
    s.recID # 0 /\ ~s.gaps =>
        Ends(ConfsTo(s.queue, s.recID), Len(s.queue), rows[s.recID].conf, None, s.confHash)

\* The invariant of the recorder but for the name of the configuration, in which
\* the facts F need not be played back
Sound(s, S, F) ==
    /\ s \in State /\ S \in Seq(Keys \cup {0})
    /\ OneInv(s, S)
    /\ AwaitInv(s, S)
    /\ EraInv(s, S)
    /\ FreshInv(s, S)
    /\ PlayInv(s, F)

Good(s, S, F) == Sound(s, S, F) /\ ConfInv(s)

\* The last commit is an earlier state of the same records.
SavedInv ==
    \A k \in Keys : saved[k] # None =>
        /\ rows[k] # None
        /\ saved[k].mine = rows[k].mine
        /\ saved[k].on = rows[k].on
        /\ saved[k].era = rows[k].era
        /\ saved[k].used => rows[k].used
        /\ rows[k].pure => saved[k].pure
        /\ rows[k].kept => saved[k].kept

KnownInv ==
    /\ known = mandala
    /\ confLate \/ confHash = config

IInv ==
    /\ TypeOK
    /\ Good(Now, posted, {})
    /\ SavedInv
    /\ KnownInv
    /\ OwnRecord
    /\ OneEraOneRecord

-----------------------------------------------------------------------------
(* The last of some values *)

\* A value that is blank follows.
LEMMA EndsBlank ==
    ASSUME NEW n \in Nat, NEW h, NEW g, NEW base, NEW blank, NEW v,
           \A i \in 1 .. n : g[i] = h[i],
           g[n + 1] = blank,
           Ends(h, n, base, blank, v)
    PROVE  Ends(g, n + 1, base, blank, v)
<1>1. CASE \E i \in 1 .. n : h[i] = v /\ v # blank /\ \A j \in i + 1 .. n : h[j] = blank
  <2>1. PICK i \in 1 .. n : h[i] = v /\ v # blank /\ \A j \in i + 1 .. n : h[j] = blank
        BY <1>1
  <2>2. i \in 1 .. n + 1 /\ g[i] = v
        BY <2>1
  <2>3. \A j \in i + 1 .. n + 1 : g[j] = blank
        BY <2>1
  <2> QED BY <2>1, <2>2, <2>3 DEF Ends
<1>2. CASE base = v /\ \A j \in 1 .. n : h[j] = blank
  <2>1. \A j \in 1 .. n + 1 : g[j] = blank
        BY <1>2
  <2> QED BY <1>2, <2>1 DEF Ends
<1> QED BY <1>1, <1>2 DEF Ends

\* A value that is not blank follows.
LEMMA EndsNew ==
    ASSUME NEW n \in Nat, NEW g, NEW base, NEW blank, NEW v,
           g[n + 1] = v, v # blank
    PROVE  Ends(g, n + 1, base, blank, v)
<1>1. n + 1 \in 1 .. n + 1 /\ \A j \in n + 1 + 1 .. n + 1 : g[j] = blank
      OBVIOUS
<1> QED BY <1>1 DEF Ends

\* The first value becomes the base.
LEMMA EndsTail ==
    ASSUME NEW n \in Nat, NEW h, NEW g, NEW base, NEW blank, NEW v,
           \A i \in 1 .. n : g[i] = h[i + 1],
           Ends(h, n + 1, base, blank, v)
    PROVE  Ends(g, n, IF h[1] = blank THEN base ELSE h[1], blank, v)
<1>1. CASE \E i \in 1 .. n + 1 : /\ h[i] = v /\ v # blank
                                 /\ \A j \in i + 1 .. n + 1 : h[j] = blank
  <2>1. PICK i \in 1 .. n + 1 : /\ h[i] = v /\ v # blank
                                /\ \A j \in i + 1 .. n + 1 : h[j] = blank
        BY <1>1
  <2>2. CASE i = 1
    <3>1. \A j \in 1 .. n : g[j] = blank
      <4> TAKE j \in 1 .. n
      <4>1. j + 1 \in i + 1 .. n + 1
            BY <2>2
      <4> QED BY <4>1, <2>1
    <3> QED BY <2>1, <2>2, <3>1 DEF Ends
  <2>3. CASE i # 1
    <3>1. i - 1 \in 1 .. n /\ g[i - 1] = v
          BY <2>1, <2>3
    <3>2. \A j \in (i - 1) + 1 .. n : g[j] = blank
      <4> TAKE j \in (i - 1) + 1 .. n
      <4>1. j + 1 \in i + 1 .. n + 1 /\ j \in 1 .. n
            BY <2>3
      <4> QED BY <4>1, <2>1
    <3> QED BY <2>1, <3>1, <3>2 DEF Ends
  <2> QED BY <2>2, <2>3
<1>2. CASE base = v /\ \A j \in 1 .. n + 1 : h[j] = blank
  <2>1. h[1] = blank /\ \A j \in 1 .. n : g[j] = blank
        BY <1>2
  <2> QED BY <1>2, <2>1 DEF Ends
<1> QED BY <1>1, <1>2 DEF Ends

\* Values that are blank come before.
LEMMA EndsShift ==
    ASSUME NEW m \in Nat, NEW n \in Nat, NEW h, NEW g, NEW base, NEW blank, NEW v,
           \A i \in 1 .. m : g[i] = blank,
           \A i \in 1 .. n : g[m + i] = h[i],
           Ends(h, n, base, blank, v)
    PROVE  Ends(g, m + n, base, blank, v)
<1>1. CASE \E i \in 1 .. n : h[i] = v /\ v # blank /\ \A j \in i + 1 .. n : h[j] = blank
  <2>1. PICK i \in 1 .. n : h[i] = v /\ v # blank /\ \A j \in i + 1 .. n : h[j] = blank
        BY <1>1
  <2>2. m + i \in 1 .. m + n /\ g[m + i] = v
        BY <2>1
  <2>3. \A j \in (m + i) + 1 .. m + n : g[j] = blank
    <3> TAKE j \in (m + i) + 1 .. m + n
    <3>1. j - m \in i + 1 .. n /\ j - m \in 1 .. n /\ m + (j - m) = j
          OBVIOUS
    <3>2. g[m + (j - m)] = h[j - m] /\ h[j - m] = blank
          BY <3>1, <2>1
    <3> QED BY <3>1, <3>2
  <2> QED BY <2>1, <2>2, <2>3 DEF Ends
<1>2. CASE base = v /\ \A j \in 1 .. n : h[j] = blank
  <2>1. \A j \in 1 .. m + n : g[j] = blank
    <3> TAKE j \in 1 .. m + n
    <3>1. CASE j \in 1 .. m
          BY <3>1
    <3>2. CASE j \notin 1 .. m
      <4>1. j - m \in 1 .. n /\ m + (j - m) = j
            BY <3>2
      <4>2. g[m + (j - m)] = h[j - m] /\ h[j - m] = blank
            BY <4>1, <1>2
      <4> QED BY <4>1, <4>2
    <3> QED BY <3>1, <3>2
  <2> QED BY <1>2, <2>1 DEF Ends
<1> QED BY <1>1, <1>2 DEF Ends

\* Only the values of h matter.
LEMMA EndsSame ==
    ASSUME NEW n \in Nat, NEW h, NEW g, NEW base, NEW blank, NEW v,
           \A i \in 1 .. n : g[i] = h[i],
           Ends(h, n, base, blank, v)
    PROVE  Ends(g, n, base, blank, v)
BY DEF Ends

-----------------------------------------------------------------------------
(* The types of the handlers *)

LEMMA KeysArePositive == Keys \subseteq Nat \ {0}
<1>1. Cardinality(Keys) \in Nat
      BY FS_CardinalityType, ConstantsAssumption
<1> QED BY <1>1, ConstantsAssumption

LEMMA ItemType ==
    ASSUME NEW s \in State, NEW vals \in Values, NEW conf \in Configs \cup {None}
    PROVE  Item(s, vals, conf) \in Items
BY DEF Item, Items, State

LEMMA NothingType == Nothing \in Values
BY DEF Nothing, Values

LEMMA WriteType ==
    ASSUME NEW k \in Keys \cup {0}, NEW x \in Items
    PROVE  [kind |-> "write", id |-> k, item |-> x] \in Requests
BY DEF Requests

LEMMA NewType ==
    ASSUME NEW b \in BOOLEAN, NEW on \in BOOLEAN, NEW e \in Nat
    PROVE  [kind |-> "new", mine |-> b, on |-> on, era |-> e] \in Requests
BY DEF Requests

\* What a request has
LEMMA RequestFields ==
    ASSUME NEW r \in Requests
    PROVE  /\ r.kind \in {"new", "write", "trash"}
           /\ r.kind = "new" => r.mine \in BOOLEAN /\ r.on \in BOOLEAN /\ r.era \in Nat
           /\ r.kind = "write" => r.id \in Keys \cup {0} /\ r.item \in Items
BY DEF Requests

\* A request for a record changes the queue or is lost.
LEMMA ExecFacts ==
    ASSUME NEW s \in State, NEW r \in Requests, enabled \in BOOLEAN
    PROVE  LET t == Exec(s, r)
           IN  /\ t \in State
               /\ t.recording = s.recording /\ t.flightSeen = s.flightSeen
               /\ t.recID = s.recID /\ t.reqNew = s.reqNew /\ t.pending = s.pending
               /\ t.known = s.known /\ t.confHash = s.confHash /\ t.based = s.based
               /\ t.era = s.era /\ t.late = s.late
               /\ \/ enabled /\ t.queue = Append(s.queue, r)
                             /\ t.gaps = s.gaps /\ t.mute = s.mute
                  \/ ~enabled /\ t.queue = s.queue /\ t.gaps = TRUE
                              /\ t.mute = (s.mute \/ r.kind = "new")
<1>1. CASE enabled
  <2> DEFINE q == Append(s.queue, r)
             t == [s EXCEPT !.queue = q]
  <2>1. q \in Seq(Requests)
        BY DEF State
  <2> HIDE DEF q
  <2>2. t \in State /\ t.queue = q
        BY <2>1 DEF State
  <2>3. /\ t.recording = s.recording /\ t.flightSeen = s.flightSeen
        /\ t.recID = s.recID /\ t.reqNew = s.reqNew /\ t.pending = s.pending
        /\ t.known = s.known /\ t.confHash = s.confHash /\ t.based = s.based
        /\ t.era = s.era /\ t.late = s.late /\ t.gaps = s.gaps /\ t.mute = s.mute
        BY DEF State
  <2>4. Exec(s, r) = t
        BY <1>1 DEF Exec, q
  <2> HIDE DEF t
  <2> QED BY <1>1, <2>2, <2>3, <2>4 DEF q
<1>2. CASE ~enabled
  <2> DEFINE m == s.mute \/ r.kind = "new"
             t == [s EXCEPT !.gaps = TRUE, !.mute = m]
  <2>1. m \in BOOLEAN
        OBVIOUS
  <2> HIDE DEF m
  <2>2. t \in State /\ t.gaps = TRUE /\ t.mute = m
        BY <2>1 DEF State
  <2>3. /\ t.recording = s.recording /\ t.flightSeen = s.flightSeen
        /\ t.recID = s.recID /\ t.reqNew = s.reqNew /\ t.pending = s.pending
        /\ t.known = s.known /\ t.confHash = s.confHash /\ t.based = s.based
        /\ t.era = s.era /\ t.late = s.late /\ t.queue = s.queue
        BY DEF State
  <2>4. Exec(s, r) = t
        BY <1>2 DEF Exec, m
  <2> HIDE DEF t
  <2> QED BY <1>2, <2>2, <2>3, <2>4 DEF m
<1> QED BY <1>1, <1>2

LEMMA ResetFacts ==
    ASSUME NEW s \in State
    PROVE  LET t == Reset(s)
           IN  /\ t \in State
               /\ t.recording = s.recording /\ t.flightSeen = s.flightSeen
               /\ t.recID = 0 /\ t.reqNew = s.reqNew /\ t.pending = s.pending
               /\ t.known = s.known /\ t.confHash = s.confHash
               /\ t.late = (s.late \/ s.reqNew)
               /\ t.gaps = s.gaps /\ t.mute = s.mute /\ t.queue = s.queue
<1> DEFINE l == s.late \/ s.reqNew
           t == [s EXCEPT !.recID = 0, !.based = FALSE, !.era = @ + 1, !.late = l]
<1>1. l \in BOOLEAN
      OBVIOUS
<1> HIDE DEF l
<1>2. t.recID = 0 /\ t.late = l
      BY DEF State
<1>3. t \in State
  <2>1. s.era + 1 \in Nat
        BY DEF State
  <2> QED BY <1>1, <2>1 DEF State
<1>4. /\ t.recording = s.recording /\ t.flightSeen = s.flightSeen
      /\ t.reqNew = s.reqNew /\ t.pending = s.pending
      /\ t.known = s.known /\ t.confHash = s.confHash
      /\ t.gaps = s.gaps /\ t.mute = s.mute /\ t.queue = s.queue
      BY DEF State
<1>5. Reset(s) = t
      BY DEF Reset, l
<1> HIDE DEF t
<1> QED BY <1>2, <1>3, <1>4, <1>5 DEF l

LEMMA SwitchFacts ==
    ASSUME NEW s \in State, NEW on \in BOOLEAN
    PROVE  LET t == Switch(s, on)
           IN  /\ t \in State
               /\ t.flightSeen = s.flightSeen
               /\ t.recID = 0 /\ t.reqNew = s.reqNew /\ t.pending = s.pending
               /\ t.known = s.known /\ t.confHash = s.confHash
               /\ t.late = (s.late \/ s.reqNew)
               /\ t.gaps = s.gaps /\ t.mute = s.mute /\ t.queue = s.queue
BY ResetFacts DEF Switch, State

LEMMA NewRecordFacts ==
    ASSUME NEW s \in State, NEW values \in Values, enabled \in BOOLEAN
    PROVE  LET t == NewRecord(s, values)
               r == [kind |-> "new", mine |-> TRUE, on |-> s.recording, era |-> s.era]
           IN  /\ t \in State
               /\ t.recording = s.recording /\ t.flightSeen = s.flightSeen
               /\ t.recID = s.recID /\ t.reqNew = TRUE
               /\ t.known = values /\ t.confHash = s.confHash /\ t.based = s.based
               /\ t.era = s.era /\ t.late = FALSE
               /\ \E x \in Items :
                     /\ t.pending = <<x>>
                     /\ x.vals = values /\ x.conf = None /\ x.on = s.recording
                     /\ x.era = s.era /\ x.late = FALSE
               /\ \/ enabled /\ t.queue = Append(s.queue, r)
                             /\ t.gaps = FALSE /\ t.mute = s.mute
                  \/ ~enabled /\ t.queue = s.queue /\ t.gaps = TRUE /\ t.mute = TRUE
<1> DEFINE u == [s EXCEPT !.reqNew = TRUE, !.known = values, !.late = FALSE, !.gaps = FALSE]
           x == Item(u, values, None)
           w == [u EXCEPT !.pending = <<x>>]
           r == [kind |-> "new", mine |-> TRUE, on |-> s.recording, era |-> s.era]
<1>1. /\ u \in State
      /\ u.recording = s.recording /\ u.flightSeen = s.flightSeen
      /\ u.recID = s.recID /\ u.reqNew = TRUE /\ u.known = values
      /\ u.confHash = s.confHash /\ u.based = s.based /\ u.era = s.era /\ u.late = FALSE
      /\ u.gaps = FALSE /\ u.mute = s.mute /\ u.queue = s.queue
      BY DEF State
<1>2. /\ x \in Items
      /\ x.vals = values /\ x.conf = None /\ x.on = s.recording
      /\ x.era = s.era /\ x.late = FALSE
      BY <1>1, ItemType DEF Item
<1>3. <<x>> \in Seq(Items)
      BY <1>2
<1> HIDE DEF u, x
<1>4. /\ w \in State /\ w.pending = <<x>>
      /\ w.recording = s.recording /\ w.flightSeen = s.flightSeen
      /\ w.recID = s.recID /\ w.reqNew = TRUE /\ w.known = values
      /\ w.confHash = s.confHash /\ w.based = s.based /\ w.era = s.era /\ w.late = FALSE
      /\ w.gaps = FALSE /\ w.mute = s.mute /\ w.queue = s.queue
      BY <1>1, <1>3 DEF State
<1>5. r \in Requests /\ r.kind = "new"
      BY NewType DEF State
<1>6. NewRecord(s, values) = Exec(w, r)
      BY DEF NewRecord, u, x
<1> HIDE DEF w, r
<1> DEFINE t == Exec(w, r)
<1>7. /\ t \in State
      /\ t.recording = s.recording /\ t.flightSeen = s.flightSeen
      /\ t.recID = s.recID /\ t.reqNew = TRUE
      /\ t.known = values /\ t.confHash = s.confHash /\ t.based = s.based
      /\ t.era = s.era /\ t.late = FALSE /\ t.pending = <<x>>
      BY <1>4, <1>5, ExecFacts
<1>8. \/ enabled /\ t.queue = Append(s.queue, r) /\ t.gaps = FALSE /\ t.mute = s.mute
      \/ ~enabled /\ t.queue = s.queue /\ t.gaps = TRUE /\ t.mute = TRUE
  <2>1. (w.mute \/ r.kind = "new") = TRUE
        BY <1>5
  <2>2. \/ enabled /\ t.queue = Append(w.queue, r) /\ t.gaps = w.gaps /\ t.mute = w.mute
        \/ ~enabled /\ t.queue = w.queue /\ t.gaps = TRUE
                    /\ t.mute = (w.mute \/ r.kind = "new")
        BY <1>4, <1>5, ExecFacts
  <2> HIDE DEF t
  <2> QED BY <1>4, <2>1, <2>2
<1> HIDE DEF t
<1>9. NewRecord(s, values) = t
      BY <1>6 DEF t
<1> QED BY <1>2, <1>7, <1>8, <1>9 DEF r

LEMMA WriteFacts ==
    ASSUME NEW s \in State, NEW vals \in Values, NEW conf \in Configs \cup {None},
           enabled \in BOOLEAN
    PROVE  LET t == Write(s, vals, conf)
               x == Item(s, vals, conf)
               r == [kind |-> "write", id |-> s.recID, item |-> x]
           IN  /\ t \in State
               /\ t.recording = s.recording /\ t.flightSeen = s.flightSeen
               /\ t.recID = s.recID /\ t.reqNew = s.reqNew
               /\ t.known = s.known /\ t.confHash = s.confHash /\ t.based = s.based
               /\ t.era = s.era /\ t.late = s.late /\ t.mute = s.mute
               /\ \/ s.recID = 0 /\ t.pending = Append(s.pending, x)
                                 /\ t.queue = s.queue /\ t.gaps = s.gaps
                  \/ s.recID # 0 /\ t.pending = s.pending
                     /\ \/ enabled /\ t.queue = Append(s.queue, r) /\ t.gaps = s.gaps
                        \/ ~enabled /\ t.queue = s.queue /\ t.gaps = TRUE
<1> DEFINE t == Write(s, vals, conf)
           x == Item(s, vals, conf)
           r == [kind |-> "write", id |-> s.recID, item |-> x]
<1>1. x \in Items
      BY ItemType
<1> HIDE DEF x
<1>2. CASE s.recID = 0
  <2> DEFINE p == Append(s.pending, x)
             u == [s EXCEPT !.pending = p]
  <2>1. p \in Seq(Items)
        BY <1>1 DEF State
  <2>2. t = u
        BY <1>2 DEF Write, x
  <2> HIDE DEF p, t
  <2>3. u \in State /\ u.pending = p
        BY <2>1 DEF State
  <2>4. /\ u.recording = s.recording /\ u.flightSeen = s.flightSeen
        /\ u.recID = s.recID /\ u.reqNew = s.reqNew
        /\ u.known = s.known /\ u.confHash = s.confHash /\ u.based = s.based
        /\ u.era = s.era /\ u.late = s.late /\ u.mute = s.mute
        /\ u.queue = s.queue /\ u.gaps = s.gaps
        BY DEF State
  <2> HIDE DEF u
  <2> QED BY <1>2, <2>2, <2>3, <2>4 DEF p, t, x
<1>3. CASE s.recID # 0
  <2>1. t = Exec(s, r)
        BY <1>3 DEF Write, x
  <2>2. r \in Requests /\ r.kind # "new"
        BY <1>1, WriteType DEF State
  <2> HIDE DEF r, t
  <2>3. /\ t \in State
        /\ t.recording = s.recording /\ t.flightSeen = s.flightSeen
        /\ t.recID = s.recID /\ t.reqNew = s.reqNew /\ t.pending = s.pending
        /\ t.known = s.known /\ t.confHash = s.confHash /\ t.based = s.based
        /\ t.era = s.era /\ t.late = s.late
        BY <2>1, <2>2, ExecFacts
  <2>4. (s.mute \/ r.kind = "new") = s.mute
        BY <2>2 DEF State
  <2>5. /\ t.mute = s.mute
        /\ \/ enabled /\ t.queue = Append(s.queue, r) /\ t.gaps = s.gaps
           \/ ~enabled /\ t.queue = s.queue /\ t.gaps = TRUE
        BY <2>1, <2>2, <2>4, ExecFacts
  <2> QED BY <1>3, <2>3, <2>5 DEF r, t, x
<1> QED BY <1>2, <1>3

-----------------------------------------------------------------------------
(* What the parts of the handlers keep of the invariant *)

\* Neither the state of the flight nor the base of the time matters.
LEMMA SameGood ==
    ASSUME NEW S, NEW F, NEW s, NEW t \in State, Good(s, S, F),
           t.recording = s.recording, t.recID = s.recID, t.reqNew = s.reqNew,
           t.pending = s.pending, t.known = s.known, t.confHash = s.confHash,
           t.era = s.era, t.late = s.late, t.gaps = s.gaps, t.mute = s.mute,
           t.queue = s.queue
    PROVE  Good(t, S, F)
<1>1. OneInv(t, S) /\ AwaitInv(t, S)
      BY DEF Good, Sound, OneInv, AwaitInv
<1>2. Mark(t) = Mark(s)
      BY DEF Mark, Item
<1>3. EraInv(t, S)
      BY <1>2 DEF Good, Sound, EraInv
<1>4. FreshInv(t, S)
      BY DEF Good, Sound, FreshInv
<1>5. PlayInv(t, F)
      BY DEF Good, Sound, PlayInv, Plays
<1>6. ConfInv(t)
      BY DEF Good, Sound, ConfInv
<1> QED BY <1>1, <1>3, <1>4, <1>5, <1>6 DEF Good, Sound

\* The record is given up; what is sampled from now on is late, if a record
\* has been asked for.
LEMMA RestartGood ==
    ASSUME NEW S, NEW F, NEW s, NEW t \in State, Good(s, S, F),
           t.recID = 0, t.reqNew = s.reqNew,
           t.pending = s.pending, t.known = s.known, t.confHash = s.confHash,
           t.late = (s.late \/ s.reqNew), t.gaps = s.gaps, t.mute = s.mute,
           t.queue = s.queue
    PROVE  Good(t, S, F)
<1>1. OneInv(t, S) /\ AwaitInv(t, S)
      BY DEF Good, Sound, OneInv, AwaitInv
<1>2. EraInv(t, S)
  <2>1. Right(t.recID, Mark(t))
        BY DEF Right
  <2>2. s.reqNew => \A r : Fits(Mark(t), r)
        BY DEF Fits, Mark, Item
  <2>3. ASSUME NEW i \in 1 .. Len(t.queue)
        PROVE  /\ t.queue[i].kind = "write" => Right(t.queue[i].id, t.queue[i].item)
               /\ Own(t.queue[i]) => /\ Fits(Mark(t), t.queue[i])
                                     /\ \A j \in 1 .. Len(t.pending) : Fits(t.pending[j], t.queue[i])
    <3>1. Own(t.queue[i]) => s.reqNew
          BY DEF Good, Sound, OneInv
    <3> QED BY <2>2, <3>1 DEF Good, Sound, EraInv
  <2>4. ASSUME NEW i \in 1 .. Len(S)
        PROVE  /\ Right(S[i], Mark(t))
               /\ \A j \in 1 .. Len(t.pending) : Right(S[i], t.pending[j])
    <3>1. S[i] # 0 => s.reqNew
          BY DEF Good, Sound, OneInv
    <3> QED BY <2>2, <3>1 DEF Good, Sound, EraInv, Right
  <2> QED BY <2>1, <2>3, <2>4 DEF EraInv
<1>3. FreshInv(t, S)
      BY DEF Good, Sound, FreshInv
<1>4. PlayInv(t, F)
      BY DEF Good, Sound, PlayInv, Plays, OneInv
<1>5. ConfInv(t)
      BY DEF ConfInv
<1> QED BY <1>1, <1>2, <1>3, <1>4, <1>5 DEF Good, Sound

\* A record is asked for.
LEMMA NewRecordGood ==
    ASSUME NEW S, NEW F, NEW s, Good(s, S, F), enabled \in BOOLEAN,
           NEW values \in Values,
           s.recID = 0, ~s.reqNew
    PROVE  Good(NewRecord(s, values), S, {})
<1> DEFINE t == NewRecord(s, values)
           r == [kind |-> "new", mine |-> TRUE, on |-> s.recording, era |-> s.era]
<1>1. /\ t \in State
      /\ t.recording = s.recording /\ t.recID = s.recID /\ t.reqNew = TRUE
      /\ t.known = values /\ t.confHash = s.confHash
      /\ t.era = s.era /\ t.late = FALSE
      BY NewRecordFacts DEF Good, Sound
<1>2. PICK x \in Items : /\ t.pending = <<x>>
                         /\ x.vals = values /\ x.conf = None /\ x.on = s.recording
                         /\ x.era = s.era /\ x.late = FALSE
      BY NewRecordFacts DEF Good, Sound
<1>3. \/ enabled /\ t.queue = Append(s.queue, r)
                 /\ t.gaps = FALSE /\ t.mute = s.mute
      \/ ~enabled /\ t.queue = s.queue /\ t.gaps = TRUE /\ t.mute = TRUE
      BY NewRecordFacts DEF Good, Sound
<1>4. r.kind = "new" /\ r.mine /\ r.on = s.recording /\ r.era = s.era
      OBVIOUS
<1> HIDE DEF t, r
<1>5. s \in State /\ s.queue \in Seq(Requests) /\ S \in Seq(Keys \cup {0})
      BY DEF Good, Sound, State
<1>6. /\ \A i \in 1 .. Len(s.queue) : ~Own(s.queue[i])
      /\ \A i \in 1 .. Len(S) : S[i] = 0
      BY DEF Good, Sound, OneInv
<1>7. /\ Len(s.queue) \in Nat
      /\ \A i \in 1 .. Len(s.queue) : i \in 1 .. Len(t.queue) /\ t.queue[i] = s.queue[i]
      BY <1>3, <1>5
<1>8. \/ Len(t.queue) = Len(s.queue) + 1 /\ t.queue[Len(s.queue) + 1] = r /\ enabled
      \/ Len(t.queue) = Len(s.queue) /\ t.gaps /\ t.mute
      BY <1>3, <1>5
<1>9. Own(r)
      BY <1>4 DEF Own
<1>10. \A i \in 1 .. Len(t.queue) :
           \/ i \in 1 .. Len(s.queue) /\ t.queue[i] = s.queue[i] /\ ~Own(t.queue[i])
           \/ i = Len(s.queue) + 1 /\ i = Len(t.queue) /\ t.queue[i] = r
       BY <1>6, <1>7, <1>8
<1>11. OneInv(t, S)
       BY <1>1, <1>5, <1>6, <1>10, s.recID = 0 DEF OneInv
<1>12. AwaitInv(t, S)
  <2> SUFFICES (\E i \in 1 .. Len(t.queue) : Own(t.queue[i])) \/ t.mute
    <3>1. ~enabled => t.queue = s.queue
          BY <1>3
    <3> QED BY <3>1 DEF AwaitInv, Good, Sound
  <2>1. CASE Len(t.queue) = Len(s.queue) + 1 /\ t.queue[Len(s.queue) + 1] = r
    <3>1. Len(s.queue) + 1 \in 1 .. Len(t.queue)
          BY <2>1, <1>7
    <3> QED BY <3>1, <2>1, <1>9
  <2>2. CASE t.mute
        BY <2>2
  <2> QED BY <2>1, <2>2, <1>8
<1>13. EraInv(t, S)
  <2>1. Right(t.recID, Mark(t))
        BY <1>1 DEF Right
  <2>2. ASSUME NEW i \in 1 .. Len(t.queue)
        PROVE  /\ t.queue[i].kind = "write" => Right(t.queue[i].id, t.queue[i].item)
               /\ Own(t.queue[i]) => /\ Fits(Mark(t), t.queue[i])
                                     /\ \A j \in 1 .. Len(t.pending) : Fits(t.pending[j], t.queue[i])
    <3>1. CASE i \in 1 .. Len(s.queue) /\ t.queue[i] = s.queue[i] /\ ~Own(t.queue[i])
          BY <3>1 DEF Good, Sound, EraInv
    <3>2. CASE t.queue[i] = r
      <4>1. Fits(Mark(t), r)
            BY <1>1, <1>4 DEF Fits, Mark, Item
      <4>2. Fits(x, r)
            BY <1>2, <1>4 DEF Fits
      <4>3. \A j \in 1 .. Len(t.pending) : t.pending[j] = x
            BY <1>2
      <4> QED BY <3>2, <4>1, <4>2, <4>3, <1>4
    <3> QED BY <3>1, <3>2, <1>10
  <2>3. \A i \in 1 .. Len(S) : /\ Right(S[i], Mark(t))
                               /\ \A j \in 1 .. Len(t.pending) : Right(S[i], t.pending[j])
        BY <1>6 DEF Right
  <2> QED BY <2>1, <2>2, <2>3 DEF EraInv
<1>14. FreshInv(t, S)
  <2>1. ASSUME NEW i \in 1 .. Len(t.queue), NEW j \in 1 .. Len(t.queue),
               Own(t.queue[i]), i < j
        PROVE  FALSE
        BY <2>1, <1>7, <1>10
  <2>2. \A j \in 1 .. Len(t.pending) : t.pending[j].conf = None
        BY <1>2
  <2> QED BY <2>1, <2>2, <1>6 DEF FreshInv
<1>15. PlayInv(t, {})
  <2>1. ASSUME NEW f \in Facts
        PROVE  Ends(ValsOf(t.pending, f), Len(t.pending), 0, 0, t.known[f])
    <3> DEFINE h == ValsOf(t.pending, f)
    <3>1. Len(t.pending) = 1 /\ h[1] = x.vals[f]
          BY <1>2 DEF ValsOf
    <3>2. h[1] = t.known[f]
          BY <1>1, <1>2, <3>1
    <3> HIDE DEF h
    <3>3. CASE h[1] = 0
      <4>1. \A j \in 1 .. 1 : h[j] = 0
            BY <3>3
      <4> QED BY <3>1, <3>2, <3>3, <4>1 DEF Ends, h
    <3>4. CASE h[1] # 0
      <4>1. Ends(h, 0 + 1, 0, 0, t.known[f])
            BY <3>2, <3>4, EndsNew
      <4> QED BY <4>1, <3>1 DEF h
    <3> QED BY <3>3, <3>4
  <2> QED BY <2>1, <1>1, s.recID = 0 DEF PlayInv, Plays
<1>16. ConfInv(t)
       BY <1>1 DEF ConfInv
<1> QED BY <1>1, <1>5, <1>11, <1>12, <1>13, <1>14, <1>15, <1>16 DEF Good, Sound, t

\* The first of what waits is dropped.
LEMMA DropGood ==
    ASSUME NEW S, NEW F, NEW s, Good(s, S, F), s.recID = 0, s.pending # <<>>
    PROVE  Good([s EXCEPT !.pending = Tail(@), !.gaps = TRUE], S, F)
<1> DEFINE p == Tail(s.pending)
           t == [s EXCEPT !.pending = p, !.gaps = TRUE]
<1>1. s \in State /\ s.pending \in Seq(Items) /\ S \in Seq(Keys \cup {0})
      BY DEF Good, Sound, State
<1>2. /\ p \in Seq(Items)
      /\ \A j \in 1 .. Len(p) : j + 1 \in 1 .. Len(s.pending) /\ p[j] = s.pending[j + 1]
      BY <1>1
<1> HIDE DEF p
<1>3. t \in State /\ t.pending = p /\ t.gaps = TRUE
      BY <1>1, <1>2 DEF State
<1>4. /\ t.recording = s.recording /\ t.recID = s.recID /\ t.reqNew = s.reqNew
      /\ t.known = s.known /\ t.confHash = s.confHash
      /\ t.era = s.era /\ t.late = s.late /\ t.mute = s.mute /\ t.queue = s.queue
      BY <1>1 DEF State
<1>5. [s EXCEPT !.pending = Tail(@), !.gaps = TRUE] = t
      BY DEF p
<1> HIDE DEF t
<1>6. OneInv(t, S) /\ AwaitInv(t, S)
      BY <1>4 DEF Good, Sound, OneInv, AwaitInv
<1>7. Mark(t) = Mark(s)
      BY <1>4 DEF Mark, Item
<1>8. EraInv(t, S)
      BY <1>2, <1>3, <1>4, <1>7 DEF Good, Sound, EraInv
<1>9. FreshInv(t, S)
  <2>1. \A j \in 1 .. Len(t.pending) : t.pending[j].conf = None
        BY <1>2, <1>3 DEF Good, Sound, FreshInv
  <2> QED BY <2>1, <1>3, <1>4 DEF Good, Sound, FreshInv
<1>10. PlayInv(t, F) /\ ConfInv(t)
       BY <1>3 DEF PlayInv, ConfInv
<1> QED BY <1>1, <1>3, <1>5, <1>6, <1>8, <1>9, <1>10 DEF Good, Sound

\* Something is lost.
LEMMA LossGood ==
    ASSUME NEW S, NEW F, NEW s, NEW t \in State, Sound(s, S, F),
           t.recording = s.recording, t.recID = s.recID, t.reqNew = s.reqNew,
           t.pending = s.pending,
           t.era = s.era, t.late = s.late, t.gaps = TRUE, s.mute => t.mute,
           t.queue = s.queue
    PROVE  \A G : Good(t, S, G)
<1>1. OneInv(t, S) /\ AwaitInv(t, S)
      BY DEF Sound, OneInv, AwaitInv
<1>2. Mark(t) = Mark(s)
      BY DEF Mark, Item
<1>3. EraInv(t, S)
      BY <1>2 DEF Sound, EraInv
<1>4. FreshInv(t, S)
      BY DEF Sound, FreshInv
<1>5. ConfInv(t) /\ \A G : PlayInv(t, G)
      BY DEF PlayInv, ConfInv
<1> QED BY <1>1, <1>3, <1>4, <1>5 DEF Good, Sound

\* The requests in the queue and one more
LEMMA AppendFacts ==
    ASSUME NEW T, NEW q \in Seq(T), NEW r \in T
    PROVE  /\ Len(q) \in Nat
           /\ Append(q, r) \in Seq(T) /\ Len(Append(q, r)) = Len(q) + 1
           /\ Append(q, r)[Len(q) + 1] = r
           /\ \A i \in 1 .. Len(q) : Append(q, r)[i] = q[i]
           /\ \A i \in 1 .. Len(q) + 1 : i \in 1 .. Len(q) \/ i = Len(q) + 1
OBVIOUS

\* The values that f has in what waits, and in what is written into the record
\* k, when something is added
LEMMA ValsOfAppend ==
    ASSUME NEW p \in Seq(Items), NEW x \in Items, NEW f \in Facts, NEW v, NEW w,
           Ends(ValsOf(p, f), Len(p), 0, 0, v) \/ x.vals[f] # 0,
           x.vals[f] = 0 => w = v, x.vals[f] # 0 => w = x.vals[f]
    PROVE  Ends(ValsOf(Append(p, x), f), Len(p) + 1, 0, 0, w)
<1> DEFINE h == ValsOf(p, f)
           g == ValsOf(Append(p, x), f)
<1>1. /\ Len(p) \in Nat
      /\ \A i \in 1 .. Len(p) : g[i] = h[i]
      /\ g[Len(p) + 1] = x.vals[f]
      BY AppendFacts DEF ValsOf
<1> HIDE DEF h, g
<1>2. CASE x.vals[f] = 0
      BY <1>1, <1>2, EndsBlank DEF h, g
<1>3. CASE x.vals[f] # 0
  <2>1. Ends(g, Len(p) + 1, 0, 0, w)
        BY <1>1, <1>3, EndsNew
  <2> QED BY <2>1 DEF g
<1> QED BY <1>2, <1>3

LEMMA ValsToAppend ==
    ASSUME NEW q \in Seq(Requests), NEW r \in Requests, NEW k, NEW f \in Facts,
           NEW base, NEW v, NEW w,
           r.kind = "write", r.id = k,
           Ends(ValsTo(q, k, f), Len(q), base, 0, v) \/ r.item.vals[f] # 0,
           r.item.vals[f] = 0 => w = v, r.item.vals[f] # 0 => w = r.item.vals[f]
    PROVE  Ends(ValsTo(Append(q, r), k, f), Len(q) + 1, base, 0, w)
<1> DEFINE h == ValsTo(q, k, f)
           g == ValsTo(Append(q, r), k, f)
<1>1. /\ Len(q) \in Nat
      /\ \A i \in 1 .. Len(q) : g[i] = h[i]
      /\ g[Len(q) + 1] = r.item.vals[f]
      BY AppendFacts DEF ValsTo
<1> HIDE DEF h, g
<1>2. CASE r.item.vals[f] = 0
      BY <1>1, <1>2, EndsBlank DEF h, g
<1>3. CASE r.item.vals[f] # 0
  <2>1. Ends(g, Len(q) + 1, base, 0, w)
        BY <1>1, <1>3, EndsNew
  <2> QED BY <2>1 DEF g
<1> QED BY <1>2, <1>3

LEMMA ConfsToAppend ==
    ASSUME NEW q \in Seq(Requests), NEW r \in Requests, NEW k,
           NEW base, NEW v, NEW w,
           r.kind = "write", r.id = k,
           Ends(ConfsTo(q, k), Len(q), base, None, v) \/ r.item.conf # None,
           r.item.conf = None => w = v, r.item.conf # None => w = r.item.conf
    PROVE  Ends(ConfsTo(Append(q, r), k), Len(q) + 1, base, None, w)
<1> DEFINE h == ConfsTo(q, k)
           g == ConfsTo(Append(q, r), k)
<1>1. /\ Len(q) \in Nat
      /\ \A i \in 1 .. Len(q) : g[i] = h[i]
      /\ g[Len(q) + 1] = r.item.conf
      BY AppendFacts DEF ConfsTo
<1> HIDE DEF h, g
<1>2. CASE r.item.conf = None
      BY <1>1, <1>2, EndsBlank DEF h, g
<1>3. CASE r.item.conf # None
  <2>1. Ends(g, Len(q) + 1, base, None, w)
        BY <1>1, <1>3, EndsNew
  <2> QED BY <2>1 DEF g
<1> QED BY <1>2, <1>3

\* Something is sampled, or a configuration is named.
LEMMA WriteGood ==
    ASSUME NEW S, NEW F, NEW G, NEW s, Sound(s, S, F), enabled \in BOOLEAN,
           NEW vals \in Values, NEW conf \in Configs \cup {None},
           s.recID # 0 \/ s.reqNew,
           \A f \in Facts : vals[f] = 0 \/ vals[f] = s.known[f],
           \A f \in Facts : f \in F => f \in G \/ vals[f] # 0,
           \/ conf = None /\ ConfInv(s)
           \/ conf # None /\ conf = s.confHash /\ s.recID # 0
    PROVE  Good(Write(s, vals, conf), S, G)
<1> DEFINE t == Write(s, vals, conf)
           x == Item(s, vals, conf)
           r == [kind |-> "write", id |-> s.recID, item |-> x]
<1>0. s \in State
      BY DEF Sound
<1>1. /\ t \in State
      /\ t.recording = s.recording /\ t.recID = s.recID /\ t.reqNew = s.reqNew
      /\ t.known = s.known /\ t.confHash = s.confHash
      /\ t.era = s.era /\ t.late = s.late /\ t.mute = s.mute
      BY <1>0, WriteFacts
<1>2. \/ s.recID = 0 /\ t.pending = Append(s.pending, x)
                     /\ t.queue = s.queue /\ t.gaps = s.gaps
      \/ s.recID # 0 /\ t.pending = s.pending
                     /\ enabled /\ t.queue = Append(s.queue, r) /\ t.gaps = s.gaps
      \/ s.recID # 0 /\ t.pending = s.pending
                     /\ ~enabled /\ t.queue = s.queue /\ t.gaps = TRUE
  <2>1. \/ s.recID = 0 /\ t.pending = Append(s.pending, x)
                       /\ t.queue = s.queue /\ t.gaps = s.gaps
        \/ s.recID # 0 /\ t.pending = s.pending
           /\ \/ enabled /\ t.queue = Append(s.queue, r) /\ t.gaps = s.gaps
              \/ ~enabled /\ t.queue = s.queue /\ t.gaps = TRUE
        BY <1>0, WriteFacts
  <2> HIDE DEF t, x, r
  <2> QED BY <2>1
<1>3. /\ s \in State /\ s.queue \in Seq(Requests) /\ s.pending \in Seq(Items)
      /\ s.recID \in Keys \cup {0}
      BY DEF Sound, State
<1>4. x \in Items /\ x.vals = vals /\ x.conf = conf
      BY <1>3, ItemType DEF Item
<1>5. r \in Requests /\ r.kind = "write" /\ r.id = s.recID /\ r.item = x /\ ~Own(r)
      BY <1>3, <1>4, WriteType DEF Own
<1>6. Mark(t) = Mark(s) /\ \A y : Fits(x, y) <=> Fits(Mark(s), y)
      BY <1>1 DEF Mark, Item, Fits
<1> HIDE DEF t, x, r
<1>7. CASE s.recID = 0 /\ t.pending = Append(s.pending, x)
                       /\ t.queue = s.queue /\ t.gaps = s.gaps
  <2>1. s.reqNew /\ conf = None
        BY <1>7
  <2>2. /\ \A j \in 1 .. Len(s.pending) : t.pending[j] = s.pending[j]
        /\ \A j \in 1 .. Len(t.pending) : j \in 1 .. Len(s.pending) \/ t.pending[j] = x
        /\ Len(t.pending) = Len(s.pending) + 1
        BY <1>3, <1>4, <1>7, AppendFacts
  <2>3. OneInv(t, S) /\ AwaitInv(t, S)
        BY <1>1, <1>7 DEF Sound, OneInv, AwaitInv
  <2>4. EraInv(t, S)
    <3>1. ASSUME NEW i \in 1 .. Len(t.queue), Own(t.queue[i]), NEW j \in 1 .. Len(t.pending)
          PROVE  Fits(t.pending[j], t.queue[i])
          BY <3>1, <1>6, <1>7, <2>2 DEF Sound, EraInv
    <3>2. ASSUME NEW i \in 1 .. Len(S), NEW j \in 1 .. Len(t.pending)
          PROVE  Right(S[i], t.pending[j])
          BY <1>6, <1>7, <2>2 DEF Sound, EraInv, Right
    <3> QED BY <3>1, <3>2, <1>1, <1>6, <1>7 DEF Sound, EraInv
  <2>5. FreshInv(t, S)
    <3>1. \A j \in 1 .. Len(t.pending) : t.pending[j].conf = None
          BY <2>1, <2>2, <1>4 DEF Sound, FreshInv
    <3> QED BY <3>1, <1>7 DEF Sound, FreshInv
  <2>6. PlayInv(t, G)
    <3> SUFFICES ASSUME ~s.gaps, NEW f \in Facts \ G
                 PROVE  Ends(ValsOf(t.pending, f), Len(t.pending), 0, 0, t.known[f])
        BY <1>1, <1>7 DEF PlayInv, Plays
    <3>1. f \notin F => Ends(ValsOf(s.pending, f), Len(s.pending), 0, 0, s.known[f])
          BY <1>7, <2>1 DEF Sound, PlayInv, Plays
    <3>2. f \in F => x.vals[f] # 0
          BY <1>4
    <3>3. x.vals[f] # 0 => s.known[f] = x.vals[f]
          BY <1>4
    <3>4. Ends(ValsOf(Append(s.pending, x), f), Len(s.pending) + 1, 0, 0, s.known[f])
          BY <3>1, <3>2, <3>3, <1>3, <1>4, ValsOfAppend
    <3> QED BY <3>4, <1>1, <1>7, <2>2
  <2>7. ConfInv(t)
        BY <1>1, <1>7 DEF ConfInv
  <2> QED BY <1>1, <2>3, <2>4, <2>5, <2>6, <2>7 DEF Good, Sound, t
<1>8. CASE s.recID # 0 /\ t.pending = s.pending
                       /\ enabled /\ t.queue = Append(s.queue, r) /\ t.gaps = s.gaps
  <2>1. ~s.reqNew
        BY <1>8 DEF Sound, OneInv
  <2>2. /\ \A i \in 1 .. Len(s.queue) : ~Own(s.queue[i])
        /\ \A i \in 1 .. Len(S) : S[i] = 0
        BY <2>1 DEF Sound, OneInv
  <2>3. /\ \A j \in 1 .. Len(s.queue) : t.queue[j] = s.queue[j]
        /\ \A j \in 1 .. Len(t.queue) : j \in 1 .. Len(s.queue) \/ t.queue[j] = r
        /\ Len(t.queue) = Len(s.queue) + 1
        BY <1>3, <1>5, <1>8, AppendFacts
  <2>4. \A j \in 1 .. Len(t.queue) : ~Own(t.queue[j])
        BY <2>2, <2>3, <1>5
  <2>5. OneInv(t, S) /\ AwaitInv(t, S)
        BY <1>1, <1>8, <2>1, <2>2, <2>4 DEF OneInv, AwaitInv
  <2>6. EraInv(t, S)
    <3>1. Right(t.recID, Mark(t)) /\ Right(s.recID, x)
          BY <1>1, <1>6 DEF Sound, EraInv, Right
    <3>2. ASSUME NEW i \in 1 .. Len(t.queue), t.queue[i].kind = "write"
          PROVE  Right(t.queue[i].id, t.queue[i].item)
          BY <3>1, <3>2, <1>5, <2>3 DEF Sound, EraInv
    <3> QED BY <3>1, <3>2, <2>2, <2>4 DEF EraInv, Right
  <2>7. FreshInv(t, S)
        BY <1>8, <2>2, <2>4 DEF Sound, FreshInv
  <2>8. PlayInv(t, G)
    <3> SUFFICES ASSUME ~s.gaps
                 PROVE  /\ rows[s.recID] # None
                        /\ \A f \in Facts \ G :
                              Ends(ValsTo(t.queue, s.recID, f), Len(t.queue),
                                   rows[s.recID].play[f], 0, s.known[f])
        BY <1>1, <1>8 DEF PlayInv, Plays
    <3>1. rows[s.recID] # None
          BY <1>8 DEF Sound, PlayInv
    <3>2. ASSUME NEW f \in Facts \ G
          PROVE  Ends(ValsTo(t.queue, s.recID, f), Len(t.queue),
                      rows[s.recID].play[f], 0, s.known[f])
      <4>1. f \notin F => Ends(ValsTo(s.queue, s.recID, f), Len(s.queue),
                               rows[s.recID].play[f], 0, s.known[f])
            BY <1>8 DEF Sound, PlayInv, Plays
      <4>2. f \in F => r.item.vals[f] # 0
            BY <1>4, <1>5
      <4>3. r.item.vals[f] # 0 => r.item.vals[f] = s.known[f]
            BY <1>4, <1>5
      <4> QED BY <4>1, <4>2, <4>3, <1>3, <1>5, <1>8, <2>3, ValsToAppend
    <3> QED BY <3>1, <3>2
  <2>9. ConfInv(t)
    <3> SUFFICES ASSUME ~s.gaps
                 PROVE  Ends(ConfsTo(t.queue, s.recID), Len(t.queue),
                             rows[s.recID].conf, None, s.confHash)
        BY <1>1, <1>8 DEF ConfInv
    <3>1. conf = None => Ends(ConfsTo(s.queue, s.recID), Len(s.queue),
                              rows[s.recID].conf, None, s.confHash)
          BY <1>8 DEF ConfInv
    <3> QED BY <3>1, <1>3, <1>4, <1>5, <1>8, <2>3, ConfsToAppend
  <2> QED BY <1>1, <2>5, <2>6, <2>7, <2>8, <2>9 DEF Good, Sound, t
<1>9. CASE s.recID # 0 /\ t.pending = s.pending
                       /\ ~enabled /\ t.queue = s.queue /\ t.gaps = TRUE
  <2>1. Good(t, S, G)
        BY <1>1, <1>9, LossGood
  <2> QED BY <2>1 DEF t
<1> QED BY <1>2, <1>7, <1>8, <1>9 DEF t

-----------------------------------------------------------------------------
(* dbCheckRecord() *)

\* The vehicle takes off or not.
LEMMA AutoFacts ==
    ASSUME NEW S, NEW F, NEW s, Good(s, S, F), NEW tele \in BOOLEAN, NEW fly \in BOOLEAN
    PROVE  LET t == CheckAutoRecord(s, tele, fly)
           IN  /\ Good(t, S, F)
               /\ t.reqNew = s.reqNew /\ t.pending = s.pending /\ t.known = s.known
               /\ t.confHash = s.confHash /\ t.gaps = s.gaps /\ t.mute = s.mute
               /\ t.queue = s.queue
               /\ tele => t.flightSeen = fly
               /\ \/ t.recID = 0
                  \/ /\ t.recID = s.recID /\ t.recording = s.recording
                     /\ t.era = s.era /\ t.late = s.late
               /\ ~tele \/ s.flightSeen = fly => t = s
<1> DEFINE t == CheckAutoRecord(s, tele, fly)
           u == [s EXCEPT !.flightSeen = fly]
<1>1. s \in State
      BY DEF Good, Sound
<1>2. CASE ~tele \/ s.flightSeen = fly
  <2>1. t = s
        BY <1>2 DEF CheckAutoRecord
  <2> HIDE DEF t
  <2> QED BY <2>1, <1>2 DEF t
<1>3. CASE tele /\ s.flightSeen # fly
  <2>1. /\ u \in State /\ u.flightSeen = fly
        /\ u.recording = s.recording /\ u.recID = s.recID /\ u.reqNew = s.reqNew
        /\ u.pending = s.pending /\ u.known = s.known /\ u.confHash = s.confHash
        /\ u.era = s.era /\ u.late = s.late /\ u.gaps = s.gaps /\ u.mute = s.mute
        /\ u.queue = s.queue
        BY <1>1 DEF State
  <2> HIDE DEF u
  <2>2. CASE fly
    <3>1. t = Switch(u, TRUE)
          BY <1>3, <2>2 DEF CheckAutoRecord, u
    <3> HIDE DEF t
    <3>2. /\ t \in State /\ t.flightSeen = u.flightSeen
          /\ t.recID = 0 /\ t.reqNew = u.reqNew /\ t.pending = u.pending
          /\ t.known = u.known /\ t.confHash = u.confHash
          /\ t.late = (u.late \/ u.reqNew)
          /\ t.gaps = u.gaps /\ t.mute = u.mute /\ t.queue = u.queue
          BY <2>1, <3>1, SwitchFacts
    <3>3. Good(u, S, F)
          BY <2>1, SameGood
    <3>4. Good(t, S, F)
          BY <3>2, <3>3, RestartGood
    <3> QED BY <1>3, <2>1, <3>2, <3>4 DEF t
  <2>3. CASE ~fly
    <3>1. t = u
          BY <1>3, <2>3 DEF CheckAutoRecord, u
    <3>2. Good(u, S, F)
          BY <2>1, SameGood
    <3> HIDE DEF t
    <3> QED BY <1>3, <2>1, <3>1, <3>2 DEF t
  <2> QED BY <2>2, <2>3
<1> QED BY <1>2, <1>3

LEMMA CheckRecordFacts ==
    ASSUME NEW S, NEW F, NEW s, Good(s, S, F), enabled \in BOOLEAN,
           NEW tele \in BOOLEAN, NEW fly \in BOOLEAN, NEW values \in Values
    PROVE  LET t == CheckRecord(s, tele, fly, values)
           IN  /\ Good(t, S, F)
               /\ t.recID # 0 \/ t.reqNew
               /\ t.recID = 0 /\ ~s.reqNew => Good(t, S, {})
               /\ t.reqNew \/ (~s.reqNew /\ t.pending = s.pending)
               /\ t.known \in {s.known, values}
               /\ t.confHash = s.confHash
               /\ tele => t.flightSeen = fly
               /\ t.recID # 0 =>
                     /\ t.recID = s.recID /\ t.recording = s.recording
                     /\ t.era = s.era /\ t.late = s.late
                     /\ t.reqNew = s.reqNew /\ t.pending = s.pending
                     /\ t.known = s.known /\ t.gaps = s.gaps /\ t.queue = s.queue
               /\ s.recID # 0 /\ (~tele \/ s.flightSeen = fly) => t = s
<1> DEFINE t == CheckRecord(s, tele, fly, values)
           c == CheckAutoRecord(s, tele, fly)
           n == IF c.reqNew THEN c ELSE NewRecord(c, values)
<1>1. /\ Good(c, S, F)
      /\ c.reqNew = s.reqNew /\ c.pending = s.pending /\ c.known = s.known
      /\ c.confHash = s.confHash /\ c.gaps = s.gaps /\ c.mute = s.mute
      /\ c.queue = s.queue
      /\ tele => c.flightSeen = fly
      /\ \/ c.recID = 0
         \/ /\ c.recID = s.recID /\ c.recording = s.recording
            /\ c.era = s.era /\ c.late = s.late
      /\ ~tele \/ s.flightSeen = fly => c = s
      BY AutoFacts
<1>2. t = IF c.recID # 0 THEN c
          ELSE IF Len(n.pending) > PendingLimit
          THEN [n EXCEPT !.pending = Tail(@), !.gaps = TRUE]
          ELSE n
      BY DEF CheckRecord
<1> HIDE DEF c, t
<1>3. CASE c.recID # 0
  <2>1. t = c
        BY <1>2, <1>3
  <2>2. ~s.reqNew
        BY <1>1, <1>3 DEF Good, Sound, OneInv
  <2> QED BY <1>1, <1>3, <2>1, <2>2 DEF t
<1>4. CASE c.recID = 0
  <2>1. c \in State
        BY <1>1 DEF Good, Sound
  <2>2. /\ Good(n, S, F) /\ n.recID = 0 /\ n.reqNew
        /\ ~s.reqNew => Good(n, S, {})
        /\ n.known \in {s.known, values} /\ n.confHash = s.confHash
        /\ n.flightSeen = c.flightSeen
    <3>1. CASE c.reqNew
          BY <1>1, <1>4, <3>1
    <3>2. CASE ~c.reqNew
      <4>1. n = NewRecord(c, values)
            BY <3>2
      <4> HIDE DEF n
      <4>2. Good(n, S, {})
            BY <1>1, <1>4, <3>2, <4>1, NewRecordGood
      <4>3. Good(n, S, F)
            BY <4>2 DEF Good, Sound, PlayInv
      <4>4. /\ n.recID = c.recID /\ n.reqNew = TRUE
            /\ n.known = values /\ n.confHash = c.confHash
            /\ n.flightSeen = c.flightSeen
            BY <2>1, <4>1, NewRecordFacts
      <4> QED BY <1>1, <1>4, <4>2, <4>3, <4>4
    <3> QED BY <3>1, <3>2
  <2> HIDE DEF n
  <2>5. /\ Good(t, S, F) /\ t.recID = 0 /\ t.reqNew
        /\ ~s.reqNew => Good(t, S, {})
        /\ t.known \in {s.known, values} /\ t.confHash = s.confHash
        /\ t.flightSeen = c.flightSeen
    <3>1. CASE Len(n.pending) > PendingLimit
      <4>1. t = [n EXCEPT !.pending = Tail(@), !.gaps = TRUE]
            BY <1>2, <1>4, <3>1
      <4>2. n \in State /\ n.pending # <<>>
            BY <2>2, <3>1, ConstantsAssumption DEF Good, Sound
      <4>3. /\ t.recID = n.recID /\ t.reqNew = n.reqNew /\ t.known = n.known
            /\ t.confHash = n.confHash /\ t.flightSeen = n.flightSeen
            BY <4>1, <4>2 DEF State
      <4>4. Good(t, S, F) /\ (~s.reqNew => Good(t, S, {}))
            BY <2>2, <4>1, <4>2, DropGood
      <4> QED BY <2>2, <4>3, <4>4
    <3>2. CASE ~(Len(n.pending) > PendingLimit)
      <4>1. t = n
            BY <1>2, <1>4, <3>2
      <4> QED BY <2>2, <4>1
    <3> QED BY <3>1, <3>2
  <2>6. s.recID # 0 => ~(~tele \/ s.flightSeen = fly)
        BY <1>1, <1>4
  <2>7. tele => t.flightSeen = fly
        BY <1>1, <2>5
  <2> QED BY <2>5, <2>6, <2>7 DEF t
<1> QED BY <1>3, <1>4

\* An event is sampled.
LEMMA WriteEventGood ==
    ASSUME NEW S, NEW F, NEW s, Good(s, S, F), enabled \in BOOLEAN,
           NEW tele \in BOOLEAN, NEW fly \in BOOLEAN, NEW values \in Values
    PROVE  LET t == WriteEvent(s, tele, fly, values, None)
           IN  /\ Good(t, S, F)
               /\ t.reqNew \/ (~s.reqNew /\ t.pending = s.pending)
               /\ t.known \in {s.known, values}
               /\ t.confHash = s.confHash
<1> DEFINE c == CheckRecord(s, tele, fly, values)
           t == Write(c, Nothing, None)
<1>1. /\ Good(c, S, F)
      /\ c.recID # 0 \/ c.reqNew
      /\ c.reqNew \/ (~s.reqNew /\ c.pending = s.pending)
      /\ c.known \in {s.known, values}
      /\ c.confHash = s.confHash
      BY CheckRecordFacts
<1> HIDE DEF c
<1>2. c \in State /\ Sound(c, S, F) /\ ConfInv(c)
      BY <1>1 DEF Good, Sound
<1>3. Nothing \in Values /\ \A f \in Facts : Nothing[f] = 0
      BY NothingType DEF Nothing
<1>4. /\ t.recID = c.recID /\ t.reqNew = c.reqNew
      /\ t.known = c.known /\ t.confHash = c.confHash
  <2>1. c \in State /\ None \in Configs \cup {None}
        BY <1>2
  <2> HIDE DEF t
  <2> QED BY <2>1, NothingType, WriteFacts DEF t
<1>7. c.recID # 0 => t.pending = c.pending
      BY <1>2, NothingType, WriteFacts
<1>5. Good(t, S, F)
      BY <1>1, <1>2, <1>3, WriteGood
<1>6. WriteEvent(s, tele, fly, values, None) = t
      BY DEF WriteEvent, c
<1> HIDE DEF t
<1>8. c.recID = 0 => t.reqNew
      BY <1>1, <1>4
<1> QED BY <1>1, <1>4, <1>5, <1>6, <1>7, <1>8

-----------------------------------------------------------------------------
(* recordConfig(), cleanupValues() *)

\* The values that are known change, of the facts in G.
LEMMA KnownGood ==
    ASSUME NEW S, NEW F, NEW G, NEW s, Good(s, S, F), NEW w \in Values,
           \A f \in Facts \ G : w[f] = s.known[f] /\ f \notin F
    PROVE  LET t == [s EXCEPT !.known = w]
           IN  /\ Good(t, S, G)
               /\ t.recID = s.recID /\ t.reqNew = s.reqNew /\ t.pending = s.pending
               /\ t.known = w /\ t.confHash = s.confHash
<1> DEFINE t == [s EXCEPT !.known = w]
<1>1. s \in State
      BY DEF Good, Sound
<1>2. /\ t \in State /\ t.known = w
      /\ t.recording = s.recording /\ t.recID = s.recID /\ t.reqNew = s.reqNew
      /\ t.pending = s.pending /\ t.confHash = s.confHash
      /\ t.era = s.era /\ t.late = s.late /\ t.gaps = s.gaps /\ t.mute = s.mute
      /\ t.queue = s.queue
      BY <1>1 DEF State
<1> HIDE DEF t
<1>3. OneInv(t, S) /\ AwaitInv(t, S)
      BY <1>2 DEF Good, Sound, OneInv, AwaitInv
<1>4. Mark(t) = Mark(s)
      BY <1>2 DEF Mark, Item
<1>5. EraInv(t, S)
      BY <1>2, <1>4 DEF Good, Sound, EraInv
<1>6. FreshInv(t, S)
      BY <1>2 DEF Good, Sound, FreshInv
<1>7. PlayInv(t, G)
      BY <1>2 DEF Good, Sound, PlayInv, Plays
<1>8. ConfInv(t)
      BY <1>2 DEF Good, ConfInv
<1>9. Good(t, S, G)
      BY <1>2, <1>3, <1>5, <1>6, <1>7, <1>8 DEF Good, Sound
<1> QED BY <1>2, <1>9 DEF t

\* What has changed is sampled.
LEMMA WriteChangedGood ==
    ASSUME NEW S, NEW s, Good(s, S, {}), enabled \in BOOLEAN,
           s.recID # 0 \/ s.reqNew, NEW vals \in Values
    PROVE  LET t == WriteChanged(s, vals)
           IN  /\ Good(t, S, {})
               /\ t.recID = s.recID /\ t.reqNew = s.reqNew
               /\ s.recID # 0 => t.pending = s.pending
               /\ t.known = Onto(s.known, vals) /\ t.confHash = s.confHash
<1> DEFINE changed == [f \in Facts |-> IF vals[f] = s.known[f] THEN 0 ELSE vals[f]]
           w == Onto(s.known, vals)
           u == [s EXCEPT !.known = w]
           t == WriteChanged(s, vals)
           G == {f \in Facts : changed[f] # 0}
<1>1. s.known \in Values
      BY DEF Good, Sound, State
<1>2. changed \in Values /\ w \in Values
      BY <1>1 DEF Values, Onto
<1>3. \A f \in Facts : changed[f] = 0 => w[f] = s.known[f]
      BY DEF Onto
<1>4. \A f \in Facts : changed[f] # 0 => changed[f] = w[f]
      BY DEF Onto
<1>5. t = IF changed = Nothing THEN u ELSE Write(u, changed, None)
      BY DEF WriteChanged
<1>6. changed = Nothing => \A f \in Facts : changed[f] = 0
      BY DEF Nothing
<1>7. s.known = s.known /\ u = [s EXCEPT !.known = w]
      OBVIOUS
<1> HIDE DEF changed, w, t, u
<1>8. CASE changed = Nothing
  <2>1. \A f \in Facts \ {} : w[f] = s.known[f] /\ f \notin {}
        BY <1>3, <1>6, <1>8
  <2>2. /\ Good(u, S, {})
        /\ u.recID = s.recID /\ u.reqNew = s.reqNew /\ u.pending = s.pending
        /\ u.known = w /\ u.confHash = s.confHash
        BY <1>2, <1>7, <2>1, KnownGood
  <2>3. t = u
        BY <1>5, <1>8
  <2> QED BY <2>2, <2>3 DEF t, w
<1>9. CASE changed # Nothing
  <2>1. \A f \in Facts \ G : w[f] = s.known[f] /\ f \notin {}
        BY <1>3
  <2> HIDE DEF G
  <2>2. /\ Good(u, S, G)
        /\ u.recID = s.recID /\ u.reqNew = s.reqNew /\ u.pending = s.pending
        /\ u.known = w /\ u.confHash = s.confHash
        BY <1>2, <1>7, <2>1, KnownGood
  <2>3. t = Write(u, changed, None)
        BY <1>5, <1>9
  <2>4. Sound(u, S, G) /\ ConfInv(u) /\ u \in State
        BY <2>2 DEF Good, Sound
  <2>5. \A f \in Facts : changed[f] = 0 \/ changed[f] = u.known[f]
        BY <1>4, <2>2
  <2>6. \A f \in Facts : f \in G => f \in {} \/ changed[f] # 0
        BY DEF G
  <2>7. Good(t, S, {})
        BY <1>2, <2>2, <2>3, <2>4, <2>5, <2>6, WriteGood
  <2>8. None \in Configs \cup {None}
        OBVIOUS
  <2>9. t.recID = u.recID /\ t.reqNew = u.reqNew /\ t.known = u.known
        BY <1>2, <2>3, <2>4, <2>8, WriteFacts
  <2>10. t.confHash = u.confHash
        BY <1>2, <2>3, <2>4, <2>8, WriteFacts
  <2>11. u.recID # 0 => t.pending = u.pending
        BY <1>2, <2>3, <2>4, <2>8, WriteFacts
  <2> QED BY <2>2, <2>7, <2>9, <2>10, <2>11 DEF t, w
<1> QED BY <1>8, <1>9

\* A record is not looked for again.
LEMMA CheckRecordAgain ==
    ASSUME NEW s, NEW tele \in BOOLEAN, NEW fly, NEW values, s.recID # 0,
           tele => s.flightSeen = fly
    PROVE  CheckRecord(s, tele, fly, values) = s
BY DEF CheckRecord, CheckAutoRecord

\* recordConfig() is dbCheckRecord(), and names the configuration if it is
\* another one.
LEMMA RecordConfigIs ==
    ASSUME NEW S, NEW F, NEW s, Good(s, S, F), enabled \in BOOLEAN,
           NEW tele \in BOOLEAN, NEW fly \in BOOLEAN, NEW values \in Values,
           NEW hash \in Configs \cup {None}
    PROVE  LET c == CheckRecord(s, tele, fly, values)
               t == RecordConfig(s, tele, fly, values, hash)
           IN  \/ /\ c.recID = 0 \/ hash = None \/ hash = c.confHash
                  /\ t = c
               \/ /\ c.recID # 0 /\ hash # None
                  /\ t = Write([c EXCEPT !.confHash = hash], Nothing, hash)
<1> DEFINE c == CheckRecord(s, tele, fly, values)
           t == RecordConfig(s, tele, fly, values, hash)
           u == [c EXCEPT !.confHash = hash]
<1>1. c \in State /\ (tele => c.flightSeen = fly)
  <2>1. Good(c, S, F) /\ (tele => c.flightSeen = fly)
        BY CheckRecordFacts
  <2> QED BY <2>1 DEF Good, Sound
<1>2. t = IF c.recID = 0 \/ hash = None \/ hash = c.confHash THEN c
          ELSE WriteEvent(u, tele, fly, values, hash)
      BY DEF RecordConfig
<1> HIDE DEF c, t
<1>3. u.recID = c.recID /\ u.flightSeen = c.flightSeen
      BY <1>1 DEF State
<1>4. ASSUME c.recID # 0
      PROVE  CheckRecord(u, tele, fly, values) = u
  <2>1. u.recID # 0 /\ (tele => u.flightSeen = fly)
        BY <1>1, <1>3, <1>4
  <2> HIDE DEF u
  <2> QED BY <2>1, CheckRecordAgain
<1>5. c.recID # 0 => WriteEvent(u, tele, fly, values, hash) = Write(u, Nothing, hash)
      BY <1>4 DEF WriteEvent
<1> HIDE DEF u
<1> QED BY <1>2, <1>5 DEF c, t, u

\* The hash is changed, and written.
LEMMA NameGood ==
    ASSUME NEW S, NEW F, NEW s, Good(s, S, F), enabled \in BOOLEAN,
           s.recID # 0, NEW hash \in Configs
    PROVE  LET t == Write([s EXCEPT !.confHash = hash], Nothing, hash)
           IN  /\ Good(t, S, F)
               /\ t.recID = s.recID /\ t.reqNew = s.reqNew /\ t.pending = s.pending
               /\ t.known = s.known /\ t.confHash = hash
               /\ t.recording = s.recording /\ t.era = s.era /\ t.late = s.late
               /\ \/ /\ t.queue = Append(s.queue, [kind |-> "write", id |-> s.recID,
                                                   item |-> Item(s, Nothing, hash)])
                     /\ t.gaps = s.gaps
                  \/ t.gaps
<1> DEFINE u == [s EXCEPT !.confHash = hash]
           t == Write(u, Nothing, hash)
<1>1. s \in State
      BY DEF Good, Sound
<1>2. /\ u \in State /\ u.confHash = hash
      /\ u.recording = s.recording /\ u.recID = s.recID /\ u.reqNew = s.reqNew
      /\ u.pending = s.pending /\ u.known = s.known
      /\ u.era = s.era /\ u.late = s.late /\ u.gaps = s.gaps /\ u.mute = s.mute
      /\ u.queue = s.queue
      BY <1>1 DEF State
<1>3. [s EXCEPT !.confHash = hash] = u
      OBVIOUS
<1> HIDE DEF u
<1>4. OneInv(u, S) /\ AwaitInv(u, S)
      BY <1>2 DEF Good, Sound, OneInv, AwaitInv
<1>5. Mark(u) = Mark(s) /\ Item(u, Nothing, hash) = Item(s, Nothing, hash)
      BY <1>2 DEF Mark, Item
<1>6. EraInv(u, S)
      BY <1>2, <1>5 DEF Good, Sound, EraInv
<1>7. FreshInv(u, S)
      BY <1>2 DEF Good, Sound, FreshInv
<1>8. PlayInv(u, F)
      BY <1>2 DEF Good, Sound, PlayInv, Plays
<1>9. Sound(u, S, F)
      BY <1>2, <1>4, <1>6, <1>7, <1>8 DEF Good, Sound
<1>10. hash # None /\ hash \in Configs \cup {None}
       BY ConstantsAssumption
<1>11. Nothing \in Values /\ \A f \in Facts : Nothing[f] = 0
       BY NothingType DEF Nothing
<1>12. Good(t, S, F)
       BY <1>2, <1>9, <1>10, <1>11, WriteGood
<1> HIDE DEF t
<1>13. t.recID = u.recID /\ t.reqNew = u.reqNew /\ t.known = u.known /\ t.confHash = u.confHash
       BY <1>2, <1>10, NothingType, WriteFacts DEF t
<1>14. t.recording = u.recording /\ t.era = u.era /\ t.late = u.late
       BY <1>2, <1>10, NothingType, WriteFacts DEF t
<1>15. /\ t.pending = u.pending
       /\ \/ /\ t.queue = Append(u.queue, [kind |-> "write", id |-> u.recID,
                                           item |-> Item(u, Nothing, hash)])
             /\ t.gaps = u.gaps
          \/ t.gaps
  <2>1. u.recID # 0
        BY <1>2
  <2> QED BY <2>1, <1>2, <1>10, NothingType, WriteFacts DEF t
<1> QED BY <1>2, <1>3, <1>5, <1>12, <1>13, <1>14, <1>15 DEF t

-----------------------------------------------------------------------------
(* dbRecordCreated() *)

\* The record k is the present one, and is empty until p is sent; m is what the
\* recorder would write.
Carry(s, k, p, v, m) ==
    /\ s.recID = k /\ k # 0 /\ ~s.reqNew
    /\ s.pending = p /\ s.known = v
    /\ Mark(s) = m
    /\ \A j \in 1 .. Len(p) : Right(k, p[j])
    /\ ~s.gaps =>
          /\ rows[k].play = Nothing
          /\ \A i \in 1 .. Len(s.queue) :
                s.queue[i].kind = "write" /\ s.queue[i].id = k => s.queue[i].item.vals = Nothing
          /\ \A f \in Facts : Ends(ValsOf(p, f), Len(p), 0, 0, v[f])

\* It is, or it has been given up and another one is asked for.
Stage(s, S, k, p, v, m) ==
    \/ Good(s, S, Facts) /\ Carry(s, k, p, v, m)
    \/ Good(s, S, {}) /\ s.recID = 0 /\ s.reqNew /\ s.known = v

\* The parts of dbRecordCreated() keep this.
LEMMA StageCheck ==
    ASSUME NEW S, NEW k, NEW p, NEW v \in Values, NEW m, NEW s, Stage(s, S, k, p, v, m),
           enabled \in BOOLEAN, NEW tele \in BOOLEAN, NEW fly \in BOOLEAN
    PROVE  LET t == CheckRecord(s, tele, fly, v)
           IN  Stage(t, S, k, p, v, m) /\ t.confHash = s.confHash
<1> DEFINE t == CheckRecord(s, tele, fly, v)
<1>1. CASE Good(s, S, Facts) /\ Carry(s, k, p, v, m)
  <2>1. /\ Good(t, S, Facts)
        /\ t.recID # 0 \/ t.reqNew
        /\ t.recID = 0 /\ ~s.reqNew => Good(t, S, {})
        /\ t.known \in {s.known, v}
        /\ t.confHash = s.confHash
        /\ t.recID # 0 =>
              /\ t.recID = s.recID /\ t.recording = s.recording
              /\ t.era = s.era /\ t.late = s.late
              /\ t.reqNew = s.reqNew /\ t.pending = s.pending
              /\ t.known = s.known /\ t.gaps = s.gaps /\ t.queue = s.queue
        BY <1>1, CheckRecordFacts
  <2> HIDE DEF t
  <2>2. CASE t.recID = 0
        BY <1>1, <2>1, <2>2 DEF Stage, Carry, t
  <2>3. CASE t.recID # 0
    <3>1. Mark(t) = Mark(s)
          BY <2>1, <2>3 DEF Mark, Item
    <3>2. Carry(t, k, p, v, m)
          BY <1>1, <2>1, <2>3, <3>1 DEF Carry
    <3> QED BY <2>1, <3>2 DEF Stage, t
  <2> QED BY <2>2, <2>3
<1>2. CASE Good(s, S, {}) /\ s.recID = 0 /\ s.reqNew /\ s.known = v
  <2>1. Good(t, S, {}) /\ (t.recID # 0 \/ t.reqNew)
        BY <1>2, CheckRecordFacts
  <2>2. t.known \in {s.known, v} /\ t.confHash = s.confHash
        BY <1>2, CheckRecordFacts
  <2>3. t.recID # 0 => t.recID = s.recID
        BY <1>2, CheckRecordFacts
  <2> HIDE DEF t
  <2> QED BY <1>2, <2>1, <2>2, <2>3 DEF Stage, t
<1> QED BY <1>1, <1>2 DEF Stage

LEMMA StageEvent ==
    ASSUME NEW S, NEW k, NEW p, NEW v \in Values, NEW m, NEW s, Stage(s, S, k, p, v, m),
           enabled \in BOOLEAN, NEW tele \in BOOLEAN, NEW fly \in BOOLEAN
    PROVE  LET t == WriteEvent(s, tele, fly, v, None)
           IN  Stage(t, S, k, p, v, m) /\ t.confHash = s.confHash
<1> DEFINE c == CheckRecord(s, tele, fly, v)
           t == Write(c, Nothing, None)
<1>1. Stage(c, S, k, p, v, m) /\ c.confHash = s.confHash
      BY StageCheck
<1>2. WriteEvent(s, tele, fly, v, None) = t
      BY DEF WriteEvent
<1> HIDE DEF c
<1>3. /\ Nothing \in Values /\ \A f \in Facts : Nothing[f] = 0
      /\ None \in Configs \cup {None}
      BY NothingType DEF Nothing
<1>4. CASE Good(c, S, Facts) /\ Carry(c, k, p, v, m)
  <2>1. c \in State /\ Sound(c, S, Facts) /\ ConfInv(c) /\ c.recID # 0
        BY <1>4 DEF Good, Sound, Carry
  <2>2. Good(t, S, Facts)
        BY <1>3, <2>1, WriteGood
  <2> DEFINE x == Item(c, Nothing, None)
             r == [kind |-> "write", id |-> c.recID, item |-> x]
  <2> HIDE DEF t
  <2>3. t.recID = c.recID /\ t.reqNew = c.reqNew /\ t.known = c.known /\ t.confHash = c.confHash
        BY <1>3, <2>1, WriteFacts DEF t
  <2>4. t.recording = c.recording /\ t.era = c.era /\ t.late = c.late
        BY <1>3, <2>1, WriteFacts DEF t
  <2>5. /\ t.pending = c.pending
        /\ (t.queue = Append(c.queue, r) /\ t.gaps = c.gaps) \/ t.gaps
    <3>1. /\ t.pending = c.pending
          /\ \/ enabled /\ t.queue = Append(c.queue, r) /\ t.gaps = c.gaps
             \/ ~enabled /\ t.queue = c.queue /\ t.gaps = TRUE
          BY <1>3, <2>1, WriteFacts DEF t
    <3> HIDE DEF r
    <3> QED BY <3>1
  <2>6. r \in Requests /\ r.item.vals = Nothing /\ c.queue \in Seq(Requests)
    <3>1. x \in Items /\ x.vals = Nothing
          BY <1>3, <2>1, ItemType DEF Item
    <3>2. c.recID \in Keys \cup {0} /\ c.queue \in Seq(Requests)
          BY <2>1 DEF State
    <3> HIDE DEF x
    <3> QED BY <3>1, <3>2, WriteType
  <2> HIDE DEF r
  <2>7. Mark(t) = Mark(c)
        BY <2>4 DEF Mark, Item
  <2>8. ~t.gaps => \A i \in 1 .. Len(t.queue) :
                      t.queue[i].kind = "write" /\ t.queue[i].id = k => t.queue[i].item.vals = Nothing
    <3> SUFFICES ASSUME ~t.gaps, NEW i \in 1 .. Len(t.queue),
                        t.queue[i].kind = "write", t.queue[i].id = k
                 PROVE  t.queue[i].item.vals = Nothing
        OBVIOUS
    <3>1. t.queue = Append(c.queue, r) /\ ~c.gaps
          BY <2>5
    <3>2. t.queue[i] = r \/ (i \in 1 .. Len(c.queue) /\ t.queue[i] = c.queue[i])
          BY <2>6, <3>1, AppendFacts
    <3> QED BY <1>4, <2>6, <3>1, <3>2 DEF Carry
  <2>9. ~t.gaps => ~c.gaps
        BY <2>5
  <2>10. Carry(t, k, p, v, m)
        BY <1>4, <2>3, <2>5, <2>7, <2>8, <2>9 DEF Carry
  <2> QED BY <1>1, <1>2, <2>2, <2>3, <2>10 DEF Stage
<1>5. CASE Good(c, S, {}) /\ c.recID = 0 /\ c.reqNew /\ c.known = v
  <2>1. c \in State /\ Sound(c, S, {}) /\ ConfInv(c)
        BY <1>5 DEF Good, Sound
  <2>2. Good(t, S, {})
        BY <1>3, <1>5, <2>1, WriteGood
  <2>3. t.recID = c.recID /\ t.reqNew = c.reqNew /\ t.known = c.known /\ t.confHash = c.confHash
    <3> HIDE DEF t
    <3> QED BY <1>3, <2>1, WriteFacts DEF t
  <2> QED BY <1>1, <1>2, <1>5, <2>2, <2>3 DEF Stage
<1> QED BY <1>1, <1>4, <1>5 DEF Stage

LEMMA StageConfig ==
    ASSUME NEW S, NEW k, NEW p, NEW v \in Values, NEW m, NEW s, Stage(s, S, k, p, v, m),
           enabled \in BOOLEAN, NEW tele \in BOOLEAN, NEW fly \in BOOLEAN,
           NEW hash \in Configs \cup {None}, s.confHash = None
    PROVE  LET t == RecordConfig(s, tele, fly, v, hash)
           IN  /\ Stage(t, S, k, p, v, m)
               /\ t.confHash = hash \/ (t.recID = 0 /\ t.confHash = None)
<1> DEFINE c == CheckRecord(s, tele, fly, v)
           t == RecordConfig(s, tele, fly, v, hash)
           u == Write([c EXCEPT !.confHash = hash], Nothing, hash)
<1>1. Stage(c, S, k, p, v, m) /\ c.confHash = None
  <2>1. Stage(c, S, k, p, v, m)
        BY StageCheck
  <2>2. c.confHash = s.confHash
        BY StageCheck
  <2> QED BY <2>1, <2>2
<1>2. \/ /\ c.recID = 0 \/ hash = None \/ hash = c.confHash
         /\ t = c
      \/ /\ c.recID # 0 /\ hash # None
         /\ t = u
      BY RecordConfigIs DEF Stage
<1> HIDE DEF c, t, u
<1>3. CASE t = c /\ (c.recID = 0 \/ hash = None \/ hash = c.confHash)
      BY <1>1, <1>3 DEF t
<1>4. CASE t = u /\ c.recID # 0 /\ hash # None
  <2>1. Good(c, S, Facts) /\ Carry(c, k, p, v, m)
        BY <1>1, <1>4 DEF Stage
  <2>2. hash \in Configs
        BY <1>4
  <2> DEFINE x == Item(c, Nothing, hash)
             r == [kind |-> "write", id |-> c.recID, item |-> x]
  <2>3. /\ Good(u, S, Facts)
        /\ u.recID = c.recID /\ u.reqNew = c.reqNew /\ u.pending = c.pending
        /\ u.known = c.known /\ u.confHash = hash
        /\ u.recording = c.recording /\ u.era = c.era /\ u.late = c.late
        /\ \/ /\ u.queue = Append(c.queue, r)
              /\ u.gaps = c.gaps
           \/ u.gaps
        BY <1>4, <2>1, <2>2, NameGood DEF u
  <2>4. r \in Requests /\ r.item.vals = Nothing /\ c.queue \in Seq(Requests)
    <3>1. c \in State
          BY <2>1 DEF Good, Sound
    <3>2. x \in Items /\ x.vals = Nothing
          BY <3>1, ItemType, NothingType DEF Item
    <3>3. c.recID \in Keys \cup {0} /\ c.queue \in Seq(Requests)
          BY <3>1 DEF State
    <3> HIDE DEF x
    <3> QED BY <3>2, <3>3, WriteType
  <2> HIDE DEF r
  <2>5. Mark(u) = Mark(c)
        BY <2>3 DEF Mark, Item
  <2>6. ~u.gaps => \A i \in 1 .. Len(u.queue) :
                      u.queue[i].kind = "write" /\ u.queue[i].id = k => u.queue[i].item.vals = Nothing
    <3> SUFFICES ASSUME ~u.gaps, NEW i \in 1 .. Len(u.queue),
                        u.queue[i].kind = "write", u.queue[i].id = k
                 PROVE  u.queue[i].item.vals = Nothing
        OBVIOUS
    <3>1. u.queue = Append(c.queue, r) /\ ~c.gaps
          BY <2>3
    <3>2. u.queue[i] = r \/ (i \in 1 .. Len(c.queue) /\ u.queue[i] = c.queue[i])
          BY <2>4, <3>1, AppendFacts
    <3> QED BY <2>1, <2>4, <3>1, <3>2 DEF Carry
  <2>7. ~u.gaps => ~c.gaps
        BY <2>3
  <2>8. Carry(u, k, p, v, m)
        BY <2>1, <2>3, <2>5, <2>6, <2>7 DEF Carry
  <2> QED BY <1>4, <2>3, <2>8 DEF Stage, t
<1> QED BY <1>2, <1>3, <1>4

\* Of some values all that are added are blank.
LEMMA EndsBlanks ==
    ASSUME NEW m \in Nat, NEW n \in Nat, NEW h, NEW g, NEW base, NEW blank, NEW v,
           \A i \in 1 .. m : g[i] = h[i],
           \A i \in m + 1 .. m + n : g[i] = blank,
           Ends(h, m, base, blank, v)
    PROVE  Ends(g, m + n, base, blank, v)
<1>1. CASE \E i \in 1 .. m : h[i] = v /\ v # blank /\ \A j \in i + 1 .. m : h[j] = blank
  <2>1. PICK i \in 1 .. m : h[i] = v /\ v # blank /\ \A j \in i + 1 .. m : h[j] = blank
        BY <1>1
  <2>2. i \in 1 .. m + n /\ g[i] = v
        BY <2>1
  <2>3. ASSUME NEW j \in i + 1 .. m + n
        PROVE  g[j] = blank
    <3>1. CASE j \in i + 1 .. m
          BY <2>1, <3>1
    <3>2. CASE j \in m + 1 .. m + n
          BY <3>2
    <3> QED BY <3>1, <3>2
  <2> QED BY <2>1, <2>2, <2>3 DEF Ends
<1>2. CASE base = v /\ \A j \in 1 .. m : h[j] = blank
  <2>1. ASSUME NEW j \in 1 .. m + n
        PROVE  g[j] = blank
    <3>1. CASE j \in 1 .. m
          BY <1>2, <3>1
    <3>2. CASE j \in m + 1 .. m + n
          BY <3>2
    <3> QED BY <3>1, <3>2
  <2> QED BY <1>2, <2>1 DEF Ends
<1> QED BY <1>1, <1>2 DEF Ends

LEMMA ConcatFacts ==
    ASSUME NEW T, NEW q \in Seq(T), NEW r \in Seq(T)
    PROVE  /\ Len(q) \in Nat /\ Len(r) \in Nat
           /\ q \o r \in Seq(T) /\ Len(q \o r) = Len(q) + Len(r)
           /\ \A i \in 1 .. Len(q) : (q \o r)[i] = q[i]
           /\ \A j \in 1 .. Len(r) : (q \o r)[Len(q) + j] = r[j]
OBVIOUS

\* The requests that waited come behind those in the queue.
LEMMA SendFacts ==
    ASSUME NEW s \in State, enabled \in BOOLEAN
    PROVE  LET t == SendPending(s)
               m == Len(s.queue)
               n == Len(s.pending)
           IN  /\ t \in State
               /\ t.recording = s.recording /\ t.flightSeen = s.flightSeen
               /\ t.recID = s.recID /\ t.reqNew = s.reqNew /\ t.pending = <<>>
               /\ t.known = s.known /\ t.confHash = s.confHash
               /\ t.era = s.era /\ t.late = s.late /\ t.mute = s.mute
               /\ t.gaps = (s.gaps \/ ~enabled \/ s.recID = 0)
               /\ enabled =>
                     /\ Len(t.queue) = m + n
                     /\ \A i \in 1 .. m : t.queue[i] = s.queue[i]
                     /\ \A j \in 1 .. n :
                           /\ t.queue[m + j].kind = "write"
                           /\ t.queue[m + j].id = s.recID
                           /\ t.queue[m + j].item = s.pending[j]
               /\ ~enabled => t.queue = s.queue
<1> DEFINE t == SendPending(s)
           m == Len(s.queue)
           n == Len(s.pending)
           sent == [i \in DOMAIN s.pending |->
                       [kind |-> "write", id |-> s.recID, item |-> s.pending[i]]]
           q == IF enabled THEN s.queue \o sent ELSE s.queue
           g == s.gaps \/ ~enabled \/ s.recID = 0
           u == [s EXCEPT !.queue = q, !.gaps = g, !.pending = <<>>]
<1>1. /\ s.queue \in Seq(Requests) /\ s.pending \in Seq(Items)
      /\ s.recID \in Keys \cup {0}
      BY DEF State
<1>2. n \in Nat /\ m \in Nat /\ DOMAIN s.pending = 1 .. n
      BY <1>1
<1>3. \A i \in 1 .. n : [kind |-> "write", id |-> s.recID, item |-> s.pending[i]] \in Requests
      BY <1>1, WriteType
<1>4. sent \in Seq(Requests) /\ Len(sent) = n
      BY <1>2, <1>3
<1>5. \A i \in 1 .. n : /\ sent[i].kind = "write" /\ sent[i].id = s.recID
                        /\ sent[i].item = s.pending[i]
      BY <1>2
<1>6. g \in BOOLEAN /\ <<>> \in Seq(Items)
      OBVIOUS
<1>7. t = u
      BY DEF SendPending
<1> HIDE DEF sent, g, t
<1>8. q \in Seq(Requests)
      BY <1>1, <1>4
<1> HIDE DEF m, n
<1>9. /\ enabled =>
            /\ Len(q) = m + n
            /\ \A i \in 1 .. m : q[i] = s.queue[i]
            /\ \A j \in 1 .. n : q[m + j] = sent[j]
      /\ ~enabled => q = s.queue
  <2>1. CASE enabled
    <3>1. q = s.queue \o sent
          BY <2>1
    <3>2. /\ Len(s.queue \o sent) = m + n
          /\ \A i \in 1 .. m : (s.queue \o sent)[i] = s.queue[i]
          /\ \A j \in 1 .. n : (s.queue \o sent)[m + j] = sent[j]
      <4>1. s.queue \in Seq(Requests) /\ sent \in Seq(Requests)
            BY <1>1, <1>4
      <4>2. /\ Len(s.queue \o sent) = Len(s.queue) + Len(sent)
            /\ \A i \in 1 .. Len(s.queue) : (s.queue \o sent)[i] = s.queue[i]
            /\ \A j \in 1 .. Len(sent) : (s.queue \o sent)[Len(s.queue) + j] = sent[j]
            BY ONLY <4>1, ConcatFacts
      <4> QED BY <4>2, <1>4 DEF m
    <3> HIDE DEF q
    <3> QED BY <2>1, <3>1, <3>2
  <2>2. CASE ~enabled
        BY <2>2
  <2> QED BY <2>1, <2>2
<1> HIDE DEF q
<1>10. /\ u \in State /\ u.queue = q /\ u.gaps = g /\ u.pending = <<>>
       BY <1>6, <1>8 DEF State
<1>11. /\ u.recording = s.recording /\ u.flightSeen = s.flightSeen
       /\ u.recID = s.recID /\ u.reqNew = s.reqNew
       /\ u.known = s.known /\ u.confHash = s.confHash
       /\ u.era = s.era /\ u.late = s.late /\ u.mute = s.mute
       BY DEF State
<1> HIDE DEF u
<1>12. enabled =>
            /\ Len(t.queue) = m + n
            /\ \A i \in 1 .. m : t.queue[i] = s.queue[i]
            /\ \A j \in 1 .. n :
                  /\ t.queue[m + j].kind = "write"
                  /\ t.queue[m + j].id = s.recID
                  /\ t.queue[m + j].item = s.pending[j]
       BY <1>5, <1>7, <1>9, <1>10
<1>13. ~enabled => t.queue = s.queue
       BY <1>7, <1>9, <1>10
<1>14. t.gaps = (s.gaps \/ ~enabled \/ s.recID = 0)
       BY <1>7, <1>10 DEF g
<1>15. /\ t \in State /\ t.pending = <<>>
       /\ t.recording = s.recording /\ t.flightSeen = s.flightSeen
       /\ t.recID = s.recID /\ t.reqNew = s.reqNew
       /\ t.known = s.known /\ t.confHash = s.confHash
       /\ t.era = s.era /\ t.late = s.late /\ t.mute = s.mute
       BY <1>7, <1>10, <1>11
<1> QED BY <1>12, <1>13, <1>14, <1>15 DEF t, m, n

\* Requests to write are queued that are lost, or have no effect.
LEMMA LostGood ==
    ASSUME NEW S, NEW F, NEW s, NEW t \in State, Sound(s, S, F),
           t.recording = s.recording, t.recID = s.recID, t.reqNew = s.reqNew,
           t.era = s.era, t.late = s.late, t.mute = s.mute, t.gaps = TRUE,
           t.pending = <<>>,
           Len(t.queue) >= Len(s.queue),
           \A i \in 1 .. Len(s.queue) : t.queue[i] = s.queue[i],
           \A i \in Len(s.queue) + 1 .. Len(t.queue) :
               /\ t.queue[i].kind = "write"
               /\ Right(t.queue[i].id, t.queue[i].item)
               /\ t.queue[i].id = 0 \/ Blank(t.queue[i])
    PROVE  Good(t, S, {})
<1>1. s.queue \in Seq(Requests) /\ t.queue \in Seq(Requests)
      BY DEF Sound, State
<1>2. /\ Len(s.queue) \in Nat /\ Len(t.queue) \in Nat
      /\ \A i \in 1 .. Len(t.queue) : i \in 1 .. Len(s.queue) \/ i \in Len(s.queue) + 1 .. Len(t.queue)
      /\ \A i \in 1 .. Len(s.queue) : i \in 1 .. Len(t.queue)
      BY <1>1
<1>3. \A i \in 1 .. Len(t.queue) : Own(t.queue[i]) => i \in 1 .. Len(s.queue) /\ Own(s.queue[i])
      BY <1>2 DEF Own
<1>4. OneInv(t, S)
  <2>1. ~s.reqNew => \A i \in 1 .. Len(t.queue) : ~Own(t.queue[i])
        BY <1>3 DEF Sound, OneInv
  <2>2. \A i, j \in 1 .. Len(t.queue) : Own(t.queue[i]) /\ Own(t.queue[j]) => i = j
        BY <1>3 DEF Sound, OneInv
  <2>3. \A i \in 1 .. Len(t.queue), j \in 1 .. Len(S) : ~(Own(t.queue[i]) /\ S[j] # 0)
        BY <1>3 DEF Sound, OneInv
  <2> QED BY <2>1, <2>2, <2>3 DEF Sound, OneInv
<1>5. AwaitInv(t, S)
      BY <1>2 DEF Sound, AwaitInv
<1>6. Mark(t) = Mark(s)
      BY DEF Mark, Item
<1>7. EraInv(t, S)
  <2>1. ASSUME NEW i \in 1 .. Len(t.queue), t.queue[i].kind = "write"
        PROVE  Right(t.queue[i].id, t.queue[i].item)
        BY <1>2, <2>1 DEF Sound, EraInv
  <2>2. ASSUME NEW i \in 1 .. Len(t.queue), Own(t.queue[i])
        PROVE  Fits(Mark(t), t.queue[i])
        BY <1>3, <1>6, <2>2 DEF Sound, EraInv
  <2>3. 1 .. Len(t.pending) = {}
        OBVIOUS
  <2> QED BY <1>6, <2>1, <2>2, <2>3 DEF Sound, EraInv
<1>8. FreshInv(t, S)
  <2>1. ASSUME NEW i \in 1 .. Len(t.queue), NEW j \in 1 .. Len(t.queue),
               Own(t.queue[i]), i < j,
               t.queue[j].kind = "write", t.queue[j].id # 0
        PROVE  Blank(t.queue[j])
    <3>1. CASE j \in 1 .. Len(s.queue)
          BY <1>3, <2>1, <3>1 DEF Sound, FreshInv
    <3>2. CASE j \in Len(s.queue) + 1 .. Len(t.queue)
          BY <2>1, <3>2
    <3> QED BY <1>2, <3>1, <3>2
  <2>2. 1 .. Len(t.pending) = {}
        OBVIOUS
  <2> QED BY <2>1, <2>2 DEF FreshInv
<1>9. PlayInv(t, {}) /\ ConfInv(t)
      BY DEF PlayInv, ConfInv
<1> QED BY <1>4, <1>5, <1>7, <1>8, <1>9 DEF Good, Sound

\* What has waited is sent to the record: it will play back what is known.
LEMMA SendGood ==
    ASSUME NEW S, NEW k \in Keys, NEW p, NEW v, NEW m, NEW s,
           Good(s, S, Facts), Carry(s, k, p, v, m), enabled \in BOOLEAN
    PROVE  Good(SendPending(s), S, {})
<1> DEFINE t == SendPending(s)
           q == s.queue
           a == Len(s.queue)
           n == Len(s.pending)
<1>1. s \in State /\ s.recID = k /\ k # 0 /\ ~s.reqNew /\ s.pending = p /\ s.known = v
      BY DEF Good, Sound, Carry
<1>2. /\ t \in State
      /\ t.recording = s.recording
      /\ t.recID = s.recID /\ t.reqNew = s.reqNew /\ t.pending = <<>>
      /\ t.known = s.known /\ t.confHash = s.confHash
      /\ t.era = s.era /\ t.late = s.late /\ t.mute = s.mute
      BY <1>1, SendFacts
<1>3. t.gaps = (s.gaps \/ ~enabled \/ s.recID = 0)
      BY <1>1, SendFacts
<1>4. enabled =>
         /\ Len(t.queue) = a + n
         /\ \A i \in 1 .. a : t.queue[i] = s.queue[i]
         /\ \A j \in 1 .. n : /\ t.queue[a + j].kind = "write"
                               /\ t.queue[a + j].id = s.recID
                               /\ t.queue[a + j].item = s.pending[j]
      BY <1>1, SendFacts
<1>5. ~enabled => t.queue = s.queue
      BY <1>1, SendFacts
<1> HIDE DEF t
<1>6. /\ s.queue \in Seq(Requests) /\ s.pending \in Seq(Items)
      /\ a \in Nat /\ n \in Nat
      BY <1>1 DEF State
<1>7. Sound(s, S, Facts) /\ ConfInv(s)
      BY DEF Good
<1>8. a = Len(s.queue) /\ n = Len(s.pending)
      OBVIOUS
<1> HIDE DEF a, n
<1>9. CASE ~enabled
  <2>1. /\ \A i \in 1 .. Len(s.queue) : t.queue[i] = s.queue[i]
        /\ Len(t.queue) >= Len(s.queue)
        /\ Len(s.queue) + 1 .. Len(t.queue) = {}
        BY <1>5, <1>6, <1>9, <1>8
  <2>2. t.gaps = TRUE
        BY <1>3, <1>9
  <2>3. Good(t, S, {})
        BY <1>2, <1>7, <2>1, <2>2, LostGood
  <2> QED BY <2>3 DEF t
<1>10. CASE enabled
  <2>1. ASSUME NEW i \in a + 1 .. a + n
        PROVE  /\ i - a \in 1 .. n
               /\ t.queue[i].kind = "write" /\ t.queue[i].id = k
               /\ t.queue[i].item = s.pending[i - a]
    <3>1. i - a \in 1 .. n /\ a + (i - a) = i
          BY <1>6
    <3> QED BY <3>1, <1>1, <1>4, <1>10
  <2>2. \A i \in 1 .. Len(t.queue) : i \in 1 .. a \/ i \in a + 1 .. a + n
        BY <1>4, <1>6, <1>10
  <2>3. /\ \A i \in 1 .. a : ~Own(s.queue[i])
        /\ \A i \in 1 .. Len(S) : S[i] = 0
        BY <1>1, <1>7, <1>8 DEF Sound, OneInv
  <2>4. \A i \in 1 .. Len(t.queue) : ~Own(t.queue[i])
    <3>1. \A i \in a + 1 .. a + n : t.queue[i].kind # "new"
          BY <2>1
    <3> QED BY <3>1, <2>2, <2>3, <1>4, <1>10 DEF Own
  <2>5. OneInv(t, S) /\ AwaitInv(t, S)
        BY <1>1, <1>2, <1>10, <2>3, <2>4 DEF OneInv, AwaitInv
  <2>6. EraInv(t, S)
    <3>1. Mark(t) = Mark(s)
          BY <1>2 DEF Mark, Item
    <3>2. Right(t.recID, Mark(t))
          BY <3>1, <1>2, <1>7 DEF Sound, EraInv
    <3>3. ASSUME NEW i \in 1 .. Len(t.queue), t.queue[i].kind = "write"
          PROVE  Right(t.queue[i].id, t.queue[i].item)
      <4>1. CASE i \in 1 .. a
            BY <4>1, <3>3, <1>4, <1>7, <1>10, <1>8 DEF Sound, EraInv
      <4>2. CASE i \in a + 1 .. a + n
            BY <4>2, <2>1, <1>1, <1>8 DEF Carry
      <4> QED BY <4>1, <4>2, <2>2
    <3> QED BY <3>2, <3>3, <2>3, <2>4 DEF EraInv, Right
  <2>7. FreshInv(t, S)
    <3>1. 1 .. Len(t.pending) = {}
          BY <1>2
    <3> QED BY <3>1, <2>3, <2>4 DEF FreshInv
  <2>8. ~t.gaps => ~s.gaps
        BY <1>3
  <2>9. PlayInv(t, {})
    <3> SUFFICES ASSUME ~t.gaps
                 PROVE  /\ rows[k] # None
                        /\ \A f \in Facts : Ends(ValsTo(t.queue, k, f), Len(t.queue),
                                                 rows[k].play[f], 0, s.known[f])
        BY <1>1, <1>2 DEF PlayInv, Plays
    <3>1. ~s.gaps
          BY <2>8
    <3>2. rows[k] # None
          BY <3>1, <1>1, <1>7 DEF Sound, PlayInv
    <3>3. ASSUME NEW f \in Facts
          PROVE  Ends(ValsTo(t.queue, k, f), Len(t.queue), rows[k].play[f], 0, s.known[f])
      <4> DEFINE g == ValsTo(t.queue, k, f)
                 h == ValsOf(p, f)
      <4>1. rows[k].play[f] = 0
            BY <3>1 DEF Carry, Nothing
      <4>2. \A i \in 1 .. a : g[i] = 0
        <5>1. \A i \in 1 .. a : i \in 1 .. Len(t.queue) /\ t.queue[i] = s.queue[i]
              BY <1>4, <1>6, <1>10
        <5>2. \A i \in 1 .. a : s.queue[i].kind = "write" /\ s.queue[i].id = k
                                => s.queue[i].item.vals[f] = 0
              BY <3>1, <1>8 DEF Carry, Nothing
        <5> QED BY <5>1, <5>2 DEF ValsTo
      <4>3. \A j \in 1 .. n : g[a + j] = h[j]
        <5> TAKE j \in 1 .. n
        <5>1. a + j \in 1 .. Len(t.queue)
              BY <1>4, <1>6, <1>10
        <5>2. /\ t.queue[a + j].kind = "write" /\ t.queue[a + j].id = k
              /\ t.queue[a + j].item = p[j]
              BY <1>1, <1>4, <1>10
        <5> QED BY <5>1, <5>2, <1>1, <1>8 DEF ValsTo, ValsOf
      <4>4. Ends(h, n, 0, 0, s.known[f])
            BY <3>1, <1>1, <1>8 DEF Carry
      <4> HIDE DEF g, h
      <4>5. Ends(g, a + n, 0, 0, s.known[f])
            BY <4>2, <4>3, <4>4, <1>6, EndsShift
      <4> QED BY <4>1, <4>5, <1>4, <1>10 DEF g
    <3> QED BY <3>2, <3>3
  <2>10. ConfInv(t)
    <3> SUFFICES ASSUME ~t.gaps
                 PROVE  Ends(ConfsTo(t.queue, k), Len(t.queue), rows[k].conf, None, s.confHash)
        BY <1>1, <1>2 DEF ConfInv
    <3> DEFINE g == ConfsTo(t.queue, k)
               h == ConfsTo(s.queue, k)
    <3>1. Ends(h, a, rows[k].conf, None, s.confHash)
          BY <2>8, <1>1, <1>7, <1>8 DEF ConfInv
    <3>2. \A i \in 1 .. a : g[i] = h[i]
      <4>1. \A i \in 1 .. a : i \in 1 .. Len(t.queue) /\ t.queue[i] = s.queue[i]
            BY <1>4, <1>6, <1>10
      <4> QED BY <4>1, <1>8 DEF ConfsTo
    <3>3. \A i \in a + 1 .. a + n : g[i] = None
      <4> TAKE i \in a + 1 .. a + n
      <4>1. i \in 1 .. Len(t.queue)
            BY <1>4, <1>6, <1>10
      <4>2. t.queue[i].item.conf = None
            BY <2>1, <1>7, <1>8 DEF Sound, FreshInv
      <4> QED BY <4>1, <4>2 DEF ConfsTo
    <3> HIDE DEF g, h
    <3>4. Ends(g, a + n, rows[k].conf, None, s.confHash)
          BY <3>1, <3>2, <3>3, <1>6, EndsBlanks
    <3> QED BY <3>4, <1>4, <1>10 DEF g
  <2>11. Good(t, S, {})
        BY <1>2, <1>7, <2>5, <2>6, <2>7, <2>9, <2>10 DEF Good, Sound
  <2> QED BY <2>11 DEF t
<1> QED BY <1>9, <1>10

\* The record k becomes the present one.
LEMMA AdoptStage ==
    ASSUME NEW S, NEW s, Good(s, S, {}), S # <<>>, Head(S) # 0
    PROVE  LET k == Head(S)
               c == Adopt(s, k)
           IN  /\ s.reqNew /\ k \in Keys
               /\ c \in State /\ c.confHash = None /\ Right(k, Mark(c))
               /\ Stage(c, Tail(S), k, s.pending, s.known, Mark(c))
<1> DEFINE k == Head(S)
           c == Adopt(s, k)
           R == Tail(S)
<1>1. /\ s \in State /\ S \in Seq(Keys \cup {0}) /\ s.queue \in Seq(Requests)
      /\ s.pending \in Seq(Items) /\ s.known \in Values
      BY DEF Good, Sound, State
<1>2. /\ k \in Keys /\ k = S[1] /\ 1 \in 1 .. Len(S)
      /\ R \in Seq(Keys \cup {0})
      /\ \A i \in 1 .. Len(R) : i + 1 \in 1 .. Len(S) /\ R[i] = S[i + 1]
      BY <1>1
<1> HIDE DEF k, R
<1>3. k # 0
      BY <1>2, KeysArePositive
<1>4. Sound(s, S, {})
      BY DEF Good
<1>5. s.reqNew /\ s.recID = 0
  <2>1. s.reqNew
        BY <1>2, <1>3, <1>4 DEF Sound, OneInv
  <2> QED BY <2>1, <1>4 DEF Sound, OneInv
<1>6. /\ \A i \in 1 .. Len(s.queue) : ~Own(s.queue[i])
      /\ \A i \in 1 .. Len(R) : R[i] = 0
  <2>1. \A i \in 1 .. Len(s.queue) : ~Own(s.queue[i])
        BY <1>2, <1>3, <1>4 DEF Sound, OneInv
  <2>2. ASSUME NEW i \in 1 .. Len(R), R[i] # 0
        PROVE  FALSE
    <3>1. i + 1 \in 1 .. Len(S) /\ S[i + 1] # 0 /\ S[1] # 0 /\ i + 1 # 1
          BY <1>2, <1>3, <2>2
    <3> QED BY <3>1, <1>2, <1>4 DEF Sound, OneInv
  <2> QED BY <2>1, <2>2
<1>7. /\ c \in State /\ c.recID = k /\ c.reqNew = FALSE /\ c.confHash = None
      /\ c.recording = s.recording /\ c.pending = s.pending /\ c.known = s.known
      /\ c.era = s.era /\ c.late = s.late /\ c.gaps = s.gaps /\ c.mute = s.mute
      /\ c.queue = s.queue
      BY <1>1, <1>2 DEF Adopt, State
<1> HIDE DEF c
<1>8. Mark(c) = Mark(s)
      BY <1>7 DEF Mark, Item
<1>9. Right(k, Mark(c)) /\ \A j \in 1 .. Len(s.pending) : Right(k, s.pending[j])
      BY <1>2, <1>4, <1>8 DEF Sound, EraInv
<1>10. ~s.gaps =>
          /\ rows[k] # None /\ rows[k].play = Nothing /\ rows[k].conf = None
          /\ \A j \in 1 .. Len(s.queue) :
                s.queue[j].kind = "write" /\ s.queue[j].id = k => Blank(s.queue[j])
       BY <1>2, <1>3, <1>4 DEF Sound, FreshInv
<1>11. OneInv(c, R) /\ AwaitInv(c, R)
       BY <1>4, <1>6, <1>7 DEF Sound, OneInv, AwaitInv
<1>12. EraInv(c, R)
       BY <1>4, <1>6, <1>7, <1>9 DEF Sound, EraInv, Right
<1>13. FreshInv(c, R)
       BY <1>4, <1>6, <1>7 DEF Sound, FreshInv
<1>14. PlayInv(c, Facts)
       BY <1>7, <1>10 DEF PlayInv
<1>15. ConfInv(c)
  <2> SUFFICES ASSUME ~s.gaps
               PROVE  Ends(ConfsTo(s.queue, k), Len(s.queue), rows[k].conf, None, None)
      BY <1>7 DEF ConfInv
  <2>1. \A i \in 1 .. Len(s.queue) : ConfsTo(s.queue, k)[i] = None
        BY <1>10 DEF ConfsTo, Blank
  <2> QED BY <2>1, <1>10 DEF Ends
<1>16. Good(c, R, Facts)
       BY <1>2, <1>7, <1>11, <1>12, <1>13, <1>14, <1>15 DEF Good, Sound
<1>17. ~s.gaps => \A f \in Facts : Ends(ValsOf(s.pending, f), Len(s.pending), 0, 0, s.known[f])
       BY <1>4, <1>5 DEF Sound, PlayInv, Plays
<1>18. Carry(c, k, s.pending, s.known, Mark(c))
       BY <1>3, <1>7, <1>9, <1>10, <1>17 DEF Carry, Blank
<1> QED BY <1>2, <1>5, <1>7, <1>9, <1>16, <1>18 DEF Stage, c, k, R

\* What has waited is sent, and the description of the computer after it.
LEMMA SendStage ==
    ASSUME NEW S, NEW k \in Keys, NEW p, NEW v, NEW c \in State, NEW s,
           Stage(s, S, k, p, v, Mark(c)), Right(k, Mark(c)), enabled \in BOOLEAN
    PROVE  LET t == Exec(SendPending(s),
                         [kind |-> "write", id |-> k, item |-> Item(c, Nothing, None)])
           IN  /\ Good(t, S, {})
               /\ t.pending = <<>> /\ t.known = v /\ t.confHash = s.confHash
               /\ t.recID = s.recID
<1> DEFINE x == Item(c, Nothing, None)
           r == [kind |-> "write", id |-> k, item |-> x]
           u == SendPending(s)
           t == Exec(u, r)
           a == Len(s.queue)
           n == Len(s.pending)
<1>1. x \in Items /\ x.vals = Nothing /\ x.conf = None /\ x = Mark(c)
      BY ItemType, NothingType DEF Item, Mark
<1> HIDE DEF x
<1>2. /\ r \in Requests /\ r.kind = "write" /\ r.id = k /\ r.item = x
      BY <1>1, WriteType
<1>3. Right(r.id, r.item) /\ Blank(r)
      BY <1>1, <1>2 DEF Blank
<1>4. k # 0
      BY KeysArePositive
<1>5. s \in State
      BY DEF Stage, Good, Sound
<1>6. /\ u \in State
      /\ u.recording = s.recording
      /\ u.recID = s.recID /\ u.reqNew = s.reqNew /\ u.pending = <<>>
      /\ u.known = s.known /\ u.confHash = s.confHash
      /\ u.era = s.era /\ u.late = s.late /\ u.mute = s.mute
      BY <1>5, SendFacts
<1>7. u.gaps = (s.gaps \/ ~enabled \/ s.recID = 0)
      BY <1>5, SendFacts
<1>8. enabled =>
         /\ Len(u.queue) = a + n
         /\ \A i \in 1 .. a : u.queue[i] = s.queue[i]
         /\ \A j \in 1 .. n : /\ u.queue[a + j].kind = "write"
                               /\ u.queue[a + j].id = s.recID
                               /\ u.queue[a + j].item = s.pending[j]
      BY <1>5, SendFacts
<1>9. ~enabled => u.queue = s.queue
      BY <1>5, SendFacts
<1>10. /\ s.queue \in Seq(Requests) /\ s.pending \in Seq(Items)
       /\ a \in Nat /\ n \in Nat
       BY <1>5 DEF State
<1>11. a = Len(s.queue) /\ n = Len(s.pending)
       OBVIOUS
<1> HIDE DEF u, r, a, n
<1>12. /\ t \in State
       /\ t.recording = u.recording /\ t.recID = u.recID /\ t.reqNew = u.reqNew
       /\ t.pending = u.pending /\ t.known = u.known /\ t.confHash = u.confHash
       /\ t.era = u.era /\ t.late = u.late
       BY <1>2, <1>6, ExecFacts
<1>13. CASE Good(s, S, Facts) /\ Carry(s, k, p, v, Mark(c))
  <2>1. Good(u, S, {})
        BY <1>13, SendGood DEF u
  <2>2. Sound(u, S, {}) /\ ConfInv(u)
        BY <2>1 DEF Good
  <2>3. u.recID = k
        BY <1>6, <1>13 DEF Carry
  <2>4. Item(u, Nothing, None) = x
    <3>1. Mark(s) = Mark(c)
          BY <1>13 DEF Carry
    <3> QED BY <3>1, <1>1, <1>6 DEF Mark, Item
  <2>5. Write(u, Nothing, None) = t
        BY <1>4, <2>3, <2>4 DEF Write, r
  <2>6. /\ Nothing \in Values /\ \A f \in Facts : Nothing[f] = 0
        /\ None \in Configs \cup {None}
        BY NothingType DEF Nothing
  <2> HIDE DEF t
  <2>7. Good(t, S, {})
    <3>1. \A f \in Facts : Nothing[f] = 0 \/ Nothing[f] = u.known[f]
          BY <2>6
    <3>2. Good(Write(u, Nothing, None), S, {})
          BY <1>4, <2>2, <2>3, <2>6, <3>1, WriteGood
    <3> QED BY <2>5, <3>2
  <2>8. t.known = v
        BY <1>6, <1>12, <1>13 DEF Carry
  <2> QED BY <1>6, <1>12, <2>7, <2>8 DEF t, r, u, x
<1>14. CASE Good(s, S, {}) /\ s.recID = 0 /\ s.reqNew /\ s.known = v
  <2>1. Sound(s, S, {})
        BY <1>14 DEF Good
  <2>2. u.gaps = TRUE
        BY <1>7, <1>14
  <2>3. t.gaps = TRUE /\ t.mute = u.mute
    <3>1. (u.mute \/ r.kind = "new") = u.mute
          BY <1>2, <1>6 DEF State
    <3>2. \/ enabled /\ t.queue = Append(u.queue, r) /\ t.gaps = u.gaps /\ t.mute = u.mute
          \/ ~enabled /\ t.queue = u.queue /\ t.gaps = TRUE
                      /\ t.mute = (u.mute \/ r.kind = "new")
          BY <1>2, <1>6, ExecFacts
    <3> QED BY <2>2, <3>1, <3>2
  <2>4. \/ enabled /\ t.queue = Append(u.queue, r)
        \/ ~enabled /\ t.queue = u.queue
        BY <1>2, <1>6, ExecFacts
  <2> HIDE DEF t
  <2>5. /\ Len(t.queue) >= a
        /\ \A i \in 1 .. a : t.queue[i] = s.queue[i]
        /\ \A i \in a + 1 .. Len(t.queue) :
              /\ t.queue[i].kind = "write"
              /\ Right(t.queue[i].id, t.queue[i].item)
              /\ t.queue[i].id = 0 \/ Blank(t.queue[i])
    <3>1. CASE ~enabled
      <4>1. t.queue = s.queue /\ a + 1 .. Len(t.queue) = {} /\ Len(t.queue) = a
            BY <1>9, <1>10, <1>11, <2>4, <3>1
      <4> QED BY <4>1, <1>10
    <3>2. CASE enabled
      <4>1. t.queue = Append(u.queue, r) /\ u.queue \in Seq(Requests)
            BY <1>6, <2>4, <3>2 DEF State
      <4>2. /\ Len(t.queue) = a + n + 1
            /\ \A i \in 1 .. a + n : t.queue[i] = u.queue[i]
            /\ t.queue[a + n + 1] = r
        <5>1. Len(u.queue) = a + n
              BY <1>8, <3>2
        <5> QED BY <4>1, <5>1, <1>2, <1>10, AppendFacts
      <4>3. ASSUME NEW i \in a + 1 .. Len(t.queue)
            PROVE  /\ t.queue[i].kind = "write"
                   /\ Right(t.queue[i].id, t.queue[i].item)
                   /\ t.queue[i].id = 0 \/ Blank(t.queue[i])
        <5>1. CASE i = a + n + 1
              BY <1>2, <1>3, <4>2, <5>1
        <5>2. CASE i # a + n + 1
          <6>1. i \in 1 .. a + n /\ i - a \in 1 .. n /\ a + (i - a) = i
                BY <1>10, <4>2, <5>2
          <6>2. t.queue[i] = u.queue[a + (i - a)]
                BY <4>2, <6>1
          <6>3. /\ u.queue[a + (i - a)].kind = "write"
                /\ u.queue[a + (i - a)].id = 0
                BY <1>8, <1>14, <3>2, <6>1
          <6> QED BY <6>2, <6>3 DEF Right
        <5> QED BY <5>1, <5>2
      <4>4. \A i \in 1 .. a : t.queue[i] = s.queue[i]
            BY <1>8, <1>10, <3>2, <4>2
      <4> QED BY <4>2, <4>3, <4>4, <1>10
    <3> QED BY <3>1, <3>2
  <2>6. Good(t, S, {})
        BY <1>6, <1>11, <1>12, <2>1, <2>3, <2>5, LostGood
  <2>7. t.known = v
        BY <1>6, <1>12, <1>14
  <2> QED BY <1>6, <1>12, <2>6, <2>7 DEF t, r, u, x
<1> QED BY <1>13, <1>14 DEF Stage

\* ... and the configuration is h, or forgotten with the record.
Ready(s, S, k, p, v, m, h) ==
    /\ Stage(s, S, k, p, v, m)
    /\ s.confHash = h \/ (s.recID = 0 /\ s.confHash = None)

LEMMA ReadyEvent ==
    ASSUME NEW S, NEW k, NEW p, NEW v \in Values, NEW m, NEW s, Ready(s, S, k, p, v, m, None),
           enabled \in BOOLEAN, NEW tele \in BOOLEAN, NEW fly \in BOOLEAN
    PROVE  Ready(WriteEvent(s, tele, fly, v, None), S, k, p, v, m, None)
<1> DEFINE t == WriteEvent(s, tele, fly, v, None)
<1>1. Stage(s, S, k, p, v, m) /\ s.confHash = None
      BY DEF Ready
<1>2. Stage(t, S, k, p, v, m)
      BY <1>1, StageEvent
<1>3. t.confHash = s.confHash
      BY <1>1, StageEvent
<1> QED BY <1>1, <1>2, <1>3 DEF Ready

LEMMA ReadyConfig ==
    ASSUME NEW S, NEW k, NEW p, NEW v \in Values, NEW m, NEW s, Ready(s, S, k, p, v, m, None),
           enabled \in BOOLEAN, NEW tele \in BOOLEAN, NEW fly \in BOOLEAN,
           NEW hash \in Configs \cup {None}
    PROVE  Ready(RecordConfig(s, tele, fly, v, hash), S, k, p, v, m, hash)
<1> DEFINE t == RecordConfig(s, tele, fly, v, hash)
<1>1. Stage(s, S, k, p, v, m) /\ s.confHash = None
      BY DEF Ready
<1>2. Stage(t, S, k, p, v, m)
      BY <1>1, StageConfig
<1>3. t.confHash = hash \/ (t.recID = 0 /\ t.confHash = None)
      BY <1>1, StageConfig
<1> QED BY <1>2, <1>3 DEF Ready

\* dbRecordCreated()
LEMMA CreatedGood ==
    ASSUME NEW S, NEW s, Good(s, S, {}), S # <<>>, Head(S) # 0, enabled \in BOOLEAN,
           NEW tele \in BOOLEAN, NEW fly \in BOOLEAN, NEW mission \in BOOLEAN
    PROVE  LET k == Head(S)
               c == Adopt(s, k)
               m == IF mission THEN WriteEvent(c, tele, fly, s.known, None) ELSE c
               r == RecordConfig(m, tele, fly, s.known, s.confHash)
               t == Exec(SendPending(r),
                         [kind |-> "write", id |-> k, item |-> Item(c, Nothing, None)])
           IN  /\ s.reqNew
               /\ Good(t, Tail(S), {})
               /\ t.pending = <<>> /\ t.known = s.known
               /\ t.confHash = s.confHash \/ (t.recID = 0 /\ t.confHash = None)
<1> DEFINE k == Head(S)
           c == Adopt(s, k)
           m == IF mission THEN WriteEvent(c, tele, fly, s.known, None) ELSE c
           r == RecordConfig(m, tele, fly, s.known, s.confHash)
           t == Exec(SendPending(r),
                     [kind |-> "write", id |-> k, item |-> Item(c, Nothing, None)])
           p == s.pending
           v == s.known
           R == Tail(S)
<1>1. v \in Values /\ s.confHash \in Configs \cup {None}
      BY DEF Good, Sound, State
<1>2. /\ s.reqNew /\ k \in Keys
      /\ c \in State /\ c.confHash = None /\ Right(k, Mark(c))
      /\ Stage(c, R, k, p, v, Mark(c))
      BY AdoptStage
<1>3. v = s.known
      OBVIOUS
<1> HIDE DEF k, c, R, p, v
<1>4. Ready(m, R, k, p, v, Mark(c), None)
  <2>1. Ready(c, R, k, p, v, Mark(c), None)
        BY <1>2 DEF Ready
  <2>2. CASE mission
    <3>1. m = WriteEvent(c, tele, fly, v, None)
          BY <1>3, <2>2
    <3> HIDE DEF m
    <3> QED BY <1>1, <2>1, <3>1, ReadyEvent
  <2>3. CASE ~mission
        BY <2>1, <2>3
  <2> QED BY <2>2, <2>3
<1> HIDE DEF m
<1>5. r = RecordConfig(m, tele, fly, v, s.confHash)
      BY <1>3
<1> HIDE DEF r
<1>6. Ready(r, R, k, p, v, Mark(c), s.confHash)
      BY <1>1, <1>4, <1>5, ReadyConfig
<1>7. Stage(r, R, k, p, v, Mark(c))
      BY <1>6 DEF Ready
<1>8. /\ Good(t, R, {})
      /\ t.pending = <<>> /\ t.known = v /\ t.confHash = r.confHash
      /\ t.recID = r.recID
      BY <1>2, <1>7, SendStage
<1> HIDE DEF t
<1> QED BY <1>2, <1>3, <1>6, <1>8 DEF Ready, t, r, m, c, k, R

-----------------------------------------------------------------------------
(* The steps of the recorder *)

\* A record is all its fields.
LEMMA StateIs ==
    ASSUME NEW s \in State
    PROVE  s = [recording |-> s.recording, flightSeen |-> s.flightSeen, recID |-> s.recID,
                reqNew |-> s.reqNew, pending |-> s.pending, known |-> s.known,
                confHash |-> s.confHash, based |-> s.based, era |-> s.era, late |-> s.late,
                gaps |-> s.gaps, mute |-> s.mute, queue |-> s.queue]
BY DEF State

\* A handler leaves the tables alone.
LEMMA BecomeGood ==
    ASSUME NEW t \in State, Become(t), Good(t, posted', {}), UNCHANGED <<rows, enabled, vanished>>
    PROVE  Now' = t /\ Good(Now, posted, {})'
<1>1. Now' = t
      BY StateIs DEF Become, Now
<1>3. OneInv(Now, posted)' /\ AwaitInv(Now, posted)'
      BY <1>1 DEF Good, Sound, OneInv, AwaitInv, Own
<1>4. EraInv(Now, posted)'
      BY <1>1 DEF Good, Sound, EraInv, Right, Fits, Mark, Item, Own
<1>5. FreshInv(Now, posted)'
      BY <1>1 DEF Good, Sound, FreshInv, Own, Blank, Nothing
<1>6. PlayInv(Now, {})'
      BY <1>1 DEF Good, Sound, PlayInv, Plays
<1>7. ConfInv(Now)'
      BY <1>1 DEF Good, ConfInv
<1> QED BY <1>1, <1>3, <1>4, <1>5, <1>6, <1>7 DEF Good, Sound

\* A handler keeps the invariant, if what it makes of the recorder does.
LEMMA BecomeInv ==
    ASSUME IInv, NEW t, Become(t), Good(t, posted', {}),
           UNCHANGED <<rows, saved, enabled, vanished>>,
           mandala' \in Values, flying' \in BOOLEAN, config' \in Configs \cup {None},
           confLate' \in BOOLEAN, inputs' \in 0 .. MaxInputs,
           t.reqNew \/ t.pending = <<>>,
           t.known = mandala',
           confLate' \/ t.confHash = config'
    PROVE  IInv'
<1>1. t \in State /\ posted' \in Seq(Keys \cup {0})
      BY DEF Good, Sound
<1>2. Now' = t /\ Good(Now, posted, {})'
      BY <1>1, BecomeGood
<1>3. TypeOK'
  <2>1. /\ rows' \in [Keys -> Row \cup {None}] /\ saved' \in [Keys -> Row \cup {None}]
        /\ enabled' \in BOOLEAN /\ vanished' \subseteq Keys
        BY DEF IInv, TypeOK
  <2>2. /\ recording' \in BOOLEAN /\ flightSeen' \in BOOLEAN
        /\ recID' \in Keys \cup {0} /\ reqNew' \in BOOLEAN
        /\ pending' \in Seq(Items) /\ known' \in Values
        /\ confHash' \in Configs \cup {None} /\ based' \in BOOLEAN
        /\ queue' \in Seq(Requests) /\ era' \in Nat
        BY <1>1 DEF Become, State
  <2>3. late' \in BOOLEAN /\ gaps' \in BOOLEAN /\ mute' \in BOOLEAN
        BY <1>1 DEF Become, State
  <2>4. reqNew' \/ pending' = <<>>
        BY DEF Become
  <2> QED BY <1>1, <2>1, <2>2, <2>3, <2>4 DEF TypeOK
<1>4. SavedInv' /\ OwnRecord' /\ OneEraOneRecord'
      BY DEF IInv, SavedInv, OwnRecord, OneEraOneRecord
<1>5. KnownInv'
      BY DEF Become, KnownInv
<1> QED BY <1>2, <1>3, <1>4, <1>5 DEF IInv

\* What the handlers start from
LEMMA NowFacts ==
    ASSUME IInv
    PROVE  /\ Now \in State /\ Good(Now, posted, {})
           /\ Now.recording = recording /\ Now.flightSeen = flightSeen
           /\ Now.recID = recID /\ Now.reqNew = reqNew
           /\ Now.pending = pending /\ Now.known = known /\ Now.confHash = confHash
           /\ Now.gaps = gaps /\ Now.mute = mute /\ Now.queue = queue
           /\ Now.known = mandala /\ mandala \in Values
           /\ Now.reqNew \/ Now.pending = <<>>
           /\ enabled \in BOOLEAN
BY DEF IInv, Good, Sound, TypeOK, KnownInv, Now

LEMMA InputType ==
    ASSUME IInv, Input
    PROVE  inputs' \in 0 .. MaxInputs
BY ConstantsAssumption DEF IInv, TypeOK, Input

\* What one value is changed to
LEMMA OnlyType ==
    ASSUME NEW f \in Facts, NEW v \in Vals
    PROVE  /\ Only(f, v) \in Values
           /\ Only(f, v)[f] = v /\ v # 0
           /\ \A g \in Facts \ {f} : Only(f, v)[g] = 0
           /\ \A values \in Values : /\ [values EXCEPT ![f] = v] \in Values
                                     /\ Onto(values, Only(f, v)) = [values EXCEPT ![f] = v]
<1>1. v # 0
      BY ConstantsAssumption
<1>2. Only(f, v) \in Values
      BY DEF Only, Values
<1>3. Only(f, v)[f] = v /\ \A g \in Facts \ {f} : Only(f, v)[g] = 0
      BY DEF Only
<1>4. ASSUME NEW values \in Values
      PROVE  /\ [values EXCEPT ![f] = v] \in Values
             /\ Onto(values, Only(f, v)) = [values EXCEPT ![f] = v]
  <2>1. [values EXCEPT ![f] = v] \in Values
        BY DEF Values
  <2>2. \A g \in Facts : Onto(values, Only(f, v))[g] = [values EXCEPT ![f] = v][g]
        BY <1>1, <1>3 DEF Onto, Values
  <2>3. Onto(values, Only(f, v)) \in [Facts -> Vals \cup {0}]
        BY <1>2 DEF Onto, Values
  <2> QED BY <2>1, <2>2, <2>3 DEF Values
<1> QED BY <1>1, <1>2, <1>3, <1>4

LEMMA EventInv ==
    ASSUME IInv, NEW tele \in BOOLEAN, Event(tele)
    PROVE  IInv'
<1> DEFINE t == WriteEvent(Now, tele, flying, mandala, None)
<1>1. /\ Good(t, posted, {})
      /\ t.reqNew \/ (~Now.reqNew /\ t.pending = Now.pending)
      /\ t.known \in {Now.known, mandala}
      /\ t.confHash = Now.confHash
      BY NowFacts, WriteEventGood DEF IInv, TypeOK
<1> HIDE DEF t
<1>2. Become(t) /\ UNCHANGED <<mandala, flying, config, dbVars, confLate>>
      BY DEF Event, t
<1>3. inputs' \in 0 .. MaxInputs
      BY InputType DEF Event
<1>4. t.reqNew \/ t.pending = <<>>
      BY <1>1, NowFacts
<1>5. t.known = mandala' /\ (confLate' \/ t.confHash = config')
      BY <1>1, <1>2, NowFacts DEF IInv, KnownInv
<1>6. /\ mandala' \in Values /\ flying' \in BOOLEAN /\ config' \in Configs \cup {None}
      /\ confLate' \in BOOLEAN
      BY <1>2 DEF IInv, TypeOK
<1>7. UNCHANGED <<rows, saved, enabled, vanished>> /\ posted' = posted
      BY <1>2 DEF dbVars
<1> QED BY <1>1, <1>2, <1>3, <1>4, <1>5, <1>6, <1>7, BecomeInv

LEMMA FlightInv ==
    ASSUME IInv, FlightChanges
    PROVE  IInv'
<1>1. Become(Now)
      BY DEF FlightChanges, Become, recVars, Now
<1>2. UNCHANGED <<mandala, config, dbVars, confLate>> /\ flying' = ~flying
      BY DEF FlightChanges
<1>3. inputs' \in 0 .. MaxInputs
      BY InputType DEF FlightChanges
<1>4. /\ mandala' \in Values /\ flying' \in BOOLEAN /\ config' \in Configs \cup {None}
      /\ confLate' \in BOOLEAN
      BY <1>2 DEF IInv, TypeOK
<1>5. UNCHANGED <<rows, saved, enabled, vanished>> /\ posted' = posted
      BY <1>2 DEF dbVars
<1>6. Now.known = mandala' /\ (confLate' \/ Now.confHash = config')
      BY <1>2, NowFacts DEF IInv, KnownInv
<1> QED BY <1>1, <1>3, <1>4, <1>5, <1>6, NowFacts, BecomeInv

LEMMA SwitchInv ==
    ASSUME IInv, SwitchRecording
    PROVE  IInv'
<1> DEFINE t == Switch(Now, ~recording)
<1>1. /\ t \in State
      /\ t.recID = 0 /\ t.reqNew = Now.reqNew /\ t.pending = Now.pending
      /\ t.known = Now.known /\ t.confHash = Now.confHash
      /\ t.late = (Now.late \/ Now.reqNew)
      /\ t.gaps = Now.gaps /\ t.mute = Now.mute /\ t.queue = Now.queue
  <2>1. (~recording) \in BOOLEAN
        BY DEF IInv, TypeOK
  <2> QED BY <2>1, NowFacts, SwitchFacts
<1>2. Become(t) /\ UNCHANGED <<mandala, flying, config, dbVars, confLate>>
      BY DEF SwitchRecording
<1> HIDE DEF t
<1>3. Good(t, posted, {})
      BY <1>1, NowFacts, RestartGood
<1>4. inputs' \in 0 .. MaxInputs
      BY InputType DEF SwitchRecording
<1>5. t.known = mandala' /\ (confLate' \/ t.confHash = config')
      BY <1>1, <1>2, NowFacts DEF IInv, KnownInv
<1>6. /\ mandala' \in Values /\ flying' \in BOOLEAN /\ config' \in Configs \cup {None}
      /\ confLate' \in BOOLEAN
      BY <1>2 DEF IInv, TypeOK
<1>7. UNCHANGED <<rows, saved, enabled, vanished>> /\ posted' = posted
      BY <1>2 DEF dbVars
<1>8. t.reqNew \/ t.pending = <<>>
      BY <1>1, NowFacts
<1> QED BY <1>2, <1>3, <1>4, <1>5, <1>6, <1>7, <1>8, BecomeInv

\* What dbCheckRecord() makes of s, and what comes of s when its record is told
\* of a configuration
Checked(s, t, S, F, values) ==
    /\ Good(t, S, F)
    /\ t.recID # 0 \/ t.reqNew
    /\ t.reqNew \/ (~s.reqNew /\ t.pending = s.pending)
    /\ t.known \in {s.known, values}
    /\ t.confHash = s.confHash

NamedTo(s, t, S, F, hash) ==
    /\ Good(t, S, F)
    /\ t.recID = s.recID /\ t.reqNew = s.reqNew /\ t.pending = s.pending
    /\ t.known = s.known /\ t.confHash = hash

LEMMA CheckRecordChecks ==
    ASSUME NEW S, NEW F, NEW s, Good(s, S, F), enabled \in BOOLEAN,
           NEW tele \in BOOLEAN, NEW fly \in BOOLEAN, NEW values \in Values
    PROVE  Checked(s, CheckRecord(s, tele, fly, values), S, F, values)
BY CheckRecordFacts DEF Checked

LEMMA NameNames ==
    ASSUME NEW S, NEW F, NEW s, Good(s, S, F), enabled \in BOOLEAN,
           s.recID # 0, NEW hash \in Configs
    PROVE  NamedTo(s, Write([s EXCEPT !.confHash = hash], Nothing, hash), S, F, hash)
<1> DEFINE t == Write([s EXCEPT !.confHash = hash], Nothing, hash)
<1>1. /\ Good(t, S, F)
      /\ t.recID = s.recID /\ t.reqNew = s.reqNew /\ t.pending = s.pending
      /\ t.known = s.known /\ t.confHash = hash
      /\ t.recording = s.recording /\ t.era = s.era /\ t.late = s.late
      /\ \/ /\ t.queue = Append(s.queue, [kind |-> "write", id |-> s.recID,
                                          item |-> Item(s, Nothing, hash)])
            /\ t.gaps = s.gaps
         \/ t.gaps
      BY NameGood
<1> HIDE DEF t
<1>2. NamedTo(s, t, S, F, hash)
      BY <1>1 DEF NamedTo
<1> QED BY <1>2 DEF t

LEMMA ConfigInv ==
    ASSUME IInv, NEW c \in Configs, NEW tele \in BOOLEAN, ConfigSaved(c, tele)
    PROVE  IInv'
<1> DEFINE n == CheckRecord(Now, tele, flying, mandala)
           w == Write([n EXCEPT !.confHash = c], Nothing, c)
           t == RecordConfig(Now, tele, flying, mandala, c)
<1>1. flying \in BOOLEAN /\ c \in Configs \cup {None} /\ c # None
      BY ConstantsAssumption DEF IInv, TypeOK
<1>2. /\ Good(n, posted, {})
      /\ n.reqNew \/ (~Now.reqNew /\ n.pending = Now.pending)
      /\ n.known \in {Now.known, mandala}
      BY <1>1, NowFacts, CheckRecordFacts
<1>3. \/ /\ n.recID = 0 \/ c = None \/ c = n.confHash
         /\ t = n
      \/ /\ n.recID # 0 /\ c # None
         /\ t = w
      BY <1>1, NowFacts, RecordConfigIs
<1> HIDE DEF n
<1>4. n.recID # 0 =>
         /\ Good(w, posted, {})
         /\ w.recID = n.recID /\ w.reqNew = n.reqNew /\ w.pending = n.pending
         /\ w.known = n.known /\ w.confHash = c
  <2> HAVE n.recID # 0
  <2>1. NamedTo(n, w, posted, {}, c)
        BY <1>2, NowFacts, NameNames
  <2> HIDE DEF w
  <2> QED BY <2>1 DEF NamedTo
<1> HIDE DEF w, t
<1>5. /\ Good(t, posted, {})
      /\ t.reqNew \/ (~Now.reqNew /\ t.pending = Now.pending)
      /\ t.known \in {Now.known, mandala}
      /\ t.recID = 0 \/ t.confHash = c
      BY <1>1, <1>2, <1>3, <1>4
<1>6. /\ Become(t) /\ config' = c /\ confLate' = (recID' = 0)
      /\ UNCHANGED <<mandala, flying, dbVars>>
      BY DEF ConfigSaved, t
<1>7. inputs' \in 0 .. MaxInputs
      BY InputType DEF ConfigSaved
<1>8. t.reqNew \/ t.pending = <<>>
      BY <1>5, NowFacts
<1>9. t.known = mandala' /\ confLate' \in BOOLEAN /\ (confLate' \/ t.confHash = config')
      BY <1>5, <1>6, NowFacts DEF Become
<1>10. mandala' \in Values /\ flying' \in BOOLEAN /\ config' \in Configs \cup {None}
       BY <1>1, <1>6 DEF IInv, TypeOK
<1>11. UNCHANGED <<rows, saved, enabled, vanished>> /\ posted' = posted
       BY <1>6 DEF dbVars
<1> QED BY <1>5, <1>6, <1>7, <1>8, <1>9, <1>10, <1>11, BecomeInv

LEMMA DataInv ==
    ASSUME IInv, NEW f \in Facts, NEW v \in Vals, NEW tele \in BOOLEAN, Data(f, v, tele)
    PROVE  IInv'
<1>1. /\ mandala' = [mandala EXCEPT ![f] = v]
      /\ UNCHANGED <<flying, config, dbVars, confLate>>
      BY DEF Data
<1>2. mandala' \in Values /\ known = mandala /\ known \in Values
      BY <1>1, NowFacts, OnlyType DEF IInv, KnownInv
<1>3. inputs' \in 0 .. MaxInputs
      BY InputType DEF Data
<1>4. /\ flying' \in BOOLEAN /\ config' \in Configs \cup {None} /\ confLate' \in BOOLEAN
      BY <1>1 DEF IInv, TypeOK
<1>5. UNCHANGED <<rows, saved, enabled, vanished>> /\ posted' = posted
      BY <1>1 DEF dbVars
<1>6. CASE known[f] = v
  <2>1. Become(Now)
        BY <1>6 DEF Data, Become, recVars, Now
  <2>2. mandala' = mandala
        BY <1>1, <1>2, <1>6 DEF Values
  <2>3. Now.known = mandala' /\ (confLate' \/ Now.confHash = config')
        BY <1>1, <2>2, NowFacts DEF IInv, KnownInv
  <2> QED BY <2>1, <2>3, <1>2, <1>3, <1>4, <1>5, NowFacts, BecomeInv
<1>7. CASE known[f] # v
  <2> DEFINE u == [Now EXCEPT !.known[f] = v]
             n == CheckRecord(u, tele, flying, mandala')
             t == Write(n, Only(f, v), None)
  <2>1. Become(t)
        BY <1>7 DEF Data
  <2>2. u = [Now EXCEPT !.known = mandala']
        BY <1>1, <1>2, NowFacts
  <2>3. \A g \in Facts \ {f} : mandala'[g] = Now.known[g] /\ g \notin {}
        BY <1>1, <1>2, NowFacts DEF Values
  <2>4. /\ Good(u, posted, {f})
        /\ u.recID = Now.recID /\ u.reqNew = Now.reqNew /\ u.pending = Now.pending
        /\ u.known = mandala' /\ u.confHash = Now.confHash
    <3> HIDE DEF u
    <3> QED BY <1>2, <2>2, <2>3, NowFacts, KnownGood
  <2> HIDE DEF u
  <2>5. flying \in BOOLEAN
        BY DEF IInv, TypeOK
  <2>6. /\ Good(n, posted, {f})
        /\ n.recID # 0 \/ n.reqNew
        /\ n.reqNew \/ (~u.reqNew /\ n.pending = u.pending)
        /\ n.known \in {u.known, mandala'}
        /\ n.confHash = u.confHash
    <3>1. Checked(u, n, posted, {f}, mandala')
          BY <1>2, <2>4, <2>5, NowFacts, CheckRecordChecks
    <3> HIDE DEF n
    <3> QED BY <3>1 DEF Checked
  <2> HIDE DEF n
  <2>7. /\ Sound(n, posted, {f}) /\ ConfInv(n) /\ n \in State /\ n.known = mandala'
        BY <2>4, <2>6 DEF Good, Sound
  <2>8. /\ Only(f, v) \in Values /\ None \in Configs \cup {None}
        /\ \A g \in Facts : Only(f, v)[g] = 0 \/ Only(f, v)[g] = n.known[g]
        /\ \A g \in Facts : g \in {f} => g \in {} \/ Only(f, v)[g] # 0
    <3>1. mandala'[f] = v
          BY <1>1, NowFacts DEF Values
    <3> QED BY <2>7, <3>1, OnlyType
  <2>9. Good(t, posted, {})
        BY <2>6, <2>7, <2>8, NowFacts, WriteGood
  <2>10. t.recID = n.recID /\ t.reqNew = n.reqNew /\ t.known = n.known
         BY <2>7, <2>8, NowFacts, WriteFacts
  <2>11. t.confHash = n.confHash
         BY <2>7, <2>8, NowFacts, WriteFacts
  <2>12. n.recID # 0 => t.pending = n.pending
         BY <2>7, <2>8, NowFacts, WriteFacts
  <2> HIDE DEF t
  <2>13. t.reqNew \/ t.pending = <<>>
         BY <2>4, <2>6, <2>10, <2>12, NowFacts
  <2>14. t.known = mandala' /\ (confLate' \/ t.confHash = config')
         BY <1>1, <2>4, <2>6, <2>7, <2>10, <2>11, NowFacts DEF IInv, KnownInv
  <2> QED BY <1>2, <1>3, <1>4, <1>5, <2>1, <2>9, <2>13, <2>14, BecomeInv
<1> QED BY <1>6, <1>7

LEMMA TelemetryInv ==
    ASSUME IInv, NEW f \in Facts, NEW v \in Vals, NEW fly \in BOOLEAN, NEW earlier \in BOOLEAN,
           Telemetry(f, v, fly, earlier)
    PROVE  IInv'
<1> DEFINE o == IF earlier THEN Reset(Now) ELSE Now
           s == CheckRecord(o, TRUE, fly, mandala')
           u == [s EXCEPT !.based = TRUE]
           t == WriteChanged(u, Only(f, v))
<1>1. /\ mandala' = [mandala EXCEPT ![f] = v] /\ flying' = fly
      /\ UNCHANGED <<config, dbVars, confLate>>
      /\ Become(t)
      BY DEF Telemetry
<1>2. /\ mandala' \in Values /\ Only(f, v) \in Values
      /\ Onto(mandala, Only(f, v)) = mandala' /\ Onto(mandala', Only(f, v)) = mandala'
  <2>1. mandala' \in Values /\ Only(f, v) \in Values
        BY <1>1, NowFacts, OnlyType
  <2>2. [mandala' EXCEPT ![f] = v] = mandala'
        BY <1>1, <2>1, NowFacts DEF Values
  <2> QED BY <1>1, <2>1, <2>2, NowFacts, OnlyType
<1>3. inputs' \in 0 .. MaxInputs
      BY InputType DEF Telemetry
<1>4. /\ flying' \in BOOLEAN /\ config' \in Configs \cup {None} /\ confLate' \in BOOLEAN
      BY <1>1 DEF IInv, TypeOK
<1>5. UNCHANGED <<rows, saved, enabled, vanished>> /\ posted' = posted
      BY <1>1 DEF dbVars
<1>6. /\ Good(o, posted, {})
      /\ o.reqNew = Now.reqNew /\ o.pending = Now.pending
      /\ o.known = Now.known /\ o.confHash = Now.confHash
  <2>1. CASE earlier
    <3>1. o = Reset(Now)
          BY <2>1
    <3> HIDE DEF o
    <3>2. /\ o \in State
          /\ o.recID = 0 /\ o.reqNew = Now.reqNew /\ o.pending = Now.pending
          /\ o.known = Now.known /\ o.confHash = Now.confHash
          /\ o.late = (Now.late \/ Now.reqNew)
          /\ o.gaps = Now.gaps /\ o.mute = Now.mute /\ o.queue = Now.queue
          BY <3>1, NowFacts, ResetFacts
    <3>3. Good(o, posted, {})
          BY <3>2, NowFacts, RestartGood
    <3> QED BY <3>2, <3>3
  <2>2. CASE ~earlier
    <3>1. o = Now
          BY <2>2
    <3> HIDE DEF o
    <3> QED BY <3>1, NowFacts
  <2> QED BY <2>1, <2>2
<1> HIDE DEF o
<1>7. Checked(o, s, posted, {}, mandala')
      BY <1>2, <1>6, NowFacts, CheckRecordChecks
<1> HIDE DEF s
<1>8. /\ Good(s, posted, {})
      /\ s.recID # 0 \/ s.reqNew
      /\ s.reqNew \/ (~o.reqNew /\ s.pending = o.pending)
      /\ s.known \in {o.known, mandala'}
      /\ s.confHash = o.confHash
      BY <1>7 DEF Checked
<1>9. /\ u \in State
      /\ u.recording = s.recording /\ u.recID = s.recID /\ u.reqNew = s.reqNew
      /\ u.pending = s.pending /\ u.known = s.known /\ u.confHash = s.confHash
      /\ u.era = s.era /\ u.late = s.late /\ u.gaps = s.gaps /\ u.mute = s.mute
      /\ u.queue = s.queue
      BY <1>8 DEF Good, Sound, State
<1> HIDE DEF u
<1>10. Good(u, posted, {})
       BY <1>8, <1>9, SameGood
<1>11. u.recID # 0 \/ u.reqNew
       BY <1>8, <1>9
<1>12. /\ Good(t, posted, {})
       /\ t.recID = u.recID /\ t.reqNew = u.reqNew
       /\ u.recID # 0 => t.pending = u.pending
       /\ t.known = Onto(u.known, Only(f, v)) /\ t.confHash = u.confHash
       BY <1>2, <1>10, <1>11, NowFacts, WriteChangedGood
<1> HIDE DEF t
<1>13. t.reqNew \/ t.pending = <<>>
       BY <1>6, <1>8, <1>9, <1>12, NowFacts
<1>14. t.known = mandala'
       BY <1>2, <1>6, <1>8, <1>9, <1>12, NowFacts
<1>15. confLate' \/ t.confHash = config'
       BY <1>1, <1>6, <1>8, <1>9, <1>12, NowFacts DEF IInv, KnownInv
<1> QED BY <1>1, <1>2, <1>3, <1>4, <1>5, <1>12, <1>13, <1>14, <1>15, BecomeInv

\* Others queue their requests.
LEMMA OtherInv ==
    ASSUME IInv, NEW r \in Requests, ~Own(r), r.kind # "write", OtherRequest(r)
    PROVE  IInv'
<1> DEFINE q == Append(queue, r)
           t == [Now EXCEPT !.queue = q]
           s == Now
           n == Len(queue)
<1>1. /\ enabled /\ Become(t)
      /\ UNCHANGED <<mandala, flying, config, dbVars, confLate>>
  <2>1. [Now EXCEPT !.queue = Append(@, r)] = t
        BY NowFacts
  <2> QED BY <2>1 DEF OtherRequest
<1>2. Now \in State /\ Good(Now, posted, {}) /\ Now.queue = queue
      BY NowFacts
<1>3. queue \in Seq(Requests)
      BY <1>2 DEF State
<1>4. /\ n \in Nat /\ q \in Seq(Requests) /\ Len(q) = n + 1
      /\ \A i \in 1 .. n : q[i] = queue[i]
      /\ q[n + 1] = r
      /\ \A i \in 1 .. n + 1 : i \in 1 .. n \/ i = n + 1
      BY <1>3, AppendFacts
<1> HIDE DEF q
<1>5. /\ t \in State /\ t.queue = q
      /\ t.recording = s.recording /\ t.recID = s.recID /\ t.reqNew = s.reqNew
      /\ t.pending = s.pending /\ t.known = s.known /\ t.confHash = s.confHash
      /\ t.era = s.era /\ t.late = s.late /\ t.gaps = s.gaps /\ t.mute = s.mute
      BY <1>2, <1>4 DEF State
<1> HIDE DEF t
<1>6. s.queue = queue /\ Sound(s, posted, {}) /\ ConfInv(s) /\ n = Len(queue)
      BY <1>2 DEF Good
<1> HIDE DEF s, n
<1>7. \A i \in 1 .. Len(q) : Own(q[i]) \/ q[i].kind = "write" =>
          i \in 1 .. n /\ i \in 1 .. Len(queue) /\ q[i] = queue[i]
      BY <1>4, <1>6
<1>8. OneInv(t, posted)
      BY <1>5, <1>6, <1>7 DEF Sound, OneInv
<1>9. AwaitInv(t, posted)
  <2>1. \A i \in 1 .. Len(queue) : i \in 1 .. Len(q) /\ q[i] = queue[i]
        BY <1>4, <1>6
  <2> QED BY <2>1, <1>1, <1>5, <1>6 DEF Sound, AwaitInv
<1>10. EraInv(t, posted)
  <2>1. Mark(t) = Mark(s)
        BY <1>5 DEF Mark, Item
  <2> QED BY <2>1, <1>5, <1>6, <1>7 DEF Sound, EraInv
<1>11. FreshInv(t, posted)
  <2>1. ASSUME NEW i \in 1 .. Len(q), NEW j \in 1 .. Len(q), Own(q[i]), i < j,
               q[j].kind = "write", q[j].id # 0
        PROVE  Blank(q[j])
        BY <2>1, <1>6, <1>7 DEF Sound, FreshInv
  <2>2. \A j \in 1 .. Len(q) : q[j].kind = "write" => j \in 1 .. Len(queue) /\ q[j] = queue[j]
        BY <1>7
  <2> QED BY <2>1, <2>2, <1>5, <1>6 DEF Sound, FreshInv
<1>12. PlayInv(t, {})
  <2> SUFFICES ASSUME ~s.gaps, s.recID # 0, NEW f \in Facts
               PROVE  Ends(ValsTo(q, s.recID, f), Len(q), rows[s.recID].play[f], 0, s.known[f])
      BY <1>5, <1>6 DEF Sound, PlayInv, Plays
  <2> DEFINE h == ValsTo(queue, s.recID, f)
             g == ValsTo(q, s.recID, f)
  <2>1. Ends(h, n, rows[s.recID].play[f], 0, s.known[f])
        BY <1>6 DEF Sound, PlayInv, Plays
  <2>2. (\A i \in 1 .. n : g[i] = h[i]) /\ g[n + 1] = 0
        BY <1>4, <1>6 DEF ValsTo
  <2> HIDE DEF g, h
  <2>3. Ends(g, n + 1, rows[s.recID].play[f], 0, s.known[f])
        BY <1>4, <2>1, <2>2, EndsBlank
  <2> QED BY <2>3, <1>4 DEF g
<1>13. ConfInv(t)
  <2> SUFFICES ASSUME ~s.gaps, s.recID # 0
               PROVE  Ends(ConfsTo(q, s.recID), Len(q), rows[s.recID].conf, None, s.confHash)
      BY <1>5 DEF ConfInv
  <2> DEFINE h == ConfsTo(queue, s.recID)
             g == ConfsTo(q, s.recID)
  <2>1. Ends(h, n, rows[s.recID].conf, None, s.confHash)
        BY <1>6 DEF ConfInv
  <2>2. (\A i \in 1 .. n : g[i] = h[i]) /\ g[n + 1] = None
        BY <1>4, <1>6 DEF ConfsTo
  <2> HIDE DEF g, h
  <2>3. Ends(g, n + 1, rows[s.recID].conf, None, s.confHash)
        BY <1>4, <2>1, <2>2, EndsBlank
  <2> QED BY <2>3, <1>4 DEF g
<1>14. Good(t, posted, {})
       BY <1>5, <1>6, <1>8, <1>9, <1>10, <1>11, <1>12, <1>13 DEF Good, Sound
<1>15. inputs' \in 0 .. MaxInputs
       BY InputType DEF OtherRequest
<1>16. t.known = mandala' /\ (confLate' \/ t.confHash = config') /\ (t.reqNew \/ t.pending = <<>>)
       BY <1>1, <1>5, NowFacts DEF IInv, KnownInv, s
<1>17. /\ mandala' \in Values /\ flying' \in BOOLEAN /\ config' \in Configs \cup {None}
       /\ confLate' \in BOOLEAN
       BY <1>1 DEF IInv, TypeOK
<1>18. UNCHANGED <<rows, saved, enabled, vanished>> /\ posted' = posted
       BY <1>1 DEF dbVars
<1> QED BY <1>1, <1>14, <1>15, <1>16, <1>17, <1>18, BecomeInv

\* dbRecordCreated() gives
CreatedIs(s, t, S) ==
    /\ s.reqNew
    /\ Good(t, Tail(S), {})
    /\ t.pending = <<>> /\ t.known = s.known
    /\ t.confHash = s.confHash \/ (t.recID = 0 /\ t.confHash = None)

LEMMA CreatedInv ==
    ASSUME IInv, NEW tele \in BOOLEAN, NEW mission \in BOOLEAN, RecordCreated(tele, mission)
    PROVE  IInv'
<1> DEFINE k == Head(posted)
           c == Adopt(Now, k)
           m == IF mission THEN WriteEvent(c, tele, flying, Now.known, None) ELSE c
           r == RecordConfig(m, tele, flying, Now.known, Now.confHash)
           t == Exec(SendPending(r),
                     [kind |-> "write", id |-> k, item |-> Item(c, Nothing, None)])
<1>1. posted # <<>> /\ Head(posted) # 0 /\ posted' = Tail(posted) /\ flying \in BOOLEAN
      BY DEF RecordCreated, IInv, TypeOK
<1>2. CreatedIs(Now, t, posted)
      BY <1>1, NowFacts, CreatedGood DEF CreatedIs
<1>3. Now.known = mandala /\ Now.confHash = confHash /\ Now.reqNew = reqNew
      BY NowFacts
<1>4. reqNew
      BY <1>2, <1>3 DEF CreatedIs
<1>5. Become(t)
      BY <1>3, <1>4 DEF RecordCreated
<1> HIDE DEF t
<1>6. /\ confLate' = (confLate \/ (recID' = 0 /\ confHash # None))
      /\ UNCHANGED <<mandala, flying, config, rows, saved, enabled, vanished, inputs>>
      BY DEF RecordCreated
<1>7. Good(t, posted', {}) /\ t.known = mandala' /\ (t.reqNew \/ t.pending = <<>>)
      BY <1>1, <1>2, <1>3, <1>6 DEF CreatedIs
<1>8. confLate' \/ t.confHash = config'
  <2>1. confLate \/ confHash = config
        BY DEF IInv, KnownInv
  <2>2. recID' = t.recID
        BY <1>5 DEF Become
  <2> QED BY <1>2, <1>3, <1>6, <2>1, <2>2 DEF CreatedIs
<1>9. /\ mandala' \in Values /\ flying' \in BOOLEAN /\ config' \in Configs \cup {None}
      /\ inputs' \in 0 .. MaxInputs
      BY <1>6 DEF IInv, TypeOK
<1>10. confLate' \in BOOLEAN
       BY <1>6
<1> QED BY <1>5, <1>6, <1>7, <1>8, <1>9, <1>10, BecomeInv

LEMMA InvalidatedInv ==
    ASSUME IInv, Invalidated
    PROVE  IInv'
<1> DEFINE t == Reset(Now)
           R == Tail(posted)
<1>1. /\ posted # <<>> /\ Head(posted) = 0 /\ posted' = R /\ Become(t)
      /\ UNCHANGED <<mandala, flying, config, rows, saved, enabled, vanished,
                     confLate, inputs>>
      BY DEF Invalidated
<1>2. /\ t \in State
      /\ t.recID = 0 /\ t.reqNew = Now.reqNew /\ t.pending = Now.pending
      /\ t.known = Now.known /\ t.confHash = Now.confHash
      /\ t.late = (Now.late \/ Now.reqNew)
      /\ t.gaps = Now.gaps /\ t.mute = Now.mute /\ t.queue = Now.queue
      BY NowFacts, ResetFacts
<1> HIDE DEF t
<1>3. Good(t, posted, {})
      BY <1>2, NowFacts, RestartGood
<1>4. /\ posted \in Seq(Keys \cup {0}) /\ R \in Seq(Keys \cup {0})
      /\ 1 \in 1 .. Len(posted) /\ posted[1] = 0
      /\ \A i \in 1 .. Len(R) : i + 1 \in 1 .. Len(posted) /\ R[i] = posted[i + 1]
      /\ \A i \in 1 .. Len(posted) : i # 1 => i - 1 \in 1 .. Len(R) /\ posted[i] = R[i - 1]
  <2>1. posted \in Seq(Keys \cup {0})
        BY <1>3 DEF Good, Sound
  <2> QED BY <1>1, <2>1
<1> HIDE DEF R
<1>5. OneInv(t, R)
  <2>1. ~t.reqNew => \A i \in 1 .. Len(R) : R[i] = 0
        BY <1>3, <1>4 DEF Good, Sound, OneInv
  <2>2. ASSUME NEW i \in 1 .. Len(R), NEW j \in 1 .. Len(R), R[i] # 0, R[j] # 0
        PROVE  i = j
    <3>1. /\ i + 1 \in 1 .. Len(posted) /\ posted[i + 1] # 0
          /\ j + 1 \in 1 .. Len(posted) /\ posted[j + 1] # 0
          BY <1>4, <2>2
    <3>2. i + 1 = j + 1
          BY <3>1, <1>3 DEF Good, Sound, OneInv
    <3> QED BY <3>2
  <2>3. \A i \in 1 .. Len(t.queue), j \in 1 .. Len(R) : ~(Own(t.queue[i]) /\ R[j] # 0)
        BY <1>3, <1>4 DEF Good, Sound, OneInv
  <2> QED BY <1>3, <2>1, <2>2, <2>3 DEF Good, Sound, OneInv
<1>6. AwaitInv(t, R)
  <2>1. ASSUME NEW i \in 1 .. Len(posted), posted[i] # 0
        PROVE  \E j \in 1 .. Len(R) : R[j] # 0
        BY <1>4, <2>1
  <2> QED BY <1>3, <2>1 DEF Good, Sound, AwaitInv
<1>7. EraInv(t, R) /\ FreshInv(t, R)
  <2>1. EraInv(t, posted) /\ FreshInv(t, posted)
        BY <1>3 DEF Good, Sound
  <2>2. EraInv(t, R)
        BY <1>4, <2>1 DEF EraInv
  <2>3. FreshInv(t, R)
    <3>1. ASSUME ~t.gaps, NEW i \in 1 .. Len(R), R[i] # 0
          PROVE  /\ rows[R[i]] # None /\ rows[R[i]].play = Nothing /\ rows[R[i]].conf = None
                 /\ \A j \in 1 .. Len(t.queue) :
                       t.queue[j].kind = "write" /\ t.queue[j].id = R[i] => Blank(t.queue[j])
      <4>1. i + 1 \in 1 .. Len(posted) /\ R[i] = posted[i + 1] /\ posted[i + 1] # 0
            BY <1>4, <3>1
      <4> QED BY <3>1, <4>1, <2>1 DEF FreshInv
    <3> QED BY <2>1, <3>1 DEF FreshInv
  <2> QED BY <2>2, <2>3
<1>8. Good(t, posted', {})
      BY <1>1, <1>2, <1>3, <1>4, <1>5, <1>6, <1>7 DEF Good, Sound
<1>9. t.known = mandala' /\ (confLate' \/ t.confHash = config') /\ (t.reqNew \/ t.pending = <<>>)
      BY <1>1, <1>2, NowFacts DEF IInv, KnownInv
<1>10. /\ mandala' \in Values /\ flying' \in BOOLEAN /\ config' \in Configs \cup {None}
       /\ confLate' \in BOOLEAN /\ inputs' \in 0 .. MaxInputs
       BY <1>1 DEF IInv, TypeOK
<1> QED BY <1>1, <1>8, <1>9, <1>10, BecomeInv

-----------------------------------------------------------------------------
(* The steps of the worker *)

\* The first request is taken from the queue, the recorder does nothing.
Pops == queue # <<>> /\ queue' = Tail(queue) /\ UNCHANGED workVars

LEMMA PopFacts ==
    ASSUME IInv, Pops
    PROVE  /\ queue \in Seq(Requests) /\ queue' \in Seq(Requests)
           /\ Len(queue') \in Nat /\ Len(queue) = Len(queue') + 1
           /\ 1 \in 1 .. Len(queue) /\ Head(queue) = queue[1]
           /\ \A i \in 1 .. Len(queue') : i + 1 \in 1 .. Len(queue) /\ queue'[i] = queue[i + 1]
           /\ \A i \in 1 .. Len(queue) :
                  i # 1 => i - 1 \in 1 .. Len(queue') /\ queue[i] = queue'[i - 1]
<1>1. queue \in Seq(Requests)
      BY DEF IInv, TypeOK
<1> QED BY <1>1 DEF Pops

\* The parts of the invariant, in terms of the variables
LEMMA NowIs ==
    /\ Now.recording = recording /\ Now.recID = recID /\ Now.reqNew = reqNew
    /\ Now.pending = pending /\ Now.known = known /\ Now.confHash = confHash
    /\ Now.era = era /\ Now.late = late /\ Now.gaps = gaps /\ Now.mute = mute
    /\ Now.queue = queue
BY DEF Now

LEMMA NextIs ==
    ASSUME UNCHANGED workVars
    PROVE  /\ Now'.recID = recID /\ Now'.reqNew = reqNew
           /\ Now'.pending = pending /\ Now'.known = known /\ Now'.confHash = confHash
           /\ Now'.gaps = gaps' /\ Now'.mute = mute' /\ Now'.queue = queue'
           /\ Mark(Now)' = Mark(Now)
BY DEF Now, workVars, Mark, Item, Nothing

LEMMA ZeroPosted ==
    ASSUME IInv, posted' = posted \/ posted' = Append(posted, 0)
    PROVE  /\ posted' \in Seq(Keys \cup {0})
           /\ \A i \in 1 .. Len(posted') :
                 posted'[i] # 0 => i \in 1 .. Len(posted) /\ posted'[i] = posted[i]
           /\ \A i \in 1 .. Len(posted) : i \in 1 .. Len(posted') /\ posted'[i] = posted[i]
<1>1. posted \in Seq(Keys \cup {0})
      BY DEF IInv, TypeOK
<1> QED BY <1>1

LEMMA PopOne ==
    ASSUME IInv, Pops, posted' = posted \/ posted' = Append(posted, 0),
           mute => mute', Own(Head(queue)) => mute', enabled'
    PROVE  OneInv(Now, posted)' /\ AwaitInv(Now, posted)'
<1>1. /\ OneInv(Now, posted) /\ AwaitInv(Now, posted)
      /\ reqNew \in BOOLEAN
      BY DEF IInv, Good, Sound, TypeOK
<1>2. UNCHANGED workVars
      BY DEF Pops
<1>3. OneInv(Now, posted)'
  <2>1. reqNew => recID = 0
        BY <1>1, NowIs DEF OneInv
  <2>2. ~reqNew => /\ \A i \in 1 .. Len(queue') : ~Own(queue'[i])
                   /\ \A i \in 1 .. Len(posted') : posted'[i] = 0
        BY <1>1, NowIs, PopFacts, ZeroPosted DEF OneInv
  <2>3. ASSUME NEW i \in 1 .. Len(queue'), NEW j \in 1 .. Len(queue'),
               Own(queue'[i]), Own(queue'[j])
        PROVE  i = j
    <3>1. /\ i + 1 \in 1 .. Len(queue) /\ Own(queue[i + 1])
          /\ j + 1 \in 1 .. Len(queue) /\ Own(queue[j + 1])
          BY <2>3, PopFacts
    <3>2. i + 1 = j + 1
          BY <3>1, <1>1, NowIs DEF OneInv
    <3> QED BY <3>2
  <2>4. \A i, j \in 1 .. Len(posted') : posted'[i] # 0 /\ posted'[j] # 0 => i = j
        BY <1>1, ZeroPosted DEF OneInv
  <2>5. ASSUME NEW i \in 1 .. Len(queue'), NEW j \in 1 .. Len(posted'),
               Own(queue'[i]), posted'[j] # 0
        PROVE  FALSE
    <3>1. i + 1 \in 1 .. Len(queue) /\ Own(queue[i + 1])
          BY <2>5, PopFacts
    <3>2. j \in 1 .. Len(posted) /\ posted[j] # 0
          BY <2>5, ZeroPosted
    <3> QED BY <3>1, <3>2, <1>1, NowIs DEF OneInv
  <2> QED BY <1>2, <2>1, <2>2, <2>3, <2>4, <2>5, NextIs DEF OneInv, Own
<1>4. AwaitInv(Now, posted)'
  <2>1. ASSUME reqNew
        PROVE  \/ \E i \in 1 .. Len(queue') : Own(queue'[i])
               \/ \E i \in 1 .. Len(posted') : posted'[i] # 0
               \/ mute'
    <3>1. CASE \E i \in 1 .. Len(queue) : Own(queue[i])
      <4>1. PICK i \in 1 .. Len(queue) : Own(queue[i])
            BY <3>1
      <4>2. CASE i = 1
            BY <4>1, <4>2, PopFacts
      <4>3. CASE i # 1
            BY <4>1, <4>3, PopFacts
      <4> QED BY <4>2, <4>3
    <3>2. CASE \E i \in 1 .. Len(posted) : posted[i] # 0
          BY <3>2, ZeroPosted
    <3>3. CASE mute
          BY <3>3
    <3> QED BY <2>1, <3>1, <3>2, <3>3, <1>1, NowIs DEF AwaitInv
  <2> QED BY <1>2, <2>1, NextIs DEF AwaitInv, Own
<1> QED BY <1>3, <1>4

\* What may be sent to a record may still be.
RightNext(k, x) ==
    k # 0 /\ k \notin vanished' =>
        rows'[k] # None /\ rows'[k].mine /\ Fits(x, rows'[k])

RightStays == \A x : \A k \in Keys \cup {0} : Right(k, x) => RightNext(k, x)

LEMMA PopEra ==
    ASSUME IInv, Pops, posted' = posted \/ posted' = Append(posted, 0), RightStays
    PROVE  EraInv(Now, posted)'
<1> DEFINE m == Mark(Now)
<1>1. /\ Right(recID, m)
      /\ \A i \in 1 .. Len(queue) :
            /\ queue[i].kind = "write" => Right(queue[i].id, queue[i].item)
            /\ Own(queue[i]) => /\ Fits(m, queue[i])
                                /\ \A j \in 1 .. Len(pending) : Fits(pending[j], queue[i])
      /\ \A i \in 1 .. Len(posted) :
            /\ Right(posted[i], m)
            /\ \A j \in 1 .. Len(pending) : Right(posted[i], pending[j])
      BY NowIs DEF IInv, Good, Sound, EraInv
<1>2. UNCHANGED workVars /\ Mark(Now)' = m
      BY NextIs DEF Pops
<1> HIDE DEF m
<1>3. RightNext(recID, m)
      BY <1>1 DEF RightStays, IInv, TypeOK
<1>4. ASSUME NEW i \in 1 .. Len(queue')
      PROVE  /\ queue'[i].kind = "write" => RightNext(queue'[i].id, queue'[i].item)
             /\ Own(queue'[i]) => /\ Fits(m, queue'[i])
                                  /\ \A j \in 1 .. Len(pending) : Fits(pending[j], queue'[i])
  <2>1. i + 1 \in 1 .. Len(queue) /\ queue'[i] = queue[i + 1] /\ queue[i + 1] \in Requests
        BY PopFacts
  <2>2. queue'[i].kind = "write" => queue'[i].id \in Keys \cup {0}
        BY <2>1, RequestFields
  <2> QED BY <1>1, <2>1, <2>2 DEF RightStays
<1>5. ASSUME NEW i \in 1 .. Len(posted')
      PROVE  /\ RightNext(posted'[i], m)
             /\ \A j \in 1 .. Len(pending) : RightNext(posted'[i], pending[j])
  <2>1. CASE posted'[i] = 0
        BY <2>1 DEF RightNext
  <2>2. CASE posted'[i] # 0
    <3>1. i \in 1 .. Len(posted) /\ posted'[i] = posted[i]
          BY <2>2, ZeroPosted
    <3>2. posted[i] \in Keys \cup {0}
          BY <3>1 DEF IInv, TypeOK
    <3> QED BY <1>1, <3>1, <3>2 DEF RightStays
  <2> QED BY <2>1, <2>2
<1> QED BY <1>2, <1>3, <1>4, <1>5, NextIs DEF EraInv, Right, RightNext, Own, Fits

\* What is under way to a record that is about to be the present one
LEMMA PopFresh ==
    ASSUME IInv, Pops, posted' = posted \/ posted' = Append(posted, 0),
           gaps' = gaps \/ gaps' = TRUE,
           ~gaps' => \A i \in 1 .. Len(posted) : posted[i] # 0 =>
                        /\ rows'[posted[i]] # None
                        /\ rows'[posted[i]].play = Nothing /\ rows'[posted[i]].conf = None
    PROVE  FreshInv(Now, posted)'
<1>1. /\ \A i, j \in 1 .. Len(queue) :
            /\ Own(queue[i]) /\ i < j
            /\ queue[j].kind = "write" /\ queue[j].id # 0
            => Blank(queue[j])
      /\ ~gaps => \A i \in 1 .. Len(posted) : posted[i] # 0 =>
            /\ rows[posted[i]] # None /\ rows[posted[i]].play = Nothing /\ rows[posted[i]].conf = None
            /\ \A j \in 1 .. Len(queue) :
                  queue[j].kind = "write" /\ queue[j].id = posted[i] => Blank(queue[j])
      /\ \A j \in 1 .. Len(pending) : pending[j].conf = None
      BY NowIs DEF IInv, Good, Sound, FreshInv
<1>2. UNCHANGED workVars
      BY DEF Pops
<1>3. ASSUME NEW i \in 1 .. Len(queue'), NEW j \in 1 .. Len(queue'),
             Own(queue'[i]), i < j, queue'[j].kind = "write", queue'[j].id # 0
      PROVE  Blank(queue'[j])
  <2>1. /\ i + 1 \in 1 .. Len(queue) /\ queue'[i] = queue[i + 1]
        /\ j + 1 \in 1 .. Len(queue) /\ queue'[j] = queue[j + 1]
        /\ i + 1 < j + 1
        BY <1>3, PopFacts
  <2> QED BY <1>1, <1>3, <2>1
<1>4. ASSUME ~gaps', NEW i \in 1 .. Len(posted'), posted'[i] # 0
      PROVE  /\ rows'[posted'[i]] # None
             /\ rows'[posted'[i]].play = Nothing /\ rows'[posted'[i]].conf = None
             /\ \A j \in 1 .. Len(queue') :
                   queue'[j].kind = "write" /\ queue'[j].id = posted'[i] => Blank(queue'[j])
  <2>1. i \in 1 .. Len(posted) /\ posted'[i] = posted[i]
        BY <1>4, ZeroPosted
  <2>2. ~gaps
        BY <1>4
  <2>3. ASSUME NEW j \in 1 .. Len(queue'), queue'[j].kind = "write", queue'[j].id = posted'[i]
        PROVE  Blank(queue'[j])
    <3>1. j + 1 \in 1 .. Len(queue) /\ queue'[j] = queue[j + 1]
          BY PopFacts
    <3> QED BY <1>1, <1>4, <2>1, <2>2, <2>3, <3>1
  <2> QED BY <1>4, <2>1, <2>3
<1> QED BY <1>1, <1>2, <1>3, <1>4, NextIs DEF FreshInv, Own, Blank, Nothing

\* What comes of the present record if the request r is carried out
After(r, k, base, val, blank) ==
    IF r.kind = "write" /\ r.id = k /\ val # blank THEN val ELSE base

LEMMA PopPlay ==
    ASSUME IInv, Pops, gaps' = gaps \/ gaps' = TRUE,
           ~gaps' /\ recID # 0 =>
               /\ rows'[recID] # None
               /\ \A f \in Facts :
                     rows'[recID].play[f] =
                         After(Head(queue), recID, rows[recID].play[f], Head(queue).item.vals[f], 0)
               /\ rows'[recID].conf =
                     After(Head(queue), recID, rows[recID].conf, Head(queue).item.conf, None)
    PROVE  PlayInv(Now, {})' /\ ConfInv(Now)'
<1>1. UNCHANGED workVars
      BY DEF Pops
<1>2. ~gaps =>
         /\ recID # 0 => rows[recID] # None
         /\ recID # 0 \/ reqNew => \A f \in Facts : Plays(Now, f)
      BY NowIs DEF IInv, Good, Sound, PlayInv
<1>3. recID # 0 /\ ~gaps =>
        Ends(ConfsTo(queue, recID), Len(queue), rows[recID].conf, None, confHash)
      BY NowIs DEF IInv, Good, ConfInv
<1> DEFINE n == Len(queue')
<1>4. n \in Nat /\ n = Len(queue') /\ Len(queue) = n + 1
      BY PopFacts
<1> HIDE DEF n
<1>5. ASSUME ~gaps', recID # 0, NEW f \in Facts
      PROVE  Ends(ValsTo(queue', recID, f), n, rows'[recID].play[f], 0, known[f])
  <2> DEFINE h == ValsTo(queue, recID, f)
             g == ValsTo(queue', recID, f)
  <2>1. Ends(h, n + 1, rows[recID].play[f], 0, known[f])
        BY <1>2, <1>4, <1>5, NowIs DEF Plays
  <2>2. \A i \in 1 .. n : g[i] = h[i + 1]
        BY <1>4, PopFacts DEF ValsTo
  <2>3. h[1] = IF Head(queue).kind = "write" /\ Head(queue).id = recID
               THEN Head(queue).item.vals[f] ELSE 0
        BY PopFacts DEF ValsTo
  <2> HIDE DEF g, h
  <2>4. Ends(g, n, IF h[1] = 0 THEN rows[recID].play[f] ELSE h[1], 0, known[f])
        BY <1>4, <2>1, <2>2, EndsTail
  <2>5. rows'[recID].play[f] = IF h[1] = 0 THEN rows[recID].play[f] ELSE h[1]
        BY <1>5, <2>3 DEF After
  <2> QED BY <2>4, <2>5 DEF g
<1>6. ASSUME ~gaps', recID # 0
      PROVE  Ends(ConfsTo(queue', recID), n, rows'[recID].conf, None, confHash)
  <2> DEFINE h == ConfsTo(queue, recID)
             g == ConfsTo(queue', recID)
  <2>1. Ends(h, n + 1, rows[recID].conf, None, confHash)
        BY <1>3, <1>4, <1>6
  <2>2. \A i \in 1 .. n : g[i] = h[i + 1]
        BY <1>4, PopFacts DEF ConfsTo
  <2>3. h[1] = IF Head(queue).kind = "write" /\ Head(queue).id = recID
               THEN Head(queue).item.conf ELSE None
        BY PopFacts DEF ConfsTo
  <2> HIDE DEF g, h
  <2>4. Ends(g, n, IF h[1] = None THEN rows[recID].conf ELSE h[1], None, confHash)
        BY <1>4, <2>1, <2>2, EndsTail
  <2>5. rows'[recID].conf = IF h[1] = None THEN rows[recID].conf ELSE h[1]
        BY <1>6, <2>3 DEF After
  <2> QED BY <2>4, <2>5 DEF g
<1>7. ASSUME ~gaps', recID = 0, reqNew, NEW f \in Facts
      PROVE  Ends(ValsOf(pending, f), Len(pending), 0, 0, known[f])
      BY <1>2, <1>7, NowIs DEF Plays
<1>8. PlayInv(Now, {})'
      BY <1>1, <1>4, <1>5, <1>7, NextIs DEF PlayInv, Plays
<1>9. ConfInv(Now)'
      BY <1>1, <1>4, <1>6, NextIs DEF ConfInv
<1> QED BY <1>8, <1>9

\* The key of a new record is after that of any record.
LEMMA NextKeyIs ==
    ASSUME Unused # {}
    PROVE  NextKey \in Keys /\ NextKey # 0 /\ rows[NextKey] = None
<1>1. Keys \subseteq Nat \ {0}
      BY KeysArePositive
<1>2. IsWellFoundedOn(OpToRel(<, Nat), Nat) /\ Unused \subseteq Nat
      BY <1>1, NatLessThanWellFounded DEF Unused
<1>3. PICK k \in Unused : \A j \in Unused : ~ (<<j, k>> \in OpToRel(<, Nat))
      BY <1>2, WFMin
<1>4. \A j \in Unused : ~(j < k)
  <2> TAKE j \in Unused
  <2>1. j \in Nat /\ k \in Nat
        BY <1>2
  <2> QED BY <2>1, <1>3 DEF OpToRel
<1>5. NextKey \in Unused
  <2>1. \A j \in Unused : k <= j
    <3> TAKE j \in Unused
    <3>1. j \in Nat /\ k \in Nat /\ ~(j < k)
          BY <1>2, <1>4
    <3> QED BY <3>1
  <2> QED BY <2>1 DEF NextKey
<1>6. NextKey \in Keys /\ NextKey >= NextKey
      BY <1>1, <1>5 DEF Unused
<1> QED BY <1>1, <1>5, <1>6 DEF Unused

\* What a step of the worker has to keep
LEMMA WorkerInv ==
    ASSUME IInv, UNCHANGED workVars,
           queue' \in Seq(Requests), posted' \in Seq(Keys \cup {0}),
           rows' \in [Keys -> Row \cup {None}], saved' \in [Keys -> Row \cup {None}],
           enabled' \in BOOLEAN, gaps' \in BOOLEAN, mute' \in BOOLEAN,
           vanished' \subseteq Keys, inputs' \in 0 .. MaxInputs,
           OneInv(Now, posted)', AwaitInv(Now, posted)', EraInv(Now, posted)',
           FreshInv(Now, posted)', PlayInv(Now, {})', ConfInv(Now)',
           SavedInv', OwnRecord', OneEraOneRecord'
    PROVE  IInv'
<1>1. TypeOK'
      BY DEF IInv, TypeOK, workVars
<1>2. Now' \in State
      BY <1>1 DEF TypeOK, Now, State
<1>3. KnownInv'
      BY DEF IInv, KnownInv, workVars
<1> QED BY <1>1, <1>2, <1>3 DEF IInv, Good, Sound

\* The records there are stay what they are.
Grows ==
    \A k \in Keys : rows[k] # None =>
        /\ rows'[k] # None
        /\ rows'[k].mine = rows[k].mine
        /\ rows'[k].on = rows[k].on
        /\ rows'[k].era = rows[k].era
        /\ rows[k].used => rows'[k].used
        /\ rows'[k].pure => rows[k].pure
        /\ rows'[k].kept => rows[k].kept

LEMMA GrowsFacts ==
    ASSUME IInv, Grows, vanished' = vanished, saved' = rows' \/ saved' = saved
    PROVE  RightStays /\ SavedInv'
<1>1. \A x : \A k \in Keys : Right(k, x) => RightNext(k, x)
      BY DEF Grows, Right, RightNext, Fits
<1>2. \A x : RightNext(0, x)
      BY DEF RightNext
<1>3. RightStays
      BY <1>1, <1>2 DEF RightStays
<1>4. SavedInv'
  <2>1. CASE saved' = rows'
        BY <2>1 DEF SavedInv
  <2>2. CASE saved' = saved
        BY <2>2 DEF IInv, SavedInv, Grows
  <2> QED BY <2>1, <2>2
<1> QED BY <1>3, <1>4

\* Records are undone or deleted.
Shrinks ==
    /\ \A k \in Keys : rows'[k] # None =>
        /\ rows[k] # None
        /\ rows'[k].mine = rows[k].mine
        /\ rows'[k].on = rows[k].on
        /\ rows'[k].era = rows[k].era
        /\ rows'[k].used => rows[k].used
        /\ rows[k].pure => rows'[k].pure
        /\ rows[k].kept => rows'[k].kept
    /\ vanished' = vanished \cup {k \in Keys : rows[k] # None /\ rows[k].mine /\ rows'[k] = None}

LEMMA ShrinksFacts ==
    ASSUME IInv, Shrinks
    PROVE  RightStays /\ OwnRecord' /\ OneEraOneRecord'
<1>1. \A x : \A k \in Keys : Right(k, x) => RightNext(k, x)
      BY DEF Shrinks, Right, RightNext, Fits
<1>2. \A x : RightNext(0, x)
      BY DEF RightNext
<1>3. RightStays
      BY <1>1, <1>2 DEF RightStays
<1>4. OwnRecord'
      BY DEF IInv, OwnRecord, Shrinks
<1>5. OneEraOneRecord'
      BY DEF IInv, OneEraOneRecord, Shrinks
<1> QED BY <1>3, <1>4, <1>5

\* What a request writes into its record
LEMMA RunWriteFacts ==
    ASSUME IInv, RunWrite
    PROVE  /\ Pops /\ Head(queue) \in Requests /\ Head(queue).kind = "write"
           /\ Head(queue).id \in Keys /\ Head(queue).id # 0
           /\ rows[Head(queue).id] # None
           /\ Head(queue).item \in Items
           /\ rows' \in [Keys -> Row \cup {None}]
           /\ \A k \in Keys : k # Head(queue).id => rows'[k] = rows[k]
           /\ rows'[Head(queue).id] # None
           /\ rows'[Head(queue).id].mine = rows[Head(queue).id].mine
           /\ rows'[Head(queue).id].on = rows[Head(queue).id].on
           /\ rows'[Head(queue).id].era = rows[Head(queue).id].era
           /\ rows'[Head(queue).id].play =
                 Onto(rows[Head(queue).id].play, Head(queue).item.vals)
           /\ rows'[Head(queue).id].conf =
                 IF Head(queue).item.conf = None THEN rows[Head(queue).id].conf
                 ELSE Head(queue).item.conf
           /\ rows'[Head(queue).id].used
           /\ rows'[Head(queue).id].pure =
                 (/\ rows[Head(queue).id].pure
                  /\ \/ Head(queue).item.late
                     \/ Head(queue).item.era = rows[Head(queue).id].era)
           /\ rows'[Head(queue).id].kept =
                 (/\ rows[Head(queue).id].kept
                  /\ \/ Head(queue).item.late
                     \/ Head(queue).item.on = rows[Head(queue).id].on)
<1> DEFINE r == Head(queue)
           x == r.item
           o == rows[r.id]
           play == Onto(o.play, x.vals)
           conf == IF x.conf = None THEN o.conf ELSE x.conf
           pure == o.pure /\ (x.late \/ x.era = o.era)
           kept == o.kept /\ (x.late \/ x.on = o.on)
           n == [o EXCEPT !.play = play, !.conf = conf, !.used = TRUE,
                          !.pure = pure, !.kept = kept]
<1>1. Pops /\ r.kind = "write" /\ r.id \in Keys /\ o # None
      BY DEF RunWrite, Pops
<1>2. rows' = [rows EXCEPT ![r.id] = n]
      BY DEF RunWrite, Batched, Written
<1>3. r \in Requests /\ rows \in [Keys -> Row \cup {None}]
      BY <1>1, PopFacts DEF IInv, TypeOK
<1>4. x \in Items /\ o \in Row /\ r.id # 0
      BY <1>1, <1>3, RequestFields, KeysArePositive
<1>5. play \in Values /\ conf \in Configs \cup {None} /\ pure \in BOOLEAN /\ kept \in BOOLEAN
  <2>1. o.play \in Values /\ x.vals \in Values /\ o.conf \in Configs \cup {None}
        BY <1>4 DEF Items, Row
  <2>2. x.conf \in Configs \cup {None} /\ o.pure \in BOOLEAN /\ o.kept \in BOOLEAN
        BY <1>4 DEF Items, Row
  <2> QED BY <2>1, <2>2 DEF Onto, Values
<1> HIDE DEF play, conf, pure, kept
<1>6. /\ n \in Row /\ n.mine = o.mine /\ n.on = o.on /\ n.era = o.era
      /\ n.play = play /\ n.conf = conf /\ n.used = TRUE /\ n.pure = pure /\ n.kept = kept
      BY <1>4, <1>5 DEF Row
<1> HIDE DEF n
<1>7. n # None
      BY <1>6, ConstantsAssumption
<1>8. /\ rows' \in [Keys -> Row \cup {None}]
      /\ rows'[r.id] = n
      /\ \A k \in Keys : k # r.id => rows'[k] = rows[k]
      BY <1>1, <1>2, <1>3, <1>6
<1> QED BY <1>1, <1>3, <1>4, <1>6, <1>7, <1>8 DEF play, conf, pure, kept

LEMMA RunWriteInv ==
    ASSUME IInv, RunWrite
    PROVE  IInv'
<1> DEFINE r == Head(queue)
           x == r.item
           id == r.id
<1>1. /\ Pops /\ r \in Requests /\ r.kind = "write" /\ id \in Keys /\ id # 0 /\ x \in Items
      /\ rows[id] # None /\ rows' \in [Keys -> Row \cup {None}]
      /\ \A k \in Keys : k # id => rows'[k] = rows[k]
      BY RunWriteFacts
<1>2. /\ rows'[id] # None /\ rows'[id].mine = rows[id].mine
      /\ rows'[id].on = rows[id].on /\ rows'[id].era = rows[id].era
      /\ rows'[id].play = Onto(rows[id].play, x.vals)
      /\ rows'[id].conf = IF x.conf = None THEN rows[id].conf ELSE x.conf
      /\ rows'[id].used
      BY RunWriteFacts
<1>3. /\ rows'[id].pure = (rows[id].pure /\ (x.late \/ x.era = rows[id].era))
      /\ rows'[id].kept = (rows[id].kept /\ (x.late \/ x.on = rows[id].on))
      BY RunWriteFacts
<1>4. /\ enabled /\ UNCHANGED <<workVars, posted, enabled, gaps, mute, vanished, inputs>>
      /\ saved' = rows' \/ saved' = saved
      BY DEF RunWrite, Batched
<1>5. r = queue[1] /\ 1 \in 1 .. Len(queue) /\ queue' \in Seq(Requests)
      BY <1>1, PopFacts
<1> HIDE DEF r
<1>6. Right(id, x)
      BY <1>1, <1>5, NowIs DEF IInv, Good, Sound, EraInv
<1>7. Grows
      BY <1>1, <1>2, <1>3 DEF Grows
<1>8. RightStays /\ SavedInv'
      BY <1>4, <1>7, GrowsFacts
<1>9. OwnRecord'
      BY <1>1, <1>2, <1>4, <1>6 DEF IInv, OwnRecord, Right
<1>10. OneEraOneRecord'
       BY <1>1, <1>2, <1>3, <1>4, <1>6 DEF IInv, OneEraOneRecord, Right, Fits
<1>11. ~Own(r)
       BY <1>1 DEF Own
<1>12. OneInv(Now, posted)' /\ AwaitInv(Now, posted)'
       BY <1>1, <1>4, <1>11, PopOne DEF r
<1>13. EraInv(Now, posted)'
       BY <1>1, <1>4, <1>8, PopEra
<1>14. FreshInv(Now, posted)'
  <2>1. ASSUME ~gaps', NEW i \in 1 .. Len(posted), posted[i] # 0
        PROVE  /\ rows'[posted[i]] # None
               /\ rows'[posted[i]].play = Nothing /\ rows'[posted[i]].conf = None
    <3>1. /\ rows[posted[i]] # None
          /\ rows[posted[i]].play = Nothing /\ rows[posted[i]].conf = None
          /\ id = posted[i] => Blank(r)
          BY <1>1, <1>4, <1>5, <2>1, NowIs DEF IInv, Good, Sound, FreshInv
    <3>2. posted[i] \in Keys
          BY <2>1 DEF IInv, TypeOK
    <3>3. CASE posted[i] # id
          BY <1>1, <3>1, <3>2, <3>3
    <3>4. CASE posted[i] = id
      <4>1. x.vals = Nothing /\ x.conf = None
            BY <3>1, <3>4 DEF Blank
      <4>2. Onto(Nothing, Nothing) = Nothing
            BY DEF Onto, Nothing
      <4> QED BY <1>2, <3>1, <3>4, <4>1, <4>2
    <3> QED BY <3>3, <3>4
  <2> QED BY <1>1, <1>4, <2>1, PopFresh
<1>15. PlayInv(Now, {})' /\ ConfInv(Now)'
  <2>1. ASSUME ~gaps', recID # 0
        PROVE  /\ rows'[recID] # None
               /\ \A f \in Facts :
                     rows'[recID].play[f] = After(r, recID, rows[recID].play[f], r.item.vals[f], 0)
               /\ rows'[recID].conf = After(r, recID, rows[recID].conf, r.item.conf, None)
    <3>1. recID \in Keys /\ rows[recID] # None
          BY <1>4, <2>1, NowIs DEF IInv, TypeOK, Good, Sound, PlayInv
    <3>2. CASE recID # id
          BY <1>1, <3>1, <3>2 DEF After
    <3>3. CASE recID = id
          BY <1>1, <1>2, <3>3 DEF After, Onto
    <3> QED BY <3>2, <3>3
  <2> QED BY <1>1, <1>4, <2>1, PopPlay DEF r
<1>16. /\ UNCHANGED workVars /\ posted' \in Seq(Keys \cup {0})
       /\ saved' \in [Keys -> Row \cup {None}]
       /\ enabled' \in BOOLEAN /\ gaps' \in BOOLEAN /\ mute' \in BOOLEAN
       /\ vanished' \subseteq Keys /\ inputs' \in 0 .. MaxInputs
       BY <1>1, <1>4 DEF IInv, TypeOK
<1> QED BY <1>1, <1>5, <1>8, <1>9, <1>10, <1>12, <1>13, <1>14, <1>15, <1>16, WorkerInv

\* A record that is made has a key of its own, and is empty.
LEMMA RunNewFacts ==
    ASSUME IInv, RunNew
    PROVE  /\ Pops /\ Head(queue) \in Requests /\ Head(queue).kind = "new"
           /\ NextKey \in Keys /\ NextKey # 0 /\ rows[NextKey] = None
           /\ rows' \in [Keys -> Row \cup {None}]
           /\ \A k \in Keys : k # NextKey => rows'[k] = rows[k]
           /\ rows'[NextKey] # None
           /\ rows'[NextKey].mine = Head(queue).mine
           /\ rows'[NextKey].on = Head(queue).on
           /\ rows'[NextKey].era = Head(queue).era
           /\ rows'[NextKey].play = Nothing
           /\ rows'[NextKey].conf = None
           /\ ~rows'[NextKey].used /\ rows'[NextKey].pure /\ rows'[NextKey].kept
           /\ posted' = IF Head(queue).mine THEN Append(posted, NextKey) ELSE posted
<1> DEFINE r == Head(queue)
           n == [mine |-> r.mine, on |-> r.on, era |-> r.era, play |-> Nothing,
                 conf |-> None, used |-> FALSE, pure |-> TRUE, kept |-> TRUE]
<1>1. Pops /\ r.kind = "new" /\ Unused # {}
      BY DEF RunNew, Pops
<1>2. rows' = [rows EXCEPT ![NextKey] = n]
      BY DEF RunNew, Batched
<1>3. r \in Requests /\ rows \in [Keys -> Row \cup {None}]
      BY <1>1, PopFacts DEF IInv, TypeOK
<1>4. NextKey \in Keys /\ NextKey # 0 /\ rows[NextKey] = None
      BY <1>1, NextKeyIs
<1>5. n \in Row
  <2>1. r.mine \in BOOLEAN /\ r.on \in BOOLEAN /\ r.era \in Nat
        BY <1>1, <1>3, RequestFields
  <2> QED BY <2>1, NothingType DEF Row
<1>6. posted' = IF r.mine THEN Append(posted, NextKey) ELSE posted
      BY DEF RunNew, Announced
<1>7. n # None
      BY <1>5, ConstantsAssumption
<1>8. /\ rows' \in [Keys -> Row \cup {None}]
      /\ rows'[NextKey] = n
      /\ \A k \in Keys : k # NextKey => rows'[k] = rows[k]
      BY <1>2, <1>3, <1>4, <1>5
<1> QED BY <1>1, <1>3, <1>4, <1>6, <1>7, <1>8

\* The recorder's own record is made.
LEMMA OwnNew ==
    ASSUME IInv, RunNew, Own(Head(queue)), RightStays
    PROVE  /\ posted' \in Seq(Keys \cup {0})
           /\ OneInv(Now, posted)' /\ AwaitInv(Now, posted)'
           /\ EraInv(Now, posted)' /\ FreshInv(Now, posted)'
<1> DEFINE r == Head(queue)
           k == NextKey
           m == Mark(Now)
           n == Len(posted)
<1>1. /\ Pops /\ k \in Keys /\ k # 0
      /\ rows'[k] # None /\ rows'[k].mine
      /\ rows'[k].on = r.on /\ rows'[k].era = r.era
      /\ rows'[k].play = Nothing /\ rows'[k].conf = None
      /\ posted' = Append(posted, k)
      BY RunNewFacts DEF Own
<1>2. enabled' /\ UNCHANGED workVars
      BY DEF RunNew
<1>3. r = queue[1] /\ 1 \in 1 .. Len(queue)
      BY <1>1, PopFacts
<1> HIDE DEF k, r
<1>4. Own(queue[1])
      BY <1>3 DEF r
<1>5. /\ posted' \in Seq(Keys \cup {0}) /\ n \in Nat /\ Len(posted') = n + 1
      /\ posted'[n + 1] = k
      /\ \A i \in 1 .. Len(posted') : i # n + 1 => i \in 1 .. Len(posted) /\ posted'[i] = posted[i]
  <2>1. posted \in Seq(Keys \cup {0})
        BY DEF IInv, TypeOK
  <2> QED BY <1>1, <2>1
<1> HIDE DEF n
<1>6. /\ OneInv(Now, posted) /\ EraInv(Now, posted) /\ FreshInv(Now, posted)
      /\ reqNew \in BOOLEAN
      BY DEF IInv, Good, Sound, TypeOK
<1>7. /\ \A i \in 1 .. Len(queue') : ~Own(queue'[i])
      /\ \A i \in 1 .. Len(posted) : posted[i] = 0
      /\ reqNew /\ recID = 0
  <2>1. ASSUME NEW i \in 1 .. Len(queue'), Own(queue'[i])
        PROVE  FALSE
    <3>1. i + 1 \in 1 .. Len(queue) /\ Own(queue[i + 1])
          BY <1>1, <2>1, PopFacts
    <3>2. i + 1 = 1
          BY <1>3, <1>4, <1>6, <3>1, NowIs DEF OneInv
    <3> QED BY <3>2
  <2> QED BY <1>3, <1>4, <1>6, <2>1, NowIs DEF OneInv
<1>8. \A i \in 1 .. Len(posted') : posted'[i] # 0 => i = n + 1 /\ posted'[i] = k
      BY <1>5, <1>7
<1>9. OneInv(Now, posted)'
      BY <1>2, <1>7, <1>8, NextIs DEF OneInv, Own
<1>10. AwaitInv(Now, posted)'
  <2>1. n + 1 \in 1 .. Len(posted') /\ posted'[n + 1] # 0
        BY <1>1, <1>5
  <2> QED BY <1>2, <2>1 DEF AwaitInv
<1>11. EraInv(Now, posted)'
  <2>1. /\ RightNext(recID, m)
        BY <1>7 DEF RightNext
  <2>2. ASSUME NEW i \in 1 .. Len(queue'), queue'[i].kind = "write"
        PROVE  RightNext(queue'[i].id, queue'[i].item)
    <3>1. i + 1 \in 1 .. Len(queue) /\ queue'[i] = queue[i + 1] /\ queue[i + 1] \in Requests
          BY <1>1, PopFacts
    <3>2. Right(queue'[i].id, queue'[i].item) /\ queue'[i].id \in Keys \cup {0}
          BY <1>6, <2>2, <3>1, RequestFields, NowIs DEF EraInv
    <3> QED BY <3>2 DEF RightStays
  <2>3. Fits(m, r) /\ \A j \in 1 .. Len(pending) : Fits(pending[j], r)
        BY <1>3, <1>4, <1>6, NowIs DEF EraInv
  <2> HIDE DEF m
  <2>4. RightNext(k, m) /\ \A j \in 1 .. Len(pending) : RightNext(k, pending[j])
        BY <1>1, <2>3 DEF RightNext, Fits
  <2>5. ASSUME NEW i \in 1 .. Len(posted')
        PROVE  /\ RightNext(posted'[i], m)
               /\ \A j \in 1 .. Len(pending) : RightNext(posted'[i], pending[j])
    <3>1. CASE posted'[i] = 0
          BY <3>1 DEF RightNext
    <3>2. CASE posted'[i] # 0
          BY <1>8, <2>4, <3>2
    <3> QED BY <3>1, <3>2
  <2>6. Mark(Now)' = m
        BY <1>2, NextIs DEF m
  <2> QED BY <1>2, <1>7, <2>1, <2>2, <2>5, <2>6, NextIs
          DEF EraInv, Right, RightNext, Own, Fits
<1>12. FreshInv(Now, posted)'
  <2>1. ASSUME NEW j \in 1 .. Len(queue'), queue'[j].kind = "write", queue'[j].id = k
        PROVE  Blank(queue'[j])
    <3>1. j + 1 \in 1 .. Len(queue) /\ queue'[j] = queue[j + 1] /\ 1 < j + 1
          BY <1>1, PopFacts
    <3> QED BY <1>1, <1>3, <1>4, <1>6, <2>1, <3>1, NowIs DEF FreshInv
  <2>2. \A j \in 1 .. Len(pending) : pending[j].conf = None
        BY <1>6, NowIs DEF FreshInv
  <2> QED BY <1>1, <1>2, <1>7, <1>8, <2>1, <2>2, NextIs DEF FreshInv, Own, Blank, Nothing
<1> QED BY <1>5, <1>9, <1>10, <1>11, <1>12

LEMMA RunNewInv ==
    ASSUME IInv, RunNew
    PROVE  IInv'
<1> DEFINE r == Head(queue)
           k == NextKey
<1>1. /\ Pops /\ r \in Requests /\ r.kind = "new" /\ rows[k] = None
      /\ rows' \in [Keys -> Row \cup {None}]
      /\ \A j \in Keys : j # k => rows'[j] = rows[j]
      /\ k \in Keys /\ ~rows'[k].used /\ rows'[k].pure /\ rows'[k].kept
      /\ posted' = IF r.mine THEN Append(posted, k) ELSE posted
      BY RunNewFacts
<1>2. /\ enabled /\ UNCHANGED <<workVars, enabled, gaps, mute, vanished, inputs>>
      /\ saved' = rows' \/ saved' = saved
      BY DEF RunNew, Batched
<1> HIDE DEF k
<1>3. Grows
      BY <1>1 DEF Grows
<1>4. RightStays /\ SavedInv'
      BY <1>2, <1>3, GrowsFacts
<1>5. OwnRecord' /\ OneEraOneRecord'
      BY <1>1, <1>2 DEF IInv, OwnRecord, OneEraOneRecord
<1>6. PlayInv(Now, {})' /\ ConfInv(Now)'
  <2>1. ASSUME ~gaps', recID # 0
        PROVE  /\ rows'[recID] # None
               /\ \A f \in Facts :
                     rows'[recID].play[f] = After(r, recID, rows[recID].play[f], r.item.vals[f], 0)
               /\ rows'[recID].conf = After(r, recID, rows[recID].conf, r.item.conf, None)
    <3>1. recID \in Keys /\ rows[recID] # None
          BY <1>2, <2>1, NowIs DEF IInv, TypeOK, Good, Sound, PlayInv
    <3>2. rows'[recID] = rows[recID]
          BY <1>1, <3>1
    <3> HIDE DEF r
    <3> QED BY <1>1, <3>1, <3>2 DEF After
  <2> QED BY <1>1, <1>2, <2>1, PopPlay
<1>7. /\ posted' \in Seq(Keys \cup {0})
      /\ OneInv(Now, posted)' /\ AwaitInv(Now, posted)'
      /\ EraInv(Now, posted)' /\ FreshInv(Now, posted)'
  <2>1. CASE Own(r)
        BY <1>4, <2>1, OwnNew
  <2>2. CASE ~Own(r)
    <3>1. posted' = posted /\ enabled' /\ posted' \in Seq(Keys \cup {0})
          BY <1>1, <1>2, <2>2 DEF Own, IInv, TypeOK
    <3>2. OneInv(Now, posted)' /\ AwaitInv(Now, posted)'
          BY <1>1, <1>2, <2>2, <3>1, PopOne
    <3>3. EraInv(Now, posted)'
          BY <1>1, <1>4, <3>1, PopEra
    <3>4. ASSUME ~gaps', NEW i \in 1 .. Len(posted), posted[i] # 0
          PROVE  /\ rows'[posted[i]] # None
                 /\ rows'[posted[i]].play = Nothing /\ rows'[posted[i]].conf = None
      <4>1. /\ rows[posted[i]] # None
            /\ rows[posted[i]].play = Nothing /\ rows[posted[i]].conf = None
            BY <1>2, <3>4, NowIs DEF IInv, Good, Sound, FreshInv
      <4>2. posted[i] \in Keys
            BY <3>4 DEF IInv, TypeOK
      <4> QED BY <1>1, <4>1, <4>2
    <3>5. FreshInv(Now, posted)'
          BY <1>1, <1>2, <3>1, <3>4, PopFresh
    <3> QED BY <3>1, <3>2, <3>3, <3>5
  <2> QED BY <2>1, <2>2
<1>8. /\ UNCHANGED workVars /\ queue' \in Seq(Requests)
      /\ saved' \in [Keys -> Row \cup {None}]
      /\ enabled' \in BOOLEAN /\ gaps' \in BOOLEAN /\ mute' \in BOOLEAN
      /\ vanished' \subseteq Keys /\ inputs' \in 0 .. MaxInputs
      BY <1>1, <1>2, PopFacts DEF IInv, TypeOK
<1> QED BY <1>1, <1>4, <1>5, <1>6, <1>7, <1>8, WorkerInv

\* A batch is undone.
LEMMA UndoneShrinks ==
    ASSUME IInv, rows' = saved, saved' = saved, vanished' = vanished \cup Gone(saved)
    PROVE  Shrinks /\ SavedInv' /\ vanished' \subseteq Keys
<1>1. Shrinks
      BY DEF IInv, SavedInv, Shrinks, Gone
<1>2. SavedInv'
      BY DEF SavedInv
<1>3. vanished' \subseteq Keys
      BY DEF IInv, TypeOK, Gone
<1> QED BY <1>1, <1>2, <1>3

LEMMA FailInv ==
    ASSUME IInv, Fail
    PROVE  IInv'
<1>1. /\ Pops /\ enabled /\ UNCHANGED <<posted, enabled>>
      /\ rows' = saved /\ saved' = saved /\ gaps' = TRUE
      /\ vanished' = vanished \cup Gone(saved)
      /\ mute' = (mute \/ (Head(queue).kind = "new" /\ Head(queue).mine))
      BY DEF Fail, Pops
<1>2. inputs' \in 0 .. MaxInputs
      BY InputType DEF Fail, IInv, TypeOK
<1>3. Shrinks /\ SavedInv' /\ vanished' \subseteq Keys
      BY <1>1, UndoneShrinks
<1>4. RightStays /\ OwnRecord' /\ OneEraOneRecord'
      BY <1>3, ShrinksFacts
<1>5. OneInv(Now, posted)' /\ AwaitInv(Now, posted)'
  <2>1. Own(Head(queue)) => mute'
        BY <1>1 DEF Own
  <2> QED BY <1>1, <2>1, PopOne
<1>6. EraInv(Now, posted)'
      BY <1>1, <1>4, PopEra
<1>7. FreshInv(Now, posted)' /\ PlayInv(Now, {})' /\ ConfInv(Now)'
      BY <1>1, PopFresh, PopPlay
<1>8. mute' \in BOOLEAN
  <2>1. mute \in BOOLEAN
        BY DEF IInv, TypeOK
  <2> QED BY <1>1, <2>1
<1>9. /\ UNCHANGED workVars /\ queue' \in Seq(Requests) /\ posted' \in Seq(Keys \cup {0})
      /\ rows' \in [Keys -> Row \cup {None}] /\ saved' \in [Keys -> Row \cup {None}]
      /\ enabled' \in BOOLEAN /\ gaps' \in BOOLEAN
      BY <1>1, PopFacts DEF IInv, TypeOK, Pops
<1> QED BY <1>2, <1>3, <1>4, <1>5, <1>6, <1>7, <1>8, <1>9, WorkerInv

LEMMA TrashBeginsInv ==
    ASSUME IInv, TrashBegins
    PROVE  IInv'
<1>1. /\ queue \in Seq(Requests) /\ queue # <<>> /\ Head(queue).kind = "trash"
      /\ enabled' = FALSE
      /\ UNCHANGED <<workVars, queue, rows, saved, posted, gaps, mute, vanished, inputs>>
      BY DEF TrashBegins, IInv, TypeOK
<1>2. Now' = Now
      BY <1>1 DEF Now, workVars
<1>3. 1 \in 1 .. Len(queue) /\ queue[1].kind = "trash"
      BY <1>1
<1>4. /\ OneInv(Now, posted) /\ AwaitInv(Now, posted) /\ EraInv(Now, posted)
      /\ FreshInv(Now, posted) /\ PlayInv(Now, {}) /\ ConfInv(Now)
      BY DEF IInv, Good, Sound
<1>5. OneInv(Now, posted)'
      BY <1>1, <1>2, <1>4 DEF OneInv, Own
<1>6. AwaitInv(Now, posted)'
  <2>1. Now'.queue = queue /\ posted' = posted
        BY <1>1, <1>2, NowIs
  <2>2. Now'.reqNew => \/ \E i \in 1 .. Len(Now'.queue) : Own(Now'.queue[i])
                       \/ \E i \in 1 .. Len(posted') : posted'[i] # 0
                       \/ Now'.mute
        BY <1>1, <1>2, <1>4 DEF AwaitInv
  <2> QED BY <1>3, <2>1, <2>2 DEF AwaitInv, Own
<1>7. EraInv(Now, posted)'
      BY <1>1, <1>2, <1>4 DEF EraInv, Right, Fits, Mark, Item, Own
<1>8. FreshInv(Now, posted)'
      BY <1>1, <1>2, <1>4 DEF FreshInv, Own, Blank, Nothing
<1>9. PlayInv(Now, {})' /\ ConfInv(Now)'
      BY <1>1, <1>2, <1>4 DEF PlayInv, Plays, ConfInv
<1>10. SavedInv' /\ OwnRecord' /\ OneEraOneRecord'
       BY <1>1 DEF IInv, SavedInv, OwnRecord, OneEraOneRecord
<1>11. /\ UNCHANGED workVars /\ queue' \in Seq(Requests) /\ posted' \in Seq(Keys \cup {0})
       /\ rows' \in [Keys -> Row \cup {None}] /\ saved' \in [Keys -> Row \cup {None}]
       /\ enabled' \in BOOLEAN /\ gaps' \in BOOLEAN /\ mute' \in BOOLEAN
       /\ vanished' \subseteq Keys /\ inputs' \in 0 .. MaxInputs
       BY <1>1 DEF IInv, TypeOK
<1> QED BY <1>5, <1>6, <1>7, <1>8, <1>9, <1>10, <1>11, WorkerInv

\* What is left of the trash is in r.
LEMMA TrashDoneInv ==
    ASSUME IInv, NEW r, TrashDone(r), Shrinks, SavedInv',
           r \in [Keys -> Row \cup {None}], saved' \in [Keys -> Row \cup {None}],
           inputs' \in 0 .. MaxInputs
    PROVE  IInv'
<1>1. /\ ~enabled /\ enabled' = TRUE /\ queue' = Tail(queue) /\ rows' = r
      /\ posted' = Append(posted, 0)
      /\ gaps' = (gaps \/ r # rows)
      /\ vanished' = vanished \cup Gone(r)
      /\ UNCHANGED <<workVars, mute>>
      BY DEF TrashDone
<1>2. queue # <<>> /\ queue[1].kind = "trash"
      BY <1>1, NowIs DEF IInv, Good, Sound, AwaitInv
<1>3. Pops
      BY <1>1, <1>2 DEF Pops
<1>4. Head(queue).kind = "trash" /\ ~Own(Head(queue)) /\ queue' \in Seq(Requests)
      BY <1>2, <1>3, PopFacts DEF Own
<1>5. gaps' \in BOOLEAN /\ (gaps' = gaps \/ gaps' = TRUE) /\ (gaps' \/ rows' = rows)
      /\ posted' \in Seq(Keys \cup {0})
  <2>1. gaps \in BOOLEAN /\ posted \in Seq(Keys \cup {0})
        BY DEF IInv, TypeOK
  <2>2. posted' \in Seq(Keys \cup {0})
        BY <1>1, <2>1
  <2>3. CASE r = rows
        BY <1>1, <2>1, <2>2, <2>3
  <2>4. CASE r # rows
        BY <1>1, <2>2, <2>4
  <2> QED BY <2>3, <2>4
<1>6. RightStays /\ OwnRecord' /\ OneEraOneRecord'
      BY ShrinksFacts
<1>7. OneInv(Now, posted)' /\ AwaitInv(Now, posted)'
      BY <1>1, <1>3, <1>4, PopOne
<1>8. EraInv(Now, posted)'
      BY <1>1, <1>3, <1>6, PopEra
<1>9. FreshInv(Now, posted)'
  <2>1. ~gaps' => \A i \in 1 .. Len(posted) : posted[i] # 0 =>
                     /\ rows'[posted[i]] # None
                     /\ rows'[posted[i]].play = Nothing /\ rows'[posted[i]].conf = None
        BY <1>1, <1>5, NowIs DEF IInv, Good, Sound, FreshInv
  <2> QED BY <1>1, <1>3, <1>5, <2>1, PopFresh
<1>10. PlayInv(Now, {})' /\ ConfInv(Now)'
  <2> DEFINE h == Head(queue)
  <2>1. ASSUME ~gaps', recID # 0
        PROVE  /\ rows'[recID] # None
               /\ \A f \in Facts :
                     rows'[recID].play[f] = After(h, recID, rows[recID].play[f], h.item.vals[f], 0)
               /\ rows'[recID].conf = After(h, recID, rows[recID].conf, h.item.conf, None)
    <3>1. rows' = rows /\ rows[recID] # None
          BY <1>1, <1>5, <2>1, NowIs DEF IInv, Good, Sound, PlayInv
    <3> HIDE DEF h
    <3>2. h.kind = "trash"
          BY <1>4 DEF h
    <3> QED BY <3>1, <3>2 DEF After
  <2> QED BY <1>3, <1>5, <2>1, PopPlay
<1>11. /\ UNCHANGED workVars /\ rows' \in [Keys -> Row \cup {None}]
       /\ enabled' \in BOOLEAN /\ mute' \in BOOLEAN /\ vanished' \subseteq Keys
       BY <1>1 DEF IInv, TypeOK, Gone
<1> QED BY <1>4, <1>5, <1>6, <1>7, <1>8, <1>9, <1>10, <1>11, WorkerInv

LEMMA TrashEndsInv ==
    ASSUME IInv, NEW d \in SUBSET Keys, TrashEnds(d)
    PROVE  IInv'
<1> DEFINE r == [k \in Keys |-> IF k \in d THEN None ELSE rows[k]]
<1>1. /\ TrashDone(r) /\ rows' = r /\ vanished' = vanished \cup Gone(r)
      /\ saved' = rows' \/ (d = {} /\ saved' = saved)
      /\ UNCHANGED inputs
      BY DEF TrashEnds, TrashDone
<1>2. rows \in [Keys -> Row \cup {None}] /\ r \in [Keys -> Row \cup {None}]
      BY DEF IInv, TypeOK
<1>3. \A k \in Keys : r[k] = IF k \in d THEN None ELSE rows[k]
      OBVIOUS
<1>4. d = {} => r = rows
      BY <1>2, <1>3
<1> HIDE DEF r
<1>5. Shrinks
      BY <1>1, <1>3 DEF Shrinks, Gone
<1>6. SavedInv'
  <2>1. CASE saved' = rows'
        BY <2>1 DEF SavedInv
  <2>2. CASE d = {} /\ saved' = saved
        BY <1>1, <1>4, <2>2 DEF IInv, SavedInv
  <2> QED BY <1>1, <2>1, <2>2
<1>7. saved' \in [Keys -> Row \cup {None}] /\ inputs' \in 0 .. MaxInputs
      BY <1>1, <1>2 DEF IInv, TypeOK
<1> QED BY <1>1, <1>2, <1>5, <1>6, <1>7, TrashDoneInv

LEMMA TrashFailsInv ==
    ASSUME IInv, TrashFails
    PROVE  IInv'
<1>1. TrashDone(saved) /\ rows' = saved /\ saved' = saved /\ vanished' = vanished \cup Gone(saved)
      BY DEF TrashFails, TrashDone
<1>2. inputs' \in 0 .. MaxInputs
      BY InputType DEF TrashFails
<1>3. Shrinks /\ SavedInv'
      BY <1>1, UndoneShrinks
<1>4. saved \in [Keys -> Row \cup {None}] /\ saved' \in [Keys -> Row \cup {None}]
      BY <1>1 DEF IInv, TypeOK
<1> QED BY <1>1, <1>2, <1>3, <1>4, TrashDoneInv

-----------------------------------------------------------------------------
(* The invariant holds. *)

LEMMA InitInv ==
    ASSUME Init
    PROVE  IInv
<1>1. /\ mandala = Nothing /\ known = Nothing /\ config = None /\ confHash = None
      /\ recID = 0 /\ reqNew = FALSE /\ pending = <<>> /\ queue = <<>> /\ posted = <<>>
      /\ rows = [k \in Keys |-> None] /\ saved = [k \in Keys |-> None]
      /\ enabled = TRUE /\ vanished = {} /\ era = 0 /\ inputs = 0
      BY DEF Init
<1>2. TypeOK
  <2>1. Nothing \in Values /\ MaxInputs \in Nat
        BY NothingType, ConstantsAssumption
  <2>2. 0 \in 0 .. MaxInputs
        BY <2>1
  <2>3. /\ rows \in [Keys -> Row \cup {None}] /\ saved \in [Keys -> Row \cup {None}]
        /\ mandala \in Values /\ known \in Values /\ inputs \in 0 .. MaxInputs
        BY <1>1, <2>1, <2>2
  <2>4. /\ recording \in BOOLEAN /\ flightSeen \in BOOLEAN /\ flying \in BOOLEAN
        /\ based \in BOOLEAN /\ late \in BOOLEAN /\ gaps \in BOOLEAN
        /\ confLate \in BOOLEAN /\ mute \in BOOLEAN
        BY DEF Init
  <2>5. pending \in Seq(Items) /\ queue \in Seq(Requests) /\ posted \in Seq(Keys \cup {0})
        BY <1>1
  <2> QED BY <1>1, <2>3, <2>4, <2>5 DEF TypeOK
<1>3. /\ Now.recID = 0 /\ Now.reqNew = FALSE /\ Now.pending = <<>>
      /\ Now.queue = <<>> /\ Len(Now.queue) = 0 /\ Len(posted) = 0 /\ Len(Now.pending) = 0
      BY <1>1, NowIs
<1>4. Now \in State /\ posted \in Seq(Keys \cup {0})
      BY <1>2 DEF TypeOK, Now, State
<1>5. OneInv(Now, posted) /\ AwaitInv(Now, posted) /\ FreshInv(Now, posted)
      BY <1>1, <1>3 DEF OneInv, AwaitInv, FreshInv
<1>6. EraInv(Now, posted)
      BY <1>3 DEF EraInv, Right
<1>7. PlayInv(Now, {}) /\ ConfInv(Now)
      BY <1>3 DEF PlayInv, ConfInv
<1>8. SavedInv /\ KnownInv /\ OwnRecord /\ OneEraOneRecord
      BY <1>1 DEF SavedInv, KnownInv, OwnRecord, OneEraOneRecord
<1> QED BY <1>2, <1>4, <1>5, <1>6, <1>7, <1>8 DEF IInv, Good, Sound

LEMMA StutterInv ==
    ASSUME IInv, UNCHANGED vars
    PROVE  IInv'
<1>1. Become(Now) /\ UNCHANGED <<rows, saved, enabled, vanished>> /\ posted' = posted
      BY DEF vars, recVars, Become, Now
<1>2. UNCHANGED <<mandala, flying, config, confLate, inputs>>
      BY DEF vars
<1>3. /\ mandala' \in Values /\ flying' \in BOOLEAN /\ config' \in Configs \cup {None}
      /\ confLate' \in BOOLEAN /\ inputs' \in 0 .. MaxInputs
      BY <1>2 DEF IInv, TypeOK
<1>4. Now.known = mandala' /\ (confLate' \/ Now.confHash = config')
      BY <1>2, NowFacts DEF IInv, KnownInv
<1> QED BY <1>1, <1>3, <1>4, NowFacts, BecomeInv

LEMMA NextInv ==
    ASSUME IInv, [Next]_vars
    PROVE  IInv'
<1>1. ASSUME NEW f \in Facts, NEW v \in Vals, NEW b \in BOOLEAN, Data(f, v, b)
      PROVE  IInv'
      BY <1>1, DataInv
<1>2. ASSUME NEW f \in Facts, NEW v \in Vals, NEW b \in BOOLEAN, NEW fly \in BOOLEAN,
             Telemetry(f, v, fly, b)
      PROVE  IInv'
      BY <1>2, TelemetryInv
<1>3. CASE FlightChanges
      BY <1>3, FlightInv
<1>4. ASSUME NEW tele \in BOOLEAN, Event(tele)
      PROVE  IInv'
      BY <1>4, EventInv
<1>5. ASSUME NEW tele \in BOOLEAN, NEW c \in Configs, ConfigSaved(c, tele)
      PROVE  IInv'
      BY <1>5, ConfigInv
<1>6. CASE SwitchRecording
      BY <1>6, SwitchInv
<1>7. CASE OtherRequest([kind |-> "new", mine |-> FALSE, on |-> TRUE, era |-> 0])
  <2> DEFINE r == [kind |-> "new", mine |-> FALSE, on |-> TRUE, era |-> 0]
  <2>1. r \in Requests /\ ~Own(r) /\ r.kind # "write"
        BY NewType DEF Own
  <2> HIDE DEF r
  <2>2. OtherRequest(r)
        BY <1>7 DEF r
  <2> QED BY <2>1, <2>2, OtherInv
<1>8. CASE OtherRequest([kind |-> "trash"])
  <2> DEFINE r == [kind |-> "trash"]
  <2>1. r \in Requests /\ ~Own(r) /\ r.kind # "write"
        BY DEF Requests, Own
  <2> HIDE DEF r
  <2>2. OtherRequest(r)
        BY <1>8 DEF r
  <2> QED BY <2>1, <2>2, OtherInv
<1>9. CASE Worker
  <2>1. CASE RunNew
        BY <2>1, RunNewInv
  <2>2. CASE RunWrite
        BY <2>2, RunWriteInv
  <2>3. CASE Fail
        BY <2>3, FailInv
  <2>4. CASE TrashBegins
        BY <2>4, TrashBeginsInv
  <2>5. CASE TrashFails
        BY <2>5, TrashFailsInv
  <2>6. ASSUME NEW d \in SUBSET Keys, TrashEnds(d)
        PROVE  IInv'
        BY <2>6, TrashEndsInv
  <2> QED BY <1>9, <2>1, <2>2, <2>3, <2>4, <2>5, <2>6 DEF Worker
<1>10. CASE Signals
  <2>1. CASE Invalidated
        BY <2>1, InvalidatedInv
  <2>2. ASSUME NEW tele \in BOOLEAN, NEW mission \in BOOLEAN, RecordCreated(tele, mission)
        PROVE  IInv'
        BY <2>2, CreatedInv
  <2> QED BY <1>10, <2>1, <2>2 DEF Signals
<1>11. CASE UNCHANGED vars
       BY <1>11, StutterInv
<1> QED BY <1>1, <1>2, <1>3, <1>4, <1>5, <1>6, <1>7, <1>8, <1>9, <1>10, <1>11 DEF Next

-----------------------------------------------------------------------------
(* What follows from the invariant *)

\* Of values that end with v, the latest that is not blank is v.
LEMMA LatestEnds ==
    ASSUME NEW n \in Nat, NEW h, NEW base, NEW blank, NEW v,
           Ends(h, n, base, blank, v),
           NEW S, S = {i \in 1 .. n : h[i] # blank}
    PROVE  /\ S # {} => Latest(S) \in S /\ h[Latest(S)] = v
           /\ S = {} => base = v
<1>1. CASE \E i \in 1 .. n : h[i] = v /\ v # blank /\ \A j \in i + 1 .. n : h[j] = blank
  <2>1. PICK i \in 1 .. n : h[i] = v /\ v # blank /\ \A j \in i + 1 .. n : h[j] = blank
        BY <1>1
  <2>2. i \in S /\ \A j \in S : j <= i
    <3> SUFFICES ASSUME NEW j \in S PROVE j <= i
        BY <2>1
    <3>1. j \in 1 .. n /\ h[j] # blank
          OBVIOUS
    <3>2. j \notin i + 1 .. n
          BY <2>1, <3>1
    <3> QED BY <3>1, <3>2
  <2>3. Latest(S) \in S /\ \A j \in S : j <= Latest(S)
        BY <2>2 DEF Latest
  <2>4. Latest(S) = i
    <3>1. Latest(S) <= i /\ i <= Latest(S) /\ Latest(S) \in Nat /\ i \in Nat
          BY <2>2, <2>3
    <3> QED BY <3>1
  <2> QED BY <2>1, <2>2, <2>4
<1>2. CASE base = v /\ \A j \in 1 .. n : h[j] = blank
      BY <1>2
<1> QED BY <1>1, <1>2 DEF Ends

LEMMA ReplayIs ==
    ASSUME IInv
    PROVE  Replayable
<1> SUFFICES ASSUME recID # 0 \/ reqNew, ~gaps, NEW f \in Facts
             PROVE  Played(f) = mandala[f]
    BY DEF Replayable
<1>1. Plays(Now, f) /\ known = mandala /\ (recID # 0 => rows[recID] # None)
      BY NowIs DEF IInv, Good, Sound, PlayInv, KnownInv
<1>2. pending \in Seq(Items) /\ queue \in Seq(Requests)
      BY DEF IInv, TypeOK
<1> DEFINE S == {i \in Sent : SentItem(i).vals[f] # 0}
<1>3. CASE recID = 0
  <2> DEFINE h == ValsOf(pending, f)
             n == Len(pending)
  <2>1. n \in Nat /\ Ends(h, n, 0, 0, known[f])
        BY <1>1, <1>2, <1>3, NowIs DEF Plays
  <2>2. \A i \in 1 .. n : h[i] = pending[i].vals[f]
        BY DEF ValsOf
  <2>3. \A i : SentItem(i) = pending[i]
        BY <1>3 DEF SentItem
  <2>4. Sent = 1 .. n
        BY <1>2, <1>3 DEF Sent
  <2> HIDE DEF h, n
  <2>5. S = {i \in 1 .. n : h[i] # 0}
        BY <2>2, <2>3, <2>4
  <2> HIDE DEF S
  <2>6. /\ S # {} => Latest(S) \in S /\ h[Latest(S)] = known[f]
        /\ S = {} => 0 = known[f]
        BY <2>1, <2>5, LatestEnds
  <2>7. S # {} => SentItem(Latest(S)).vals[f] = known[f]
        BY <2>2, <2>3, <2>5, <2>6
  <2> QED BY <1>1, <1>3, <2>6, <2>7 DEF Played, S
<1>4. CASE recID # 0
  <2> DEFINE h == ValsTo(queue, recID, f)
             n == Len(queue)
  <2>1. n \in Nat /\ Ends(h, n, rows[recID].play[f], 0, known[f])
        BY <1>1, <1>2, <1>4, NowIs DEF Plays
  <2>2. \A i \in 1 .. n : h[i] = IF queue[i].kind = "write" /\ queue[i].id = recID
                                 THEN queue[i].item.vals[f] ELSE 0
        BY DEF ValsTo
  <2>3. \A i : SentItem(i) = queue[i].item
        BY <1>4 DEF SentItem
  <2>4. Sent = {i \in 1 .. n : queue[i].kind = "write" /\ queue[i].id = recID}
        BY <1>2, <1>4 DEF Sent
  <2> HIDE DEF h, n
  <2>5. S = {i \in 1 .. n : h[i] # 0}
        BY <2>2, <2>3, <2>4
  <2>6. \A i \in S : h[i] = SentItem(i).vals[f]
        BY <2>2, <2>3, <2>4
  <2> HIDE DEF S
  <2>7. /\ S # {} => Latest(S) \in S /\ h[Latest(S)] = known[f]
        /\ S = {} => rows[recID].play[f] = known[f]
        BY <2>1, <2>5, LatestEnds
  <2>8. S # {} => SentItem(Latest(S)).vals[f] = known[f]
        BY <2>6, <2>7
  <2> QED BY <1>1, <1>4, <2>7, <2>8 DEF Played, S
<1> QED BY <1>3, <1>4

LEMMA NameIs ==
    ASSUME IInv
    PROVE  ConfigIsNamed
<1> SUFFICES ASSUME recID # 0, ~gaps, ~confLate
             PROVE  config = Named
    BY DEF ConfigIsNamed
<1>1. confHash = config
      BY DEF IInv, KnownInv
<1>2. queue \in Seq(Requests)
      BY DEF IInv, TypeOK
<1> DEFINE S == {i \in Sent : SentItem(i).conf # None}
           h == ConfsTo(queue, recID)
           n == Len(queue)
<1>3. n \in Nat /\ Ends(h, n, rows[recID].conf, None, confHash)
      BY <1>2, NowIs DEF IInv, Good, ConfInv
<1>4. \A i \in 1 .. n : h[i] = IF queue[i].kind = "write" /\ queue[i].id = recID
                               THEN queue[i].item.conf ELSE None
      BY DEF ConfsTo
<1>5. \A i : SentItem(i) = queue[i].item
      BY DEF SentItem
<1>6. Sent = {i \in 1 .. n : queue[i].kind = "write" /\ queue[i].id = recID}
      BY <1>2 DEF Sent
<1> HIDE DEF h, n
<1>7. S = {i \in 1 .. n : h[i] # None}
      BY <1>4, <1>5, <1>6
<1>8. \A i \in S : h[i] = SentItem(i).conf
      BY <1>4, <1>5, <1>6
<1> HIDE DEF S
<1>9. /\ S # {} => Latest(S) \in S /\ h[Latest(S)] = confHash
      /\ S = {} => rows[recID].conf = confHash
      BY <1>3, <1>7, LatestEnds
<1>10. S # {} => SentItem(Latest(S)).conf = confHash
       BY <1>8, <1>9
<1> QED BY <1>1, <1>9, <1>10 DEF Named, S

LEMMA AwaitedIs ==
    ASSUME IInv
    PROVE  PendingIsAwaited
<1>1. queue \in Seq(Requests) /\ posted \in Seq(Keys \cup {0})
      BY DEF IInv, TypeOK
<1>2. reqNew => \/ \E i \in 1 .. Len(queue) : Own(queue[i])
                \/ \E i \in 1 .. Len(posted) : posted[i] # 0
                \/ mute
      BY NowIs DEF IInv, Good, Sound, AwaitInv
<1>3. DOMAIN queue = 1 .. Len(queue) /\ DOMAIN posted = 1 .. Len(posted)
      BY <1>1
<1> QED BY <1>2, <1>3 DEF PendingIsAwaited, Own

\* The record k as it was committed stays.
StaysAt(k) ==
    saved[k] # None /\ saved[k].on =>
        /\ saved'[k] # None
        /\ saved'[k].mine = saved[k].mine /\ saved'[k].on
        /\ saved'[k].era = saved[k].era
        /\ saved[k].used => saved'[k].used

\* A commit of records that are still there.
LEMMA GrowsStay ==
    ASSUME IInv, Grows, saved' = rows' \/ saved' = saved, NEW k \in Keys
    PROVE  StaysAt(k)
<1>1. CASE saved' = saved
      BY <1>1 DEF StaysAt
<1>2. CASE saved' = rows'
      BY <1>2 DEF IInv, SavedInv, Grows, StaysAt
<1> QED BY <1>1, <1>2

\* Nothing but the worker commits.
LEMMA OthersStay ==
    ASSUME NEW k \in Keys, UNCHANGED saved
    PROVE  StaysAt(k)
BY DEF StaysAt

LEMMA TrashStays ==
    ASSUME IInv, NEW d \in SUBSET Keys, TrashEnds(d), NEW k \in Keys
    PROVE  StaysAt(k)
<1>1. /\ saved' = rows' \/ saved' = saved
      /\ \A j \in d : ~rows[j].on
      /\ rows'[k] = IF k \in d THEN None ELSE rows[k]
      BY DEF TrashEnds, TrashDone
<1>2. CASE saved' = saved
      BY <1>2, OthersStay
<1>3. CASE saved' = rows'
  <2>1. SUFFICES ASSUME saved[k] # None, saved[k].on
                 PROVE  StaysAt(k)
        BY DEF StaysAt
  <2>2. /\ rows[k] # None /\ rows[k].on = saved[k].on
        /\ rows[k].mine = saved[k].mine /\ rows[k].era = saved[k].era
        /\ saved[k].used => rows[k].used
        BY <2>1 DEF IInv, SavedInv
  <2>3. rows'[k] = rows[k]
        BY <1>1, <2>1, <2>2
  <2> QED BY <1>3, <2>1, <2>2, <2>3 DEF StaysAt
<1> QED BY <1>1, <1>2, <1>3

LEMMA NextStays ==
    ASSUME IInv, [Next]_vars, NEW k \in Keys
    PROVE  StaysAt(k)
<1>1. CASE Worker
  <2>1. CASE RunNew
    <3>1. saved' = rows' \/ saved' = saved
          BY <2>1 DEF RunNew, Batched
    <3>2. Grows
          BY <2>1, RunNewFacts DEF Grows
    <3> QED BY <3>1, <3>2, GrowsStay
  <2>2. CASE RunWrite
    <3>1. saved' = rows' \/ saved' = saved
          BY <2>2 DEF RunWrite, Batched
    <3>2. Grows
          BY <2>2, RunWriteFacts DEF Grows
    <3> QED BY <3>1, <3>2, GrowsStay
  <2>3. CASE Fail \/ TrashBegins \/ TrashFails
        BY <2>3, OthersStay DEF Fail, TrashBegins, TrashFails
  <2>4. ASSUME NEW d \in SUBSET Keys, TrashEnds(d)
        PROVE  StaysAt(k)
        BY <2>4, TrashStays
  <2> QED BY <1>1, <2>1, <2>2, <2>3, <2>4 DEF Worker
<1>2. CASE Signals
      BY <1>2, OthersStay DEF Signals, Invalidated, RecordCreated
<1>3. CASE UNCHANGED vars
      BY <1>3, OthersStay DEF vars
<1>4. ASSUME Next, ~Worker, ~Signals
      PROVE  UNCHANGED saved
      BY <1>4 DEF Next, Data, Telemetry, FlightChanges, Event, ConfigSaved, SwitchRecording,
                  OtherRequest, dbVars
<1> QED BY <1>1, <1>2, <1>3, <1>4, OthersStay

-----------------------------------------------------------------------------
(* The theorems *)

\* The invariant holds in every state: what is under way to the records, and
\* the records, are at all times as the properties below need them.
THEOREM Invariance == Spec => []IInv
<1>1. Init => IInv
      BY InitInv
<1>2. IInv /\ [Next]_vars => IInv'
      BY NextInv
<1> QED BY <1>1, <1>2, PTL DEF Spec

\* The variables keep their types.
THEOREM TypeCorrect == Spec => []TypeOK
<1>1. IInv => TypeOK
      BY DEF IInv
<1> QED BY <1>1, Invariance, PTL

\* DBReqTelemetryWriteData writes into no record of another vehicle, unless a
\* record is gone whose number had been given out.
THEOREM OwnCorrect == Spec => []OwnRecord
<1>1. IInv => OwnRecord
      BY DEF IInv
<1> QED BY <1>1, Invariance, PTL

\* Two restarts, or two choices of the user, share no record, unless reset()
\* is called while dbRecordCreated() is awaited.
THEOREM EraCorrect == Spec => []OneEraOneRecord
<1>1. IInv => OneEraOneRecord
      BY DEF IInv
<1> QED BY <1>1, Invariance, PTL

\* Although recordDownlink() writes only what cleanupValues() leaves, a record
\* plays back what the vehicle had sent.
THEOREM ReplayCorrect == Spec => []Replayable
<1>1. IInv => Replayable
      BY ReplayIs
<1> QED BY <1>1, Invariance, PTL

\* recordConfig() writes a hash once, and each record names the configuration.
THEOREM ConfigCorrect == Spec => []ConfigIsNamed
<1>1. IInv => ConfigIsNamed
      BY NameIs
<1> QED BY <1>1, Invariance, PTL

\* reqPendingList waits for a record that has been asked for.
THEOREM AwaitedCorrect == Spec => []PendingIsAwaited
<1>1. IInv => PendingIsAwaited
      BY AwaitedIs
<1> QED BY <1>1, Invariance, PTL

\* DBReqTelemetryEmptyTrash, an undone batch or a number used again costs no
\* recording made on purpose that was committed.
THEOREM StaysCorrect == Spec => CommittedStays
<1>1. IInv /\ [Next]_vars => \A k \in Keys : StaysAt(k)
      BY NextStays
<1>2. IInv /\ [Next]_vars =>
          [\A k \in Keys : saved[k] # None /\ saved[k].on =>
              /\ saved'[k] # None
              /\ saved'[k].mine = saved[k].mine /\ saved'[k].on
              /\ saved'[k].era = saved[k].era
              /\ saved[k].used => saved'[k].used]_vars
      BY <1>1 DEF StaysAt
<1> QED BY <1>2, Invariance, PTL DEF Spec, CommittedStays
=============================================================================
