-------------------------- MODULE NodeChangeProofs --------------------------
(***************************************************************************)
(* Proofs about the two ways in which the GCS changes a node: the upload   *)
(* of its parameters (NodeUpdate), for any fields and values and any       *)
(* number of retries and edits, and the upgrade of its firmware            *)
(* (FirmwareUpgrade), for any nodes, files and names and any number of     *)
(* items, idents and stops.                                                *)
(***************************************************************************)
EXTENDS NodeUpdate, FirmwareUpgrade, WellFoundedInduction, TLAPS

(***************************************************************************)
(* Numbers.  The induction theorems of the library take a predicate; for   *)
(* the recursive functions of the models, which end at some n, induction   *)
(* over a set of numbers is enough.                                        *)
(***************************************************************************)

\* A set of numbers has a least one.
LEMMA MinExists ==
  ASSUME NEW T, T \subseteq Nat, T # {}
  PROVE  \E x \in T : \A y \in T : x <= y
<1>1. IsWellFoundedOn(OpToRel(<, Nat), Nat)
  BY NatLessThanWellFounded
<1>2. PICK x \in T : \A y \in T : ~ (<<y, x>> \in OpToRel(<, Nat))
  BY <1>1, WFMin
<1>3. \A y \in T : ~ (y < x)
  BY <1>2 DEF OpToRel
<1>4. QED
  BY <1>3

\* Induction up to n, for a set of numbers instead of a predicate.
LEMMA SetInduction ==
  ASSUME NEW n \in Nat, NEW P, 0 \in P,
         \A k \in 1 .. n : k - 1 \in P => k \in P
  PROVE  \A k \in 0 .. n : k \in P
<1>1. SUFFICES ASSUME NEW k \in 0 .. n, k \notin P
               PROVE  FALSE
  OBVIOUS
<1> DEFINE T == {j \in 0 .. n : j \notin P}
<1>2. T \subseteq Nat /\ T # {}
  BY <1>1
<1>3. PICK m \in T : \A j \in T : m <= j
  <2> HIDE DEF T
  <2> QED BY <1>2, MinExists
<1>4. m # 0 /\ m \in 1 .. n
  OBVIOUS
<1>5. m - 1 \in P
  BY <1>3, <1>4
<1>6. QED
  BY <1>4, <1>5

\* n steps, each of which stays in X
StepsIn(n, X) == [1 .. n -> [X -> X]]

\* f[k] is what the first k of them make of x0.
Computed(f, n, X, x0, step) ==
    /\ f \in [0 .. n -> X]
    /\ f[0] = x0
    /\ \A k \in 1 .. n : f[k] = step[k][f[k - 1]]

\* Recursion up to n has a result.
LEMMA FiniteRecursion ==
  ASSUME NEW n \in Nat, NEW X, NEW x0 \in X, NEW step \in StepsIn(n, X)
  PROVE  \E f : Computed(f, n, X, x0, step)
<1> USE DEF StepsIn, Computed
<1> DEFINE Upto(m, f) == Computed(f, m, X, x0, step)
           P == {m \in 0 .. n : \E f : Upto(m, f)}
<1>1. 0 \in P
  <2>1. Upto(0, [k \in 0 .. 0 |-> x0])
    OBVIOUS
  <2> HIDE DEF Upto
  <2>2. QED
    BY <2>1
<1>2. ASSUME NEW m \in 1 .. n, m - 1 \in P
      PROVE  m \in P
  <2>1. PICK f : Upto(m - 1, f)
    BY <1>2
  <2>2. DEFINE g == [k \in 0 .. m |-> IF k = m THEN step[m][f[m - 1]] ELSE f[k]]
  <2>3. f[m - 1] \in X /\ step[m][f[m - 1]] \in X
    BY <2>1
  <2>4. g \in [0 .. m -> X] /\ g[0] = x0
    BY <2>1, <2>3
  <2>5. \A k \in 1 .. m : g[k] = step[k][g[k - 1]]
    BY <2>1
  <2>6. Upto(m, g)
    BY <2>4, <2>5
  <2> HIDE DEF Upto
  <2>7. QED
    BY <2>6
<1>3. n \in P
  <2> HIDE DEF P
  <2>1. \A k \in 0 .. n : k \in P
    BY <1>1, <1>2, SetInduction
  <2>2. QED
    BY <2>1
<1>4. QED
  BY <1>3

-----------------------------------------------------------------------------
(* NodeUpdate *)

\* Packets that write a field carry a value of it.
Packets ==
    {p \in [fid : Fields \cup {Save}, val : Vals \cup {None}] :
        p.fid # Save => p.val \in Vals}

\* TypeOK with the types of what is on the link and of what is sent
UploadTypes ==
    /\ TypeOK
    /\ vals \in [DOMAIN vals -> Vals]
    /\ up \in Seq(Packets)
    /\ down \in Seq(Fields \cup {Save})

\* The request: what is left to be sent, and that it is active from the first
\* packet to the end.
RequestInv ==
    /\ tx = "idle" => ~active /\ DOMAIN vals = {}
    /\ tx = "wait" => active
    /\ ~active => left = DOMAIN vals
    /\ fid = Save => left = {}
    /\ fid \in Fields => fid \in DOMAIN vals \ left
    /\ tx = "wait" => fid \in Fields \cup {Save}

\* Without a late answer there is one packet under way, from when it is sent to
\* when its answer comes or it is given up.
LinkInv ==
    /\ tx # "wait" => up = <<>> /\ down = <<>>
    /\ Len(up) + Len(down) <= 1
    /\ \A i \in 1 .. Len(up) :
          up[i].fid = fid /\ (fid \in Fields => up[i].val = vals[fid])
    /\ \A i \in 1 .. Len(down) : down[i] = fid

\* The packet of f is on its way to the node.
UnderWay(f) == fid = f /\ up # <<>>

\* The node has f as it is shown, or will have it in a moment; or nothing has
\* been sent of it, and the three copies of it agree.
Follows(f) ==
    \/ /\ f \in DOMAIN vals \ left
       /\ value[f] = vals[f]
       /\ param[f] = value[f] \/ UnderWay(f)
    \/ /\ f \notin DOMAIN vals \ left
       /\ base[f] = stored[f] /\ stored[f] = param[f]
       /\ f \in left => vals[f] = value[f]
       /\ f \notin DOMAIN vals /\ tx # "idle" => value[f] = base[f]

DriftInv ==
    ~late =>
      /\ LinkInv
      /\ \A f \in Fields \ suspect : Follows(f)
      /\ down # <<>> /\ fid = Save => stored = param

IInv == UploadTypes /\ RequestInv /\ DriftInv

-----------------------------------------------------------------------------
(* The next field to send is one of those that are left. *)

LEMMA MinOfLeft ==
  ASSUME UploadTypes, left # {}  PROVE Min(left) \in left
<1>1. left \subseteq Nat
  BY ConstantsAssumption DEF UploadTypes, TypeOK
<1>2. \E x \in left : \A y \in left : x =< y
  BY <1>1, MinExists
<1>3. QED
  BY <1>2 DEF Min

-----------------------------------------------------------------------------
(* The link *)

\* A packet goes to the end of the link, or is lost and its field suspect.
LEMMA PutFacts ==
  ASSUME UploadTypes, NEW f, NEW v, [fid |-> f, val |-> v] \in Packets, Put(f, v)
  PROVE  /\ up' \in Seq(Packets)
         /\ \/ UNCHANGED suspect /\ Len(up') = Len(up) + 1
               /\ \A i \in 1 .. Len(up') :
                     \/ i \in 1 .. Len(up) /\ up'[i] = up[i]
                     \/ i = Len(up) + 1 /\ up'[i].fid = f /\ up'[i].val = v
            \/ up' = up /\ suspect' = suspect \cup ({f} \ {Save})
<1> DEFINE p == [fid |-> f, val |-> v]
<1>1. p \in Packets /\ p.fid = f /\ p.val = v /\ up \in Seq(Packets)
  BY DEF UploadTypes
<1>2. \/ up' = Append(up, p) /\ UNCHANGED suspect
      \/ up' = up /\ suspect' = suspect \cup ({f} \ {Save})
  BY DEF Put
<1> HIDE DEF p
<1>3. CASE up' = Append(up, p) /\ UNCHANGED suspect
  <2>1. /\ up' \in Seq(Packets) /\ Len(up') = Len(up) + 1
        /\ \A i \in 1 .. Len(up') :
             \/ i \in 1 .. Len(up) /\ up'[i] = up[i]
             \/ i = Len(up) + 1 /\ up'[i] = p
    BY <1>1, <1>3
  <2>2. QED
    BY <1>1, <1>3, <2>1
<1>4. QED
  BY <1>1, <1>2, <1>3

\* A request sends its next field, or asks to save.
LEMMA SendFacts ==
  ASSUME UploadTypes, RequestInv, Send
  PROVE  /\ up' \in Seq(Packets)
         /\ fid' \in Fields \cup {Save} /\ left' \subseteq left
         /\ \/ left = {} /\ fid' = Save /\ left' = {} /\ Put(Save, None)
            \/ /\ fid' \in left /\ fid' \in Fields /\ left' = left \ {fid'}
               /\ Put(fid', vals[fid'])
<1>1. CASE left = {}
  <2>1. [fid |-> Save, val |-> None] \in Packets
    BY DEF Packets
  <2>2. Put(Save, None) /\ fid' = Save /\ left' = {}
    BY <1>1 DEF Send
  <2>3. QED
    BY <1>1, <2>1, <2>2, PutFacts
<1>2. CASE left # {}
  <2>1. /\ fid' = Min(left) /\ left' = left \ {Min(left)}
        /\ Put(Min(left), vals[Min(left)])
    BY <1>2 DEF Send, Rest
  <2>2. Min(left) \in left /\ Min(left) \in Fields /\ vals[Min(left)] \in Vals
    BY <1>2, MinOfLeft DEF UploadTypes, TypeOK
  <2>3. [fid |-> Min(left), val |-> vals[Min(left)]] \in Packets
    BY <2>2 DEF Packets
  <2>4. QED
    BY <2>1, <2>2, <2>3, PutFacts
<1>3. QED
  BY <1>1, <1>2

\* The first packet is taken from a link.
LEMMA TailFacts ==
  ASSUME NEW S, NEW link \in Seq(S), link # <<>>
  PROVE  /\ Tail(link) \in Seq(S)
         /\ Len(Tail(link)) = Len(link) - 1 /\ Len(link) \in Nat
         /\ 1 \in 1 .. Len(link)
         /\ Head(link) = link[1]
         /\ link[1] \in S
         /\ \A i \in 1 .. Len(Tail(link)) :
              i + 1 \in 1 .. Len(link) /\ Tail(link)[i] = link[i + 1]
OBVIOUS

\* What the node takes, and its answer
LEMMA NodeFacts ==
  ASSUME UploadTypes, NodeTakes
  PROVE  /\ up # <<>> /\ Head(up) = up[1] /\ up[1] \in Packets /\ 1 \in 1 .. Len(up)
         /\ up' = Tail(up) /\ up' \in Seq(Packets) /\ Len(up') = Len(up) - 1
         /\ down' \in Seq(Fields \cup {Save})
         /\ \/ UNCHANGED down
            \/ /\ Len(down') = Len(down) + 1
               /\ \A i \in 1 .. Len(down') :
                     \/ i \in 1 .. Len(down) /\ down'[i] = down[i]
                     \/ i = Len(down) + 1 /\ down'[i] = up[1].fid
<1>1. up \in Seq(Packets) /\ up # <<>> /\ up' = Tail(up)
  BY DEF UploadTypes, NodeTakes
<1>2. /\ Head(up) = up[1] /\ up[1] \in Packets /\ 1 \in 1 .. Len(up)
      /\ up' \in Seq(Packets) /\ Len(up') = Len(up) - 1
  BY <1>1, TailFacts
<1>3. down \in Seq(Fields \cup {Save}) /\ up[1].fid \in Fields \cup {Save}
  BY <1>2 DEF UploadTypes, Packets
<1>4. down' = down \/ down' = Append(down, up[1].fid)
  BY <1>2 DEF NodeTakes
<1> DEFINE f == up[1].fid
<1> HIDE DEF f
<1>5. CASE down' = Append(down, f)
  BY <1>1, <1>2, <1>3, <1>5 DEF f
<1>6. QED
  BY <1>1, <1>2, <1>3, <1>4, <1>5 DEF f

-----------------------------------------------------------------------------
(* UploadTypes *)

\* An answer is taken from the link.
LEMMA AnswerFacts ==
  ASSUME UploadTypes, Answer
  PROVE  /\ down # <<>> /\ Head(down) = down[1] /\ 1 \in 1 .. Len(down)
         /\ down' = Tail(down) /\ down' \in Seq(Fields \cup {Save})
         /\ Len(down') = Len(down) - 1 /\ Len(down) \in Nat
BY TailFacts DEF UploadTypes, Answer

\* Every variable keeps its type.
LEMMA NextTypes ==
  ASSUME UploadTypes, RequestInv, [Next]_vars  PROVE UploadTypes'
<1>1. ASSUME up' \in Seq(Packets), down' \in Seq(Fields \cup {Save})
      PROVE  /\ \A i \in DOMAIN up' : up'[i].fid \in Fields \cup {Save}
             /\ \A i \in DOMAIN down' : down'[i] \in Fields \cup {Save}
  <2>1. /\ \A i \in DOMAIN up' : up'[i] \in Packets
        /\ \A i \in DOMAIN down' : down'[i] \in Fields \cup {Save}
    BY <1>1
  <2>2. QED
    BY <2>1 DEF Packets
<1>2. up \in Seq(Packets) /\ down \in Seq(Fields \cup {Save})
  BY DEF UploadTypes
<1>3. ASSUME NEW f \in Fields, NEW v \in Vals, Edit(f, v)  PROVE UploadTypes'
  BY <1>3, ConstantsAssumption DEF Edit, UploadTypes, TypeOK, reqVars, nodeVars
<1>4. CASE Upload
  <2>1. Modified \subseteq Fields /\ DOMAIN vals' = Modified /\ vals' \in [Modified -> Vals]
    BY <1>4 DEF Upload, Modified, UploadTypes, TypeOK
  <2>2. QED
    BY <1>4, <2>1, ConstantsAssumption DEF Upload, UploadTypes, TypeOK, gcsVars, nodeVars
<1>5. ASSUME End  PROVE DOMAIN vals' = {} /\ vals' \in [{} -> Vals]
  BY <1>5 DEF End
<1>6. CASE Cancel \/ TimeoutDrop
  <2>1. End /\ suspect' \subseteq Fields /\ late' \in BOOLEAN
    BY <1>6 DEF Cancel, TimeoutDrop, GiveUp, UploadTypes, TypeOK
  <2>2. UNCHANGED <<gcsVars, nodeVars, retry, up, down, edits>>
    BY <1>6 DEF Cancel, TimeoutDrop
  <2>3. QED
    BY <1>5, <2>1, <2>2 DEF End, UploadTypes, TypeOK, gcsVars, nodeVars
<1>7. CASE Send
  <2>1. /\ up' \in Seq(Packets) /\ fid' \in Fields \cup {Save} /\ left' \subseteq left
        /\ suspect' \subseteq Fields
    BY <1>7, SendFacts DEF Put, UploadTypes, TypeOK
  <2>2. /\ UNCHANGED <<gcsVars, nodeVars, vals, retry, down, edits, late>>
        /\ active' = TRUE /\ tx' = "wait"
    BY <1>7 DEF Send
  <2>3. \A i \in DOMAIN up' : up'[i].fid \in Fields \cup {Save}
    BY <1>1, <1>2, <2>1, <2>2
  <2>4. QED
    BY <2>1, <2>2, <2>3 DEF UploadTypes, TypeOK, gcsVars, nodeVars
<1>8. CASE TimeoutRetry
  BY <1>8, ConstantsAssumption DEF TimeoutRetry, MayRetry, UploadTypes, TypeOK, gcsVars, nodeVars
<1>9. CASE Answer
  <2>1. /\ down' \in Seq(Fields \cup {Save})
        /\ UNCHANGED <<nodeVars, value, up, edits, late, suspect>>
    BY <1>9, AnswerFacts DEF Answer
  <2>2. base' \in [Fields -> Vals]
    BY <1>9 DEF Answer, Confirmed, UploadTypes, TypeOK
  <2>3. CASE UNCHANGED reqVars
    BY <1>1, <1>2, <2>1, <2>2, <2>3 DEF UploadTypes, TypeOK, nodeVars, reqVars
  <2>4. CASE End /\ UNCHANGED retry
    BY <1>1, <1>2, <1>5, <2>1, <2>2, <2>4 DEF End, UploadTypes, TypeOK, nodeVars
  <2>5. CASE tx' = "send" /\ retry' = Retries /\ UNCHANGED <<vals, left, fid, active>>
    BY <1>1, <1>2, <2>1, <2>2, <2>5, ConstantsAssumption DEF UploadTypes, TypeOK, nodeVars
  <2>6. QED
    BY <1>9, <2>3, <2>4, <2>5 DEF Answer
<1>10. CASE NodeTakes
  <2>1. /\ up' \in Seq(Packets) /\ down' \in Seq(Fields \cup {Save})
        /\ Head(up) \in Packets
    BY <1>10, NodeFacts
  <2>2. /\ param' \in [Fields -> Vals] /\ stored' \in [Fields -> Vals]
        /\ suspect' \subseteq Fields
    BY <1>10, <2>1 DEF NodeTakes, Packets, UploadTypes, TypeOK
  <2>3. UNCHANGED <<gcsVars, reqVars, edits, late>>
    BY <1>10 DEF NodeTakes
  <2>4. QED
    BY <1>1, <2>1, <2>2, <2>3 DEF UploadTypes, TypeOK, gcsVars, reqVars
<1>11. CASE LoseRequest \/ LoseAnswer
  <2>1. up' \in Seq(Packets) /\ down' \in Seq(Fields \cup {Save})
    <3>1. CASE LoseRequest
      <4>1. up # <<>> /\ up' = Tail(up) /\ down' = down
        BY <3>1 DEF LoseRequest
      <4>2. QED
        BY <1>2, <4>1, TailFacts
    <3>2. CASE LoseAnswer
      <4>1. down # <<>> /\ down' = Tail(down) /\ up' = up
        BY <3>2 DEF LoseAnswer
      <4>2. QED
        BY <1>2, <4>1, TailFacts
    <3>3. QED
      BY <1>11, <3>1, <3>2
  <2>2. suspect' \subseteq Fields
    <3>1. CASE LoseRequest
      <4>1. Head(up) \in Packets
        BY <1>2, <3>1, TailFacts DEF LoseRequest
      <4>2. QED
        BY <3>1, <4>1 DEF LoseRequest, Packets, UploadTypes, TypeOK
    <3>2. CASE LoseAnswer
      BY <3>2 DEF LoseAnswer, UploadTypes, TypeOK
    <3>3. QED
      BY <1>11, <3>1, <3>2
  <2>3. UNCHANGED <<gcsVars, reqVars, nodeVars, edits, late>>
    BY <1>11 DEF LoseRequest, LoseAnswer
  <2>4. QED
    BY <1>1, <2>1, <2>2, <2>3 DEF UploadTypes, TypeOK, gcsVars, reqVars, nodeVars
<1>12. CASE UNCHANGED vars
  BY <1>12 DEF vars, UploadTypes, TypeOK
<1>13. QED
  BY <1>3, <1>4, <1>6, <1>7, <1>8, <1>9, <1>10, <1>11, <1>12 DEF Next, Request

\* The request keeps to its order.
LEMMA NextRequest ==
  ASSUME UploadTypes, RequestInv, [Next]_vars  PROVE RequestInv'
<1>1. CASE UNCHANGED reqVars
  BY <1>1 DEF reqVars, RequestInv
<1>2. CASE End
  <2>1. DOMAIN vals' = {}
    BY <1>2 DEF End
  <2>2. fid' = None
    BY <1>2 DEF End
  <2>3. QED
    BY <1>2, <2>1, <2>2, ConstantsAssumption DEF End, RequestInv
<1>3. CASE Upload
  <2>1. DOMAIN vals' = left' /\ fid' = None /\ tx' = "send" /\ ~active'
    BY <1>3 DEF Upload, UploadTypes, TypeOK
  <2>2. QED
    BY <2>1, ConstantsAssumption DEF RequestInv
<1>4. CASE Send
  <2>1. /\ fid' \in Fields \cup {Save} /\ left' \subseteq left
        /\ \/ left = {} /\ fid' = Save /\ left' = {}
           \/ fid' \in left /\ fid' \in Fields /\ left' = left \ {fid'}
    BY <1>4, SendFacts
  <2>2. active' = TRUE /\ tx' = "wait" /\ UNCHANGED vals
    BY <1>4 DEF Send
  <2>3. QED
    BY <2>1, <2>2, ConstantsAssumption DEF RequestInv, UploadTypes, TypeOK
<1>5. CASE TimeoutRetry
  BY <1>5 DEF TimeoutRetry, RequestInv
<1>6. CASE Answer
  <2>1. CASE tx' = "send" /\ active /\ UNCHANGED <<vals, left, fid, active>>
    BY <2>1 DEF RequestInv
  <2>2. QED
    BY <1>1, <1>2, <1>6, <2>1 DEF Answer, Expects
<1>7. QED
  BY <1>1, <1>2, <1>3, <1>4, <1>5, <1>6 DEF Next, Request, Edit, Cancel, GiveUp,
     TimeoutDrop, NodeTakes, LoseRequest, LoseAnswer, vars, reqVars

-----------------------------------------------------------------------------
(* GCS and node *)

\* An empty link
LEMMA EmptyLink ==
  ASSUME up' = <<>>, down' = <<>>  PROVE LinkInv'
BY DEF LinkInv

\* While the packet that is awaited is the only one, what is not suspect follows.
LEMMA NextDrift ==
  ASSUME UploadTypes, UploadTypes', RequestInv, RequestInv', DriftInv, [Next]_vars, ~late'
  PROVE  /\ LinkInv'
         /\ \A g \in Fields \ suspect' : Follows(g)'
         /\ down' # <<>> /\ fid' = Save => stored' = param'
<1>1. ~late
  BY DEF Next, Request, Edit, Upload, Cancel, GiveUp, Send, TimeoutRetry, TimeoutDrop,
     Answer, NodeTakes, LoseRequest, LoseAnswer, vars
<1>2. /\ LinkInv
      /\ \A g \in Fields \ suspect : Follows(g)
      /\ down # <<>> /\ fid = Save => stored = param
  BY <1>1 DEF DriftInv
<1>3. /\ up \in Seq(Packets) /\ down \in Seq(Fields \cup {Save})
      /\ up' \in Seq(Packets) /\ down' \in Seq(Fields \cup {Save})
  BY DEF UploadTypes
<1>4. /\ Len(up) \in Nat /\ (up = <<>> <=> Len(up) = 0)
      /\ Len(down) \in Nat /\ (down = <<>> <=> Len(down) = 0)
      /\ Len(up') \in Nat /\ (up' = <<>> <=> Len(up') = 0)
      /\ Len(down') \in Nat /\ (down' = <<>> <=> Len(down') = 0)
  BY <1>3
<1>5. Save \notin Fields
  BY ConstantsAssumption
<1>6. ASSUME NEW f \in Fields, NEW v \in Vals, Edit(f, v)
      PROVE  LinkInv' /\ (\A g \in Fields \ suspect' : Follows(g)')
             /\ (down' # <<>> /\ fid' = Save => stored' = param')
  <2>1. /\ UNCHANGED <<base, vals, left, fid, tx, up, down, param, stored>>
        /\ value' = [value EXCEPT ![f] = v]
        /\ suspect' = IF tx = "idle" THEN suspect ELSE suspect \cup {f}
    BY <1>6 DEF Edit, reqVars, nodeVars
  <2>2. LinkInv'
    BY <1>2, <2>1 DEF LinkInv
  <2>3. ASSUME NEW g \in Fields \ suspect'  PROVE Follows(g)'
    <3>1. g \notin suspect /\ Follows(g) /\ value \in [Fields -> Vals]
      BY <1>2, <2>1, <2>3 DEF UploadTypes, TypeOK
    <3>2. CASE g # f
      <4>1. value'[g] = value[g]
        BY <2>1, <3>1, <3>2
      <4>2. QED
        BY <2>1, <3>1, <4>1 DEF Follows, UnderWay
    <3>3. CASE g = f
      <4>1. tx = "idle"
        BY <2>1, <2>3, <3>3
      <4>2. g \notin DOMAIN vals /\ g \notin left
        BY <4>1 DEF RequestInv, UploadTypes, TypeOK
      <4>3. QED
        BY <2>1, <3>1, <4>1, <4>2 DEF Follows
    <3>4. QED
      BY <3>2, <3>3
  <2>4. QED
    BY <1>2, <2>1, <2>2, <2>3
<1>7. CASE Upload
  <2>1. /\ ~active /\ tx # "wait" /\ up = <<>> /\ down = <<>> /\ left = DOMAIN vals
    BY <1>2, <1>7 DEF Upload, RequestInv, LinkInv
  <2>2. /\ UNCHANGED <<value, base, up, down, param, stored, suspect>>
        /\ vals' = [f \in Modified |-> value[f]] /\ left' = Modified
    BY <1>7 DEF Upload, gcsVars, nodeVars
  <2>3. ASSUME NEW g \in Fields \ suspect'  PROVE Follows(g)'
    <3>1. Follows(g)
      BY <1>2, <2>2, <2>3
    <3>2. base[g] = stored[g] /\ stored[g] = param[g]
      BY <2>1, <3>1 DEF Follows
    <3>3. /\ g \in Modified => vals'[g] = value[g]
          /\ g \notin Modified => value[g] = base[g]
          /\ DOMAIN vals' = Modified
      BY <2>2 DEF Modified
    <3>4. QED
      BY <2>2, <3>2, <3>3 DEF Follows
  <2>4. QED
    BY <2>1, <2>2, <2>3, EmptyLink
<1>8. CASE Cancel \/ TimeoutDrop
  <2>1. /\ GiveUp /\ UNCHANGED <<value, base, up, down, param, stored>>
    BY <1>8 DEF Cancel, TimeoutDrop, gcsVars, nodeVars
  <2>2. up = <<>> /\ down = <<>> /\ suspect' = suspect \cup (DOMAIN vals \ left)
    BY <2>1 DEF GiveUp
  <2>3. DOMAIN vals' = {} /\ left' = {} /\ tx' = "idle"
    BY <2>1 DEF GiveUp, End
  <2>4. ASSUME NEW g \in Fields \ suspect'  PROVE Follows(g)'
    <3>1. Follows(g) /\ g \notin DOMAIN vals \ left
      BY <1>2, <2>2, <2>4
    <3>2. QED
      BY <2>1, <2>3, <3>1 DEF Follows
  <2>5. QED
    BY <2>1, <2>2, <2>4, EmptyLink
<1>9. CASE Send
  <2>1. /\ tx = "send" /\ up = <<>> /\ down = <<>> /\ tx' = "wait"
        /\ UNCHANGED <<value, base, param, stored, vals, down>>
    BY <1>2, <1>9 DEF Send, LinkInv, gcsVars, nodeVars
  <2>2. CASE left = {} /\ fid' = Save /\ left' = {} /\ Put(Save, None)
    <3>1. /\ suspect' = suspect
          /\ up' = <<>> \/ (Len(up') = 1 /\ up'[1].fid = Save)
      <4>1. [fid |-> Save, val |-> None] \in Packets
        BY DEF Packets
      <4>2. suspect' = suspect \/ suspect' = suspect \cup ({Save} \ {Save})
        BY <2>2 DEF Put
      <4>3. up' = <<>> \/ (Len(up') = 1 /\ up'[1].fid = Save)
        BY <1>4, <2>1, <2>2, <4>1, PutFacts
      <4>4. QED
        BY <4>2, <4>3
    <3>2. LinkInv'
      <4>1. down' = <<>> /\ Len(down') = 0 /\ tx' = "wait" /\ fid' \notin Fields
        BY <1>4, <1>5, <2>1, <2>2
      <4>2. Len(up') + Len(down') <= 1
        BY <1>4, <3>1, <4>1
      <4>3. \A i \in 1 .. Len(up') : up'[i].fid = fid'
        BY <1>4, <2>2, <3>1
      <4>4. QED
        BY <4>1, <4>2, <4>3 DEF LinkInv
    <3>3. ASSUME NEW g \in Fields \ suspect'  PROVE Follows(g)'
      <4>1. Follows(g)
        BY <1>2, <3>1, <3>3
      <4>2. QED
        BY <2>1, <2>2, <4>1 DEF Follows, UnderWay
    <3>4. QED
      BY <2>1, <3>2, <3>3
  <2>3. CASE /\ fid' \in left /\ fid' \in Fields /\ left' = left \ {fid'}
             /\ Put(fid', vals[fid'])
    <3>1. fid' \in DOMAIN vals /\ vals[fid'] \in Vals
      BY <2>3 DEF UploadTypes, TypeOK
    <3>2. PICK f : f = fid'
      OBVIOUS
    <3>3. /\ f \in left /\ f \in Fields /\ left' = left \ {f} /\ Put(f, vals[f])
          /\ f \in DOMAIN vals /\ vals[f] \in Vals
      BY <2>3, <3>1, <3>2
    <3>4. /\ suspect \subseteq suspect'
          /\ \/ Len(up') = 1 /\ up'[1].fid = f /\ up'[1].val = vals[f]
             \/ up' = <<>> /\ f \in suspect'
      <4>1. [fid |-> f, val |-> vals[f]] \in Packets
        BY <3>3 DEF Packets
      <4>2. QED
        BY <1>4, <1>5, <2>1, <3>3, <4>1, PutFacts
    <3>5. LinkInv'
      <4>1. up' # <<>> => Len(up') = 1 /\ up'[1].fid = fid' /\ up'[1].val = vals'[fid']
        BY <2>1, <3>2, <3>4
      <4>2. tx' = "wait" /\ Len(down') = 0 /\ 1 .. Len(down') = {}
        BY <2>1
      <4>3. CASE up' = <<>>
        <5>1. Len(up') = 0 /\ 1 .. Len(up') = {}
          BY <4>3
        <5>2. QED
          BY <4>2, <5>1 DEF LinkInv
      <4>4. CASE Len(up') = 1 /\ up'[1].fid = fid' /\ up'[1].val = vals'[fid']
        <5>1. \A i \in 1 .. Len(up') : i = 1
          BY <4>4
        <5>2. QED
          BY <4>2, <4>4, <5>1 DEF LinkInv
      <4>5. QED
        BY <4>1, <4>3, <4>4
    <3>6. ASSUME NEW g \in Fields \ suspect'  PROVE Follows(g)'
      <4>1. Follows(g)
        BY <1>2, <3>4, <3>6
      <4>2. CASE g = f
        <5>1. up' # <<>>
          BY <3>4, <3>6, <4>2
        <5>2. value[g] = vals[g]
          BY <3>3, <4>1, <4>2 DEF Follows
        <5>3. QED
          BY <2>1, <3>2, <3>3, <4>2, <5>1, <5>2 DEF Follows, UnderWay
      <4>3. CASE g # f
        BY <2>1, <3>3, <4>1, <4>3 DEF Follows, UnderWay
      <4>4. QED
        BY <4>2, <4>3
    <3>7. QED
      BY <2>1, <3>5, <3>6
  <2>4. QED
    BY <1>9, <2>2, <2>3, SendFacts
<1>10. CASE TimeoutRetry
  <2>1. /\ up = <<>> /\ down = <<>> /\ tx = "wait"
        /\ UNCHANGED <<value, base, vals, left, fid, up, down, param, stored, suspect>>
    BY <1>10 DEF TimeoutRetry, gcsVars, nodeVars
  <2>2. \A g \in Fields \ suspect' : Follows(g)'
    BY <1>2, <2>1 DEF Follows, UnderWay
  <2>3. QED
    BY <2>1, <2>2, EmptyLink
<1>11. CASE Answer
  <2>1. /\ tx = "wait" /\ up = <<>> /\ down' = <<>> /\ Head(down) = fid /\ active
        /\ UNCHANGED <<value, up, param, stored, suspect>>
    <3>1. down # <<>> /\ Head(down) = down[1] /\ 1 \in 1 .. Len(down)
          /\ Len(down') = Len(down) - 1
      BY <1>11, AnswerFacts
    <3>2. tx = "wait" /\ Len(down) = 1 /\ Len(up) = 0 /\ down[1] = fid
      BY <1>2, <1>4, <3>1 DEF LinkInv
    <3>3. UNCHANGED <<value, up, param, stored, suspect>>
      BY <1>11 DEF Answer, nodeVars
    <3>4. QED
      BY <1>4, <3>1, <3>2, <3>3 DEF RequestInv
  <2>2. CASE fid = Save
    <3>1. base' = value /\ End
      BY <1>11, <2>1, <2>2 DEF Answer, Confirmed, Expects, Done
    <3>2. DOMAIN vals' = {} /\ left' = {} /\ tx' = "idle"
      BY <3>1 DEF End
    <3>3. stored = param /\ left = {}
      BY <1>2, <1>11, <2>2 DEF Answer, RequestInv
    <3>4. ASSUME NEW g \in Fields \ suspect'  PROVE Follows(g)'
      <4>1. Follows(g)
        BY <1>2, <2>1, <3>4
      <4>2. param[g] = value[g]
        BY <2>1, <3>3, <4>1 DEF Follows, UnderWay
      <4>3. QED
        BY <2>1, <3>1, <3>2, <3>3, <4>2 DEF Follows
    <3>5. QED
      BY <2>1, <3>4, EmptyLink
  <2>3. CASE fid # Save
    <3>1. base' = base /\ tx' = "send" /\ UNCHANGED <<vals, left, fid>>
      BY <1>11, <2>1, <2>3 DEF Answer, Confirmed, Expects, Done
    <3>2. \A g \in Fields \ suspect' : Follows(g)'
      BY <1>2, <2>1, <3>1 DEF Follows, UnderWay
    <3>3. QED
      BY <2>1, <3>2, EmptyLink
  <2>4. QED
    BY <2>2, <2>3
<1>12. CASE NodeTakes
  <2>1. /\ up # <<>> /\ Head(up) = up[1] /\ 1 \in 1 .. Len(up)
        /\ Len(up') = Len(up) - 1
        /\ \/ UNCHANGED down
           \/ /\ Len(down') = Len(down) + 1
              /\ \A i \in 1 .. Len(down') :
                    \/ i \in 1 .. Len(down) /\ down'[i] = down[i]
                    \/ i = Len(down) + 1 /\ down'[i] = up[1].fid
    BY <1>12, NodeFacts
  <2>2. /\ tx = "wait" /\ Len(up) = 1 /\ Len(down) = 0
        /\ up[1].fid = fid /\ (fid \in Fields => up[1].val = vals[fid])
    BY <1>2, <1>4, <2>1 DEF LinkInv
  <2>3. /\ up' = <<>>
        /\ Len(down') <= 1 /\ \A i \in 1 .. Len(down') : down'[i] = fid
    BY <1>4, <2>1, <2>2
  <2>4. UNCHANGED <<value, base, vals, left, fid, tx>>
    BY <1>12 DEF NodeTakes, gcsVars, reqVars
  <2>5. LinkInv'
    BY <1>4, <2>2, <2>3, <2>4 DEF LinkInv
  <2>6. CASE fid = Save
    <3>1. stored' = param /\ param' = param /\ suspect' = suspect
      BY <1>12, <2>1, <2>2, <2>6 DEF NodeTakes
    <3>2. \A g \in Fields \ suspect' : Follows(g)'
      BY <1>2, <1>5, <2>4, <2>6, <3>1 DEF Follows, UnderWay
    <3>3. QED
      BY <2>5, <3>1, <3>2
  <2>7. CASE fid # Save
    <3>1. fid \in Fields /\ fid \in DOMAIN vals \ left
      BY <2>2, <2>7 DEF RequestInv
    <3>2. /\ param' = [param EXCEPT ![fid] = vals[fid]] /\ stored' = stored
          /\ suspect' = IF vals[fid] = value[fid] THEN suspect \ {fid} ELSE suspect
      BY <1>12, <2>1, <2>2, <2>7, <3>1 DEF NodeTakes
    <3>3. ASSUME NEW g \in Fields \ suspect'  PROVE Follows(g)'
      <4>1. CASE g = fid
        <5>1. vals[fid] = value[fid]
          <6>1. ASSUME fid \notin suspect  PROVE vals[fid] = value[fid]
            BY <1>2, <3>1, <6>1 DEF Follows
          <6>2. QED
            BY <3>2, <3>3, <4>1, <6>1
        <5>2. param'[g] = value[g]
          BY <3>1, <3>2, <4>1, <5>1 DEF UploadTypes, TypeOK
        <5>3. QED
          BY <2>4, <3>1, <4>1, <5>1, <5>2 DEF Follows
      <4>2. CASE g # fid
        <5>1. Follows(g)
          BY <1>2, <3>2, <3>3, <4>2
        <5>2. param'[g] = param[g]
          BY <3>1, <3>2, <4>2 DEF UploadTypes, TypeOK
        <5>3. QED
          BY <2>4, <3>2, <4>2, <5>1, <5>2 DEF Follows, UnderWay
      <4>3. QED
        BY <4>1, <4>2
    <3>4. QED
      BY <2>4, <2>5, <2>7, <3>3
  <2>8. QED
    BY <2>6, <2>7
<1>13. CASE LoseRequest
  <2>1. /\ up # <<>> /\ Head(up) = up[1] /\ 1 \in 1 .. Len(up)
        /\ Len(up') = Len(up) - 1 /\ suspect' = suspect \cup ({up[1].fid} \ {Save})
        /\ UNCHANGED <<value, base, vals, left, fid, tx, param, stored, down>>
    BY <1>3, <1>13, TailFacts DEF LoseRequest, gcsVars, reqVars, nodeVars
  <2>2. Len(up) = 1 /\ Len(down) = 0 /\ up[1].fid = fid
    BY <1>2, <1>4, <2>1 DEF LinkInv
  <2>3. up' = <<>> /\ down' = <<>>
    BY <1>4, <2>1, <2>2
  <2>4. ASSUME NEW g \in Fields \ suspect'  PROVE Follows(g)'
    <3>1. Follows(g) /\ g # fid
      BY <1>2, <1>5, <2>1, <2>2, <2>4
    <3>2. QED
      BY <2>1, <3>1 DEF Follows, UnderWay
  <2>5. QED
    BY <2>3, <2>4, EmptyLink
<1>14. CASE LoseAnswer
  <2>1. /\ down # <<>> /\ Len(down') = Len(down) - 1
        /\ UNCHANGED <<value, base, vals, left, fid, tx, param, stored, up, suspect>>
    BY <1>3, <1>14, TailFacts DEF LoseAnswer, gcsVars, reqVars, nodeVars
  <2>2. Len(up) = 0 /\ Len(down) = 1
    BY <1>2, <1>4, <2>1 DEF LinkInv
  <2>3. up' = <<>> /\ down' = <<>>
    BY <1>4, <2>1, <2>2
  <2>4. \A g \in Fields \ suspect' : Follows(g)'
    BY <1>2, <2>1 DEF Follows, UnderWay
  <2>5. QED
    BY <2>3, <2>4, EmptyLink
<1>15. CASE UNCHANGED vars
  BY <1>2, <1>15 DEF vars, LinkInv, Follows, UnderWay
<1>16. QED
  BY <1>6, <1>7, <1>8, <1>9, <1>10, <1>11, <1>12, <1>13, <1>14, <1>15
     DEF Next, Request

-----------------------------------------------------------------------------
(* The theorems *)

\* The inductive invariant holds in the beginning.
LEMMA InitInv == Init => IInv
<1> SUFFICES ASSUME Init  PROVE IInv
  OBVIOUS
<1>1. /\ DOMAIN vals = {} /\ vals \in [{} -> Vals]
      /\ up \in Seq(Packets) /\ down \in Seq(Fields \cup {Save})
      /\ Len(up) = 0 /\ Len(down) = 0
  <2>1. vals = <<>> /\ up = <<>> /\ down = <<>>
    BY DEF Init
  <2>2. QED
    BY <2>1
<1>2. UploadTypes
  <2>1. TypeOK
    <3>1. /\ value \in [Fields -> Vals] /\ base \in [Fields -> Vals]
          /\ param \in [Fields -> Vals] /\ stored \in [Fields -> Vals]
          /\ left = {} /\ suspect = {} /\ fid = None /\ tx = "idle"
          /\ active = FALSE /\ late = FALSE /\ retry = 0 /\ edits = 0
      BY DEF Init
    <3>2. retry \in 0 .. Retries /\ edits \in 0 .. MaxEdits
      BY <3>1, ConstantsAssumption
    <3>3. DOMAIN up = {} /\ DOMAIN down = {}
      BY <1>1
    <3>4. QED
      BY <1>1, <3>1, <3>2, <3>3 DEF TypeOK
  <2>2. QED
    BY <1>1, <2>1 DEF Init, UploadTypes
<1>3. RequestInv
  BY <1>1, ConstantsAssumption DEF Init, RequestInv
<1>4. DriftInv
  BY <1>1 DEF Init, DriftInv, LinkInv, Follows
<1>5. QED
  BY <1>2, <1>3, <1>4 DEF IInv

\* It holds in every reachable state.
LEMMA Invariance == Spec => []IInv
<1>1. IInv /\ [Next]_vars => IInv'
  BY NextTypes, NextRequest, NextDrift DEF IInv, DriftInv
<1>2. QED
  BY InitInv, <1>1, PTL DEF Spec

\* Every variable keeps its type.
THEOREM TypeCorrect == Spec => []TypeOK
<1>1. IInv => TypeOK
  BY DEF IInv, UploadTypes
<1>2. QED
  BY <1>1, Invariance, PTL

\* With no upload running, a field that is not shown as modified is what the
\* node has saved, but for the causes named.
THEOREM DriftCorrect == Spec => []DriftHasCause
<1>1. IInv => DriftHasCause
  <2> SUFFICES ASSUME IInv, tx = "idle", ~late, NEW f \in Fields, f \notin suspect
               PROVE  base[f] = stored[f]
    BY DEF DriftHasCause
  <2>1. DOMAIN vals = {} /\ Follows(f)
    BY DEF IInv, RequestInv, DriftInv
  <2>2. QED
    BY <2>1 DEF Follows
<1>2. QED
  BY <1>1, Invariance, PTL

-----------------------------------------------------------------------------
(* FirmwareUpgrade *)

\* An item: of a node, or an STM loader on a port
Made == [uid : Uids \cup {NoNode}, type : Types]

\* Now, with the types of its parts
State == [made       : Seq(Made),
          queue      : Seq(Items),
          upgrading  : BOOLEAN,
          nexts      : Nat,
          tuned      : [Items -> Nat],
          serial     : SUBSET Items,
          posted     : Seq(Events),
          linked     : SUBSET Items,
          node       : Uids \cup {NoNode},
          item       : Items \cup {0},
          identRetry : 0 .. IdentRetries,
          success    : BOOLEAN,
          fresh      : Seq(Requests),
          line       : Seq(Requests),
          told       : [Items -> {"nothing", "ok", "error"}],
          mixed      : SUBSET Items]

\* What is named was made.
Placed(s, w) ==
    /\ Len(s.made) <= MaxItems
    /\ Range(s.queue) \subseteq DOMAIN s.made
    /\ s.serial \subseteq DOMAIN s.made
    /\ s.linked \subseteq DOMAIN s.made
    /\ s.item \in DOMAIN s.made \cup {0}
    /\ s.mixed \subseteq DOMAIN s.made
    /\ w \subseteq DOMAIN s.made
    /\ \A i \in Items : s.told[i] # "nothing" => i \in DOMAIN s.made

\* The upgrade under way is of an item for a node; an item that listens, and no
\* other upgrade came in between, is this item.
AtWork(s) ==
    /\ ~s.success
    /\ s.linked # {} => s.node # NoNode
    /\ s.node # NoNode => s.item # 0
    /\ s.item # 0 => s.made[s.item].uid # NoNode
    /\ \A i \in s.linked \ s.mixed : i = s.item /\ s.node = s.made[i].uid

\* Every write, scheduled or not, is then for its node and its file.
WritesMatch(s) ==
    \A r \in Range(s.line) \cup Range(s.fresh) : r.kind = "write" =>
        \A i \in s.linked \ s.mixed :
            s.made[i].uid = r.uid /\ s.made[i].type = r.name

\* An item whose file was written is done.
WrittenIsDone(s, w) == \A i \in w : i \notin Range(s.queue) \cup s.linked

ToldTrue(s, w) ==
    \A i \in DOMAIN s.made \ s.mixed :
        /\ s.told[i] = "ok" => i \in w
        /\ s.told[i] = "error" => i \notin w

Good(s, w) ==
    Placed(s, w) /\ AtWork(s) /\ WritesMatch(s) /\ WrittenIsDone(s, w) /\ ToldTrue(s, w)

\* A sequence with elements of T only
LEMMA SeqOf ==
  ASSUME NEW S, NEW T, NEW q \in Seq(S), Range(q) \subseteq T
  PROVE  q \in Seq(T)
<1>1. \A k \in 1 .. Len(q) : q[k] \in T
  BY DEF Range
<1>2. QED
  BY <1>1

LEMMA KeptFacts ==
  ASSUME NEW T, NEW q \in Seq(T), NEW S
  PROVE  Kept(q, S) \in Seq(T) /\ Range(Kept(q, S)) \subseteq Range(q) \cap S
<1> DEFINE X == Seq(Range(q) \cap S)
           Step(k, x) == IF q[k] \in S THEN Append(x, q[k]) ELSE x
           n == Len(q)
           x0 == <<>>
           step == [k \in 1 .. n |-> [x \in X |-> Step(k, x)]]
           Equation(g) == g = [k \in 0 .. n |-> IF k = 0 THEN x0 ELSE Step(k, g[k - 1])]
           kept == CHOOSE g : Equation(g)
<1>1. n \in Nat /\ x0 \in X
  OBVIOUS
<1>2. \A k \in 1 .. n : q[k] \in Range(q)
  BY DEF Range
<1>3. \A k \in 1 .. n, x \in X : Step(k, x) \in X
  BY <1>2
<1> HIDE DEF X, Step, n, x0
<1>4. step \in StepsIn(n, X)
  BY <1>3 DEF StepsIn
<1>5. PICK f : Computed(f, n, X, x0, step)
  <2> HIDE DEF step, Equation, kept
  <2> QED BY <1>1, <1>4, FiniteRecursion
<1>6. Equation(f)
  <2>1. \A k \in 1 .. n : k - 1 \in 0 .. n /\ k \in 0 .. n
    BY <1>1
  <2>2. \A k \in 1 .. n : f[k] = Step(k, f[k - 1])
    BY <1>5, <2>1 DEF Computed
  <2>3. \A k \in 0 .. n : f[k] = IF k = 0 THEN x0 ELSE Step(k, f[k - 1])
    BY <1>5, <1>1, <2>2 DEF Computed
  <2>4. f \in [0 .. n -> X]
    BY <1>5 DEF Computed
  <2>5. QED
    BY <2>3, <2>4
<1>7. Equation(kept)
  <2> HIDE DEF Equation
  <2> QED BY <1>6
<1> HIDE DEF kept
<1>8. \A k \in 0 .. n : kept[k] \in X
  <2> DEFINE P == {k \in 0 .. n : kept[k] \in X}
  <2>1. 0 \in P
    BY <1>7, <1>1
  <2>2. ASSUME NEW k \in 1 .. n, k - 1 \in P
        PROVE  k \in P
    <3>1. k \in 0 .. n /\ k # 0
      BY <1>1
    <3>2. kept[k] = Step(k, kept[k - 1])
      BY <1>7, <3>1
    <3>3. kept[k - 1] \in X
      BY <2>2
    <3>4. QED
      BY <1>3, <3>1, <3>2, <3>3
  <2>3. QED
    <3> HIDE DEF P
    <3>1. \A k \in 0 .. n : k \in P
      BY <1>1, <2>1, <2>2, SetInduction
    <3>2. QED
      BY <3>1 DEF P
<1>9. Kept(q, S) = kept[n]
  BY DEF Kept, kept, n, x0, Step
<1>10. Kept(q, S) \in X
  BY <1>8, <1>9, <1>1
<1>11. QED
  <2>1. Range(q) \cap S \subseteq T
    BY DEF Range
  <2>2. QED
    BY <1>10, <2>1 DEF Range, X

LEMMA TimersIsNat ==
  ASSUME NEW s \in State, NEW S
  PROVE  Timers(s, S) \in Nat
<1> DEFINE X == Nat
           Step(k, x) == x + IF k \in S THEN s.tuned[k] ELSE 0
           n == MaxItems
           x0 == 0
           step == [k \in 1 .. n |-> [x \in X |-> Step(k, x)]]
           Equation(g) == g = [k \in 0 .. n |-> IF k = 0 THEN x0 ELSE Step(k, g[k - 1])]
           sum == CHOOSE g : Equation(g)
<1>1. n \in Nat /\ x0 \in X
  BY UpgradeAssumption
<1>2. \A k \in 1 .. n : s.tuned[k] \in Nat
  BY DEF State, Items
<1>3. \A k \in 1 .. n, x \in X : Step(k, x) \in X
  BY <1>2
<1> HIDE DEF X, Step, n, x0
<1>4. step \in StepsIn(n, X)
  BY <1>3 DEF StepsIn
<1>5. PICK f : Computed(f, n, X, x0, step)
  <2> HIDE DEF step, Equation, sum
  <2> QED BY <1>1, <1>4, FiniteRecursion
<1>6. Equation(f)
  <2>1. \A k \in 1 .. n : k - 1 \in 0 .. n /\ k \in 0 .. n
    BY <1>1
  <2>2. \A k \in 1 .. n : f[k] = Step(k, f[k - 1])
    BY <1>5, <2>1 DEF Computed
  <2>3. \A k \in 0 .. n : f[k] = IF k = 0 THEN x0 ELSE Step(k, f[k - 1])
    BY <1>5, <1>1, <2>2 DEF Computed
  <2>4. f \in [0 .. n -> X]
    BY <1>5 DEF Computed
  <2>5. QED
    BY <2>3, <2>4
<1>7. Equation(sum)
  <2> HIDE DEF Equation
  <2> QED BY <1>6
<1> HIDE DEF sum
<1>8. \A k \in 0 .. n : sum[k] \in X
  <2> DEFINE P == {k \in 0 .. n : sum[k] \in X}
  <2>1. 0 \in P
    BY <1>7, <1>1
  <2>2. ASSUME NEW k \in 1 .. n, k - 1 \in P
        PROVE  k \in P
    <3>1. k \in 0 .. n /\ k # 0
      BY <1>1
    <3>2. sum[k] = Step(k, sum[k - 1])
      BY <1>7, <3>1
    <3>3. sum[k - 1] \in X
      BY <2>2
    <3>4. QED
      BY <1>3, <3>1, <3>2, <3>3
  <2>3. QED
    <3> HIDE DEF P
    <3>1. \A k \in 0 .. n : k \in P
      BY <1>1, <2>1, <2>2, SetInduction
    <3>2. QED
      BY <3>1 DEF P
<1>9. Timers(s, S) = sum[n]
  BY DEF Timers, sum, n, x0, Step
<1>10. Timers(s, S) \in X
  BY <1>8, <1>9, <1>1
<1>11. QED
  BY <1>10 DEF X

LEMMA PostSizeType ==
  ASSUME NEW p \in Seq(Events)  PROVE PostSize(p) \in Seq(Events)
<1>1. <<"size">> \in Events
  BY DEF Events
<1>2. QED
  BY <1>1 DEF PostSize

LEMMA PostDeletesType ==
  ASSUME NEW p \in Seq(Events), NEW q \in Seq(Items)
  PROVE  PostDeletes(p, q) \in Seq(Events)
<1>1. \A k \in 1 .. Len(q) : <<"delete", q[Len(q) + 1 - k]>> \in Events
  <2>1. \A k \in 1 .. Len(q) : q[Len(q) + 1 - k] \in Items
    OBVIOUS
  <2>2. QED
    BY <2>1 DEF Events
<1>2. [k \in 1 .. Len(q) |-> <<"delete", q[Len(q) + 1 - k]>>] \in Seq(Events)
  BY <1>1
<1>3. QED
  BY <1>2 DEF PostDeletes

\* What Taken changes: the queue loses the items, and something is posted.
LEMMA TakenFacts ==
  ASSUME NEW s \in State, NEW S
  PROVE  \E q \in Seq(Items), p \in Seq(Events) :
            /\ Taken(s, S) = [s EXCEPT !.queue = q, !.posted = p]
            /\ Range(q) \subseteq Range(s.queue) \ S
<1> DEFINE gone == S \cap Range(s.queue)
           q == Without(s.queue, gone)
           p == PostSize(PostDeletes(s.posted,
                                     Kept(s.queue, gone \cap (s.linked \cup s.serial))))
<1>1. s.queue \in Seq(Items) /\ s.posted \in Seq(Events)
  BY DEF State
<1>2. CASE gone = {}
  <2>1. s = [s EXCEPT !.queue = s.queue, !.posted = s.posted]
    BY DEF State
  <2>2. Taken(s, S) = s /\ Range(s.queue) \subseteq Range(s.queue) \ S
    BY <1>2 DEF Taken
  <2>3. QED
    BY <1>1, <2>1, <2>2
<1>3. CASE gone # {}
  <2>1. q \in Seq(Items) /\ Range(q) \subseteq Range(s.queue) \cap (Range(s.queue) \ gone)
    BY <1>1, KeptFacts DEF Without
  <2>2. p \in Seq(Events)
    BY <1>1, KeptFacts, PostDeletesType, PostSizeType
  <2>3. Taken(s, S) = [s EXCEPT !.queue = q, !.posted = p]
    BY <1>3 DEF Taken
  <2>4. Range(q) \subseteq Range(s.queue) \ S
    BY <2>1
  <2>5. QED
    BY <2>1, <2>2, <2>3, <2>4
<1>4. QED
  BY <1>2, <1>3

LEMMA EmptiedFacts ==
  ASSUME NEW s \in State
  PROVE  \E q \in Seq(Items), p \in Seq(Events) :
            /\ Emptied(s) = [s EXCEPT !.queue = q, !.posted = p]
            /\ Range(q) = {}
<1>1. PICK q \in Seq(Items), p \in Seq(Events) :
         /\ Taken(s, Range(s.queue)) = [s EXCEPT !.queue = q, !.posted = p]
         /\ Range(q) \subseteq Range(s.queue) \ Range(s.queue)
  BY TakenFacts
<1>2. QED
  BY <1>1 DEF Emptied

LEMMA ElementOf ==
  ASSUME NEW T, NEW q \in Seq(T), NEW k \in DOMAIN q
  PROVE  q[k] \in T
  OBVIOUS

LEMMA MadeType ==
  ASSUME NEW s \in State, NEW i \in DOMAIN s.made
  PROVE  s.made[i].uid \in Uids \cup {NoNode} /\ s.made[i].type \in Types
<1>1. s.made \in Seq(Made)
  BY DEF State
<1>2. s.made[i] \in Made
  BY <1>1, ElementOf
<1>3. QED
  BY <1>2 DEF Made

LEMMA MadeAreItems ==
  ASSUME NEW s \in State, NEW w, Placed(s, w)
  PROVE  DOMAIN s.made = 1 .. Len(s.made) /\ DOMAIN s.made \subseteq Items
<1>1. s.made \in Seq(Made)
  BY DEF State
<1>2. Len(s.made) \in Nat /\ Len(s.made) <= MaxItems /\ DOMAIN s.made = 1 .. Len(s.made)
  BY <1>1 DEF Placed
<1>3. QED
  BY <1>2, UpgradeAssumption DEF Items

\* A good state stays good when nothing is added to the queue, to what listens,
\* to the ports and to the requests, and the upgrade and the results stay.
LEMMA LessGood ==
  ASSUME NEW s \in State, NEW w, Good(s, w), NEW t \in State,
         t.made = s.made, t.told = s.told, t.item = s.item, t.mixed = s.mixed,
         t.node = s.node, t.success = s.success, t.linked \subseteq s.linked,
         t.serial \subseteq s.serial, Range(t.queue) \subseteq Range(s.queue),
         Range(t.line) \cup Range(t.fresh) \subseteq Range(s.line) \cup Range(s.fresh)
  PROVE  Good(t, w)
<1>1. Placed(t, w) /\ AtWork(t)
  BY DEF Good, Placed, AtWork
<1>2. WritesMatch(t)
  BY DEF Good, WritesMatch
<1>3. WrittenIsDone(t, w) /\ ToldTrue(t, w)
  BY DEF Good, WrittenIsDone, ToldTrue
<1>4. QED
  BY <1>1, <1>2, <1>3 DEF Good

\* What itemFinished of these items changes: the queue loses them, they report
\* the result, and timers, posted events and active are of their types.
LEMMA FinishedFacts ==
  ASSUME NEW s \in State, NEW S, S # {}, NEW ok \in BOOLEAN
  PROVE  \E q \in Seq(Items), p \in Seq(Events), n \in Nat, u \in BOOLEAN :
            /\ ItemsFinished(s, S, ok) =
                  [s EXCEPT !.queue = q, !.posted = p, !.nexts = n, !.upgrading = u,
                            !.told = [i \in Items |->
                                         IF i \in S THEN IF ok THEN "ok" ELSE "error"
                                         ELSE s.told[i]]]
            /\ Range(q) \subseteq Range(s.queue) \ S
<1> DEFINE t == IF ok THEN Taken(s, S) ELSE Emptied(s)
           n == s.nexts + Timers(s, S)
           u == s.upgrading /\ t.queue # <<>>
<1>1. PICK q \in Seq(Items), p \in Seq(Events) :
         /\ t = [s EXCEPT !.queue = q, !.posted = p]
         /\ Range(q) \subseteq Range(s.queue) \ S
  <2>1. CASE ok
    BY <2>1, TakenFacts
  <2>2. CASE ~ok
    <3>1. t = Emptied(s)
      BY <2>2
    <3> HIDE DEF t
    <3>2. QED
      BY <3>1, EmptiedFacts
  <2>3. QED
    <3> HIDE DEF t
    <3> QED BY <2>1, <2>2
<1>2. n \in Nat
  <2>1. s.nexts \in Nat /\ Timers(s, S) \in Nat
    BY TimersIsNat DEF State
  <2>2. QED
    BY <2>1
<1>3. u \in BOOLEAN
  OBVIOUS
<1>4. ItemsFinished(s, S, ok) =
         [t EXCEPT !.nexts = t.nexts + Timers(s, S),
                   !.upgrading = t.upgrading /\ t.queue # <<>>,
                   !.told = [i \in Items |-> IF i \in S THEN IF ok THEN "ok" ELSE "error"
                                             ELSE t.told[i]]]
  BY DEF ItemsFinished
<1>5. t.nexts = s.nexts /\ t.upgrading = s.upgrading /\ t.told = s.told
  BY <1>1 DEF State
<1>6. ItemsFinished(s, S, ok) =
         [s EXCEPT !.queue = q, !.posted = p, !.nexts = n, !.upgrading = u,
                   !.told = [i \in Items |-> IF i \in S THEN IF ok THEN "ok" ELSE "error"
                                             ELSE s.told[i]]]
  <2> HIDE DEF t
  <2> QED BY <1>1, <1>4, <1>5 DEF State
<1>7. QED
  BY <1>1, <1>2, <1>3, <1>6

\* Items that were not written report an error.
LEMMA FailedGood ==
  ASSUME NEW s \in State, NEW w \in SUBSET Items, Good(s, w),
         NEW S \in SUBSET DOMAIN s.made, S \cap w = {}
  PROVE  /\ ItemsFinished(s, S, FALSE) \in State
         /\ Good(ItemsFinished(s, S, FALSE), w)
<1>1. CASE S = {}
  BY <1>1 DEF ItemsFinished
<1>2. CASE S # {}
  <2> DEFINE t == ItemsFinished(s, S, FALSE)
  <2>1. PICK q \in Seq(Items), p \in Seq(Events), n \in Nat, u \in BOOLEAN :
            /\ t = [s EXCEPT !.queue = q, !.posted = p, !.nexts = n, !.upgrading = u,
                             !.told = [i \in Items |->
                                          IF i \in S THEN IF FALSE THEN "ok" ELSE "error"
                                          ELSE s.told[i]]]
            /\ Range(q) \subseteq Range(s.queue) \ S
    BY <1>2, FinishedFacts
  <2> HIDE DEF t
  <2>2. t \in State
    BY <2>1 DEF State
  <2>3. Placed(t, w)
    BY <2>1 DEF State, Good, Placed
  <2>4. AtWork(t)
    BY <2>1 DEF State, Good, AtWork
  <2>5. WritesMatch(t)
    BY <2>1 DEF State, Good, WritesMatch
  <2>6. WrittenIsDone(t, w)
    <3>1. t.queue = q /\ t.linked = s.linked
      BY <2>1 DEF State
    <3>2. \A i \in w : i \notin Range(s.queue) \cup s.linked
      BY DEF Good, WrittenIsDone
    <3>3. Range(q) \subseteq Range(s.queue) \ S
      BY <2>1
    <3>4. QED
      BY <3>1, <3>2, <3>3 DEF WrittenIsDone
  <2>7. DOMAIN s.made \subseteq Items
    BY MadeAreItems DEF Good
  <2>8. ToldTrue(t, w)
    BY <2>1, <2>7 DEF State, Good, ToldTrue
  <2>9. QED
    BY <2>2, <2>3, <2>4, <2>5, <2>6, <2>8 DEF Good, t
<1>3. QED
  BY <1>1, <1>2

\* When nobody listens any more, the items that did report what was written.
LEMMA DoneGood ==
  ASSUME NEW s \in State, NEW w \in SUBSET Items, Good(s, w), s.linked = {},
         NEW S \in SUBSET DOMAIN s.made, NEW v \in SUBSET S, S \ s.mixed \subseteq v
  PROVE  /\ ItemsFinished(s, S, TRUE) \in State
         /\ Good(ItemsFinished(s, S, TRUE), w \cup v)
<1>1. CASE S = {}
  <2>1. w \cup v = w
    BY <1>1
  <2>2. QED
    BY <1>1, <2>1 DEF ItemsFinished
<1>2. CASE S # {}
  <2> DEFINE t == ItemsFinished(s, S, TRUE)
  <2>1. PICK q \in Seq(Items), p \in Seq(Events), n \in Nat, u \in BOOLEAN :
            /\ t = [s EXCEPT !.queue = q, !.posted = p, !.nexts = n, !.upgrading = u,
                             !.told = [i \in Items |->
                                          IF i \in S THEN IF TRUE THEN "ok" ELSE "error"
                                          ELSE s.told[i]]]
            /\ Range(q) \subseteq Range(s.queue) \ S
    BY <1>2, FinishedFacts
  <2> HIDE DEF t
  <2>2. t \in State
    BY <2>1 DEF State
  <2>3. Placed(t, w \cup v)
    BY <2>1 DEF State, Good, Placed
  <2>4. AtWork(t)
    BY <2>1 DEF State, Good, AtWork
  <2>5. WritesMatch(t)
    BY <2>1 DEF State, Good, WritesMatch
  <2>6. WrittenIsDone(t, w \cup v)
    <3>1. t.queue = q /\ t.linked = s.linked
      BY <2>1 DEF State
    <3>2. \A i \in w : i \notin Range(s.queue) \cup s.linked
      BY DEF Good, WrittenIsDone
    <3>3. Range(q) \subseteq Range(s.queue) \ S
      BY <2>1
    <3>4. QED
      BY <3>1, <3>2, <3>3 DEF WrittenIsDone
  <2>7. DOMAIN s.made \subseteq Items
    BY MadeAreItems DEF Good
  <2>8. ToldTrue(t, w \cup v)
    BY <2>1, <2>7 DEF State, Good, ToldTrue
  <2>9. QED
    BY <2>2, <2>3, <2>4, <2>5, <2>6, <2>8 DEF Good, t
<1>3. QED
  BY <1>1, <1>2

LEMMA AppendRange ==
  ASSUME NEW T, NEW q \in Seq(T), NEW x \in T
  PROVE  /\ Append(q, x) \in Seq(T)
         /\ Range(Append(q, x)) \subseteq Range(q) \cup {x}
  BY DEF Range

\* A request may be scheduled if it is not a write, or the write of what listens.
LEMMA LaterGood ==
  ASSUME NEW s \in State, NEW w, Good(s, w), NEW r \in Requests,
         r.kind = "write" =>
            \A i \in s.linked \ s.mixed : s.made[i].uid = r.uid /\ s.made[i].type = r.name
  PROVE  Later(s, r) \in State /\ Good(Later(s, r), w)
<1> DEFINE t == Later(s, r)
<1>1. /\ t = [s EXCEPT !.fresh = Append(s.fresh, r)]
      /\ Append(s.fresh, r) \in Seq(Requests)
      /\ Range(Append(s.fresh, r)) \subseteq Range(s.fresh) \cup {r}
  BY AppendRange DEF Later, State
<1> HIDE DEF t
<1>2. t \in State
  BY <1>1 DEF State
<1>3. Placed(t, w) /\ AtWork(t) /\ WrittenIsDone(t, w) /\ ToldTrue(t, w)
  BY <1>1 DEF State, Good, Placed, AtWork, WrittenIsDone, ToldTrue
<1>4. WritesMatch(t)
  <2>1. /\ t.line = s.line /\ t.linked = s.linked /\ t.mixed = s.mixed /\ t.made = s.made
        /\ Range(t.fresh) \subseteq Range(s.fresh) \cup {r}
    BY <1>1 DEF State
  <2>2. WritesMatch(s)
    BY DEF Good
  <2>3. QED
    BY <2>1, <2>2 DEF WritesMatch
<1>5. QED
  BY <1>2, <1>3, <1>4 DEF Good, t

\* What the start of a node's upgrade changes
LEMMA StartFacts ==
  ASSUME NEW s \in State, s.item \in DOMAIN s.made, s.made[s.item].uid # NoNode
  PROVE  \E r \in Requests :
            /\ r.kind # "write"
            /\ StartNode(s) = [s EXCEPT !.node = s.made[s.item].uid,
                                        !.fresh = Append(s.fresh, r)]
<1> DEFINE uid == s.made[s.item].uid
           t == [s EXCEPT !.node = uid]
<1>1. uid \in Uids
  BY MadeType
<1>2. t.node = uid /\ t.fresh = s.fresh
  BY DEF State
<1>3. \A r : [t EXCEPT !.fresh = Append(s.fresh, r)] =
                [s EXCEPT !.node = uid, !.fresh = Append(s.fresh, r)]
  OBVIOUS
<1>4. CASE s.made[s.item].type = "ldr"
  <2> DEFINE r == [kind |-> "ident", uid |-> uid]
  <2>1. r \in Requests /\ r.kind # "write"
    BY <1>1 DEF Requests
  <2>2. uid # NoNode
    BY <1>1, UpgradeAssumption
  <2>3. StartNode(s) = [t EXCEPT !.fresh = Append(s.fresh, r)]
    BY <1>2, <1>4, <2>2 DEF StartNode, RebootFinished, Later
  <2>4. QED
    BY <1>3, <2>1, <2>3
<1>5. CASE s.made[s.item].type # "ldr"
  <2> DEFINE r == [kind |-> "reboot", uid |-> uid]
  <2>1. r \in Requests /\ r.kind # "write"
    BY <1>1 DEF Requests
  <2>2. StartNode(s) = [t EXCEPT !.fresh = Append(s.fresh, r)]
    BY <1>2, <1>5 DEF StartNode, Later
  <2>3. QED
    BY <1>3, <2>1, <2>2
<1>6. QED
  BY <1>4, <1>5

\* A new start for the item of the upgrade
LEMMA StartGood ==
  ASSUME NEW s \in State, NEW w, Good(s, w), s.item # 0
  PROVE  StartNode(s) \in State /\ Good(StartNode(s), w)
<1> DEFINE t == StartNode(s)
<1>1. s.item \in DOMAIN s.made /\ s.made[s.item].uid # NoNode
  BY DEF Good, Placed, AtWork
<1>2. PICK r \in Requests :
         /\ r.kind # "write"
         /\ t = [s EXCEPT !.node = s.made[s.item].uid, !.fresh = Append(s.fresh, r)]
  BY <1>1, StartFacts
<1>3. /\ Append(s.fresh, r) \in Seq(Requests)
      /\ Range(Append(s.fresh, r)) \subseteq Range(s.fresh) \cup {r}
  BY AppendRange DEF State
<1> HIDE DEF t
<1>4. s.made[s.item].uid \in Uids
  BY <1>1, MadeType
<1>5. t \in State
  BY <1>2, <1>3, <1>4 DEF State
<1>6. Placed(t, w) /\ WrittenIsDone(t, w) /\ ToldTrue(t, w)
  BY <1>2 DEF State, Good, Placed, WrittenIsDone, ToldTrue
<1>7. AtWork(t)
  BY <1>1, <1>2, <1>4, UpgradeAssumption DEF State, Good, AtWork
<1>8. WritesMatch(t)
  <2>1. /\ t.line = s.line /\ t.linked = s.linked /\ t.mixed = s.mixed /\ t.made = s.made
        /\ Range(t.fresh) \subseteq Range(s.fresh) \cup {r}
    BY <1>2, <1>3 DEF State
  <2>2. WritesMatch(s)
    BY DEF Good
  <2>3. QED
    BY <1>2, <2>1, <2>2 DEF WritesMatch
<1>9. QED
  BY <1>5, <1>6, <1>7, <1>8 DEF Good, t

\* The end of an upgrade that was no success
LEMMA UpgradeFinishedGood ==
  ASSUME NEW s \in State, NEW w \in SUBSET Items, Good(s, w)
  PROVE  UpgradeFinished(s) \in State /\ Good(UpgradeFinished(s), w)
<1>1. CASE s.node = NoNode
  BY <1>1 DEF UpgradeFinished
<1>2. CASE s.node # NoNode
  <2> DEFINE t == [s EXCEPT !.node = NoNode, !.identRetry = 0, !.success = FALSE,
                            !.linked = {}]
  <2>1. t \in State
    <3>1. 0 \in 0 .. IdentRetries
      BY UpgradeAssumption
    <3>2. QED
      BY <3>1 DEF State
  <2>2. Placed(t, w) /\ WrittenIsDone(t, w) /\ ToldTrue(t, w)
    BY DEF State, Good, Placed, WrittenIsDone, ToldTrue
  <2>3. AtWork(t) /\ WritesMatch(t)
    BY DEF State, Good, AtWork, WritesMatch
  <2>4. s.linked \in SUBSET DOMAIN t.made /\ s.linked \cap w = {}
    BY DEF State, Good, Placed, WrittenIsDone
  <2>5. UpgradeFinished(s) = ItemsFinished(t, s.linked, FALSE)
    BY <1>2 DEF UpgradeFinished, Good, AtWork, State
  <2> HIDE DEF t
  <2>6. QED
    BY <2>1, <2>2, <2>3, <2>4, <2>5, FailedGood DEF Good
<1>3. QED
  BY <1>1, <1>2

LEMMA RebootFinishedGood ==
  ASSUME NEW s \in State, NEW w, Good(s, w)
  PROVE  RebootFinished(s) \in State /\ Good(RebootFinished(s), w)
<1>1. CASE s.node = NoNode
  BY <1>1 DEF RebootFinished
<1>2. CASE s.node # NoNode
  <2> DEFINE r == [kind |-> "ident", uid |-> s.node]
  <2>1. r \in Requests /\ r.kind # "write"
    BY <1>2 DEF State, Requests
  <2>2. RebootFinished(s) = Later(s, r)
    BY <1>2 DEF RebootFinished
  <2> HIDE DEF r
  <2>3. QED
    BY <2>1, <2>2, LaterGood
<1>3. QED
  BY <1>1, <1>2

LEMMA IdentFinishedGood ==
  ASSUME NEW s \in State, NEW w \in SUBSET Items, Good(s, w), NEW shown \in BOOLEAN
  PROVE  IdentFinished(s, shown) \in State /\ Good(IdentFinished(s, shown), w)
<1>1. CASE s.node = NoNode
  BY <1>1 DEF IdentFinished
<1>2. CASE s.node # NoNode
  <2>1. s.item # 0 /\ s.item \in DOMAIN s.made
    BY <1>2 DEF Good, AtWork, Placed
  <2>2. CASE shown
    <3> DEFINE r == [kind |-> "write", uid |-> s.node, name |-> s.made[s.item].type]
    <3>1. r \in Requests
      BY <1>2, <2>1, MadeType DEF State, Requests
    <3>2. \A i \in s.linked \ s.mixed : s.made[i].uid = r.uid /\ s.made[i].type = r.name
      BY DEF Good, AtWork
    <3>3. IdentFinished(s, shown) = Later(s, r)
      BY <1>2, <2>2 DEF IdentFinished
    <3> HIDE DEF r
    <3>4. QED
      BY <3>1, <3>2, <3>3, LaterGood
  <2>3. CASE ~shown /\ s.identRetry < IdentRetries
    <3> DEFINE t == [s EXCEPT !.identRetry = s.identRetry + 1]
    <3>1. t \in State /\ t.item # 0
      <4>1. s.identRetry \in 0 .. IdentRetries
        BY DEF State
      <4>2. s.identRetry + 1 \in 0 .. IdentRetries
        BY <4>1, <2>3, UpgradeAssumption
      <4>3. QED
        BY <4>2, <2>1 DEF State
    <3>2. Placed(t, w) /\ WrittenIsDone(t, w) /\ ToldTrue(t, w)
      BY DEF State, Good, Placed, WrittenIsDone, ToldTrue
    <3>3. AtWork(t) /\ WritesMatch(t)
      BY DEF State, Good, AtWork, WritesMatch
    <3>4. IdentFinished(s, shown) = StartNode(t)
      BY <1>2, <2>3 DEF IdentFinished
    <3> HIDE DEF t
    <3>5. QED
      BY <3>1, <3>2, <3>3, <3>4, StartGood DEF Good
  <2>4. CASE ~shown /\ ~(s.identRetry < IdentRetries)
    <3>1. IdentFinished(s, shown) = UpgradeFinished(s)
      BY <1>2, <2>4 DEF IdentFinished
    <3>2. QED
      BY <3>1, UpgradeFinishedGood
  <2>5. QED
    BY <2>2, <2>3, <2>4
<1>3. QED
  BY <1>1, <1>2

\* The end of a request, whichever it is, and whatever the node shows
LEMMA RequestFinishedGood ==
  ASSUME NEW s \in State, NEW w \in SUBSET Items, Good(s, w),
         NEW r \in Requests, NEW shown \in BOOLEAN
  PROVE  RequestFinished(s, r, shown) \in State /\ Good(RequestFinished(s, r, shown), w)
<1>1. CASE r.kind = "reboot"
  <2>1. RequestFinished(s, r, shown) = RebootFinished(s)
    BY <1>1 DEF RequestFinished
  <2>2. QED
    BY <2>1, RebootFinishedGood
<1>2. CASE r.kind = "ident"
  <2>1. RequestFinished(s, r, shown) = IdentFinished(s, shown)
    BY <1>2 DEF RequestFinished
  <2>2. QED
    BY <2>1, IdentFinishedGood
<1>3. CASE r.kind = "write"
  <2>1. RequestFinished(s, r, shown) = UpgradeFinished(s)
    BY <1>3 DEF RequestFinished
  <2>2. QED
    BY <2>1, UpgradeFinishedGood
<1>4. QED
  BY <1>1, <1>2, <1>3 DEF Requests

\* The upgrade of an item of a node, that was not written
LEMMA UpgradeGood ==
  ASSUME NEW s \in State, NEW w, Good(s, w),
         NEW i \in DOMAIN s.made, s.made[i].uid # NoNode, i \notin w
  PROVE  Upgrade(s, i) \in State /\ Good(Upgrade(s, i), w)
<1> DEFINE u == [s EXCEPT !.item = i, !.success = FALSE, !.identRetry = 0]
           busy == s.node # NoNode \/ s.linked # {} \/ s.fresh # <<>> \/ s.line # <<>>
           m == IF busy THEN s.mixed \cup {i} \cup s.linked ELSE s.mixed
           l == s.linked \cup {i}
           uid == s.made[i].uid
           t == Upgrade(s, i)
<1>1. i \in Items /\ DOMAIN s.made \subseteq Items
  BY MadeAreItems DEF Good
<1>2. u \in State
  <2>1. 0 \in 0 .. IdentRetries
    BY UpgradeAssumption
  <2>2. QED
    BY <1>1, <2>1 DEF State
<1>3. /\ u.item = i /\ u.made = s.made /\ u.fresh = s.fresh
      /\ u.linked = s.linked /\ u.mixed = s.mixed
  BY DEF State
<1>4. PICK r \in Requests :
         /\ r.kind # "write"
         /\ StartNode(u) = [u EXCEPT !.node = uid, !.fresh = Append(s.fresh, r)]
  <2> HIDE DEF u
  <2> QED BY <1>2, <1>3, StartFacts
<1>5. uid \in Uids
  BY MadeType
<1>6. /\ Append(s.fresh, r) \in Seq(Requests)
      /\ Range(Append(s.fresh, r)) \subseteq Range(s.fresh) \cup {r}
  BY AppendRange DEF State
<1>7. t = [StartNode(u) EXCEPT !.linked = StartNode(u).linked \cup {i},
                               !.mixed =
                                   IF busy THEN StartNode(u).mixed \cup {i} \cup s.linked
                                   ELSE StartNode(u).mixed]
  BY DEF Upgrade
<1>8. StartNode(u).linked = s.linked /\ StartNode(u).mixed = s.mixed
  <2> HIDE DEF u
  <2> QED BY <1>2, <1>3, <1>4 DEF State
<1>9. t = [s EXCEPT !.item = i, !.success = FALSE, !.identRetry = 0, !.node = uid,
                    !.fresh = Append(s.fresh, r), !.linked = l, !.mixed = m]
  <2>1. t = [StartNode(u) EXCEPT !.linked = l, !.mixed = m]
    <3> HIDE DEF u, busy
    <3> QED BY <1>7, <1>8
  <2>2. QED
    <3> HIDE DEF t, l, m
    <3> QED BY <1>4, <2>1 DEF State
<1>10. m \in SUBSET Items /\ l \in SUBSET Items /\ m \subseteq DOMAIN s.made
       /\ l \subseteq DOMAIN s.made /\ s.mixed \subseteq m
  BY <1>1 DEF State, Good, Placed
<1>11. \/ l \ m = {}
       \/ l \ m \subseteq {i} /\ s.fresh = <<>> /\ s.line = <<>>
  OBVIOUS
<1> HIDE DEF u, t, l, m, busy
<1>12. t \in State
  <2>1. 0 \in 0 .. IdentRetries
    BY UpgradeAssumption
  <2>2. QED
    BY <1>1, <1>5, <1>6, <1>9, <1>10, <2>1 DEF State
<1>13. /\ t.made = s.made /\ t.queue = s.queue /\ t.told = s.told /\ t.item = i
       /\ t.linked = l /\ t.mixed = m /\ t.node = uid /\ t.success = FALSE
       /\ t.line = s.line /\ Range(t.fresh) \subseteq Range(s.fresh) \cup {r}
       /\ t.serial = s.serial
  BY <1>6, <1>9 DEF State
<1>14. Placed(t, w)
  BY <1>10, <1>13 DEF Good, Placed
<1>15. AtWork(t)
  <2>1. ~t.success /\ t.node # NoNode /\ t.item # 0
    BY <1>1, <1>5, <1>13, UpgradeAssumption DEF Items
  <2>2. t.made[t.item].uid # NoNode
    BY <1>13
  <2>3. \A j \in t.linked \ t.mixed : j = t.item /\ t.node = t.made[j].uid
    BY <1>11, <1>13
  <2>4. QED
    BY <2>1, <2>2, <2>3 DEF AtWork
<1>16. WritesMatch(t)
  <2>1. CASE l \ m = {}
    BY <1>13, <2>1 DEF WritesMatch
  <2>2. CASE s.fresh = <<>> /\ s.line = <<>>
    <3>1. Range(t.line) = {} /\ Range(t.fresh) \subseteq {r}
      BY <1>13, <2>2 DEF Range
    <3>2. QED
      BY <1>4, <3>1 DEF WritesMatch
  <2>3. QED
    BY <1>11, <2>1, <2>2
<1>17. WrittenIsDone(t, w)
  BY <1>13 DEF Good, WrittenIsDone, l
<1>18. ToldTrue(t, w)
  BY <1>10, <1>13 DEF Good, ToldTrue
<1>19. QED
  BY <1>12, <1>14, <1>15, <1>16, <1>17, <1>18 DEF Good, t

LEMMA FirstOfIn ==
  ASSUME NEW T, NEW q \in Seq(T), NEW S, S \subseteq Range(q), S # {}
  PROVE  FirstOf(q, S) \in S
<1> DEFINE at == {k \in DOMAIN q : q[k] \in S}
<1>1. at \subseteq Nat /\ at # {}
  BY DEF Range
<1>2. PICK k \in at : \A j \in at : k <= j
  <2> HIDE DEF at
  <2> QED BY <1>1, MinExists
<1>3. k \in DOMAIN q /\ q[k] \in S /\ \A j \in 1 .. k - 1 : q[j] \notin S
  <2>1. \A j \in 1 .. k - 1 : j \in DOMAIN q
    OBVIOUS
  <2>2. \A j \in 1 .. k - 1 : ~(k <= j)
    BY <1>1
  <2>3. QED
    BY <1>2, <2>1, <2>2
<1>4. QED
  BY <1>3 DEF FirstOf

LEMMA NextItemQueued ==
  ASSUME NEW s \in State, s.queue # <<>>
  PROVE  NextItem(s) \in Range(s.queue)
<1> DEFINE ldrs == {i \in Range(s.queue) : s.made[i].type = "ldr"}
<1>1. s.queue \in Seq(Items)
  BY DEF State
<1>2. CASE ldrs # {}
  <2>1. ldrs \subseteq Range(s.queue) /\ NextItem(s) = FirstOf(s.queue, ldrs)
    BY <1>2 DEF NextItem
  <2>2. FirstOf(s.queue, ldrs) \in ldrs
    <3> HIDE DEF ldrs
    <3> QED BY <1>1, <1>2, <2>1, FirstOfIn
  <2>3. QED
    BY <2>1, <2>2
<1>3. CASE ldrs = {}
  <2>1. NextItem(s) = s.queue[1] /\ 1 \in DOMAIN s.queue
    BY <1>1, <1>3 DEF NextItem
  <2>2. QED
    BY <2>1 DEF Range
<1>4. QED
  BY <1>2, <1>3

\* What Taken leaves of a state
LEMMA TakenGood ==
  ASSUME NEW s \in State, NEW w, Good(s, w), NEW S
  PROVE  Taken(s, S) \in State /\ Good(Taken(s, S), w)
<1>1. PICK q \in Seq(Items), p \in Seq(Events) :
         /\ Taken(s, S) = [s EXCEPT !.queue = q, !.posted = p]
         /\ Range(q) \subseteq Range(s.queue) \ S
  BY TakenFacts
<1> DEFINE t == Taken(s, S)
<1>2. /\ t \in State
      /\ t.made = s.made /\ t.told = s.told /\ t.item = s.item /\ t.linked = s.linked
      /\ t.mixed = s.mixed /\ t.node = s.node /\ t.success = s.success
      /\ t.line = s.line /\ t.fresh = s.fresh /\ t.serial = s.serial /\ t.queue = q
  BY <1>1 DEF State
<1>3. Range(q) \subseteq Range(s.queue)
  BY <1>1
<1> HIDE DEF t
<1>4. Good(t, w)
  BY <1>2, <1>3, LessGood
<1>5. QED
  BY <1>2, <1>4 DEF t

LEMMA EmptiedGood ==
  ASSUME NEW s \in State, NEW w, Good(s, w)
  PROVE  Emptied(s) \in State /\ Good(Emptied(s), w)
  BY TakenGood DEF Emptied

\* Fewer requests, or none
LEMMA LineGood ==
  ASSUME NEW s \in State, NEW w, Good(s, w), NEW l \in Seq(Requests),
         NEW f \in Seq(Requests),
         Range(l) \cup Range(f) \subseteq Range(s.line) \cup Range(s.fresh)
  PROVE  /\ [s EXCEPT !.line = l, !.fresh = f] \in State
         /\ Good([s EXCEPT !.line = l, !.fresh = f], w)
<1> DEFINE t == [s EXCEPT !.line = l, !.fresh = f]
<1>1. /\ t \in State
      /\ t.made = s.made /\ t.told = s.told /\ t.item = s.item /\ t.linked = s.linked
      /\ t.mixed = s.mixed /\ t.node = s.node /\ t.success = s.success
      /\ t.line = l /\ t.fresh = f /\ t.serial = s.serial /\ t.queue = s.queue
  BY DEF State
<1> HIDE DEF t
<1>2. Good(t, w)
  BY <1>1, LessGood
<1>3. QED
  BY <1>1, <1>2 DEF t

\* The timers, the posted events and active say nothing of an item.
LEMMA TimersGood ==
  ASSUME NEW s \in State, NEW w, Good(s, w),
         NEW n \in Nat, NEW p \in Seq(Events), NEW u \in BOOLEAN
  PROVE  /\ [s EXCEPT !.nexts = n, !.posted = p, !.upgrading = u] \in State
         /\ Good([s EXCEPT !.nexts = n, !.posted = p, !.upgrading = u], w)
<1> DEFINE t == [s EXCEPT !.nexts = n, !.posted = p, !.upgrading = u]
<1>1. /\ t \in State
      /\ t.made = s.made /\ t.told = s.told /\ t.item = s.item /\ t.linked = s.linked
      /\ t.mixed = s.mixed /\ t.node = s.node /\ t.success = s.success
      /\ t.line = s.line /\ t.fresh = s.fresh /\ t.serial = s.serial /\ t.queue = s.queue
  BY DEF State
<1> HIDE DEF t
<1>2. Good(t, w)
  BY <1>1, LessGood
<1>3. QED
  BY <1>1, <1>2 DEF t

\* Firmware::next with the start of the item
LEMMA NextStartedGood ==
  ASSUME NEW s \in State, NEW w \in SUBSET Items, Good(s, w), NEW loaded \in BOOLEAN
  PROVE  NextStarted(s, loaded) \in State /\ Good(NextStarted(s, loaded), w)
<1>1. CASE s.queue = <<>>
  <2>1. NextStarted(s, loaded) =
           [s EXCEPT !.nexts = s.nexts, !.posted = s.posted, !.upgrading = FALSE]
    BY <1>1 DEF NextStarted, State
  <2>2. s.nexts \in Nat /\ s.posted \in Seq(Events)
    BY DEF State
  <2> DEFINE u == [s EXCEPT !.nexts = s.nexts, !.posted = s.posted, !.upgrading = FALSE]
  <2>3. u \in State /\ Good(u, w)
    BY <2>2, TimersGood
  <2> HIDE DEF u
  <2>4. QED
    BY <2>1, <2>3 DEF u
<1>2. CASE s.queue # <<>>
  <2> DEFINE i == NextItem(s)
             q == <<i>> \o Without(s.queue, {i})
             n == [s.tuned EXCEPT ![i] = @ + 1]
             t == [s EXCEPT !.upgrading = TRUE, !.tuned[i] = @ + 1,
                            !.queue = <<i>> \o Without(@, {i})]
  <2>1. s.queue \in Seq(Items) /\ i \in Range(s.queue)
    BY <1>2, NextItemQueued DEF State
  <2>2. i \in DOMAIN s.made /\ i \in Items /\ i \notin w
    BY <2>1, MadeAreItems DEF Good, Placed, WrittenIsDone
  <2> HIDE DEF i
  <2>3. q \in Seq(Items) /\ Range(q) \subseteq Range(s.queue)
    <3> DEFINE r == Without(s.queue, {i})
    <3>1. r \in Seq(Items) /\ Range(r) \subseteq Range(s.queue)
      BY <2>1, KeptFacts DEF Without
    <3> HIDE DEF r
    <3>2. <<i>> \o r \in Seq(Items) /\ Range(<<i>> \o r) \subseteq {i} \cup Range(r)
      BY <2>2, <3>1 DEF Range
    <3>3. QED
      BY <2>1, <3>1, <3>2 DEF r
  <2>4. n \in [Items -> Nat]
    BY <2>2 DEF State
  <2>5. t = [s EXCEPT !.upgrading = TRUE, !.tuned = n, !.queue = q]
    BY DEF State
  <2> HIDE DEF q, n, t
  <2>6. t \in State
    BY <2>3, <2>4, <2>5 DEF State
  <2>7. /\ t.made = s.made /\ t.told = s.told /\ t.item = s.item /\ t.linked = s.linked
        /\ t.mixed = s.mixed /\ t.node = s.node /\ t.success = s.success
        /\ t.line = s.line /\ t.fresh = s.fresh /\ t.serial = s.serial /\ t.queue = q
    BY <2>5 DEF State
  <2>8. Range(t.queue) \subseteq Range(s.queue)
    BY <2>3, <2>7
  <2>9. Good(t, w)
    BY <2>6, <2>7, <2>8, LessGood
  <2>10. NextStarted(s, loaded) =
            IF ~loaded THEN ItemsFinished(t, {i}, FALSE)
            ELSE IF t.made[i].uid = NoNode THEN [t EXCEPT !.serial = t.serial \cup {i}]
            ELSE Upgrade(t, i)
    BY <1>2 DEF NextStarted, i, t
  <2>11. CASE ~loaded
    <3>1. {i} \in SUBSET DOMAIN t.made /\ {i} \cap w = {}
      BY <2>2, <2>7
    <3>2. NextStarted(s, loaded) = ItemsFinished(t, {i}, FALSE)
      BY <2>10, <2>11
    <3>3. QED
      BY <2>6, <2>9, <3>1, <3>2, FailedGood
  <2>12. CASE loaded /\ t.made[i].uid = NoNode
    <3> DEFINE u == [t EXCEPT !.serial = t.serial \cup {i}]
    <3>1. u \in State
      BY <2>2, <2>6 DEF State
    <3>2. /\ u.made = t.made /\ u.told = t.told /\ u.item = t.item /\ u.linked = t.linked
          /\ u.mixed = t.mixed /\ u.node = t.node /\ u.success = t.success
          /\ u.line = t.line /\ u.fresh = t.fresh /\ u.serial = t.serial \cup {i}
          /\ u.queue = t.queue
      BY <2>6 DEF State
    <3>3. NextStarted(s, loaded) = u
      BY <2>10, <2>12
    <3> HIDE DEF u
    <3>4. /\ Placed(u, w) /\ AtWork(u) /\ WritesMatch(u)
          /\ WrittenIsDone(u, w) /\ ToldTrue(u, w)
      BY <2>2, <2>7, <2>9, <3>2 DEF Good, Placed, AtWork, WritesMatch, WrittenIsDone,
                                    ToldTrue
    <3>5. QED
      BY <3>1, <3>3, <3>4 DEF Good
  <2>13. CASE loaded /\ t.made[i].uid # NoNode
    <3>1. NextStarted(s, loaded) = Upgrade(t, i)
      BY <2>10, <2>13
    <3>2. i \in DOMAIN t.made
      BY <2>2, <2>7
    <3>3. QED
      BY <2>2, <2>6, <2>9, <2>13, <3>1, <3>2, UpgradeGood
  <2>14. QED
    BY <2>11, <2>12, <2>13
<1>3. QED
  BY <1>1, <1>2

\* The requests of the sequencer end one after the other, each in a good state.
LEMMA CancelledGood ==
  ASSUME NEW s \in State, NEW w \in SUBSET Items, Good(s, w), NEW shown \in BOOLEAN
  PROVE  Cancelled(s, shown) \in State /\ Good(Cancelled(s, shown), w)
<1> DEFINE X == {t \in State : Good(t, w)}
           Step(k, x) == RequestFinished(x, s.line[k], shown)
           n == Len(s.line)
           x0 == [s EXCEPT !.line = <<>>]
           step == [k \in 1 .. n |-> [x \in X |-> Step(k, x)]]
           Equation(g) == g = [k \in 0 .. n |-> IF k = 0 THEN x0 ELSE Step(k, g[k - 1])]
           after == CHOOSE g : Equation(g)
<1>1. n \in Nat /\ \A k \in 1 .. n : s.line[k] \in Requests
  BY DEF State
<1>2. x0 \in X
  <2>1. x0 = [s EXCEPT !.line = <<>>, !.fresh = s.fresh]
    BY DEF State
  <2>2. <<>> \in Seq(Requests) /\ s.fresh \in Seq(Requests) /\ Range(<<>>) = {}
    BY DEF State, Range
  <2> HIDE DEF x0
  <2>3. QED
    BY <2>1, <2>2, LineGood
<1>3. \A k \in 1 .. n, x \in X : Step(k, x) \in X
  BY <1>1, RequestFinishedGood
<1>4. X \subseteq State
  OBVIOUS
<1> HIDE DEF X, Step, n, x0
<1>5. step \in StepsIn(n, X)
  BY <1>3 DEF StepsIn
<1>6. PICK f : Computed(f, n, X, x0, step)
  <2> HIDE DEF step, Equation, after
  <2> QED BY <1>1, <1>2, <1>5, FiniteRecursion
<1>7. Equation(f)
  <2>1. \A k \in 1 .. n : k - 1 \in 0 .. n /\ k \in 0 .. n
    BY <1>1
  <2>2. \A k \in 1 .. n : f[k] = Step(k, f[k - 1])
    BY <1>6, <2>1 DEF Computed
  <2>3. \A k \in 0 .. n : f[k] = IF k = 0 THEN x0 ELSE Step(k, f[k - 1])
    BY <1>6, <1>1, <2>2 DEF Computed
  <2>4. f \in [0 .. n -> X]
    BY <1>6 DEF Computed
  <2>5. QED
    BY <2>3, <2>4
<1>8. Equation(after)
  <2> HIDE DEF Equation
  <2> QED BY <1>7
<1> HIDE DEF after
<1>9. \A k \in 0 .. n : after[k] \in X
  <2> DEFINE P == {k \in 0 .. n : after[k] \in X}
  <2>1. 0 \in P
    BY <1>8, <1>1, <1>2
  <2>2. ASSUME NEW k \in 1 .. n, k - 1 \in P
        PROVE  k \in P
    <3>1. k \in 0 .. n /\ k # 0
      BY <1>1
    <3>2. after[k] = Step(k, after[k - 1])
      BY <1>8, <3>1
    <3>3. after[k - 1] \in X
      BY <2>2
    <3>4. QED
      BY <1>3, <3>1, <3>2, <3>3
  <2>3. QED
    <3> HIDE DEF P
    <3>1. \A k \in 0 .. n : k \in P
      BY <1>1, <2>1, <2>2, SetInduction
    <3>2. QED
      BY <3>1 DEF P
<1>10. Cancelled(s, shown) = [after[n] EXCEPT !.posted = Append(@, <<"finish">>)]
  BY DEF Cancelled, after, n, x0, Step
<1>11. after[n] \in State /\ Good(after[n], w)
  BY <1>1, <1>9 DEF X
<1>12. Append(after[n].posted, <<"finish">>) \in Seq(Events)
  <2>1. after[n].posted \in Seq(Events) /\ <<"finish">> \in Events
    BY <1>11 DEF State, Events
  <2>2. QED
    BY <2>1
<1>13. Cancelled(s, shown) =
          [after[n] EXCEPT !.nexts = after[n].nexts,
                           !.posted = Append(after[n].posted, <<"finish">>),
                           !.upgrading = after[n].upgrading]
  BY <1>10, <1>11 DEF State
<1>14. after[n].nexts \in Nat /\ after[n].upgrading \in BOOLEAN
  BY <1>11 DEF State
<1> DEFINE a == after[n]
           p == Append(a.posted, <<"finish">>)
           u == [a EXCEPT !.nexts = a.nexts, !.posted = p, !.upgrading = a.upgrading]
<1> HIDE DEF a, p
<1>15. u \in State /\ Good(u, w)
  BY <1>11, <1>12, <1>14, TimersGood DEF a, p
<1>16. QED
  BY <1>13, <1>15 DEF a, p

\* A new item, at the end of the queue or alone in it
LEMMA MadeGood ==
  ASSUME NEW s \in State, NEW w, Good(s, w), Len(s.made) < MaxItems,
         NEW m \in Made, NEW q \in Seq(Items), NEW p \in Seq(Events), NEW u \in BOOLEAN,
         Range(q) \subseteq Range(s.queue) \cup {Len(s.made) + 1}
  PROVE  /\ [s EXCEPT !.made = Append(s.made, m), !.queue = q, !.posted = p,
                      !.upgrading = u] \in State
         /\ Good([s EXCEPT !.made = Append(s.made, m), !.queue = q, !.posted = p,
                           !.upgrading = u], w)
<1> DEFINE i == Len(s.made) + 1
           made1 == Append(s.made, m)
           t == [s EXCEPT !.made = made1, !.queue = q, !.posted = p, !.upgrading = u]
<1>1. s.made \in Seq(Made)
  BY DEF State
<1>2. DOMAIN s.made = 1 .. Len(s.made) /\ DOMAIN s.made \subseteq Items
  BY MadeAreItems DEF Good
<1>3. /\ made1 \in Seq(Made) /\ Len(made1) = i /\ DOMAIN made1 = 1 .. i
      /\ DOMAIN made1 = DOMAIN s.made \cup {i} /\ i \notin DOMAIN s.made
      /\ \A j \in DOMAIN s.made : made1[j] = s.made[j]
  BY <1>1, <1>2
<1>4. i \in Items /\ i # 0 /\ i <= MaxItems
  BY <1>1, UpgradeAssumption DEF Items
<1> HIDE DEF made1, i
<1>5. t \in State
  BY <1>3 DEF State
<1>6. /\ t.made = made1 /\ t.told = s.told /\ t.item = s.item /\ t.linked = s.linked
      /\ t.mixed = s.mixed /\ t.node = s.node /\ t.success = s.success
      /\ t.line = s.line /\ t.fresh = s.fresh /\ t.serial = s.serial /\ t.queue = q
  BY DEF State
<1> HIDE DEF t
<1>7. Range(q) \subseteq Range(s.queue) \cup {i}
  BY DEF i
<1>8. Placed(t, w)
  BY <1>3, <1>4, <1>6, <1>7 DEF Good, Placed
<1>9. s.linked \subseteq DOMAIN s.made /\ s.item \in DOMAIN s.made \cup {0}
  BY DEF Good, Placed
<1>10. AtWork(t)
  BY <1>3, <1>6, <1>9 DEF Good, AtWork
<1>11. WritesMatch(t)
  BY <1>3, <1>6, <1>9 DEF Good, WritesMatch
<1>12. w \subseteq DOMAIN s.made
  BY DEF Good, Placed
<1>13. WrittenIsDone(t, w)
  BY <1>3, <1>6, <1>7, <1>12 DEF Good, WrittenIsDone
<1>14. s.told[i] = "nothing"
  BY <1>3, <1>4 DEF Good, Placed
<1>15. ToldTrue(t, w)
  BY <1>3, <1>6, <1>14 DEF Good, ToldTrue
<1>16. QED
  BY <1>5, <1>8, <1>10, <1>11, <1>13, <1>15 DEF Good, t, made1

\* A deleted item listens no more, and leaves the queue.
LEMMA DroppedGood ==
  ASSUME NEW s \in State, NEW w, Good(s, w), NEW i \in Items,
         NEW c \in [Items -> Nat], NEW p \in Seq(Events), NEW l \in SUBSET s.linked
  PROVE  LET t == [s EXCEPT !.posted = p, !.linked = l, !.serial = s.serial \ {i},
                            !.tuned = c]
         IN  t \in State /\ Good(t, w)
<1> DEFINE t == [s EXCEPT !.posted = p, !.linked = l, !.serial = s.serial \ {i},
                          !.tuned = c]
<1>1. /\ t \in State
      /\ t.made = s.made /\ t.told = s.told /\ t.item = s.item /\ t.linked = l
      /\ t.mixed = s.mixed /\ t.node = s.node /\ t.success = s.success
      /\ t.line = s.line /\ t.fresh = s.fresh /\ t.serial = s.serial \ {i}
      /\ t.queue = s.queue
  BY DEF State
<1> HIDE DEF t
<1>2. Good(t, w)
  BY <1>1, LessGood
<1>3. QED
  BY <1>1, <1>2 DEF t

-----------------------------------------------------------------------------
(* The steps *)

UpgradeInv ==
    /\ Now \in State
    /\ Good(Now, written)
    /\ orphaned \in BOOLEAN
    /\ stops \in 0 .. MaxStops

LEMMA NowFields ==
  /\ Now.made = made /\ Now.queue = queue /\ Now.upgrading = upgrading
  /\ Now.nexts = nexts /\ Now.tuned = tuned /\ Now.serial = serial
  /\ Now.posted = posted /\ Now.linked = linked /\ Now.node = node
  /\ Now.item = item /\ Now.identRetry = identRetry /\ Now.success = success
  /\ Now.fresh = fresh /\ Now.line = line /\ Now.told = told /\ Now.mixed = mixed
  BY DEF Now

\* A step that makes a good state of the variables the handlers work on, and
\* changes nothing else but the ghost of the item taken at work
LEMMA BecomeInv ==
  ASSUME UpgradeInv, NEW t \in State, Become(t), NEW w, Good(t, w), written' = w,
         orphaned' \in BOOLEAN, stops' \in 0 .. MaxStops
  PROVE  UpgradeInv'
<1>1. /\ made' = t.made /\ queue' = t.queue /\ upgrading' = t.upgrading
      /\ nexts' = t.nexts /\ tuned' = t.tuned /\ serial' = t.serial
      /\ posted' = t.posted /\ linked' = t.linked /\ node' = t.node
      /\ item' = t.item /\ identRetry' = t.identRetry /\ success' = t.success
      /\ fresh' = t.fresh /\ line' = t.line /\ told' = t.told /\ mixed' = t.mixed
  BY DEF Become
<1>2. Now' = t
  BY <1>1 DEF Now, State
<1>3. QED
  BY <1>2 DEF UpgradeInv

LEMMA WrittenItems ==
  ASSUME UpgradeInv
  PROVE  written \in SUBSET Items
  BY MadeAreItems DEF UpgradeInv, Good, Placed

LEMMA RequestUpgradeInv ==
  ASSUME UpgradeInv, NEW uid \in Uids, NEW type \in Types, NEW loaded \in BOOLEAN,
         RequestUpgrade(uid, type, loaded)
  PROVE  UpgradeInv'
<1> DEFINE old == {j \in Range(queue) : made[j].uid = uid}
           m == [uid |-> uid, type |-> type]
           i == Len(made) + 1
           a == Taken(Now, old)
           q == Append(a.queue, i)
           p == PostSize(a.posted)
           s == [a EXCEPT !.made = Append(@, m), !.queue = Append(@, i),
                          !.posted = PostSize(@)]
           t == IF upgrading THEN s ELSE NextStarted(s, loaded)
<1>1. a \in State /\ Good(a, written)
  BY TakenGood DEF UpgradeInv
<1>2. a.made = made
  <2> HIDE DEF a, old
  <2>1. PICK r \in Seq(Items), e \in Seq(Events) :
           /\ Taken(Now, old) = [Now EXCEPT !.queue = r, !.posted = e]
           /\ Range(r) \subseteq Range(Now.queue) \ old
    BY TakenFacts DEF UpgradeInv
  <2>2. QED
    BY <2>1, NowFields DEF UpgradeInv, State, a
<1>3. Len(made) < MaxItems /\ m \in Made
  BY DEF RequestUpgrade, Made
<1>4. made \in Seq(Made)
  BY NowFields DEF UpgradeInv, State
<1>5. i \in Items
  BY <1>3, <1>4, UpgradeAssumption DEF Items
<1>6. q \in Seq(Items) /\ Range(q) \subseteq Range(a.queue) \cup {Len(a.made) + 1}
  <2> HIDE DEF a
  <2>1. a.queue \in Seq(Items)
    BY <1>1 DEF State
  <2>2. q \in Seq(Items) /\ Range(q) \subseteq Range(a.queue) \cup {i}
    <3> HIDE DEF i
    <3> QED BY <1>5, <2>1, AppendRange
  <2>3. QED
    BY <1>2, <2>2
<1>7. p \in Seq(Events) /\ a.upgrading \in BOOLEAN
  BY <1>1, PostSizeType DEF State
<1>8. s \in State /\ Good(s, written)
  <2> HIDE DEF a, m
  <2> DEFINE u == [a EXCEPT !.made = Append(a.made, m), !.queue = q, !.posted = p,
                            !.upgrading = a.upgrading]
  <2>1. s = u
    BY <1>1 DEF State
  <2>2. u \in State /\ Good(u, written)
    <3> HIDE DEF q, p
    <3> QED BY <1>1, <1>2, <1>3, <1>6, <1>7, MadeGood
  <2>3. QED
    BY <2>1, <2>2
<1> HIDE DEF s
<1>9. t \in State /\ Good(t, written)
  BY <1>8, WrittenItems, NextStartedGood
<1>10. /\ Become(t) /\ written' = written /\ stops' = stops
       /\ orphaned' = (orphaned \/ old \cap linked # {})
  BY DEF RequestUpgrade, s
<1> HIDE DEF t, old
<1>11. orphaned' \in BOOLEAN
  BY <1>10
<1>12. stops' \in 0 .. MaxStops
  BY <1>10 DEF UpgradeInv
<1>13. QED
  BY <1>9, <1>10, <1>11, <1>12, BecomeInv

LEMMA RequestInitializeInv ==
  ASSUME UpgradeInv, NEW type \in Types, RequestInitialize(type)
  PROVE  UpgradeInv'
<1> DEFINE m == [uid |-> NoNode, type |-> type]
           a == Emptied(Now)
           q == <<Len(made) + 1>>
           p == PostSize(a.posted)
           t == [a EXCEPT !.upgrading = FALSE, !.made = Append(@, m),
                          !.queue = <<Len(made) + 1>>, !.posted = PostSize(@)]
<1>1. a \in State /\ Good(a, written)
  BY EmptiedGood DEF UpgradeInv
<1>2. a.made = made
  <2> HIDE DEF a
  <2>1. \E r \in Seq(Items), e \in Seq(Events) : a = [Now EXCEPT !.queue = r, !.posted = e]
    BY EmptiedFacts DEF UpgradeInv, a
  <2>2. QED
    BY <2>1, NowFields DEF UpgradeInv, State
<1>3. Len(made) < MaxItems /\ m \in Made
  BY DEF RequestInitialize, Made
<1>4. made \in Seq(Made)
  BY NowFields DEF UpgradeInv, State
<1>5. Len(made) + 1 \in Items
  BY <1>3, <1>4, UpgradeAssumption DEF Items
<1>6. q \in Seq(Items) /\ Range(q) \subseteq Range(a.queue) \cup {Len(a.made) + 1}
  BY <1>2, <1>5 DEF Range
<1>7. p \in Seq(Events)
  BY <1>1, PostSizeType DEF State
<1>8. t \in State /\ Good(t, written)
  <2> HIDE DEF a, m
  <2> DEFINE u == [a EXCEPT !.made = Append(a.made, m), !.queue = q, !.posted = p,
                            !.upgrading = FALSE]
  <2>1. t = u
    BY <1>1 DEF State
  <2>2. u \in State /\ Good(u, written)
    <3> HIDE DEF q, p
    <3> QED BY <1>1, <1>2, <1>3, <1>6, <1>7, MadeGood
  <2>3. QED
    BY <2>1, <2>2
<1>9. /\ Become(t) /\ written' = written /\ stops' = stops /\ orphaned' = FALSE
  BY DEF RequestInitialize
<1> HIDE DEF t
<1>10. orphaned' \in BOOLEAN /\ stops' \in 0 .. MaxStops
  BY <1>9 DEF UpgradeInv
<1>11. QED
  BY <1>8, <1>9, <1>10, BecomeInv

LEMMA StopInv ==
  ASSUME UpgradeInv, NEW shown \in BOOLEAN, Stop(shown)
  PROVE  UpgradeInv'
<1> DEFINE a == Emptied(Cancelled(Now, shown))
           t == [a EXCEPT !.upgrading = FALSE]
           u == [a EXCEPT !.nexts = a.nexts, !.posted = a.posted, !.upgrading = FALSE]
<1>1. a \in State /\ Good(a, written)
  BY WrittenItems, CancelledGood, EmptiedGood DEF UpgradeInv
<1> HIDE DEF a
<1>2. a.nexts \in Nat /\ a.posted \in Seq(Events)
  BY <1>1 DEF State
<1>3. u \in State /\ Good(u, written)
  BY <1>1, <1>2, TimersGood
<1>4. t = u
  BY <1>1 DEF State
<1>5. /\ Become(t) /\ written' = written /\ stops' = stops + 1 /\ orphaned' = FALSE
      /\ stops < MaxStops
  BY DEF Stop, a
<1> HIDE DEF t, u
<1>6. orphaned' \in BOOLEAN /\ stops' \in 0 .. MaxStops
  <2>1. stops \in 0 .. MaxStops
    BY DEF UpgradeInv
  <2>2. stops' \in 0 .. MaxStops
    BY <1>5, <2>1, UpgradeAssumption
  <2>3. QED
    BY <1>5, <2>2
<1>7. QED
  BY <1>3, <1>4, <1>5, <1>6, BecomeInv

LEMMA CancelRequestsInv ==
  ASSUME UpgradeInv, NEW shown \in BOOLEAN, CancelRequests(shown)
  PROVE  UpgradeInv'
<1> DEFINE t == Cancelled(Now, shown)
<1>1. t \in State /\ Good(t, written)
  BY WrittenItems, CancelledGood DEF UpgradeInv
<1>2. /\ Become(t) /\ written' = written /\ stops' = stops + 1 /\ orphaned' = orphaned
      /\ stops < MaxStops
  BY DEF CancelRequests
<1> HIDE DEF t
<1>3. orphaned' \in BOOLEAN /\ stops' \in 0 .. MaxStops
  BY <1>2, UpgradeAssumption DEF UpgradeInv
<1>4. QED
  BY <1>1, <1>2, <1>3, BecomeInv

\* A step that leaves the ghosts alone
LEMMA PlainInv ==
  ASSUME UpgradeInv, NEW t \in State, Good(t, written), Become(t),
         UNCHANGED <<written, orphaned, stops>>
  PROVE  UpgradeInv'
<1>1. written' = written /\ orphaned' \in BOOLEAN /\ stops' \in 0 .. MaxStops
  BY DEF UpgradeInv
<1>2. QED
  BY <1>1, BecomeInv

LEMMA NextTimerInv ==
  ASSUME UpgradeInv, NEW loaded \in BOOLEAN, NextTimer(loaded)
  PROVE  UpgradeInv'
<1> DEFINE s == [Now EXCEPT !.nexts = @ - 1]
           u == [Now EXCEPT !.nexts = nexts - 1, !.posted = posted, !.upgrading = upgrading]
           t == NextStarted(s, loaded)
<1>1. Now \in State /\ Good(Now, written)
  BY DEF UpgradeInv
<1>2. nexts \in Nat /\ posted \in Seq(Events) /\ upgrading \in BOOLEAN
  BY <1>1, NowFields DEF State
<1>3. nexts - 1 \in Nat
  BY <1>2 DEF NextTimer
<1>4. u \in State /\ Good(u, written)
  BY <1>1, <1>2, <1>3, TimersGood
<1>5. s = u
  BY <1>1, NowFields DEF State
<1> HIDE DEF s, u
<1>6. t \in State /\ Good(t, written)
  BY <1>4, <1>5, WrittenItems, NextStartedGood
<1>7. Become(t) /\ UNCHANGED <<written, orphaned, stops>>
  BY DEF NextTimer, s
<1> HIDE DEF t
<1>8. QED
  BY <1>6, <1>7, PlainInv

LEMMA PoppedGood ==
  ASSUME UpgradeInv, posted # <<>>
  PROVE  Popped \in State /\ Good(Popped, written)
<1> DEFINE u == [Now EXCEPT !.nexts = nexts, !.posted = Tail(posted),
                            !.upgrading = upgrading]
<1>1. Now \in State /\ Good(Now, written)
  BY DEF UpgradeInv
<1>2. nexts \in Nat /\ posted \in Seq(Events) /\ upgrading \in BOOLEAN
  BY <1>1, NowFields DEF State
<1>3. Tail(posted) \in Seq(Events)
  BY <1>2
<1>4. u \in State /\ Good(u, written)
  BY <1>1, <1>2, <1>3, TimersGood
<1>5. Popped = u
  BY <1>1, NowFields DEF State, Popped
<1>6. QED
  BY <1>4, <1>5

LEMMA SizeChangedInv ==
  ASSUME UpgradeInv, NEW loaded \in BOOLEAN, SizeChanged(loaded)
  PROVE  UpgradeInv'
<1> DEFINE t == IF Len(queue) = 1 /\ ~upgrading THEN NextStarted(Popped, loaded) ELSE Popped
<1>1. Popped \in State /\ Good(Popped, written)
  BY PoppedGood DEF SizeChanged
<1>2. t \in State /\ Good(t, written)
  BY <1>1, WrittenItems, NextStartedGood
<1>3. Become(t) /\ UNCHANGED <<written, orphaned, stops>>
  BY DEF SizeChanged
<1> HIDE DEF t
<1>4. QED
  BY <1>2, <1>3, PlainInv

LEMMA FinishPostedInv ==
  ASSUME UpgradeInv, FinishPosted
  PROVE  UpgradeInv'
<1>1. Popped \in State /\ Good(Popped, written)
  BY PoppedGood DEF FinishPosted
<1>2. UpgradeFinished(Popped) \in State /\ Good(UpgradeFinished(Popped), written)
  BY <1>1, WrittenItems, UpgradeFinishedGood
<1>3. Become(UpgradeFinished(Popped)) /\ UNCHANGED <<written, orphaned, stops>>
  BY DEF FinishPosted
<1>4. QED
  BY <1>2, <1>3, PlainInv

LEMMA TimersOfItem ==
  ASSUME NEW c \in [Items -> Nat], NEW i \in Items
  PROVE  [c EXCEPT ![i] = 0] \in [Items -> Nat]
  OBVIOUS

LEMMA DeletedInv ==
  ASSUME UpgradeInv, Deleted
  PROVE  UpgradeInv'
<1> DEFINE i == Head(posted)[2]
           c == [tuned EXCEPT ![i] = 0]
           l == linked \ {i}
           p == Tail(posted)
           s == [Popped EXCEPT !.linked = @ \ {i}, !.serial = @ \ {i}, !.tuned[i] = 0]
           u == [Now EXCEPT !.posted = p, !.linked = l, !.serial = Now.serial \ {i},
                            !.tuned = c]
           t == Taken(s, {i})
<1>1. Now \in State /\ Good(Now, written) /\ posted \in Seq(Events) /\ posted # <<>>
  BY NowFields DEF UpgradeInv, State, Deleted
<1>2. i \in Items
  <2>1. Head(posted) \in Events /\ Head(posted)[1] = "delete"
    BY <1>1 DEF Deleted
  <2>2. PICK j \in Items : Head(posted) = <<"delete", j>>
    BY <2>1 DEF Events
  <2>3. QED
    BY <2>2
<1>3. p \in Seq(Events) /\ l \in SUBSET Now.linked
  BY <1>1, NowFields
<1>4. c \in [Items -> Nat]
  <2> HIDE DEF i
  <2> QED BY <1>1, <1>2, NowFields, TimersOfItem DEF State
<1> HIDE DEF i
<1>5. u \in State /\ Good(u, written)
  <2> HIDE DEF c, l, p
  <2> QED BY <1>1, <1>2, <1>3, <1>4, DroppedGood
<1>6. s = u
  BY <1>1, NowFields DEF State, Popped
<1> HIDE DEF s, u
<1>7. t \in State /\ Good(t, written)
  BY <1>5, <1>6, TakenGood
<1>8. Become(t) /\ UNCHANGED <<written, orphaned, stops>>
  BY DEF Deleted, s, i
<1> HIDE DEF t
<1>9. QED
  BY <1>7, <1>8, PlainInv

LEMMA SerialEndsInv ==
  ASSUME UpgradeInv, NEW i \in Items, SerialEnds(i)
  PROVE  UpgradeInv'
<1> DEFINE p == Append(posted, <<"delete", i>>)
           t == [Now EXCEPT !.serial = @ \ {i}, !.posted = Append(@, <<"delete", i>>)]
           u == [Now EXCEPT !.posted = p, !.linked = linked, !.serial = Now.serial \ {i},
                            !.tuned = tuned]
<1>1. /\ Now \in State /\ Good(Now, written) /\ posted \in Seq(Events)
      /\ tuned \in [Items -> Nat] /\ linked \in SUBSET Now.linked
  BY NowFields DEF UpgradeInv, State
<1>2. p \in Seq(Events)
  BY <1>1 DEF Events
<1>3. u \in State /\ Good(u, written)
  <2> HIDE DEF p
  <2> QED BY <1>1, <1>2, DroppedGood
<1>4. t = u
  BY <1>1, NowFields DEF State
<1>5. /\ Become(t) /\ written' = written /\ stops' = stops
      /\ orphaned' = (orphaned \/ i \in Range(queue))
  BY DEF SerialEnds
<1> HIDE DEF t, u
<1>6. orphaned' \in BOOLEAN
  BY <1>5
<1>7. stops' \in 0 .. MaxStops
  BY <1>5 DEF UpgradeInv
<1>8. QED
  BY <1>3, <1>4, <1>5, <1>6, <1>7, BecomeInv

LEMMA ScheduleInv ==
  ASSUME UpgradeInv, NEW shown \in BOOLEAN, NEW replace \in BOOLEAN,
         Schedule(shown, replace)
  PROVE  UpgradeInv'
<1> DEFINE r == Head(fresh)
           f == Tail(fresh)
           s == [Now EXCEPT !.fresh = Tail(@)]
           Lined(l) == [Now EXCEPT !.line = l, !.fresh = f]
           x == Append(Without(line, {r}), r)
<1>1. /\ Now \in State /\ Good(Now, written) /\ fresh # <<>>
      /\ fresh \in Seq(Requests) /\ line \in Seq(Requests)
      /\ Now.line = line /\ Now.fresh = fresh
  BY NowFields DEF UpgradeInv, State, Schedule
<1>2. /\ r \in Requests /\ r \in Range(fresh)
      /\ f \in Seq(Requests) /\ Range(f) \subseteq Range(fresh)
  <2>1. r = fresh[1] /\ 1 \in DOMAIN fresh /\ r \in Requests /\ f \in Seq(Requests)
    BY <1>1
  <2>2. \A k \in DOMAIN f : k + 1 \in DOMAIN fresh /\ f[k] = fresh[k + 1]
    BY <1>1
  <2> HIDE DEF r, f
  <2>3. QED
    BY <2>1, <2>2 DEF Range
<1> HIDE DEF r, f
<1>3. ASSUME NEW l \in Seq(Requests), Range(l) \subseteq Range(line) \cup {r}
      PROVE  Lined(l) \in State /\ Good(Lined(l), written)
  <2>1. Range(l) \cup Range(f) \subseteq Range(Now.line) \cup Range(Now.fresh)
    BY <1>1, <1>2, <1>3
  <2>2. QED
    BY <1>1, <1>2, <2>1, LineGood
<1>4. s = Lined(line) /\ \A l : [s EXCEPT !.line = l] = Lined(l)
  BY <1>1 DEF State, f
<1>5. /\ Append(line, r) \in Seq(Requests)
      /\ Range(Append(line, r)) \subseteq Range(line) \cup {r}
  BY <1>1, <1>2, AppendRange
<1>6. x \in Seq(Requests) /\ Range(x) \subseteq Range(line) \cup {r}
  <2> DEFINE y == Without(line, {r})
  <2>1. y \in Seq(Requests) /\ Range(y) \subseteq Range(line)
    BY <1>1, KeptFacts DEF Without
  <2> HIDE DEF y
  <2>2. Append(y, r) \in Seq(Requests) /\ Range(Append(y, r)) \subseteq Range(y) \cup {r}
    BY <1>2, <2>1, AppendRange
  <2>3. QED
    BY <2>1, <2>2 DEF y
<1>7. s.line = line
  BY <1>1 DEF State
<1> HIDE DEF x, Lined
<1>8. UNCHANGED <<written, orphaned, stops>>
  BY DEF Schedule
<1>9. CASE r \notin Range(line)
  <2>1. Become([s EXCEPT !.line = Append(s.line, r)])
    BY <1>9 DEF Schedule, r
  <2>2. Become(Lined(Append(line, r)))
    BY <1>4, <1>7, <2>1
  <2>3. Lined(Append(line, r)) \in State /\ Good(Lined(Append(line, r)), written)
    BY <1>3, <1>5
  <2>4. QED
    BY <1>8, <2>2, <2>3, PlainInv
<1>10. CASE r \in Range(line)
  <2> DEFINE l == IF replace /\ r.kind # "ident" THEN x ELSE line
             t == RequestFinished(Lined(l), r, shown)
  <2>1. l \in Seq(Requests) /\ Range(l) \subseteq Range(line) \cup {r}
    BY <1>1, <1>6
  <2>2. Become(RequestFinished(IF replace /\ r.kind # "ident"
                               THEN [s EXCEPT !.line = Append(Without(s.line, {r}), r)]
                               ELSE s, r, shown))
    BY <1>10 DEF Schedule, r
  <2>3. (IF replace /\ r.kind # "ident"
         THEN [s EXCEPT !.line = Append(Without(s.line, {r}), r)] ELSE s) = Lined(l)
    BY <1>4, <1>7 DEF x
  <2> HIDE DEF l
  <2>4. Become(t)
    BY <2>2, <2>3
  <2>5. t \in State /\ Good(t, written)
    BY <1>2, <1>3, <2>1, WrittenItems, RequestFinishedGood
  <2> HIDE DEF t
  <2>6. QED
    BY <1>8, <2>4, <2>5, PlainInv
<1>11. QED
  BY <1>9, <1>10

LEMMA RemovedFacts ==
  ASSUME NEW T, NEW q \in Seq(T), NEW k \in DOMAIN q
  PROVE  RemovedAt(q, k) \in Seq(T) /\ Range(RemovedAt(q, k)) \subseteq Range(q)
<1> DEFINE a == SubSeq(q, 1, k - 1)
           b == SubSeq(q, k + 1, Len(q))
<1>1. /\ a \in Seq(T) /\ b \in Seq(T) /\ k \in 1 .. Len(q)
      /\ Len(a) = k - 1 /\ Len(b) = Len(q) - k
      /\ \A j \in 1 .. Len(a) : a[j] = q[j]
      /\ \A j \in 1 .. Len(b) : b[j] = q[k + j]
  OBVIOUS
<1>2. Range(a) \subseteq Range(q) /\ Range(b) \subseteq Range(q)
  <2>1. \A j \in 1 .. Len(a) : j \in DOMAIN q
    BY <1>1
  <2>2. \A j \in 1 .. Len(b) : k + j \in DOMAIN q
    BY <1>1
  <2>3. DOMAIN a = 1 .. Len(a) /\ DOMAIN b = 1 .. Len(b)
    BY <1>1
  <2> HIDE DEF a, b
  <2>4. QED
    BY <1>1, <2>1, <2>2, <2>3 DEF Range
<1> HIDE DEF a, b
<1>3. a \o b \in Seq(T) /\ Range(a \o b) \subseteq Range(a) \cup Range(b)
  BY <1>1 DEF Range
<1>4. QED
  BY <1>2, <1>3 DEF RemovedAt, a, b

LEMMA RequestEndsInv ==
  ASSUME UpgradeInv, NEW shown \in BOOLEAN, NEW k \in DOMAIN line, RequestEnds(k, shown)
  PROVE  UpgradeInv'
<1> DEFINE l == RemovedAt(line, k)
           s == [Now EXCEPT !.line = RemovedAt(@, k)]
           u == [Now EXCEPT !.line = l, !.fresh = fresh]
           t == RequestFinished(s, line[k], shown)
<1>1. /\ Now \in State /\ Good(Now, written)
      /\ fresh \in Seq(Requests) /\ line \in Seq(Requests)
      /\ Now.line = line /\ Now.fresh = fresh
  BY NowFields DEF UpgradeInv, State
<1>2. l \in Seq(Requests) /\ Range(l) \subseteq Range(line) /\ line[k] \in Requests
  BY <1>1, RemovedFacts, ElementOf
<1>3. u \in State /\ Good(u, written)
  <2> HIDE DEF l
  <2> QED BY <1>1, <1>2, LineGood
<1>4. s = u
  BY <1>1 DEF State
<1> HIDE DEF s, u
<1>5. t \in State /\ Good(t, written)
  BY <1>2, <1>3, <1>4, WrittenItems, RequestFinishedGood
<1>6. Become(t) /\ UNCHANGED <<written, orphaned, stops>>
  BY DEF RequestEnds, s
<1> HIDE DEF t
<1>7. QED
  BY <1>5, <1>6, PlainInv

LEMMA WriteDoneInv ==
  ASSUME UpgradeInv, WriteDone
  PROVE  UpgradeInv'
<1> DEFINE r == Head(line)
           l == Tail(line)
           s == [Now EXCEPT !.line = Tail(@)]
           u == [Now EXCEPT !.line = l, !.fresh = fresh]
           x == Uploaded(s)
           v == {i \in linked : made[i].uid = r.uid /\ made[i].type = r.name}
           t == UpgradeFinished(x)
<1>1. /\ Now \in State /\ Good(Now, written) /\ written \in SUBSET Items
      /\ fresh \in Seq(Requests) /\ line \in Seq(Requests) /\ line # <<>>
      /\ r.kind = "write"
      /\ Now.line = line /\ Now.fresh = fresh /\ Now.linked = linked /\ Now.node = node
      /\ Now.success = success /\ Now.made = made /\ Now.mixed = mixed
  BY NowFields, WrittenItems DEF UpgradeInv, State, WriteDone
<1>2. l \in Seq(Requests) /\ Range(l) \subseteq Range(line) /\ r \in Range(line)
  <2>1. r = line[1] /\ 1 \in DOMAIN line /\ l \in Seq(Requests)
    BY <1>1
  <2>2. \A k \in DOMAIN l : k + 1 \in DOMAIN line /\ l[k] = line[k + 1]
    BY <1>1
  <2> HIDE DEF r, l
  <2>3. QED
    BY <2>1, <2>2 DEF Range
<1>3. u \in State /\ Good(u, written)
  <2> HIDE DEF l
  <2> QED BY <1>1, <1>2, LineGood
<1>4. s = u
  BY <1>1 DEF State
<1>5. /\ u.linked = linked /\ u.node = node /\ u.success = FALSE
      /\ u.made = made /\ u.mixed = mixed
  BY <1>1 DEF State, Good, AtWork
<1>6. \A i \in linked \ mixed : made[i].uid = r.uid /\ made[i].type = r.name
  BY <1>1, <1>2 DEF Good, WritesMatch
<1>7. linked \subseteq DOMAIN made /\ (linked # {} => node # NoNode)
  BY <1>1 DEF Good, Placed, AtWork
<1>8. Become(t) /\ written' = written \cup v /\ UNCHANGED <<orphaned, stops>>
  BY DEF WriteDone
<1>9. x = [u EXCEPT !.success = u.success \/ u.node # NoNode]
  BY <1>4 DEF Uploaded
<1> HIDE DEF u, s
<1>10. t \in State /\ Good(t, written \cup v)
  <2>1. CASE node = NoNode
    <3>1. v = {}
      BY <1>7, <2>1
    <3>2. x = u
      BY <1>3, <1>5, <1>9, <2>1 DEF State
    <3>3. t = u
      BY <1>5, <2>1, <3>2 DEF UpgradeFinished
    <3>4. written \cup v = written
      BY <3>1
    <3> HIDE DEF t, v
    <3>5. QED
      BY <1>3, <3>3, <3>4
  <2>2. CASE node # NoNode
    <3> DEFINE y == [u EXCEPT !.node = NoNode, !.identRetry = 0, !.success = FALSE,
                              !.linked = {}]
    <3>1. y \in State
      <4>1. 0 \in 0 .. IdentRetries
        BY UpgradeAssumption
      <4>2. QED
        BY <1>3, <4>1 DEF State
    <3>2. /\ y.made = u.made /\ y.told = u.told /\ y.item = u.item /\ y.linked = {}
          /\ y.mixed = u.mixed /\ y.node = NoNode /\ y.success = FALSE
          /\ y.line = u.line /\ y.fresh = u.fresh /\ y.serial = u.serial
          /\ y.queue = u.queue
      BY <1>3 DEF State
    <3>3. x = [u EXCEPT !.success = TRUE]
      BY <1>5, <1>9, <2>2
    <3>4. /\ x.node # NoNode /\ x.success = TRUE /\ x.linked = linked
          /\ [x EXCEPT !.node = NoNode, !.identRetry = 0, !.success = FALSE,
                       !.linked = {}] = y
      BY <1>3, <1>5, <2>2, <3>3 DEF State
    <3>5. t = ItemsFinished(y, linked, TRUE)
      <4> HIDE DEF x, y
      <4> QED BY <3>4 DEF UpgradeFinished
    <3> HIDE DEF y, t, v
    <3>6. Placed(y, written)
      BY <1>3, <3>2 DEF Good, Placed
    <3>7. AtWork(y) /\ WritesMatch(y)
      BY <1>3, <3>2 DEF Good, AtWork, WritesMatch
    <3>8. WrittenIsDone(y, written) /\ ToldTrue(y, written)
      BY <1>3, <3>2 DEF Good, WrittenIsDone, ToldTrue
    <3>9. Good(y, written)
      BY <3>6, <3>7, <3>8 DEF Good
    <3>10. /\ linked \in SUBSET DOMAIN y.made /\ v \in SUBSET linked
           /\ linked \ y.mixed \subseteq v
      BY <1>5, <1>6, <1>7, <3>2 DEF v
    <3>11. QED
      BY <1>1, <3>1, <3>2, <3>5, <3>9, <3>10, DoneGood
  <2>3. QED
    BY <2>1, <2>2
<1> HIDE DEF t, v
<1>11. orphaned' \in BOOLEAN /\ stops' \in 0 .. MaxStops
  BY <1>8 DEF UpgradeInv
<1>12. QED
  BY <1>8, <1>10, <1>11, BecomeInv

LEMMA UpgradeNextInv ==
  ASSUME UpgradeInv, [UpgradeNext]_upgradeVars
  PROVE  UpgradeInv'
<1>1. CASE UNCHANGED upgradeVars
  <2>1. Now' = Now
    BY <1>1 DEF upgradeVars, Now
  <2>2. written' = written /\ orphaned' = orphaned /\ stops' = stops
    BY <1>1 DEF upgradeVars
  <2>3. QED
    BY <2>1, <2>2 DEF UpgradeInv
<1>2. CASE Internal
  <2>1. ASSUME NEW loaded \in BOOLEAN, NextTimer(loaded) \/ SizeChanged(loaded)
        PROVE  UpgradeInv'
    BY <2>1, NextTimerInv, SizeChangedInv
  <2>2. ASSUME NEW i \in Items, SerialEnds(i)
        PROVE  UpgradeInv'
    BY <2>2, SerialEndsInv
  <2>3. ASSUME NEW shown \in BOOLEAN, NEW replace \in BOOLEAN, Schedule(shown, replace)
        PROVE  UpgradeInv'
    BY <2>3, ScheduleInv
  <2>4. ASSUME NEW k \in DOMAIN line, NEW shown \in BOOLEAN, RequestEnds(k, shown)
        PROVE  UpgradeInv'
    BY <2>4, RequestEndsInv
  <2>5. QED
    BY <1>2, <2>1, <2>2, <2>3, <2>4, FinishPostedInv, DeletedInv, WriteDoneInv
       DEF Internal
<1>3. CASE User
  <2>1. ASSUME NEW uid \in Uids, NEW type \in Types, NEW loaded \in BOOLEAN,
               RequestUpgrade(uid, type, loaded)
        PROVE  UpgradeInv'
    BY <2>1, RequestUpgradeInv
  <2>2. ASSUME NEW type \in Types, RequestInitialize(type)
        PROVE  UpgradeInv'
    BY <2>2, RequestInitializeInv
  <2>3. ASSUME NEW shown \in BOOLEAN, Stop(shown) \/ CancelRequests(shown)
        PROVE  UpgradeInv'
    BY <2>3, StopInv, CancelRequestsInv
  <2>4. QED
    BY <1>3, <2>1, <2>2, <2>3 DEF User
<1>4. QED
  BY <1>1, <1>2, <1>3 DEF UpgradeNext

LEMMA UpgradeInitInv == UpgradeInit => UpgradeInv
<1> SUFFICES ASSUME UpgradeInit
             PROVE  UpgradeInv
  OBVIOUS
<1> USE DEF UpgradeInit
<1>1. 0 \in 0 .. IdentRetries /\ 0 \in 0 .. MaxStops /\ 0 <= MaxItems
  BY UpgradeAssumption
<1>2. /\ [i \in Items |-> 0] \in [Items -> Nat]
      /\ [i \in Items |-> "nothing"] \in [Items -> {"nothing", "ok", "error"}]
  OBVIOUS
<1>3. Now \in State
  <2>1. /\ made \in Seq(Made) /\ queue \in Seq(Items) /\ posted \in Seq(Events)
        /\ fresh \in Seq(Requests) /\ line \in Seq(Requests)
    OBVIOUS
  <2>2. /\ tuned \in [Items -> Nat] /\ told \in [Items -> {"nothing", "ok", "error"}]
    BY <1>2
  <2>3. /\ upgrading \in BOOLEAN /\ success \in BOOLEAN /\ nexts \in Nat
        /\ serial \in SUBSET Items /\ linked \in SUBSET Items /\ mixed \in SUBSET Items
        /\ node \in Uids \cup {NoNode} /\ item \in Items \cup {0}
        /\ identRetry \in 0 .. IdentRetries
    BY <1>1
  <2> HIDE DEF UpgradeInit
  <2>4. QED
    BY <2>1, <2>2, <2>3 DEF Now, State
<1>4. Range(<<>>) = {} /\ DOMAIN <<>> = {} /\ Len(<<>>) = 0
  BY DEF Range
<1>5. Placed(Now, written) /\ AtWork(Now)
  BY <1>1, <1>4, NowFields DEF Placed, AtWork
<1>6. WritesMatch(Now) /\ WrittenIsDone(Now, written) /\ ToldTrue(Now, written)
  BY <1>4, NowFields DEF WritesMatch, WrittenIsDone, ToldTrue
<1>7. QED
  BY <1>1, <1>3, <1>5, <1>6 DEF UpgradeInv, Good

LEMMA UpgradeInvariance == UpgradeSpec => []UpgradeInv
<1>1. UpgradeInv /\ [UpgradeNext]_upgradeVars => UpgradeInv'
  BY UpgradeNextInv
<1>2. QED
  BY UpgradeInitInv, <1>1, PTL DEF UpgradeSpec

\* Every variable of the upgrade keeps its type: a queue of items that were made,
\* requests of nodes and files, and never more idents than PApxFirmware allows.
THEOREM UpgradeTypeCorrect == UpgradeSpec => []UpgradeTypeOK
<1>1. UpgradeInv => UpgradeTypeOK
  <2> SUFFICES ASSUME UpgradeInv
               PROVE  UpgradeTypeOK
    OBVIOUS
  <2>1. Placed(Now, written) /\ Now \in State
    BY DEF UpgradeInv, Good
  <2>2. queue \in Seq(Items) /\ Range(queue) \subseteq DOMAIN made
    BY <2>1, NowFields DEF State, Placed
  <2>3. queue \in Seq(DOMAIN made)
    BY <2>2, SeqOf
  <2>4. /\ made \in Seq([uid : Uids \cup {NoNode}, type : Types])
        /\ Len(made) <= MaxItems /\ upgrading \in BOOLEAN /\ nexts \in Nat
        /\ tuned \in [Items -> Nat] /\ posted \in Seq(Events)
        /\ node \in Uids \cup {NoNode} /\ identRetry \in 0 .. IdentRetries
        /\ success \in BOOLEAN /\ fresh \in Seq(Requests) /\ line \in Seq(Requests)
        /\ told \in [Items -> {"nothing", "ok", "error"}]
    BY <2>1, NowFields DEF State, Placed, Made
  <2>5. /\ serial \subseteq DOMAIN made /\ linked \subseteq DOMAIN made
        /\ item \in DOMAIN made \cup {0} /\ written \subseteq DOMAIN made
        /\ mixed \subseteq DOMAIN made
    BY <2>1, NowFields DEF Placed
  <2>6. QED
    BY <2>3, <2>4, <2>5 DEF UpgradeTypeOK, UpgradeInv
<1>2. QED
  BY UpgradeInvariance, <1>1, PTL

\* An item reports success exactly if its file was written while it listened,
\* unless its upgrade got mixed up with another one.
THEOREM ResultCorrect == UpgradeSpec => []ResultIsTrue
<1>1. UpgradeInv => ResultIsTrue
  BY NowFields DEF UpgradeInv, Good, ToldTrue, ResultIsTrue
<1>2. QED
  BY UpgradeInvariance, <1>1, PTL
=============================================================================
