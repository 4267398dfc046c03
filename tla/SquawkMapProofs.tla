-------------------------- MODULE SquawkMapProofs --------------------------
(***************************************************************************)
(* Proofs about SquawkMap, for any number of vehicles and of squawks.      *)
(***************************************************************************)
EXTENDS SquawkMap, FiniteSetTheorems, SequenceTheorems, WellFoundedInduction, TLAPS

\* What may be in the map
Entry == known \cup {None} \cup 1 .. deleted

\* The inductive invariant
IInv == TypeOK /\ MapNamesTheLiving

-----------------------------------------------------------------------------
(* Sequences and sets of numbers *)

\* The first element is taken.
LEMMA TailFacts ==
  ASSUME NEW S, NEW q \in Seq(S), q # <<>>
  PROVE  /\ Head(q) = q[1] /\ q[1] \in S /\ 1 \in DOMAIN q
         /\ Tail(q) \in Seq(S) /\ Len(Tail(q)) = Len(q) - 1 /\ Len(q) \in Nat
         /\ \A i \in DOMAIN Tail(q) : i + 1 \in DOMAIN q /\ Tail(q)[i] = q[i + 1]
  OBVIOUS

\* An element is appended.
LEMMA AppendFacts ==
  ASSUME NEW S, NEW q \in Seq(S), NEW x \in S
  PROVE  /\ Append(q, x) \in Seq(S) /\ Len(Append(q, x)) = Len(q) + 1
         /\ Len(q) \in Nat
         /\ \A i \in DOMAIN Append(q, x) :
              \/ i \in DOMAIN q /\ Append(q, x)[i] = q[i]
              \/ i = Len(q) + 1 /\ Append(q, x)[i] = x
  OBVIOUS

\* A sequence is appended.
LEMMA ConcatFacts ==
  ASSUME NEW S, NEW q \in Seq(S), NEW r \in Seq(S)
  PROVE  /\ q \o r \in Seq(S)
         /\ \A i \in DOMAIN (q \o r) :
              \/ i \in DOMAIN q /\ (q \o r)[i] = q[i]
              \/ i - Len(q) \in DOMAIN r /\ (q \o r)[i] = r[i - Len(q)]
  OBVIOUS

\* What a concatenation is
LEMMA ConcatIs ==
  ASSUME NEW S, NEW a \in Seq(S), NEW b \in Seq(S)
  PROVE  /\ a \o b \in Seq(S) /\ Len(a \o b) = Len(a) + Len(b)
         /\ \A i \in 1 .. Len(a \o b) :
              (a \o b)[i] = IF i <= Len(a) THEN a[i] ELSE b[i - Len(a)]
  OBVIOUS

\* A set of numbers has a least one.
LEMMA MinFacts ==
  ASSUME NEW T, T \subseteq Nat, T # {}
  PROVE  Min(T) \in T
<1>1. IsWellFoundedOn(OpToRel(<, Nat), Nat)
  BY NatLessThanWellFounded
<1>2. PICK x \in T : \A y \in T : ~ (<<y, x>> \in OpToRel(<, Nat))
  BY <1>1, WFMin
<1>3. \A y \in T : ~ (y < x)
  BY <1>2 DEF OpToRel
<1>4. \E z \in T : \A y \in T : z <= y
  BY <1>3
<1>5. QED
  BY <1>4 DEF Min

\* Removing a squawk keeps a list without repetition one.
LEMMA WithoutFacts ==
  ASSUME NEW q \in Seq(Squawks0), IsInjective(q), NEW s
  PROVE  Without(q, s) \in Seq(Squawks0) /\ IsInjective(Without(q, s))
<1>1. CASE s \notin Range(q)
  BY <1>1 DEF Without
<1>2. CASE s \in Range(q)
  <2> DEFINE n == CHOOSE i \in DOMAIN q : q[i] = s
             r == SubSeq(q, 1, n - 1) \o SubSeq(q, n + 1, Len(q))
  <2>1. n \in DOMAIN q
    BY <1>2 DEF Range
  <2>2. Without(q, s) = r
    BY <1>2 DEF Without
  <2>3. n \in 1 .. Len(q) /\ Len(q) \in Nat /\ DOMAIN q = 1 .. Len(q)
    BY <2>1
  <2> HIDE DEF n, r
  <2>4. /\ SubSeq(q, 1, n - 1) \in Seq(Squawks0) /\ Len(SubSeq(q, 1, n - 1)) = n - 1
        /\ \A i \in 1 .. n - 1 : SubSeq(q, 1, n - 1)[i] = q[i]
    <3>1. n - 1 \in Nat /\ \A i \in 1 .. n - 1 : q[i] \in Squawks0
      BY <2>3
    <3> DEFINE p == SubSeq(q, 1, n - 1)
    <3>2. /\ p \in Seq(Squawks0) /\ Len(p) = IF 1 <= n - 1 THEN (n - 1) - 1 + 1 ELSE 0
          /\ \A i \in 1 .. (n - 1) - 1 + 1 : p[i] = q[1 + i - 1]
      BY <3>1, SubSeqProperties
    <3> HIDE DEF p
    <3>3. p \in Seq(Squawks0) /\ Len(p) = n - 1 /\ \A i \in 1 .. n - 1 : p[i] = q[i]
      BY <2>3, <3>1, <3>2
    <3>4. QED
      BY <3>3 DEF p
  <2>5. /\ SubSeq(q, n + 1, Len(q)) \in Seq(Squawks0)
        /\ Len(SubSeq(q, n + 1, Len(q))) = Len(q) - n
        /\ \A i \in 1 .. Len(q) - n : SubSeq(q, n + 1, Len(q))[i] = q[n + i]
    <3>1. n + 1 \in Int /\ Len(q) \in Int /\ \A i \in n + 1 .. Len(q) : q[i] \in Squawks0
      BY <2>3
    <3> DEFINE p == SubSeq(q, n + 1, Len(q))
    <3>2. /\ p \in Seq(Squawks0)
          /\ Len(p) = IF n + 1 <= Len(q) THEN Len(q) - (n + 1) + 1 ELSE 0
          /\ \A i \in 1 .. Len(q) - (n + 1) + 1 : p[i] = q[(n + 1) + i - 1]
      BY <3>1, SubSeqProperties
    <3> HIDE DEF p
    <3>3. Len(q) - (n + 1) + 1 = Len(q) - n
      BY <2>3
    <3>4. Len(p) = Len(q) - n
      <4>1. CASE n + 1 <= Len(q)
        BY <3>2, <3>3, <4>1
      <4>2. CASE ~(n + 1 <= Len(q))
        <5>1. Len(p) = 0
          BY <3>2, <4>2
        <5>2. Len(q) - n = 0
          <6>1. PICK k, l : k = n /\ l = Len(q)
            OBVIOUS
          <6>2. k \in Nat /\ l \in Nat /\ k <= l /\ ~(k + 1 <= l)
            BY <2>3, <4>2, <6>1
          <6>3. l - k = 0
            BY <6>2
          <6>4. QED
            BY <6>1, <6>3
        <5>3. QED
          BY <5>1, <5>2
      <4>3. QED
        BY <4>1, <4>2
    <3>5. \A i \in 1 .. Len(q) - n : (n + 1) + i - 1 = n + i
      BY <2>3
    <3>6. \A i \in 1 .. Len(q) - n : p[i] = q[n + i]
      BY <3>2, <3>3, <3>5
    <3>7. QED
      BY <3>2, <3>4, <3>6 DEF p
  <2>6. /\ r \in Seq(Squawks0) /\ Len(r) = Len(q) - 1
        /\ \A i \in 1 .. Len(r) : r[i] = IF i < n THEN q[i] ELSE q[i + 1]
    <3>1. PICK a, b : a = SubSeq(q, 1, n - 1) /\ b = SubSeq(q, n + 1, Len(q))
      OBVIOUS
    <3>2. /\ a \in Seq(Squawks0) /\ Len(a) = n - 1
          /\ \A i \in 1 .. n - 1 : a[i] = q[i]
      BY <2>4, <3>1
    <3>3. /\ b \in Seq(Squawks0) /\ Len(b) = Len(q) - n
          /\ \A i \in 1 .. Len(q) - n : b[i] = q[n + i]
      BY <2>5, <3>1
    <3>4. r = a \o b
      BY <3>1 DEF r
    <3>5. /\ r \in Seq(Squawks0) /\ Len(r) = Len(a) + Len(b)
          /\ \A i \in 1 .. Len(r) :
               r[i] = IF i <= Len(a) THEN a[i] ELSE b[i - Len(a)]
      BY <3>2, <3>3, <3>4, ConcatIs
    <3>6. Len(r) = Len(q) - 1
      BY <2>3, <3>2, <3>3, <3>5
    <3>7. ASSUME NEW i \in 1 .. Len(r)  PROVE r[i] = IF i < n THEN q[i] ELSE q[i + 1]
      <4>1. CASE i < n
        BY <2>3, <3>2, <3>5, <3>6, <4>1
      <4>2. CASE ~(i < n)
        <5>1. i - (n - 1) \in 1 .. Len(q) - n /\ n + (i - (n - 1)) = i + 1
          BY <2>3, <3>6, <4>2
        <5>2. r[i] = b[i - (n - 1)]
          BY <2>3, <3>2, <3>5, <4>2
        <5>3. QED
          BY <3>3, <4>2, <5>1, <5>2
      <4>3. QED
        BY <4>1, <4>2
    <3>8. QED
      BY <3>5, <3>6, <3>7
  <2>7. ASSUME NEW i \in 1 .. Len(r), NEW j \in 1 .. Len(r), r[i] = r[j]
        PROVE  i = j
    <3>1. \A a, b \in 1 .. Len(q) : q[a] = q[b] => a = b
      BY <2>3 DEF IsInjective
    <3>2. i \in 1 .. Len(q) /\ i + 1 \in 1 .. Len(q) /\ j \in 1 .. Len(q) /\ j + 1 \in 1 .. Len(q)
      BY <2>3, <2>6
    <3>3. CASE i < n /\ j < n
      BY <2>6, <2>7, <3>1, <3>2, <3>3
    <3>4. CASE i < n /\ ~(j < n)
      <4>1. q[i] = q[j + 1]
        BY <2>6, <2>7, <3>4
      <4>2. i = j + 1
        BY <3>1, <3>2, <4>1
      <4>3. QED
        BY <2>3, <3>4, <4>2
    <3>5. CASE ~(i < n) /\ j < n
      <4>1. q[i + 1] = q[j]
        BY <2>6, <2>7, <3>5
      <4>2. i + 1 = j
        BY <3>1, <3>2, <4>1
      <4>3. QED
        BY <2>3, <3>5, <4>2
    <3>6. CASE ~(i < n) /\ ~(j < n)
      <4>1. q[i + 1] = q[j + 1]
        BY <2>6, <2>7, <3>6
      <4>2. i + 1 = j + 1
        BY <3>1, <3>2, <4>1
      <4>3. QED
        BY <4>2
    <3>7. QED
      BY <3>3, <3>4, <3>5, <3>6
  <2>8. DOMAIN r = 1 .. Len(r)
    BY <2>6
  <2>9. IsInjective(r)
    BY <2>7, <2>8 DEF IsInjective
  <2>10. QED
    BY <2>2, <2>6, <2>9
<1>3. QED
  BY <1>1, <1>2

-----------------------------------------------------------------------------
(* The map *)

\* One entry of v, if there is any, is taken out of the map.
LEMMA UnmappedFacts ==
  ASSUME NEW T, NEW m \in [Squawks -> T], NEW v
  PROVE  /\ Unmapped(m, v) \in [Squawks -> T \cup {None}]
         /\ \A s \in Squawks :
              Unmapped(m, v)[s] = m[s] \/ Unmapped(m, v)[s] = None
         /\ v # None /\ (\A s, t \in SquawksOf(m, v) : s = t)
              => \A s \in Squawks : Unmapped(m, v)[s] # v
<1>1. CASE SquawksOf(m, v) = {}
  BY <1>1 DEF Unmapped, SquawksOf
<1>2. CASE SquawksOf(m, v) # {}
  <2>1. SquawksOf(m, v) \subseteq Squawks /\ SquawksOf(m, v) \subseteq Nat
    BY ConstantsAssumption DEF SquawksOf
  <2>2. Min(SquawksOf(m, v)) \in SquawksOf(m, v)
    BY <1>2, <2>1, MinFacts
  <2>3. PICK k : k = Min(SquawksOf(m, v))
    OBVIOUS
  <2>4. k \in Squawks /\ m[k] = v /\ k \in SquawksOf(m, v)
    BY <2>2, <2>3 DEF SquawksOf
  <2>5. Unmapped(m, v) = [m EXCEPT ![k] = None]
    BY <1>2, <2>3 DEF Unmapped
  <2>6. ASSUME v # None, \A s, t \in SquawksOf(m, v) : s = t, NEW s \in Squawks
        PROVE  Unmapped(m, v)[s] # v
    <3>1. CASE s = k
      BY <2>4, <2>5, <2>6, <3>1
    <3>2. CASE s # k
      <4>1. s \notin SquawksOf(m, v)
        BY <2>4, <2>6, <3>2
      <4>2. QED
        BY <2>5, <3>2, <4>1 DEF SquawksOf
    <3>3. QED
      BY <3>1, <3>2
  <2>7. QED
    BY <2>4, <2>5, <2>6
<1>3. QED
  BY <1>1, <1>2

\* assign_squawk() with a map that has no entries but those that were there
LEMMA AssignFacts ==
  ASSUME TypeOK, NEW v \in Vehicles, NEW m \in [Squawks -> Entry], Assign(v, m)
  PROVE  /\ squawkMap' = m
         /\ blacklist' \in Seq(Squawks) /\ Len(blacklist') <= BlacklistLimit
         /\ down' \in Seq(Order)
         /\ UNCHANGED <<known, squawk, reqIdent, reqTimer>>
<1>1. PICK s \in Offered(m) :
        LET b == Append(blacklist, s)
        IN  /\ blacklist' = IF Len(b) > BlacklistLimit THEN Tail(b) ELSE b
            /\ down' = Append(down, [kind |-> "assign", squawk |-> s, to |-> v])
  BY DEF Assign
<1>2. s \in Squawks
  BY <1>1 DEF Offered
<1>3. [kind |-> "assign", squawk |-> s, to |-> v] \in Order
  BY <1>2 DEF Order
<1>4. down' \in Seq(Order)
  BY <1>1, <1>3, AppendFacts DEF TypeOK
<1>5. blacklist' \in Seq(Squawks) /\ Len(blacklist') <= BlacklistLimit
  <2> DEFINE b == Append(blacklist, s)
  <2>1. b \in Seq(Squawks) /\ Len(b) = Len(blacklist) + 1 /\ Len(blacklist) \in Nat
    BY <1>2, AppendFacts DEF TypeOK
  <2>2. Len(blacklist) <= BlacklistLimit /\ BlacklistLimit \in Nat
    BY ConstantsAssumption DEF TypeOK
  <2>3. blacklist' = IF Len(b) > BlacklistLimit THEN Tail(b) ELSE b
    BY <1>1
  <2> HIDE DEF b
  <2>4. CASE Len(b) > BlacklistLimit
    <3>1. b # <<>>
      BY <2>1
    <3>2. QED
      BY <2>1, <2>2, <2>3, <2>4, <3>1, TailFacts
  <2>5. CASE ~(Len(b) > BlacklistLimit)
    BY <2>1, <2>2, <2>3, <2>5
  <2>6. QED
    BY <2>4, <2>5
<1>6. QED
  BY <1>4, <1>5 DEF Assign, reqVars

\* The idents that answer an order
LEMMA IdentsFacts ==
  ASSUME NEW S \in SUBSET Vehicles, NEW s \in Squawks0, NEW q \in Idents(S, s)
  PROVE  /\ q \in Seq(Packet)
         /\ \A i \in DOMAIN q : q[i].from \in S /\ q[i].squawk = s
<1>1. IsFiniteSet(S) /\ Cardinality(S) \in Nat
  BY ConstantsAssumption, FS_Subset, FS_CardinalityType
<1>2. PICK n : n = Cardinality(S)
  OBVIOUS
<1>3. PICK f \in [1 .. n -> S] :
        q = [i \in DOMAIN f |-> [kind |-> "ident", from |-> f[i], squawk |-> s]]
  BY <1>2 DEF Idents
<1>4. /\ n \in Nat /\ DOMAIN q = 1 .. n
      /\ \A i \in 1 .. n : q[i] = [kind |-> "ident", from |-> f[i], squawk |-> s]
                           /\ f[i] \in S
  BY <1>1, <1>2, <1>3
<1>5. \A i \in 1 .. n : q[i] \in Packet /\ q[i].from \in S /\ q[i].squawk = s
  BY <1>4 DEF Packet
<1>6. q = [i \in 1 .. n |-> q[i]]
  BY <1>3, <1>4
<1>7. q \in [1 .. n -> Packet]
  BY <1>5, <1>6
<1>8. q \in Seq(Packet)
  BY <1>4, <1>7
<1>9. QED
  BY <1>4, <1>5, <1>8

-----------------------------------------------------------------------------
(* The types of the link and of the lists *)

\* What is heard next
LEMMA HeadOfUp ==
  ASSUME TypeOK, up # <<>>
  PROVE  /\ Head(up).from \in Vehicles /\ Head(up).squawk \in Squawks0
         /\ Tail(up) \in Seq(Packet)
         /\ \A i \in DOMAIN Tail(up) : i + 1 \in DOMAIN up /\ Tail(up)[i] = up[i + 1]
         /\ 1 \in DOMAIN up /\ Head(up) = up[1]
<1>1. up \in Seq(Packet)
  BY DEF TypeOK
<1>2. Head(up) \in Packet
  BY <1>1, TailFacts
<1>3. Head(up).from \in Vehicles /\ Head(up).squawk \in Squawks0
  BY <1>2 DEF Packet
<1>4. QED
  BY <1>1, <1>3, TailFacts

\* An order of the GCS
LEMMA HeadOfDown ==
  ASSUME TypeOK, down # <<>>
  PROVE  /\ Tail(down) \in Seq(Order)
         /\ Head(down).kind = "ask" => Head(down).squawk \in Squawks0
         /\ Head(down).kind = "assign"
              => Head(down).squawk \in Squawks /\ Head(down).to \in Vehicles
<1>1. Head(down) \in Order /\ Tail(down) \in Seq(Order)
  BY TailFacts DEF TypeOK
<1>2. PICK d : d = Head(down)
  OBVIOUS
<1>3. d \in Order
  BY <1>1, <1>2
<1>4. \/ d.kind = "ask" /\ d.squawk \in Squawks0
      \/ d.kind = "assign" /\ d.squawk \in Squawks /\ d.to \in Vehicles
  BY <1>3 DEF Order
<1>5. QED
  BY <1>1, <1>2, <1>4

\* An order to ask
LEMMA AskFacts ==
  ASSUME TypeOK, NEW s \in Squawks0,
         down' = Append(down, [kind |-> "ask", squawk |-> s])
  PROVE  down' \in Seq(Order)
<1>1. [kind |-> "ask", squawk |-> s] \in Order
  BY DEF Order
<1>2. QED
  BY <1>1, AppendFacts DEF TypeOK

\* request_ident_schedule() keeps the list without repetition.
LEMMA ScheduleFacts ==
  ASSUME TypeOK, NEW s \in Squawks0, Schedule(s)
  PROVE  /\ reqIdent' \in Seq(Squawks0) /\ IsInjective(reqIdent)'
         /\ reqTimer' = TRUE /\ down' \in Seq(Order)
<1>1. CASE s \in Range(reqIdent)
  BY <1>1 DEF Schedule, TypeOK
<1>2. CASE s \notin Range(reqIdent) /\ ~reqTimer
  BY <1>2, AskFacts DEF Schedule, TypeOK
<1>3. CASE s \notin Range(reqIdent) /\ reqTimer
  <2>1. /\ reqIdent' = Append(reqIdent, s) /\ reqTimer' = TRUE /\ down' = down
        /\ reqIdent \in Seq(Squawks0) /\ down \in Seq(Order)
        /\ \A i, j \in DOMAIN reqIdent : reqIdent[i] = reqIdent[j] => i = j
    BY <1>3 DEF Schedule, TypeOK, IsInjective
  <2>2. \A i \in DOMAIN reqIdent : reqIdent[i] # s
    BY <1>3 DEF Range
  <2>3. /\ reqIdent' \in Seq(Squawks0)
        /\ \A i \in DOMAIN reqIdent' :
             \/ i \in DOMAIN reqIdent /\ reqIdent'[i] = reqIdent[i]
             \/ i = Len(reqIdent) + 1 /\ reqIdent'[i] = s
    BY <2>1, AppendFacts
  <2>4. ASSUME NEW i \in DOMAIN reqIdent', NEW j \in DOMAIN reqIdent',
               reqIdent'[i] = reqIdent'[j]
        PROVE  i = j
    BY <2>1, <2>2, <2>3, <2>4
  <2>5. IsInjective(reqIdent')
    BY <2>4 DEF IsInjective
  <2>6. QED
    BY <2>1, <2>3, <2>5
<1>4. QED
  BY <1>1, <1>2, <1>3 DEF TypeOK

\* The first squawk is taken from the list.
LEMMA RestOfRequests ==
  ASSUME TypeOK, reqIdent # <<>>
  PROVE  /\ Head(reqIdent) \in Squawks0 /\ Tail(reqIdent) \in Seq(Squawks0)
         /\ IsInjective(Tail(reqIdent))
<1>1. /\ reqIdent \in Seq(Squawks0)
      /\ \A i, j \in DOMAIN reqIdent : reqIdent[i] = reqIdent[j] => i = j
  BY DEF TypeOK, IsInjective
<1>2. /\ Head(reqIdent) = reqIdent[1] /\ reqIdent[1] \in Squawks0
      /\ Tail(reqIdent) \in Seq(Squawks0)
      /\ \A i \in DOMAIN Tail(reqIdent) :
           i + 1 \in DOMAIN reqIdent /\ Tail(reqIdent)[i] = reqIdent[i + 1]
  BY <1>1, TailFacts
<1>3. DOMAIN Tail(reqIdent) \subseteq Nat
  BY <1>2
<1>4. ASSUME NEW i \in DOMAIN Tail(reqIdent), NEW j \in DOMAIN Tail(reqIdent),
             Tail(reqIdent)[i] = Tail(reqIdent)[j]
      PROVE  i = j
  <2>1. i + 1 = j + 1
    BY <1>1, <1>2, <1>4
  <2>2. QED
    BY <1>3, <2>1
<1>5. QED
  BY <1>2, <1>4 DEF IsInjective

-----------------------------------------------------------------------------
(* The type of every variable *)

\* Squawks are taken out of the map, and nothing is put in.
Cleared(m) == /\ m \in [Squawks -> Entry]
              /\ \A s \in Squawks : m[s] = squawkMap[s] \/ m[s] = None

\* In a conflict, and for a vehicle that has the wrong byte of the uid, entries
\* are cleared and a squawk is assigned.
LEMMA ClearedFacts ==
  ASSUME TypeOK, NEW s, NEW v, NEW w
  PROVE  /\ Cleared(squawkMap)
         /\ Cleared([squawkMap EXCEPT ![s] = None])
         /\ Cleared(Unmapped([squawkMap EXCEPT ![s] = None], v))
         /\ Cleared(Unmapped(Unmapped([squawkMap EXCEPT ![s] = None], v), w))
<1>1. squawkMap \in [Squawks -> Entry]
  BY DEF TypeOK, Entry
<1>2. PICK m : m = [squawkMap EXCEPT ![s] = None]
  OBVIOUS
<1>3. m \in [Squawks -> Entry] /\ \A t \in Squawks : m[t] = squawkMap[t] \/ m[t] = None
  BY <1>1, <1>2 DEF Entry
<1>4. Entry \cup {None} = Entry
  BY DEF Entry
<1>5. PICK n : n = Unmapped(m, v)
  OBVIOUS
<1>6. n \in [Squawks -> Entry] /\ \A t \in Squawks : n[t] = m[t] \/ n[t] = None
  BY <1>3, <1>4, <1>5, UnmappedFacts
<1>7. PICK o : o = Unmapped(n, w)
  OBVIOUS
<1>8. o \in [Squawks -> Entry] /\ \A t \in Squawks : o[t] = n[t] \/ o[t] = None
  BY <1>4, <1>6, <1>7, UnmappedFacts
<1>9. \A t \in Squawks : n[t] = squawkMap[t] \/ n[t] = None
  BY <1>3, <1>6
<1>10. \A t \in Squawks : o[t] = squawkMap[t] \/ o[t] = None
  BY <1>8, <1>9
<1>11. QED
  BY <1>1, <1>2, <1>3, <1>5, <1>6, <1>7, <1>8, <1>9, <1>10 DEF Cleared

\* The two things an ident leads to: a squawk is assigned, or the vehicle is
\* entered in the map.
LEMMA IdentFacts ==
  ASSUME TypeOK, HearIdent
  PROVE  \E v \in Vehicles :
           \/ \E m : Cleared(m) /\ Assign(v, m)
           \/ /\ Head(up).squawk \in Squawks
              /\ squawkMap[Head(up).squawk] \in {None, v}
              /\ Identified(v, Head(up).squawk)
<1>1. PICK v, s : v = Head(up).from /\ s = Head(up).squawk
  OBVIOUS
<1>2. up # <<>> /\ v \in Vehicles /\ s \in Squawks0
  BY <1>1, HeadOfUp DEF HearIdent
<1>3. IF s = 0 THEN Assign(v, squawkMap)
      ELSE IF Fits(v, s) THEN Identified(v, s) ELSE Conflict(v, s)
  BY <1>1 DEF HearIdent
<1>4. CASE s = 0
  BY <1>2, <1>3, <1>4, ClearedFacts
<1>5. CASE s # 0 /\ Fits(v, s)
  <2>1. s \in Squawks
    BY <1>2, <1>5 DEF Squawks0
  <2>2. QED
    BY <1>1, <1>2, <1>3, <1>5, <2>1 DEF Fits
<1>6. CASE s # 0 /\ ~Fits(v, s)
  <2>1. Conflict(v, s)
    BY <1>3, <1>6
  <2>2. PICK m : /\ m = IF v \in known
                          THEN Unmapped(Unmapped([squawkMap EXCEPT ![s] = None], v),
                                        squawkMap[s])
                          ELSE [squawkMap EXCEPT ![s] = None]
                 /\ Assign(v, m)
    BY <2>1 DEF Conflict
  <2>3. Cleared(m)
    BY <2>2, ClearedFacts
  <2>4. QED
    BY <1>2, <2>2, <2>3
<1>7. QED
  BY <1>4, <1>5, <1>6

\* What an assignment keeps
LEMMA AssignTypes ==
  ASSUME TypeOK, NEW v \in Vehicles, NEW m, Cleared(m), Assign(v, m),
         UNCHANGED <<carried, removing, deleted, twice, crashed, events>>,
         up' \in Seq(Packet)
  PROVE  TypeOK'
<1>1. m \in [Squawks -> Entry]
  BY DEF Cleared
<1>2. /\ squawkMap' = m
      /\ blacklist' \in Seq(Squawks) /\ Len(blacklist') <= BlacklistLimit
      /\ down' \in Seq(Order)
      /\ UNCHANGED <<known, squawk, reqIdent, reqTimer>>
  BY <1>1, AssignFacts
<1>3. squawkMap' \in [Squawks -> known' \cup {None} \cup 1 .. deleted']
  BY <1>1, <1>2 DEF Entry
<1>4. QED
  BY <1>2, <1>3 DEF TypeOK

\* What an identification keeps
LEMMA IdentifiedTypes ==
  ASSUME TypeOK, NEW v \in Vehicles, NEW s \in Squawks, Identified(v, s),
         UNCHANGED <<carried, removing, deleted, twice, crashed, events>>,
         up' \in Seq(Packet)
  PROVE  TypeOK'
<1>1. s \in Squawks0 /\ s # 0
  BY ConstantsAssumption DEF Squawks0
<1>2. /\ squawkMap' = [squawkMap EXCEPT ![s] = v]
      /\ known' = known \cup {v}
      /\ squawk' = [squawk EXCEPT ![v] = s]
      /\ UNCHANGED <<blacklist, reqTimer, down>>
  BY DEF Identified
<1>3. squawkMap' \in [Squawks -> known' \cup {None} \cup 1 .. deleted']
  BY <1>2 DEF TypeOK
<1>4. squawk' \in [Vehicles -> Squawks0] /\ \A w \in known' : squawk'[w] # 0
  BY <1>1, <1>2 DEF TypeOK
<1>5. removing' \subseteq known' /\ known' \subseteq Vehicles
  BY <1>2 DEF TypeOK
<1>6. /\ reqIdent' \in Seq(Squawks0) /\ IsInjective(reqIdent')
      /\ reqIdent' # <<>> => reqIdent # <<>>
  <2>1. reqIdent' = reqIdent \/ reqIdent' = Without(reqIdent, s)
    BY DEF Identified
  <2>2. Without(reqIdent, s) \in Seq(Squawks0) /\ IsInjective(Without(reqIdent, s))
    BY WithoutFacts DEF TypeOK
  <2>3. reqIdent = <<>> => Without(reqIdent, s) = reqIdent
    BY DEF Without, Range
  <2>4. QED
    BY <2>1, <2>2, <2>3 DEF TypeOK
<1>7. QED
  BY <1>2, <1>3, <1>4, <1>5, <1>6 DEF TypeOK

\* An entry of the object that is deleted becomes its number.
LEMMA DeleteFacts ==
  ASSUME TypeOK, NEW v \in Vehicles, Delete(v)
  PROVE  /\ deleted' = deleted + 1 /\ deleted' \in Nat
         /\ known' = known \ {v} /\ DOMAIN squawkMap' = Squawks
         /\ squawkMap' = [s \in Squawks |-> squawkMap'[s]]
         /\ \A s \in Squawks :
              \/ squawkMap'[s] = None
              \/ squawkMap'[s] = squawkMap[s] /\ squawkMap[s] # v
              \/ squawkMap'[s] = deleted'
                   /\ \E t \in Squawks : t # s /\ squawkMap[t] = v /\ squawkMap[s] = v
<1>1. squawkMap \in [Squawks -> Entry]
  BY DEF TypeOK, Entry
<1>2. PICK m : m = Removed(v)
  OBVIOUS
<1>3. /\ m \in [Squawks -> Entry \cup {None}]
      /\ \A s \in Squawks : m[s] = squawkMap[s] \/ m[s] = None
      /\ v # None /\ (\A s, t \in SquawksOf(squawkMap, v) : s = t)
           => \A s \in Squawks : m[s] # v
  BY <1>1, <1>2, UnmappedFacts DEF Removed
<1>4. v # None
  BY ConstantsAssumption
<1>5. squawkMap' = [s \in Squawks |-> IF m[s] = v THEN deleted' ELSE m[s]]
  BY <1>2 DEF Delete
<1>6. ASSUME NEW s \in Squawks, m[s] = v
      PROVE  \E t \in Squawks : t # s /\ squawkMap[t] = v /\ squawkMap[s] = v
  <2>1. squawkMap[s] = v
    BY <1>3, <1>4, <1>6
  <2>2. \E a, b \in SquawksOf(squawkMap, v) : a # b
    BY <1>3, <1>4, <1>6
  <2>3. PICK a \in Squawks, b \in Squawks : a # b /\ squawkMap[a] = v /\ squawkMap[b] = v
    BY <2>2 DEF SquawksOf
  <2>4. QED
    BY <2>1, <2>3
<1>7. deleted' = deleted + 1 /\ deleted' \in Nat /\ known' = known \ {v}
  BY DEF Delete, TypeOK
<1>8. QED
  BY <1>3, <1>5, <1>6, <1>7

\* The deletion of a vehicle keeps the types.
LEMMA DeleteTypes ==
  ASSUME TypeOK, NEW v \in Vehicles, Delete(v)
  PROVE  TypeOK'
<1>1. squawkMap' \in [Squawks -> known' \cup {None} \cup 1 .. deleted']
  <2>1. ASSUME NEW s \in Squawks
        PROVE  squawkMap'[s] \in known' \cup {None} \cup 1 .. deleted'
    <3>1. squawkMap[s] \in known \cup {None} \cup 1 .. deleted /\ deleted \in Nat
      BY DEF TypeOK
    <3>2. deleted' \in 1 .. deleted' /\ 1 .. deleted \subseteq 1 .. deleted'
      BY <3>1, DeleteFacts
    <3>3. QED
      BY <3>1, <3>2, DeleteFacts
  <2>2. QED
    BY <2>1, DeleteFacts
<1>2. /\ squawk' \in [Vehicles -> Squawks0] /\ \A w \in known' : squawk'[w] # 0
      /\ removing' \subseteq known' /\ known' \subseteq Vehicles
  BY DEF Delete, TypeOK, Squawks0
<1>3. /\ UNCHANGED <<carried, blacklist, reqVars, linkVars, crashed, events>>
      /\ twice' \in BOOLEAN
  BY DEF Delete, TypeOK
<1>4. deleted' \in Nat
  BY DeleteFacts
<1>5. QED
  BY <1>1, <1>2, <1>3, <1>4 DEF TypeOK, reqVars, linkVars

\* What is counted, is bounded.
LEMMA EventFacts ==
  ASSUME TypeOK, Events
  PROVE  events \in Nat /\ events' = events + 1 /\ events' \in 0 .. MaxEvents
<1>1. ASSUME NEW v, RemoveVehicle(v)  PROVE Event
  BY <1>1 DEF RemoveVehicle
<1>2. ASSUME NEW v, NEW s, Changes(v, s)  PROVE Event
  BY <1>2 DEF Changes
<1>3. ASSUME NEW s, OtherAsks(s)  PROVE Event
  BY <1>3 DEF OtherAsks
<1>4. Lose => Event
  BY DEF Lose
<1>5. Event
  BY <1>1, <1>2, <1>3, <1>4 DEF Events
<1>6. events \in 0 .. MaxEvents /\ MaxEvents \in Nat
  BY ConstantsAssumption DEF TypeOK
<1>7. QED
  BY <1>5, <1>6 DEF Event

\* Every step keeps the types.
LEMMA NextTypes ==
  ASSUME TypeOK, [Next]_vars  PROVE TypeOK'
<1>1. CASE HearIdent
  <2>1. /\ UNCHANGED <<carried, removing, deleted, twice, crashed, events>>
        /\ up' \in Seq(Packet)
    BY <1>1, HeadOfUp DEF HearIdent
  <2>2. QED
    BY <1>1, <2>1, IdentFacts, AssignTypes, IdentifiedTypes
<1>2. CASE HearData
  <2>1. /\ UNCHANGED <<carried, removing, deleted, twice, events>>
        /\ up' \in Seq(Packet) /\ Head(up).squawk \in Squawks0
        /\ UNCHANGED <<known, squawk, squawkMap, blacklist>>
    BY <1>2, HeadOfUp DEF HearData
  <2>2. \/ Schedule(Head(up).squawk) /\ UNCHANGED crashed
        \/ UNCHANGED <<reqVars, down>> /\ (crashed' = TRUE \/ UNCHANGED crashed)
    BY <1>2 DEF HearData
  <2>3. CASE Schedule(Head(up).squawk) /\ UNCHANGED crashed
    <3>1. /\ reqIdent' \in Seq(Squawks0) /\ IsInjective(reqIdent)'
          /\ reqTimer' = TRUE /\ down' \in Seq(Order)
      BY <2>1, <2>3, ScheduleFacts
    <3>2. QED
      BY <2>1, <2>3, <3>1 DEF TypeOK
  <2>4. CASE UNCHANGED <<reqVars, down>> /\ (crashed' = TRUE \/ UNCHANGED crashed)
    BY <2>1, <2>4 DEF TypeOK, reqVars
  <2>5. QED
    BY <2>2, <2>3, <2>4
<1>3. CASE HearMismatch
  <2>1. /\ UNCHANGED <<carried, removing, deleted, twice, crashed, events>>
        /\ up' \in Seq(Packet)
    BY <1>3, HeadOfUp DEF HearMismatch
  <2>2. PICK v \in Vehicles : Mismatch(v)
    BY <1>3 DEF HearMismatch
  <2>3. QED
    BY <2>1, <2>2, ClearedFacts, AssignTypes DEF Mismatch
<1>4. CASE RequestNext
  <2>1. UNCHANGED <<carried, known, squawk, removing, deleted, squawkMap, blacklist,
                    up, twice, crashed, events>>
    BY <1>4 DEF RequestNext
  <2>2. CASE reqIdent = <<>>
    <3>1. reqTimer' = FALSE /\ UNCHANGED <<reqIdent, down>>
      BY <1>4, <2>2 DEF RequestNext
    <3>2. QED
      BY <2>1, <2>2, <3>1 DEF TypeOK
  <2>3. CASE reqIdent # <<>>
    <3>1. /\ down' = Append(down, [kind |-> "ask", squawk |-> Head(reqIdent)])
          /\ reqIdent' = Tail(reqIdent) /\ reqTimer' = reqTimer /\ reqTimer
      BY <1>4, <2>3 DEF RequestNext
    <3>2. /\ reqIdent' \in Seq(Squawks0) /\ IsInjective(reqIdent')
          /\ down' \in Seq(Order)
      BY <2>3, <3>1, RestOfRequests, AskFacts
    <3>3. QED
      BY <2>1, <3>1, <3>2 DEF TypeOK
  <2>4. QED
    BY <2>2, <2>3
<1>5. ASSUME NEW v \in Vehicles, Delete(v)  PROVE TypeOK'
  BY <1>5, DeleteTypes
<1>6. CASE VehicleHears
  <2>1. PICK d : d = Head(down)
    OBVIOUS
  <2>2. /\ down' \in Seq(Order) /\ UNCHANGED <<gcsVars, events>>
        /\ d.kind = "ask" => d.squawk \in Squawks0
        /\ d.kind = "assign" => d.squawk \in Squawks /\ d.to \in Vehicles
    BY <1>6, <2>1, HeadOfDown DEF VehicleHears
  <2>3. ASSUME NEW S \in SUBSET Vehicles, NEW q \in Idents(S, d.squawk),
               d.squawk \in Squawks0, up' = up \o q
        PROVE  up' \in Seq(Packet)
    BY <2>3, IdentsFacts, ConcatFacts DEF TypeOK
  <2>4. CASE d.kind = "ask" /\ UNCHANGED carried
    <3>1. PICK q \in Idents({v \in Vehicles : carried[v] = d.squawk}, d.squawk) :
            up' = up \o q
      BY <1>6, <2>1, <2>4 DEF VehicleHears
    <3>2. up' \in Seq(Packet)
      BY <2>2, <2>3, <2>4, <3>1
    <3>3. QED
      BY <2>2, <2>4, <3>2 DEF TypeOK, gcsVars, reqVars
  <2>5. CASE d.kind = "assign" /\ carried' = [carried EXCEPT ![d.to] = d.squawk]
    <3>1. PICK q \in Idents({d.to}, d.squawk) : up' = up \o q
      BY <1>6, <2>1, <2>5 DEF VehicleHears
    <3>2. up' \in Seq(Packet)
      BY <2>2, <2>3, <2>5, <3>1 DEF Squawks0
    <3>3. carried' \in [Vehicles -> Squawks0]
      BY <2>2, <2>5 DEF TypeOK, Squawks0
    <3>4. QED
      BY <2>2, <3>2, <3>3 DEF TypeOK, gcsVars, reqVars
  <2>6. QED
    BY <1>6, <2>1, <2>4, <2>5 DEF VehicleHears
<1>7. ASSUME NEW v \in Vehicles, Send(v)  PROVE TypeOK'
  <2>1. [kind |-> "data", from |-> v, squawk |-> carried[v]] \in Packet
    BY DEF Packet, TypeOK
  <2>2. up' \in Seq(Packet)
    BY <1>7, <2>1, AppendFacts DEF Send, TypeOK
  <2>3. UNCHANGED <<carried, down, gcsVars, events>>
    BY <1>7 DEF Send
  <2>4. QED
    BY <2>2, <2>3 DEF TypeOK, gcsVars, reqVars
<1>8. CASE Events
  <2>1. events' \in 0 .. MaxEvents
    BY <1>8, EventFacts
  <2>2. ASSUME NEW v \in Vehicles, RemoveVehicle(v)  PROVE TypeOK'
    BY <2>1, <2>2 DEF RemoveVehicle, TypeOK, linkVars, reqVars
  <2>3. ASSUME NEW v \in Vehicles, NEW s \in Squawks0, Changes(v, s)  PROVE TypeOK'
    BY <2>1, <2>3 DEF Changes, TypeOK, linkVars, gcsVars, reqVars
  <2>4. ASSUME NEW s \in Squawks, OtherAsks(s)  PROVE TypeOK'
    <3>1. down' \in Seq(Order)
      BY <2>4, AskFacts DEF OtherAsks, Squawks0
    <3>2. QED
      BY <2>1, <2>4, <3>1 DEF OtherAsks, TypeOK, gcsVars, reqVars
  <2>5. CASE Lose
    <3>1. up' \in Seq(Packet) /\ down' \in Seq(Order)
      <4>1. CASE up # <<>> /\ up' = Tail(up) /\ UNCHANGED down
        BY <4>1, HeadOfUp DEF TypeOK
      <4>2. CASE down # <<>> /\ down' = Tail(down) /\ UNCHANGED up
        BY <4>2, HeadOfDown DEF TypeOK
      <4>3. QED
        BY <2>5, <4>1, <4>2 DEF Lose
    <3>2. QED
      BY <2>1, <2>5, <3>1 DEF Lose, TypeOK, gcsVars, reqVars
  <2>6. QED
    BY <1>8, <2>2, <2>3, <2>4, <2>5 DEF Events
<1>9. CASE UNCHANGED vars
  BY <1>9 DEF vars, gcsVars, reqVars, linkVars, TypeOK
<1>10. QED
  BY <1>1, <1>2, <1>3, <1>4, <1>5, <1>6, <1>7, <1>8, <1>9 DEF Next, Receive

-----------------------------------------------------------------------------
(* The map names living vehicles *)

\* A vehicle with no more than one entry
LEMMA OneSquawk ==
  ASSUME NEW v, ~(Cardinality(SquawksOf(squawkMap, v)) > 1)
  PROVE  \A a, b \in SquawksOf(squawkMap, v) : a = b
<1>1. PICK T : T = SquawksOf(squawkMap, v)
  OBVIOUS
<1>2. IsFiniteSet(T) /\ Cardinality(T) \in Nat
  BY <1>1, ConstantsAssumption, FS_Subset, FS_CardinalityType DEF SquawksOf
<1>3. Cardinality(T) = 0 \/ Cardinality(T) = 1
  BY <1>1, <1>2
<1>4. T = {} \/ \E x : T = {x}
  BY <1>2, <1>3, FS_EmptySet, FS_Singleton
<1>5. QED
  BY <1>1, <1>4

\* No step enters anything but a known vehicle, and a deletion leaves an entry
\* only if there were two.
LEMMA NextLiving ==
  ASSUME TypeOK, MapNamesTheLiving, [Next]_vars  PROVE MapNamesTheLiving'
<1>1. ASSUME NEW m, Cleared(m), squawkMap' = m, UNCHANGED <<known, twice>>
      PROVE  MapNamesTheLiving'
  BY <1>1 DEF Cleared, MapNamesTheLiving
<1>2. CASE HearIdent
  <2>1. twice' = twice
    BY <1>2 DEF HearIdent
  <2>2. PICK v \in Vehicles :
           \/ \E m : Cleared(m) /\ Assign(v, m)
           \/ /\ Head(up).squawk \in Squawks
              /\ Identified(v, Head(up).squawk)
    BY <1>2, IdentFacts
  <2>3. CASE \E m : Cleared(m) /\ Assign(v, m)
    BY <1>1, <2>1, <2>3 DEF Assign
  <2>4. CASE Head(up).squawk \in Squawks /\ Identified(v, Head(up).squawk)
    <3>1. PICK s \in Squawks : Identified(v, s)
      BY <2>4
    <3>2. squawkMap' = [squawkMap EXCEPT ![s] = v] /\ known' = known \cup {v}
      BY <3>1 DEF Identified
    <3>3. squawkMap = [t \in Squawks |-> squawkMap[t]]
      BY DEF TypeOK
    <3>4. QED
      BY <2>1, <3>2, <3>3 DEF MapNamesTheLiving
  <2>5. QED
    BY <2>2, <2>3, <2>4
<1>3. CASE HearMismatch
  <2>1. PICK v : Mismatch(v)
    BY <1>3 DEF HearMismatch
  <2>2. PICK m : m = Unmapped([squawkMap EXCEPT ![squawk[v]] = None], v)
    OBVIOUS
  <2>3. Cleared(m) /\ squawkMap' = m /\ UNCHANGED known
    BY <2>1, <2>2, ClearedFacts DEF Mismatch, Assign
  <2>4. QED
    BY <1>1, <1>3, <2>3 DEF HearMismatch
<1>4. ASSUME NEW v \in Vehicles, Delete(v)  PROVE MapNamesTheLiving'
  <2>1. CASE twice'
    BY <2>1 DEF MapNamesTheLiving
  <2>2. CASE ~twice'
    <3>1. ~twice /\ ~(Cardinality(SquawksOf(squawkMap, v)) > 1)
      BY <1>4, <2>2 DEF Delete
    <3>2. \A a, b \in SquawksOf(squawkMap, v) : a = b
      BY <3>1, OneSquawk
    <3>3. \A s, t \in Squawks : squawkMap[s] = v /\ squawkMap[t] = v => s = t
      BY <3>2 DEF SquawksOf
    <3>4. ASSUME NEW s \in Squawks  PROVE squawkMap'[s] \in known' \cup {None}
      <4>1. squawkMap[s] \in known \cup {None}
        BY <3>1 DEF MapNamesTheLiving
      <4>2. squawkMap'[s] = None \/ (squawkMap'[s] = squawkMap[s] /\ squawkMap[s] # v)
        BY <1>4, <3>3, DeleteFacts
      <4>3. QED
        BY <1>4, <4>1, <4>2, DeleteFacts
    <3>5. QED
      BY <3>4 DEF MapNamesTheLiving
  <2>3. QED
    BY <2>1, <2>2
<1>5. CASE \/ HearData \/ RequestNext \/ VehicleHears \/ UNCHANGED vars \/ Events
           \/ \E v \in Vehicles : Send(v)
  <2>1. UNCHANGED <<squawkMap, known, twice>>
    BY <1>5 DEF HearData, RequestNext, VehicleHears, Send, Events, RemoveVehicle,
       Changes, OtherAsks, Lose, vars, gcsVars
  <2>2. QED
    BY <2>1 DEF MapNamesTheLiving
<1>6. QED
  BY <1>2, <1>3, <1>4, <1>5 DEF Next, Receive

-----------------------------------------------------------------------------
(* What is settled stays *)

\* One step of a settled system, but for the user and for what is outside
LEMMA SettledStep ==
  ASSUME TypeOK, Settled, [Next]_vars, events' = events, deleted' = deleted
  PROVE  Settled'
<1>1. /\ \A v \in Vehicles : carried[v] # 0 /\ squawkMap[carried[v]] = v
      /\ \A i \in DOMAIN up : up[i].squawk = carried[up[i].from]
      /\ \A i \in DOMAIN down : down[i].kind = "ask"
  BY DEF Settled
<1>2. up \in Seq(Packet) /\ down \in Seq(Order) /\ carried \in [Vehicles -> Squawks0]
  BY DEF TypeOK
\* What is heard is said with the squawk that the vehicle has.
<1>3. ASSUME up # <<>>
      PROVE  /\ Head(up).from \in Vehicles
             /\ Head(up).squawk = carried[Head(up).from]
             /\ Head(up).squawk # 0 /\ Head(up).squawk \in Squawks
             /\ squawkMap[Head(up).squawk] = Head(up).from
             /\ \A i \in DOMAIN Tail(up) : Tail(up)[i].squawk = carried[Tail(up)[i].from]
  BY <1>1, <1>3, HeadOfUp DEF Squawks0
<1>4. \A v \in Vehicles : v # None /\ v \notin Nat
  BY ConstantsAssumption
<1>5. ASSUME NEW s, down' = Append(down, [kind |-> "ask", squawk |-> s])
      PROVE  \A i \in DOMAIN down' : down'[i].kind = "ask"
  BY <1>1, <1>2, <1>5
<1>6. CASE HearIdent
  <2>1. PICK v, s : v = Head(up).from /\ s = Head(up).squawk
    OBVIOUS
  <2>2. /\ up # <<>> /\ up' = Tail(up) /\ carried' = carried
        /\ IF s = 0 THEN Assign(v, squawkMap)
           ELSE IF Fits(v, s) THEN Identified(v, s) ELSE Conflict(v, s)
    BY <1>6, <2>1 DEF HearIdent
  <2>3. s # 0 /\ s \in Squawks /\ squawkMap[s] = v /\ v \in Vehicles
    BY <1>3, <2>1, <2>2
  <2>4. Identified(v, s)
    BY <2>2, <2>3 DEF Fits
  <2>5. squawkMap' = [squawkMap EXCEPT ![s] = v] /\ down' = down
    BY <2>4 DEF Identified
  <2>6. squawkMap' = squawkMap
    BY <2>3, <2>5 DEF TypeOK
  <2>7. QED
    BY <1>1, <1>3, <2>2, <2>5, <2>6 DEF Settled
<1>7. CASE HearData
  <2>1. Sender(Head(up)) = Head(up).from /\ Head(up).from \in Vehicles
    BY <1>3, <1>7 DEF HearData, Sender
  <2>2. UNCHANGED <<squawkMap, down, carried>> /\ up # <<>> /\ up' = Tail(up)
    BY <1>4, <1>7, <2>1 DEF HearData
  <2>3. QED
    BY <1>1, <1>3, <2>2 DEF Settled
<1>8. CASE HearMismatch
  BY <1>3, <1>8 DEF HearMismatch, Sender
<1>9. CASE RequestNext
  <2>1. UNCHANGED <<squawkMap, up, carried>>
    BY <1>9 DEF RequestNext
  <2>2. down' = down \/ \E s : down' = Append(down, [kind |-> "ask", squawk |-> s])
    BY <1>9 DEF RequestNext
  <2>3. \A i \in DOMAIN down' : down'[i].kind = "ask"
    BY <1>1, <1>5, <2>2
  <2>4. QED
    BY <1>1, <2>1, <2>3 DEF Settled
<1>10. ASSUME NEW v \in Vehicles, Delete(v)  PROVE FALSE
  BY <1>10 DEF Delete, TypeOK
<1>11. CASE VehicleHears
  <2>1. PICK d : d = Head(down)
    OBVIOUS
  <2>2. /\ d.kind = "ask" /\ d.squawk \in Squawks0 /\ down' = Tail(down)
        /\ \A i \in DOMAIN down' : down'[i].kind = "ask"
    BY <1>1, <1>2, <1>11, <2>1, TailFacts, HeadOfDown DEF VehicleHears
  <2>3. UNCHANGED <<gcsVars, events, carried>>
    BY <1>11, <2>1, <2>2 DEF VehicleHears
  <2>4. PICK S \in SUBSET Vehicles : /\ \A v \in S : carried[v] = d.squawk
                                     /\ \E q \in Idents(S, d.squawk) : up' = up \o q
    <3> DEFINE S == {v \in Vehicles : carried[v] = d.squawk}
    <3>1. S \in SUBSET Vehicles /\ \A v \in S : carried[v] = d.squawk
      OBVIOUS
    <3>2. \E q \in Idents(S, d.squawk) : up' = up \o q
      BY <1>11, <2>1, <2>2 DEF VehicleHears
    <3> HIDE DEF S
    <3>3. QED
      BY <3>1, <3>2
  <2>5. PICK q \in Idents(S, d.squawk) : up' = up \o q
    BY <2>4
  <2>6. /\ q \in Seq(Packet)
        /\ \A i \in DOMAIN q : q[i].squawk = d.squawk /\ carried[q[i].from] = d.squawk
    <3>1. d.squawk \in Squawks0
      BY <2>2
    <3>2. q \in Seq(Packet) /\ \A i \in DOMAIN q : q[i].from \in S /\ q[i].squawk = d.squawk
      BY <3>1, IdentsFacts
    <3>3. QED
      BY <2>4, <3>2
  <2>7. \A i \in DOMAIN up' : \/ i \in DOMAIN up /\ up'[i] = up[i]
                              \/ i - Len(up) \in DOMAIN q /\ up'[i] = q[i - Len(up)]
    BY <1>2, <2>5, <2>6, ConcatFacts
  <2>8. \A i \in DOMAIN up' : up'[i].squawk = carried[up'[i].from]
    BY <1>1, <2>6, <2>7
  <2>9. QED
    BY <1>1, <2>2, <2>3, <2>8 DEF Settled, gcsVars
<1>12. ASSUME NEW v \in Vehicles, Send(v)  PROVE Settled'
  <2>1. PICK p : p = [kind |-> "data", from |-> v, squawk |-> carried[v]]
    OBVIOUS
  <2>2. p \in Packet /\ p.squawk = carried[p.from]
    BY <1>2, <2>1 DEF Packet
  <2>3. up' = Append(up, p) /\ UNCHANGED <<carried, down, gcsVars>>
    BY <1>12, <2>1 DEF Send
  <2>4. \A i \in DOMAIN up' : up'[i].squawk = carried[up'[i].from]
    BY <1>1, <1>2, <2>2, <2>3, AppendFacts
  <2>5. QED
    BY <1>1, <2>3, <2>4 DEF Settled, gcsVars
<1>13. CASE Events
  <2>1. events \in Nat /\ events' = events + 1
    BY <1>13, EventFacts
  <2>2. QED
    BY <2>1
<1>14. CASE UNCHANGED vars
  BY <1>1, <1>14 DEF vars, gcsVars, linkVars, Settled
<1>15. QED
  BY <1>6, <1>7, <1>8, <1>9, <1>10, <1>11, <1>12, <1>13, <1>14 DEF Next, Receive

-----------------------------------------------------------------------------
(* The theorems *)

\* The inductive invariant holds in the beginning.
LEMMA InitInv == Init => IInv
<1> SUFFICES ASSUME Init  PROVE IInv
  OBVIOUS
<1>1. /\ up \in Seq(Packet) /\ down \in Seq(Order) /\ blacklist \in Seq(Squawks)
      /\ reqIdent \in Seq(Squawks0) /\ Len(blacklist) = 0 /\ DOMAIN reqIdent = {}
      /\ reqIdent = <<>>
  BY DEF Init
<1>2. IsInjective(reqIdent)
  BY <1>1 DEF IsInjective
<1>3. TypeOK
  <2>1. /\ carried \in [Vehicles -> Squawks0] /\ known = {} /\ removing = {}
        /\ squawk = [v \in Vehicles |-> 0] /\ deleted = 0
        /\ squawkMap = [s \in Squawks |-> None] /\ reqTimer = FALSE
        /\ twice = FALSE /\ crashed = FALSE /\ events = 0
    BY DEF Init
  <2>2. squawk \in [Vehicles -> Squawks0]
    BY <2>1 DEF Squawks0
  <2>3. squawkMap \in [Squawks -> known \cup {None} \cup 1 .. deleted]
    BY <2>1
  <2>4. Len(blacklist) <= BlacklistLimit /\ events \in 0 .. MaxEvents
    BY <1>1, <2>1, ConstantsAssumption
  <2>5. QED
    BY <1>1, <1>2, <2>1, <2>2, <2>3, <2>4 DEF TypeOK
<1>4. QED
  BY <1>3 DEF Init, IInv, MapNamesTheLiving

\* It holds in every reachable state.
LEMMA Invariance == Spec => []IInv
<1>1. IInv /\ [Next]_vars => IInv'
  BY NextTypes, NextLiving DEF IInv
<1>2. QED
  BY InitInv, <1>1, PTL DEF Spec

\* Every variable keeps its type: among others, no squawk waits twice to be
\* asked for, and the timer runs while any waits.
THEOREM TypeCorrect == Spec => []TypeOK
<1>1. IInv => TypeOK
  BY DEF IInv
<1>2. QED
  BY <1>1, Invariance, PTL

\* The map names vehicles that are there, unless one had two entries when it
\* was deleted.
THEOREM LivingCorrect == Spec => []MapNamesTheLiving
<1>1. IInv => MapNamesTheLiving
  BY DEF IInv
<1>2. QED
  BY <1>1, Invariance, PTL

\* When every vehicle has a squawk of its own, nothing that is heard makes the
\* GCS reassign one.
THEOREM StaysCorrect == Spec => SettledStays
<1>1. IInv /\ [Next]_vars => [Settled /\ events' = events /\ deleted' = deleted => Settled']_vars
  BY SettledStep DEF IInv
<1>2. QED
  BY <1>1, Invariance, PTL DEF Spec, SettledStays
=============================================================================
