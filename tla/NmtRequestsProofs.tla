------------------------- MODULE NmtRequestsProofs -------------------------
(***************************************************************************)
(* Proofs about NmtRequests, for every set of requests and nodes and every *)
(* retry budget.                                                           *)
(*                                                                         *)
(* Seven operations take requests out of the lists by Delete and Release   *)
(* (in their different orders in the code); ReleaseKeepsInv is proved once *)
(* for all of them.                                                        *)
(***************************************************************************)
EXTENDS NmtRequests, NmtSweep, TLAPS

\* No number is larger than the number of appends, and those of the requests in
\* the lists are distinct.
SinceInv ==
    /\ \A r \in Reqs : since[r] <= appended
    /\ \A r, x \in requests : since[r] = since[x] => r = x

\* What is known of a request by the stage of its life
LifeInv ==
    \A r \in Reqs :
       /\ stage[r] \in {"none", "created"} => ~active[r]
       /\ stage[r] \in {"created", "queued"}
             => node[r] \in Nodes /\ kind[r] \in Kinds

\* The inductive invariant
IInv ==
    /\ TypeOK
    /\ ListsAgree
    /\ SinceInv
    /\ LifeInv
    /\ SequencerInv
    /\ NoDuplicates
    /\ FinishedOnce

-----------------------------------------------------------------------------
\* The initial state satisfies the inductive invariant.
LEMMA InitInv == Init => IInv
<1> SUFFICES ASSUME Init  PROVE IInv
  OBVIOUS
<1>1. TypeOK
  <2>1. /\ stage \in [Reqs -> Stages]
        /\ node \in [Reqs -> Nodes \cup {None}]
        /\ kind \in [Reqs -> Kinds \cup {None}]
        /\ cid \in [Reqs -> Names \cup {None}]
    BY DEF Init, Stages
  <2>2. /\ active \in [Reqs -> BOOLEAN]
        /\ steps \in [Reqs -> 0 .. MaxSteps]
        /\ ended \in [Reqs -> Nat]
        /\ since \in [Reqs -> Nat]
    BY ConstantsAssumption DEF Init
  <2>3. /\ nodeRequests \in [Nodes -> SUBSET Reqs]
        /\ requests \in SUBSET Reqs
        /\ appended \in Nat
    BY DEF Init
  <2>4. request \in Reqs \cup {None} /\ reqNext \in BOOLEAN
                                    /\ reqTimeout \in BOOLEAN
                                    /\ crashed \in BOOLEAN
    BY DEF Init
  <2>5. retry \in 0 .. Retries
    BY ConstantsAssumption DEF Init
  <2>6. QED
    BY <2>1, <2>2, <2>3, <2>4, <2>5 DEF TypeOK
<1>2. ListsAgree
  BY DEF Init, ListsAgree, OfNode
<1>3. SinceInv /\ NoDuplicates
  BY DEF Init, SinceInv, NoDuplicates
<1>4. LifeInv /\ FinishedOnce
  BY DEF Init, LifeInv, FinishedOnce
<1>5. SequencerInv
  BY DEF Init, SequencerInv, CurrentIsOldest, NoStall, OneOnAir,
         TimeoutHasOwner
<1>6. QED
  BY <1>1, <1>2, <1>3, <1>4, <1>5 DEF IInv

\* Taking requests out of the sequencer keeps its invariant, provided that the
\* timers of a request that stays current are left alone.
LEMMA ReleaseSequencer ==
  ASSUME TypeOK, SequencerInv,
         NEW gone \in SUBSET Reqs, NEW armed \in BOOLEAN, NEW tmo \in BOOLEAN,
         request # None /\ request \notin gone => armed = reqNext /\ tmo = reqTimeout,
         Release(gone, armed, tmo),
         \A r \in Reqs \ gone : active'[r] = active[r],
         UNCHANGED since
  PROVE  SequencerInv'
<1>1. CASE request # None /\ request \notin gone
  <2>1. UNCHANGED <<request, retry, reqNext, reqTimeout>>
    BY <1>1 DEF Release
  <2>2. requests' = requests \ gone /\ request \in Reqs
    BY <1>1 DEF Release, IInv, TypeOK
  <2>3. active'[request] = active[request]
    BY <1>1, <2>2
  <2>4. QED
    BY <1>1, <2>1, <2>2, <2>3, ConstantsAssumption
    DEF IInv, TypeOK, SequencerInv, CurrentIsOldest, NoStall, OneOnAir,
        TimeoutHasOwner, IsFirst
<1>2. CASE request = None \/ request \in gone
  <2>1. /\ requests' = requests \ gone
        /\ RequestNext(requests \ gone, armed)
        /\ reqTimeout' = FALSE
    BY <1>2 DEF Release
  <2>2. \A r \in requests' : ~active'[r]
    BY <1>2, <2>1, ConstantsAssumption
    DEF IInv, TypeOK, SequencerInv, OneOnAir
  <2>3. CASE requests \ gone = {}
    BY <2>1, <2>2, <2>3
    DEF RequestNext, SequencerInv, CurrentIsOldest, NoStall, OneOnAir,
        TimeoutHasOwner
  <2>4. CASE requests \ gone # {}
    <3>1. PICK r \in requests \ gone :
             IsFirst(r, requests \ gone) /\ request' = r
      BY <2>1, <2>4 DEF RequestNext
    <3>2. r # None
      BY <3>1, ConstantsAssumption DEF IInv, TypeOK
    <3>3. reqNext'
      BY <2>1, <2>4 DEF RequestNext
    <3>4. QED
      BY <2>1, <2>2, <3>1, <3>2, <3>3
      DEF SequencerInv, CurrentIsOldest, NoStall, OneOnAir, TimeoutHasOwner,
          IsFirst
  <2>5. QED  BY <2>3, <2>4
<1>3. QED  BY <1>1, <1>2

\* A step that takes requests out of the lists keeps the invariant, provided
\* it does not stop both timers of a request that stays current.
LEMMA ReleaseKeepsInv ==
  ASSUME IInv,
         NEW gone \in SUBSET Reqs, NEW armed \in BOOLEAN, NEW tmo \in BOOLEAN,
         \A r \in gone : stage[r] \in {"created", "queued"},
         request # None /\ request \notin gone => armed = reqNext /\ tmo = reqTimeout,
         Delete(gone), Release(gone, armed, tmo),
         active' \in [Reqs -> BOOLEAN],
         \A r \in Reqs \ gone : active'[r] = active[r],
         UNCHANGED <<node, kind, cid, steps, since, appended>>,
         crashed' \in BOOLEAN
  PROVE  IInv'
<1>1. TypeOK'
  <2> USE DEF IInv, TypeOK
  <2>1. stage' \in [Reqs -> Stages] /\ ended' \in [Reqs -> Nat]
    BY DEF Delete, Stages
  <2>2. nodeRequests' \in [Nodes -> SUBSET Reqs]
    BY DEF Delete
  <2>3. requests' \in SUBSET Reqs
    BY DEF Release
  <2>4. request' \in Reqs \cup {None} /\ retry' \in 0 .. Retries
    BY ConstantsAssumption DEF Release, RequestNext
  <2>5. reqNext' \in BOOLEAN /\ reqTimeout' \in BOOLEAN
    BY DEF Release, RequestNext
  <2>6. QED
    BY <2>1, <2>2, <2>3, <2>4, <2>5
<1>2. ListsAgree'
  BY DEF IInv, TypeOK, ListsAgree, Delete, Release, OfNode, FinishedOnce
<1>3. SinceInv'
  BY DEF IInv, TypeOK, SinceInv, Release
<1>4. LifeInv'
  BY DEF IInv, TypeOK, LifeInv, Delete
<1>5. SequencerInv'
  BY ReleaseSequencer DEF IInv
<1>6. NoDuplicates'
  BY DEF IInv, NoDuplicates, Equal, Release
<1>7. FinishedOnce'
  BY DEF IInv, TypeOK, FinishedOnce, Delete, Stages
<1>8. QED
  BY <1>1, <1>2, <1>3, <1>4, <1>5, <1>6, <1>7 DEF IInv
-----------------------------------------------------------------------------
\* A request in the list of a node is a queued request of that node.
LEMMA ListensQueued ==
  ASSUME IInv, NEW r \in Reqs, Listens(r)
  PROVE  /\ r \in requests
         /\ stage[r] = "queued"
         /\ node[r] \in Nodes
         /\ nodeRequests[node[r]] = OfNode(node[r])
BY DEF IInv, TypeOK, Listens, ListsAgree, OfNode, LifeInv

\* The current request is queued.
LEMMA CurrentQueued ==
  ASSUME IInv, request # None
  PROVE  request \in requests /\ request \in Reqs /\ stage[request] = "queued"
BY DEF IInv, TypeOK, SequencerInv, CurrentIsOldest, IsFirst, ListsAgree

LEMMA CreateInv ==
  ASSUME IInv, NEW r \in Reqs, NEW n \in Nodes, NEW k \in Kinds, Create(r, n, k)
  PROVE  IInv'
<1>1. r \notin requests /\ ~active[r]
  BY DEF IInv, Create, ListsAgree, LifeInv
<1>2. UNCHANGED <<active, steps, ended, nodeRequests, requests, since,
                  appended, request, retry, reqNext, reqTimeout, crashed>>
  BY DEF Create, listVars, seqVars
<1>3. \A x \in requests : /\ node'[x] = node[x] /\ kind'[x] = kind[x]
                          /\ cid'[x] = cid[x] /\ stage'[x] = stage[x]
  BY <1>1 DEF IInv, TypeOK, Create
<1>4. TypeOK'
  <2>1. PICK c \in Cids(k) : cid' = [cid EXCEPT ![r] = c]
    BY DEF Create
  <2>2. c \in Names \cup {None}
    BY <2>1 DEF Cids
  <2>3. QED
    BY <1>2, <2>1, <2>2 DEF IInv, TypeOK, Create, Stages
<1>5. ListsAgree'
  BY <1>1, <1>2, <1>3 DEF IInv, TypeOK, ListsAgree, OfNode, Create
<1>6. SinceInv'
  BY <1>2 DEF IInv, SinceInv
<1>7. LifeInv'
  BY <1>1, <1>2 DEF IInv, TypeOK, LifeInv, Create
<1>8. SequencerInv'
  BY <1>2 DEF IInv, SequencerInv, CurrentIsOldest, NoStall, OneOnAir,
              TimeoutHasOwner, IsFirst
<1>9. NoDuplicates'
  BY <1>2, <1>3 DEF IInv, NoDuplicates, Equal
<1>10. FinishedOnce'
  BY <1>2 DEF IInv, TypeOK, FinishedOnce, Create
<1>11. QED
  BY <1>4, <1>5, <1>6, <1>7, <1>8, <1>9, <1>10 DEF IInv

LEMMA ScheduleDuplicateInv ==
  ASSUME IInv, NEW r \in Reqs, ScheduleDuplicate(r)
  PROVE  IInv'
<1>1. r \notin requests
  BY DEF IInv, ScheduleDuplicate, ListsAgree
<1>2. /\ reqNext \in BOOLEAN /\ reqTimeout \in BOOLEAN /\ active' = active
      /\ crashed' \in BOOLEAN
  BY DEF IInv, TypeOK, ScheduleDuplicate
<1>3. QED
  BY <1>1, <1>2, ReleaseKeepsInv DEF ScheduleDuplicate, IInv, TypeOK

LEMMA ScheduleInv ==
  ASSUME IInv, NEW r \in Reqs, Schedule(r)
  PROVE  IInv'
<1> DEFINE gone == Rivals(r)
           rest == requests \ gone
<1>1. /\ stage' = [x \in Reqs |-> IF x \in gone THEN "deleted"
                                  ELSE IF x = r THEN "queued" ELSE stage[x]]
      /\ ended' = [x \in Reqs |-> IF x \in gone THEN ended[x] + 1
                                                ELSE ended[x]]
      /\ nodeRequests' = [nodeRequests EXCEPT
                             ![node[r]] = (@ \ gone) \cup {r}]
      /\ requests' = rest \cup {r}
      /\ since' = [since EXCEPT ![r] = appended + 1]
      /\ appended' = appended + 1
      /\ UNCHANGED <<node, kind, cid, active, steps, crashed>>
      /\ stage[r] = "created"
  BY DEF Schedule
<1>2. /\ node[r] \in Nodes /\ kind[r] \in Kinds /\ ~active[r]
      /\ r \notin requests
  BY <1>1 DEF IInv, LifeInv, ListsAgree
<1>3. /\ gone \subseteq OfNode(node[r]) /\ gone \subseteq requests
      /\ gone \subseteq Reqs /\ r \notin gone
      /\ \A x \in gone : stage[x] = "queued" /\ ~active[x]
  BY <1>1, <1>2 DEF IInv, TypeOK, ListsAgree, OfNode, Rivals, Schedule
<1>4. \A x \in requests : x # r /\ since'[x] = since[x] /\ since[x] < since'[r]
  BY <1>1, <1>2 DEF IInv, TypeOK, SinceInv
<1>5. ASSUME request # None /\ request \notin gone
      PROVE  TypeOK' /\ SequencerInv'
  <2>1. UNCHANGED <<request, retry, reqNext, reqTimeout>>
    BY <1>5 DEF Schedule, seqVars
  <2>2. TypeOK'
    BY <1>1, <1>2, <1>3, <2>1 DEF IInv, TypeOK, Stages
  <2>3. SequencerInv'
    BY <1>1, <1>2, <1>3, <1>4, <1>5, <2>1, CurrentQueued
    DEF IInv, TypeOK, SequencerInv, CurrentIsOldest, NoStall, OneOnAir,
        TimeoutHasOwner, IsFirst
  <2>4. QED  BY <2>2, <2>3
<1>6. ASSUME request = None \/ request \in gone
      PROVE  TypeOK' /\ SequencerInv'
  <2>1. /\ retry' = Retries
        /\ reqNext' = TRUE
        /\ reqTimeout' = (reqTimeout /\ gone = {})
        /\ IF rest = {}
             THEN request' = r
             ELSE \E x \in rest : IsFirst(x, rest) /\ request' = x
    BY <1>6 DEF Schedule
  <2>2. /\ request' \in requests' /\ request' \in Reqs
        /\ \A x \in requests' : since'[request'] <= since'[x]
    <3>1. CASE rest = {}
      BY <1>1, <2>1, <3>1 DEF IInv, TypeOK
    <3>2. CASE rest # {}
      <4>1. PICK x \in rest : IsFirst(x, rest) /\ request' = x
        BY <2>1, <3>2
      <4>2. x \in requests /\ x \in Reqs
        BY <4>1 DEF IInv, TypeOK
      <4>3. \A y \in rest : since'[x] <= since'[y]
        BY <1>4, <4>1, <4>2 DEF IsFirst
      <4>4. since'[x] <= since'[r]
        BY <1>1, <1>4, <4>2 DEF IInv, TypeOK
      <4>5. QED
        BY <1>1, <4>1, <4>2, <4>3, <4>4
    <3>3. QED  BY <3>1, <3>2
  <2>3. request' # None
    BY <2>2, ConstantsAssumption
  <2>4. ~reqTimeout'
    BY <1>6, <2>1 DEF IInv, SequencerInv, TimeoutHasOwner
  <2>5. \A x \in requests' : ~active'[x]
    BY <1>1, <1>2, <1>3, <1>6, ConstantsAssumption
    DEF IInv, TypeOK, SequencerInv, OneOnAir
  <2>6. SequencerInv'
    BY <2>1, <2>2, <2>3, <2>4, <2>5
    DEF SequencerInv, CurrentIsOldest, NoStall, OneOnAir, TimeoutHasOwner,
        IsFirst
  <2>7. request' \in Reqs \cup {None} /\ retry' \in 0 .. Retries
    BY <2>1, <2>2, ConstantsAssumption
  <2>8. reqNext' \in BOOLEAN /\ reqTimeout' \in BOOLEAN
    BY <2>1, <2>4
  <2>9. TypeOK'
    BY <1>1, <1>2, <1>3, <2>7, <2>8 DEF IInv, TypeOK, Stages
  <2>10. QED  BY <2>6, <2>9
<1>7. ListsAgree'
  <2>1. requests' = {x \in Reqs : stage'[x] = "queued"}
    BY <1>1, <1>2, <1>3 DEF IInv, TypeOK, ListsAgree
  <2>2. ASSUME NEW n \in Nodes  PROVE nodeRequests'[n] = OfNode(n)'
    <3>1. CASE n = node[r]
      BY <1>1, <1>2, <1>3, <3>1 DEF IInv, TypeOK, ListsAgree, OfNode
    <3>2. CASE n # node[r]
      BY <1>1, <1>2, <1>3, <3>2 DEF IInv, TypeOK, ListsAgree, OfNode
    <3>3. QED  BY <3>1, <3>2
  <2>3. QED  BY <2>1, <2>2 DEF ListsAgree
<1>8. SinceInv'
  BY <1>1, <1>2, <1>3, <1>4 DEF IInv, TypeOK, SinceInv
<1>9. LifeInv'
  BY <1>1, <1>2, <1>3 DEF IInv, TypeOK, LifeInv
<1>10. NoDuplicates'
  <2>1. \A x \in requests' \ {r} : x \in requests /\ x \notin gone
    BY <1>1
  <2>2. \A x \in requests' \ {r} : node[x] = node[r] => ~Equal(x, r)
    BY <1>2, <2>1 DEF IInv, TypeOK, ListsAgree, OfNode, Rivals
  <2>3. QED
    BY <1>1, <2>1, <2>2 DEF IInv, NoDuplicates, Equal
<1>11. FinishedOnce'
  BY <1>1, <1>3 DEF IInv, TypeOK, FinishedOnce
<1>12. QED
  BY <1>5, <1>6, <1>7, <1>8, <1>9, <1>10, <1>11 DEF IInv
-----------------------------------------------------------------------------
LEMMA SendInv == ASSUME IInv, Send  PROVE IInv'
<1>1. /\ request \in requests /\ request \in Reqs /\ stage[request] = "queued"
      /\ request # None
  BY CurrentQueued DEF Send
<1>2. /\ active' = [active EXCEPT ![request] = TRUE]
      /\ ~reqNext' /\ reqTimeout' /\ reqNext' \in BOOLEAN /\ reqTimeout' \in BOOLEAN
      /\ UNCHANGED <<stage, node, kind, cid, steps, ended, nodeRequests,
                     requests, since, appended, request, retry, crashed>>
  BY DEF Send, listVars
<1>3. TypeOK'
  BY <1>1, <1>2 DEF IInv, TypeOK
<1>4. ListsAgree' /\ SinceInv' /\ NoDuplicates' /\ FinishedOnce'
  BY <1>2 DEF IInv, ListsAgree, OfNode, SinceInv, NoDuplicates, Equal,
              FinishedOnce
<1>5. LifeInv'
  BY <1>1, <1>2 DEF IInv, TypeOK, LifeInv
<1>6. SequencerInv'
  BY <1>1, <1>2 DEF IInv, TypeOK, SequencerInv, CurrentIsOldest, NoStall,
                    OneOnAir, TimeoutHasOwner, IsFirst
<1>7. QED
  BY <1>3, <1>4, <1>5, <1>6 DEF IInv

LEMMA SendFailsInv == ASSUME IInv, SendFails  PROVE IInv'
<1>1. request \in requests /\ request \in Reqs /\ stage[request] = "queued"
  BY CurrentQueued DEF SendFails
<1>2. /\ active' \in [Reqs -> BOOLEAN]
      /\ \A r \in Reqs \ {request} : active'[r] = active[r]
      /\ reqTimeout \in BOOLEAN /\ crashed' \in BOOLEAN
  BY DEF IInv, TypeOK, SendFails
<1>3. QED
  BY <1>1, <1>2, ReleaseKeepsInv DEF SendFails

LEMMA TimeoutOneShotInv == ASSUME IInv, TimeoutOneShot  PROVE IInv'
<1>1. request \in requests /\ request \in Reqs /\ stage[request] = "queued"
  BY CurrentQueued DEF TimeoutOneShot
<1>2. /\ reqNext \in BOOLEAN /\ crashed' \in BOOLEAN
      /\ active \in [Reqs -> BOOLEAN] /\ active' = active
  BY DEF IInv, TypeOK, TimeoutOneShot
<1>3. QED
  BY <1>1, <1>2, ReleaseKeepsInv DEF TimeoutOneShot

\* The pass that cancels a node never jumps over its current request.
LEMMA SweptCurrent ==
  ASSUME IInv, request # None,
         NEW gone \in Swept(requests, OfNode(node[request]))
  PROVE  gone \subseteq requests /\ request \in gone
<1>1. request \in OfNode(node[request]) /\ OfNode(node[request]) \subseteq requests
  BY CurrentQueued DEF OfNode
<1>2. IsFirst(request, OfNode(node[request]))
  BY <1>1 DEF IInv, SequencerInv, CurrentIsOldest, IsFirst
<1>3. QED
  BY <1>1, <1>2 DEF Swept

LEMMA TimeoutDropInv == ASSUME IInv, TimeoutDrop  PROVE IInv'
<1>1. PICK gone \in Swept(requests, OfNode(node[request])) :
         Delete(gone) /\ Release(gone, reqNext, FALSE)
  BY DEF TimeoutDrop
<1>2. gone \subseteq requests /\ request \in gone
  BY <1>1, SweptCurrent DEF TimeoutDrop
<1>3. gone \subseteq Reqs /\ \A r \in gone : stage[r] = "queued"
  BY <1>2 DEF IInv, TypeOK, ListsAgree
<1>4. /\ reqNext \in BOOLEAN /\ crashed' \in BOOLEAN
      /\ active \in [Reqs -> BOOLEAN] /\ active' = active
  BY DEF IInv, TypeOK, TimeoutDrop, MayCrash
<1>5. QED
  BY <1>1, <1>2, <1>3, <1>4, ReleaseKeepsInv DEF TimeoutDrop

LEMMA AnsweredInv ==
  ASSUME IInv, NEW r \in Reqs, Answered(r)
  PROVE  IInv'
<1>1. stage[r] = "queued"
  BY ListensQueued DEF Answered
<1>2. /\ reqNext \in BOOLEAN /\ reqTimeout \in BOOLEAN
      /\ active \in [Reqs -> BOOLEAN] /\ active' = active
      /\ crashed' \in BOOLEAN
  BY DEF IInv, TypeOK, Answered
<1>3. QED
  BY <1>1, <1>2, ReleaseKeepsInv DEF Answered

LEMMA AnsweredNewFilesInv ==
  ASSUME IInv, NEW r \in Reqs, AnsweredNewFiles(r)
  PROVE  IInv'
<1> DEFINE list == nodeRequests[node[r]]
           filed == {x \in list : kind[x] = "file"}
<1>1. r \in requests /\ list = OfNode(node[r])
  BY ListensQueued DEF AnsweredNewFiles
<1>2. PICK files \in Swept(list, filed) :
         /\ Delete(files \cup {r})
         /\ Release(files \cup {r}, reqNext \/ request \in files, reqTimeout)
  BY DEF AnsweredNewFiles
<1>3. files \subseteq requests
  BY <1>1, <1>2 DEF Swept, OfNode
<1>4. /\ files \cup {r} \in SUBSET Reqs
      /\ \A x \in files \cup {r} : stage[x] = "queued"
  BY <1>1, <1>3 DEF IInv, TypeOK, ListsAgree
<1>5. /\ (reqNext \/ request \in files) \in BOOLEAN /\ reqTimeout \in BOOLEAN
      /\ active \in [Reqs -> BOOLEAN] /\ active' = active
      /\ crashed' \in BOOLEAN
  BY DEF IInv, TypeOK, AnsweredNewFiles, MayCrash
<1>6. request \notin files \cup {r} => (reqNext \/ request \in files) = reqNext
  BY DEF IInv, TypeOK
<1>7. QED
  BY <1>2, <1>4, <1>5, <1>6, ReleaseKeepsInv DEF AnsweredNewFiles

LEMMA CancelAllInv == ASSUME IInv, CancelAll  PROVE IInv'
<1>1. requests \in SUBSET Reqs /\ \A r \in requests : stage[r] = "queued"
  BY DEF IInv, TypeOK, ListsAgree
<1>2. /\ reqNext \in BOOLEAN /\ reqTimeout \in BOOLEAN
      /\ active \in [Reqs -> BOOLEAN] /\ active' = active
      /\ crashed' \in BOOLEAN
  BY DEF IInv, TypeOK, CancelAll
<1>3. QED
  BY <1>1, <1>2, ReleaseKeepsInv DEF CancelAll

LEMMA NextIdleInv == ASSUME IInv, NextIdle  PROVE IInv'
<1>1. UNCHANGED <<objVars, listVars>> /\ ~reqNext' /\ reqNext' \in BOOLEAN
      /\ UNCHANGED <<request, retry, reqTimeout>> /\ request = None
  BY DEF NextIdle
<1>2. requests = {}
  BY <1>1 DEF IInv, SequencerInv, NoStall
<1>3. TypeOK'
  BY <1>1 DEF IInv, TypeOK, objVars, listVars
<1>4. QED
  BY <1>1, <1>2, <1>3 DEF IInv, ListsAgree, OfNode, SinceInv, LifeInv,
    SequencerInv, CurrentIsOldest, NoStall, OneOnAir, TimeoutHasOwner, IsFirst,
    NoDuplicates, Equal, FinishedOnce, objVars, listVars

LEMMA TimeoutRetryInv == ASSUME IInv, TimeoutRetry  PROVE IInv'
<1>1. /\ UNCHANGED <<objVars, listVars, request>>
      /\ reqNext' = TRUE /\ reqTimeout' = FALSE
      /\ request # None /\ retry' = retry - 1 /\ retry > 0
  BY DEF TimeoutRetry
<1>2. retry' \in 0 .. Retries
  BY <1>1, ConstantsAssumption DEF IInv, TypeOK
<1>3. TypeOK'
  BY <1>1, <1>2 DEF IInv, TypeOK, objVars, listVars
<1>4. QED
  BY <1>1, <1>3 DEF IInv, ListsAgree, OfNode, SinceInv, LifeInv,
    SequencerInv, CurrentIsOldest, NoStall, OneOnAir, TimeoutHasOwner, IsFirst,
    NoDuplicates, Equal, FinishedOnce, objVars, listVars

LEMMA TransferInv ==
  ASSUME IInv, NEW r \in Reqs, Continue(r) \/ Extend(r)
  PROVE  IInv'
<1>1. /\ steps' = [steps EXCEPT ![r] = @ - 1] /\ steps[r] > 0
      /\ active[r] /\ Listens(r)
      /\ UNCHANGED <<stage, node, kind, cid, active, ended>>
      /\ UNCHANGED listVars
      /\ UNCHANGED request
  BY DEF Continue, Extend, seqVars
<1>2. r = request
  BY <1>1, ListensQueued DEF IInv, SequencerInv, OneOnAir
<1>3. /\ retry' \in 0 .. Retries
      /\ reqNext' \in BOOLEAN /\ reqTimeout' \in BOOLEAN
      /\ reqNext' \/ reqTimeout'
  <2>1. CASE Continue(r)
    <3>1. retry' = Retries /\ reqTimeout' = FALSE /\ reqNext' = TRUE
      BY <1>2, <2>1 DEF Continue
    <3>2. retry' \in 0 .. Retries
      BY <3>1, ConstantsAssumption
    <3>3. QED
      BY <3>1, <3>2
  <2>2. CASE Extend(r)
    <3>1. reqTimeout' = TRUE /\ UNCHANGED <<retry, reqNext>>
      BY <1>2, <2>2 DEF Extend
    <3>2. QED
      BY <3>1 DEF IInv, TypeOK
  <2>3. QED  BY <2>1, <2>2
<1>4. steps' \in [Reqs -> 0 .. MaxSteps]
  BY <1>1, ConstantsAssumption DEF IInv, TypeOK
<1>5. TypeOK'
  BY <1>1, <1>3, <1>4 DEF IInv, TypeOK, listVars
<1>6. SequencerInv'
  <2>1. request # None
    BY <1>2, ConstantsAssumption
  <2>2. QED
    BY <1>1, <1>2, <1>3, <2>1 DEF IInv, SequencerInv, CurrentIsOldest, NoStall,
       OneOnAir, TimeoutHasOwner, IsFirst, listVars
<1>7. QED
  BY <1>1, <1>5, <1>6 DEF IInv, ListsAgree, OfNode, SinceInv, LifeInv,
    NoDuplicates, Equal, FinishedOnce, listVars

LEMMA NodeDestroyedInv ==
  ASSUME IInv, NEW n \in Nodes, NodeDestroyed(n)
  PROVE  IInv'
<1> DEFINE gone == OfNode(n)
           lost == {r \in Reqs : node[r] = n /\ stage[r] = "created"}
<1>1. /\ stage' = [r \in Reqs |-> IF r \in gone THEN "deleted"
                                  ELSE IF r \in lost THEN "leaked" ELSE stage[r]]
      /\ ended' = [r \in Reqs |-> IF r \in gone THEN ended[r] + 1 ELSE ended[r]]
      /\ nodeRequests' = [nodeRequests EXCEPT ![n] = {}]
      /\ Release(gone, reqNext, reqTimeout)
      /\ UNCHANGED <<node, kind, cid, active, steps, since, appended, crashed>>
  BY DEF NodeDestroyed
<1>2. /\ gone \subseteq requests /\ gone \subseteq Reqs
      /\ \A r \in gone : stage[r] = "queued" /\ node[r] = n
      /\ \A r \in requests : r \notin lost
  BY DEF IInv, TypeOK, ListsAgree, OfNode
<1>3. requests' = requests \ gone
  BY <1>1 DEF Release
<1>4. TypeOK'
  <2> USE DEF IInv, TypeOK
  <2>1. stage' \in [Reqs -> Stages] /\ ended' \in [Reqs -> Nat]
    BY <1>1 DEF Stages
  <2>2. nodeRequests' \in [Nodes -> SUBSET Reqs] /\ requests' \in SUBSET Reqs
    BY <1>1, <1>3
  <2>3. request' \in Reqs \cup {None} /\ retry' \in 0 .. Retries
    BY <1>1, ConstantsAssumption DEF Release, RequestNext
  <2>4. reqNext' \in BOOLEAN /\ reqTimeout' \in BOOLEAN
    BY <1>1 DEF Release, RequestNext
  <2>5. QED
    BY <1>1, <2>1, <2>2, <2>3, <2>4
<1>5. ListsAgree'
  BY <1>1, <1>2, <1>3 DEF IInv, TypeOK, ListsAgree, OfNode
<1>6. SinceInv' /\ NoDuplicates'
  BY <1>1, <1>3 DEF IInv, TypeOK, SinceInv, NoDuplicates, Equal
<1>7. LifeInv' /\ FinishedOnce'
  BY <1>1, <1>2 DEF IInv, TypeOK, LifeInv, FinishedOnce
<1>8. SequencerInv'
  BY <1>1, <1>2, ReleaseSequencer DEF IInv, TypeOK
<1>9. QED
  BY <1>4, <1>5, <1>6, <1>7, <1>8 DEF IInv
-----------------------------------------------------------------------------
\* Every step keeps the inductive invariant.
LEMMA NextInv == IInv /\ [Next]_vars => IInv'
<1> SUFFICES ASSUME IInv, [Next]_vars  PROVE IInv'
  OBVIOUS
<1>1. ASSUME NEW r \in Reqs, NEW n \in Nodes, NEW k \in Kinds, Create(r, n, k)
      PROVE  IInv'
  BY <1>1, CreateInv
<1>2. ASSUME NEW r \in Reqs, ScheduleDuplicate(r) \/ Schedule(r)  PROVE IInv'
  BY <1>2, ScheduleDuplicateInv, ScheduleInv
<1>3. CASE Timers
  BY <1>3, NextIdleInv, SendInv, SendFailsInv, TimeoutOneShotInv,
     TimeoutRetryInv, TimeoutDropInv DEF Timers
<1>4. ASSUME NEW r \in Reqs, Answers(r)  PROVE IInv'
  BY <1>4, AnsweredInv, AnsweredNewFilesInv, TransferInv DEF Answers
<1>5. CASE CancelAll
  BY <1>5, CancelAllInv
<1>6. ASSUME NEW n \in Nodes, NodeDestroyed(n)  PROVE IInv'
  BY <1>6, NodeDestroyedInv
<1>7. CASE UNCHANGED vars
  BY <1>7 DEF vars, IInv, TypeOK, ListsAgree, OfNode, SinceInv, LifeInv,
    SequencerInv, CurrentIsOldest, NoStall, OneOnAir, TimeoutHasOwner, IsFirst,
    NoDuplicates, Equal, FinishedOnce
<1>8. QED
  BY <1>1, <1>2, <1>3, <1>4, <1>5, <1>6, <1>7 DEF Next

\* The inductive invariant holds in every reachable state.
THEOREM Invariance == Spec => []IInv
  BY InitInv, NextInv, PTL DEF Spec

\* Every variable keeps its type.
THEOREM TypeCorrect == Spec => []TypeOK
<1>1. IInv => TypeOK
  BY DEF IInv
<1>2. QED
  BY <1>1, Invariance, PTL

\* Whatever is scheduled, answered, timed out or cancelled: the oldest
\* request is current, a timer runs for it, at most it is on the air, and no
\* timer of an ended request is left running.
THEOREM SequencerCorrect == Spec => []SequencerInv
<1>1. IInv => SequencerInv
  BY DEF IInv
<1>2. QED
  BY <1>1, Invariance, PTL

\* The list of the sequencer and the lists of the nodes never diverge.
THEOREM ListsCorrect == Spec => []ListsAgree
<1>1. IInv => ListsAgree
  BY DEF IInv
<1>2. QED
  BY <1>1, Invariance, PTL

\* finished() is emitted once by every request that is deleted.
THEOREM FinishedCorrect == Spec => []FinishedOnce
<1>1. IInv => FinishedOnce
  BY DEF IInv
<1>2. QED
  BY <1>1, Invariance, PTL

\* No two equal requests wait for one node.
THEOREM DuplicatesCorrect == Spec => []NoDuplicates
<1>1. IInv => NoDuplicates
  BY DEF IInv
<1>2. QED
  BY <1>1, Invariance, PTL
-----------------------------------------------------------------------------
(* The sequencer implements NmtFifo.                                       *)

\* Requests of the lists that are deleted end their place in the line.
LEMMA DeleteEnds ==
  ASSUME IInv, NEW gone \in SUBSET Reqs,
         \A r \in gone : stage[r] = "queued",
         Delete(gone), UNCHANGED since,
         \A r \in Reqs \ gone : active'[r] = active[r]
  PROVE  Fifo!End
<1>1. \A r \in Reqs : Phase(r)' = IF r \in gone THEN "ended" ELSE Phase(r)
  BY DEF Phase, Delete
<1>2. gone \in SUBSET Fifo!InLine
  BY DEF Phase, Fifo!InLine
<1>3. [r \in Reqs |-> Phase(r)]' =
        [r \in Reqs |-> IF r \in gone THEN "ended"
                       ELSE [x \in Reqs |-> Phase(x)][r]]
  BY <1>1
<1>4. QED
  BY <1>2, <1>3 DEF Fifo!End

\* A step that leaves stages, activity and order alone is a stutter.
LEMMA SamePhases ==
  ASSUME UNCHANGED <<stage, active, since>>
  PROVE  UNCHANGED Fifo!fifoVars
BY DEF Fifo!fifoVars, Phase

LEMMA CreateFifo ==
  ASSUME IInv, NEW r \in Reqs, NEW n \in Nodes, NEW k \in Kinds, Create(r, n, k)
  PROVE  UNCHANGED Fifo!fifoVars
<1>1. /\ stage[r] = "none" /\ stage' = [stage EXCEPT ![r] = "created"]
      /\ UNCHANGED <<active, since>>
  BY DEF Create, listVars
<1>2. \A x \in Reqs : Phase(x)' = Phase(x)
  BY <1>1 DEF IInv, TypeOK, Phase
<1>3. QED
  BY <1>1, <1>2 DEF Fifo!fifoVars

LEMMA ScheduleDuplicateFifo ==
  ASSUME IInv, NEW r \in Reqs, ScheduleDuplicate(r)
  PROVE  Fifo!Refuse(r)
<1>1. stage[r] = "created" /\ Delete({r}) /\ UNCHANGED <<active, since>>
  BY DEF ScheduleDuplicate
<1>2. /\ Phase(r) = "idle"
      /\ \A x \in Reqs : Phase(x)' = IF x = r THEN "ended" ELSE Phase(x)
  BY <1>1 DEF IInv, TypeOK, Phase, Delete
<1>3. [x \in Reqs |-> Phase(x)]' =
        [[x \in Reqs |-> Phase(x)] EXCEPT ![r] = "ended"]
  BY <1>2
<1>4. QED
  BY <1>1, <1>2, <1>3 DEF Fifo!Refuse

LEMMA ScheduleFifo ==
  ASSUME IInv, NEW r \in Reqs, Schedule(r)
  PROVE  Fifo!Join(r)
<1> DEFINE gone == Rivals(r)
           old == [x \in Reqs |-> Phase(x)]
<1>1. /\ stage' = [x \in Reqs |-> IF x \in gone THEN "deleted"
                                  ELSE IF x = r THEN "queued" ELSE stage[x]]
      /\ since' = [since EXCEPT ![r] = appended + 1]
      /\ active' = active
      /\ stage[r] = "created"
  BY DEF Schedule
<1>2. ~active[r] /\ node[r] \in Nodes
  BY <1>1 DEF IInv, LifeInv
<1>3. \A x \in gone : x \in Reqs /\ stage[x] = "queued" /\ ~active[x]
  BY <1>2 DEF IInv, TypeOK, ListsAgree, OfNode, Rivals, Schedule
<1>4. old[r] = "idle" /\ gone \in SUBSET {x \in Reqs : old[x] = "waiting"}
  BY <1>1, <1>3 DEF Phase
<1>5. \A x \in Reqs : Phase(x)' = IF x \in gone THEN "ended"
                                  ELSE IF x = r THEN "waiting" ELSE old[x]
  BY <1>1, <1>2, <1>3 DEF Phase
<1>6. \A x \in Reqs : x # r => since'[x] = since[x] /\ since[x] < since'[r]
  BY <1>1 DEF IInv, TypeOK, SinceInv
<1>7. QED
  BY <1>1, <1>4, <1>5, <1>6 DEF Fifo!Join, IInv, TypeOK

LEMMA SendFifo ==
  ASSUME IInv, Send
  PROVE  Fifo!PutOnAir(request) \/ UNCHANGED Fifo!fifoVars
<1> DEFINE old == [x \in Reqs |-> Phase(x)]
<1>1. /\ active' = [active EXCEPT ![request] = TRUE]
      /\ UNCHANGED <<stage, since, request>>
      /\ request # None
  BY DEF Send, listVars
<1>2. request \in Reqs /\ stage[request] = "queued"
  BY <1>1, CurrentQueued
<1>3. \A x \in Reqs : x # request => Phase(x)' = Phase(x)
  BY <1>1 DEF IInv, TypeOK, Phase
<1>4. \A x \in Reqs : x = request => Phase(x)' = "sent"
  BY <1>1, <1>2 DEF IInv, TypeOK, Phase
<1>5. CASE active[request]
  <2>1. Phase(request) = "sent"
    BY <1>2, <1>5 DEF Phase
  <2>2. QED
    BY <1>1, <1>3, <1>4, <2>1 DEF Fifo!fifoVars
<1>6. CASE ~active[request]
  <2>1. old[request] = "waiting"
    BY <1>2, <1>6 DEF Phase
  <2>2. \A x \in Fifo!InLine : since[request] <= since[x]
    <3>1. ASSUME NEW x \in Fifo!InLine  PROVE x \in requests
      BY DEF Fifo!InLine, Phase, IInv, ListsAgree
    <3>2. QED
      BY <1>1, <3>1 DEF IInv, SequencerInv, CurrentIsOldest, IsFirst
  <2>3. [x \in Reqs |-> Phase(x)]' = [old EXCEPT ![request] = "sent"]
    BY <1>3, <1>4
  <2>4. QED
    BY <1>1, <2>1, <2>2, <2>3 DEF Fifo!PutOnAir
<1>7. QED  BY <1>5, <1>6

\* Initially no request is in the line.
LEMMA InitFifo == Init => Fifo!FifoInit
BY DEF Init, Fifo!FifoInit, Phase

\* Every step of the sequencer is a step of NmtFifo or leaves it unchanged.
LEMMA NextFifo == IInv /\ [Next]_vars => [Fifo!FifoNext]_Fifo!fifoVars
<1> SUFFICES ASSUME IInv, [Next]_vars
             PROVE  Fifo!FifoNext \/ UNCHANGED Fifo!fifoVars
  OBVIOUS
<1>1. ASSUME NEW r \in Reqs, NEW n \in Nodes, NEW k \in Kinds, Create(r, n, k)
      PROVE  UNCHANGED Fifo!fifoVars
  BY <1>1, CreateFifo
<1>2. ASSUME NEW r \in Reqs, ScheduleDuplicate(r) \/ Schedule(r)
      PROVE  Fifo!FifoNext
  BY <1>2, ScheduleDuplicateFifo, ScheduleFifo DEF Fifo!FifoNext
<1>3. CASE Timers
  <2>1. CASE NextIdle \/ TimeoutRetry
    BY <2>1, SamePhases DEF NextIdle, TimeoutRetry, objVars, listVars
  <2>2. CASE Send
    BY <2>2, SendFifo, CurrentQueued DEF Fifo!FifoNext, Send
  <2>3. CASE SendFails
    <3>1. request \in Reqs /\ stage[request] = "queued"
      BY <2>3, CurrentQueued DEF SendFails
    <3>2. \A r \in Reqs \ {request} : active'[r] = active[r]
      BY <2>3 DEF SendFails, IInv, TypeOK
    <3>3. Fifo!End
      BY <2>3, <3>1, <3>2, DeleteEnds DEF SendFails
    <3>4. QED  BY <3>3 DEF Fifo!FifoNext
  <2>4. CASE TimeoutOneShot
    <3>1. request \in Reqs /\ stage[request] = "queued"
      BY <2>4, CurrentQueued DEF TimeoutOneShot
    <3>2. Fifo!End
      BY <2>4, <3>1, DeleteEnds DEF TimeoutOneShot
    <3>3. QED  BY <3>2 DEF Fifo!FifoNext
  <2>5. CASE TimeoutDrop
    <3>1. PICK gone \in Swept(requests, OfNode(node[request])) : Delete(gone)
      BY <2>5 DEF TimeoutDrop
    <3>2. gone \subseteq Reqs /\ \A r \in gone : stage[r] = "queued"
      BY <2>5, <3>1, SweptCurrent DEF TimeoutDrop, IInv, TypeOK, ListsAgree
    <3>3. UNCHANGED <<since, active>>
      BY <2>5 DEF TimeoutDrop
    <3>4. Fifo!End
      BY <3>1, <3>2, <3>3, DeleteEnds
    <3>5. QED  BY <3>4 DEF Fifo!FifoNext
  <2>6. QED
    BY <1>3, <2>1, <2>2, <2>3, <2>4, <2>5 DEF Timers
<1>4. ASSUME NEW r \in Reqs, Answers(r)
      PROVE  Fifo!FifoNext \/ UNCHANGED Fifo!fifoVars
  <2>1. CASE Continue(r) \/ Extend(r)
    BY <2>1, SamePhases DEF Continue, Extend, listVars
  <2>2. CASE Answered(r)
    <3>1. Fifo!End
      BY <2>2, ListensQueued, DeleteEnds DEF Answered
    <3>2. QED  BY <3>1 DEF Fifo!FifoNext
  <2>3. CASE AnsweredNewFiles(r)
    <3>1. /\ r \in requests
          /\ nodeRequests[node[r]] = OfNode(node[r])
      BY <2>3, ListensQueued DEF AnsweredNewFiles
    <3>2. PICK files \in Swept(nodeRequests[node[r]],
                     {x \in nodeRequests[node[r]] : kind[x] = "file"}) :
            Delete(files \cup {r})
      BY <2>3 DEF AnsweredNewFiles
    <3>3. files \cup {r} \subseteq requests
      BY <3>1, <3>2 DEF Swept, OfNode
    <3>4. /\ files \cup {r} \in SUBSET Reqs
          /\ \A x \in files \cup {r} : stage[x] = "queued"
      BY <3>3 DEF IInv, TypeOK, ListsAgree
    <3>5. UNCHANGED <<since, active>>
      BY <2>3 DEF AnsweredNewFiles
    <3>6. Fifo!End
      BY <3>2, <3>4, <3>5, DeleteEnds
    <3>7. QED  BY <3>6 DEF Fifo!FifoNext
  <2>4. QED
    BY <1>4, <2>1, <2>2, <2>3 DEF Answers
<1>5. CASE CancelAll
  <2>1. requests \in SUBSET Reqs /\ \A r \in requests : stage[r] = "queued"
    BY DEF IInv, TypeOK, ListsAgree
  <2>2. Fifo!End
    BY <1>5, <2>1, DeleteEnds DEF CancelAll
  <2>3. QED  BY <2>2 DEF Fifo!FifoNext
<1>6. ASSUME NEW n \in Nodes, NodeDestroyed(n)  PROVE Fifo!FifoNext
  <2> DEFINE gone == OfNode(n)
             old  == [x \in Reqs |-> Phase(x)]
  <2>1. /\ stage' = [r \in Reqs |->
                       IF r \in gone THEN "deleted"
                       ELSE IF node[r] = n /\ stage[r] = "created"
                            THEN "leaked" ELSE stage[r]]
        /\ UNCHANGED <<since, active>>
    BY <1>6 DEF NodeDestroyed
  <2>2. gone \in SUBSET Fifo!InLine
    BY DEF IInv, TypeOK, ListsAgree, OfNode, Fifo!InLine, Phase
  <2>3. \A r \in Reqs : Phase(r)' = IF r \in gone THEN "ended" ELSE old[r]
    BY <2>1 DEF Phase
  <2>4. Fifo!End
    BY <2>1, <2>2, <2>3 DEF Fifo!End
  <2>5. QED  BY <2>4 DEF Fifo!FifoNext
<1>7. CASE UNCHANGED vars
  BY <1>7, SamePhases DEF vars
<1>8. QED
  BY <1>1, <1>2, <1>3, <1>4, <1>5, <1>6, <1>7 DEF Next

\* The sequencer keeps the promise of NmtFifo: requests go on the air in the
\* order they joined, and none is displaced or ended twice.
THEOREM FifoCorrect == Spec => ImplementsFifo
  BY InitFifo, Invariance, NextFifo, PTL DEF Spec, ImplementsFifo, Fifo!FifoSpec
-----------------------------------------------------------------------------
(* Turns.                                                                  *)

\* What Turns says of one step
TurnStep ==
    /\ request' # request /\ request' # None => retry' = Retries
    /\ retry' < retry => retry' = retry - 1 /\ request' = request
    /\ requests' \ requests # {} /\ request # None /\ active[request]
         => UNCHANGED seqVars /\ request \in requests'

\* Whatever is taken out of the list: the next request has the full budget, and
\* the one that stays current keeps its own.
LEMMA ReleaseTurns ==
  ASSUME IInv, NEW gone \in SUBSET Reqs, NEW armed, NEW tmo,
         Release(gone, armed, tmo)
  PROVE  TurnStep
<1>1. requests' \ requests = {}
  BY DEF Release
<1>2. retry \in Int /\ retry <= Retries /\ Retries \in Int
  BY ConstantsAssumption DEF IInv, TypeOK
<1>3. CASE request # None /\ request \notin gone
  BY <1>1, <1>2, <1>3 DEF Release, TurnStep
<1>4. CASE request = None \/ request \in gone
  <2>1. retry' = Retries \/ (request' = None /\ retry' = retry)
    BY <1>4 DEF Release, RequestNext
  <2>2. QED
    BY <1>1, <1>2, <2>1 DEF TurnStep
<1>5. QED  BY <1>3, <1>4

\* A request that is scheduled takes the turn only of none, or of one that was
\* not sent.
LEMMA ScheduleTurns ==
  ASSUME IInv, NEW r \in Reqs, Schedule(r)
  PROVE  TurnStep
<1>1. retry \in Int /\ retry <= Retries /\ Retries \in Int
  BY ConstantsAssumption DEF IInv, TypeOK
<1>2. \A x \in Rivals(r) : ~active[x]
  BY DEF Schedule
<1>3. requests' = (requests \ Rivals(r)) \cup {r}
  BY DEF Schedule
<1>4. CASE request = None \/ request \in Rivals(r)
  <2>1. retry' = Retries
    BY <1>4 DEF Schedule
  <2>2. request = None \/ ~active[request]
    BY <1>2, <1>4
  <2>3. QED
    BY <1>1, <2>1, <2>2 DEF TurnStep
<1>5. CASE request # None /\ request \notin Rivals(r)
  <2>1. UNCHANGED seqVars
    BY <1>5 DEF Schedule
  <2>2. request \in requests'
    BY <1>3, <1>5, CurrentQueued
  <2>3. QED
    BY <1>1, <2>1, <2>2 DEF TurnStep, seqVars
<1>6. QED  BY <1>4, <1>5

\* A step that leaves the list and the current request alone may count a retry
\* or give the full budget back.
LEMMA SameTurn ==
  ASSUME IInv, UNCHANGED <<requests, request>>,
         retry' \in {retry, retry - 1, Retries}
  PROVE  TurnStep
<1>1. retry \in Int /\ retry <= Retries /\ Retries \in Int
  BY ConstantsAssumption DEF IInv, TypeOK
<1>2. QED
  BY <1>1 DEF TurnStep

\* Every step keeps to the turns.
LEMMA NextTurns == IInv /\ [Next]_vars => TurnStep
<1> SUFFICES ASSUME IInv, [Next]_vars  PROVE TurnStep
  OBVIOUS
<1>1. ASSUME NEW r \in Reqs, NEW n \in Nodes, NEW k \in Kinds, Create(r, n, k)
      PROVE  TurnStep
  BY <1>1, SameTurn DEF Create, listVars, seqVars
<1>2. ASSUME NEW r \in Reqs, ScheduleDuplicate(r) \/ Schedule(r)
      PROVE  TurnStep
  BY <1>2, ReleaseTurns, ScheduleTurns DEF ScheduleDuplicate
<1>3. CASE Timers
  <2>1. CASE NextIdle \/ Send \/ TimeoutRetry
    BY <2>1, SameTurn DEF NextIdle, Send, TimeoutRetry, listVars
  <2>2. CASE SendFails \/ TimeoutOneShot
    <3>1. request \in Reqs
      BY <2>2, CurrentQueued DEF SendFails, TimeoutOneShot
    <3>2. QED
      BY <2>2, <3>1, ReleaseTurns DEF SendFails, TimeoutOneShot
  <2>3. CASE TimeoutDrop
    <3>1. PICK gone \in Swept(requests, OfNode(node[request])) :
             Release(gone, reqNext, FALSE)
      BY <2>3 DEF TimeoutDrop
    <3>2. gone \in SUBSET Reqs
      BY <2>3, <3>1, SweptCurrent DEF TimeoutDrop, IInv, TypeOK
    <3>3. QED
      BY <3>1, <3>2, ReleaseTurns
  <2>4. QED
    BY <1>3, <2>1, <2>2, <2>3 DEF Timers
<1>4. ASSUME NEW r \in Reqs, Answers(r)  PROVE TurnStep
  <2>1. CASE Answered(r)
    BY <2>1, ReleaseTurns DEF Answered
  <2>2. CASE AnsweredNewFiles(r)
    <3>1. PICK files \in Swept(nodeRequests[node[r]],
                     {x \in nodeRequests[node[r]] : kind[x] = "file"}) :
             Release(files \cup {r}, reqNext \/ request \in files, reqTimeout)
      BY <2>2 DEF AnsweredNewFiles
    <3>2. files \cup {r} \in SUBSET Reqs
      BY <2>2, <3>1, ListensQueued DEF AnsweredNewFiles, Swept, OfNode, IInv, TypeOK
    <3>3. QED
      BY <3>1, <3>2, ReleaseTurns
  <2>3. CASE Continue(r) \/ Extend(r)
    BY <2>3, SameTurn DEF Continue, Extend, listVars, seqVars
  <2>4. QED
    BY <1>4, <2>1, <2>2, <2>3 DEF Answers
<1>5. CASE CancelAll
  BY <1>5, ReleaseTurns DEF CancelAll, IInv, TypeOK
<1>6. ASSUME NEW n \in Nodes, NodeDestroyed(n)  PROVE TurnStep
  <2>1. OfNode(n) \in SUBSET Reqs
    BY DEF OfNode, IInv, TypeOK
  <2>2. QED
    BY <1>6, <2>1, ReleaseTurns DEF NodeDestroyed
<1>7. CASE UNCHANGED vars
  BY <1>7, SameTurn DEF vars, listVars, seqVars
<1>8. QED
  BY <1>1, <1>2, <1>3, <1>4, <1>5, <1>6, <1>7 DEF Next

\* A turn starts with the full budget of retries, spends it one by one, and is
\* not disturbed by what is scheduled meanwhile.
THEOREM TurnsCorrect == Spec => Turns
  BY Invariance, NextTurns, PTL DEF Spec, Turns, TurnStep

-----------------------------------------------------------------------------
(* The pass of cancel_requests (NmtSweep), which Swept summarises: exact on  *)
(* a list shorter than SweepSafe, and never over the first.                  *)

SweepTypes ==
    /\ slot \in Seq(Nat)
    /\ lo \in Nat \ {0}
    /\ hi \in Nat /\ hi <= Len0
    /\ pos \in 1 .. Len0 + 1
    /\ mine \subseteq All
    /\ asked \in 0 .. Len0 /\ asked \notin mine
    /\ deleted \subseteq mine \cup {asked}

\* What was not visited is still in its slot.  Only the last request but one,
\* removed, moves something under the iterator: the last one, which is then
\* found again in the slot it has left.
WalkInv ==
    Len0 < Safe =>
      /\ state # "wild"
      /\ state = "sweep" =>
           /\ deleted = {r \in mine : r < pos}
           /\ \A j \in pos .. Len0 : slot[j] = j
           /\ \/ hi = Len0 /\ \A j \in lo .. pos - 1 : slot[j] < pos
              \/ pos = Len0 /\ hi = Len0 - 1 /\ \A j \in lo .. hi - 1 : slot[j] < pos
              \/ pos = Len0 + 1
      /\ state # "sweep" => deleted \ {asked} = mine

\* Until a request is removed, the list is what it was; then the first one is
\* removed.
FirstInv ==
    /\ state = "sweep" /\ deleted = {} => /\ \A j \in All : slot[j] = j
                                          /\ \A r \in mine : r >= pos
    /\ \A r \in mine :
          (\A x \in mine : r <= x) /\ (state # "sweep" \/ deleted # {})
            => r \in deleted

\* If the files stand before the ident request, so do the gaps their removal
\* leaves: behind its place stays what stood behind it.
BehindInv ==
    (\A x \in mine : x <= asked) =>
      /\ state # "used"
      /\ state = "walk" => pos > asked
      /\ \A j \in All : j > asked => slot[j] > asked

SweepInv == SweepTypes /\ WalkInv /\ FirstInv /\ BehindInv

LEMMA SweepInitInv == SweepInit => SweepInv
<1> SUFFICES ASSUME SweepInit  PROVE SweepInv
  OBVIOUS
<1>1. PICK n \in 1 .. MaxLen :
         /\ slot = [i \in 1 .. n |-> i]
         /\ lo = 1 /\ hi = n /\ mine \in SUBSET (1 .. n)
         /\ asked \in (0 .. n) \ mine
  BY DEF SweepInit
<1>2. n \in Nat \ {0}
  BY SweepAssumption
<1>3. slot \in Seq(Nat) /\ Len(slot) = n /\ \A j \in 1 .. n : slot[j] = j
  BY <1>1, <1>2
<1>4. pos = 1 /\ deleted = {} /\ state = "sweep"
  BY DEF SweepInit
<1>5. SweepTypes
  BY <1>1, <1>2, <1>3, <1>4 DEF SweepTypes, Len0, All
<1>6. WalkInv
  <2>1. deleted = {r \in mine : r < pos}
    <3>1. \A r \in mine : ~(r < pos)
      BY <1>1, <1>2, <1>4
    <3> QED BY <1>4, <3>1
  <2>2. /\ \A j \in pos .. Len0 : slot[j] = j
        /\ hi = Len0 /\ \A j \in lo .. pos - 1 : slot[j] < pos
    BY <1>1, <1>2, <1>3, <1>4 DEF Len0
  <2> QED BY <1>4, <2>1, <2>2 DEF WalkInv
<1>7. FirstInv
  BY <1>1, <1>2, <1>3, <1>4 DEF FirstInv, Len0, All
<1>8. BehindInv
  BY <1>1, <1>2, <1>3, <1>4 DEF BehindInv, Len0, All
<1> QED BY <1>5, <1>6, <1>7, <1>8 DEF SweepInv

\* A gap in slot i is closed from its left, or from its right.
LEMMA GapClosed ==
  ASSUME SweepTypes, NEW i \in lo .. hi, CloseGap(i)
  PROVE  /\ slot' \in Seq(Nat) /\ Len0' = Len0 /\ All' = All
         /\ \/ /\ i - lo < hi - i + 1
               /\ lo' = lo + 1 /\ hi' = hi
               /\ \A j \in All : slot'[j] = IF lo < j /\ j <= i THEN slot[j - 1] ELSE slot[j]
            \/ /\ i - lo >= hi - i + 1
               /\ lo' = lo /\ hi' = hi - 1
               /\ \A j \in All : slot'[j] = IF i <= j /\ j < hi THEN slot[j + 1] ELSE slot[j]
<1>1. Len0 \in Nat /\ All = 1 .. Len0 /\ \A j \in All : slot[j] \in Nat
  BY DEF SweepTypes, Len0, All
<1>2. lo \in Nat \ {0} /\ hi \in Nat /\ hi <= Len0
  BY DEF SweepTypes
<1>3. CASE i - lo < hi - i + 1
  <2>1. /\ slot' = [j \in All |-> IF lo < j /\ j <= i THEN slot[j - 1] ELSE slot[j]]
        /\ lo' = lo + 1 /\ hi' = hi
    BY <1>3 DEF CloseGap
  <2>2. \A j \in All : slot'[j] \in Nat
    <3> TAKE j \in All
    <3>1. lo < j => j - 1 \in All
      BY <1>1, <1>2
    <3> QED BY <1>1, <2>1, <3>1
  <2>3. slot' \in Seq(Nat) /\ Len(slot') = Len0
    BY <1>1, <2>1, <2>2
  <2> QED BY <1>3, <2>1, <2>3 DEF Len0, All
<1>4. CASE ~(i - lo < hi - i + 1)
  <2>1. /\ slot' = [j \in All |-> IF i <= j /\ j < hi THEN slot[j + 1] ELSE slot[j]]
        /\ lo' = lo /\ hi' = hi - 1
    BY <1>4 DEF CloseGap
  <2>2. \A j \in All : slot'[j] \in Nat
    <3> TAKE j \in All
    <3>1. j < hi => j + 1 \in All
      BY <1>1, <1>2
    <3> QED BY <1>1, <2>1, <3>1
  <2>3. slot' \in Seq(Nat) /\ Len(slot') = Len0
    BY <1>1, <2>1, <2>2
  <2> QED BY <1>2, <1>4, <2>1, <2>3 DEF Len0, All
<1> QED BY <1>3, <1>4

\* A gap that is closed before the ident request, or at its place, leaves what
\* stands behind it there.
LEMMA BehindStays ==
  ASSUME SweepTypes, NEW i \in lo .. hi, CloseGap(i), slot[i] <= asked,
         \A j \in All : j > asked => slot[j] > asked
  PROVE  \A j \in All' : j > asked => slot'[j] > asked
<1>1. /\ Len0 \in Nat /\ All = 1 .. Len0 /\ \A j \in All : slot[j] \in Nat
      /\ lo \in Nat \ {0} /\ hi \in Nat /\ hi <= Len0 /\ asked \in 0 .. Len0
  BY DEF SweepTypes, Len0, All
<1>2. i <= asked
  BY <1>1
<1>3. /\ All' = All
      /\ \/ \A j \in All : slot'[j] = IF lo < j /\ j <= i THEN slot[j - 1] ELSE slot[j]
         \/ \A j \in All : slot'[j] = IF i <= j /\ j < hi THEN slot[j + 1] ELSE slot[j]
  BY GapClosed
<1> SUFFICES ASSUME NEW j \in All, j > asked  PROVE slot'[j] > asked
  BY <1>3
<1>4. slot[j] > asked /\ ~(j <= i)
  BY <1>1, <1>2
<1>5. j < hi => j + 1 \in All /\ slot[j + 1] > asked
  BY <1>1
<1> QED BY <1>3, <1>4, <1>5

\* When the pass is over, every request of a short list was visited ...
LEMMA AllVisited ==
  ASSUME SweepTypes, WalkInv, state = "sweep", pos = Len0 + 1, Len0 < Safe
  PROVE  deleted \ {asked} = mine
<1>1. Len0 \in Nat /\ \A r \in mine : r \in Nat /\ r < pos
  BY DEF SweepTypes, All, Len0
<1>2. deleted = {r \in mine : r < pos} /\ asked \notin mine
  BY DEF WalkInv, SweepTypes
<1> QED BY <1>1, <1>2

\* ... and the first request to remove of a list of any length.
LEMMA FirstVisited ==
  ASSUME SweepTypes, FirstInv, state = "sweep", pos = Len0 + 1,
         NEW r \in mine, \A x \in mine : r <= x
  PROVE  r \in deleted
<1>1. r \in Nat /\ Len0 \in Nat /\ ~(r >= pos)
  BY DEF SweepTypes, All, Len0
<1> QED BY <1>1 DEF FirstInv

LEMMA RemoveInv ==
  ASSUME SweepInv, Remove  PROVE SweepInv'
<1>1. /\ SweepTypes /\ WalkInv /\ FirstInv /\ BehindInv
      /\ Len0 \in Nat /\ All = 1 .. Len0 /\ \A j \in All : slot[j] \in Nat
  BY DEF SweepInv, SweepTypes, Len0, All
<1>2. /\ state = "sweep" /\ state' = state /\ mine' = mine /\ asked' = asked
      /\ pos \in 1 .. Len0 /\ pos' = pos + 1
      /\ slot[pos] \notin deleted /\ slot[pos] \in mine
      /\ deleted' = deleted \cup {slot[pos]}
  BY <1>1 DEF Remove, AtEnd, Here, Owned, SweepTypes
<1>3. PICK i \in lo .. hi : slot[i] = slot[pos] /\ CloseGap(i)
  BY DEF Remove, Here
<1>4. /\ lo \in Nat \ {0} /\ hi \in Nat /\ hi <= Len0 /\ mine \subseteq All
  BY <1>1 DEF SweepTypes
<1>5. /\ slot' \in Seq(Nat) /\ Len0' = Len0 /\ All' = All
      /\ \/ /\ i - lo < hi - i + 1
            /\ lo' = lo + 1 /\ hi' = hi
            /\ \A j \in All : slot'[j] = IF lo < j /\ j <= i THEN slot[j - 1] ELSE slot[j]
         \/ /\ i - lo >= hi - i + 1
            /\ lo' = lo /\ hi' = hi - 1
            /\ \A j \in All : slot'[j] = IF i <= j /\ j < hi THEN slot[j + 1] ELSE slot[j]
  BY <1>1, <1>3, GapClosed
<1>6. SweepTypes'
  <2>1. /\ lo' \in Nat \ {0} /\ hi' \in Nat /\ hi' <= Len0
        /\ pos' \in 1 .. Len0 + 1
    BY <1>1, <1>2, <1>4, <1>5
  <2>2. deleted' \subseteq mine \cup {asked}
    BY <1>1, <1>2 DEF SweepTypes
  <2> QED BY <1>1, <1>2, <1>5, <2>1, <2>2 DEF SweepTypes
<1>7. WalkInv'
  <2>1. SUFFICES ASSUME Len0 < Safe  PROVE WalkInv'
    BY <1>5 DEF WalkInv, Safe
  <2>2. /\ deleted = {r \in mine : r < pos}
        /\ \A j \in pos .. Len0 : slot[j] = j
        /\ \/ hi = Len0 /\ \A j \in lo .. pos - 1 : slot[j] < pos
           \/ pos = Len0 /\ hi = Len0 - 1 /\ \A j \in lo .. hi - 1 : slot[j] < pos
    BY <1>1, <1>2, <2>1 DEF WalkInv
  <2>3. slot[pos] = pos /\ deleted' = {r \in mine' : r < pos'}
    <3>1. slot[pos] = pos
      BY <1>1, <1>2, <2>2
    <3>2. \A r \in mine : r < pos' <=> r < pos \/ r = pos
      BY <1>1, <1>2, <1>4
    <3> QED BY <1>2, <2>2, <3>1, <3>2
  <2>4. CASE hi = Len0 /\ \A j \in lo .. pos - 1 : slot[j] < pos
    <3>1. i = pos
      BY <1>1, <1>2, <1>3, <1>4, <2>2, <2>3, <2>4
    <3>2. CASE i - lo < hi - i + 1
      <4>1. /\ lo' = lo + 1 /\ hi' = hi
            /\ \A j \in All : slot'[j] = IF lo < j /\ j <= i THEN slot[j - 1] ELSE slot[j]
        BY <1>4, <1>5, <3>2
      <4>2. \A j \in pos' .. Len0 : slot'[j] = j
        BY <1>1, <1>2, <2>2, <3>1, <4>1
      <4>3. \A j \in lo' .. pos' - 1 : slot'[j] < pos'
        <5> TAKE j \in lo' .. pos' - 1
        <5>1. j \in All /\ lo < j /\ j <= i /\ j - 1 \in lo .. pos - 1
          BY <1>1, <1>2, <1>4, <3>1, <4>1
        <5>2. slot'[j] = slot[j - 1] /\ slot[j - 1] < pos /\ slot[j - 1] \in Nat
          BY <1>1, <1>2, <1>4, <2>4, <4>1, <5>1
        <5> QED BY <1>2, <5>2
      <4> QED BY <1>2, <1>5, <2>3, <2>4, <4>1, <4>2, <4>3 DEF WalkInv
    <3>3. CASE i - lo >= hi - i + 1
      <4>1. /\ lo' = lo /\ hi' = hi - 1
            /\ \A j \in All : slot'[j] = IF i <= j /\ j < hi THEN slot[j + 1] ELSE slot[j]
        BY <1>4, <1>5, <3>3
      <4>2. pos = Len0 \/ pos = Len0 - 1
        BY <1>1, <1>2, <1>4, <2>1, <2>4, <3>1, <3>3 DEF Safe
      <4>3. CASE pos = Len0
        BY <1>1, <1>2, <1>5, <2>3, <4>3 DEF WalkInv
      <4>4. CASE pos = Len0 - 1
        <5>1. \A j \in pos' .. Len0 : slot'[j] = j
          BY <1>1, <1>2, <2>2, <2>4, <3>1, <4>1, <4>4
        <5>2. \A j \in lo' .. hi' - 1 : slot'[j] < pos'
          <6> TAKE j \in lo' .. hi' - 1
          <6>1. j \in All /\ j < i /\ j \in lo .. pos - 1
            BY <1>1, <1>2, <1>4, <2>4, <3>1, <4>1, <4>4
          <6> QED BY <1>1, <1>2, <2>4, <4>1, <6>1
        <5> QED BY <1>1, <1>2, <1>5, <2>3, <2>4, <4>1, <4>4, <5>1, <5>2 DEF WalkInv
      <4> QED BY <4>2, <4>3, <4>4
    <3> QED BY <1>1, <1>2, <1>4, <3>1, <3>2, <3>3
  <2>5. CASE pos = Len0
    BY <1>1, <1>2, <1>5, <2>3, <2>5 DEF WalkInv
  <2> QED BY <2>2, <2>4, <2>5
<1>8. FirstInv'
  <2>1. ASSUME NEW r \in mine, \A x \in mine : r <= x
        PROVE  r \in deleted'
    <3>1. CASE deleted # {}
      BY <1>1, <1>2, <2>1, <3>1 DEF FirstInv
    <3>2. CASE deleted = {}
      <4>1. slot[pos] = pos /\ r >= pos
        BY <1>1, <1>2, <2>1, <3>2 DEF FirstInv
      <4>2. r <= pos /\ r \in Nat
        BY <1>1, <1>2, <1>4, <2>1, <4>1
      <4> QED BY <1>2, <4>1, <4>2
    <3> QED BY <3>1, <3>2
  <2> QED BY <1>2, <2>1 DEF FirstInv
<1>9. BehindInv'
  <2> SUFFICES ASSUME \A x \in mine : x <= asked  PROVE BehindInv'
    BY <1>2 DEF BehindInv
  <2>1. /\ slot[i] <= asked
        /\ \A j \in All : j > asked => slot[j] > asked
    BY <1>1, <1>2, <1>3 DEF BehindInv
  <2>2. \A j \in All' : j > asked => slot'[j] > asked
    BY <1>1, <1>3, <2>1, BehindStays
  <2> QED BY <1>2, <2>2 DEF BehindInv
<1> QED BY <1>6, <1>7, <1>8, <1>9 DEF SweepInv

LEMMA SweepNextInv ==
  ASSUME SweepInv, [SweepNext]_sweepVars  PROVE SweepInv'
<1>1. /\ SweepTypes /\ WalkInv /\ FirstInv /\ BehindInv
      /\ Len0 \in Nat /\ All = 1 .. Len0 /\ \A j \in All : slot[j] \in Nat
  BY DEF SweepInv, SweepTypes, Len0, All
<1>2. CASE Finish
  <2>1. /\ pos = Len0 + 1 /\ state = "sweep" /\ state' = "done" /\ asked = 0
        /\ UNCHANGED <<slot, lo, hi, pos, mine, asked, deleted>>
    BY <1>1, <1>2 DEF Finish, AtEnd, SweepTypes
  <2>2. SweepTypes' /\ BehindInv' /\ Len0' = Len0 /\ All' = All
    BY <1>1, <2>1 DEF SweepTypes, BehindInv, Len0, All
  <2>3. WalkInv' /\ FirstInv'
    <3>1. Len0 < Safe => deleted \ {asked} = mine
      BY <1>1, <2>1, AllVisited
    <3>2. \A r \in mine : (\A x \in mine : r <= x) => r \in deleted
      BY <1>1, <2>1, FirstVisited
    <3> QED BY <1>1, <2>1, <2>2, <3>1, <3>2 DEF WalkInv, FirstInv
  <2> QED BY <2>2, <2>3 DEF SweepInv
<1>3. CASE Skip
  <2>1. /\ state = "sweep" /\ pos \in 1 .. Len0 /\ pos' = pos + 1
        /\ slot[pos] \notin deleted /\ slot[pos] \notin mine
        /\ UNCHANGED <<slot, lo, hi, mine, asked, deleted, state>>
    BY <1>1, <1>3 DEF Skip, AtEnd, Here, Owned, SweepTypes
  <2>2. Len0' = Len0 /\ All' = All
    BY <2>1 DEF Len0, All
  <2>3. SweepTypes'
    BY <1>1, <2>1, <2>2 DEF SweepTypes
  <2>4. WalkInv'
    <3>1. SUFFICES ASSUME Len0 < Safe  PROVE WalkInv'
      BY <2>2 DEF WalkInv, Safe
    <3>2. /\ deleted = {r \in mine : r < pos} /\ mine \subseteq All /\ lo \in Nat
          /\ \A j \in pos .. Len0 : slot[j] = j
          /\ \/ hi = Len0 /\ \A j \in lo .. pos - 1 : slot[j] < pos
             \/ pos = Len0
      BY <1>1, <2>1, <3>1 DEF WalkInv, SweepTypes
    <3>3. slot[pos] = pos /\ deleted' = {r \in mine' : r < pos'}
      <4>1. slot[pos] = pos
        BY <1>1, <2>1, <3>2
      <4>2. \A r \in mine : r < pos' <=> r < pos
        BY <1>1, <2>1, <3>2, <4>1
      <4> QED BY <2>1, <3>2, <4>1, <4>2
    <3>4. CASE hi = Len0 /\ \A j \in lo .. pos - 1 : slot[j] < pos
      <4>1. \A j \in lo' .. pos' - 1 : slot'[j] < pos'
        <5> TAKE j \in lo' .. pos' - 1
        <5>1. j = pos \/ j \in lo .. pos - 1
          BY <2>1, <3>2
        <5> QED BY <2>1, <3>3, <3>4, <5>1, <1>1, <3>2, SMT DEF SweepTypes
      <4> QED BY <2>1, <2>2, <3>2, <3>3, <3>4, <4>1 DEF WalkInv
    <3>5. CASE pos = Len0
      BY <2>1, <2>2, <3>2, <3>3, <3>5, <1>1 DEF WalkInv
    <3> QED BY <3>2, <3>4, <3>5
  <2>5. FirstInv'
    <3>1. deleted = {} => \A r \in mine : r >= pos'
      <4> SUFFICES ASSUME deleted = {}, NEW r \in mine  PROVE r >= pos'
        OBVIOUS
      <4>1. slot[pos] = pos /\ r >= pos /\ r \in Nat
        BY <1>1, <2>1 DEF FirstInv, SweepTypes
      <4> QED BY <2>1, <4>1
    <3> QED BY <1>1, <2>1, <2>2, <3>1 DEF FirstInv
  <2>6. BehindInv'
    BY <1>1, <2>1, <2>2 DEF BehindInv
  <2> QED BY <2>3, <2>4, <2>5, <2>6 DEF SweepInv
<1>4. CASE Remove
  BY <1>4, RemoveInv
<1>5. CASE Wild
  <2>1. /\ state = "sweep" /\ pos \in 1 .. Len0 /\ slot[pos] \in deleted
        /\ (pos' = pos + 1 /\ state' = state) \/ (pos' = pos /\ state' = "wild")
        /\ UNCHANGED <<slot, lo, hi, mine, asked, deleted>>
    BY <1>1, <1>5 DEF Wild, AtEnd, Here, SweepTypes
  <2>2. Len0' = Len0 /\ All' = All
    BY <2>1 DEF Len0, All
  <2>3. SweepTypes'
    <3>1. pos' \in 1 .. Len0 + 1
      BY <1>1, <2>1
    <3> QED BY <1>1, <2>1, <2>2, <3>1 DEF SweepTypes
  <2>4. WalkInv'
    <3>1. SUFFICES ASSUME Len0 < Safe  PROVE FALSE
      BY <2>2 DEF WalkInv, Safe
    <3>2. slot[pos] = pos /\ deleted = {r \in mine : r < pos} /\ mine \subseteq All
      BY <1>1, <2>1, <3>1 DEF WalkInv, SweepTypes
    <3> QED BY <1>1, <2>1, <3>2
  <2>5. FirstInv'
    BY <1>1, <2>1, <2>2 DEF FirstInv
  <2>6. BehindInv'
    BY <1>1, <2>1, <2>2 DEF BehindInv
  <2> QED BY <2>3, <2>4, <2>5, <2>6 DEF SweepInv
<1>6. CASE AskedDeleted
  <2>1. /\ pos = Len0 + 1 /\ state = "sweep" /\ state' = "walk" /\ asked # 0
        /\ deleted' = deleted \cup {asked} /\ pos' = asked + 1
        /\ UNCHANGED <<mine, asked>>
    BY <1>1, <1>6 DEF AskedDeleted, AtEnd, SweepTypes, Onwards
  <2>2. PICK i \in lo .. hi : slot[i] = asked /\ CloseGap(i)
    BY <1>6 DEF AskedDeleted
  <2>3. /\ slot' \in Seq(Nat) /\ Len0' = Len0 /\ All' = All
        /\ lo' \in Nat \ {0} /\ hi' \in Nat /\ hi' <= Len0
    <3>1. /\ slot' \in Seq(Nat) /\ Len0' = Len0 /\ All' = All
          /\ (lo' = lo + 1 /\ hi' = hi) \/ (lo' = lo /\ hi' = hi - 1)
      BY <1>1, <2>2, GapClosed
    <3>2. lo \in Nat /\ hi \in Nat /\ hi <= Len0 /\ lo <= hi /\ Len0 \in Nat
      BY <1>1, <2>2 DEF SweepTypes
    <3>3. lo >= 1
      BY <1>1 DEF SweepTypes
    <3> QED BY <3>1, <3>2, <3>3
  <2>4. SweepTypes'
    BY <1>1, <2>1, <2>3 DEF SweepTypes
  <2>5. WalkInv' /\ FirstInv'
    <3>1. Len0 < Safe => deleted \ {asked} = mine
      BY <1>1, <2>1, AllVisited
    <3>2. \A r \in mine : (\A x \in mine : r <= x) => r \in deleted
      BY <1>1, <2>1, FirstVisited
    <3> QED BY <1>1, <2>1, <2>3, <3>1, <3>2 DEF WalkInv, FirstInv
  <2>6. BehindInv'
    <3> SUFFICES ASSUME \A x \in mine : x <= asked  PROVE BehindInv'
      BY <2>1 DEF BehindInv
    <3>1. \A j \in All : j > asked => slot[j] > asked
      BY <1>1 DEF BehindInv
    <3>2. slot[i] <= asked /\ asked \in Nat
      BY <1>1, <2>2 DEF SweepTypes
    <3>3. \A j \in All' : j > asked => slot'[j] > asked
      BY <1>1, <2>2, <3>1, <3>2, BehindStays
    <3> QED BY <2>1, <3>2, <3>3 DEF BehindInv
  <2> QED BY <2>4, <2>5, <2>6 DEF SweepInv
<1>7. CASE WalkEnds
  <2>1. state = "walk" /\ state' = "done" /\ UNCHANGED <<slot, lo, hi, pos, mine, asked, deleted>>
    BY <1>7 DEF WalkEnds
  <2> QED BY <1>1, <2>1
          DEF SweepInv, SweepTypes, WalkInv, FirstInv, BehindInv, Len0, All
<1>8. CASE WalkPasses
  <2>1. /\ state = "walk" /\ pos \in 1 .. Len0 /\ pos' = pos + 1
        /\ UNCHANGED <<slot, lo, hi, mine, asked, deleted, state>>
    BY <1>1, <1>8 DEF WalkPasses, AtEnd, SweepTypes
  <2>2. Len0' = Len0 /\ All' = All
    BY <2>1 DEF Len0, All
  <2>3. pos > asked => pos' > asked
    BY <1>1, <2>1 DEF SweepTypes
  <2>4. SweepTypes' /\ BehindInv'
    BY <1>1, <2>1, <2>2, <2>3 DEF SweepTypes, BehindInv
  <2> QED BY <1>1, <2>1, <2>2, <2>4 DEF SweepInv, WalkInv, FirstInv
<1>9. CASE WalkUses
  <2>1. /\ state = "walk" /\ pos \in 1 .. Len0 /\ slot[pos] \in deleted
        /\ (pos' = pos + 1 /\ state' = state) \/ (pos' = pos /\ state' = "used")
        /\ UNCHANGED <<slot, lo, hi, mine, asked, deleted>>
    BY <1>1, <1>9 DEF WalkUses, AtEnd, Here, SweepTypes
  <2>2. Len0' = Len0 /\ All' = All /\ pos' \in 1 .. Len0 + 1
    BY <1>1, <2>1 DEF Len0, All
  <2>3. ~ \A x \in mine : x <= asked
    <3> SUFFICES ASSUME \A x \in mine : x <= asked  PROVE FALSE
      OBVIOUS
    <3>1. slot[pos] > asked /\ asked \in Nat
      BY <1>1, <2>1 DEF BehindInv, SweepTypes
    <3>2. slot[pos] <= asked
      BY <1>1, <2>1, <3>1 DEF SweepTypes
    <3> QED BY <1>1, <2>1, <3>1, <3>2
  <2>4. SweepTypes' /\ BehindInv'
    BY <1>1, <2>1, <2>2, <2>3 DEF SweepTypes, BehindInv
  <2> QED BY <1>1, <2>1, <2>2, <2>4 DEF SweepInv, WalkInv, FirstInv
<1>10. CASE UNCHANGED sweepVars
  BY <1>1, <1>10
     DEF SweepInv, SweepTypes, WalkInv, FirstInv, BehindInv, sweepVars, Len0, All
<1> QED BY <1>2, <1>3, <1>4, <1>5, <1>6, <1>7, <1>8, <1>9, <1>10 DEF SweepNext

LEMMA SweepInvariance == SweepSpec => []SweepInv
BY SweepInitInv, SweepNextInv, PTL DEF SweepSpec

\* On a list of fewer than six requests, however many it may hold otherwise,
\* the pass removes all those of the node, or the files, and touches no deleted
\* one.
THEOREM SweepCorrect == SweepSpec => []ShortIsExact
<1>1. SweepInv => ShortIsExact
  BY DEF SweepInv, WalkInv, ShortIsExact
<1> QED BY <1>1, SweepInvariance, PTL

\* On a list of any length, the pass removes the first request of the node.
THEOREM SweepRemovesFirst == SweepSpec => []FirstIsRemoved
<1>1. SweepInv => FirstIsRemoved
  BY DEF SweepInv, FirstInv, FirstIsRemoved
<1> QED BY <1>1, SweepInvariance, PTL

\* On a list of any length, the walk that looks for the request an answer is
\* for touches a deleted request only if a request for a file, removed by the
\* answer, stood behind the ident request.
THEOREM AnswerCorrect == SweepSpec => []AnswerIsSafe
<1>1. SweepInv => AnswerIsSafe
  <2> SUFFICES ASSUME SweepInv, state = "used", \A x \in mine : ~(x > asked)
               PROVE  FALSE
    BY DEF AnswerIsSafe
  <2>1. \A x \in mine : x <= asked
    BY DEF SweepInv, SweepTypes, All, Len0
  <2> QED BY <2>1 DEF SweepInv, BehindInv
<1> QED BY <1>1, SweepInvariance, PTL
=============================================================================
