------------------------------ MODULE NmtSweep ------------------------------
(***************************************************************************)
(* The pass of PApxNodes::cancel_requests over the list of requests.  It   *)
(* is a range-based for over a QList whose body removes elements from the  *)
(* same list: the iterators keep walking over the slots of the array, while*)
(* QList closes each gap from its shorter side.                            *)
(*                                                                         *)
(* The list is an array of slots.  Elements live in the slots lo .. hi; a  *)
(* slot outside keeps its last value.                                      *)
(*                                                                         *)
(* The same pass is made by PApxNode::updateFiles over the requests of one *)
(* node when the answer to an ident request brings other files: it removes *)
(* the file requests.  That pass is nested in another walk over the same   *)
(* list, the one that looked for the request the answer is for: it goes on *)
(* behind the place of the ident request, which is deleted, too.           *)
(***************************************************************************)
EXTENDS Integers, Sequences, FiniteSets

CONSTANT MaxLen  \* bound: length of the list

ASSUME SweepAssumption == MaxLen \in Nat

VARIABLES
    slot,     \* the array: slot[i] is a request, named by its first index
    lo, hi,   \* first and last slot in use
    pos,      \* the iterator
    mine,     \* requests to remove: of the node that is cancelled, or files
    asked,    \* the ident request that is answered, 0 if a node is cancelled
    deleted,  \* requests that were finished and deleted
    state     \* "sweep"; "walk": the outer walk; "done"; a deleted object was
              \* used: "wild" by the pass, "used" by the outer walk

sweepVars == <<slot, lo, hi, pos, mine, asked, deleted, state>>

Len0 == Len(slot)
All == 1 .. Len0

\* Any list, any owner of its requests
SweepInit ==
    /\ \E n \in 1 .. MaxLen :
          /\ slot = [i \in 1 .. n |-> i]
          /\ lo = 1
          /\ hi = n
          /\ mine \in SUBSET (1 .. n)
          /\ asked \in (0 .. n) \ mine
    /\ pos = 1
    /\ deleted = {}
    /\ state = "sweep"

\* The loop ends at the end the list had when it began.
AtEnd == pos > Len0

\* The request the iterator points to
Here == slot[pos]

\* A slip: the request that has timed out, the first one, is passed.
OwnedLater(r) == r \in mine /\ r # 1

\* req->node() is the node that is cancelled
Owned(r) == r \in mine

Finish ==
    /\ state = "sweep"
    /\ AtEnd
    /\ asked = 0
    /\ state' = "done"
    /\ UNCHANGED <<slot, lo, hi, pos, mine, asked, deleted>>

\* A request of another node is passed.
Skip ==
    /\ state = "sweep"
    /\ ~AtEnd
    /\ Here \notin deleted
    /\ ~Owned(Here)
    /\ pos' = pos + 1
    /\ UNCHANGED <<slot, lo, hi, mine, asked, deleted, state>>

\* A slip: the gap is always closed from the right, as in a plain array.
CloseRight(i) ==
    /\ slot' = [j \in All |-> IF i <= j /\ j < hi THEN slot[j + 1] ELSE slot[j]]
    /\ hi' = hi - 1
    /\ lo' = lo

\* QListData::remove: the shorter part of the list is moved by one.
CloseGap(i) ==
    IF i - lo < hi - i + 1
      THEN /\ slot' = [j \in All |-> IF lo < j /\ j <= i THEN slot[j - 1]
                                                        ELSE slot[j]]
           /\ lo' = lo + 1
           /\ hi' = hi
      ELSE /\ slot' = [j \in All |-> IF i <= j /\ j < hi THEN slot[j + 1]
                                                        ELSE slot[j]]
           /\ hi' = hi - 1
           /\ lo' = lo

\* A request of the node is removed from the list, finished and deleted.
Remove ==
    /\ state = "sweep"
    /\ ~AtEnd
    /\ Here \notin deleted
    /\ Owned(Here)
    /\ \E i \in lo .. hi : slot[i] = Here /\ CloseGap(i)
    /\ deleted' = deleted \cup {Here}
    /\ pos' = pos + 1
    /\ UNCHANGED <<mine, asked, state>>

\* The slot holds the address of a deleted request: what its node() is, is
\* undefined.  The request is passed, or used.
Wild ==
    /\ state = "sweep"
    /\ ~AtEnd
    /\ Here \in deleted
    /\ \/ pos' = pos + 1 /\ UNCHANGED state
       \/ state' = "wild" /\ UNCHANGED pos
    /\ UNCHANGED <<slot, lo, hi, mine, asked, deleted>>

\* A slip: the outer walk looks once more at the place of the ident request.
OnwardsAgain == asked

\* Where the outer walk goes on: it has not moved since it found the request.
Onwards == asked + 1

\* The pass of updateFiles is over; check_response returns true and the ident
\* request is removed and deleted, too.
AskedDeleted ==
    /\ state = "sweep"
    /\ AtEnd
    /\ asked # 0
    /\ \E i \in lo .. hi : slot[i] = asked /\ CloseGap(i)
    /\ deleted' = deleted \cup {asked}
    /\ pos' = Onwards
    /\ state' = "walk"
    /\ UNCHANGED <<mine, asked>>

WalkEnds ==
    /\ state = "walk"
    /\ AtEnd
    /\ state' = "done"
    /\ UNCHANGED <<slot, lo, hi, pos, mine, asked, deleted>>

\* The other requests have other uids: none of them takes the answer.
WalkPasses ==
    /\ state = "walk"
    /\ ~AtEnd
    /\ Here \notin deleted
    /\ pos' = pos + 1
    /\ UNCHANGED <<slot, lo, hi, mine, asked, deleted, state>>

\* The slot holds the address of a deleted request, which is asked for its uid.
WalkUses ==
    /\ state = "walk"
    /\ ~AtEnd
    /\ Here \in deleted
    /\ \/ pos' = pos + 1 /\ UNCHANGED state
       \/ state' = "used" /\ UNCHANGED pos
    /\ UNCHANGED <<slot, lo, hi, mine, asked, deleted>>

SweepNext ==
    \/ Finish \/ Skip \/ Remove \/ Wild
    \/ AskedDeleted \/ WalkEnds \/ WalkPasses \/ WalkUses

SweepSpec == SweepInit /\ [][SweepNext]_sweepVars

-----------------------------------------------------------------------------
\* The shortest list for which the pass may go wrong
Safe == 6

\* In a shorter list the pass removes every request it is to remove, and
\* touches no deleted object.
ShortIsExact ==
    Len0 < Safe => /\ state # "wild"
                   /\ state = "done" => deleted \ {asked} = mine

\* However long the list is, the first request to remove is removed, before
\* any deleted object is touched.
FirstIsRemoved ==
    \A r \in mine :
        (\A x \in mine : r <= x) /\ state \in {"walk", "done", "wild", "used"}
          => r \in deleted

\* The walk of process_downlink over the requests, which the answer to an ident
\* request changes under it, asks no deleted request for its uid - unless a file
\* request stands behind the ident request: then it may.
AnswerIsSafe == state = "used" => \E x \in mine : x > asked

\* "clear all node requests": called from the timeout of the first request of
\* the list, the pass removes every request of that node.
ClearsNode ==
    asked = 0 /\ 1 \in mine /\ state = "done" => deleted = mine
=============================================================================
