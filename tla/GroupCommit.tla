---------------------------- MODULE GroupCommit ----------------------------
(***************************************************************************)
(* What a DatabaseSession promises to the objects that make requests of    *)
(* it: requests are served one at a time, in the order in which they came, *)
(* and each is answered once.  What they write is gathered in a batch,     *)
(* which is committed as a whole or lost as a whole; the answer of a       *)
(* request says whether it has cost the batch, and what is on the disk     *)
(* stays there.  Only a request that is made of several may be answered as *)
(* done and cost the batch all the same, later.                            *)
(***************************************************************************)
EXTENDS Naturals, Sequences

CONSTANTS Reqs, None

VARIABLES
    line,       \* requests not answered, in the order they came
    stage,      \* "waiting", or how the first one was served: "ok", "error",
                \* "skip"
    discarded,  \* requests that need not be served any more
    answer,     \* of each request
    batch,      \* requests whose writes are not committed
    disk,       \* requests whose writes are
    several,    \* requests that are made of several
    torn,       \* one of them was served as "ok" although a part of it failed:
                \* the batch may be lost instead of committed
    open        \* the session has not ended

groupVars == <<line, stage, discarded, answer, batch, disk, several, torn,
               open>>

InLine(r) == \E i \in 1 .. Len(line) : line[i] = r

GroupInit ==
    /\ line = <<>>
    /\ stage = "waiting"
    /\ discarded = {}
    /\ answer = [r \in Reqs |-> None]
    /\ batch = {}
    /\ disk = {}
    /\ several = {}
    /\ torn = FALSE
    /\ open = TRUE

Join(r) ==
    /\ open
    /\ ~InLine(r) /\ answer[r] = None
    /\ line' = Append(line, r)
    /\ several' \in {several, several \cup {r}}
    /\ UNCHANGED <<stage, discarded, answer, batch, disk, torn, open>>

Discard(r) ==
    /\ InLine(r)
    /\ discarded' = discarded \cup {r}
    /\ UNCHANGED <<line, stage, answer, batch, disk, several, torn, open>>

\* r has written into the batch or beside it, or has committed it, perhaps with
\* its own writes; it may have begun another one.
Kept(r, b) ==
    \/ batch' \in {b, b \cup {r}} /\ UNCHANGED disk
    \/ batch' = b /\ disk' = disk \cup {r}
    \/ batch' \subseteq {r} /\ disk' \in {disk \cup b, disk \cup b \cup {r}}

\* The batch is gone: it is lost as a whole, or r has committed it first.
Gone(r, b) ==
    /\ batch' = {}
    /\ \E own \in {{}, {r}} : disk' \in {disk \cup own, disk \cup b \cup own}

\* The batch that a request finds: it may be lost before, if it is torn.
Found == {batch} \cup (IF torn THEN {{}} ELSE {})

\* The first of the line is served.  An error, or a request that is not wanted
\* any more, costs the batch.
Serve(ok) ==
    /\ stage = "waiting" /\ line # <<>>
    /\ stage' = IF ok THEN "ok" ELSE "error"
    /\ \E b \in Found :
          IF ok /\ Head(line) \notin discarded
            THEN Kept(Head(line), b) /\ (torn' => torn \/ Head(line) \in several)
            ELSE Gone(Head(line), b) /\ torn' = FALSE
    /\ UNCHANGED <<line, discarded, answer, several, open>>

\* The first of the line is not served: it was discarded, or is now, because
\* the session ends.
Skip ==
    /\ stage = "waiting" /\ line # <<>>
    /\ stage' = "skip"
    /\ discarded' = discarded \cup {Head(line)}
    /\ UNCHANGED <<line, answer, batch, disk, several, torn, open>>

\* The first of the line is answered and leaves.
Answer ==
    /\ stage # "waiting"
    /\ answer' = [answer EXCEPT ![Head(line)] =
                    IF Head(line) \in discarded THEN "Discarded"
                    ELSE IF stage = "error" THEN "Error" ELSE "Success"]
    /\ line' = Tail(line)
    /\ stage' = "waiting"
    /\ UNCHANGED <<discarded, batch, disk, several, torn, open>>

\* The batch is committed, or lost if it is torn, but never while a request is
\* served.
Commit ==
    /\ stage = "waiting"
    /\ disk' = IF torn THEN disk ELSE disk \cup batch
    /\ batch' = {}
    /\ torn' = FALSE
    /\ UNCHANGED <<line, stage, discarded, answer, several, open>>

\* The session ends when all are answered; an open batch is lost.
End ==
    /\ line = <<>>
    /\ open' = FALSE
    /\ batch' = {}
    /\ torn' = FALSE
    /\ UNCHANGED <<line, stage, discarded, answer, disk, several>>

GroupNext ==
    \/ \E r \in Reqs : Join(r) \/ Discard(r)
    \/ \E ok \in BOOLEAN : Serve(ok)
    \/ Skip \/ Answer \/ Commit \/ End

GroupSpec == GroupInit /\ [][GroupNext]_groupVars
=============================================================================
