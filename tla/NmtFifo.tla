------------------------------ MODULE NmtFifo ------------------------------
(***************************************************************************)
(* What the NMT request sequencer promises to the objects that make        *)
(* requests: a request joins a line or is refused, it is put on the air    *)
(* only when it is the oldest of the line, a request on the air is never   *)
(* displaced by one that joins, and a request ends once.                   *)
(***************************************************************************)
EXTENDS Integers

CONSTANT Reqs

VARIABLES
    phase,   \* "idle", "waiting", "sent" or "ended"
    ticket   \* place in the line

fifoVars == <<phase, ticket>>

Phases == {"idle", "waiting", "sent", "ended"}

FifoInit ==
    /\ phase = [r \in Reqs |-> "idle"]
    /\ ticket = [r \in Reqs |-> 0]

InLine == {r \in Reqs : phase[r] \in {"waiting", "sent"}}

\* r joins behind all others; requests that still wait may be replaced.
Join(r) ==
    /\ phase[r] = "idle"
    /\ \E gone \in SUBSET {x \in Reqs : phase[x] = "waiting"} :
          phase' = [x \in Reqs |-> IF x \in gone THEN "ended"
                                   ELSE IF x = r THEN "waiting" ELSE phase[x]]
    /\ \A x \in Reqs : x # r => ticket'[x] = ticket[x] /\ ticket[x] < ticket'[r]
    /\ ticket' = [ticket EXCEPT ![r] = ticket'[r]]

Refuse(r) ==
    /\ phase[r] = "idle"
    /\ phase' = [phase EXCEPT ![r] = "ended"]
    /\ UNCHANGED ticket

\* The oldest of the line is put on the air.
PutOnAir(r) ==
    /\ phase[r] = "waiting"
    /\ \A x \in InLine : ticket[r] <= ticket[x]
    /\ phase' = [phase EXCEPT ![r] = "sent"]
    /\ UNCHANGED ticket

\* Some requests of the line end: answered, given up or cancelled.
End ==
    /\ \E gone \in SUBSET InLine :
          phase' = [r \in Reqs |-> IF r \in gone THEN "ended" ELSE phase[r]]
    /\ UNCHANGED ticket

FifoNext ==
    \/ \E r \in Reqs : Join(r) \/ Refuse(r) \/ PutOnAir(r)
    \/ End

FifoSpec == FifoInit /\ [][FifoNext]_fifoVars
=============================================================================
