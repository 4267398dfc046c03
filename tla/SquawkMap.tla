----------------------------- MODULE SquawkMap -----------------------------
(***************************************************************************)
(* The identification of vehicles.  A vehicle marks its packets with its   *)
(* squawk, a short number, and with one byte of its uid.  PApx maps        *)
(* squawks to the vehicles that have identified themselves, asks for the   *)
(* ident of an unknown squawk, and assigns another one to a vehicle that   *)
(* has none or shares its own.                                             *)
(*                                                                         *)
(* The handlers of PApx run one at a time on the GUI event loop.  Vehicles *)
(* and another GCS are external: a vehicle answers those who ask for its   *)
(* squawk and takes the squawk it is assigned.  The link keeps the order   *)
(* of packets, delays them and loses some.                                 *)
(***************************************************************************)
EXTENDS Naturals, Sequences, FiniteSets, FiniteSetsExt, Functions

CONSTANTS
    Vehicles,        \* uids
    Squawks,         \* squawks that may be assigned; 0: none
    BlacklistLimit,  \* 1000: latest assignments that are remembered
    MaxLink,         \* bound: a vehicle sends when there are fewer packets under way
    MaxEvents,       \* bound: of the user, of another GCS, losses, reboots
    None

ASSUME ConstantsAssumption ==
    /\ Squawks \subseteq Nat \ {0}
    /\ IsFiniteSet(Squawks)
    /\ IsFiniteSet(Vehicles)
    /\ None \notin Vehicles \cup Nat
    /\ Vehicles \cap Nat = {}
    /\ BlacklistLimit \in Nat
    /\ MaxEvents \in Nat

VARIABLES
    carried,    \* squawk of a vehicle, 0: none
    known,      \* vehicles with a PApxVehicle in facts()
    squawk,     \* PApxVehicle::_squawk
    removing,   \* removed by the user, to be deleted by a timer of 1 s
    deleted,    \* number of PApxVehicle objects deleted
    squawkMap,  \* _squawk_map: a vehicle, or the number of a deleted object
    blacklist,  \* _squawk_blacklist
    reqIdent,   \* _req_ident
    reqTimer,   \* _reqTimer is active
    up,         \* packets from the vehicles
    down,       \* packets to the vehicles
    twice,      \* some vehicle was deleted when it had two squawks in the map
    crashed,    \* a deleted object was used
    events      \* so far

linkVars == <<up, down>>
reqVars  == <<reqIdent, reqTimer>>
gcsVars  == <<known, squawk, removing, deleted, squawkMap, blacklist, reqVars,
              twice, crashed>>
vars == <<carried, gcsVars, linkVars, events>>

Squawks0 == Squawks \cup {0}
Packet == [kind : {"ident", "data"}, from : Vehicles, squawk : Squawks0]
Order == [kind : {"ask"}, squawk : Squawks0]
         \cup [kind : {"assign"}, squawk : Squawks, to : Vehicles]

TypeOK ==
    /\ carried \in [Vehicles -> Squawks0]
    /\ removing \subseteq known /\ known \subseteq Vehicles
    /\ squawk \in [Vehicles -> Squawks0]
    /\ \A v \in known : squawk[v] # 0
    /\ deleted \in Nat
    /\ squawkMap \in [Squawks -> known \cup {None} \cup 1 .. deleted]
    /\ blacklist \in Seq(Squawks) /\ Len(blacklist) <= BlacklistLimit
    /\ reqIdent \in Seq(Squawks0) /\ IsInjective(reqIdent)
    /\ reqTimer \in BOOLEAN /\ (reqIdent # <<>> => reqTimer)
    /\ up \in Seq(Packet)
    /\ down \in Seq(Order)
    /\ {twice, crashed} \subseteq BOOLEAN
    /\ events \in 0 .. MaxEvents

\* A vehicle starts without a squawk or with one of another GCS.
Init ==
    /\ carried \in [Vehicles -> Squawks0]
    /\ known = {}
    /\ squawk = [v \in Vehicles |-> 0]
    /\ removing = {}
    /\ deleted = 0
    /\ squawkMap = [s \in Squawks |-> None]
    /\ blacklist = <<>>
    /\ reqIdent = <<>>
    /\ reqTimer = FALSE
    /\ up = <<>>
    /\ down = <<>>
    /\ twice = FALSE
    /\ crashed = FALSE
    /\ events = 0

SquawksOf(m, v) == {s \in Squawks : m[s] = v}

\* _squawk_map.remove(_squawk_map.key(v)): the lowest squawk of the object
Unmapped(m, v) ==
    IF SquawksOf(m, v) = {} THEN m ELSE [m EXCEPT ![Min(SquawksOf(m, v))] = None]

-----------------------------------------------------------------------------
(* PApx *)

\* A random squawk that is neither in the map nor on the list.  (The search
\* gives up after 32768 trials, and assigns the last one, as its counter has
\* wrapped around when it is tested.)
Offered(m) ==
    LET free == {s \in Squawks : m[s] = None /\ s \notin Range(blacklist)}
    IN  IF free = {} THEN Squawks ELSE free

\* assign_squawk()
Assign(v, m) ==
    /\ squawkMap' = m
    /\ \E s \in Offered(m) :
          LET b == Append(blacklist, s)
          IN  /\ blacklist' = IF Len(b) > BlacklistLimit THEN Tail(b) ELSE b
              /\ down' = Append(down, [kind |-> "assign", squawk |-> s, to |-> v])
    /\ UNCHANGED <<known, squawk, reqVars>>

\* removeAll(s) of a list in which no squawk is twice
Without(q, s) ==
    IF s \notin Range(q) THEN q
    ELSE LET n == CHOOSE i \in DOMAIN q : q[i] = s
         IN  SubSeq(q, 1, n - 1) \o SubSeq(q, n + 1, Len(q))

\* The vehicle is, or stays, in the map.
Identified(v, s) ==
    /\ squawkMap' = [squawkMap EXCEPT ![s] = v]
    /\ known' = known \cup {v}
    /\ squawk' = [squawk EXCEPT ![v] = s]
    /\ reqIdent' = IF squawkMap[s] = v THEN reqIdent
                   ELSE Without(reqIdent, s)
    /\ UNCHANGED <<blacklist, reqTimer, down>>

\* Slip: the squawk is taken from both, and no other assigned.
ConflictUnassigned(v, s) ==
    /\ squawkMap' = [squawkMap EXCEPT ![s] = None]
    /\ UNCHANGED <<known, squawk, blacklist, reqVars, down>>

\* The squawk is another vehicle's, or was that of one deleted.
Conflict(v, s) ==
    LET m == [squawkMap EXCEPT ![s] = None]
    IN  Assign(v, IF v \in known THEN Unmapped(Unmapped(m, v), squawkMap[s]) ELSE m)

\* Slip: one that is known by the squawk already is taken for a second one.
FitsOnce(v, s) == squawkMap[s] = None

\* The vehicle may have the squawk it says.
Fits(v, s) == squawkMap[s] \in {None, v}

\* process_downlink: an ident
HearIdent ==
    /\ ~crashed
    /\ up # <<>> /\ Head(up).kind = "ident"
    /\ up' = Tail(up)
    /\ LET v == Head(up).from
           s == Head(up).squawk
       IN  IF s = 0 THEN Assign(v, squawkMap)
           ELSE IF Fits(v, s) THEN Identified(v, s)
           ELSE Conflict(v, s)
    /\ UNCHANGED <<carried, removing, deleted, twice, crashed, events>>

\* request_ident_schedule()
Schedule(s) ==
    /\ IF s \in Range(reqIdent) THEN UNCHANGED <<reqIdent, down>>
       ELSE IF reqTimer
       THEN reqIdent' = Append(reqIdent, s) /\ UNCHANGED down
       ELSE down' = Append(down, [kind |-> "ask", squawk |-> s]) /\ UNCHANGED reqIdent
    /\ reqTimer' = TRUE

\* check_vuid() fails: the vehicle in the map is to move, whoever has sent
\* the packet.
Mismatch(v) == Assign(v, Unmapped([squawkMap EXCEPT ![squawk[v]] = None], v))

\* Who a packet is taken to be from
Sender(p) == IF p.squawk = 0 THEN None ELSE squawkMap[p.squawk]

\* process_downlink: a packet of a vehicle
HearData ==
    /\ ~crashed
    /\ up # <<>> /\ Head(up).kind = "data"
    /\ up' = Tail(up)
    /\ \/ /\ Sender(Head(up)) = None
          /\ Schedule(Head(up).squawk)
          /\ UNCHANGED <<known, squawk, squawkMap, blacklist, crashed>>
       \/ /\ Sender(Head(up)) \in Nat
          /\ crashed' = TRUE
          /\ UNCHANGED <<known, squawk, squawkMap, blacklist, reqVars, down>>
       \/ \* It is, or has a byte of the uid in common.
          /\ Sender(Head(up)) \in Vehicles
          /\ UNCHANGED <<known, squawk, squawkMap, blacklist, reqVars, down, crashed>>
    /\ UNCHANGED <<carried, removing, deleted, twice, events>>

HearMismatch ==
    /\ ~crashed
    /\ up # <<>> /\ Head(up).kind = "data"
    /\ up' = Tail(up)
    /\ Sender(Head(up)) \in Vehicles \ {Head(up).from}
    /\ Mismatch(Sender(Head(up)))
    /\ UNCHANGED <<carried, removing, deleted, twice, crashed, events>>

\* request_next(), by its timer
RequestNext ==
    /\ ~crashed
    /\ reqTimer
    /\ IF reqIdent = <<>> THEN reqTimer' = FALSE /\ UNCHANGED <<reqIdent, down>>
       ELSE /\ down' = Append(down, [kind |-> "ask", squawk |-> Head(reqIdent)])
            /\ reqIdent' = Tail(reqIdent)
            /\ UNCHANGED reqTimer
    /\ UNCHANGED <<carried, known, squawk, removing, deleted, squawkMap, blacklist,
                   up, twice, crashed, events>>

\* Slip: a removed vehicle keeps its squawk.
RemovedKept(v) == squawkMap

\* The connection to removed() of the object: the entry found by its value.
Removed(v) == Unmapped(squawkMap, v)

\* The timer of Vehicles::deleteVehicle deletes the vehicle with its protocol.
\* An entry of it that is left is the address of a deleted object.
Delete(v) ==
    /\ ~crashed
    /\ v \in removing
    /\ removing' = removing \ {v}
    /\ known' = known \ {v}
    /\ squawk' = [squawk EXCEPT ![v] = 0]
    /\ deleted' = deleted + 1
    /\ squawkMap' = [s \in Squawks |-> IF Removed(v)[s] = v THEN deleted' ELSE Removed(v)[s]]
    /\ twice' = (twice \/ Cardinality(SquawksOf(squawkMap, v)) > 1)
    /\ UNCHANGED <<carried, blacklist, reqVars, linkVars, crashed, events>>

-----------------------------------------------------------------------------
(* Vehicles, the user, another GCS, the link *)

Event == events < MaxEvents /\ events' = events + 1

\* Vehicles::deleteVehicle
RemoveVehicle(v) ==
    /\ Event
    /\ v \in known \ removing
    /\ removing' = removing \cup {v}
    /\ UNCHANGED <<carried, known, squawk, deleted, squawkMap, blacklist, reqVars,
                   linkVars, twice, crashed>>

Send(v) ==
    /\ Len(up) + Len(down) < MaxLink
    /\ up' = Append(up, [kind |-> "data", from |-> v, squawk |-> carried[v]])
    /\ UNCHANGED <<carried, down, gcsVars, events>>

\* The idents of some vehicles, in any order
Idents(S, s) ==
    {[i \in DOMAIN q |-> [kind |-> "ident", from |-> q[i], squawk |-> s]] :
        q \in {f \in [1 .. Cardinality(S) -> S] : IsInjective(f)}}

\* Those who are asked answer; one that is assigned a squawk takes it, and
\* says so.
VehicleHears ==
    /\ down # <<>>
    /\ down' = Tail(down)
    /\ LET d == Head(down)
       IN  \/ /\ d.kind = "ask"
              /\ \E q \in Idents({v \in Vehicles : carried[v] = d.squawk}, d.squawk) :
                    up' = up \o q
              /\ UNCHANGED carried
           \/ /\ d.kind = "assign"
              /\ carried' = [carried EXCEPT ![d.to] = d.squawk]
              /\ \E q \in Idents({d.to}, d.squawk) : up' = up \o q
    /\ UNCHANGED <<gcsVars, events>>

\* A vehicle starts anew, or another GCS assigns it a squawk.
Changes(v, s) ==
    /\ Event
    /\ s # carried[v]
    /\ carried' = [carried EXCEPT ![v] = s]
    /\ UNCHANGED <<linkVars, gcsVars>>

\* Another GCS asks for an ident: its answer is heard here too.
OtherAsks(s) ==
    /\ Event
    /\ down' = Append(down, [kind |-> "ask", squawk |-> s])
    /\ UNCHANGED <<carried, up, gcsVars>>

Lose ==
    /\ Event
    /\ \/ up # <<>> /\ up' = Tail(up) /\ UNCHANGED down
       \/ down # <<>> /\ down' = Tail(down) /\ UNCHANGED up
    /\ UNCHANGED <<carried, gcsVars>>

-----------------------------------------------------------------------------
Receive == HearIdent \/ HearData \/ HearMismatch

Events ==
    \/ \E v \in Vehicles : RemoveVehicle(v) \/ \E s \in Squawks0 : Changes(v, s)
    \/ \E s \in Squawks : OtherAsks(s)
    \/ Lose

Next ==
    \/ Receive \/ RequestNext \/ \E v \in Vehicles : Delete(v)
    \/ VehicleHears \/ \E v \in Vehicles : Send(v)
    \/ Events

Spec == Init /\ [][Next]_vars

\* The event loop goes on.  Of the outside: vehicles hear what arrives, each
\* goes on sending packets, and not all of them could be another's.
FairSpec ==
    /\ Spec
    /\ WF_vars(Receive) /\ SF_vars(HearMismatch)
    /\ WF_vars(RequestNext)
    /\ WF_vars(\E v \in Vehicles : Delete(v))
    /\ WF_vars(VehicleHears)
    /\ \A v \in Vehicles : SF_vars(Send(v))

-----------------------------------------------------------------------------
(* Properties *)

\* "identified vehicles" (PApx.h): an entry of the map is a vehicle that is
\* there - unless some vehicle had two entries when it was deleted, as only
\* one of them goes with it.  (Without the exception it fails: a vehicle
\* whose squawk was contested keeps the entry of an earlier one, is removed by
\* the user, and a packet with that squawk is given to the deleted object.)
MapNamesTheLiving ==
    twice \/ \A s \in Squawks : squawkMap[s] \in known \cup {None}

\* Each vehicle has a squawk of its own, by which the GCS knows it.
Settled ==
    /\ \A v \in Vehicles : carried[v] # 0 /\ squawkMap[carried[v]] = v
    /\ \A i \in DOMAIN up : up[i].squawk = carried[up[i].from]
    /\ \A i \in DOMAIN down : down[i].kind = "ask"

\* Once it is so, the GCS leaves it so: neither a repeated ident, nor an
\* answer another GCS has asked for, nor one that is late makes it assign
\* another squawk or forget a vehicle.  (Idents and packets of process_downlink.)
SettledStays == [][Settled /\ events' = events /\ deleted' = deleted => Settled']_vars

\* Whatever the vehicles start with - the same squawk, none, one of another
\* GCS - and whatever is lost on the way, process_downlink, check_vuid and
\* request_next make it so in the end; unless a packet was given to a vehicle
\* that had two entries in the map and was deleted (crashed).
Settles == <>[](Settled \/ crashed)

=============================================================================
