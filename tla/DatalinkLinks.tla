--------------------------- MODULE DatalinkLinks ---------------------------
(***************************************************************************)
(* The TCP links between two GCSs.  Each of them runs a server for clients *)
(* and has a remote, which connects to the server of the other one when    *)
(* the user switches it on.  A link carries packets once the server has    *)
(* read the request of the remote, and the remote the answer; each GCS     *)
(* forwards what it receives to all of its other connections.              *)
(*                                                                         *)
(* The handlers of a GCS run one at a time on its GUI event loop.  TCP is  *)
(* external: it delivers in order, late or never, and tells each end of    *)
(* the loss of the other one at its own time - or never, if the network is *)
(* cut and an end has nothing to send: the server has KeepAlive set on its *)
(* sockets, but the remote sets it before its socket is open, in vain.     *)
(***************************************************************************)
EXTENDS Naturals, FiniteSets

CONSTANTS
    GCS,        \* two ground controls
    MaxLinks,   \* bound: TCP connections of which one end is left
    MaxEvents,  \* bound: clicks of the users, cut links, other programs on a port
    None

Links == 1 .. MaxLinks
Ends == {"remote", "client"}

Link == [from  : GCS,
         stage : {"connecting", "foreign", "requested", "accepted", "answered"},
         ends  : (SUBSET Ends) \ {{}},
         cut   : BOOLEAN]

ASSUME ConstantsAssumption ==
    /\ Cardinality(GCS) = 2
    /\ None \notin Links \cup Link
    /\ MaxLinks \in Nat
    /\ MaxEvents \in Nat

VARIABLES
    http,       \* f_http is on
    listening,  \* httpServer listens
    serving,    \* f_http->active()
    binds,      \* timers that will call tryBindHttpServer
    busy,       \* another program of the host has the port
    activated,  \* DatalinkRemote: activated(), active()
    active,
    sock,       \* its _tcp: a link, or None when unconnected
    header,     \* readyRead is connected to readyReadHeader
    posted,     \* a queued socketDisconnected
    link,       \* TCP connections
    air,        \* copies of a packet: the link, and the end to read it
    hasty,      \* the remote was opened with a socketDisconnected still queued
    doubled,    \* the server was switched on with a timer still running
    crossed,    \* a remote was opened while the other one was connecting
    events      \* so far

serverVars == <<http, listening, serving, binds, busy, doubled>>
remoteVars == <<activated, active, sock, header, posted, hasty>>
vars == <<serverVars, remoteVars, link, air, crossed, events>>

Peer(g) == CHOOSE h \in GCS : h # g

TypeOK ==
    /\ {http, listening, serving, busy, doubled} \subseteq [GCS -> BOOLEAN]
    /\ binds \in [GCS -> Nat]
    /\ {activated, active, header, posted, hasty} \subseteq [GCS -> BOOLEAN]
    /\ sock \in [GCS -> Links \cup {None}]
    /\ \A g \in GCS :
          /\ active[g] => sock[g] # None
          /\ sock[g] # None => /\ activated[g]
                               /\ link[sock[g]] # None
                               /\ link[sock[g]].from = g
                               /\ "remote" \in link[sock[g]].ends
          /\ active[g] => link[sock[g]].stage = "answered"
    /\ link \in [Links -> Link \cup {None}]
    /\ air \subseteq {c \in Links \X Ends : link[c[1]] # None /\ c[2] \in link[c[1]].ends}
    /\ crossed \in BOOLEAN
    /\ events \in 0 .. MaxEvents

\* The constructor of the server calls httpActiveChanged in 500 ms.
Init ==
    /\ http = [g \in GCS |-> TRUE]
    /\ listening = [g \in GCS |-> FALSE]
    /\ serving = [g \in GCS |-> FALSE]
    /\ binds = [g \in GCS |-> 1]
    /\ busy \in [GCS -> BOOLEAN]
    /\ activated = [g \in GCS |-> FALSE]
    /\ active = [g \in GCS |-> FALSE]
    /\ sock = [g \in GCS |-> None]
    /\ header = [g \in GCS |-> FALSE]
    /\ posted = [g \in GCS |-> FALSE]
    /\ link = [l \in Links |-> None]
    /\ air = {}
    /\ hasty = [g \in GCS |-> FALSE]
    /\ doubled = [g \in GCS |-> FALSE]
    /\ crossed = FALSE
    /\ events = 0

Used == {l \in Links : link[l] # None}

\* Connections the kernel or the server of g holds, and those among them with a
\* DatalinkTcp that is active
Incoming(g) == {l \in Used : link[l].from # g /\ "client" \in link[l].ends}
Clients(g) == {l \in Incoming(g) : link[l].stage = "answered"}

\* The active connections of g, with the end that is its own
Active(g) == {<<l, "client">> : l \in Clients(g)}
             \cup (IF active[g] THEN {<<sock[g], "remote">>} ELSE {})

Far(e) == IF e = "remote" THEN "client" ELSE "remote"

\* The other end is gone, or the network is.
Broken(l) == link[l].cut \/ (link[l].stage # "connecting" /\ link[l].ends # Ends)

\* These ends, a set of pairs, are closed: what they have not read is lost.
Closed(S) ==
    /\ link' = [l \in Links |->
                  IF link[l] = None THEN None
                  ELSE LET rest == {e \in link[l].ends : <<l, e>> \notin S}
                       IN  IF rest = {} THEN None ELSE [link[l] EXCEPT !.ends = rest]]
    /\ air' = air \ S

-----------------------------------------------------------------------------
(* The server *)

\* tryBindHttpServer.  QTcpServer::listen fails if the port is taken, by another
\* program or by this very server.
TryBind(g, timers) ==
    LET bound == ~busy[g] /\ ~listening[g]
    IN  /\ listening' = [listening EXCEPT ![g] = @ \/ bound]
        /\ serving' = [serving EXCEPT ![g] = bound]
        /\ binds' = [binds EXCEPT ![g] = IF bound THEN timers ELSE timers + 1]

BindTimer(g) ==
    /\ binds[g] > 0
    /\ IF http[g] THEN TryBind(g, binds[g] - 1)
       ELSE binds' = [binds EXCEPT ![g] = @ - 1] /\ UNCHANGED <<listening, serving>>
    /\ UNCHANGED <<http, busy, doubled, remoteVars, link, air, crossed, events>>

Event == events < MaxEvents /\ events' = events + 1

\* httpActiveChanged, on
HttpOn(g) ==
    /\ Event
    /\ ~http[g]
    /\ http' = [http EXCEPT ![g] = TRUE]
    /\ TryBind(g, binds[g])
    /\ doubled' = [doubled EXCEPT ![g] = @ \/ binds[g] > 0]
    /\ UNCHANGED <<busy, remoteVars, link, air, crossed>>

\* A slip: the server is left open.
HttpOffListening(g) ==
    /\ Event
    /\ http[g]
    /\ http' = [http EXCEPT ![g] = FALSE]
    /\ serving' = [serving EXCEPT ![g] = FALSE]
    /\ Closed(Incoming(g) \X {"client"})
    /\ UNCHANGED <<listening, binds, busy, doubled, remoteVars, crossed>>

\* httpActiveChanged, off: clients are closed, and so is what waits for accept.
HttpOff(g) ==
    /\ Event
    /\ http[g]
    /\ http' = [http EXCEPT ![g] = FALSE]
    /\ listening' = [listening EXCEPT ![g] = FALSE]
    /\ serving' = [serving EXCEPT ![g] = FALSE]
    /\ Closed(Incoming(g) \X {"client"})
    /\ UNCHANGED <<binds, busy, doubled, remoteVars, crossed>>

\* f_alloff: the clients there are
DisconnectAll(g) ==
    LET clients == {l \in Incoming(g) : link[l].stage # "requested"}
    IN  /\ Event
        /\ clients # {}
        /\ Closed(clients \X {"client"})
        /\ UNCHANGED <<serverVars, remoteVars, crossed>>

\* newHttpConnection
Accept(g, l) ==
    /\ l \in Incoming(g)
    /\ link[l].stage = "requested"
    /\ IF http[g] /\ serving[g]
       THEN link' = [link EXCEPT ![l].stage = "accepted"] /\ UNCHANGED air
       ELSE Closed({<<l, "client">>})
    /\ UNCHANGED <<serverVars, remoteVars, crossed, events>>

\* readyReadHeader of a client: the request is answered.
ReadRequest(g, l) ==
    /\ l \in Incoming(g)
    /\ link[l].stage = "accepted"
    /\ link' = [link EXCEPT ![l].stage = "answered"]
    /\ UNCHANGED <<serverVars, remoteVars, air, crossed, events>>

\* socketError of a client; KeepAlive finds a network that is cut.
ClientLost(g, l) ==
    /\ l \in Incoming(g)
    /\ link[l].stage # "requested"
    /\ Broken(l)
    /\ Closed({<<l, "client">>})
    /\ UNCHANGED <<serverVars, remoteVars, crossed, events>>

-----------------------------------------------------------------------------
(* The remote *)

\* open(): an active connection to the same host
Exists(g) == Active(g) # {}

\* A slip: the answer is not listened to again.
ConnectDeaf(g) ==
    \E l \in Links \ Used :
        /\ \A k \in Links \ Used : l <= k
        /\ link' = [link EXCEPT ![l] = [from  |-> g,          stage |-> "connecting",
                                        ends  |-> {"remote"}, cut   |-> FALSE]]
        /\ sock' = [sock EXCEPT ![g] = l]
        /\ UNCHANGED header

\* DatalinkTcp::connectToHost
Connect(g) ==
    \E l \in Links \ Used :
        /\ \A k \in Links \ Used : l <= k
        /\ link' = [link EXCEPT ![l] = [from  |-> g,          stage |-> "connecting",
                                        ends  |-> {"remote"}, cut   |-> FALSE]]
        /\ sock' = [sock EXCEPT ![g] = l]
        /\ header' = [header EXCEPT ![g] = TRUE]

\* The other GCS is connecting, and nobody has given that connection up.
Crossing(g) ==
    \E l \in Used : /\ sock[Peer(g)] = l
                    /\ link[l].stage = "connecting" \/ l \in Incoming(g)

\* A slip: open() does not look for a connection to the same host.
SwitchOnUnchecked(g) ==
    /\ Event
    /\ ~activated[g]
    /\ Connect(g)
    /\ activated' = [activated EXCEPT ![g] = TRUE]
    /\ hasty' = [hasty EXCEPT ![g] = posted[g]]
    /\ crossed' = (crossed \/ (~Exists(g) /\ Crossing(g)))
    /\ UNCHANGED <<serverVars, active, posted, air>>

\* The user switches the remote on.  If there is a connection, it is switched
\* off again; nothing but the user ever switches it on once more.
SwitchOn(g) ==
    /\ Event
    /\ ~activated[g]
    /\ IF Exists(g)
       THEN UNCHANGED <<activated, sock, header, hasty, link, crossed>>
       ELSE /\ Connect(g)
            /\ activated' = [activated EXCEPT ![g] = TRUE]
            /\ hasty' = [hasty EXCEPT ![g] = posted[g]]
            /\ crossed' = (crossed \/ Crossing(g))
    /\ UNCHANGED <<serverVars, active, posted, air>>

Connecting(g) == sock[g] # None /\ link[sock[g]].stage = "connecting"

\* abort() of a connection emits disconnected(), whose slot is called through
\* the event queue.
Abort(g) ==
    /\ sock' = [sock EXCEPT ![g] = None]
    /\ posted' = [posted EXCEPT ![g] = @ \/ (sock[g] # None /\ ~Connecting(g))]
    /\ Closed({<<sock[g], "remote">>})

\* DatalinkSocket::close of the remote
CloseRemote(g) ==
    /\ Abort(g)
    /\ active' = [active EXCEPT ![g] = FALSE]

SwitchOff(g) ==
    /\ Event
    /\ activated[g]
    /\ activated' = [activated EXCEPT ![g] = FALSE]
    /\ CloseRemote(g)
    /\ UNCHANGED <<serverVars, header, hasty, crossed>>

\* The queued socketDisconnected
SocketDisconnected(g) ==
    /\ posted[g]
    /\ posted' = [posted EXCEPT ![g] = FALSE]
    /\ header' = [header EXCEPT ![g] = FALSE]
    /\ active' = [active EXCEPT ![g] = FALSE]
    /\ UNCHANGED <<serverVars, activated, sock, hasty, link, air, crossed, events>>

\* Posted events are handled before the network is looked at.
Hears(g) == sock[g] # None /\ ~posted[g]

\* connected(): requestDatalinkHeader
Connected(g) ==
    /\ Hears(g)
    /\ Connecting(g)
    /\ ~Broken(sock[g])
    /\ listening[Peer(g)]
    /\ link' = [link EXCEPT ![sock[g]].stage = "requested", ![sock[g]].ends = Ends]
    /\ UNCHANGED <<serverVars, remoteVars, air, crossed, events>>

\* connected(), to the other program that has the port
ConnectedElsewhere(g) ==
    /\ Hears(g)
    /\ Connecting(g)
    /\ ~Broken(sock[g])
    /\ busy[Peer(g)]
    /\ link' = [link EXCEPT ![sock[g]].stage = "foreign"]
    /\ UNCHANGED <<serverVars, remoteVars, air, crossed, events>>

\* readyReadHeader of the remote
ReadAnswer(g) ==
    /\ Hears(g)
    /\ link[sock[g]].stage = "answered"
    /\ header[g]
    /\ active' = [active EXCEPT ![g] = TRUE]
    /\ header' = [header EXCEPT ![g] = FALSE]
    /\ UNCHANGED <<serverVars, activated, sock, posted, hasty, link, air, crossed, events>>

\* No answer need come: the network is cut behind a remote that has sent its
\* request, or another program has taken the connection.
Unanswered(g) ==
    /\ sock[g] # None
    /\ ~Connecting(g)
    /\ link[sock[g]].cut \/ link[sock[g]].stage = "foreign"

\* What TCP is sure to report to the remote: that the connection is refused or
\* not answered, or that the server has closed it.
Lost(g) ==
    IF Connecting(g) THEN Broken(sock[g]) \/ ~listening[Peer(g)]
    ELSE Broken(sock[g]) /\ ~Unanswered(g)

\* socketError of the remote.  reconnect() is connected to signals of
\* DatalinkTcp that nobody emits (DatalinkSocket emits its own).
RemoteLost(g) ==
    /\ Hears(g)
    /\ Lost(g)
    /\ CloseRemote(g)
    /\ UNCHANGED <<serverVars, activated, header, hasty, crossed, events>>

\* The same, when the cut is noticed or the other program closes.
LossNoticed(g) ==
    /\ Hears(g)
    /\ Unanswered(g)
    /\ CloseRemote(g)
    /\ UNCHANGED <<serverVars, activated, header, hasty, crossed, events>>

-----------------------------------------------------------------------------
(* Packets *)

\* sendPacket on these connections; what is sent to a closed end is lost.
Sent(S) == {c \in {<<s[1], Far(s[2])>> : s \in S} : c[2] \in link[c[1]].ends}

\* Copies whose end is read
Moving == {c \in air : \E g \in GCS : c \in Active(g) /\ ~posted[g]}

\* A packet from the port of the vehicle
FromPort(g) ==
    /\ Moving = {}
    /\ air' = air \cup Sent(Active(g))
    /\ UNCHANGED <<serverVars, remoteVars, link, crossed, events>>

\* connectionPacketReceived: forwarded to all connections but the source
Deliver(g, c) ==
    /\ c \in Moving
    /\ c \in Active(g)
    /\ air' = (air \ {c}) \cup Sent(Active(g) \ {c})
    /\ UNCHANGED <<serverVars, remoteVars, link, crossed, events>>

-----------------------------------------------------------------------------
(* The network and the host *)

CutLink(l) ==
    /\ Event
    /\ l \in Used
    /\ ~Broken(l)
    /\ link' = [link EXCEPT ![l].cut = TRUE]
    /\ UNCHANGED <<serverVars, remoteVars, air, crossed>>

\* Another program takes the port, or gives it up.
OtherProgram(g) ==
    /\ Event
    /\ ~listening[g]
    /\ busy' = [busy EXCEPT ![g] = ~@]
    /\ UNCHANGED <<http, listening, serving, binds, doubled, remoteVars, link, air, crossed>>

RemoteLoop(g) ==
    \/ SocketDisconnected(g) \/ Connected(g) \/ ConnectedElsewhere(g)
    \/ ReadAnswer(g) \/ RemoteLost(g)

ServerLoop(g) == \E l \in Links : Accept(g, l) \/ ReadRequest(g, l) \/ ClientLost(g, l)

Forward == \E g \in GCS : \E c \in Links \X Ends : Deliver(g, c)

Environment ==
    \/ \E g \in GCS : \/ HttpOn(g) \/ HttpOff(g) \/ DisconnectAll(g)
                      \/ SwitchOn(g) \/ SwitchOff(g) \/ LossNoticed(g)
                      \/ FromPort(g) \/ OtherProgram(g)
    \/ \E l \in Links : CutLink(l)

Next ==
    \/ \E g \in GCS : BindTimer(g) \/ RemoteLoop(g) \/ ServerLoop(g)
    \/ Forward
    \/ Environment

Spec == Init /\ [][Next]_vars

\* Timers fire, event loops go on, and TCP delivers, or reports a loss that it is
\* sure to notice.
FairSpec ==
    /\ Spec
    /\ \A g \in GCS : /\ WF_vars(BindTimer(g))
                      /\ WF_vars(RemoteLoop(g))
                      /\ WF_vars(ServerLoop(g))
    /\ WF_vars(Forward)

-----------------------------------------------------------------------------
(* Properties *)

\* A server that listens takes clients, and one that does not says so.  The
\* exception: it was switched off and on while a retry was waiting, and of two
\* retries the later one finds the port taken by the first, forever.
ListeningServes ==
    \A g \in GCS : /\ serving[g] => listening[g] /\ http[g]
                   /\ listening[g] => serving[g] \/ doubled[g]

\* A remote that connects is active in the end, or has lost its connection.
\* The exceptions: it was switched off and on before the end of the earlier
\* connection was handled, which takes the slot for the answer away; the network
\* is cut while it waits for the answer, or another program has taken the
\* connection, and nothing limits the time it waits.
Connects ==
    \A g \in GCS :
        sock[g] # None ~> active[g] \/ sock[g] = None \/ hasty[g] \/ Unanswered(g)

\* No packet goes round forever.  The exception: both GCSs have connected to each
\* other at the same time, when neither could see the connection of the other.
Rests == []<>(Moving = {} \/ crossed)
=============================================================================
