------------------------ MODULE DatalinkLinksProofs ------------------------
(***************************************************************************)
(* The server of DatalinkLinks.  ListeningServes says nothing of the timers*)
(* that retry the bind, so it is not inductive: a timer that fires at a    *)
(* listening server would make it refuse clients.  OneTimer adds that such *)
(* a timer exists only after the server was switched on with one waiting.  *)
(***************************************************************************)
EXTENDS DatalinkLinks, TLAPS

ServerTypes ==
    /\ http \in [GCS -> BOOLEAN]
    /\ listening \in [GCS -> BOOLEAN]
    /\ serving \in [GCS -> BOOLEAN]
    /\ doubled \in [GCS -> BOOLEAN]
    /\ binds \in [GCS -> Nat]

\* At most one timer runs, and none while the server listens.
OneTimer ==
    \A g \in GCS : ~doubled[g] => /\ binds[g] <= 1
                                  /\ listening[g] => binds[g] = 0

\* A server that is switched off does not listen.
ClosedWhenOff == \A g \in GCS : listening[g] => http[g]

ServerInv == ServerTypes /\ OneTimer /\ ClosedWhenOff /\ ListeningServes

LEMMA InitServer == Init => ServerInv
BY DEF Init, ServerInv, ServerTypes, OneTimer, ClosedWhenOff, ListeningServes

\* What TryBind does to the server it is called for, which is on by then.
LEMMA TryBindServer ==
    ASSUME ServerTypes, NEW g \in GCS, NEW timers \in Nat, TryBind(g, timers)
    PROVE  /\ listening' \in [GCS -> BOOLEAN]
           /\ serving' \in [GCS -> BOOLEAN]
           /\ binds' \in [GCS -> Nat]
           /\ listening[g] => listening'[g] /\ ~serving'[g] /\ binds'[g] = timers + 1
           /\ ~listening[g] => \/ listening'[g] /\ serving'[g] /\ binds'[g] = timers
                               \/ ~listening'[g] /\ ~serving'[g] /\ binds'[g] = timers + 1
           /\ \A h \in GCS \ {g} : /\ listening'[h] = listening[h]
                                   /\ serving'[h] = serving[h]
                                   /\ binds'[h] = binds[h]
<1> DEFINE bound == ~busy[g] /\ ~listening[g]
<1>1. /\ listening' = [listening EXCEPT ![g] = @ \/ bound]
      /\ serving' = [serving EXCEPT ![g] = bound]
      /\ binds' = [binds EXCEPT ![g] = IF bound THEN timers ELSE timers + 1]
  BY DEF TryBind
<1>2. bound \in BOOLEAN
  OBVIOUS
<1>3. timers + 1 \in Nat
  OBVIOUS
<1>4. CASE bound
  <2>1. /\ listening' = [listening EXCEPT ![g] = TRUE]
        /\ serving' = [serving EXCEPT ![g] = TRUE]
        /\ binds' = [binds EXCEPT ![g] = timers]
    BY <1>1, <1>4 DEF ServerTypes
  <2>2. ~listening[g]
    BY <1>4
  <2> QED  BY <2>1, <2>2 DEF ServerTypes
<1>5. CASE ~bound
  <2>1. /\ listening' = [listening EXCEPT ![g] = listening[g]]
        /\ serving' = [serving EXCEPT ![g] = FALSE]
        /\ binds' = [binds EXCEPT ![g] = timers + 1]
    BY <1>1, <1>5 DEF ServerTypes
  <2> QED  BY <2>1, <1>3 DEF ServerTypes
<1> QED  BY <1>4, <1>5

LEMMA BindTimerServer ==
    ASSUME ServerInv, NEW g \in GCS, BindTimer(g)
    PROVE  ServerInv'
<1>1. /\ binds[g] \in Nat /\ binds[g] > 0
      /\ http' = http /\ doubled' = doubled
  BY DEF BindTimer, ServerInv, ServerTypes
<1>2. CASE http[g]
  <2>1. TryBind(g, binds[g] - 1) /\ binds[g] - 1 \in Nat
    BY <1>1, <1>2 DEF BindTimer
  <2> DEFINE timers == binds[g] - 1
  <2>2. /\ listening' \in [GCS -> BOOLEAN]
        /\ serving' \in [GCS -> BOOLEAN]
        /\ binds' \in [GCS -> Nat]
        /\ listening[g] => listening'[g] /\ ~serving'[g] /\ binds'[g] = timers + 1
        /\ ~listening[g] => \/ listening'[g] /\ serving'[g] /\ binds'[g] = timers
                            \/ ~listening'[g] /\ ~serving'[g] /\ binds'[g] = timers + 1
        /\ \A h \in GCS \ {g} : /\ listening'[h] = listening[h]
                                /\ serving'[h] = serving[h]
                                /\ binds'[h] = binds[h]
    BY <2>1, TryBindServer DEF ServerInv
  <2>3. ServerTypes'
    BY <1>1, <2>2 DEF ServerInv, ServerTypes
  <2>4. listening[g] => doubled[g]
    BY <1>1 DEF ServerInv, OneTimer
  <2>5. OneTimer'
    BY <1>1, <2>2, <2>4 DEF ServerInv, ServerTypes, OneTimer
  <2>6. ListeningServes'
    BY <1>1, <1>2, <2>2, <2>4 DEF ServerInv, ListeningServes
  <2>7. ClosedWhenOff'
    BY <1>1, <1>2, <2>2 DEF ServerInv, ClosedWhenOff
  <2> QED  BY <2>3, <2>5, <2>6, <2>7 DEF ServerInv
<1>3. CASE ~http[g]
  <2>1. /\ binds' = [binds EXCEPT ![g] = binds[g] - 1]
        /\ listening' = listening /\ serving' = serving
    BY <1>3 DEF BindTimer
  <2>2. ServerTypes'
    BY <1>1, <2>1 DEF ServerInv, ServerTypes
  <2>3. OneTimer'
    BY <1>1, <2>1 DEF ServerInv, ServerTypes, OneTimer
  <2>4. ListeningServes'
    BY <1>1, <2>1 DEF ServerInv, ListeningServes
  <2>5. ClosedWhenOff'
    BY <1>1, <2>1 DEF ServerInv, ClosedWhenOff
  <2> QED  BY <2>2, <2>3, <2>4, <2>5 DEF ServerInv
<1> QED  BY <1>2, <1>3

LEMMA HttpOnServer ==
    ASSUME ServerInv, NEW g \in GCS, HttpOn(g)
    PROVE  ServerInv'
<1> DEFINE timers == binds[g]
<1>1. /\ timers \in Nat
      /\ ~http[g]
      /\ http' = [http EXCEPT ![g] = TRUE]
      /\ TryBind(g, timers)
      /\ doubled' = [doubled EXCEPT ![g] = @ \/ timers > 0]
  BY DEF HttpOn, ServerInv, ServerTypes
<1>2. /\ http' \in [GCS -> BOOLEAN]
      /\ http'[g]
      /\ \A h \in GCS \ {g} : http'[h] = http[h]
  BY <1>1 DEF ServerInv, ServerTypes
<1>3. /\ doubled' \in [GCS -> BOOLEAN]
      /\ ~doubled'[g] => timers = 0
      /\ \A h \in GCS \ {g} : doubled'[h] = doubled[h]
  <2>1. CASE timers > 0
    <3>1. doubled' = [doubled EXCEPT ![g] = TRUE]
      BY <1>1, <2>1 DEF ServerInv, ServerTypes
    <3> QED  BY <3>1 DEF ServerInv, ServerTypes
  <2>2. CASE timers = 0
    <3>1. ~(timers > 0)
      BY <2>2
    <3>2. doubled' = [doubled EXCEPT ![g] = doubled[g]]
      BY <1>1, <3>1, Zenon DEF ServerInv, ServerTypes
    <3> QED  BY <2>2, <3>2 DEF ServerInv, ServerTypes
  <2> QED  BY <1>1, <2>1, <2>2
<1>4. /\ listening' \in [GCS -> BOOLEAN]
      /\ serving' \in [GCS -> BOOLEAN]
      /\ binds' \in [GCS -> Nat]
      /\ listening[g] => listening'[g] /\ ~serving'[g] /\ binds'[g] = timers + 1
      /\ ~listening[g] => \/ listening'[g] /\ serving'[g] /\ binds'[g] = timers
                          \/ ~listening'[g] /\ ~serving'[g] /\ binds'[g] = timers + 1
      /\ \A h \in GCS \ {g} : /\ listening'[h] = listening[h]
                              /\ serving'[h] = serving[h]
                              /\ binds'[h] = binds[h]
  BY <1>1, TryBindServer DEF ServerInv
<1>5. ServerTypes'
  BY <1>2, <1>3, <1>4 DEF ServerTypes
<1>6. OneTimer'
  <2> SUFFICES ASSUME NEW h \in GCS, ~doubled'[h]
               PROVE  binds'[h] <= 1 /\ (listening'[h] => binds'[h] = 0)
    BY DEF OneTimer
  <2>1. CASE h = g
    <3>1. ~listening[g]
      BY <1>1 DEF ServerInv, ClosedWhenOff
    <3> QED  BY <2>1, <3>1, <1>2, <1>3, <1>4
  <2>2. CASE h # g
    BY <2>2, <1>2, <1>3, <1>4 DEF ServerInv, OneTimer
  <2> QED  BY <2>1, <2>2
<1>7. ListeningServes'
  <2> SUFFICES ASSUME NEW h \in GCS
               PROVE  /\ serving'[h] => listening'[h] /\ http'[h]
                      /\ listening'[h] => serving'[h] \/ doubled'[h]
    BY DEF ListeningServes
  <2>1. CASE h = g
    <3>1. ~listening[g]
      BY <1>1 DEF ServerInv, ClosedWhenOff
    <3> QED  BY <2>1, <3>1, <1>2, <1>3, <1>4
  <2>2. CASE h # g
    BY <2>2, <1>2, <1>3, <1>4 DEF ServerInv, ListeningServes
  <2> QED  BY <2>1, <2>2
<1>8. ClosedWhenOff'
  BY <1>2, <1>4 DEF ServerInv, ClosedWhenOff
<1> QED  BY <1>5, <1>6, <1>7, <1>8 DEF ServerInv

LEMMA HttpOffServer ==
    ASSUME ServerInv, NEW g \in GCS, HttpOff(g)
    PROVE  ServerInv'
<1>1. /\ http' = [http EXCEPT ![g] = FALSE]
      /\ listening' = [listening EXCEPT ![g] = FALSE]
      /\ serving' = [serving EXCEPT ![g] = FALSE]
      /\ binds' = binds /\ doubled' = doubled
  BY DEF HttpOff
<1>2. ServerTypes'
  BY <1>1 DEF ServerInv, ServerTypes
<1>3. OneTimer'
  BY <1>1 DEF ServerInv, ServerTypes, OneTimer
<1>4. ClosedWhenOff'
  BY <1>1 DEF ServerInv, ServerTypes, ClosedWhenOff
<1>5. ListeningServes'
  BY <1>1 DEF ServerInv, ServerTypes, ListeningServes
<1> QED  BY <1>2, <1>3, <1>4, <1>5 DEF ServerInv

\* Everything else leaves the server alone, but for the other program.
LEMMA NextServer ==
    ASSUME ServerInv, [Next]_vars
    PROVE  ServerInv'
<1> DEFINE Same == UNCHANGED <<http, listening, serving, binds, doubled>>
<1>1. ASSUME Same PROVE ServerInv'
  BY <1>1 DEF ServerInv, ServerTypes, OneTimer, ClosedWhenOff, ListeningServes
<1>2. ASSUME NEW g \in GCS, BindTimer(g) PROVE ServerInv'
  BY <1>2, BindTimerServer
<1>3. ASSUME NEW g \in GCS, RemoteLoop(g) PROVE Same
  BY <1>3 DEF RemoteLoop, SocketDisconnected, Connected, ConnectedElsewhere, ReadAnswer,
             RemoteLost, serverVars
<1>4. ASSUME NEW g \in GCS, ServerLoop(g) PROVE Same
  BY <1>4 DEF ServerLoop, Accept, ReadRequest, ClientLost, serverVars
<1>5. ASSUME Forward PROVE Same
  BY <1>5 DEF Forward, Deliver, serverVars
<1>6. ASSUME Environment PROVE ServerInv'
  <2>1. ASSUME NEW g \in GCS, HttpOn(g) PROVE ServerInv'
    BY <2>1, HttpOnServer
  <2>2. ASSUME NEW g \in GCS, HttpOff(g) PROVE ServerInv'
    BY <2>2, HttpOffServer
  <2>3. ASSUME NEW g \in GCS,
               \/ DisconnectAll(g) \/ SwitchOn(g) \/ SwitchOff(g) \/ LossNoticed(g)
               \/ FromPort(g) \/ OtherProgram(g)
        PROVE  Same
    BY <2>3 DEF DisconnectAll, SwitchOn, SwitchOff, LossNoticed, FromPort, OtherProgram,
               serverVars
  <2>4. ASSUME NEW l \in Links, CutLink(l) PROVE Same
    BY <2>4 DEF CutLink, serverVars
  <2> QED  BY <1>1, <1>6, <2>1, <2>2, <2>3, <2>4 DEF Environment
<1>7. ASSUME UNCHANGED vars PROVE Same
  BY <1>7 DEF vars, serverVars
<1> QED  BY <1>1, <1>2, <1>3, <1>4, <1>5, <1>6, <1>7 DEF Next

\* A server that listens takes clients, unless it was switched on with a retry
\* of the bind still waiting: tryBindHttpServer, for any number of events.
THEOREM ServerCorrect == Spec => []ListeningServes
<1>1. ServerInv => ListeningServes
  BY DEF ServerInv
<1> QED  BY InitServer, NextServer, <1>1, PTL DEF Spec

-----------------------------------------------------------------------------
(* Types.  TypeOK is inductive: its parts are what each action keeps. *)

BoolTypes ==
    /\ {http, listening, serving, busy, doubled} \subseteq [GCS -> BOOLEAN]
    /\ {activated, active, header, posted, hasty} \subseteq [GCS -> BOOLEAN]
    /\ binds \in [GCS -> Nat]
    /\ crossed \in BOOLEAN
    /\ events \in 0 .. MaxEvents

LinkTypes == link \in [Links -> Link \cup {None}]

AirTypes ==
    \A c \in air : /\ c \in Links \X Ends
                   /\ link[c[1]] # None
                   /\ c[2] \in link[c[1]].ends

\* The remote holds the end of a link of its own, and is active on an answered
\* one only.
SockTypes ==
    /\ sock \in [GCS -> Links \cup {None}]
    /\ \A g \in GCS :
          /\ active[g] => sock[g] # None
          /\ sock[g] # None => /\ activated[g]
                               /\ link[sock[g]] # None
                               /\ link[sock[g]].from = g
                               /\ "remote" \in link[sock[g]].ends
          /\ active[g] => link[sock[g]].stage = "answered"

TypeInv == BoolTypes /\ LinkTypes /\ AirTypes /\ SockTypes

LEMMA TypeParts == TypeOK <=> TypeInv
<1>1. air \subseteq {c \in Links \X Ends : link[c[1]] # None /\ c[2] \in link[c[1]].ends}
         <=> AirTypes
  BY DEF AirTypes
<1> QED  BY <1>1 DEF TypeOK, TypeInv, BoolTypes, LinkTypes, SockTypes

LEMMA NoneIsNoLink == None \notin Links /\ None \notin Link
BY ConstantsAssumption

\* What is left when ends are closed.
LEMMA ClosedKeeps ==
    ASSUME LinkTypes, AirTypes, NEW S, Closed(S)
    PROVE  /\ LinkTypes'
           /\ AirTypes'
           /\ \A l \in Links : \A e \in Ends :
                 link[l] # None /\ e \in link[l].ends /\ <<l, e>> \notin S
                 => /\ link'[l] # None
                    /\ link'[l].from = link[l].from
                    /\ link'[l].stage = link[l].stage
                    /\ e \in link'[l].ends
<1> DEFINE Rest(l) == {e \in link[l].ends : <<l, e>> \notin S}
<1>1. /\ link' = [l \in Links |->
                    IF link[l] = None THEN None
                    ELSE IF Rest(l) = {} THEN None ELSE [link[l] EXCEPT !.ends = Rest(l)]]
      /\ air' = air \ S
  BY DEF Closed
<1>2. ASSUME NEW l \in Links, link[l] # None, Rest(l) # {}
      PROVE  /\ link'[l] = [link[l] EXCEPT !.ends = Rest(l)]
             /\ link'[l] \in Link
             /\ link'[l].from = link[l].from
             /\ link'[l].stage = link[l].stage
             /\ link'[l].ends = Rest(l)
  <2>1. link[l] \in Link
    BY <1>2 DEF LinkTypes
  <2>2. Rest(l) \in (SUBSET Ends) \ {{}}
    BY <2>1, <1>2 DEF Link
  <2>3. link'[l] = [link[l] EXCEPT !.ends = Rest(l)]
    BY <1>1, <1>2
  <2> HIDE DEF Rest
  <2> QED  BY <2>1, <2>2, <2>3 DEF Link
<1>3. LinkTypes'
  <2>1. ASSUME NEW l \in Links PROVE link'[l] \in Link \cup {None}
    BY <1>1, <1>2
  <2> QED  BY <1>1, <2>1 DEF LinkTypes
<1>4. ASSUME NEW l \in Links, NEW e \in Ends,
             link[l] # None, e \in link[l].ends, <<l, e>> \notin S
      PROVE  /\ link'[l] # None
             /\ link'[l].from = link[l].from
             /\ link'[l].stage = link[l].stage
             /\ e \in link'[l].ends
  <2>1. e \in Rest(l)
    BY <1>4
  <2> QED  BY <1>2, <1>4, <2>1, NoneIsNoLink
<1>5. AirTypes'
  <2> SUFFICES ASSUME NEW c \in air'
               PROVE  /\ c \in Links \X Ends
                      /\ link'[c[1]] # None
                      /\ c[2] \in link'[c[1]].ends
    BY DEF AirTypes
  <2>1. c \in air /\ c \notin S
    BY <1>1
  <2>2. /\ c[1] \in Links /\ c[2] \in Ends /\ c = <<c[1], c[2]>>
        /\ link[c[1]] # None /\ c[2] \in link[c[1]].ends
    BY <2>1 DEF AirTypes
  <2> QED  BY <1>4, <2>1, <2>2
<1> QED  BY <1>3, <1>4, <1>5

\* One link changes, and keeps its ends at least.
LEMMA ChangedKeeps ==
    ASSUME LinkTypes, AirTypes, NEW l \in Links, NEW r \in Link,
           link' = [link EXCEPT ![l] = r], air' = air,
           link[l] # None => link[l].ends \subseteq r.ends
    PROVE  LinkTypes' /\ AirTypes'
<1>1. LinkTypes'
  BY DEF LinkTypes
<1>2. AirTypes'
  <2> SUFFICES ASSUME NEW c \in air
               PROVE  /\ c \in Links \X Ends
                      /\ link'[c[1]] # None
                      /\ c[2] \in link'[c[1]].ends
    BY DEF AirTypes
  <2>1. /\ c \in Links \X Ends /\ c[1] \in Links
        /\ link[c[1]] # None /\ c[2] \in link[c[1]].ends
    BY DEF AirTypes
  <2>2. CASE c[1] = l
    <3>1. link'[c[1]] = r
      BY <2>2 DEF LinkTypes
    <3> QED  BY <2>1, <2>2, <3>1, NoneIsNoLink
  <2>3. CASE c[1] # l
    <3>1. link'[c[1]] = link[c[1]]
      BY <2>1, <2>3 DEF LinkTypes
    <3> QED  BY <2>1, <3>1
  <2> QED  BY <2>2, <2>3
<1> QED  BY <1>1, <1>2

\* Ends of clients are closed: the remotes keep theirs.
LEMMA ClientsClosed ==
    ASSUME TypeInv, NEW S, Closed(S), \A c \in S : c[2] = "client",
           UNCHANGED remoteVars
    PROVE  LinkTypes' /\ AirTypes' /\ SockTypes'
<1>1. LinkTypes' /\ AirTypes'
  BY ClosedKeeps DEF TypeInv
<1>2. ASSUME NEW g \in GCS, sock[g] # None
      PROVE  /\ link'[sock[g]] # None
             /\ link'[sock[g]].from = g
             /\ link'[sock[g]].stage = link[sock[g]].stage
             /\ "remote" \in link'[sock[g]].ends
  <2>1. /\ sock[g] \in Links /\ link[sock[g]] # None /\ link[sock[g]].from = g
        /\ "remote" \in link[sock[g]].ends
    BY <1>2 DEF TypeInv, SockTypes
  <2>2. <<sock[g], "remote">> \notin S
    BY DEF Ends
  <2>3. "remote" \in Ends
    BY DEF Ends
  <2> QED  BY <2>1, <2>2, <2>3, ClosedKeeps DEF TypeInv
<1>3. SockTypes'
  BY <1>2 DEF TypeInv, SockTypes, remoteVars
<1> QED  BY <1>1, <1>3

\* A remote lets its own link go.
LEMMA CloseRemoteKeeps ==
    ASSUME TypeInv, NEW g \in GCS, CloseRemote(g),
           activated' = activated \/ activated' = [activated EXCEPT ![g] = FALSE]
    PROVE  /\ LinkTypes' /\ AirTypes' /\ SockTypes'
           /\ active' \in [GCS -> BOOLEAN] /\ posted' \in [GCS -> BOOLEAN]
           /\ activated' \in [GCS -> BOOLEAN]
<1> DEFINE S == {<<sock[g], "remote">>}
<1>1. /\ active' = [active EXCEPT ![g] = FALSE]
      /\ sock' = [sock EXCEPT ![g] = None]
      /\ posted' = [posted EXCEPT ![g] = @ \/ (sock[g] # None /\ ~Connecting(g))]
      /\ Closed(S)
  BY DEF CloseRemote, Abort
<1>2. LinkTypes' /\ AirTypes'
  BY <1>1, ClosedKeeps DEF TypeInv
<1>3. /\ active' \in [GCS -> BOOLEAN] /\ activated' \in [GCS -> BOOLEAN]
  BY <1>1 DEF TypeInv, BoolTypes
<1>4. posted' \in [GCS -> BOOLEAN]
  <2> DEFINE b == posted[g] \/ (sock[g] # None /\ ~Connecting(g))
  <2>1. posted' = [posted EXCEPT ![g] = b] /\ b \in BOOLEAN
    BY <1>1 DEF TypeInv, BoolTypes
  <2> HIDE DEF b
  <2> QED  BY <2>1 DEF TypeInv, BoolTypes
<1>5. SockTypes'
  <2>1. sock' \in [GCS -> Links \cup {None}]
    BY <1>1 DEF TypeInv, SockTypes
  <2> SUFFICES ASSUME NEW h \in GCS
               PROVE  /\ active'[h] => sock'[h] # None
                      /\ sock'[h] # None => /\ activated'[h]
                                            /\ link'[sock'[h]] # None
                                            /\ link'[sock'[h]].from = h
                                            /\ "remote" \in link'[sock'[h]].ends
                      /\ active'[h] => link'[sock'[h]].stage = "answered"
    BY <2>1 DEF SockTypes
  <2>2. CASE h = g
    <3>1. ~active'[h] /\ sock'[h] = None
      BY <1>1, <2>2 DEF TypeInv, BoolTypes, SockTypes
    <3> QED  BY <3>1
  <2>3. CASE h # g
    <3>1. /\ active'[h] = active[h] /\ sock'[h] = sock[h] /\ activated'[h] = activated[h]
      BY <1>1, <2>3 DEF TypeInv, BoolTypes, SockTypes
    <3>2. ASSUME sock[h] # None
          PROVE  /\ link'[sock[h]] # None
                 /\ link'[sock[h]].from = h
                 /\ link'[sock[h]].stage = link[sock[h]].stage
                 /\ "remote" \in link'[sock[h]].ends
      <4>1. /\ sock[h] \in Links /\ link[sock[h]] # None /\ link[sock[h]].from = h
            /\ "remote" \in link[sock[h]].ends
        BY <3>2 DEF TypeInv, SockTypes
      <4>2. sock[h] # sock[g]
        BY <2>3, <3>2, <4>1 DEF TypeInv, SockTypes
      <4>3. <<sock[h], "remote">> \notin S /\ "remote" \in Ends
        BY <4>2 DEF Ends
      <4> QED  BY <1>1, <4>1, <4>3, ClosedKeeps DEF TypeInv
    <3> QED  BY <3>1, <3>2 DEF TypeInv, SockTypes
  <2> QED  BY <2>2, <2>3
<1> QED  BY <1>2, <1>3, <1>4, <1>5

\* One link changes; no remote has it, or it stays as the remote needs it.
LEMMA ChangedSocks ==
    ASSUME TypeInv, NEW l \in Links, link[l] # None, NEW r \in Link,
           link' = [link EXCEPT ![l] = r], UNCHANGED remoteVars,
           r.from = link[l].from, link[l].ends \subseteq r.ends,
           link[l].stage = "answered" => r.stage = "answered"
    PROVE  SockTypes'
<1>1. ASSUME NEW g \in GCS, sock[g] # None
      PROVE  /\ link'[sock[g]] # None
             /\ link'[sock[g]].from = g
             /\ "remote" \in link'[sock[g]].ends
             /\ active[g] => link'[sock[g]].stage = "answered"
  <2>1. /\ sock[g] \in Links /\ link[sock[g]] # None /\ link[sock[g]].from = g
        /\ "remote" \in link[sock[g]].ends
        /\ active[g] => link[sock[g]].stage = "answered"
    BY <1>1 DEF TypeInv, SockTypes
  <2>2. CASE sock[g] = l
    <3>1. link'[sock[g]] = r
      BY <2>2 DEF TypeInv, LinkTypes
    <3> QED  BY <2>1, <2>2, <3>1, NoneIsNoLink
  <2>3. CASE sock[g] # l
    <3>1. link'[sock[g]] = link[sock[g]]
      BY <2>1, <2>3 DEF TypeInv, LinkTypes
    <3> QED  BY <2>1, <3>1
  <2> QED  BY <2>2, <2>3
<1> QED  BY <1>1 DEF TypeInv, SockTypes, remoteVars

\* The number of events is counted, or stays.
LEMMA EventTypes ==
    ASSUME BoolTypes, Event \/ events' = events
    PROVE  events' \in 0 .. MaxEvents
BY ConstantsAssumption DEF BoolTypes, Event

\* What is forwarded goes to ends that exist.
LEMMA SentTypes ==
    ASSUME TypeInv, NEW g \in GCS, NEW S, S \subseteq Active(g)
    PROVE  \A c \in Sent(S) : /\ c \in Links \X Ends
                              /\ link[c[1]] # None
                              /\ c[2] \in link[c[1]].ends
<1> SUFFICES ASSUME NEW c \in Sent(S)
             PROVE  /\ c \in Links \X Ends
                    /\ link[c[1]] # None
                    /\ c[2] \in link[c[1]].ends
  OBVIOUS
<1>1. PICK s \in S : c = <<s[1], Far(s[2])>> /\ c[2] \in link[c[1]].ends
  BY DEF Sent
<1>2. s[1] \in Links /\ link[s[1]] # None
  <2>1. CASE s \in {<<l, "client">> : l \in Clients(g)}
    BY <2>1 DEF Clients, Incoming, Used
  <2>2. CASE active[g] /\ s = <<sock[g], "remote">>
    BY <2>2 DEF TypeInv, SockTypes
  <2>3. s \in Active(g)
    OBVIOUS
  <2> QED  BY <2>1, <2>2, <2>3 DEF Active
<1>3. Far(s[2]) \in Ends
  BY DEF Far, Ends
<1> QED  BY <1>1, <1>2, <1>3

LEMMA InitTypes == Init => TypeInv
<1> SUFFICES ASSUME Init PROVE TypeInv
  OBVIOUS
<1>1. 0 \in 0 .. MaxEvents
  BY ConstantsAssumption
<1>2. BoolTypes
  BY <1>1 DEF Init, BoolTypes
<1> QED  BY <1>2 DEF Init, TypeInv, LinkTypes, AirTypes, SockTypes

\* Nothing but the server changes.
LEMMA ServerOnlyTypes ==
    ASSUME TypeInv, UNCHANGED <<remoteVars, link, air, crossed>>, BoolTypes'
    PROVE  TypeInv'
BY DEF TypeInv, LinkTypes, AirTypes, SockTypes, remoteVars

\* The server is changed by handlers with ServerTypes only.
LEMMA ServerBools ==
    ASSUME BoolTypes, ServerTypes', busy' \in [GCS -> BOOLEAN],
           UNCHANGED <<remoteVars, crossed>>, events' \in 0 .. MaxEvents
    PROVE  BoolTypes'
BY DEF BoolTypes, ServerTypes, remoteVars

LEMMA BindTimerTypes ==
    ASSUME TypeInv, NEW g \in GCS, BindTimer(g)
    PROVE  TypeInv'
<1>1. /\ binds[g] \in Nat /\ binds[g] > 0 /\ ServerTypes
      /\ UNCHANGED <<http, busy, doubled, remoteVars, link, air, crossed, events>>
  BY DEF BindTimer, TypeInv, BoolTypes, ServerTypes
<1>2. binds[g] - 1 \in Nat
  BY <1>1
<1>3. ServerTypes'
  <2>1. CASE http[g]
    <3>1. TryBind(g, binds[g] - 1)
      BY <2>1 DEF BindTimer
    <3>2. /\ listening' \in [GCS -> BOOLEAN] /\ serving' \in [GCS -> BOOLEAN]
          /\ binds' \in [GCS -> Nat]
      BY <1>1, <1>2, <3>1, TryBindServer
    <3> QED  BY <1>1, <3>2 DEF ServerTypes
  <2>2. CASE ~http[g]
    <3>1. /\ binds' = [binds EXCEPT ![g] = binds[g] - 1]
          /\ listening' = listening /\ serving' = serving
      BY <2>2 DEF BindTimer
    <3> QED  BY <1>1, <1>2, <3>1 DEF ServerTypes
  <2> QED  BY <2>1, <2>2
<1>4. BoolTypes'
  BY <1>1, <1>3, ServerBools DEF TypeInv, BoolTypes
<1> QED  BY <1>1, <1>4, ServerOnlyTypes

LEMMA HttpOnTypes ==
    ASSUME TypeInv, NEW g \in GCS, HttpOn(g)
    PROVE  TypeInv'
<1> DEFINE timers == binds[g]
<1>1. /\ timers \in Nat /\ ServerTypes
      /\ http' = [http EXCEPT ![g] = TRUE]
      /\ TryBind(g, timers)
      /\ doubled' = [doubled EXCEPT ![g] = @ \/ timers > 0]
      /\ Event
      /\ UNCHANGED <<busy, remoteVars, link, air, crossed>>
  BY DEF HttpOn, TypeInv, BoolTypes, ServerTypes
<1>2. /\ listening' \in [GCS -> BOOLEAN] /\ serving' \in [GCS -> BOOLEAN]
      /\ binds' \in [GCS -> Nat]
  BY <1>1, TryBindServer
<1>3. doubled' \in [GCS -> BOOLEAN] /\ http' \in [GCS -> BOOLEAN]
  <2> DEFINE b == doubled[g] \/ timers > 0
  <2>2. doubled' = [doubled EXCEPT ![g] = b] /\ b \in BOOLEAN
    BY <1>1, Zenon DEF ServerTypes
  <2> HIDE DEF b
  <2> QED  BY <1>1, <2>2 DEF ServerTypes
<1>4. ServerTypes'
  BY <1>2, <1>3 DEF ServerTypes
<1>5. events' \in 0 .. MaxEvents
  BY <1>1, EventTypes DEF TypeInv
<1>6. BoolTypes'
  BY <1>1, <1>4, <1>5, ServerBools DEF TypeInv, BoolTypes
<1> QED  BY <1>1, <1>6, ServerOnlyTypes

\* Clients are closed: by the switch, by the user, by the loss of a remote.
LEMMA ClosingTypes ==
    ASSUME TypeInv, NEW S, Closed(S), \A c \in S : c[2] = "client",
           UNCHANGED remoteVars, BoolTypes'
    PROVE  TypeInv'
BY ClientsClosed DEF TypeInv

LEMMA HttpOffTypes ==
    ASSUME TypeInv, NEW g \in GCS, HttpOff(g)
    PROVE  TypeInv'
<1> DEFINE S == Incoming(g) \X {"client"}
<1>1. /\ http' = [http EXCEPT ![g] = FALSE]
      /\ listening' = [listening EXCEPT ![g] = FALSE]
      /\ serving' = [serving EXCEPT ![g] = FALSE]
      /\ Closed(S) /\ Event
      /\ UNCHANGED <<binds, busy, doubled, remoteVars, crossed>>
  BY DEF HttpOff
<1>2. events' \in 0 .. MaxEvents
  BY <1>1, EventTypes DEF TypeInv
<1>3. ServerTypes'
  BY <1>1 DEF TypeInv, BoolTypes, ServerTypes
<1>4. BoolTypes'
  BY <1>1, <1>2, <1>3, ServerBools DEF TypeInv, BoolTypes
<1>5. \A c \in S : c[2] = "client"
  OBVIOUS
<1> HIDE DEF S
<1> QED  BY <1>1, <1>4, <1>5, ClosingTypes

\* Steps that leave the flags of both sides alone
LEMMA SameBools ==
    ASSUME TypeInv, UNCHANGED <<serverVars, remoteVars, crossed>>, Event \/ events' = events
    PROVE  BoolTypes'
<1>1. events' \in 0 .. MaxEvents
  BY EventTypes DEF TypeInv
<1> QED  BY <1>1 DEF TypeInv, BoolTypes, serverVars, remoteVars

LEMMA DisconnectAllTypes ==
    ASSUME TypeInv, NEW g \in GCS, DisconnectAll(g)
    PROVE  TypeInv'
<1> DEFINE clients == {l \in Incoming(g) : link[l].stage # "requested"}
           S == clients \X {"client"}
<1>1. /\ Closed(S) /\ Event /\ UNCHANGED <<serverVars, remoteVars, crossed>>
  BY DEF DisconnectAll
<1>2. \A c \in S : c[2] = "client"
  OBVIOUS
<1>3. BoolTypes'
  BY <1>1, SameBools
<1> HIDE DEF S
<1> QED  BY <1>1, <1>2, <1>3, ClosingTypes DEF remoteVars

LEMMA ClientLostTypes ==
    ASSUME TypeInv, NEW g \in GCS, NEW l \in Links, ClientLost(g, l)
    PROVE  TypeInv'
<1> DEFINE S == {<<l, "client">>}
<1>1. /\ Closed(S) /\ UNCHANGED <<serverVars, remoteVars, crossed, events>>
  BY DEF ClientLost
<1>2. \A c \in S : c[2] = "client"
  OBVIOUS
<1>3. BoolTypes'
  BY <1>1, SameBools
<1> HIDE DEF S
<1> QED  BY <1>1, <1>2, <1>3, ClosingTypes DEF remoteVars

\* A stage or the state of the network changes, of one link.
LEMMA ChangingTypes ==
    ASSUME TypeInv, NEW l \in Links, link[l] # None, NEW r \in Link,
           link' = [link EXCEPT ![l] = r], air' = air,
           UNCHANGED <<serverVars, remoteVars, crossed>>, Event \/ events' = events,
           r.from = link[l].from, link[l].ends \subseteq r.ends,
           link[l].stage = "answered" => r.stage = "answered"
    PROVE  TypeInv'
<1>1. BoolTypes'
  BY SameBools
<1>2. LinkTypes' /\ AirTypes'
  BY ChangedKeeps DEF TypeInv
<1>3. SockTypes'
  BY ChangedSocks
<1> QED  BY <1>1, <1>2, <1>3 DEF TypeInv

LEMMA AcceptTypes ==
    ASSUME TypeInv, NEW g \in GCS, NEW l \in Links, Accept(g, l)
    PROVE  TypeInv'
<1>1. /\ link[l] # None /\ link[l] \in Link /\ link[l].stage = "requested"
      /\ UNCHANGED <<serverVars, remoteVars, crossed, events>>
  BY DEF Accept, Incoming, Used, TypeInv, LinkTypes
<1>2. CASE http[g] /\ serving[g]
  <2> DEFINE r == [link[l] EXCEPT !.stage = "accepted"]
  <2>1. link' = [link EXCEPT ![l] = r] /\ air' = air
    BY <1>2 DEF Accept
  <2>2. r \in Link /\ r.from = link[l].from /\ link[l].ends \subseteq r.ends
    BY <1>1 DEF Link
  <2> HIDE DEF r
  <2> QED  BY <1>1, <2>1, <2>2, ChangingTypes
<1>3. CASE ~(http[g] /\ serving[g])
  <2> DEFINE S == {<<l, "client">>}
  <2>1. Closed(S)
    BY <1>3 DEF Accept
  <2>2. \A c \in S : c[2] = "client"
    OBVIOUS
  <2>3. BoolTypes'
    BY <1>1, SameBools
  <2> HIDE DEF S
  <2> QED  BY <1>1, <2>1, <2>2, <2>3, ClosingTypes DEF remoteVars
<1> QED  BY <1>2, <1>3

LEMMA ReadRequestTypes ==
    ASSUME TypeInv, NEW g \in GCS, NEW l \in Links, ReadRequest(g, l)
    PROVE  TypeInv'
<1> DEFINE r == [link[l] EXCEPT !.stage = "answered"]
<1>1. /\ link[l] # None /\ link[l] \in Link
      /\ link' = [link EXCEPT ![l] = r]
      /\ UNCHANGED <<serverVars, remoteVars, air, crossed, events>>
  BY DEF ReadRequest, Incoming, Used, TypeInv, LinkTypes
<1>2. r \in Link /\ r.from = link[l].from /\ link[l].ends \subseteq r.ends /\ r.stage = "answered"
  BY <1>1 DEF Link
<1> HIDE DEF r
<1> QED  BY <1>1, <1>2, ChangingTypes

LEMMA CutLinkTypes ==
    ASSUME TypeInv, NEW l \in Links, CutLink(l)
    PROVE  TypeInv'
<1> DEFINE r == [link[l] EXCEPT !.cut = TRUE]
<1>1. /\ link[l] # None /\ link[l] \in Link
      /\ link' = [link EXCEPT ![l] = r] /\ Event
      /\ UNCHANGED <<serverVars, remoteVars, air, crossed>>
  BY DEF CutLink, Used, TypeInv, LinkTypes
<1>2. /\ r \in Link /\ r.from = link[l].from /\ link[l].ends \subseteq r.ends
      /\ link[l].stage = "answered" => r.stage = "answered"
  BY <1>1 DEF Link
<1> HIDE DEF r
<1> QED  BY <1>1, <1>2, ChangingTypes

LEMMA ConnectedTypes ==
    ASSUME TypeInv, NEW g \in GCS, Connected(g)
    PROVE  TypeInv'
<1> DEFINE l == sock[g]
           r == [link[l] EXCEPT !.stage = "requested", !.ends = Ends]
<1>1. l \in Links /\ link[l] # None /\ link[l] \in Link
  BY DEF Connected, Hears, TypeInv, LinkTypes, SockTypes
<1>2. /\ link[l].stage = "connecting"
      /\ link' = [link EXCEPT ![l] = r]
      /\ UNCHANGED <<serverVars, remoteVars, air, crossed, events>>
  BY DEF Connected, Connecting
<1>3. r \in Link /\ r.from = link[l].from /\ link[l].ends \subseteq r.ends
  <2>1. Ends \in (SUBSET Ends) \ {{}}
    BY DEF Ends
  <2>2. link[l] \in Link /\ link[l].ends \subseteq Ends
    BY <1>1 DEF Link
  <2> QED  BY <2>1, <2>2 DEF Link
<1> HIDE DEF r
<1> QED  BY <1>1, <1>2, <1>3, ChangingTypes

LEMMA ConnectedElsewhereTypes ==
    ASSUME TypeInv, NEW g \in GCS, ConnectedElsewhere(g)
    PROVE  TypeInv'
<1> DEFINE l == sock[g]
           r == [link[l] EXCEPT !.stage = "foreign"]
<1>1. l \in Links /\ link[l] # None /\ link[l] \in Link
  BY DEF ConnectedElsewhere, Hears, TypeInv, LinkTypes, SockTypes
<1>2. /\ link[l].stage = "connecting"
      /\ link' = [link EXCEPT ![l] = r]
      /\ UNCHANGED <<serverVars, remoteVars, air, crossed, events>>
  BY DEF ConnectedElsewhere, Connecting
<1>3. r \in Link /\ r.from = link[l].from /\ link[l].ends \subseteq r.ends
  BY <1>1 DEF Link
<1> HIDE DEF r
<1> QED  BY <1>1, <1>2, <1>3, ChangingTypes

LEMMA SwitchOnTypes ==
    ASSUME TypeInv, NEW g \in GCS, SwitchOn(g)
    PROVE  TypeInv'
<1>1. /\ ~activated[g] /\ Event
      /\ UNCHANGED <<serverVars, active, posted, air>>
  BY DEF SwitchOn
<1>2. events' \in 0 .. MaxEvents
  BY <1>1, EventTypes DEF TypeInv
<1>3. CASE Exists(g)
  <2>1. UNCHANGED <<activated, sock, header, hasty, link, crossed>>
    BY <1>3 DEF SwitchOn
  <2> QED  BY <1>1, <1>2, <2>1
       DEF TypeInv, BoolTypes, LinkTypes, AirTypes, SockTypes, serverVars
<1>4. CASE ~Exists(g)
  <2> DEFINE r == [from |-> g, stage |-> "connecting", ends |-> {"remote"}, cut |-> FALSE]
  <2>1. /\ Connect(g)
        /\ activated' = [activated EXCEPT ![g] = TRUE]
        /\ hasty' = [hasty EXCEPT ![g] = posted[g]]
        /\ crossed' = (crossed \/ Crossing(g))
    BY <1>4 DEF SwitchOn
  <2>2. PICK l \in Links \ Used : /\ link' = [link EXCEPT ![l] = r]
                                  /\ sock' = [sock EXCEPT ![g] = l]
                                  /\ header' = [header EXCEPT ![g] = TRUE]
    BY <2>1 DEF Connect
  <2>3. l \in Links /\ link[l] = None
    BY <2>2 DEF Used
  <2>4. {"remote"} \in (SUBSET Ends) \ {{}}
    BY DEF Ends
  <2>5. r \in Link
    BY <2>4 DEF Link
  <2>6. r.from = g /\ r.ends = {"remote"}
    OBVIOUS
  <2> HIDE DEF r
  <2>7. LinkTypes' /\ AirTypes'
    BY <1>1, <2>2, <2>3, <2>5, ChangedKeeps DEF TypeInv
  <2>8. BoolTypes'
    <3>1. crossed' \in BOOLEAN
      BY <2>1 DEF TypeInv, BoolTypes
    <3> QED  BY <1>1, <1>2, <2>1, <2>2, <3>1 DEF TypeInv, BoolTypes, serverVars
  <2>9. SockTypes'
    <3>1. sock' \in [GCS -> Links \cup {None}]
      BY <2>2, <2>3 DEF TypeInv, SockTypes
    <3> SUFFICES ASSUME NEW h \in GCS
                 PROVE  /\ active'[h] => sock'[h] # None
                        /\ sock'[h] # None => /\ activated'[h]
                                              /\ link'[sock'[h]] # None
                                              /\ link'[sock'[h]].from = h
                                              /\ "remote" \in link'[sock'[h]].ends
                        /\ active'[h] => link'[sock'[h]].stage = "answered"
      BY <3>1 DEF SockTypes
    <3>2. CASE h = g
      <4>1. sock'[h] = l /\ link'[l] = r /\ activated'[h]
        BY <2>1, <2>2, <2>3, <3>2 DEF BoolTypes, TypeInv, SockTypes, LinkTypes
      <4>2. ~active'[h]
        BY <1>1, <3>2 DEF TypeInv, SockTypes
      <4> QED  BY <2>5, <2>6, <3>2, <4>1, <4>2, NoneIsNoLink
    <3>3. CASE h # g
      <4>1. /\ sock'[h] = sock[h] /\ active'[h] = active[h] /\ activated'[h] = activated[h]
        BY <1>1, <2>1, <2>2, <3>3 DEF TypeInv, SockTypes, BoolTypes
      <4>2. sock[h] # None => sock[h] # l /\ sock[h] \in Links
        BY <2>3 DEF TypeInv, SockTypes
      <4>3. sock[h] # None => link'[sock[h]] = link[sock[h]]
        BY <2>2, <4>2 DEF TypeInv, LinkTypes
      <4> QED  BY <4>1, <4>3 DEF TypeInv, SockTypes
    <3> QED  BY <3>2, <3>3
  <2> QED  BY <2>7, <2>8, <2>9 DEF TypeInv
<1> QED  BY <1>3, <1>4

LEMMA SwitchOffTypes ==
    ASSUME TypeInv, NEW g \in GCS, SwitchOff(g)
    PROVE  TypeInv'
<1>1. /\ activated' = [activated EXCEPT ![g] = FALSE]
      /\ CloseRemote(g) /\ Event
      /\ UNCHANGED <<serverVars, header, hasty, crossed>>
  BY DEF SwitchOff
<1>2. /\ LinkTypes' /\ AirTypes' /\ SockTypes'
      /\ active' \in [GCS -> BOOLEAN] /\ posted' \in [GCS -> BOOLEAN]
      /\ activated' \in [GCS -> BOOLEAN]
  BY <1>1, CloseRemoteKeeps
<1>3. events' \in 0 .. MaxEvents
  BY <1>1, EventTypes DEF TypeInv
<1>4. BoolTypes'
  BY <1>1, <1>2, <1>3 DEF TypeInv, BoolTypes, serverVars
<1> QED  BY <1>2, <1>4 DEF TypeInv

LEMMA RemoteLostTypes ==
    ASSUME TypeInv, NEW g \in GCS, RemoteLost(g) \/ LossNoticed(g)
    PROVE  TypeInv'
<1>1. /\ CloseRemote(g)
      /\ UNCHANGED <<serverVars, activated, header, hasty, crossed, events>>
  BY DEF RemoteLost, LossNoticed
<1>2. /\ LinkTypes' /\ AirTypes' /\ SockTypes'
      /\ active' \in [GCS -> BOOLEAN] /\ posted' \in [GCS -> BOOLEAN]
      /\ activated' \in [GCS -> BOOLEAN]
  BY <1>1, CloseRemoteKeeps
<1>3. BoolTypes'
  BY <1>1, <1>2 DEF TypeInv, BoolTypes, serverVars
<1> QED  BY <1>2, <1>3 DEF TypeInv

LEMMA SocketDisconnectedTypes ==
    ASSUME TypeInv, NEW g \in GCS, SocketDisconnected(g)
    PROVE  TypeInv'
<1>1. /\ posted' = [posted EXCEPT ![g] = FALSE]
      /\ header' = [header EXCEPT ![g] = FALSE]
      /\ active' = [active EXCEPT ![g] = FALSE]
      /\ UNCHANGED <<serverVars, activated, sock, hasty, link, air, crossed, events>>
  BY DEF SocketDisconnected
<1>2. BoolTypes'
  BY <1>1 DEF TypeInv, BoolTypes, serverVars
<1>3. SockTypes'
  BY <1>1 DEF TypeInv, BoolTypes, SockTypes
<1> QED  BY <1>1, <1>2, <1>3 DEF TypeInv, LinkTypes, AirTypes

LEMMA ReadAnswerTypes ==
    ASSUME TypeInv, NEW g \in GCS, ReadAnswer(g)
    PROVE  TypeInv'
<1>1. /\ sock[g] # None /\ link[sock[g]].stage = "answered"
      /\ active' = [active EXCEPT ![g] = TRUE]
      /\ header' = [header EXCEPT ![g] = FALSE]
      /\ UNCHANGED <<serverVars, activated, sock, posted, hasty, link, air, crossed, events>>
  BY DEF ReadAnswer, Hears
<1>2. BoolTypes'
  BY <1>1 DEF TypeInv, BoolTypes, serverVars
<1>3. SockTypes'
  BY <1>1 DEF TypeInv, BoolTypes, SockTypes
<1> QED  BY <1>1, <1>2, <1>3 DEF TypeInv, LinkTypes, AirTypes

LEMMA FromPortTypes ==
    ASSUME TypeInv, NEW g \in GCS, FromPort(g)
    PROVE  TypeInv'
<1>1. /\ air' = air \cup Sent(Active(g))
      /\ UNCHANGED <<serverVars, remoteVars, link, crossed, events>>
  BY DEF FromPort
<1>2. AirTypes'
  BY <1>1, SentTypes DEF TypeInv, AirTypes
<1>3. BoolTypes'
  BY <1>1, SameBools
<1> QED  BY <1>1, <1>2, <1>3 DEF TypeInv, LinkTypes, SockTypes, remoteVars

LEMMA DeliverTypes ==
    ASSUME TypeInv, NEW g \in GCS, NEW c, Deliver(g, c)
    PROVE  TypeInv'
<1> DEFINE S == Active(g) \ {c}
<1>1. /\ air' = (air \ {c}) \cup Sent(S)
      /\ UNCHANGED <<serverVars, remoteVars, link, crossed, events>>
  BY DEF Deliver
<1>2. S \subseteq Active(g)
  OBVIOUS
<1> HIDE DEF S
<1>3. AirTypes'
  BY <1>1, <1>2, SentTypes DEF TypeInv, AirTypes
<1>4. BoolTypes'
  BY <1>1, SameBools
<1> QED  BY <1>1, <1>3, <1>4 DEF TypeInv, LinkTypes, SockTypes, remoteVars

LEMMA OtherProgramTypes ==
    ASSUME TypeInv, NEW g \in GCS, OtherProgram(g)
    PROVE  TypeInv'
<1>1. /\ busy' = [busy EXCEPT ![g] = ~@] /\ Event
      /\ UNCHANGED <<http, listening, serving, binds, doubled, remoteVars, link, air, crossed>>
  BY DEF OtherProgram
<1>2. busy' \in [GCS -> BOOLEAN] /\ events' \in 0 .. MaxEvents
  BY <1>1, EventTypes DEF TypeInv, BoolTypes
<1>3. ServerTypes'
  BY <1>1 DEF TypeInv, BoolTypes, ServerTypes
<1>4. BoolTypes'
  BY <1>1, <1>2, <1>3, ServerBools DEF TypeInv
<1> QED  BY <1>1, <1>4, ServerOnlyTypes

LEMMA NextTypes ==
    ASSUME TypeInv, [Next]_vars
    PROVE  TypeInv'
<1>1. ASSUME NEW g \in GCS, BindTimer(g) PROVE TypeInv'
  BY <1>1, BindTimerTypes
<1>2. ASSUME NEW g \in GCS, RemoteLoop(g) PROVE TypeInv'
  BY <1>2, SocketDisconnectedTypes, ConnectedTypes, ConnectedElsewhereTypes,
     ReadAnswerTypes, RemoteLostTypes DEF RemoteLoop
<1>3. ASSUME NEW g \in GCS, ServerLoop(g) PROVE TypeInv'
  BY <1>3, AcceptTypes, ReadRequestTypes, ClientLostTypes DEF ServerLoop
<1>4. ASSUME Forward PROVE TypeInv'
  BY <1>4, DeliverTypes DEF Forward
<1>5. ASSUME Environment PROVE TypeInv'
  BY <1>5, HttpOnTypes, HttpOffTypes, DisconnectAllTypes, SwitchOnTypes, SwitchOffTypes,
     RemoteLostTypes, FromPortTypes, OtherProgramTypes, CutLinkTypes DEF Environment
<1>6. ASSUME UNCHANGED vars PROVE TypeInv'
  BY <1>6 DEF vars, serverVars, remoteVars, TypeInv, BoolTypes, LinkTypes, AirTypes, SockTypes
<1> QED  BY <1>1, <1>2, <1>3, <1>4, <1>5, <1>6 DEF Next

\* Every variable keeps its type; a remote holds a link only while it is
\* activated, and is active only on one whose request was answered: connectToHost,
\* close and the slots of the socket.
THEOREM TypeCorrect == Spec => []TypeOK
<1>1. TypeInv => TypeOK
  BY TypeParts
<1> QED  BY InitTypes, NextTypes, <1>1, PTL DEF Spec
=============================================================================
