------------------------- MODULE FileTransferProofs -------------------------
(***************************************************************************)
(* Proofs about FileTransfer, for any contents and any bounds.             *)
(*                                                                         *)
(* A download is right because the request and PApxNodeFile take the same  *)
(* parts, an upload because the link keeps the order of its packets.       *)
(***************************************************************************)
EXTENDS FileTransfer, TLAPS

\* What is on the link to the node, and from it
UpPackets ==
    {p \in [op : {"open", "data", "close"}, dir : Directions, no : Nat, at : Nat,
            val : Chunks \cup {None}] :
        p.op = "data" /\ p.dir = "write" => p.val \in Chunks}

DownPackets ==
    [op : {"open", "close"}, dir : Directions, no : Nat, at : Nat, val : Seq(Chunks)]
        \cup [op : {"data"}, dir : Directions, no : Nat, at : Nat, val : Chunks]
        \cup [op : {"abort"}, dir : Directions, no : Nat, at : Nat, val : {None}]

\* The types of what the proofs are about; TypeOK says more of the lengths.
Types ==
    /\ dir \in Directions \cup {None}
    /\ want \in Seq(Chunks)
    /\ op \in {"open", "data", "close"}
    /\ info \in Seq(Chunks)
    /\ got \in Seq(Chunks)
    /\ active \in BOOLEAN
    /\ tx \in {"idle", "send", "wait"}
    /\ openOp \in {"read", "write", None}
    /\ fileInfo \in Seq(Chunks)
    /\ data \in Seq(Chunks)
    /\ up \in Seq(UpPackets)
    /\ down \in Seq(DownPackets)
    /\ file \in Seq(Chunks)
    /\ part \in Seq(Chunks) \cup {None}
    /\ disturbed \in BOOLEAN /\ changed \in BOOLEAN /\ misled \in BOOLEAN
    /\ starts \in Nat

\* The request: what it asks for next fits its size.
RequestInv ==
    /\ tx = "idle" <=> dir = None
    /\ result # None => dir = None
    /\ dir # None /\ op = "data" => dir # "info" /\ Len(got) < Size
    /\ dir # None /\ op = "close" => Len(got) = Size
    /\ dir # None /\ op # "open" => active

\* The file and what closes it are contents the file has had.
HadInv ==
    /\ file \in had
    /\ \A i \in 1 .. Len(down) : down[i].op = "close" => down[i].val \in had
    /\ DownloadedIsWhole

Up(o) == \E i \in 1 .. Len(up) : up[i].op = o

\* The causes by which what is handed over can differ from the file
Calm == ~disturbed /\ ~changed

\* While a download is undisturbed, the file stays as it is from when the node
\* has opened it, and both objects on the GCS have collected the same.
ReadInv ==
    dir = "read" /\ Calm =>
      /\ \A i \in 1 .. Len(up) : up[i].dir = "read"
      /\ part # None =>
            /\ op = "open" /\ ~Up("data") /\ ~Up("close")
            /\ \A i \in 1 .. Len(down) : down[i].op = "abort"
      /\ \A i \in 1 .. Len(down) :
            /\ down[i].op \in {"open", "close"} => down[i].val = file
            /\ down[i].op \in {"open", "data"} => down[i].dir = "read"
            /\ down[i].op = "data" => down[i].at < Len(file)
      /\ op # "open" =>
            openOp = "read" /\ fileInfo = info /\ data = got /\ info = file

\* The data of a download has been handed over when its request reports it.
Delivered == result = "downloaded" /\ Calm => downloaded = got

\* After an undisturbed download no upload is open and none can be opened, so
\* that the file stays what was read of it.
KeptInv ==
    result = "downloaded" /\ Calm =>
      /\ got = file
      /\ part = None
      /\ \A i \in 1 .. Len(up) : up[i].dir = "read"

\* The node has written what was uploaded and has closed the file.
Done == op = "close" /\ part = None /\ file = want /\ ~Up("open")

\* The node has opened the file and has at least the first n chunks in place.
Has(n) ==
    \/ /\ part # None
       /\ n <= Len(part) /\ Len(part) <= Len(want)
       /\ \A i \in 1 .. Len(part) : part[i] = want[i]
    \/ Done

\* The packet belongs to the last request, or answers it.
Own(p) == p.no = starts

\* The packets of earlier requests, and the answers to them, come before those
\* of the last one.  What the other GCS is answered has no number.
OrderInv ==
    /\ dir # None => starts # 0
    /\ \A i \in 1 .. Len(up) :
         /\ up[i].no \in 1 .. starts
         /\ \A j \in 1 .. Len(up) : i < j /\ Own(up[i]) => Own(up[j])
    /\ \A i \in 1 .. Len(down) :
         /\ down[i].no \in 0 .. starts
         /\ down[i].no = 0 => down[i].dir = "read"
         /\ Own(down[i]) => \A j \in 1 .. Len(up) : Own(up[j])
         /\ \A j \in 1 .. Len(down) : i < j /\ Own(down[i]) => ~Earlier(down[j])

\* Nothing of an earlier request is left under way.
Alone ==
    /\ \A i \in 1 .. Len(up) : Own(up[i])
    /\ \A i \in 1 .. Len(down) : ~Earlier(down[i])

\* The packets of an upload are on the link in their order.
UpInv ==
    \A i \in 1 .. Len(up) :
      Own(up[i]) =>
        /\ up[i].dir = "write"
        /\ up[i].op = "data" => /\ op # "open"
                                /\ up[i].at < Len(want)
                                /\ up[i].val = want[up[i].at + 1]
        /\ up[i].op = "close" => op = "close"
        /\ \A j \in 1 .. Len(up) : i < j =>
              /\ up[j].op = "open" => up[i].op = "open"

\* The answer at i is to the opening of the upload.
OpenedAt(i) == Own(down[i]) /\ down[i].op = "open" /\ down[i].dir = "write"

\* The answer at i is to a part of the upload.
WrittenAt(i) == Own(down[i]) /\ down[i].op = "data" /\ down[i].dir = "write"

\* The answer at i is to a closing, not to one of an earlier request.
ClosedAt(i) == ~Earlier(down[i]) /\ down[i].op = "close"

\* An answer to the upload tells what the node has.  The closing of a file by
\* another GCS comes before the upload has begun, or after its end.
DownInv ==
    \A i \in 1 .. Len(down) :
      /\ OpenedAt(i) => Has(0)
      /\ WrittenAt(i) => op # "open" /\ ~Up("open") /\ Has(down[i].at + 1)
      /\ ClosedAt(i)
            => Done \/ (op = "open" /\ \A j \in 1 .. i : ~OpenedAt(j))

\* The node has what was confirmed.  When the answer to opening is the one to
\* this request, nothing of an earlier one can come after it.
WriteInv ==
    dir = "write" /\ ~changed /\ ~misled =>
      /\ UpInv
      /\ DownInv
      /\ op # "open" => Alone /\ Has(Len(got)) /\ (got # <<>> => ~Up("open"))

IInv ==
    /\ Types
    /\ RequestInv
    /\ HadInv
    /\ ReadInv
    /\ Delivered
    /\ KeptInv
    /\ OrderInv
    /\ WriteInv

-----------------------------------------------------------------------------
(* Packets and the link *)

\* What a packet to the node carries is determined by its operation.
LEMMA UpPacketTypes ==
  ASSUME NEW p \in UpPackets
  PROVE  /\ p.op \in {"open", "data", "close"}
         /\ p.dir \in Directions
         /\ p.no \in Nat /\ p.at \in Nat
         /\ p.op = "data" /\ p.dir = "write" => p.val \in Chunks
BY DEF UpPackets

\* What an answer carries is determined by its operation, too.
LEMMA DownPacketTypes ==
  ASSUME NEW p \in DownPackets
  PROVE  /\ p.op \in {"open", "data", "close", "abort"}
         /\ p.dir \in Directions
         /\ p.no \in Nat /\ p.at \in Nat
         /\ p.op \in {"open", "close"} => p.val \in Seq(Chunks)
         /\ p.op = "data" => p.val \in Chunks
BY DEF DownPackets

\* A packet goes to the end of a link, or is lost.
LEMMA OntoFacts ==
  ASSUME NEW S, NEW link \in Seq(S), NEW p \in S
  PROVE  /\ Onto(link, p) \in Seq(S)
         /\ Len(link) \in Nat /\ Len(Onto(link, p)) \in Nat
         /\ \A i \in 1 .. Len(Onto(link, p)) :
              \/ i \in 1 .. Len(link) /\ Onto(link, p)[i] = link[i]
              \/ i = Len(link) + 1 /\ Onto(link, p)[i] = p
<1>1. CASE Len(link) < MaxLink
  <2>1. Onto(link, p) = Append(link, p)
    BY <1>1 DEF Onto
  <2>2. QED
    BY <2>1
<1>2. CASE ~(Len(link) < MaxLink)
  BY <1>2 DEF Onto
<1>3. QED
  BY <1>1, <1>2

\* The first packet of a link is taken.
LEMMA TailFacts ==
  ASSUME NEW S, NEW link \in Seq(S), link # <<>>
  PROVE  /\ Tail(link) \in Seq(S)
         /\ Len(link) \in Nat /\ Len(Tail(link)) \in Nat
         /\ 1 \in 1 .. Len(link)
         /\ Head(link) = link[1]
         /\ link[1] \in S
         /\ \A i \in 1 .. Len(Tail(link)) :
              i + 1 \in 1 .. Len(link) /\ Tail(link)[i] = link[i + 1]
OBVIOUS

\* The answers of the node are packets.
LEMMA AnswerTypes ==
  ASSUME NEW p \in UpPackets,
         NEW v, p.op \in {"open", "close"} => v \in Seq(Chunks),
         p.op = "data" => v \in Chunks
  PROVE  /\ [op |-> p.op, dir |-> p.dir, no |-> p.no, at |-> p.at, val |-> v] \in DownPackets
         /\ [op |-> "abort", dir |-> p.dir, no |-> p.no, at |-> p.at, val |-> None] \in DownPackets
BY UpPacketTypes DEF DownPackets

-----------------------------------------------------------------------------
(* Types *)

\* What the request sends is a packet.
LEMMA PacketType ==
  ASSUME Types, RequestInv, tx = "send"  PROVE Packet \in UpPackets
<1>1. dir \in Directions
  BY DEF Types, RequestInv
<1>2. Len(got) \in Nat /\ Len(want) \in Nat
  BY DEF Types
<1>3. op = "data" /\ dir = "write" => Len(got) + 1 \in 1 .. Len(want)
  BY <1>1, <1>2 DEF RequestInv, Size, Directions
<1>4. op = "data" /\ dir = "write" => want[Len(got) + 1] \in Chunks
  BY <1>3 DEF Types
<1>5. QED
  BY <1>1, <1>2, <1>4 DEF Types, UpPackets, Packet

\* What PApxNodeFile keeps of an answer has its type.
LEMMA ObserveTypes ==
  ASSUME Types, NEW a \in DownPackets, Observe(a)
  PROVE  /\ openOp' \in {"read", "write", None}
         /\ fileInfo' \in Seq(Chunks)
         /\ data' \in Seq(Chunks)
<1>1. /\ openOp \in {"read", "write", None}
      /\ fileInfo \in Seq(Chunks)
      /\ data \in Seq(Chunks)
      /\ <<>> \in Seq(Chunks)
  BY DEF Types
<1>2. CASE a.op = "open"
  BY <1>1, <1>2, DownPacketTypes DEF Observe, fileVars, Directions
<1>3. CASE a.op = "data"
  <2>1. /\ openOp' \in {openOp, None}
        /\ fileInfo' = fileInfo
        /\ data' \in {data, Append(data, a.val), <<>>}
    BY <1>3 DEF Observe, Collect, fileVars
  <2>2. a.val \in Chunks
    BY <1>3, DownPacketTypes
  <2>3. Append(data, a.val) \in Seq(Chunks)
    BY <1>1, <2>2
  <2>4. QED
    BY <1>1, <2>1, <2>3
<1>4. CASE a.op = "close"
  <2>1. /\ openOp' = None
        /\ fileInfo' \in {fileInfo, a.val, data}
        /\ data' = <<>>
    BY <1>1, <1>4 DEF Observe
  <2>2. QED
    BY <1>1, <1>4, <2>1, DownPacketTypes
<1>5. CASE a.op = "abort"
  BY <1>1, <1>5 DEF Observe, fileVars
<1>6. QED
  BY <1>2, <1>3, <1>4, <1>5, DownPacketTypes

\* How the request goes on after an answer.
LEMMA RespondFacts ==
  ASSUME Types, RequestInv, NEW a \in DownPackets, Respond(a)
  PROVE  /\ dir' \in Directions \cup {None}
         /\ want' = want
         /\ op' \in {"open", "data", "close"}
         /\ info' \in Seq(Chunks)
         /\ got' \in Seq(Chunks)
         /\ active' \in BOOLEAN
         /\ tx' \in {"idle", "send", "wait"}
         /\ RequestInv'
<1>1. CASE ~Awaited(a)
  BY <1>1 DEF Respond, reqVars, Types, RequestInv, Size
<1>2. CASE Awaited(a) /\ Opened(a)
  <2>1. a.val \in Seq(Chunks) /\ dir \in Directions
    BY <1>2, DownPacketTypes DEF Opened, Awaited, RequestInv, Types, Directions
  <2>2. Len(a.val) \in Nat /\ Len(want) \in Nat /\ <<>> \in Seq(Chunks)
        /\ Len(<<>>) = 0
    BY <2>1 DEF Types
  <2>3. QED
    BY <1>2, <2>1, <2>2 DEF Opened, Awaited, Proceed, Types, RequestInv, Size, Directions
<1>3. CASE Awaited(a) /\ Transferred(a)
  <2>1. a.val \in Chunks /\ dir \in Directions /\ dir # None /\ op = "data"
    BY <1>3, DownPacketTypes DEF Transferred, Awaited, RequestInv, Types
  <2>2. CASE UNCHANGED reqVars
    BY <2>2 DEF reqVars, Types, RequestInv, Size
  <2>3. CASE got' = Append(got, a.val) /\ UNCHANGED <<info, sent>> /\ Proceed(Size)
    <3>1. /\ got' \in Seq(Chunks) /\ Len(got') = Len(got) + 1
          /\ Len(got) \in Nat /\ Size \in Nat
      BY <2>1, <2>3 DEF Types, Size
    <3>2. dir # "info" /\ Len(got) < Size
      BY <2>1 DEF RequestInv, Directions
    <3>3. Size' = Size
      BY <2>3 DEF Proceed, Size
    <3>4. QED
      BY <2>1, <2>3, <3>1, <3>2, <3>3 DEF Proceed, Types, RequestInv
  <2>4. QED
    BY <1>3, <2>2, <2>3 DEF Transferred
<1>4. CASE Awaited(a) /\ (Closed(a) \/ Aborted(a))
  <2>1. CASE End("downloaded") \/ End("uploaded") \/ End("failed")
    BY <2>1 DEF End, Types, RequestInv
  <2>2. CASE /\ op' = "open" /\ info' = <<>> /\ got' = <<>>
             /\ UNCHANGED <<dir, want, active, tx, result>>
    BY <2>2 DEF Types, RequestInv
  <2>3. QED
    BY <1>4, <2>1, <2>2 DEF Closed, Aborted
<1>5. QED
  BY <1>1, <1>2, <1>3, <1>4 DEF Respond


\* The node takes the first packet to it and answers.
LEMMA NodeFacts ==
  ASSUME Types, NodeTakes
  PROVE  /\ up[1] \in UpPackets /\ 1 \in 1 .. Len(up)
         /\ up' \in Seq(UpPackets) /\ Len(up') \in Nat /\ Len(up) \in Nat
         /\ \A i \in 1 .. Len(up') : i + 1 \in 1 .. Len(up) /\ up'[i] = up[i + 1]
         /\ \/ Refuse(up[1]) \/ NodeOpens(up[1]) \/ NodeReads(up[1])
            \/ NodeWrites(up[1]) \/ NodeCloses(up[1])
         /\ UNCHANGED <<reqVars, fileVars, causes, starts>>
<1>1. up \in Seq(UpPackets) /\ up # <<>> /\ up' = Tail(up)
  BY DEF NodeTakes, Types
<1>2. Head(up) = up[1]
  BY <1>1, TailFacts
<1>3. QED
  BY <1>1, <1>2, TailFacts DEF NodeTakes

\* An answer of the node is appended, or lost.
LEMMA AnswerFacts ==
  ASSUME Types, NEW p \in UpPackets, NEW v, Answer(p, v),
         p.op \in {"open", "close"} => v \in Seq(Chunks),
         p.op = "data" => v \in Chunks
  PROVE  /\ down' \in Seq(DownPackets)
         /\ Len(down) \in Nat /\ Len(down') \in Nat
         /\ \A i \in 1 .. Len(down') :
              \/ i \in 1 .. Len(down) /\ down'[i] = down[i]
              \/ /\ i = Len(down) + 1
                 /\ down'[i].op = p.op /\ down'[i].dir = p.dir
                 /\ down'[i].no = p.no /\ down'[i].at = p.at /\ down'[i].val = v
<1> DEFINE a == [op |-> p.op, dir |-> p.dir, no |-> p.no, at |-> p.at, val |-> v]
<1>1. a \in DownPackets /\ down \in Seq(DownPackets)
  BY AnswerTypes DEF Types
<1>2. a.op = p.op /\ a.dir = p.dir /\ a.no = p.no /\ a.at = p.at /\ a.val = v
  OBVIOUS
<1>3. down' = Onto(down, a)
  BY DEF Answer
<1> HIDE DEF a
<1>4. QED
  BY <1>1, <1>2, <1>3, OntoFacts

\* So is a refusal.
LEMMA RefuseFacts ==
  ASSUME Types, NEW p \in UpPackets, Refuse(p)
  PROVE  /\ down' \in Seq(DownPackets)
         /\ Len(down) \in Nat /\ Len(down') \in Nat
         /\ \A i \in 1 .. Len(down') :
              \/ i \in 1 .. Len(down) /\ down'[i] = down[i]
              \/ i = Len(down) + 1 /\ down'[i].op = "abort" /\ down'[i].no = p.no
                   /\ down'[i].dir = p.dir
         /\ UNCHANGED nodeVars
<1> DEFINE a == [op |-> "abort", dir |-> p.dir, no |-> p.no, at |-> p.at, val |-> None]
<1>1. a \in DownPackets /\ down \in Seq(DownPackets)
  BY AnswerTypes, UpPacketTypes DEF Types, DownPackets
<1>2. a.op = "abort" /\ a.no = p.no /\ a.dir = p.dir
  OBVIOUS
<1>3. down' = Onto(down, a) /\ UNCHANGED nodeVars
  <2>1. Answer([p EXCEPT !.op = "abort"], None)
    BY DEF Refuse
  <2>2. /\ [p EXCEPT !.op = "abort"].op = "abort"
        /\ [p EXCEPT !.op = "abort"].dir = p.dir
        /\ [p EXCEPT !.op = "abort"].no = p.no
        /\ [p EXCEPT !.op = "abort"].at = p.at
    BY DEF UpPackets
  <2>3. QED
    BY <2>1, <2>2 DEF Answer, Refuse
<1> HIDE DEF a
<1>4. QED
  BY <1>1, <1>2, <1>3, OntoFacts

\* The step of the node keeps the types.
LEMMA NodeTypes ==
  ASSUME Types, NodeTakes
  PROVE  /\ down' \in Seq(DownPackets)
         /\ file' \in Seq(Chunks)
         /\ part' \in Seq(Chunks) \cup {None}
<1>1. /\ file \in Seq(Chunks) /\ <<>> \in Seq(Chunks)
      /\ part \in Seq(Chunks) \cup {None}
  BY DEF Types
<1>2. /\ up[1] \in UpPackets
      /\ up[1].dir \in Directions /\ up[1].at \in Nat
      /\ up[1].op = "data" /\ up[1].dir = "write" => up[1].val \in Chunks
  BY NodeFacts, UpPacketTypes
<1>3. CASE Refuse(up[1])
  BY <1>1, <1>2, <1>3, RefuseFacts DEF nodeVars
<1>4. CASE NodeOpens(up[1])
  <2>1. down' \in Seq(DownPackets)
    BY <1>1, <1>2, <1>4, AnswerFacts DEF NodeOpens
  <2>2. QED
    BY <1>1, <1>2, <1>4, <2>1 DEF NodeOpens, Directions
<1>5. CASE NodeReads(up[1])
  <2>1. file[up[1].at + 1] \in Chunks
    BY <1>1, <1>2, <1>5 DEF NodeReads
  <2>2. QED
    BY <1>1, <1>2, <1>5, <2>1, AnswerFacts DEF NodeReads, nodeVars
<1>6. CASE NodeWrites(up[1])
  <2>1. part \in Seq(Chunks) /\ up[1].val \in Chunks
    BY <1>1, <1>2, <1>6 DEF NodeWrites
  <2>2. part' \in Seq(Chunks)
    BY <1>2, <1>6, <2>1 DEF NodeWrites
  <2>3. QED
    BY <1>1, <1>2, <1>6, <2>1, <2>2, AnswerFacts DEF NodeWrites
<1>7. CASE NodeCloses(up[1])
  <2>1. file' \in Seq(Chunks)
    BY <1>1, <1>7 DEF NodeCloses
  <2>2. QED
    BY <1>1, <1>2, <1>7, <2>1, AnswerFacts DEF NodeCloses
<1>8. QED
  BY <1>3, <1>4, <1>5, <1>6, <1>7, NodeFacts

\* An answer is taken from the link.
LEMMA ReceiveFacts ==
  ASSUME Types, Receive
  PROVE  /\ down[1] \in DownPackets /\ 1 \in 1 .. Len(down)
         /\ down' \in Seq(DownPackets) /\ Len(down') \in Nat /\ Len(down) \in Nat
         /\ \A i \in 1 .. Len(down') : i + 1 \in 1 .. Len(down) /\ down'[i] = down[i + 1]
         /\ Observe(down[1]) /\ Respond(down[1])
         /\ disturbed' = (disturbed \/ (down[1].op # "data" /\ ~Awaited(down[1])))
         /\ misled' = (misled \/ (Awaited(down[1]) /\ Earlier(down[1])))
         /\ UNCHANGED <<up, nodeVars, changed, starts>>
<1>1. down \in Seq(DownPackets) /\ down # <<>> /\ down' = Tail(down)
  BY DEF Receive, Types
<1>2. Head(down) = down[1]
  BY <1>1, TailFacts
<1>3. QED
  BY <1>1, <1>2, TailFacts DEF Receive

\* A packet is lost.
LEMMA LoseFacts ==
  ASSUME Types, Lose
  PROVE  /\ up' \in Seq(UpPackets) /\ down' \in Seq(DownPackets)
         /\ Len(up) \in Nat /\ Len(up') \in Nat /\ Len(down) \in Nat /\ Len(down') \in Nat
         /\ \/ UNCHANGED up
            \/ \A i \in 1 .. Len(up') : i + 1 \in 1 .. Len(up) /\ up'[i] = up[i + 1]
         /\ \/ UNCHANGED down
            \/ \A i \in 1 .. Len(down') : i + 1 \in 1 .. Len(down) /\ down'[i] = down[i + 1]
         /\ UNCHANGED <<reqVars, fileVars, nodeVars, causes, starts>>
<1>1. up \in Seq(UpPackets) /\ down \in Seq(DownPackets)
  BY DEF Types
<1>2. CASE up # <<>> /\ up' = Tail(up) /\ UNCHANGED down
  <2>1. /\ up' \in Seq(UpPackets) /\ Len(up) \in Nat /\ Len(up') \in Nat
        /\ \A i \in 1 .. Len(up') : i + 1 \in 1 .. Len(up) /\ up'[i] = up[i + 1]
    BY <1>1, <1>2, TailFacts
  <2>2. QED
    BY <1>1, <1>2, <2>1 DEF Lose
<1>3. CASE down # <<>> /\ down' = Tail(down) /\ UNCHANGED up
  <2>1. /\ down' \in Seq(DownPackets) /\ Len(down) \in Nat /\ Len(down') \in Nat
        /\ \A i \in 1 .. Len(down') : i + 1 \in 1 .. Len(down) /\ down'[i] = down[i + 1]
    BY <1>1, <1>3, TailFacts
  <2>2. QED
    BY <1>1, <1>3, <2>1 DEF Lose
<1>4. QED
  BY <1>2, <1>3 DEF Lose

\* The answer to another GCS is heard.
LEMMA OtherFacts ==
  ASSUME Types, OtherReads
  PROVE  /\ part = None
         /\ down' \in Seq(DownPackets) /\ Len(down) \in Nat /\ Len(down') \in Nat
         /\ \A i \in 1 .. Len(down') :
              \/ i \in 1 .. Len(down) /\ down'[i] = down[i]
              \/ /\ i = Len(down) + 1 /\ down'[i].dir = "read" /\ down'[i].no = 0
                 /\ \/ down'[i].op \in {"open", "close"} /\ down'[i].val = file
                    \/ down'[i].op = "data" /\ down'[i].at < Len(file)
         /\ UNCHANGED <<reqVars, fileVars, nodeVars, up, causes, starts>>
<1>1. down \in Seq(DownPackets) /\ file \in Seq(Chunks)
  BY DEF Types
<1>2. PICK a \in DownPackets :
        /\ down' = Onto(down, a) /\ a.dir = "read" /\ a.no = 0
        /\ (a.op \in {"open", "close"} /\ a.val = file) \/ (a.op = "data" /\ a.at < Len(file))
  <2> DEFINE Foreign(a) ==
        /\ down' = Onto(down, a) /\ a.dir = "read" /\ a.no = 0
        /\ (a.op \in {"open", "close"} /\ a.val = file) \/ (a.op = "data" /\ a.at < Len(file))
  <2>1. ASSUME NEW o \in {"open", "close"},
               down' = Onto(down, [op |-> o, dir |-> "read", no |-> 0, at |-> 0, val |-> file])
        PROVE  \E a \in DownPackets : Foreign(a)
    <3> DEFINE a == [op |-> o, dir |-> "read", no |-> 0, at |-> 0, val |-> file]
    <3>1. a \in DownPackets
      BY <1>1 DEF DownPackets, Directions
    <3>2. Foreign(a)
      BY <2>1
    <3>3. QED
      BY <3>1, <3>2
  <2>2. ASSUME NEW i \in DOMAIN file,
               down' = Onto(down, [op |-> "data", dir |-> "read", no |-> 0, at |-> i - 1,
                                   val |-> file[i]])
        PROVE  \E a \in DownPackets : Foreign(a)
    <3> DEFINE a == [op |-> "data", dir |-> "read", no |-> 0, at |-> i - 1, val |-> file[i]]
    <3>1. i - 1 \in Nat /\ i - 1 < Len(file) /\ file[i] \in Chunks
      BY <1>1
    <3>2. a \in DownPackets
      BY <3>1 DEF DownPackets, Directions
    <3>3. Foreign(a)
      BY <2>2, <3>1
    <3>4. QED
      BY <3>2, <3>3
  <2>3. \E a \in DownPackets : Foreign(a)
    BY <2>1, <2>2 DEF OtherReads
  <2>4. QED
    BY <2>3
<1>3. /\ down' \in Seq(DownPackets) /\ Len(down) \in Nat /\ Len(down') \in Nat
      /\ \A i \in 1 .. Len(down') :
           \/ i \in 1 .. Len(down) /\ down'[i] = down[i]
           \/ i = Len(down) + 1 /\ down'[i] = a
  BY <1>1, <1>2, OntoFacts
<1>4. QED
  BY <1>2, <1>3 DEF OtherReads

\* A packet is sent.
LEMMA SendFacts ==
  ASSUME Types, RequestInv, Send
  PROVE  /\ up' \in Seq(UpPackets) /\ Len(up) \in Nat /\ Len(up') \in Nat
         /\ \A i \in 1 .. Len(up') :
              \/ i \in 1 .. Len(up) /\ up'[i] = up[i]
              \/ i = Len(up) + 1 /\ up'[i] = Packet
<1>1. up \in Seq(UpPackets) /\ Packet \in UpPackets
  BY PacketType DEF Send, Types
<1>2. QED
  BY <1>1, OntoFacts DEF Send

\* The types, and what the request asks for.
LEMMA NextTypes ==
  ASSUME Types, RequestInv, [Next]_vars  PROVE Types' /\ RequestInv'
<1>1. ASSUME NEW d \in Directions, NEW c \in Contents, Start(d, c)
      PROVE  Types' /\ RequestInv'
  <2>1. c \in Seq(Chunks) /\ <<>> \in Seq(Chunks)
    BY ConstantsAssumption
  <2>2. d # None
    BY ConstantsAssumption DEF Directions
  <2>3. starts' \in Nat /\ disturbed' \in BOOLEAN /\ changed' \in BOOLEAN /\ misled' \in BOOLEAN
    <3>1. starts' \in Nat
      BY <1>1 DEF Start, Types
    <3>2. changed' \in BOOLEAN /\ misled' \in BOOLEAN
      BY <1>1 DEF Start
    <3>3. disturbed' \in BOOLEAN
      BY <1>1 DEF Start
    <3>4. QED
      BY <3>1, <3>2, <3>3
  <2>4. /\ dir' = d /\ want' = c /\ op' = "open" /\ info' = <<>> /\ got' = <<>>
        /\ active' = FALSE /\ tx' = "send" /\ result' = None
        /\ UNCHANGED <<openOp, fileInfo, data, up, down, nodeVars>>
    BY <1>1 DEF Start
  <2>5. RequestInv'
    BY <2>2, <2>4 DEF RequestInv
  <2>6. UNCHANGED <<up, down, file, part>>
    BY <2>4 DEF nodeVars
  <2>7. Types'
    BY <2>1, <2>3, <2>4, <2>6 DEF Types
  <2>8. QED
    BY <2>5, <2>7
<1>2. CASE Send
  BY <1>2, SendFacts DEF Send, Types, RequestInv, Size, fileVars, nodeVars, causes
<1>3. CASE TimeoutRetry
  BY <1>3 DEF TimeoutRetry, Types, RequestInv, Size, fileVars, nodeVars, causes
<1>4. CASE TimeoutDrop
  BY <1>4 DEF TimeoutDrop, End, Types, RequestInv, fileVars, nodeVars, causes
<1>5. CASE Receive
  <2>1. /\ openOp' \in {"read", "write", None}
        /\ fileInfo' \in Seq(Chunks)
        /\ data' \in Seq(Chunks)
    BY <1>5, ReceiveFacts, ObserveTypes
  <2>2. down[1] \in DownPackets /\ Respond(down[1])
    BY <1>5, ReceiveFacts
  <2>3. /\ disturbed' \in BOOLEAN /\ changed' \in BOOLEAN /\ misled' \in BOOLEAN
        /\ down' \in Seq(DownPackets) /\ UNCHANGED <<up, nodeVars, starts>>
    BY <1>5, ReceiveFacts DEF Types
  <2>4. QED
    BY <2>1, <2>2, <2>3, RespondFacts DEF Types, nodeVars
<1>6. CASE NodeTakes
  BY <1>6, NodeFacts, NodeTypes DEF Types, RequestInv, Size, reqVars, fileVars, causes
<1>7. CASE Lose
  BY <1>7, LoseFacts DEF Types, RequestInv, Size, reqVars, fileVars, nodeVars, causes
<1>8. CASE FileChanges
  BY <1>8, ConstantsAssumption
     DEF FileChanges, Types, RequestInv, Size, reqVars, fileVars, causes
<1>9. CASE OtherReads
  BY <1>9, OtherFacts DEF Types, RequestInv, Size, reqVars, fileVars, nodeVars, causes
<1>10. CASE UNCHANGED vars
  BY <1>10 DEF vars, Types, RequestInv, Size
<1>11. QED
  BY <1>1, <1>2, <1>3, <1>4, <1>5, <1>6, <1>7, <1>8, <1>9, <1>10 DEF Next, Timers

-----------------------------------------------------------------------------
(* Contents the file has had *)

\* A part of what was collected is never handed over: it must be equal to what
\* the node said when it closed the file.
LEMMA NextHad ==
  ASSUME Types, HadInv, [Next]_vars  PROVE HadInv'
<1>1. ASSUME NEW d \in Directions, NEW c \in Contents, Start(d, c)
      PROVE  HadInv'
  BY <1>1 DEF Start, HadInv, DownloadedIsWhole, nodeVars
<1>2. CASE Timers \/ UNCHANGED vars
  BY <1>2 DEF Timers, Send, TimeoutRetry, TimeoutDrop, vars, HadInv,
     DownloadedIsWhole, fileVars, nodeVars
<1>3. CASE Receive
  <2>1. /\ \A i \in 1 .. Len(down') : i + 1 \in 1 .. Len(down) /\ down'[i] = down[i + 1]
        /\ UNCHANGED nodeVars
        /\ 1 \in 1 .. Len(down)
        /\ Observe(down[1])
    BY <1>3, ReceiveFacts
  <2>2. downloaded' = downloaded \/ (down[1].op = "close" /\ downloaded' = down[1].val)
    BY <2>1 DEF Observe, Collect, Complete, fileVars
  <2>3. QED
    BY <2>1, <2>2 DEF HadInv, DownloadedIsWhole, nodeVars
<1>4. CASE NodeTakes
  <2>1. CASE Refuse(up[1])
    <3>1. /\ \A i \in 1 .. Len(down') :
               \/ i \in 1 .. Len(down) /\ down'[i] = down[i]
               \/ down'[i].op = "abort"
          /\ UNCHANGED nodeVars
      BY <1>4, <2>1, NodeFacts, RefuseFacts
    <3>2. QED
      BY <1>4, <3>1, NodeFacts DEF HadInv, DownloadedIsWhole, nodeVars, fileVars
  <2>2. CASE NodeOpens(up[1]) \/ NodeReads(up[1]) \/ NodeWrites(up[1])
    <3>1. \A i \in 1 .. Len(down') :
            \/ i \in 1 .. Len(down) /\ down'[i] = down[i]
            \/ down'[i].op # "close"
      <4>1. PICK v : Answer(up[1], v)
        BY <2>2 DEF NodeOpens, NodeReads, NodeWrites
      <4> DEFINE a == [op |-> up[1].op, dir |-> up[1].dir, no |-> up[1].no, at |-> up[1].at, val |-> v]
      <4>2. down' = down \/ down' = Append(down, a)
        BY <4>1 DEF Answer, Onto
      <4>3. a.op # "close" /\ down \in Seq(DownPackets)
        BY <2>2 DEF NodeOpens, NodeReads, NodeWrites, Types
      <4> HIDE DEF a
      <4>4. QED
        BY <4>2, <4>3
    <3>2. QED
      BY <1>4, <2>2, <3>1, NodeFacts DEF HadInv, DownloadedIsWhole, nodeVars,
         fileVars, NodeOpens, NodeReads, NodeWrites
  <2>3. CASE NodeCloses(up[1])
    <3>1. up[1] \in UpPackets /\ UNCHANGED fileVars
      BY <1>4, NodeFacts
    <3>2. file' \in Seq(Chunks)
      BY <1>4, NodeTypes
    <3>3. \A i \in 1 .. Len(down') :
            \/ i \in 1 .. Len(down) /\ down'[i] = down[i]
            \/ down'[i].val = file'
      BY <2>3, <3>1, <3>2, AnswerFacts DEF NodeCloses
    <3>4. had \subseteq had' /\ file' \in had'
      BY <2>3 DEF NodeCloses
    <3>5. QED
      BY <3>1, <3>3, <3>4 DEF HadInv, DownloadedIsWhole, fileVars
  <2>4. QED
    BY <1>4, <2>1, <2>2, <2>3, NodeFacts
<1>5. CASE Lose
  BY <1>5, LoseFacts DEF HadInv, DownloadedIsWhole, nodeVars, fileVars
<1>6. CASE FileChanges
  BY <1>6 DEF FileChanges, HadInv, DownloadedIsWhole, fileVars
<1>7. CASE OtherReads
  <2>1. /\ \A i \in 1 .. Len(down') :
             \/ i \in 1 .. Len(down) /\ down'[i] = down[i]
             \/ down'[i].op = "close" => down'[i].val = file
        /\ UNCHANGED <<fileVars, nodeVars>>
    BY <1>7, OtherFacts
  <2>2. QED
    BY <2>1 DEF HadInv, DownloadedIsWhole, fileVars, nodeVars
<1>8. QED
  BY <1>1, <1>2, <1>3, <1>4, <1>5, <1>6, <1>7 DEF Next

-----------------------------------------------------------------------------
(* Downloads *)

\* The steps that touch neither the request nor what was collected
LEMMA OutsideDelivered ==
  ASSUME Delivered, UNCHANGED <<reqVars, fileVars>>, Calm' => Calm
  PROVE  Delivered'
BY DEF Delivered, reqVars, fileVars

\* The request and PApxNodeFile take the same answers.
LEMMA ReceiveRead ==
  ASSUME Types, RequestInv, ReadInv, Delivered, Receive
  PROVE  ReadInv' /\ Delivered'
<1> DEFINE a == down[1]
<1>1. /\ a \in DownPackets /\ 1 \in 1 .. Len(down)
      /\ \A i \in 1 .. Len(down') : i + 1 \in 1 .. Len(down) /\ down'[i] = down[i + 1]
      /\ Observe(a) /\ Respond(a)
      /\ disturbed' = (disturbed \/ (a.op # "data" /\ ~Awaited(a)))
      /\ UNCHANGED <<up, nodeVars, changed>>
  BY ReceiveFacts
<1>2. /\ a.op \in {"open", "data", "close", "abort"}
      /\ a.at \in Nat
      /\ a.op = "data" => a.val \in Chunks
  BY <1>1, DownPacketTypes
<1>3. /\ got \in Seq(Chunks) /\ info \in Seq(Chunks)
      /\ Len(got) \in Nat /\ Len(info) \in Nat
  BY DEF Types
<1> HIDE DEF a
<1>4. CASE ~Awaited(a)
  <2>1. UNCHANGED reqVars
    BY <1>1, <1>4 DEF Respond
  <2>2. ASSUME Calm'  PROVE a.op = "data" /\ Calm
    BY <1>1, <1>2, <1>4, <2>2 DEF Calm
  <2>3. ASSUME dir = "read", Calm', op # "open"
        PROVE  UNCHANGED fileVars
    <3>1. /\ a.op = "data" /\ a.dir = "read" /\ a.at < Len(file)
          /\ openOp = "read" /\ fileInfo = info /\ data = got /\ info = file
      BY <1>1, <2>2, <2>3 DEF ReadInv, a
    <3>2. fileInfo # <<>>
      BY <1>2, <1>3, <3>1
    <3>3. Len(data) < Len(fileInfo) \/ a.at # Len(data)
      BY <1>2, <1>3, <3>1
    <3>4. a.at # Len(data)
      <4>1. tx # "idle" /\ dir # None
        BY <2>3, ConstantsAssumption DEF RequestInv
      <4>2. CASE op = "data"
        BY <1>4, <2>3, <3>1, <4>1, <4>2 DEF Awaited, RequestInv
      <4>3. CASE op = "close"
        BY <1>2, <1>3, <2>3, <3>1, <4>1, <4>3 DEF RequestInv, Size
      <4>4. QED
        BY <2>3, <4>2, <4>3 DEF Types
    <3>5. Collect(a) /\ UNCHANGED <<openOp, fileInfo, downloaded>>
      BY <1>1, <3>1, <3>2, <3>3 DEF Observe
    <3>6. QED
      BY <3>4, <3>5 DEF Collect, fileVars
  <2>4. ReadInv'
    BY <1>1, <2>1, <2>2, <2>3 DEF ReadInv, Calm, Up, reqVars, nodeVars, fileVars
  <2>5. ASSUME Calm'  PROVE downloaded' = downloaded
    BY <1>1, <2>2, <2>5 DEF Observe, fileVars
  <2>6. QED
    BY <2>1, <2>2, <2>4, <2>5 DEF Delivered, reqVars
<1>5. CASE Awaited(a) /\ dir # "read"
  <2>1. dir' # "read" /\ result' # "downloaded"
    <3>1. dir # None /\ result # "downloaded"
      BY <1>5, ConstantsAssumption DEF Awaited, RequestInv
    <3>2. QED
      BY <1>1, <1>5, <3>1, ConstantsAssumption
         DEF Respond, Opened, Transferred, Closed, Aborted, Proceed, End, reqVars
  <2>2. QED
    BY <2>1 DEF ReadInv, Delivered
<1>6. CASE Awaited(a) /\ dir = "read" /\ a.op \in {"open", "data"}
  <2>1. dir' = "read" /\ result' # "downloaded" /\ a.op = op /\ a.dir = "read"
    <3>1. result # "downloaded" /\ a.op = op /\ a.dir = "read"
      BY <1>6, ConstantsAssumption DEF Awaited, RequestInv
    <3>2. QED
      BY <1>1, <1>6, <3>1
         DEF Respond, Opened, Transferred, Closed, Aborted, Proceed, End, reqVars
  <2>2. ASSUME Calm'
        PROVE  /\ Calm /\ part = None
               /\ a.op = "open" => a.val = file
               /\ a.op = "data" => a.at < Len(file)
    BY <1>1, <1>6, <2>2 DEF ReadInv, Calm, a
  <2>3. ASSUME Calm'
        PROVE  openOp' = "read" /\ fileInfo' = info' /\ data' = got' /\ info' = file
    <3>1. CASE a.op = "open"
      BY <1>1, <1>6, <2>1, <2>2, <2>3, <3>1
         DEF Respond, Opened, Transferred, Closed, Aborted, Observe
    <3>2. CASE a.op = "data"
      <4>1. openOp = "read" /\ fileInfo = info /\ data = got /\ info = file
        BY <1>6, <2>1, <2>2, <2>3, <3>2 DEF ReadInv
      <4>2. a.at = Len(got) /\ Len(got) < Len(info)
        BY <1>6, <2>1, <3>2, ConstantsAssumption DEF Awaited, RequestInv, Size
      <4>3. fileInfo # <<>>
        BY <1>3, <4>1, <4>2
      <4>4. data' = Append(data, a.val) /\ fileInfo' = fileInfo /\ openOp' = openOp
        BY <1>1, <2>1, <3>2, <4>1, <4>2, <4>3 DEF Observe, Collect
      <4>5. got' = Append(got, a.val) /\ info' = info
        BY <1>1, <1>6, <3>2 DEF Respond, Opened, Transferred, Closed, Aborted
      <4>6. QED
        BY <4>1, <4>4, <4>5
    <3>3. QED
      BY <1>6, <3>1, <3>2
  <2>4. ASSUME Calm'  PROVE ReadInv'
    <3>1. part' = None /\ file' = file /\ up' = up
      BY <1>1, <2>2, <2>4 DEF nodeVars
    <3>2. /\ \A i \in 1 .. Len(up) : up[i].dir = "read"
          /\ \A i \in 1 .. Len(down') :
               /\ down'[i].op \in {"open", "close"} => down'[i].val = file
               /\ down'[i].op \in {"open", "data"} => down'[i].dir = "read"
               /\ down'[i].op = "data" => down'[i].at < Len(file)
      BY <1>1, <1>6, <2>2, <2>4 DEF ReadInv
    <3>3. QED
      BY <2>3, <2>4, <3>1, <3>2 DEF ReadInv
  <2>5. QED
    BY <2>1, <2>4 DEF ReadInv, Delivered
<1>7. CASE Awaited(a) /\ dir = "read" /\ a.op = "close"
  <2>1. op = "close" /\ Closed(a)
    BY <1>1, <1>7 DEF Awaited, Respond, Opened, Transferred, Aborted
  <2>2. CASE got # info
    <3>1. op' = "open" /\ result' # "downloaded"
      BY <1>7, <2>1, <2>2, ConstantsAssumption DEF Closed, RequestInv
    <3>2. Calm' => Calm /\ part = None
      BY <1>1, <1>7, <2>1 DEF ReadInv, Calm
    <3>3. QED
      BY <1>1, <1>7, <3>1, <3>2 DEF ReadInv, Delivered, Calm, Up, nodeVars
  <2>3. CASE got = info
    <3>1. dir' # "read" /\ got' = got
      BY <1>7, <2>1, <2>3, ConstantsAssumption DEF Closed, End
    <3>2. ASSUME Calm'  PROVE downloaded' = got
      <4>1. Calm
        BY <1>1, <3>2 DEF Calm
      <4>2. openOp = "read" /\ fileInfo = info /\ data = got /\ info = file
        BY <1>7, <2>1, <4>1 DEF ReadInv
      <4>3. a.val = file
        BY <1>1, <1>7, <4>1 DEF ReadInv, a
      <4>4. QED
        BY <1>1, <1>7, <2>3, <4>2, <4>3 DEF Observe, Complete
    <3>3. QED
      BY <3>1, <3>2 DEF ReadInv, Delivered
  <2>4. QED
    BY <2>2, <2>3
<1>8. CASE Awaited(a) /\ a.op = "abort"
  <2>1. dir' # "read" /\ result' # "downloaded"
    BY <1>1, <1>8, ConstantsAssumption
       DEF Respond, Opened, Transferred, Closed, Aborted, End
  <2>2. QED
    BY <2>1 DEF ReadInv, Delivered
<1>9. QED
  BY <1>2, <1>4, <1>5, <1>6, <1>7, <1>8

\* The node answers to a download with the file as it is.
LEMMA NodeRead ==
  ASSUME Types, ReadInv, NodeTakes  PROVE ReadInv'
<1> SUFFICES ASSUME dir = "read", Calm  PROVE ReadInv'
  BY NodeFacts DEF ReadInv, Calm, causes, reqVars
<1>1. /\ up[1] \in UpPackets /\ 1 \in 1 .. Len(up)
      /\ \A i \in 1 .. Len(up') : i + 1 \in 1 .. Len(up) /\ up'[i] = up[i + 1]
      /\ UNCHANGED <<reqVars, fileVars, causes, starts>>
  BY NodeFacts
<1>2. /\ up[1].dir = "read"
      /\ up[1].op \in {"data", "close"} => part = None
      /\ file \in Seq(Chunks)
  BY <1>1 DEF ReadInv, Up, Types
<1>3. CASE Refuse(up[1])
  <2>1. /\ \A i \in 1 .. Len(down') :
             \/ i \in 1 .. Len(down) /\ down'[i] = down[i]
             \/ down'[i].op = "abort"
        /\ UNCHANGED nodeVars
    BY <1>1, <1>3, RefuseFacts
  <2>2. QED
    BY <1>1, <2>1 DEF ReadInv, Calm, causes, Up, nodeVars, reqVars, fileVars
<1>4. CASE NodeOpens(up[1]) \/ NodeCloses(up[1])
  <2>1. file' = file /\ part' = None /\ Answer(up[1], file) /\ up[1].op \in {"open", "close"}
    BY <1>2, <1>4 DEF NodeOpens, NodeCloses
  <2>2. \A i \in 1 .. Len(down') :
          \/ i \in 1 .. Len(down) /\ down'[i] = down[i]
          \/ down'[i].op \in {"open", "close"} /\ down'[i].dir = "read" /\ down'[i].val = file
    BY <1>1, <1>2, <2>1, AnswerFacts
  <2>3. QED
    BY <1>1, <2>1, <2>2 DEF ReadInv, Calm, causes, Up, reqVars, fileVars
<1>5. CASE NodeReads(up[1])
  <2>1. file' = file /\ part' = None /\ up[1].op = "data" /\ up[1].at < Len(file)
    BY <1>2, <1>5 DEF NodeReads, nodeVars
  <2>2. file[up[1].at + 1] \in Chunks
    BY <1>1, <1>2, <2>1, UpPacketTypes
  <2>3. \A i \in 1 .. Len(down') :
          \/ i \in 1 .. Len(down) /\ down'[i] = down[i]
          \/ down'[i].op = "data" /\ down'[i].dir = "read" /\ down'[i].at < Len(file)
    BY <1>1, <1>2, <1>5, <2>1, <2>2, AnswerFacts DEF NodeReads
  <2>4. QED
    BY <1>1, <2>1, <2>3 DEF ReadInv, Calm, causes, Up, reqVars, fileVars
<1>6. CASE NodeWrites(up[1])
  BY <1>2, <1>6 DEF NodeWrites
<1>7. QED
  BY <1>3, <1>4, <1>5, <1>6, NodeFacts

\* Every step keeps both.
LEMMA NextRead ==
  ASSUME Types, RequestInv, ReadInv, Delivered, [Next]_vars
  PROVE  ReadInv' /\ Delivered'
<1>1. ASSUME NEW d \in Directions, NEW c \in Contents, Start(d, c)
      PROVE  ReadInv' /\ Delivered'
  <2>1. /\ Calm' => up' = <<>> /\ down' = <<>>
        /\ op' = "open" /\ result' # "downloaded"
    BY <1>1, ConstantsAssumption DEF Start, Calm
  <2>2. QED
    BY <2>1 DEF ReadInv, Delivered, Up
<1>2. CASE Send
  <2>1. \A i \in 1 .. Len(up') :
          \/ i \in 1 .. Len(up) /\ up'[i] = up[i]
          \/ up'[i].op = op /\ up'[i].dir = dir
    BY <1>2, SendFacts DEF Packet
  <2>2. QED
    BY <1>2, <2>1 DEF Send, ReadInv, Delivered, Calm, causes, Up, fileVars, nodeVars
<1>3. CASE TimeoutRetry \/ TimeoutDrop \/ FileChanges \/ UNCHANGED vars
  BY <1>3, ConstantsAssumption DEF TimeoutRetry, TimeoutDrop, End, FileChanges,
     vars, ReadInv, Delivered, Calm, causes, Up, reqVars, fileVars, nodeVars
<1>4. CASE Receive
  BY <1>4, ReceiveRead
<1>5. CASE NodeTakes
  BY <1>5, NodeRead, NodeFacts, OutsideDelivered DEF Calm, causes
<1>6. CASE Lose
  <2>1. Delivered'
    BY <1>6, LoseFacts, OutsideDelivered DEF Calm, causes
  <2>2. QED
    BY <1>6, <2>1, LoseFacts DEF ReadInv, Calm, causes, Up, reqVars, fileVars, nodeVars
<1>7. CASE OtherReads
  <2>1. Delivered'
    BY <1>7, OtherFacts, OutsideDelivered DEF Calm, causes
  <2>2. QED
    BY <1>7, <2>1, OtherFacts DEF ReadInv, Calm, causes, Up, reqVars, fileVars, nodeVars
<1>8. QED
  BY <1>1, <1>2, <1>3, <1>4, <1>5, <1>6, <1>7 DEF Next, Timers

\* What was read stays the file.
LEMMA NextKept ==
  ASSUME Types, RequestInv, ReadInv, KeptInv, [Next]_vars  PROVE KeptInv'
<1> SUFFICES ASSUME result' = "downloaded", Calm'  PROVE KeptInv'
  BY DEF KeptInv
<1>1. ASSUME NEW d \in Directions, NEW c \in Contents, Start(d, c)  PROVE FALSE
  BY <1>1, ConstantsAssumption DEF Start
<1>2. CASE Send \/ FileChanges \/ TimeoutDrop
  BY <1>2, ConstantsAssumption DEF Send, FileChanges, TimeoutDrop, End, RequestInv, Calm
<1>3. CASE TimeoutRetry \/ UNCHANGED vars
  BY <1>3 DEF TimeoutRetry, vars, KeptInv, Calm, causes, nodeVars
<1>4. CASE Receive
  <2>1. /\ Respond(down[1])
        /\ disturbed' = (disturbed \/ (down[1].op # "data" /\ ~Awaited(down[1])))
        /\ UNCHANGED <<up, nodeVars, changed>>
    BY <1>4, ReceiveFacts
  <2>2. Calm
    BY <2>1 DEF Types, Calm
  <2>3. CASE ~Awaited(down[1])
    <3>1. UNCHANGED reqVars
      BY <2>1, <2>3 DEF Respond
    <3>2. QED
      BY <2>1, <2>2, <3>1 DEF KeptInv, Calm, causes, reqVars, nodeVars
  <2>4. CASE Awaited(down[1])
    <3>1. dir # None /\ result = None
      BY <2>4, ConstantsAssumption DEF Awaited, RequestInv
    <3>2. Closed(down[1]) /\ dir = "read" /\ got = info /\ got' = got
      BY <2>1, <2>4, <3>1, ConstantsAssumption
         DEF Respond, Opened, Transferred, Closed, Aborted, Proceed, End, reqVars
    <3>3. op = "close"
      BY <2>4, <3>2 DEF Awaited, Closed
    <3>4. /\ \A i \in 1 .. Len(up) : up[i].dir = "read"
          /\ part = None /\ info = file
      BY <2>2, <3>2, <3>3 DEF ReadInv
    <3>5. QED
      BY <2>1, <3>2, <3>4 DEF KeptInv, nodeVars
  <2>5. QED
    BY <2>3, <2>4
<1>5. CASE NodeTakes
  <2>1. /\ 1 \in 1 .. Len(up)
        /\ \A i \in 1 .. Len(up') : i + 1 \in 1 .. Len(up) /\ up'[i] = up[i + 1]
        /\ \/ Refuse(up[1]) \/ NodeOpens(up[1]) \/ NodeReads(up[1])
           \/ NodeWrites(up[1]) \/ NodeCloses(up[1])
        /\ UNCHANGED <<reqVars, causes>>
    BY <1>5, NodeFacts
  <2>2. /\ got = file /\ part = None
        /\ \A i \in 1 .. Len(up) : up[i].dir = "read"
    BY <2>1 DEF KeptInv, Calm, causes, reqVars
  <2>3. file' = file /\ part' = None
    BY <2>1, <2>2 DEF Refuse, NodeOpens, NodeReads, NodeWrites, NodeCloses, nodeVars
  <2>4. QED
    BY <2>1, <2>2, <2>3 DEF KeptInv, Calm, causes, reqVars
<1>6. CASE Lose \/ OtherReads
  BY <1>6, LoseFacts, OtherFacts DEF KeptInv, Calm, causes, reqVars, nodeVars
<1>7. QED
  BY <1>1, <1>2, <1>3, <1>4, <1>5, <1>6 DEF Next, Timers

-----------------------------------------------------------------------------
(* Uploads *)

\* An answer has the number of what it answers.
LEMMA AnswerNumber ==
  ASSUME Types, NodeTakes
  PROVE  /\ Len(down) \in Nat /\ Len(down') \in Nat
         /\ \A i \in 1 .. Len(down') :
              \/ i \in 1 .. Len(down) /\ down'[i] = down[i]
              \/ /\ i = Len(down) + 1
                 /\ down'[i].no = up[1].no /\ down'[i].dir = up[1].dir
<1>1. up[1] \in UpPackets /\ down \in Seq(DownPackets)
  BY NodeFacts DEF Types
<1>2. CASE Refuse(up[1])
  BY <1>1, <1>2, RefuseFacts
<1>3. CASE NodeOpens(up[1]) \/ NodeReads(up[1]) \/ NodeWrites(up[1]) \/ NodeCloses(up[1])
  <2>1. PICK v : Answer(up[1], v)
    BY <1>3 DEF NodeOpens, NodeReads, NodeWrites, NodeCloses
  <2> DEFINE a == [op |-> up[1].op, dir |-> up[1].dir, no |-> up[1].no, at |-> up[1].at, val |-> v]
  <2>2. down' = down \/ down' = Append(down, a)
    BY <2>1 DEF Answer, Onto
  <2>3. a.no = up[1].no /\ a.dir = up[1].dir
    OBVIOUS
  <2> HIDE DEF a
  <2>4. QED
    BY <1>1, <2>2, <2>3
<1>4. QED
  BY <1>2, <1>3, NodeFacts

\* The links keep the order.
LEMMA NextOrder ==
  ASSUME Types, RequestInv, OrderInv, [Next]_vars  PROVE OrderInv'
<1>1. ASSUME NEW d \in Directions, NEW c \in Contents, Start(d, c)
      PROVE  OrderInv'
  <2>1. UNCHANGED <<up, down>> /\ starts' = starts + 1 /\ starts \in Nat
    BY <1>1 DEF Start, Types
  <2>2. \A i \in 1 .. Len(up) : up[i].no \in 1 .. starts' /\ ~Own(up[i])'
    BY <2>1 DEF OrderInv, Own
  <2>3. \A i \in 1 .. Len(down) : down[i].no \in 0 .. starts' /\ ~Own(down[i])'
    BY <2>1 DEF OrderInv, Own
  <2>4. starts' # 0
    BY <2>1
  <2>5. QED
    BY <2>1, <2>2, <2>3, <2>4 DEF OrderInv
<1>2. CASE Send
  <2>1. /\ Len(up) \in Nat /\ Len(up') \in Nat
        /\ \A i \in 1 .. Len(up') :
             \/ i \in 1 .. Len(up) /\ up'[i] = up[i]
             \/ i = Len(up) + 1 /\ up'[i] = Packet
    BY <1>2, SendFacts
  <2>2. UNCHANGED <<down, dir, starts>> /\ starts \in Nat /\ Packet.no = starts
    BY <1>2 DEF Send, Types, Packet
  <2>3. starts \in 1 .. starts
    <3>1. starts # 0
      BY <1>2, ConstantsAssumption DEF Send, OrderInv, RequestInv
    <3>2. QED
      BY <2>2, <3>1
  <2>4. \A i \in 1 .. Len(up') : up'[i].no \in 1 .. starts
    BY <2>1, <2>2, <2>3 DEF OrderInv
  <2>5. \A i \in 1 .. Len(up') : Own(up'[i]) \/ (i \in 1 .. Len(up) /\ up'[i] = up[i])
    BY <2>1, <2>2 DEF Own
  <2>6. ASSUME NEW i \in 1 .. Len(up'), NEW j \in 1 .. Len(up'), i < j, Own(up'[i])
        PROVE  Own(up'[j])
    <3>1. CASE j \in 1 .. Len(up) /\ up'[j] = up[j]
      <4>1. i \in 1 .. Len(up) /\ up'[i] = up[i]
        BY <2>1, <2>6, <3>1
      <4>2. QED
        BY <2>6, <3>1, <4>1 DEF OrderInv
    <3>2. QED
      BY <2>5, <3>1
  <2>7. \A i \in 1 .. Len(down) :
          Own(down[i]) => \A j \in 1 .. Len(up') : Own(up'[j])
    BY <2>5 DEF OrderInv
  <2>8. QED
    BY <2>2, <2>4, <2>6, <2>7 DEF OrderInv, Own, Earlier
<1>3. CASE Receive \/ Lose
  <2>1. /\ Len(up) \in Nat /\ Len(up') \in Nat /\ Len(down) \in Nat /\ Len(down') \in Nat
        /\ \/ UNCHANGED up
           \/ \A i \in 1 .. Len(up') : i + 1 \in 1 .. Len(up) /\ up'[i] = up[i + 1]
        /\ \/ UNCHANGED down
           \/ \A i \in 1 .. Len(down') : i + 1 \in 1 .. Len(down) /\ down'[i] = down[i + 1]
        /\ UNCHANGED starts
    BY <1>3, ReceiveFacts, LoseFacts DEF Types
  <2>2. PICK m \in {0, 1} :
          \A i \in 1 .. Len(up') : i + m \in 1 .. Len(up) /\ up'[i] = up[i + m]
    <3>1. CASE UNCHANGED up
      <4>1. \A i \in 1 .. Len(up') : i + 0 \in 1 .. Len(up) /\ up'[i] = up[i + 0]
        BY <3>1
      <4>2. QED
        BY <4>1
    <3>2. QED
      BY <2>1, <3>1
  <2>3. PICK n \in {0, 1} :
          \A i \in 1 .. Len(down') : i + n \in 1 .. Len(down) /\ down'[i] = down[i + n]
    <3>1. CASE UNCHANGED down
      <4>1. \A i \in 1 .. Len(down') : i + 0 \in 1 .. Len(down) /\ down'[i] = down[i + 0]
        BY <3>1
      <4>2. QED
        BY <4>1
    <3>2. QED
      BY <2>1, <3>1
  <2>4. ASSUME NEW i \in 1 .. Len(up')
        PROVE  /\ up'[i].no \in 1 .. starts
               /\ \A j \in 1 .. Len(up') : i < j /\ Own(up'[i]) => Own(up'[j])
    <3>1. ASSUME NEW j \in 1 .. Len(up'), i < j
          PROVE  i + m \in 1 .. Len(up) /\ j + m \in 1 .. Len(up) /\ i + m < j + m
                 /\ up'[j] = up[j + m]
      BY <2>2, <3>1
    <3>2. i + m \in 1 .. Len(up) /\ up'[i] = up[i + m]
      BY <2>2
    <3>3. QED
      BY <3>1, <3>2 DEF OrderInv
  <2>5. ASSUME NEW i \in 1 .. Len(down')
        PROVE  /\ down'[i].no \in 0 .. starts
               /\ down'[i].no = 0 => down'[i].dir = "read"
               /\ Own(down'[i]) => \A j \in 1 .. Len(up') : Own(up'[j])
               /\ \A j \in 1 .. Len(down') : i < j /\ Own(down'[i]) => ~Earlier(down'[j])
    <3>1. ASSUME NEW j \in 1 .. Len(down'), i < j
          PROVE  j + n \in 1 .. Len(down) /\ i + n < j + n /\ down'[j] = down[j + n]
      BY <2>3, <3>1
    <3>2. i + n \in 1 .. Len(down) /\ down'[i] = down[i + n]
      BY <2>3
    <3>3. \A j \in 1 .. Len(down') : i < j /\ Own(down'[i]) => ~Earlier(down'[j])
      BY <3>1, <3>2 DEF OrderInv
    <3>4. Own(down'[i]) => \A j \in 1 .. Len(up') : Own(up'[j])
      BY <2>2, <3>2 DEF OrderInv
    <3>5. QED
      BY <3>2, <3>3, <3>4 DEF OrderInv
  <2>6. dir' # None => starts' # 0
    <3>1. dir' \in {dir, None}
      BY <1>3, ReceiveFacts, LoseFacts
         DEF Respond, Opened, Transferred, Closed, Aborted, Proceed, End, reqVars
    <3>2. QED
      BY <2>1, <3>1 DEF OrderInv
  <2>7. QED
    BY <2>1, <2>4, <2>5, <2>6 DEF OrderInv, Own, Earlier
<1>4. CASE NodeTakes
  <2>1. /\ 1 \in 1 .. Len(up) /\ Len(up) \in Nat /\ Len(up') \in Nat
        /\ \A i \in 1 .. Len(up') : i + 1 \in 1 .. Len(up) /\ up'[i] = up[i + 1]
        /\ UNCHANGED <<dir, starts>>
    BY <1>4, NodeFacts DEF reqVars
  <2>2. /\ Len(down) \in Nat /\ Len(down') \in Nat
        /\ \A i \in 1 .. Len(down') :
              \/ i \in 1 .. Len(down) /\ down'[i] = down[i]
              \/ /\ i = Len(down) + 1
                 /\ down'[i].no = up[1].no /\ down'[i].dir = up[1].dir
    BY <1>4, AnswerNumber
  <2>3. up[1].no \in 1 .. starts /\ starts \in Nat
    BY <2>1 DEF OrderInv, Types
  <2>4. ASSUME NEW i \in 1 .. Len(up')
        PROVE  /\ up'[i].no \in 1 .. starts
               /\ Own(up[1]) => Own(up'[i])
               /\ \A j \in 1 .. Len(up') : i < j /\ Own(up'[i]) => Own(up'[j])
    <3>1. ASSUME NEW j \in 1 .. Len(up'), i < j
          PROVE  j + 1 \in 1 .. Len(up) /\ i + 1 < j + 1 /\ up'[j] = up[j + 1]
      BY <2>1, <3>1
    <3>2. i + 1 \in 1 .. Len(up) /\ up'[i] = up[i + 1] /\ 1 < i + 1
      BY <2>1
    <3>3. QED
      BY <2>1, <3>1, <3>2 DEF OrderInv
  <2>5. ASSUME NEW i \in 1 .. Len(down), Own(down[i])  PROVE Own(up[1])
    BY <2>1, <2>5 DEF OrderInv
  <2>6. Own(up[1]) => ~Earlier(up[1])
    BY <2>3 DEF Own, Earlier
  <2>7. ASSUME NEW i \in 1 .. Len(down')
        PROVE  /\ down'[i].no \in 0 .. starts
               /\ down'[i].no = 0 => down'[i].dir = "read"
               /\ Own(down'[i]) => \A j \in 1 .. Len(up') : Own(up'[j])
               /\ \A j \in 1 .. Len(down') : i < j /\ Own(down'[i]) => ~Earlier(down'[j])
    <3>1. CASE i \in 1 .. Len(down) /\ down'[i] = down[i]
      <4>1. ASSUME NEW j \in 1 .. Len(down'), i < j, Own(down'[i])
            PROVE  ~Earlier(down'[j])
        <5>1. CASE j \in 1 .. Len(down) /\ down'[j] = down[j]
          BY <3>1, <4>1, <5>1 DEF OrderInv
        <5>2. CASE down'[j].no = up[1].no
          BY <2>5, <2>6, <3>1, <4>1, <5>2 DEF Earlier
        <5>3. QED
          BY <2>2, <5>1, <5>2
      <4>2. QED
        BY <2>4, <2>5, <3>1, <4>1 DEF OrderInv
    <3>2. CASE i = Len(down) + 1 /\ down'[i].no = up[1].no
      <4>1. ASSUME NEW j \in 1 .. Len(down'), i < j  PROVE FALSE
        BY <2>2, <3>2, <4>1
      <4>2. QED
        BY <2>3, <2>4, <3>2, <4>1 DEF Own
    <3>3. QED
      BY <2>2, <3>1, <3>2
  <2>8. QED
    BY <2>1, <2>4, <2>7 DEF OrderInv, Own, Earlier
<1>5. CASE OtherReads
  <2>1. /\ Len(down) \in Nat /\ Len(down') \in Nat
        /\ \A i \in 1 .. Len(down') :
              \/ i \in 1 .. Len(down) /\ down'[i] = down[i]
              \/ i = Len(down) + 1 /\ down'[i].dir = "read" /\ down'[i].no = 0
        /\ UNCHANGED <<up, dir, starts>> /\ starts \in Nat
    BY <1>5, OtherFacts DEF Types, reqVars
  <2>2. ASSUME NEW i \in 1 .. Len(down')
        PROVE  /\ down'[i].no \in 0 .. starts
               /\ down'[i].no = 0 => down'[i].dir = "read"
               /\ Own(down'[i]) => \A j \in 1 .. Len(up) : Own(up[j])
               /\ \A j \in 1 .. Len(down') : i < j /\ Own(down'[i]) => ~Earlier(down'[j])
    <3>1. CASE i \in 1 .. Len(down) /\ down'[i] = down[i]
      BY <2>1, <3>1 DEF OrderInv, Earlier
    <3>2. CASE i = Len(down) + 1 /\ down'[i].dir = "read" /\ down'[i].no = 0
      <4>1. Own(down'[i]) => \A j \in 1 .. Len(up) : Own(up[j])
        BY <2>1, <3>2 DEF OrderInv, Own
      <4>2. QED
        BY <2>1, <3>2, <4>1
    <3>3. QED
      BY <2>1, <3>1, <3>2
  <2>3. QED
    BY <2>1, <2>2 DEF OrderInv, Own, Earlier
<1>6. CASE TimeoutRetry \/ TimeoutDrop \/ FileChanges \/ UNCHANGED vars
  <2>1. UNCHANGED <<up, down, starts>> /\ dir' \in {dir, None}
    BY <1>6 DEF TimeoutRetry, TimeoutDrop, End, FileChanges, vars, reqVars
  <2>2. QED
    BY <2>1 DEF OrderInv, Own, Earlier
<1>7. QED
  BY <1>1, <1>2, <1>3, <1>4, <1>5, <1>6 DEF Next, Timers

\* What the node has, it keeps while it does not take a packet.
LEMMA NodeKeeps ==
  ASSUME UNCHANGED <<op, part, file, want>>, Up("open")' => Up("open")
  PROVE  /\ Done => Done'
         /\ \A n \in Nat : Has(n) => Has(n)'
<1>1. Done => Done'
  BY DEF Done
<1>2. QED
  BY <1>1 DEF Has

\* A packet other than an opening is only sent after every opening.
LEMMA NoMoreOpens ==
  ASSUME Types, UpInv, up # <<>>, Own(up[1]), up[1].op # "open"
  PROVE  ~Up("open")
<1>1. Len(up) \in Nat /\ 1 \in 1 .. Len(up)
  BY TailFacts DEF Types
<1>2. QED
  BY <1>1 DEF UpInv, Up

\* What is taken from the link was on it.
LEMMA ShiftedUp ==
  ASSUME Types, UpInv, UNCHANGED <<op, want, starts>>, Len(up') \in Nat,
         \A i \in 1 .. Len(up') : i + 1 \in 1 .. Len(up) /\ up'[i] = up[i + 1]
  PROVE  UpInv' /\ (Up("open")' => Up("open"))
<1>1. Up("open")' => Up("open")
  BY DEF Up
<1>2. ASSUME NEW i \in 1 .. Len(up'), NEW j \in 1 .. Len(up'), i < j, Own(up'[i]),
               up'[j].op = "open"
      PROVE  up'[i].op = "open"
  <2>1. /\ i + 1 \in 1 .. Len(up) /\ j + 1 \in 1 .. Len(up)
        /\ i + 1 < j + 1
        /\ up'[i] = up[i + 1] /\ up'[j] = up[j + 1]
    BY <1>2
  <2>2. QED
    BY <1>2, <2>1 DEF UpInv
<1>3. \A i \in 1 .. Len(up') : Own(up[i])' <=> Own(up'[i])
  BY DEF Own
<1>4. QED
  BY <1>1, <1>2, <1>3 DEF UpInv

\* An answer is taken or lost, and the request and the node stay as they are.
LEMMA ShiftedDown ==
  ASSUME Types, DownInv, Len(down') \in Nat, UNCHANGED <<op, up, part, file, want, starts>>,
         \A i \in 1 .. Len(down') : i + 1 \in 1 .. Len(down) /\ down'[i] = down[i + 1]
  PROVE  DownInv'
<1>1. Done' = Done /\ (Up("open")' <=> Up("open"))
  BY DEF Done, Up
<1>2. \A n : Has(n)' <=> Has(n)
  BY <1>1 DEF Has
<1> SUFFICES ASSUME NEW i \in 1 .. Len(down')
             PROVE  /\ OpenedAt(i)' => Has(0)'
                    /\ WrittenAt(i)'
                         => op # "open" /\ ~Up("open") /\ Has(down'[i].at + 1)
                    /\ ClosedAt(i)'
                         => Done \/ (op = "open" /\ \A j \in 1 .. i : ~OpenedAt(j)')
  BY <1>1, <1>2 DEF DownInv
<1>3. i + 1 \in 1 .. Len(down) /\ down'[i] = down[i + 1]
  OBVIOUS
<1>4. ASSUME NEW j \in 1 .. Len(down')
      PROVE  /\ OpenedAt(j)' <=> OpenedAt(j + 1)
             /\ WrittenAt(j)' <=> WrittenAt(j + 1)
             /\ ClosedAt(j)' <=> ClosedAt(j + 1)
  <2>1. down'[j] = down[j + 1]
    BY <1>4
  <2>2. QED
    BY <2>1 DEF OpenedAt, WrittenAt, ClosedAt, Own, Earlier
<1>5. ASSUME op = "open", \A j \in 1 .. (i + 1) : ~OpenedAt(j), NEW j \in 1 .. i
      PROVE  ~OpenedAt(j)'
  <2>1. j + 1 \in 1 .. (i + 1) /\ j \in 1 .. Len(down')
    OBVIOUS
  <2>2. QED
    BY <1>4, <1>5, <2>1
<1>6. QED
  BY <1>2, <1>3, <1>4, <1>5 DEF DownInv

\* A packet or an answer is taken or lost.
LEMMA ShiftedAlone ==
  ASSUME Alone, UNCHANGED starts,
         \/ UNCHANGED up
         \/ \A i \in 1 .. Len(up') : i + 1 \in 1 .. Len(up) /\ up'[i] = up[i + 1],
         \/ UNCHANGED down
         \/ \A i \in 1 .. Len(down') : i + 1 \in 1 .. Len(down) /\ down'[i] = down[i + 1]
  PROVE  Alone'
BY DEF Alone, Own, Earlier

\* What the request takes as confirmed, the node has.
LEMMA ReceiveWrite ==
  ASSUME Types, RequestInv, OrderInv, WriteInv, Receive  PROVE WriteInv'
<1> SUFFICES ASSUME dir' = "write", ~changed', ~misled'  PROVE WriteInv'
  BY DEF WriteInv
<1> DEFINE a == down[1]
<1>1. /\ a \in DownPackets /\ 1 \in 1 .. Len(down)
      /\ Len(down') \in Nat /\ Len(down) \in Nat
      /\ \A i \in 1 .. Len(down') : i + 1 \in 1 .. Len(down) /\ down'[i] = down[i + 1]
      /\ Respond(a)
      /\ UNCHANGED <<up, nodeVars, starts>>
      /\ ~changed /\ ~misled /\ ~(Awaited(a) /\ Earlier(a))
  <2>1. /\ misled' = (misled \/ (Awaited(a) /\ Earlier(a))) /\ changed' = changed
    BY ReceiveFacts
  <2>2. ~misled /\ ~(Awaited(a) /\ Earlier(a))
    BY <2>1
  <2> HIDE DEF a
  <2>3. QED
    BY <2>1, <2>2, ReceiveFacts DEF a
<1>2. want' = want /\ dir = "write" /\ dir # None
  <2>1. want' = want
    BY <1>1, RespondFacts
  <2>2. dir = "write"
    BY <1>1, ConstantsAssumption
       DEF Respond, Opened, Transferred, Closed, Aborted, Proceed, End, reqVars
  <2>3. QED
    BY <2>1, <2>2, ConstantsAssumption
<1>3. UpInv /\ DownInv
      /\ (op # "open" => Alone /\ Has(Len(got)) /\ (got # <<>> => ~Up("open")))
  BY <1>1, <1>2 DEF WriteInv
<1>4. UNCHANGED <<up, part, file, want, starts>> /\ (Up("open")' <=> Up("open"))
  BY <1>1, <1>2 DEF nodeVars, Up
<1>5. a.at \in Nat
  BY <1>1, DownPacketTypes
<1>6. CASE UNCHANGED reqVars
  <2>1. UNCHANGED <<op, got>>
    BY <1>6 DEF reqVars
  <2>2. DownInv'
    BY <1>1, <1>3, <1>4, <2>1, ShiftedDown
  <2>3. UpInv'
    BY <1>3, <1>4, <2>1 DEF UpInv, Own
  <2>4. Has(Len(got)) => Has(Len(got))'
    BY <1>4, <2>1 DEF Has, Done
  <2>5. Alone => Alone'
    BY <1>1, ShiftedAlone
  <2>6. QED
    BY <1>3, <1>4, <2>1, <2>2, <2>3, <2>4, <2>5 DEF WriteInv
<1>7. CASE /\ op' \in {"data", "close"} /\ ~Done /\ Alone'
           /\ \/ op = "open" /\ OpenedAt(1) /\ got' = <<>>
              \/ op = "data" /\ Has(Len(got) + 1) /\ Len(got') = Len(got) + 1 /\ ~Up("open")
  <2>1. \A n \in Nat : Has(n) => Has(n)'
    BY <1>4, <1>7 DEF Has, Done
  <2>2. UpInv'
    BY <1>3, <1>4, <1>7 DEF UpInv, Own
  <2>3. Has(Len(got))' /\ (got' # <<>> => ~Up("open")')
    <3>1. CASE op = "open" /\ OpenedAt(1) /\ got' = <<>>
      BY <1>1, <1>3, <2>1, <3>1 DEF DownInv
    <3>2. CASE op = "data" /\ Has(Len(got) + 1) /\ Len(got') = Len(got) + 1 /\ ~Up("open")
      <4>1. Len(got) + 1 \in Nat
        BY DEF Types
      <4>2. QED
        BY <1>4, <2>1, <3>2, <4>1
    <3>3. QED
      BY <1>7, <3>1, <3>2
  <2>4. DownInv'
    <3> SUFFICES ASSUME NEW i \in 1 .. Len(down')
                 PROVE  /\ OpenedAt(i)' => Has(0)'
                        /\ WrittenAt(i)' => ~Up("open") /\ Has(down[i].at + 1)'
                        /\ ~ClosedAt(i)'
      BY <1>4, <1>7 DEF DownInv
    <3>1. i + 1 \in 1 .. Len(down) /\ down'[i] = down[i + 1] /\ 1 \in 1 .. (i + 1)
      BY <1>1
    <3>2. down[i + 1].at + 1 \in Nat
      <4>1. down[i + 1] \in DownPackets
        BY <3>1 DEF Types
      <4>2. QED
        BY <4>1, DownPacketTypes
    <3>3. /\ OpenedAt(i)' <=> OpenedAt(i + 1)
          /\ WrittenAt(i)' <=> WrittenAt(i + 1)
          /\ ClosedAt(i)' <=> ClosedAt(i + 1)
      BY <1>4, <3>1 DEF OpenedAt, WrittenAt, ClosedAt, Own, Earlier
    <3>4. OpenedAt(i)' => Has(0)'
      BY <1>3, <2>1, <3>1, <3>3 DEF DownInv
    <3>5. ~ClosedAt(i)'
      BY <1>3, <1>7, <3>1, <3>3 DEF DownInv
    <3>6. QED
      BY <1>3, <2>1, <3>1, <3>2, <3>3, <3>4, <3>5 DEF DownInv
  <2>5. QED
    BY <1>7, <2>2, <2>3, <2>4 DEF WriteInv
<1>8. CASE Awaited(a) /\ Opened(a)
  <2>1. a.op = "open" /\ op = "open" /\ a.dir = "write" /\ got' = <<>>
        /\ op' \in {"data", "close"}
    BY <1>2, <1>8 DEF Opened, Awaited, Proceed
  <2>2. Own(a) /\ a = down[1]
    <3>1. a.no \in 0 .. starts /\ a.no # 0 /\ starts \in Nat
      BY <1>1, <2>1 DEF OrderInv, Types
    <3>2. a.no \notin 1 .. (starts - 1)
      BY <1>1, <1>8 DEF Earlier
    <3>3. QED
      BY <3>1, <3>2 DEF Own
  <2>3. Alone'
    <3>1. \A i \in 1 .. Len(up') : Own(up'[i])
      BY <1>1, <1>4, <2>2 DEF OrderInv
    <3>2. ASSUME NEW i \in 1 .. Len(down')  PROVE ~Earlier(down'[i])
      <4>1. i + 1 \in 1 .. Len(down) /\ 1 < i + 1 /\ down'[i] = down[i + 1]
        BY <1>1
      <4>2. QED
        BY <1>1, <2>2, <4>1 DEF OrderInv
    <3>3. QED
      BY <1>4, <3>1, <3>2 DEF Alone, Own, Earlier
  <2>4. QED
    BY <1>7, <2>1, <2>2, <2>3 DEF OpenedAt, Done
<1>9. CASE Awaited(a) /\ Transferred(a) /\ ~UNCHANGED reqVars
  <2>1. a.op = "data" /\ op = "data" /\ a.dir = "write" /\ a.at = Len(got)
        /\ a.val \in Chunks
    BY <1>1, <1>2, <1>9, DownPacketTypes DEF Transferred, Awaited
  <2>2. got' = Append(got, a.val) /\ op' \in {"data", "close"}
    BY <1>2, <1>9 DEF Transferred, Proceed
  <2>3. Len(got') = Len(got) + 1
    BY <2>1, <2>2 DEF Types
  <2>4. Own(a) /\ Alone'
    <3>1. a.no \in 0 .. starts /\ a.no # 0 /\ starts \in Nat
      BY <1>1, <2>1 DEF OrderInv, Types
    <3>2. a.no \notin 1 .. (starts - 1)
      BY <1>1, <1>9 DEF Earlier
    <3>3. Alone'
      BY <1>1, <1>3, <2>1, ShiftedAlone
    <3>4. QED
      BY <3>1, <3>2, <3>3 DEF Own
  <2>5. Has(Len(got) + 1) /\ ~Up("open")
    BY <1>1, <1>3, <2>1, <2>4 DEF DownInv, WrittenAt
  <2>6. QED
    BY <1>7, <2>1, <2>2, <2>3, <2>4, <2>5 DEF Done
<1>10. QED
  <2>1. ~(Awaited(a) /\ (Closed(a) \/ Aborted(a)))
    BY <1>2, ConstantsAssumption DEF Closed, Aborted, End
  <2>2. QED
    BY <1>1, <1>6, <1>8, <1>9, <2>1 DEF Respond

\* A new answer to the upload tells what the node has after its step.
LEMMA NodeAnswers ==
  ASSUME Types, DownInv, UNCHANGED <<op, want, starts>>, Len(down) \in Nat,
         Done => Done',
         \A n \in Nat : Has(n) => Has(n)',
         Up("open")' => Up("open"),
         \A i \in 1 .. Len(down') :
            \/ i \in 1 .. Len(down) /\ down'[i] = down[i]
            \/ /\ i = Len(down) + 1
               /\ \/ down'[i].op = "abort"
                  \/ down'[i].op = "open" /\ Has(0)'
                  \/ down'[i].op = "data" /\ op # "open" /\ ~Up("open")'
                       /\ Has(down[i].at + 1)'
                  \/ down'[i].op = "close" /\ Done'
  PROVE  DownInv'
<1> SUFFICES ASSUME NEW i \in 1 .. Len(down')
             PROVE  /\ OpenedAt(i)' => Has(0)'
                    /\ WrittenAt(i)' => op # "open" /\ ~Up("open")' /\ Has(down[i].at + 1)'
                    /\ ClosedAt(i)'
                         => Done' \/ (op = "open" /\ \A j \in 1 .. i : ~OpenedAt(j)')
  BY DEF DownInv
<1>1. CASE i \in 1 .. Len(down) /\ down'[i] = down[i]
  <2>1. down[i].at + 1 \in Nat
    <3>1. down[i] \in DownPackets
      BY <1>1 DEF Types
    <3>2. QED
      BY <3>1, DownPacketTypes
  <2>2. /\ OpenedAt(i)' <=> OpenedAt(i)
        /\ WrittenAt(i)' <=> WrittenAt(i)
        /\ ClosedAt(i)' <=> ClosedAt(i)
    BY <1>1 DEF OpenedAt, WrittenAt, ClosedAt, Own, Earlier
  <2>3. ASSUME NEW j \in 1 .. i  PROVE OpenedAt(j)' => OpenedAt(j)
    <3>1. j \in 1 .. Len(down') /\ j # Len(down) + 1
      BY <1>1
    <3>2. QED
      BY <3>1 DEF OpenedAt, Own
  <2>4. QED
    BY <1>1, <2>1, <2>2, <2>3 DEF DownInv
<1>2. CASE i = Len(down) + 1
  <2>1. ~(i \in 1 .. Len(down))
    BY <1>2
  <2>2. QED
    BY <1>2, <2>1 DEF OpenedAt, WrittenAt, ClosedAt
<1>3. QED
  BY <1>1, <1>2

\* The node has what it answers, and keeps it to the end of the upload.
LEMMA NodeWrite ==
  ASSUME Types, RequestInv, OrderInv, WriteInv, NodeTakes  PROVE WriteInv'
<1> SUFFICES ASSUME dir = "write", ~changed, ~misled  PROVE WriteInv'
  BY NodeFacts DEF WriteInv, reqVars, causes
<1>1. /\ up[1] \in UpPackets /\ 1 \in 1 .. Len(up)
      /\ Len(up') \in Nat /\ Len(up) \in Nat /\ up # <<>>
      /\ \A i \in 1 .. Len(up') : i + 1 \in 1 .. Len(up) /\ up'[i] = up[i + 1]
      /\ UNCHANGED <<reqVars, fileVars, causes, starts>>
  BY NodeFacts DEF NodeTakes
<1>2. UNCHANGED <<op, want, got, starts>>
  BY <1>1 DEF reqVars
<1>3. UpInv /\ DownInv
      /\ (op # "open" => Alone /\ Has(Len(got)) /\ (got # <<>> => ~Up("open")))
  BY DEF WriteInv
<1>4. UpInv' /\ (Up("open")' => Up("open"))
  BY <1>1, <1>2, <1>3, ShiftedUp
<1>13. /\ Len(down) \in Nat /\ Len(down') \in Nat
       /\ \A i \in 1 .. Len(down') :
              \/ i \in 1 .. Len(down) /\ down'[i] = down[i]
              \/ i = Len(down) + 1 /\ down'[i].no = up[1].no
  BY AnswerNumber
<1>14. CASE ~Own(up[1])
  <2>1. op = "open" /\ \A i \in 1 .. Len(down) : ~Own(down[i])
    BY <1>1, <1>3, <1>14 DEF OrderInv, Alone
  <2>2. up[1].no \in 1 .. starts /\ starts \in Nat
    BY <1>1 DEF OrderInv, Types
  <2>3. ASSUME NEW i \in 1 .. Len(down')  PROVE ~Own(down'[i])
    BY <1>13, <1>14, <2>1 DEF Own
  <2>4. DownInv'
    BY <1>2, <2>1, <2>3 DEF DownInv, OpenedAt, WrittenAt, Own
  <2>5. QED
    BY <1>2, <1>4, <2>1, <2>4 DEF WriteInv
<1> SUFFICES ASSUME Own(up[1])  PROVE WriteInv'
  BY <1>14
<1>15. Alone => Alone'
  <2>1. up[1].no \notin 1 .. (starts - 1)
    BY DEF Own, Types
  <2>2. QED
    BY <1>1, <1>2, <1>13, <2>1 DEF Alone, Own, Earlier
<1>5. /\ up[1].dir = "write" /\ up[1].at \in Nat
      /\ file \in Seq(Chunks) /\ want \in Seq(Chunks)
      /\ part \in Seq(Chunks) \cup {None}
      /\ Len(got) \in Nat /\ Len(want) \in Nat
      /\ dir # None
  BY <1>1, <1>3, UpPacketTypes, ConstantsAssumption DEF UpInv, Types
<1>6. ASSUME \A n \in Nat : Has(n) => Has(n)', Done => Done', DownInv'
      PROVE  WriteInv'
  <2>1. op # "open" => Has(Len(got))'
    BY <1>2, <1>3, <1>5, <1>6
  <2>2. QED
    BY <1>2, <1>3, <1>4, <1>6, <1>15, <2>1 DEF WriteInv
<1>7. CASE Refuse(up[1])
  <2>1. /\ Len(down) \in Nat
        /\ \A i \in 1 .. Len(down') :
             \/ i \in 1 .. Len(down) /\ down'[i] = down[i]
             \/ i = Len(down) + 1 /\ down'[i].op = "abort"
        /\ UNCHANGED nodeVars
    BY <1>1, <1>7, RefuseFacts
  <2>2. (Done => Done') /\ \A n \in Nat : Has(n) => Has(n)'
    BY <1>2, <1>4, <2>1, NodeKeeps DEF nodeVars
  <2>3. DownInv'
    BY <1>2, <1>3, <1>4, <2>1, <2>2, NodeAnswers
  <2>4. QED
    BY <1>6, <2>2, <2>3
<1>8. CASE NodeOpens(up[1])
  <2>1. Up("open")
    BY <1>1, <1>8 DEF NodeOpens, Up
  <2>2. part' = <<>> /\ file' = file /\ Answer(up[1], file) /\ up[1].op = "open"
    BY <1>5, <1>8 DEF NodeOpens
  <2>3. Has(0)' /\ ~Done
    <3>1. <<>> # None
      BY ConstantsAssumption
    <3>2. QED
      BY <1>2, <1>5, <2>1, <2>2, <3>1 DEF Has, Done
  <2>4. /\ Len(down) \in Nat
        /\ \A i \in 1 .. Len(down') :
             \/ i \in 1 .. Len(down) /\ down'[i] = down[i]
             \/ i = Len(down) + 1 /\ down'[i].op = "open"
    BY <1>1, <1>5, <2>2, AnswerFacts
  <2>5. ASSUME NEW i \in 1 .. Len(down)  PROVE ~WrittenAt(i)
    BY <1>3, <2>1 DEF DownInv
  <2>6. ASSUME NEW i \in 1 .. Len(down')
        PROVE  /\ OpenedAt(i)' => Has(0)'
               /\ ~WrittenAt(i)'
               /\ ClosedAt(i)' => op = "open" /\ \A j \in 1 .. i : ~OpenedAt(j)'
    <3>1. CASE i \in 1 .. Len(down) /\ down'[i] = down[i]
      <4>1. ASSUME NEW j \in 1 .. i  PROVE OpenedAt(j)' => OpenedAt(j)
        <5>1. j \in 1 .. Len(down') /\ j # Len(down) + 1
          BY <2>4, <3>1
        <5>2. QED
          BY <1>2, <2>4, <5>1 DEF OpenedAt, Own
      <4>2. (WrittenAt(i)' <=> WrittenAt(i)) /\ (ClosedAt(i)' <=> ClosedAt(i))
        BY <1>2, <3>1 DEF WrittenAt, ClosedAt, Own, Earlier
      <4>3. QED
        BY <1>3, <2>3, <2>5, <3>1, <4>1, <4>2 DEF DownInv
    <3>2. CASE i = Len(down) + 1 /\ down'[i].op = "open"
      BY <2>3, <3>2 DEF WrittenAt, ClosedAt
    <3>3. QED
      BY <2>4, <3>1, <3>2
  <2>7. DownInv'
    BY <1>2, <2>6 DEF DownInv
  <2>8. op # "open" => got = <<>>
    BY <1>3, <2>1
  <2>9. QED
    BY <1>2, <1>3, <1>4, <1>15, <2>3, <2>7, <2>8 DEF WriteInv
<1>9. CASE NodeReads(up[1])
  BY <1>5, <1>9 DEF NodeReads
<1>10. CASE NodeWrites(up[1])
  <2> DEFINE p == up[1]
  <2>1. /\ op # "open" /\ p.at < Len(want) /\ p.val = want[p.at + 1] /\ ~Up("open")
        /\ p.op = "data"
    BY <1>1, <1>3, <1>10, NoMoreOpens DEF NodeWrites, UpInv
  <2>2. /\ part # None /\ part \in Seq(Chunks) /\ p.at <= Len(part) /\ ~Done
        /\ part' = IF p.at = Len(part) THEN Append(part, p.val)
                   ELSE [part EXCEPT ![p.at + 1] = p.val]
        /\ Answer(p, p.val)
        /\ file' = file
    BY <1>5, <1>10 DEF NodeWrites, Done
  <2>3. /\ Len(part) <= Len(want)
        /\ \A i \in 1 .. Len(part) : part[i] = want[i]
        /\ p.val \in Chunks /\ p.at \in Nat
    BY <1>1, <1>3, <1>5, <2>1, <2>2, UpPacketTypes DEF Has
  <2> HIDE DEF p
  <2>4. /\ part' \in Seq(Chunks)
        /\ Len(part') <= Len(want) /\ Len(part) <= Len(part') /\ p.at < Len(part')
        /\ \A i \in 1 .. Len(part') : part'[i] = want[i]
    <3>1. CASE p.at = Len(part)
      BY <1>5, <2>1, <2>2, <2>3, <3>1
    <3>2. CASE p.at # Len(part)
      <4>1. part' = [part EXCEPT ![p.at + 1] = p.val]
        BY <2>2, <3>2
      <4>2. QED
        BY <1>5, <2>1, <2>2, <2>3, <3>2, <4>1
    <3>3. QED
      BY <3>1, <3>2
  <2>5. part' # None /\ Len(part) \in Nat /\ Len(part') \in Nat
    <3>1. part \in Seq(Chunks) /\ part' \in Seq(Chunks)
      BY <2>2, <2>4
    <3>2. part' # None
      BY <3>1, ConstantsAssumption
    <3>3. QED
      BY <3>1, <3>2
  <2>6. ASSUME NEW n \in Nat, n <= Len(part')  PROVE Has(n)'
    BY <1>2, <2>4, <2>5, <2>6 DEF Has
  <2>7. \A n \in Nat : Has(n) => Has(n)'
    <3>1. \A n \in Nat : Has(n) => n <= Len(part)
      BY <2>2 DEF Has
    <3>2. QED
      BY <2>4, <2>5, <2>6, <3>1
  <2>8. /\ Len(down) \in Nat
        /\ \A i \in 1 .. Len(down') :
             \/ i \in 1 .. Len(down) /\ down'[i] = down[i]
             \/ i = Len(down) + 1 /\ down'[i].op = "data" /\ down'[i].at = p.at
    BY <1>1, <1>5, <2>1, <2>2, <2>3, AnswerFacts DEF p
  <2>9. p.at + 1 \in Nat /\ p.at + 1 <= Len(part')
    BY <2>3, <2>4, <2>5
  <2>10. \A i \in 1 .. Len(down') :
             \/ i \in 1 .. Len(down) /\ down'[i] = down[i]
             \/ /\ i = Len(down) + 1 /\ down'[i].op = "data" /\ op # "open"
                /\ ~Up("open")' /\ Has(down[i].at + 1)'
    BY <1>4, <2>1, <2>6, <2>8, <2>9
  <2>11. DownInv'
    BY <1>2, <1>3, <1>4, <2>2, <2>7, <2>8, <2>10, NodeAnswers
  <2>12. QED
    BY <1>6, <2>2, <2>7, <2>11
<1>11. CASE NodeCloses(up[1])
  <2>1. op = "close" /\ ~Up("open") /\ up[1].op = "close"
    BY <1>1, <1>3, <1>11, NoMoreOpens DEF NodeCloses, UpInv
  <2>2. Len(got) = Len(want)
    BY <1>5, <2>1 DEF RequestInv, Size
  <2>3. Done \/ part = want
    <3>1. ASSUME ~Done  PROVE part = want
      <4>1. /\ part \in Seq(Chunks) /\ Len(part) = Len(want)
            /\ \A i \in 1 .. Len(part) : part[i] = want[i]
        BY <1>3, <1>5, <2>1, <2>2, <3>1 DEF Has
      <4>2. QED
        BY <1>5, <4>1
    <3>2. QED
      BY <3>1
  <2>4. want # None
    BY <1>5, ConstantsAssumption
  <2>5. Done'
    BY <1>2, <1>4, <1>11, <2>1, <2>3, <2>4 DEF Done, NodeCloses
  <2>6. \A n \in Nat : Has(n)'
    BY <2>5 DEF Has
  <2>7. file' \in Seq(Chunks) /\ Answer(up[1], file')
    BY <1>11, NodeTypes DEF NodeCloses
  <2>8. /\ Len(down) \in Nat
        /\ \A i \in 1 .. Len(down') :
             \/ i \in 1 .. Len(down) /\ down'[i] = down[i]
             \/ i = Len(down) + 1 /\ down'[i].op = "close"
    BY <1>1, <2>1, <2>7, AnswerFacts
  <2>9. DownInv'
    BY <1>2, <1>3, <1>4, <2>5, <2>6, <2>8, NodeAnswers
  <2>10. QED
    BY <1>6, <2>5, <2>6, <2>9
<1>12. QED
  BY <1>7, <1>8, <1>9, <1>10, <1>11, NodeFacts


\* Every step keeps what is known of an upload.
LEMMA NextWrite ==
  ASSUME Types, RequestInv, OrderInv, WriteInv, [Next]_vars  PROVE WriteInv'
<1>1. ASSUME NEW d \in Directions, NEW c \in Contents, Start(d, c)
      PROVE  WriteInv'
  <2>1. UNCHANGED <<up, down>> /\ starts' = starts + 1 /\ starts \in Nat /\ op' = "open"
    BY <1>1 DEF Start, Types
  <2>2. \A i \in 1 .. Len(up) : ~Own(up[i])'
    BY <2>1 DEF OrderInv, Own
  <2>3. \A i \in 1 .. Len(down) : ~Own(down[i])'
    BY <2>1 DEF OrderInv, Own
  <2>4. UpInv' /\ DownInv'
    BY <2>1, <2>2, <2>3 DEF UpInv, DownInv, OpenedAt, WrittenAt
  <2>5. QED
    BY <2>1, <2>4 DEF WriteInv
<1>2. CASE Send
  <2> SUFFICES ASSUME dir = "write", ~changed, ~misled  PROVE WriteInv'
    BY <1>2 DEF WriteInv, Send, causes
  <2>1. /\ Len(up) \in Nat /\ Len(up') \in Nat
        /\ \A i \in 1 .. Len(up') :
             \/ i \in 1 .. Len(up) /\ up'[i] = up[i]
             \/ i = Len(up) + 1 /\ up'[i] = Packet
    BY <1>2, SendFacts
  <2>2. /\ UNCHANGED <<dir, want, op, got, down, part, file, causes, starts>>
        /\ dir # None
    BY <1>2, ConstantsAssumption DEF Send, nodeVars
  <2>3. UpInv /\ DownInv
      /\ (op # "open" => Alone /\ Has(Len(got)) /\ (got # <<>> => ~Up("open")))
    BY DEF WriteInv
  <2>4. /\ Packet.dir = "write" /\ Packet.op = op /\ Packet.no = starts
        /\ op = "data" => /\ Packet.at = Len(got) /\ Packet.at < Len(want)
                          /\ Packet.val = want[Packet.at + 1]
    BY <2>2 DEF Packet, RequestInv, Size
  <2>5. UpInv'
    <3>1. ASSUME NEW i \in 1 .. Len(up'), Own(up'[i])
          PROVE  /\ up'[i].dir = "write"
                 /\ up'[i].op = "data" => /\ op # "open"
                                          /\ up'[i].at < Len(want)
                                          /\ up'[i].val = want[up'[i].at + 1]
                 /\ up'[i].op = "close" => op = "close"
      BY <2>1, <2>3, <2>4, <3>1 DEF UpInv
    <3>2. ASSUME NEW i \in 1 .. Len(up'), NEW j \in 1 .. Len(up'), i < j,
                 Own(up'[i]), up'[j].op = "open"
          PROVE  up'[i].op = "open"
      <4>1. i \in 1 .. Len(up) /\ up'[i] = up[i]
        BY <2>1, <3>2
      <4>2. CASE j \in 1 .. Len(up) /\ up'[j] = up[j]
        BY <2>3, <3>2, <4>1, <4>2 DEF UpInv
      <4>3. CASE up'[j] = Packet
        <5>1. op = "open"
          BY <2>4, <3>2, <4>3
        <5>2. up[i] \in UpPackets
          BY <4>1 DEF Types
        <5>3. QED
          BY <2>3, <3>2, <4>1, <5>1, <5>2, UpPacketTypes DEF UpInv
      <4>4. QED
        BY <2>1, <4>2, <4>3
    <3>3. \A i \in 1 .. Len(up') : Own(up[i])' <=> Own(up'[i])
      BY <2>2 DEF Own
    <3>4. QED
      BY <2>2, <3>1, <3>2, <3>3 DEF UpInv
  <2>6. op # "open" => (Up("open")' => Up("open"))
    BY <2>1, <2>4 DEF Up
  <2>7. (Done => Done') /\ \A n : Has(n) => Has(n)'
    BY <2>2, <2>6 DEF Has, Done
  <2>8. DownInv'
    <3>1. \A i : /\ OpenedAt(i)' <=> OpenedAt(i)
                 /\ WrittenAt(i)' <=> WrittenAt(i)
                 /\ ClosedAt(i)' <=> ClosedAt(i)
      BY <2>2 DEF OpenedAt, WrittenAt, ClosedAt, Own, Earlier
    <3>2. QED
      BY <2>2, <2>3, <2>6, <2>7, <3>1 DEF DownInv
  <2>9. Alone => Alone'
    BY <2>1, <2>2, <2>4 DEF Alone, Own, Earlier
  <2>10. QED
    BY <2>2, <2>3, <2>5, <2>6, <2>7, <2>8, <2>9 DEF WriteInv
<1>3. CASE TimeoutDrop \/ FileChanges
  BY <1>3, ConstantsAssumption DEF TimeoutDrop, End, FileChanges, WriteInv
<1>4. CASE TimeoutRetry \/ UNCHANGED vars
  <2>1. UNCHANGED <<dir, want, op, got, up, down, part, file, causes, starts>>
    BY <1>4 DEF TimeoutRetry, vars, nodeVars, causes
  <2>2. QED
    BY <2>1 DEF WriteInv, UpInv, DownInv, Alone, Has, Done, OpenedAt, WrittenAt,
       ClosedAt, Own, Earlier, Up, causes
<1>5. CASE Receive
  BY <1>5, ReceiveWrite
<1>6. CASE NodeTakes
  BY <1>6, NodeWrite
<1>7. CASE Lose
  <2> SUFFICES ASSUME dir = "write", ~changed, ~misled  PROVE WriteInv'
    BY <1>7, LoseFacts DEF WriteInv, reqVars, causes
  <2>1. /\ Len(up') \in Nat /\ Len(down') \in Nat
        /\ \/ UNCHANGED up
           \/ \A i \in 1 .. Len(up') : i + 1 \in 1 .. Len(up) /\ up'[i] = up[i + 1]
        /\ \/ UNCHANGED down
           \/ \A i \in 1 .. Len(down') : i + 1 \in 1 .. Len(down) /\ down'[i] = down[i + 1]
        /\ UNCHANGED <<dir, want, op, got, part, file, causes, starts>>
    BY <1>7, LoseFacts DEF reqVars, nodeVars
  <2>2. UpInv /\ DownInv
      /\ (op # "open" => Alone /\ Has(Len(got)) /\ (got # <<>> => ~Up("open")))
    BY DEF WriteInv
  <2>3. UpInv' /\ (Up("open")' => Up("open"))
    <3>1. CASE UNCHANGED up
      BY <2>1, <2>2, <3>1 DEF UpInv, Own, Up
    <3>2. CASE \A i \in 1 .. Len(up') : i + 1 \in 1 .. Len(up) /\ up'[i] = up[i + 1]
      BY <2>1, <2>2, <3>2, ShiftedUp
    <3>3. QED
      BY <2>1, <3>1, <3>2
  <2>4. (Done => Done') /\ \A n : Has(n) => Has(n)'
    BY <2>1, <2>3 DEF Has, Done
  <2>5. DownInv'
    <3>1. CASE UNCHANGED down
      BY <2>1, <2>2, <2>3, <2>4, <3>1
         DEF DownInv, OpenedAt, WrittenAt, ClosedAt, Own, Earlier
    <3>2. CASE /\ UNCHANGED up
               /\ \A i \in 1 .. Len(down') : i + 1 \in 1 .. Len(down) /\ down'[i] = down[i + 1]
      BY <2>1, <2>2, <3>2, ShiftedDown
    <3>3. QED
      BY <1>7, <2>1, <3>1, <3>2 DEF Lose
  <2>6. Alone => Alone'
    BY <2>1, ShiftedAlone
  <2>7. QED
    BY <2>1, <2>2, <2>3, <2>4, <2>5, <2>6 DEF WriteInv
<1>8. CASE OtherReads
  <2> SUFFICES ASSUME dir = "write", ~changed, ~misled  PROVE WriteInv'
    BY <1>8, OtherFacts DEF WriteInv, reqVars, causes
  <2>1. /\ part = None /\ Len(down) \in Nat
        /\ \A i \in 1 .. Len(down') :
              \/ i \in 1 .. Len(down) /\ down'[i] = down[i]
              \/ i = Len(down) + 1 /\ down'[i].dir = "read" /\ down'[i].no = 0
        /\ UNCHANGED <<dir, want, op, got, up, part, file, causes, starts>>
    BY <1>8, OtherFacts DEF reqVars, nodeVars
  <2>2. UpInv /\ DownInv
      /\ (op # "open" => Alone /\ Has(Len(got)) /\ (got # <<>> => ~Up("open")))
    BY DEF WriteInv
  <2>3. (Done' <=> Done) /\ (Up("open")' <=> Up("open")) /\ \A n : Has(n)' <=> Has(n)
    BY <2>1 DEF Has, Done, Up
  <2>4. Done \/ (op = "open" /\ \A j \in 1 .. Len(down) : ~OpenedAt(j))
    BY <2>1, <2>2 DEF DownInv, Has, Done
  <2>5. \A j \in 1 .. Len(down') :
           OpenedAt(j)' => j \in 1 .. Len(down) /\ OpenedAt(j)
    BY <2>1 DEF OpenedAt, Own
  <2>6. DownInv'
    <3> SUFFICES ASSUME NEW i \in 1 .. Len(down')
                 PROVE  /\ OpenedAt(i)' => Has(0)
                        /\ WrittenAt(i)'
                             => op # "open" /\ ~Up("open") /\ Has(down'[i].at + 1)
                        /\ ClosedAt(i)'
                             => Done \/ (op = "open" /\ \A j \in 1 .. i : ~OpenedAt(j)')
      BY <2>1, <2>3 DEF DownInv
    <3>1. \A j \in 1 .. i : j \in 1 .. Len(down')
      BY <1>8, OtherFacts
    <3>2. ClosedAt(i)' => Done \/ (op = "open" /\ \A j \in 1 .. i : ~OpenedAt(j)')
      BY <2>4, <2>5, <3>1
    <3>3. WrittenAt(i)' => WrittenAt(i) /\ i \in 1 .. Len(down) /\ down'[i] = down[i]
      BY <2>1 DEF WrittenAt, Own
    <3>4. QED
      BY <2>1, <2>2, <2>5, <3>2, <3>3 DEF DownInv
  <2>7. UpInv'
    BY <2>1, <2>2 DEF UpInv, Own
  <2>8. Alone => Alone'
    BY <2>1 DEF Alone, Own, Earlier
  <2>9. QED
    BY <2>1, <2>2, <2>3, <2>6, <2>7, <2>8 DEF WriteInv
<1>9. QED
  BY <1>1, <1>2, <1>3, <1>4, <1>5, <1>6, <1>7, <1>8 DEF Next, Timers

\* When an upload is reported as done, the node has written it.
LEMMA UploadedStep ==
  ASSUME IInv, [Next]_vars,
         result' = "uploaded", dir = "write", ~changed, ~misled'
  PROVE  file = want
<1>1. dir # None /\ result # "uploaded"
  BY ConstantsAssumption DEF IInv, RequestInv
<1>2. Receive
  BY <1>1, ConstantsAssumption DEF Next, Timers, Start, Send, TimeoutRetry,
     TimeoutDrop, End, NodeTakes, Lose, FileChanges, OtherReads, reqVars, vars
<1>3. /\ 1 \in 1 .. Len(down) /\ Respond(down[1]) /\ ~misled
      /\ ~(Awaited(down[1]) /\ Earlier(down[1]))
  BY <1>2, ReceiveFacts DEF IInv
<1>4. down[1].op = "close" /\ op = "close" /\ Awaited(down[1])
  BY <1>1, <1>3, ConstantsAssumption
     DEF Respond, Awaited, Opened, Transferred, Closed, Aborted, Proceed, End, reqVars
<1>5. QED
  BY <1>3, <1>4 DEF IInv, WriteInv, DownInv, ClosedAt, Done

-----------------------------------------------------------------------------
(* The type invariant *)

\* What a request has transferred fits its size, and what PApxNodeFile has
\* collected fits the file; the bounds are kept.
RestInv ==
    /\ TypeOK
    /\ dir # None /\ op = "open" => got = <<>>

\* A link never holds more than it can.
LEMMA OntoBound ==
  ASSUME NEW S, NEW link \in Seq(S), NEW p, Len(link) <= MaxLink
  PROVE  Len(Onto(link, p)) <= MaxLink
<1>1. CASE Len(link) < MaxLink
  <2>1. Onto(link, p) = Append(link, p) /\ Len(Append(link, p)) = Len(link) + 1
    BY <1>1 DEF Onto
  <2>2. QED
    BY <1>1, <2>1, ConstantsAssumption
<1>2. CASE ~(Len(link) < MaxLink)
  BY <1>2 DEF Onto
<1>3. QED
  BY <1>1, <1>2

\* An answer of the node leaves the rest as it is.
LEMMA NodeRest ==
  ASSUME Types, RestInv, NodeTakes
  PROVE  /\ Len(up') <= MaxLink /\ Len(down') <= MaxLink
         /\ had' \subseteq had \cup {file'}
<1>1. /\ up \in Seq(UpPackets) /\ down \in Seq(DownPackets)
      /\ Len(up) <= MaxLink /\ Len(down) <= MaxLink
  BY DEF Types, RestInv, TypeOK
<1>2. up # <<>> /\ up' = Tail(up) /\ MaxLink \in Nat
  BY ConstantsAssumption DEF NodeTakes
<1>3. Len(up') <= MaxLink
  BY <1>1, <1>2
<1>4. \E a : down' = Onto(down, a)
  BY NodeFacts DEF Refuse, NodeOpens, NodeReads, NodeWrites, NodeCloses, Answer
<1>5. Len(down') <= MaxLink
  BY <1>1, <1>4, OntoBound
<1>6. had' \subseteq had \cup {file'}
  BY NodeFacts DEF Refuse, NodeOpens, NodeReads, NodeWrites, NodeCloses, nodeVars
<1>7. QED
  BY <1>3, <1>5, <1>6

\* What PApxNodeFile collects
LEMMA ObserveRest ==
  ASSUME Types, RestInv, NEW a \in DownPackets, Observe(a)
  PROVE  /\ Len(data') <= Len(fileInfo')
         /\ downloaded' \in Seq(Chunks) \cup {None}
<1>1. /\ fileInfo \in Seq(Chunks) /\ data \in Seq(Chunks)
      /\ Len(fileInfo) \in Nat /\ Len(data) \in Nat /\ Len(data) <= Len(fileInfo)
      /\ downloaded \in Seq(Chunks) \cup {None}
      /\ openOp \in {"read", "write", None}
  BY DEF Types, RestInv, TypeOK
<1>2. /\ fileInfo' \in Seq(Chunks)
  BY ObserveTypes
<1>3. Len(fileInfo') \in Nat /\ Len(<<>>) = 0
  BY <1>2
<1>4. CASE a.op = "data"
  <2>1. CASE data' = Append(data, a.val) /\ fileInfo' = fileInfo /\ Len(data) < Len(fileInfo)
    <3>1. Len(data') = Len(data) + 1
      BY <1>1, <2>1
    <3>2. Len(data') <= Len(fileInfo')
      BY <1>1, <2>1, <3>1
    <3>3. downloaded' = downloaded
      BY <1>4 DEF Observe, fileVars
    <3>4. QED
      BY <1>1, <3>2, <3>3
  <2>2. CASE data' \in {data, <<>>} /\ fileInfo' = fileInfo
    <3>1. downloaded' = downloaded
      BY <1>4 DEF Observe, fileVars
    <3>2. QED
      BY <1>1, <1>3, <2>2, <3>1
  <2>3. QED
    BY <1>1, <1>4, <2>1, <2>2 DEF Observe, Collect, fileVars
<1>5. CASE a.op # "data"
  <2>1. data' = <<>> \/ UNCHANGED <<fileInfo, data>>
    BY <1>5 DEF Observe, fileVars
  <2>2. downloaded' \in {downloaded, data}
    BY <1>5 DEF Observe, fileVars
  <2>3. QED
    BY <1>1, <1>3, <2>1, <2>2
<1>6. QED
  BY <1>4, <1>5

\* What the request makes of an answer
LEMMA RespondRest ==
  ASSUME Types, RequestInv, RestInv, NEW a \in DownPackets, Respond(a)
  PROVE  /\ retry' \in 0 .. Retries
         /\ result' \in {"downloaded", "uploaded", "failed", None}
         /\ dir' # None /\ op' = "open" => got' = <<>>
<1>1. /\ retry \in 0 .. Retries /\ Retries \in 0 .. Retries
      /\ result \in {"downloaded", "uploaded", "failed", None}
      /\ dir # None /\ op = "open" => got = <<>>
  BY ConstantsAssumption DEF RestInv, TypeOK
<1>2. CASE UNCHANGED reqVars
  BY <1>1, <1>2 DEF reqVars
<1>3. CASE Opened(a)
  BY <1>1, <1>3 DEF Opened, Proceed
<1>4. CASE Awaited(a) /\ Transferred(a) /\ ~UNCHANGED reqVars
  <2>1. dir # None /\ dir # "info" /\ op = "data"
    BY <1>4 DEF Transferred, Awaited, RequestInv
  <2>2. QED
    BY <1>1, <1>4, <2>1 DEF Transferred, Proceed
<1>5. CASE Closed(a) \/ Aborted(a)
  BY <1>1, <1>5 DEF Closed, Aborted, End
<1>6. QED
  BY <1>2, <1>3, <1>4, <1>5 DEF Respond

\* Every step keeps the types and the bounds.
LEMMA NextRest ==
  ASSUME Types, RequestInv, RestInv, [Next]_vars  PROVE RestInv'
<1>1. Types' /\ RequestInv'
  BY NextTypes
<1>2. Size' \in Nat /\ Len(got') \in Nat
  BY <1>1 DEF Types, Size
<1> DEFINE Left ==
      /\ want' \in Contents
      /\ retry' \in 0 .. Retries
      /\ result' \in {"downloaded", "uploaded", "failed", None}
      /\ dir' # None /\ op' = "open" => got' = <<>>
      /\ Len(data') <= Len(fileInfo')
      /\ downloaded' \in Seq(Chunks) \cup {None}
      /\ Len(up') <= MaxLink /\ Len(down') <= MaxLink
      /\ had' \subseteq had \cup {file'}
      /\ starts' \in 0 .. MaxStarts /\ events' \in 0 .. MaxEvents
<1>3. Left => RestInv'
  <2> SUFFICES ASSUME Left  PROVE RestInv'
    OBVIOUS
  <2>1. dir' # None => Len(got') <= Size'
    <3>1. dir' # None /\ op' = "open" => Len(got') = 0
      OBVIOUS
    <3>2. /\ dir' # None /\ op' = "data" => Len(got') < Size'
          /\ dir' # None /\ op' = "close" => Len(got') = Size'
          /\ op' \in {"open", "data", "close"}
      BY <1>1 DEF Types, RequestInv
    <3> HIDE DEF Left
    <3>3. QED
      BY <1>2, <3>1, <3>2
  <2>2. had' \subseteq Seq(Chunks)
    BY <1>1 DEF Types, RestInv, TypeOK
  <2>3. QED
    BY <1>1, <2>1, <2>2 DEF Types, RestInv, TypeOK
<1> SUFFICES Left
  BY <1>3
<1>4. /\ want \in Contents /\ retry \in 0 .. Retries
      /\ result \in {"downloaded", "uploaded", "failed", None}
      /\ dir # None /\ op = "open" => got = <<>>
      /\ Len(data) <= Len(fileInfo)
      /\ downloaded \in Seq(Chunks) \cup {None}
      /\ Len(up) <= MaxLink /\ Len(down) <= MaxLink
      /\ starts \in 0 .. MaxStarts /\ events \in 0 .. MaxEvents
  BY DEF RestInv, TypeOK
<1>5. Retries \in Nat /\ MaxStarts \in Nat /\ MaxEvents \in Nat /\ MaxLink \in Nat
  BY ConstantsAssumption
<1>6. ASSUME NEW d \in Directions, NEW c \in Contents, Start(d, c)
      PROVE  Left
  BY <1>4, <1>5, <1>6 DEF Start, nodeVars
<1>7. CASE Send
  <2>1. Len(up') <= MaxLink
    BY <1>4, <1>7, OntoBound DEF Send, Types
  <2>2. QED
    BY <1>4, <1>7, <2>1 DEF Send, fileVars, nodeVars
<1>8. CASE TimeoutRetry
  BY <1>4, <1>5, <1>8 DEF TimeoutRetry, fileVars, nodeVars
<1>9. CASE TimeoutDrop
  BY <1>4, <1>9 DEF TimeoutDrop, End, fileVars, nodeVars
<1>10. CASE Receive
  <2>1. /\ down[1] \in DownPackets /\ Observe(down[1]) /\ Respond(down[1])
        /\ UNCHANGED <<up, nodeVars>>
    BY <1>10, ReceiveFacts
  <2>2. down # <<>> /\ down' = Tail(down) /\ UNCHANGED <<starts, events>>
    BY <1>10 DEF Receive
  <2>3. Len(down') <= MaxLink
    BY <1>4, <1>5, <2>2 DEF Types
  <2>4. want' = want
    BY <2>1, RespondFacts
  <2>5. QED
    BY <1>4, <2>1, <2>2, <2>3, <2>4, ObserveRest, RespondRest DEF nodeVars
<1>11. CASE NodeTakes
  <2>1. UNCHANGED <<reqVars, fileVars, starts, events>>
    BY <1>11 DEF NodeTakes
  <2>2. QED
    BY <1>4, <1>11, <2>1, NodeRest DEF reqVars, fileVars
<1>12. CASE Lose
  <2>1. UNCHANGED <<reqVars, fileVars, nodeVars, starts, events>>
    BY <1>12 DEF Lose
  <2>2. Len(up') <= MaxLink /\ Len(down') <= MaxLink
    <3>1. up \in Seq(UpPackets) /\ down \in Seq(DownPackets)
      BY DEF Types
    <3>2. CASE up # <<>> /\ up' = Tail(up) /\ UNCHANGED down
      BY <1>4, <1>5, <3>1, <3>2
    <3>3. CASE down # <<>> /\ down' = Tail(down) /\ UNCHANGED up
      BY <1>4, <1>5, <3>1, <3>3
    <3>4. QED
      BY <1>12, <3>2, <3>3 DEF Lose
  <2>3. QED
    BY <1>4, <2>1, <2>2 DEF reqVars, fileVars, nodeVars
<1>13. CASE FileChanges
  BY <1>4, <1>5, <1>13 DEF FileChanges, reqVars, fileVars
<1>14. CASE OtherReads
  <2>1. \E a : down' = Onto(down, a)
    BY <1>14 DEF OtherReads
  <2>2. Len(down') <= MaxLink
    BY <1>4, <2>1, OntoBound DEF Types
  <2>3. QED
    BY <1>4, <1>5, <1>14, <2>2 DEF OtherReads, reqVars, fileVars, nodeVars
<1>15. CASE UNCHANGED vars
  BY <1>4, <1>15 DEF vars
<1>16. QED
  BY <1>6, <1>7, <1>8, <1>9, <1>10, <1>11, <1>12, <1>13, <1>14, <1>15 DEF Next, Timers

-----------------------------------------------------------------------------
(* The theorems *)

\* The inductive invariant holds in the beginning.
LEMMA InitInv == Init => IInv
<1> SUFFICES ASSUME Init  PROVE IInv
  OBVIOUS
<1>1. /\ <<>> \in Seq(Chunks) /\ file \in Seq(Chunks)
      /\ up \in Seq(UpPackets) /\ down \in Seq(DownPackets)
  <2>1. file \in Contents /\ up = <<>> /\ down = <<>>
    BY DEF Init
  <2>2. QED
    BY <2>1, ConstantsAssumption
<1>2. Types
  BY <1>1 DEF Init, Types
<1>3. RequestInv /\ HadInv /\ ReadInv /\ WriteInv /\ Delivered /\ KeptInv
  BY ConstantsAssumption DEF Init, RequestInv, HadInv, DownloadedIsWhole, ReadInv,
     WriteInv, Delivered, KeptInv
<1>5. OrderInv
  BY ConstantsAssumption DEF Init, OrderInv
<1>4. QED
  BY <1>2, <1>3, <1>5 DEF IInv

\* It holds in every reachable state.
LEMMA Invariance == Spec => []IInv
<1>1. IInv /\ [Next]_vars => IInv'
  BY NextTypes, NextHad, NextRead, NextKept, NextOrder, NextWrite DEF IInv
<1>2. QED
  BY InitInv, <1>1, PTL DEF Spec

\* The variables keep their types, whatever the links do; a transfer never gets
\* more than the size that PApxNodeRequestFile was told.
THEOREM TypeCorrect == Spec => []TypeOK
<1>1. Init => RestInv
  <2> SUFFICES ASSUME Init  PROVE RestInv
    OBVIOUS
  <2>1. /\ <<>> \in Contents /\ <<>> \in Seq(Chunks) /\ Len(<<>>) = 0
        /\ file \in Seq(Chunks)
    BY ConstantsAssumption DEF Init
  <2>2. /\ 0 \in 0 .. Retries /\ 0 \in 0 .. MaxStarts /\ 0 \in 0 .. MaxEvents
        /\ 0 <= MaxLink
    BY ConstantsAssumption
  <2>3. /\ dir = None /\ want = <<>> /\ info = <<>> /\ fileInfo = <<>> /\ data = <<>>
        /\ up = <<>> /\ down = <<>> /\ had = {file} /\ part = None /\ downloaded = None
        /\ retry = 0 /\ starts = 0 /\ events = 0
        /\ op = "open" /\ tx = "idle" /\ openOp = None /\ result = None
        /\ active = FALSE /\ disturbed = FALSE /\ changed = FALSE /\ misled = FALSE
    BY DEF Init
  <2>4. had \subseteq Seq(Chunks)
    BY <2>1, <2>3
  <2>5. /\ Len(up) <= MaxLink /\ Len(down) <= MaxLink /\ Len(data) <= Len(fileInfo)
    BY <2>1, <2>2, <2>3, ConstantsAssumption
  <2>6. /\ want \in Contents /\ info \in Seq(Chunks) /\ fileInfo \in Seq(Chunks)
        /\ downloaded \in Seq(Chunks) \cup {None} /\ part \in Seq(Chunks) \cup {None}
    BY <2>1, <2>3
  <2>7. TypeOK
    BY <2>1, <2>2, <2>3, <2>4, <2>5, <2>6 DEF TypeOK
  <2>8. QED
    BY <2>3, <2>7 DEF RestInv
<1>2. IInv /\ RestInv /\ [Next]_vars => RestInv'
  BY NextRest DEF IInv
<1>3. RestInv => TypeOK
  BY DEF RestInv
<1>4. QED
  BY <1>1, <1>2, <1>3, Invariance, PTL DEF Spec

\* What is handed over as downloaded is a content the file has had.
THEOREM DownloadedCorrect == Spec => []DownloadedIsWhole
<1>1. IInv => DownloadedIsWhole
  BY DEF IInv, HadInv
<1>2. QED
  BY <1>1, Invariance, PTL

\* A download reported as a success has been handed over, and is the file as it
\* is on the node, if nothing disturbed it: no packet under way at the start, no
\* change of the file, no answer that only PApxNodeFile took.
THEOREM DeliveredCorrect == Spec => []SuccessIsDelivered
<1>1. IInv => SuccessIsDelivered
  BY DEF IInv, Delivered, KeptInv, Calm, SuccessIsDelivered
<1>2. QED
  BY <1>1, Invariance, PTL

\* An upload reported as a success is what the node has, whatever is left under
\* way of earlier requests, unless one of their answers was taken for its own:
\* once the node's answer to its own opening is taken, the order of the link
\* leaves no earlier packet and no earlier answer that could come.
THEOREM UploadedCorrect == Spec => UploadedIsWritten
  BY Invariance, UploadedStep, PTL DEF Spec, UploadedIsWritten
=============================================================================
