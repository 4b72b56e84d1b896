------------------------- MODULE VideoSession_proofs ------------------------
(* Proofs about VideoSession: type correctness, that a stored video is      *)
(* whole, that an acknowledged one is stored, and that a file its row does  *)
(* not name needs a cause.                                                  *)
EXTENDS VideoSession, SequenceTheorems, TLAPS

Msg == [kind : {"video"}, part : Message] \cup [kind : {"sample", "beat"}, part : {0}]

\* The sender may still send a part of the video on this connection.
MaySend(k) ==
    \/ link[k] = "new"
    \/ at = k /\ told = "nothing" /\ ~(waiting = "video" /\ next = Complete)

NoVideo(k) == \A i \in 1..Len(up[k]) : up[k][i].kind # "video"

\* VIDEO_COMPLETE is the last part of a connection.
CompleteIsLast ==
    \A k \in Conn : \A i \in 1..Len(up[k]) :
        up[k][i].kind = "video" /\ up[k][i].part = Complete =>
            /\ ~MaySend(k)
            /\ \A j \in 1..Len(up[k]) : j > i => up[k][j].kind # "video"

\* A handler that stores the video is at the last part, and the one that has
\* stored it is done.
WorkIsLast ==
    /\ \A k \in Conn : work[k] # "idle" => ~MaySend(k) /\ NoVideo(k)
    /\ row # None => ~MaySend(row[2]) /\ NoVideo(row[2]) /\ work[row[2]] = "idle"

\* What is about to be recorded is whole, unless another attempt opened it.
FilledWhole ==
    cleaner = "asleep" =>
        \A k \in Conn :
            work[k] = "insert" /\ opener[path[k]] = k => file[path[k]] = "whole"

\* Without heartbeats the sender, its connection and the handler go in step.
InStep ==
    beats = 0 /\ at # None =>
        /\ waiting = "nothing" => up[at] = <<>> /\ down[at] = <<>> /\ work[at] = "idle"
        /\ work[at] # "idle" => up[at] = <<>> /\ down[at] = <<>>
        /\ up[at] # <<>> => down[at] = <<>> /\ Len(up[at]) = 1
        /\ Len(down[at]) <= 1
        /\ waiting = "video" /\ up[at] # <<>> => up[at][1].kind = "video" /\ up[at][1].part = next
        /\ waiting = "video" /\ next = Complete /\ down[at] # <<>> /\ down[at][1] = "ack"
           /\ cleaner = "asleep" => row # None

\* A new connection is empty, and only an open one is the sender's.
LinksOK ==
    /\ \A k \in Conn : link[k] = "new" => up[k] = <<>> /\ down[k] = <<>> /\ work[k] = "idle"
    /\ at # None => link[at] \in {"open", "closed"}

IInv ==
    /\ TypeOK /\ CompleteIsLast /\ WorkIsLast /\ FilledWhole /\ InStep /\ LinksOK
    /\ StoredWhole /\ AckMeansStored

USE DEF db, disk, tcp, session, sender, bounds, Fault

\* The initial state satisfies the invariant.
LEMMA InitIInv == Init => IInv
<1> SUFFICES ASSUME Init PROVE IInv
    OBVIOUS
<1> USE VideoAssumption DEF Init
<1>1. TypeOK
  <2>1. 1 \in Message
        BY DEF Message, Chunk, Complete
  <2>2. /\ up \in [Conn -> Seq([kind : {"video"}, part : Message]
                               \cup [kind : {"sample", "beat"}, part : {0}])]
        /\ down \in [Conn -> Seq({"ack", "error", "beat"})]
        OBVIOUS
  <2>3. /\ row \in (Day \X Conn) \cup {None} /\ at \in Conn \cup {None}
        /\ opener \in [Day -> Conn \cup {None}] /\ path \in [Conn -> Day]
        OBVIOUS
  <2>4. /\ beats \in 0..MaxBeats /\ samples \in 0..MaxSamples
        /\ edits \in 0..MaxEdits /\ faults \in 0..MaxFaults
        OBVIOUS
  <2>5. /\ day \in Day /\ file \in [Day -> {"none", "part", "whole"}]
        /\ link \in [Conn -> {"new", "open", "left", "closed"}]
        /\ buf \in [Conn -> SUBSET Chunk]
        /\ work \in [Conn -> {"idle", "open", "fill", "insert"}]
        OBVIOUS
  <2> QED BY <2>1, <2>2, <2>3, <2>4, <2>5 DEF TypeOK
<1>2. CompleteIsLast /\ WorkIsLast
      BY DEF CompleteIsLast, WorkIsLast
<1>3. FilledWhole /\ InStep /\ LinksOK
      BY DEF FilledWhole, InStep, LinksOK
<1>4. StoredWhole /\ AckMeansStored
      BY DEF StoredWhole, AckMeansStored
<1> QED BY <1>1, <1>2, <1>3, <1>4 DEF IInv

-----------------------------------------------------------------------------
(* Every action keeps the types *)

LEMMA SenderTypes ==
    ASSUME TypeOK, SenderNext
    PROVE  TypeOK'
<1> USE VideoAssumption DEF TypeOK, Message, Chunk, Complete
<1>1. ASSUME NEW k \in Conn, Connect(k) PROVE TypeOK'
      BY <1>1 DEF Connect
<1>2. CASE Send BY <1>2 DEF Send, Post
<1>3. CASE SendSample BY <1>3 DEF SendSample, Post
<1>4. CASE SendBeat BY <1>4 DEF SendBeat, Post
<1>5. CASE TakeReply BY <1>5 DEF TakeReply
<1>6. CASE HangUp BY <1>6 DEF HangUp
<1> QED BY <1>1, <1>2, <1>3, <1>4, <1>5, <1>6 DEF SenderNext

\* A handler takes the first message, and its reply is one more.
LEMMA TakeTypes ==
    ASSUME TypeOK, NEW k \in Conn, NEW kind, NEW parts, Handles(k, kind, parts)
    PROVE  /\ up[k] # <<>> /\ Head(up[k]) = up[k][1] /\ Head(up[k]) \in Msg
           /\ Tail(up[k]) \in Seq(Msg) /\ up' = [up EXCEPT ![k] = Tail(up[k])]
           /\ up' \in [Conn -> Seq(Msg)] /\ link[k] \in {"open", "left"} /\ work[k] = "idle"
           /\ up[k][1].kind = kind /\ up[k][1].part \in parts
BY DEF TypeOK, Handles, Msg

LEMMA ReplyTypes ==
    ASSUME TypeOK, NEW k \in Conn, NEW r \in {"ack", "error"}, Reply(k, r)
    PROVE  down' \in [Conn -> Seq({"ack", "error", "beat"})]
BY DEF TypeOK, Reply

LEMMA GatewayTypes ==
    ASSUME TypeOK, GatewayNext
    PROVE  TypeOK'
<1>1. CASE GatewayCrash
      BY <1>1, VideoAssumption DEF GatewayCrash, TypeOK
<1>2. ASSUME NEW k \in Conn, GatewayBeat(k) PROVE TypeOK'
  <2>1. beats' \in 0..MaxBeats
    <3>1. beats \in 0..MaxBeats /\ beats < MaxBeats /\ beats' = beats + 1
          BY <1>2 DEF GatewayBeat, TypeOK
    <3> QED BY <3>1, VideoAssumption
  <2>2. down' \in [Conn -> Seq({"ack", "error", "beat"})]
    <3>1. /\ down \in [Conn -> Seq({"ack", "error", "beat"})]
          /\ down' = [down EXCEPT ![k] = Append(down[k], "beat")]
          BY <1>2 DEF GatewayBeat, TypeOK
    <3>2. Append(down[k], "beat") \in Seq({"ack", "error", "beat"})
          BY <3>1
    <3> QED BY <3>1, <3>2
  <2> QED BY <1>2, <2>1, <2>2 DEF GatewayBeat, TypeOK, db, disk, session, sender
<1>3. ASSUME NEW k \in Conn,
             \/ HandleBeat(k) \/ HandleSample(k) \/ ChunkRefused(k) \/ CompleteRefused(k)
             \/ ChunkBuffered(k) \/ CompleteStarts(k)
      PROVE TypeOK'
  <2>1. up' \in [Conn -> Seq(Msg)]
    <3>1. \E kind, parts : Handles(k, kind, parts)
          BY <1>3 DEF HandleBeat, HandleSample, ChunkRefused, CompleteRefused, ChunkBuffered,
                      CompleteStarts
    <3> QED BY <3>1, TakeTypes
  <2>2. down' \in [Conn -> Seq({"ack", "error", "beat"})]
    <3>1. CASE CompleteStarts(k)
          BY <3>1 DEF CompleteStarts, TypeOK
    <3>2. CASE ~CompleteStarts(k)
      <4>1. Reply(k, "ack") \/ Reply(k, "error")
            BY <1>3, <3>2 DEF HandleBeat, HandleSample, ChunkRefused, CompleteRefused,
                              ChunkBuffered
      <4> QED BY <4>1, ReplyTypes
    <3> QED BY <3>1, <3>2
  <2>3. buf' \in [Conn -> SUBSET Chunk] /\ work' \in [Conn -> {"idle", "open", "fill", "insert"}]
    <3>1. CASE ChunkBuffered(k)
      <4>1. Head(up[k]).part \in Chunk /\ work' = work
            BY <3>1 DEF ChunkBuffered, Handles
      <4> QED BY <3>1, <4>1 DEF ChunkBuffered, TypeOK
    <3>2. CASE CompleteStarts(k)
          BY <3>2 DEF CompleteStarts, TypeOK
    <3>3. CASE ~ChunkBuffered(k) /\ ~CompleteStarts(k)
          BY <1>3, <3>3 DEF HandleBeat, HandleSample, ChunkRefused, CompleteRefused, TypeOK
    <3> QED BY <3>1, <3>2, <3>3
  <2>4. requested' \in BOOLEAN
        BY <1>3 DEF HandleBeat, HandleSample, ChunkRefused, CompleteRefused, ChunkBuffered,
                    CompleteStarts, TypeOK
  <2>5. UNCHANGED <<station, row, disk, link, path, sender, cleaner, bounds>>
        BY <1>3 DEF HandleBeat, HandleSample, ChunkRefused, CompleteRefused, ChunkBuffered,
                    CompleteStarts
  <2> QED BY <2>1, <2>2, <2>3, <2>4, <2>5 DEF TypeOK, Msg
<1>4. ASSUME NEW k \in Conn, OpenFile(k) \/ FillFile(k) PROVE TypeOK'
  <2>1. CASE OpenFile(k) BY <2>1 DEF OpenFile, TypeOK
  <2>2. CASE FillFile(k) BY <2>2 DEF FillFile, TypeOK
  <2> QED BY <1>4, <2>1, <2>2
<1>5. ASSUME NEW k \in Conn, SaveFails(k) \/ InsertRefused(k) \/ InsertRow(k) \/ InsertFails(k)
      PROVE TypeOK'
  <2>1. \E r \in {"ack", "error"} : Answer(k, r)
        BY <1>5 DEF SaveFails, InsertRefused, InsertRow, InsertFails
  <2>2. down' \in [Conn -> Seq({"ack", "error", "beat"})]
        BY <2>1, ReplyTypes DEF Answer
  <2>3. /\ buf' \in [Conn -> SUBSET Chunk]
        /\ work' \in [Conn -> {"idle", "open", "fill", "insert"}]
        BY <2>1 DEF Answer, TypeOK
  <2>4. row' \in (Day \X Conn) \cup {None} /\ faults' \in 0..MaxFaults
        BY <1>5, VideoAssumption DEF SaveFails, InsertRefused, InsertRow, InsertFails, TypeOK
  <2>5. UNCHANGED <<station, requested, disk, link, up, path, sender, cleaner, beats, samples, edits>>
        BY <1>5 DEF SaveFails, InsertRefused, InsertRow, InsertFails
  <2> QED BY <2>2, <2>3, <2>4, <2>5 DEF TypeOK
<1>6. ASSUME NEW k \in Conn, Notice(k) \/ ConnectionFails(k) PROVE TypeOK'
  <2>1. Cleanup(k) /\ faults' \in 0..MaxFaults
        /\ UNCHANGED <<db, disk, down, session, sender, cleaner, beats, samples, edits>>
        BY <1>6, VideoAssumption DEF Notice, ConnectionFails, TypeOK
  <2> QED BY <2>1 DEF Cleanup, TypeOK
<1> QED BY <1>1, <1>2, <1>3, <1>4, <1>5, <1>6 DEF GatewayNext

LEMMA AroundTypes ==
    ASSUME TypeOK,
           CleanerNext \/ Midnight \/ (\E s \in {"active", "inactive", "absent"} : EditStation(s))
    PROVE  TypeOK'
<1> USE VideoAssumption DEF TypeOK
<1>1. ASSUME NEW s \in {"active", "inactive", "absent"}, EditStation(s) PROVE TypeOK'
      BY <1>1 DEF EditStation
<1>2. CASE Midnight BY <1>2 DEF Midnight
<1>3. CASE GrowOld \/ DeleteVideo \/ CleanerFails
      BY <1>3 DEF GrowOld, DeleteVideo, CleanerFails
<1>4. CASE UnlinkVideo
  <2>1. row[1] \in Day BY <1>4 DEF UnlinkVideo
  <2>2. /\ cleaner' = "unlinked"
        /\ UNCHANGED <<db, day, opener, tcp, session, sender, beats, samples, edits>>
        BY <1>4 DEF UnlinkVideo
  <2>3. CASE file' = [file EXCEPT ![row[1]] = "none"] /\ UNCHANGED faults
        BY <2>1, <2>2, <2>3
  <2>4. CASE Fault /\ UNCHANGED file
    <3>1. faults' \in 0..MaxFaults BY <2>4
    <3> QED BY <2>2, <2>4, <3>1
  <2> QED BY <1>4, <2>3, <2>4 DEF UnlinkVideo
<1> QED BY <1>1, <1>2, <1>3, <1>4 DEF CleanerNext

-----------------------------------------------------------------------------
(* The order of the parts of a video *)

Order == CompleteIsLast /\ WorkIsLast

\* Messages that are taken or lost leave the others in order.
LEMMA TakingKeepsOrder ==
    ASSUME TypeOK, CompleteIsLast,
           \A k \in Conn : MaySend(k)' => MaySend(k),
           \A k \in Conn : \/ up'[k] = up[k] \/ up'[k] = <<>>
                           \/ up[k] # <<>> /\ up'[k] = Tail(up[k])
    PROVE  CompleteIsLast' /\ \A k \in Conn : NoVideo(k) => NoVideo(k)'
<1>1. ASSUME NEW k \in Conn
      PROVE  \E d \in {0, 1} : /\ Len(up'[k]) <= Len(up[k])
                             /\ \A i \in 1..Len(up'[k]) : i + d \in 1..Len(up[k])
                                                         /\ up'[k][i] = up[k][i + d]
  <2>1. CASE up'[k] = up[k] BY <2>1 DEF TypeOK
  <2>2. CASE up'[k] = <<>> BY <2>2 DEF TypeOK
  <2>3. CASE up[k] # <<>> /\ up'[k] = Tail(up[k])
    <3>1. Len(up'[k]) = Len(up[k]) - 1 /\ \A i \in 1..Len(up'[k]) : up'[k][i] = up[k][i + 1]
          BY <2>3 DEF TypeOK
    <3>2. Len(up[k]) \in Nat BY DEF TypeOK
    <3> QED BY <3>1, <3>2
  <2> QED BY <2>1, <2>2, <2>3
<1>2. ASSUME NEW k \in Conn, NEW i \in 1..Len(up'[k]),
             up'[k][i].kind = "video", up'[k][i].part = Complete
      PROVE  ~MaySend(k)' /\ \A j \in 1..Len(up'[k]) : j > i => up'[k][j].kind # "video"
  <2>1. PICK d \in {0, 1} : \A n \in 1..Len(up'[k]) : n + d \in 1..Len(up[k])
                                                   /\ up'[k][n] = up[k][n + d]
        BY <1>1
  <2>2. /\ ~MaySend(k)
        /\ \A j \in 1..Len(up[k]) : j > i + d => up[k][j].kind # "video"
        BY <1>2, <2>1 DEF CompleteIsLast
  <2>3. ASSUME NEW j \in 1..Len(up'[k]), j > i PROVE up'[k][j].kind # "video"
    <3>1. j + d \in 1..Len(up[k]) /\ up'[k][j] = up[k][j + d]
          BY <2>1
    <3>2. j + d > i + d
          BY <2>3
    <3> QED BY <2>2, <3>1, <3>2
  <2> QED BY <2>2, <2>3
<1>3. CompleteIsLast'
      BY <1>2 DEF CompleteIsLast, Complete
<1>4. ASSUME NEW k \in Conn, NoVideo(k), NEW i \in 1..Len(up'[k])
      PROVE  up'[k][i].kind # "video"
      BY <1>1, <1>4 DEF NoVideo
<1> QED BY <1>3, <1>4 DEF NoVideo

\* So does a message that is not of the video.
LEMMA PostKeepsOrder ==
    ASSUME TypeOK, Order, at # None, NEW kind \in {"sample", "beat"}, Post(kind, 0),
           UNCHANGED <<work, row>>, \A k \in Conn : MaySend(k)' => MaySend(k)
    PROVE  Order'
<1>1. at \in Conn /\ up' = [up EXCEPT ![at] = Append(up[at], [kind |-> kind, part |-> 0])]
      BY DEF TypeOK, Post
<1>2. ASSUME NEW k \in Conn
      PROVE  /\ \A i \in 1..Len(up[k]) : i \in 1..Len(up'[k]) /\ up'[k][i] = up[k][i]
             /\ \A i \in 1..Len(up'[k]) : i \notin 1..Len(up[k]) => up'[k][i].kind = kind
      BY <1>1 DEF TypeOK
<1>3. CompleteIsLast'
      BY <1>2 DEF Order, CompleteIsLast, Complete
<1>4. WorkIsLast'
  <2>1. \A k \in Conn : NoVideo(k) => NoVideo(k)'
        BY <1>2 DEF NoVideo
  <2>2. row # None => row[2] \in Conn
        BY DEF TypeOK
  <2> QED BY <2>1, <2>2 DEF Order, WorkIsLast
<1> QED BY <1>3, <1>4 DEF Order

\* The sender posts the parts in order and stops at the last one.
LEMMA SenderOrder ==
    ASSUME TypeOK, Order, LinksOK, SenderNext
    PROVE  Order' /\ LinksOK'
<1>1. ASSUME NEW k \in Conn, Connect(k) PROVE Order' /\ LinksOK'
  <2> USE <1>1 DEF Connect
  <2>1. \A m \in Conn : MaySend(m)' => MaySend(m)
        BY DEF MaySend, TypeOK
  <2>2. up' = up OBVIOUS
  <2>3. CompleteIsLast' BY <2>1, <2>2, TakingKeepsOrder DEF Order
  <2>4. WorkIsLast'
        BY <2>1 DEF Order, WorkIsLast, NoVideo, TypeOK
  <2>5. LinksOK' BY DEF LinksOK, TypeOK
  <2> QED BY <2>3, <2>4, <2>5 DEF Order
<1>2. CASE Send
  <2> USE <1>2 DEF Send
  <2>1. /\ at \in Conn /\ next \in Message /\ MaySend(at)
        /\ up' = [up EXCEPT ![at] = Append(up[at], [kind |-> "video", part |-> next])]
        BY DEF TypeOK, MaySend, Post
  <2>2. ASSUME NEW k \in Conn, k # at
        PROVE  up'[k] = up[k] /\ (MaySend(k)' <=> MaySend(k))
        BY <2>1, <2>2 DEF TypeOK, MaySend
  <2>3. /\ \A i \in 1..Len(up'[at]) :
              \/ i \in 1..Len(up[at]) /\ up'[at][i] = up[at][i]
              \/ i = Len(up'[at]) /\ up'[at][i] = [kind |-> "video", part |-> next]
        /\ Len(up'[at]) \in Nat
        BY <2>1 DEF TypeOK
  <2>4. next = Complete => ~MaySend(at)'
        BY <2>1 DEF MaySend, LinksOK
  <2>5. ASSUME NEW k \in Conn, NEW i \in 1..Len(up'[k]),
               up'[k][i].kind = "video", up'[k][i].part = Complete
        PROVE  ~MaySend(k)' /\ \A j \in 1..Len(up'[k]) : j > i => up'[k][j].kind # "video"
    <3>1. CASE k # at
          BY <2>2, <2>5, <3>1 DEF Order, CompleteIsLast
    <3>2. CASE k = at
      <4>1. i \notin 1..Len(up[at]) \/ up'[at][i] # up[at][i]
            BY <2>1, <2>5, <3>2 DEF Order, CompleteIsLast
      <4>2. i = Len(up'[at]) /\ next = Complete
            BY <2>3, <2>5, <3>2, <4>1
      <4> QED BY <2>3, <2>4, <3>2, <4>2
    <3> QED BY <3>1, <3>2
  <2>6. CompleteIsLast' BY <2>5 DEF CompleteIsLast, Complete
  <2>7. WorkIsLast'
        BY <2>1, <2>2 DEF Order, WorkIsLast, NoVideo, TypeOK
  <2>8. LinksOK' BY <2>1 DEF LinksOK, TypeOK
  <2> QED BY <2>6, <2>7, <2>8 DEF Order
<1>3. CASE SendSample
  <2> USE <1>3 DEF SendSample
  <2>1. \A k \in Conn : MaySend(k)' => MaySend(k) BY DEF MaySend
  <2>2. LinksOK' BY DEF LinksOK, TypeOK, Post
  <2> QED BY <2>1, <2>2, PostKeepsOrder
<1>4. CASE SendBeat
  <2> USE <1>4 DEF SendBeat
  <2>1. \A k \in Conn : MaySend(k)' => MaySend(k) BY DEF MaySend
  <2>2. LinksOK' BY DEF LinksOK, TypeOK, Post
  <2> QED BY <2>1, <2>2, PostKeepsOrder
<1>5. CASE TakeReply \/ HangUp
  <2>1. \A k \in Conn : MaySend(k)' => MaySend(k)
    <3>1. CASE TakeReply
      <4>1. Head(down[at]) \in {"ack", "error", "beat"}
            BY <3>1 DEF TakeReply, TypeOK
      <4>2. link' = link /\ at' = at /\ waiting' = "nothing"
            BY <3>1 DEF TakeReply
      <4>3. told' = "nothing" => told = "nothing" /\ ~(waiting = "video" /\ next = Complete)
            BY <3>1, <4>1 DEF TakeReply
      <4> QED BY <4>2, <4>3 DEF MaySend
    <3>2. CASE HangUp
      <4>1. at' = None /\ \A k \in Conn : link'[k] = "new" => link[k] = "new"
            BY <3>2 DEF HangUp, TypeOK
      <4> QED BY <4>1, VideoAssumption DEF MaySend
    <3> QED BY <1>5, <3>1, <3>2
  <2>2. UNCHANGED <<up, work, row>>
        BY <1>5 DEF TakeReply, HangUp
  <2>3. CompleteIsLast' BY <2>1, <2>2, TakingKeepsOrder DEF Order
  <2>4. WorkIsLast' BY <2>1, <2>2 DEF Order, WorkIsLast, NoVideo, TypeOK
  <2>5. LinksOK'
    <3>1. CASE TakeReply BY <3>1 DEF TakeReply, LinksOK, TypeOK
    <3>2. CASE HangUp BY <3>2 DEF HangUp, LinksOK, TypeOK
    <3> QED BY <1>5, <3>1, <3>2
  <2> QED BY <2>3, <2>4, <2>5 DEF Order
<1> QED BY <1>1, <1>2, <1>3, <1>4, <1>5 DEF SenderNext

\* A step of the gateway takes messages and adds replies, and only
\* VIDEO_COMPLETE starts the work that ends in a row.
GatewayFrame ==
    /\ UNCHANGED <<sender, cleaner>> /\ beats' \in {beats, beats + 1}
    /\ \A k \in Conn : link'[k] = link[k] \/ (link[k] # "new" /\ link'[k] = "closed")
    /\ \A k \in Conn : \/ up'[k] = up[k] \/ up'[k] = <<>>
                       \/ up[k] # <<>> /\ up'[k] = Tail(up[k])
    /\ \A k \in Conn : down'[k] = down[k] \/ link[k] = "open"
    /\ \A k \in Conn : work'[k] # "idle" => work[k] # "idle" \/ CompleteStarts(k)
    /\ \/ row' = row
       \/ \E k \in Conn : work[k] = "insert" /\ row' = <<path[k], k>> /\ work'[k] = "idle"

LEMMA GatewayFrames ==
    ASSUME TypeOK, GatewayNext
    PROVE  GatewayFrame
<1> USE DEF GatewayFrame
<1>1. CASE GatewayCrash
  <2>1. UNCHANGED <<sender, cleaner, beats, down, row>> /\ \A k \in Conn : work'[k] = "idle"
        BY <1>1 DEF GatewayCrash
  <2>2. \A k \in Conn : up'[k] = <<>>
        BY <1>1 DEF GatewayCrash
  <2>3. \A k \in Conn : link'[k] = link[k] \/ (link[k] # "new" /\ link'[k] = "closed")
        BY <1>1 DEF GatewayCrash, TypeOK
  <2> QED BY <2>1, <2>2, <2>3
<1>2. ASSUME NEW k \in Conn, GatewayBeat(k) PROVE GatewayFrame
      BY <1>2 DEF GatewayBeat, TypeOK
<1>3. ASSUME NEW k \in Conn,
             \/ HandleBeat(k) \/ HandleSample(k) \/ ChunkRefused(k) \/ CompleteRefused(k)
             \/ ChunkBuffered(k) \/ CompleteStarts(k)
      PROVE GatewayFrame
  <2>1. up[k] # <<>> /\ up' = [up EXCEPT ![k] = Tail(up[k])]
        BY <1>3 DEF HandleBeat, HandleSample, ChunkRefused, CompleteRefused, ChunkBuffered,
                    CompleteStarts, Handles
  <2>2. down' = down \/ (link[k] = "open" /\ \E r : down' = [down EXCEPT ![k] = Append(@, r)])
        BY <1>3 DEF HandleBeat, HandleSample, ChunkRefused, CompleteRefused, ChunkBuffered,
                    CompleteStarts, Reply
  <2>3. UNCHANGED <<sender, cleaner, beats, link, row>>
        BY <1>3 DEF HandleBeat, HandleSample, ChunkRefused, CompleteRefused, ChunkBuffered,
                    CompleteStarts
  <2>4. work' = work \/ (CompleteStarts(k) /\ work' = [work EXCEPT ![k] = "open"])
        BY <1>3 DEF HandleBeat, HandleSample, ChunkRefused, CompleteRefused, ChunkBuffered,
                    CompleteStarts
  <2> HIDE DEF GatewayFrame
  <2>5. \A m \in Conn : \/ up'[m] = up[m] \/ up'[m] = <<>>
                        \/ up[m] # <<>> /\ up'[m] = Tail(up[m])
        BY <2>1 DEF TypeOK
  <2>6. \A m \in Conn : down'[m] = down[m] \/ link[m] = "open"
        BY <2>2 DEF TypeOK
  <2>7. \A m \in Conn : work'[m] # "idle" => work[m] # "idle" \/ CompleteStarts(m)
        BY <2>4 DEF TypeOK
  <2> QED BY <2>3, <2>5, <2>6, <2>7 DEF GatewayFrame
<1>4. ASSUME NEW k \in Conn, OpenFile(k) \/ FillFile(k) PROVE GatewayFrame
      BY <1>4 DEF OpenFile, FillFile, TypeOK
<1>5. ASSUME NEW k \in Conn, SaveFails(k) \/ InsertRefused(k) \/ InsertRow(k) \/ InsertFails(k)
      PROVE GatewayFrame
  <2>1. PICK r : Answer(k, r)
        BY <1>5 DEF SaveFails, InsertRefused, InsertRow, InsertFails
  <2>2. UNCHANGED <<sender, cleaner, beats, link, up>>
        BY <1>5 DEF SaveFails, InsertRefused, InsertRow, InsertFails
  <2>3. row' = row \/ (work[k] = "insert" /\ row' = <<path[k], k>>)
        BY <1>5 DEF SaveFails, InsertRefused, InsertRow, InsertFails
  <2>4. work' = [work EXCEPT ![k] = "idle"]
        BY <2>1 DEF Answer
  <2>5. \A m \in Conn : down'[m] = down[m] \/ link[m] = "open"
        BY <2>1 DEF Answer, Reply, TypeOK
  <2> QED BY <2>2, <2>3, <2>4, <2>5 DEF TypeOK
<1>6. ASSUME NEW k \in Conn, Notice(k) \/ ConnectionFails(k) PROVE GatewayFrame
  <2>1. Cleanup(k) /\ link[k] # "new" /\ UNCHANGED <<row, down, work, sender, cleaner, beats>>
        BY <1>6 DEF Notice, ConnectionFails
  <2> QED BY <2>1 DEF Cleanup, TypeOK
<1> QED BY <1>1, <1>2, <1>3, <1>4, <1>5, <1>6 DEF GatewayNext

LEMMA GatewayOrder ==
    ASSUME TypeOK, Order, LinksOK, GatewayNext
    PROVE  Order' /\ LinksOK'
<1>1. GatewayFrame
      BY GatewayFrames
<1>2. \A k \in Conn : MaySend(k)' <=> MaySend(k)
      BY <1>1 DEF GatewayFrame, MaySend
<1>3. CompleteIsLast' /\ \A k \in Conn : NoVideo(k) => NoVideo(k)'
  <2>1. CompleteIsLast
        BY DEF Order
  <2> QED BY <1>1, <1>2, <2>1, TakingKeepsOrder DEF GatewayFrame
<1>4. ASSUME NEW k \in Conn, CompleteStarts(k)
      PROVE  ~MaySend(k) /\ ~NoVideo(k) /\ NoVideo(k)' /\ row' = row
  <2>1. /\ up[k] # <<>> /\ up[k][1].kind = "video" /\ up[k][1].part = Complete
        /\ up' = [up EXCEPT ![k] = Tail(up[k])] /\ row' = row
        BY <1>4, TakeTypes DEF CompleteStarts
  <2>2. 1 \in 1..Len(up[k])
        BY <2>1 DEF TypeOK
  <2>3. ~MaySend(k) /\ \A j \in 1..Len(up[k]) : j > 1 => up[k][j].kind # "video"
        BY <2>1, <2>2 DEF Order, CompleteIsLast
  <2>4. ASSUME NEW i \in 1..Len(up'[k]) PROVE up'[k][i].kind # "video"
    <3>1. i + 1 \in 1..Len(up[k]) /\ up'[k][i] = up[k][i + 1] /\ i + 1 > 1
          BY <2>1, <2>4 DEF TypeOK
    <3> QED BY <2>3, <3>1
  <2> QED BY <2>1, <2>2, <2>3, <2>4 DEF NoVideo
<1>5. WorkIsLast'
  <2>1. ASSUME NEW k \in Conn, work'[k] # "idle" PROVE ~MaySend(k)' /\ NoVideo(k)'
        BY <1>1, <1>2, <1>3, <1>4, <2>1 DEF GatewayFrame, Order, WorkIsLast
  <2>2. ASSUME row' # None
        PROVE  ~MaySend(row[2])' /\ NoVideo(row[2])' /\ work'[row'[2]] = "idle"
    <3>1. CASE row' = row
      <4>1. row[2] \in Conn
            BY <2>2, <3>1 DEF TypeOK
      <4> QED BY <1>1, <1>2, <1>3, <1>4, <2>2, <3>1, <4>1 DEF GatewayFrame, Order, WorkIsLast
    <3>2. CASE row' # row
      <4>1. PICK k \in Conn : work[k] = "insert" /\ row' = <<path[k], k>> /\ work'[k] = "idle"
            BY <1>1, <3>2 DEF GatewayFrame
      <4>2. ~MaySend(k)' /\ NoVideo(k)'
            BY <1>2, <1>3, <4>1 DEF Order, WorkIsLast
      <4> QED BY <4>1, <4>2 DEF MaySend, NoVideo
    <3> QED BY <3>1, <3>2
  <2> QED BY <2>1, <2>2 DEF WorkIsLast
<1>6. LinksOK'
  <2>1. ASSUME NEW k \in Conn, link'[k] = "new"
        PROVE  up'[k] = <<>> /\ down'[k] = <<>> /\ work'[k] = "idle"
    <3>1. link[k] = "new"
          BY <1>1, <2>1 DEF GatewayFrame
    <3>2. ~CompleteStarts(k)
          BY <3>1 DEF CompleteStarts, Handles
    <3> QED BY <1>1, <3>1, <3>2 DEF GatewayFrame, LinksOK
  <2>2. at' # None => link'[at'] \in {"open", "closed"}
        BY <1>1 DEF GatewayFrame, LinksOK, TypeOK
  <2> QED BY <2>1, <2>2 DEF LinksOK
<1> QED BY <1>3, <1>5, <1>6 DEF Order

\* The administrator, the calendar and the Cleaner leave connections alone.
LEMMA AroundOrder ==
    ASSUME TypeOK, Order, LinksOK,
           CleanerNext \/ Midnight \/ (\E s \in {"active", "inactive", "absent"} : EditStation(s))
    PROVE  Order' /\ LinksOK'
<1>1. UNCHANGED <<tcp, session, sender, beats>> /\ row' \in {row, None}
      BY DEF CleanerNext, GrowOld, UnlinkVideo, DeleteVideo, CleanerFails, Midnight, EditStation
<1>2. CompleteIsLast'
      BY <1>1 DEF Order, CompleteIsLast, MaySend, Complete
<1>3. WorkIsLast'
      BY <1>1 DEF Order, WorkIsLast, MaySend, NoVideo
<1>4. LinksOK'
      BY <1>1 DEF LinksOK
<1> QED BY <1>2, <1>3, <1>4 DEF Order
-----------------------------------------------------------------------------
(* A stored video is whole *)

LEMMA SenderWhole ==
    ASSUME FilledWhole, StoredWhole,
           SenderNext \/ Midnight \/ (\E s \in {"active", "inactive", "absent"} : EditStation(s))
    PROVE  FilledWhole' /\ StoredWhole'
<1>1. UNCHANGED <<row, file, opener, work, path, cleaner>>
      BY DEF SenderNext, Connect, Send, SendSample, SendBeat, TakeReply, HangUp, Midnight,
             EditStation
<1> QED BY <1>1 DEF FilledWhole, StoredWhole

\* The Cleaner acts only on an old video.
LEMMA CleanerWhole ==
    ASSUME CleanerNext
    PROVE  FilledWhole' /\ StoredWhole'
<1>1. cleaner' # "asleep"
      BY DEF CleanerNext, GrowOld, UnlinkVideo, DeleteVideo, CleanerFails
<1> QED BY <1>1 DEF FilledWhole, StoredWhole

LEMMA GatewayWhole ==
    ASSUME TypeOK, Order, FilledWhole, StoredWhole, GatewayNext
    PROVE  FilledWhole' /\ StoredWhole'
<1>1. ASSUME UNCHANGED <<row, file, opener, path, cleaner>>,
             \A m \in Conn : work'[m] = "insert" => work[m] = "insert"
      PROVE  FilledWhole' /\ StoredWhole'
      BY <1>1 DEF FilledWhole, StoredWhole
<1>2. ASSUME NEW k \in Conn,
             \/ GatewayBeat(k) \/ HandleBeat(k) \/ HandleSample(k) \/ ChunkRefused(k)
             \/ CompleteRefused(k) \/ ChunkBuffered(k) \/ CompleteStarts(k) \/ Notice(k)
             \/ ConnectionFails(k) \/ SaveFails(k) \/ InsertRefused(k)
      PROVE  FilledWhole' /\ StoredWhole'
  <2>1. UNCHANGED <<row, file, opener, path, cleaner>>
        BY <1>2 DEF GatewayBeat, HandleBeat, HandleSample, ChunkRefused, CompleteRefused,
                    ChunkBuffered, CompleteStarts, Notice, ConnectionFails, SaveFails,
                    InsertRefused
  <2>2. \/ work' = work \/ work' = [work EXCEPT ![k] = "open"]
        \/ work' = [work EXCEPT ![k] = "idle"]
        BY <1>2 DEF GatewayBeat, HandleBeat, HandleSample, ChunkRefused, CompleteRefused,
                    ChunkBuffered, CompleteStarts, Notice, ConnectionFails, SaveFails,
                    InsertRefused, Answer
  <2>3. \A m \in Conn : work'[m] = "insert" => work[m] = "insert"
        BY <2>2 DEF TypeOK
  <2> QED BY <1>1, <2>1, <2>3
<1>3. ASSUME NEW k \in Conn, OpenFile(k) PROVE FilledWhole' /\ StoredWhole'
  <2>1. /\ opener' = [opener EXCEPT ![day] = k] /\ file' = [file EXCEPT ![day] = "part"]
        /\ path' = [path EXCEPT ![k] = day] /\ work' = [work EXCEPT ![k] = "fill"]
        /\ row' = row /\ cleaner' = cleaner /\ work[k] = "open" /\ day \in Day
        BY <1>3 DEF OpenFile, TypeOK
  <2>2. FilledWhole'
    <3> SUFFICES ASSUME cleaner' = "asleep", NEW m \in Conn, work'[m] = "insert",
                        opener'[path'[m]] = m
                 PROVE  file'[path'[m]] = "whole"
        BY DEF FilledWhole
    <3>1. m # k /\ work[m] = "insert" /\ path'[m] = path[m] /\ path[m] \in Day
          BY <2>1 DEF TypeOK
    <3>2. path[m] # day /\ opener[path[m]] = m /\ file'[path[m]] = file[path[m]]
          BY <2>1, <3>1 DEF TypeOK
    <3> QED BY <2>1, <3>1, <3>2 DEF FilledWhole
  <2>3. StoredWhole'
    <3> SUFFICES ASSUME row # None, cleaner = "asleep", opener'[row[1]] = row[2]
                 PROVE  file'[row[1]] = "whole"
        BY <2>1 DEF StoredWhole
    <3>1. row[1] \in Day /\ row[2] \in Conn /\ work[row[2]] = "idle"
          BY DEF TypeOK, Order, WorkIsLast
    <3>2. row[1] # day
          BY <2>1, <3>1 DEF TypeOK
    <3> QED BY <2>1, <3>1, <3>2 DEF TypeOK, StoredWhole
  <2> QED BY <2>2, <2>3
<1>4. ASSUME NEW k \in Conn, FillFile(k) PROVE FilledWhole' /\ StoredWhole'
  <2>1. /\ work' = [work EXCEPT ![k] = "insert"] /\ UNCHANGED <<row, opener, path, cleaner>>
        /\ file' = IF opener[path[k]] = k THEN [file EXCEPT ![path[k]] = "whole"] ELSE file
        BY <1>4 DEF FillFile
  <2>2. /\ \A d \in Day : file[d] = "whole" => file'[d] = "whole"
        /\ opener[path[k]] = k => file'[path[k]] = "whole"
        BY <2>1 DEF TypeOK
  <2>3. \A m \in Conn : m # k /\ work'[m] = "insert" => work[m] = "insert"
        BY <2>1 DEF TypeOK
  <2>4. FilledWhole'
        BY <2>1, <2>2, <2>3 DEF FilledWhole, TypeOK
  <2>5. StoredWhole'
    <3>1. row # None => row[1] \in Day
          BY DEF TypeOK
    <3> QED BY <2>1, <2>2, <3>1 DEF StoredWhole
  <2> QED BY <2>4, <2>5
<1>5. ASSUME NEW k \in Conn, InsertRow(k) \/ InsertFails(k) PROVE FilledWhole' /\ StoredWhole'
  <2>1. /\ work[k] = "insert" /\ UNCHANGED <<file, opener, path, cleaner>>
        /\ work' = [work EXCEPT ![k] = "idle"] /\ row' \in {row, <<path[k], k>>}
        BY <1>5 DEF InsertRow, InsertFails, Answer
  <2>2. FilledWhole'
        BY <2>1 DEF FilledWhole, TypeOK
  <2>3. StoredWhole'
        BY <2>1 DEF FilledWhole, StoredWhole
  <2> QED BY <2>2, <2>3
<1>6. CASE GatewayCrash
  <2>1. UNCHANGED <<row, file, opener, path, cleaner>> /\ \A m \in Conn : work'[m] = "idle"
        BY <1>6 DEF GatewayCrash
  <2> QED BY <1>1, <2>1
<1> QED BY <1>2, <1>3, <1>4, <1>5, <1>6 DEF GatewayNext

-----------------------------------------------------------------------------
(* An acknowledged video is stored *)

\* Nothing is behind the only element of a sequence.
LEMMA LastTaken ==
    ASSUME NEW S, NEW s \in Seq(S), s # <<>>, Len(s) <= 1
    PROVE  Tail(s) = <<>>
<1>1. Tail(s) \in Seq(S) /\ Len(Tail(s)) = Len(s) - 1
      BY HeadTailProperties
<1>2. Len(s) \in Nat /\ Len(s) # 0
      BY EmptySeq
<1>3. Len(Tail(s)) = 0
      BY <1>1, <1>2
<1> QED BY <1>1, <1>3, EmptySeq

LEMMA SenderInStep ==
    ASSUME TypeOK, LinksOK, InStep, AckMeansStored, SenderNext
    PROVE  InStep' /\ AckMeansStored'
<1> USE VideoAssumption
<1>1. ASSUME NEW k \in Conn, Connect(k) PROVE InStep' /\ AckMeansStored'
      BY <1>1 DEF Connect, LinksOK, InStep, AckMeansStored, TypeOK
<1>2. CASE SendBeat
      BY <1>2 DEF SendBeat, InStep, AckMeansStored, TypeOK
<1>3. CASE HangUp
      BY <1>3 DEF HangUp, InStep, AckMeansStored
<1>4. ASSUME NEW kind, NEW part, at # None, waiting = "nothing", Post(kind, part),
             UNCHANGED <<row, down, work, at, next, told, cleaner, beats>>,
             waiting' # "nothing", waiting' = "video" => kind = "video" /\ part = next
      PROVE  InStep' /\ AckMeansStored'
  <2>1. at \in Conn /\ (beats = 0 => up[at] = <<>> /\ down[at] = <<>> /\ work[at] = "idle")
        BY <1>4 DEF InStep, TypeOK
  <2>2. beats = 0 => up'[at] = <<[kind |-> kind, part |-> part]>>
        BY <1>4, <2>1 DEF Post, TypeOK
  <2>3. InStep'
    <3> SUFFICES ASSUME beats = 0
                 PROVE  InStep'
        BY <1>4 DEF InStep
    <3>1. /\ up'[at] # <<>> /\ Len(up'[at]) = 1 /\ up'[at][1].kind = kind
          /\ up'[at][1].part = part /\ down'[at] = <<>> /\ Len(down'[at]) = 0
      <4>1. down'[at] = <<>> /\ Len(<<>>) = 0
            BY <1>4, <2>1
      <4>2. up'[at] = <<[kind |-> kind, part |-> part]>>
            BY <2>2
      <4>3. up'[at] # <<>> /\ Len(up'[at]) = 1 /\ up'[at][1] = [kind |-> kind, part |-> part]
            BY <4>2
      <4> QED BY <4>1, <4>3
    <3> QED BY <1>4, <2>1, <3>1 DEF InStep
  <2> QED BY <1>4, <2>3 DEF AckMeansStored
<1>5. CASE Send
      BY <1>4, <1>5 DEF Send
<1>6. CASE SendSample
      BY <1>4, <1>6 DEF SendSample
<1>7. CASE TakeReply
  <2>1. /\ at \in Conn /\ at' = at /\ down[at] # <<>> /\ waiting # "nothing"
        /\ waiting' = "nothing" /\ down' = [down EXCEPT ![at] = Tail(@)]
        /\ UNCHANGED <<row, up, work, cleaner, beats>>
        /\ told' = IF waiting = "video" /\ next = Complete THEN Head(down[at]) ELSE told
        BY <1>7 DEF TakeReply, TypeOK
  <2>2. beats = 0 => up[at] = <<>> /\ work[at] = "idle" /\ Len(down[at]) <= 1
        BY <2>1 DEF InStep
  <2>3. beats = 0 => down'[at] = <<>>
    <3>1. /\ down[at] \in Seq({"ack", "error", "beat"}) /\ down'[at] = Tail(down[at])
          /\ down[at] # <<>>
          BY <2>1 DEF TypeOK
    <3> QED BY <2>2, <3>1, LastTaken
  <2>4. Head(down[at]) = down[at][1]
        BY <2>1 DEF TypeOK
  <2>5. InStep'
        BY <2>1, <2>2, <2>3 DEF InStep
  <2>6. AckMeansStored'
        BY <2>1, <2>4 DEF InStep, AckMeansStored
  <2> QED BY <2>5, <2>6
<1> QED BY <1>1, <1>2, <1>3, <1>5, <1>6, <1>7 DEF SenderNext

\* A reply to a sender to which nothing else is on the way.
LEMMA FirstReply ==
    ASSUME TypeOK, NEW k \in Conn, NEW r \in {"ack", "error"}, down[k] = <<>>, Reply(k, r)
    PROVE  Len(down'[k]) <= 1 /\ (down'[k] # <<>> => down'[k][1] = r)
<1>1. CASE link[k] = "open"
  <2>1. down'[k] = Append(<<>>, r)
        BY <1>1 DEF Reply, TypeOK
  <2>2. Append(<<>>, r) = <<r>>
        OBVIOUS
  <2>3. Len(<<r>>) = 1 /\ <<r>>[1] = r
        OBVIOUS
  <2> QED BY <2>1, <2>2, <2>3
<1>2. CASE link[k] # "open"
  <2>1. down'[k] = <<>>
        BY <1>2 DEF Reply
  <2> QED BY <2>1, EmptySeq
<1> QED BY <1>1, <1>2

\* What happens on another connection, or only loses messages, breaks no step.
LEMMA ElsewhereInStep ==
    ASSUME InStep, AckMeansStored, UNCHANGED <<sender, cleaner, beats>>,
           row # None => row' # None,
           at # None => /\ up'[at] \in {up[at], <<>>}
                        /\ down'[at] = down[at] /\ work'[at] \in {work[at], "idle"}
    PROVE  InStep' /\ AckMeansStored'
<1>1. AckMeansStored'
      BY DEF AckMeansStored
<1>2. InStep'
  <2> SUFFICES ASSUME beats = 0, at # None
               PROVE  InStep'
      BY DEF InStep
  <2>1. Len(down'[at]) <= 1 /\ (down'[at] # <<>> => up'[at] = <<>>)
        BY DEF InStep
  <2> QED BY <2>1 DEF InStep
<1> QED BY <1>1, <1>2

\* A handler of the sender's own connection takes the only message and, unless
\* it starts to store the video, replies to it.
LEMMA HandlerInStep ==
    ASSUME TypeOK, InStep, AckMeansStored, at # None,
           \/ HandleBeat(at) \/ HandleSample(at) \/ ChunkRefused(at) \/ CompleteRefused(at)
           \/ ChunkBuffered(at) \/ CompleteStarts(at)
    PROVE  InStep' /\ AckMeansStored'
<1>1. /\ at \in Conn /\ up[at] # <<>> /\ up' = [up EXCEPT ![at] = Tail(up[at])]
      /\ UNCHANGED <<sender, cleaner, beats, row>> /\ work[at] = "idle"
      BY DEF HandleBeat, HandleSample, ChunkRefused, CompleteRefused, ChunkBuffered,
             CompleteStarts, Handles, TypeOK
<1>2. AckMeansStored'
      BY <1>1 DEF AckMeansStored
<1>3. InStep'
  <2> SUFFICES ASSUME beats = 0
               PROVE  InStep'
      BY <1>1 DEF InStep
  <2>1. down[at] = <<>> /\ Len(up[at]) = 1 /\ waiting # "nothing"
        BY <1>1 DEF InStep
  <2>2. up'[at] = <<>>
    <3>1. up[at] \in Seq(Msg)
          BY <1>1 DEF TypeOK, Msg
    <3>2. Tail(up[at]) = <<>>
      <4>1. up[at] # <<>> /\ Len(up[at]) <= 1
            BY <1>1, <2>1
      <4> QED BY <3>1, <4>1, LastTaken, Zenon
    <3> QED BY <1>1, <3>2 DEF TypeOK
  <2>3. ASSUME CompleteStarts(at)
        PROVE  InStep'
        BY <1>1, <2>1, <2>2, <2>3 DEF CompleteStarts, InStep
  <2>4. ASSUME NEW r \in {"ack", "error"}, Reply(at, r), work'[at] = "idle",
               waiting = "video" /\ next = Complete => r = "error"
        PROVE  InStep'
    <3>1. Len(down'[at]) <= 1 /\ (down'[at] # <<>> => down'[at][1] = r)
          BY <1>1, <2>1, <2>4, FirstReply
    <3> QED BY <1>1, <2>2, <2>4, <3>1 DEF InStep
  <2>5. up[at][1] = Head(up[at])
        BY <1>1 DEF TypeOK
  <2>6. CASE HandleBeat(at) \/ HandleSample(at)
    <3>1. waiting # "video"
          BY <1>1, <2>5, <2>6 DEF HandleBeat, HandleSample, Handles, InStep
    <3> QED BY <1>1, <2>4, <2>6, <3>1 DEF HandleBeat, HandleSample
  <2>7. CASE ChunkRefused(at) \/ CompleteRefused(at)
        BY <1>1, <2>4, <2>7 DEF ChunkRefused, CompleteRefused
  <2>8. CASE ChunkBuffered(at)
    <3>1. Head(up[at]).part # Complete
          BY <2>8, VideoAssumption DEF ChunkBuffered, Handles, Chunk, Complete
    <3>2. waiting = "video" => next # Complete
          BY <1>1, <2>5, <3>1 DEF InStep
    <3> QED BY <1>1, <2>4, <2>8, <3>2 DEF ChunkBuffered
  <2> QED BY <2>3, <2>6, <2>7, <2>8
<1> QED BY <1>2, <1>3

LEMMA GatewayInStep ==
    ASSUME TypeOK, LinksOK, InStep, AckMeansStored, GatewayNext
    PROVE  InStep' /\ AckMeansStored'
<1>1. ASSUME NEW k \in Conn, GatewayBeat(k) PROVE InStep' /\ AckMeansStored'
      BY <1>1 DEF GatewayBeat, InStep, AckMeansStored, TypeOK
<1>2. CASE GatewayCrash
  <2>1. at # None => at \in Conn
        BY DEF TypeOK
  <2> QED BY <1>2, <2>1, ElsewhereInStep DEF GatewayCrash
<1>3. ASSUME NEW k \in Conn, Notice(k) \/ ConnectionFails(k)
      PROVE  InStep' /\ AckMeansStored'
  <2>1. at # None => at \in Conn /\ up'[at] \in {up[at], <<>>}
        BY <1>3 DEF Notice, ConnectionFails, Cleanup, TypeOK
  <2>2. UNCHANGED <<sender, cleaner, beats, row, down, work>>
        BY <1>3 DEF Notice, ConnectionFails
  <2> QED BY <2>1, <2>2, ElsewhereInStep
<1>4. ASSUME NEW k \in Conn,
             \/ HandleBeat(k) \/ HandleSample(k) \/ ChunkRefused(k) \/ CompleteRefused(k)
             \/ ChunkBuffered(k) \/ CompleteStarts(k)
      PROVE  InStep' /\ AckMeansStored'
  <2>1. CASE k = at
    <3>1. at # None
          BY <2>1, VideoAssumption
    <3> QED BY <1>4, <2>1, <3>1, HandlerInStep
  <2>2. CASE k # at
    <3>1. /\ up' = [up EXCEPT ![k] = Tail(up[k])]
          /\ UNCHANGED <<sender, cleaner, beats, row>>
          /\ work' = work \/ work' = [work EXCEPT ![k] = "open"]
          /\ down' = down \/ \E r : down' = [down EXCEPT ![k] = Append(@, r)]
          BY <1>4 DEF HandleBeat, HandleSample, ChunkRefused, CompleteRefused, ChunkBuffered,
                      CompleteStarts, Handles, Reply
    <3>2. at # None => up'[at] = up[at] /\ down'[at] = down[at] /\ work'[at] = work[at]
          BY <2>2, <3>1 DEF TypeOK
    <3> QED BY <3>1, <3>2, ElsewhereInStep
  <2> QED BY <2>1, <2>2
<1>5. ASSUME NEW k \in Conn, OpenFile(k) \/ FillFile(k)
      PROVE  InStep' /\ AckMeansStored'
  <2>1. /\ UNCHANGED <<sender, cleaner, beats, row, up, down>> /\ work[k] # "idle"
        /\ \E w \in {"fill", "insert"} : work' = [work EXCEPT ![k] = w]
        BY <1>5 DEF OpenFile, FillFile
  <2>2. AckMeansStored'
        BY <2>1 DEF AckMeansStored
  <2>3. at # None => at \in Conn /\ (work'[at] # "idle" <=> work[at] # "idle")
        BY <2>1 DEF TypeOK
  <2>4. InStep'
        BY <2>1, <2>3 DEF InStep
  <2> QED BY <2>2, <2>4
<1>6. ASSUME NEW k \in Conn, SaveFails(k) \/ InsertRefused(k) \/ InsertRow(k) \/ InsertFails(k)
      PROVE  InStep' /\ AckMeansStored'
  <2>1. PICK r \in {"ack", "error"} : Answer(k, r) /\ (r = "ack" => row' # None)
    <3>1. Answer(k, "error") \/ (Answer(k, "ack") /\ row' = <<path[k], k>>)
          BY <1>6 DEF SaveFails, InsertRefused, InsertRow, InsertFails
    <3>2. <<path[k], k>> # None
          BY VideoAssumption DEF TypeOK
    <3> QED BY <3>1, <3>2
  <2>2. UNCHANGED <<sender, cleaner, beats, up>> /\ work[k] # "idle" /\ (row # None => row' # None)
        BY <1>6 DEF SaveFails, InsertRefused, InsertRow, InsertFails
  <2>3. work' = [work EXCEPT ![k] = "idle"]
        BY <2>1 DEF Answer
  <2>4. CASE k # at
    <3>1. at # None => down'[at] = down[at] /\ work'[at] = work[at]
          BY <2>1, <2>3, <2>4 DEF Answer, Reply, TypeOK
    <3> QED BY <2>2, <3>1, ElsewhereInStep
  <2>5. CASE k = at
    <3>1. AckMeansStored'
          BY <2>2 DEF AckMeansStored
    <3>2. InStep'
      <4> SUFFICES ASSUME beats = 0, at # None
                   PROVE  InStep'
          BY <2>2 DEF InStep
      <4>1. up[at] = <<>> /\ down[at] = <<>> /\ waiting # "nothing"
            BY <2>2, <2>5 DEF InStep
      <4>2. Len(down'[at]) <= 1 /\ (down'[at] # <<>> => down'[at][1] = r)
            BY <2>1, <2>5, <4>1, FirstReply DEF Answer
      <4>3. work'[at] = "idle"
            BY <2>3, <2>5 DEF TypeOK
      <4> QED BY <2>1, <2>2, <4>1, <4>2, <4>3 DEF InStep
    <3> QED BY <3>1, <3>2
  <2> QED BY <2>4, <2>5
<1> QED BY <1>1, <1>2, <1>3, <1>4, <1>5, <1>6 DEF GatewayNext

LEMMA AroundInStep ==
    ASSUME TypeOK, InStep, AckMeansStored,
           CleanerNext \/ Midnight \/ (\E s \in {"active", "inactive", "absent"} : EditStation(s))
    PROVE  InStep' /\ AckMeansStored'
<1>1. UNCHANGED <<tcp, session, sender, beats>>
      /\ ((row' = row /\ cleaner' = cleaner) \/ cleaner' # "asleep")
      BY DEF CleanerNext, GrowOld, UnlinkVideo, DeleteVideo, CleanerFails, Midnight, EditStation
<1>2. InStep'
      BY <1>1 DEF InStep
<1>3. AckMeansStored'
      BY <1>1 DEF AckMeansStored
<1> QED BY <1>2, <1>3

-----------------------------------------------------------------------------
(* Files no row names *)

\* Without a failure or a change of the station, a file in part is being filled
\* by who opened it last, and a file that never had a row is still worked on.
FilesInHand ==
    faults = 0 /\ edits = 0 =>
        /\ station = "active"
        /\ \A d \in Day : file[d] = "part" =>
              /\ opener[d] \in Conn /\ work[opener[d]] = "fill" /\ path[opener[d]] = d
        /\ \A d \in Day : file[d] # "none" /\ row = None /\ cleaner = "asleep" =>
              \E k \in Conn : work[k] \in {"fill", "insert"} /\ path[k] = d

\* A connection opens one file, at the end of its transfer, and a row has the
\* path of the connection that inserted it.
OpenedOnce ==
    /\ \A d \in Day : opener[d] # None =>
          /\ path[opener[d]] = d /\ work[opener[d]] # "open"
          /\ ~MaySend(opener[d]) /\ NoVideo(opener[d])
    /\ row # None => row[1] = path[row[2]]

\* A handler needs its connection, and the Cleaner comes after all of them.
CleanerIsLate ==
    /\ \A k \in Conn : work[k] # "idle" => link[k] \in {"open", "left"}
    /\ cleaner # "asleep" => \A k \in Conn : link[k] \in {"new", "closed"}

\* Without a failure the Cleaner deletes a row whose file it has removed, and
\* leaves only the file of another attempt than the recorded one.
FilesCleaned ==
    /\ cleaner = "unlinked" => row # None
    /\ faults = 0 /\ edits = 0 =>
          /\ cleaner = "unlinked" => file[row[1]] = "none"
          /\ row = None /\ cleaner # "asleep" =>
                \A d \in Day : file[d] # "none" =>
                    \E k \in Conn \ {opener[d]} : link[k] # "new"

\* The counters of failures and changes only grow.
LEMMA NoEarlierCause ==
    ASSUME TypeOK, [Next]_vars, faults' = 0, edits' = 0
    PROVE  faults = 0 /\ edits = 0 /\ UNCHANGED <<faults, edits>>
<1>1. faults \in Nat /\ edits \in Nat
      BY VideoAssumption DEF TypeOK
<1>2. CASE SenderNext
      BY <1>1, <1>2 DEF SenderNext, Connect, Send, SendSample, TakeReply, HangUp, SendBeat
<1>3. CASE GatewayNext
      BY <1>1, <1>3 DEF GatewayNext, GatewayBeat, HandleBeat, HandleSample, ChunkRefused,
           ChunkBuffered, CompleteRefused, CompleteStarts, OpenFile, FillFile, SaveFails,
           InsertRow, InsertRefused, InsertFails, Notice, ConnectionFails, GatewayCrash
<1>4. CASE CleanerNext
      BY <1>1, <1>4 DEF CleanerNext, GrowOld, UnlinkVideo, DeleteVideo, CleanerFails
<1>5. CASE Midnight
      BY <1>1, <1>5 DEF Midnight
<1>6. ASSUME NEW s \in {"active", "inactive", "absent"}, EditStation(s)
      PROVE  FALSE
      BY <1>1, <1>6 DEF EditStation
<1>7. CASE UNCHANGED vars
      BY <1>7 DEF vars
<1> QED BY <1>2, <1>3, <1>4, <1>5, <1>6, <1>7 DEF Next

\* A step that opens, fills and records nothing, and gives up no work.
LEMMA OtherStepsInHand ==
    ASSUME TypeOK, FilesInHand, faults = 0, edits = 0, UNCHANGED <<station, opener, path>>,
           \A d \in Day : file'[d] \in {file[d], "none"},
           \A k \in Conn : work[k] # "idle" => work'[k] = work[k],
           row' = None /\ cleaner' = "asleep" => row = None /\ cleaner = "asleep"
    PROVE  FilesInHand'
<1>1. \A d \in Day : file'[d] # "none" => file'[d] = file[d]
      OBVIOUS
<1> QED BY <1>1 DEF FilesInHand

LEMMA StepsInHand ==
    ASSUME TypeOK, FilesInHand, [Next]_vars
    PROVE  FilesInHand'
<1> SUFFICES ASSUME faults' = 0, edits' = 0
             PROVE  FilesInHand'
    BY DEF FilesInHand
<1>1. /\ faults = 0 /\ edits = 0 /\ UNCHANGED <<faults, edits>>
      /\ ~(Fault)
      BY NoEarlierCause, VideoAssumption DEF TypeOK
<1>2. CASE SenderNext
  <2>1. UNCHANGED <<db, disk, session, cleaner>>
        BY <1>2 DEF SenderNext, Connect, Send, SendSample, TakeReply, HangUp, SendBeat
  <2> QED BY <1>1, <2>1, OtherStepsInHand
<1>3. CASE GatewayNext
  <2>1. ASSUME NEW k \in Conn,
               \/ GatewayBeat(k) \/ HandleBeat(k) \/ HandleSample(k) \/ ChunkRefused(k)
               \/ ChunkBuffered(k) \/ CompleteRefused(k) \/ CompleteStarts(k) \/ Notice(k)
        PROVE  FilesInHand'
    <3>1. UNCHANGED <<station, row, disk, path, cleaner>>
          BY <2>1 DEF GatewayBeat, HandleBeat, HandleSample, ChunkRefused, ChunkBuffered,
                      CompleteRefused, CompleteStarts, Notice
    <3>2. \/ work' = work
          \/ work[k] = "idle" /\ work' = [work EXCEPT ![k] = "open"]
          BY <2>1 DEF GatewayBeat, HandleBeat, HandleSample, ChunkRefused, ChunkBuffered,
                      CompleteRefused, CompleteStarts, Notice, Handles
    <3>3. \A m \in Conn : work[m] # "idle" => work'[m] = work[m]
          BY <3>2 DEF TypeOK
    <3> QED BY <1>1, <3>1, <3>3, OtherStepsInHand
  <2>2. ASSUME NEW k \in Conn, OpenFile(k)
        PROVE  FilesInHand'
    <3>1. /\ work[k] = "open" /\ day \in Day /\ UNCHANGED <<station, row, cleaner>>
          /\ path' = [path EXCEPT ![k] = day] /\ file' = [file EXCEPT ![day] = "part"]
          /\ opener' = [opener EXCEPT ![day] = k] /\ work' = [work EXCEPT ![k] = "fill"]
          BY <2>2 DEF OpenFile, TypeOK
    <3>2. work'[k] = "fill" /\ path'[k] = day /\ opener'[day] = k
          BY <3>1 DEF TypeOK
    <3>3. \A m \in Conn : work[m] \in {"fill", "insert"} =>
                work'[m] = work[m] /\ path'[m] = path[m]
          BY <3>1 DEF TypeOK
    <3>4. \A d \in Day : d # day => file'[d] = file[d] /\ opener'[d] = opener[d]
          BY <3>1 DEF TypeOK
    <3> QED BY <1>1, <3>1, <3>2, <3>3, <3>4 DEF FilesInHand
  <2>3. ASSUME NEW k \in Conn, FillFile(k)
        PROVE  FilesInHand'
    <3>1. /\ work[k] = "fill" /\ work' = [work EXCEPT ![k] = "insert"]
          /\ file' = IF opener[path[k]] = k THEN [file EXCEPT ![path[k]] = "whole"] ELSE file
          /\ UNCHANGED <<station, row, cleaner, path, opener>> /\ path[k] \in Day
          BY <2>3 DEF FillFile, TypeOK
    <3>2. \A m \in Conn : work[m] \in {"fill", "insert"} =>
                work'[m] \in {"fill", "insert"} /\ (m # k => work'[m] = work[m])
          BY <3>1 DEF TypeOK
    <3>3. ASSUME NEW d \in Day
          PROVE  /\ file'[d] # "none" => file[d] # "none" \/ (work[k] = "fill" /\ path[k] = d)
                 /\ file'[d] = "part" => file[d] = "part" /\ ~(opener[d] = k /\ path[k] = d)
          BY <3>1 DEF TypeOK
    <3> QED BY <1>1, <3>1, <3>2, <3>3 DEF FilesInHand
  <2>4. ASSUME NEW k \in Conn, InsertRow(k) \/ InsertRefused(k)
        PROVE  FilesInHand'
    <3>1. /\ work[k] = "insert" /\ work' = [work EXCEPT ![k] = "idle"]
          /\ UNCHANGED <<station, cleaner, path, opener, file>>
          BY <2>4 DEF InsertRow, InsertRefused, Answer
    <3>2. row' # None
      <4>1. station # "absent" /\ <<path[k], k>> # None
            BY <1>1, VideoAssumption DEF FilesInHand, TypeOK
      <4> QED BY <2>4, <4>1 DEF InsertRow, InsertRefused
    <3>3. \A m \in Conn : work[m] = "fill" => work'[m] = "fill"
          BY <3>1 DEF TypeOK
    <3> QED BY <1>1, <3>1, <3>2, <3>3 DEF FilesInHand
  <2>5. ASSUME NEW k \in Conn, SaveFails(k) \/ InsertFails(k) \/ ConnectionFails(k)
        PROVE  FALSE
        BY <1>1, <2>5 DEF SaveFails, InsertFails, ConnectionFails
  <2>6. ~GatewayCrash
        BY <1>1 DEF GatewayCrash
  <2> QED BY <1>3, <2>1, <2>2, <2>3, <2>4, <2>5, <2>6 DEF GatewayNext
<1>4. CASE CleanerNext
  <2>1. /\ UNCHANGED <<station, opener, session>> /\ cleaner' # "asleep"
        /\ file' = file \/ (row \in Day \X Conn /\ file' = [file EXCEPT ![row[1]] = "none"])
        BY <1>4 DEF CleanerNext, GrowOld, UnlinkVideo, DeleteVideo, CleanerFails, TypeOK
  <2>2. \A d \in Day : file'[d] \in {file[d], "none"}
        BY <2>1 DEF TypeOK
  <2> QED BY <1>1, <2>1, <2>2, OtherStepsInHand
<1>5. CASE Midnight \/ UNCHANGED vars
  <2>1. UNCHANGED <<db, file, opener, session, cleaner>>
        BY <1>5 DEF Midnight, vars
  <2> QED BY <1>1, <2>1, OtherStepsInHand
<1>6. ASSUME NEW s \in {"active", "inactive", "absent"}, EditStation(s)
      PROVE  FALSE
      BY <1>1, <1>6, VideoAssumption DEF EditStation, TypeOK
<1> QED BY <1>2, <1>3, <1>4, <1>5, <1>6 DEF Next

\* A transfer that is over stays over, whatever the sender does.
LEMMA SenderDone ==
    ASSUME TypeOK, LinksOK, SenderNext, NEW k \in Conn, ~MaySend(k), NoVideo(k)
    PROVE  ~MaySend(k)' /\ NoVideo(k)'
<1>1. ASSUME at # None, NEW kind \in {"sample", "beat"}, Post(kind, 0)
      PROVE  NoVideo(k)'
  <2>1. at \in Conn /\ up' = [up EXCEPT ![at] = Append(up[at], [kind |-> kind, part |-> 0])]
        BY <1>1 DEF TypeOK, Post
  <2>2. \A i \in 1..Len(up'[k]) :
            \/ i \in 1..Len(up[k]) /\ up'[k][i] = up[k][i]
            \/ up'[k][i].kind = kind
        BY <2>1 DEF TypeOK
  <2> QED BY <1>1, <2>2 DEF NoVideo
<1>2. ASSUME NEW m \in Conn, Connect(m) PROVE ~MaySend(k)' /\ NoVideo(k)'
  <2>1. m # k /\ link'[k] = link[k] /\ at' = m /\ up' = up
        BY <1>2 DEF Connect, MaySend, TypeOK
  <2> QED BY <2>1 DEF MaySend, NoVideo
<1>3. CASE Send
  <2>1. at \in Conn /\ MaySend(at) /\ k # at
        BY <1>3 DEF Send, MaySend, TypeOK
  <2>2. up'[k] = up[k] /\ link' = link /\ at' = at
        BY <1>3, <2>1 DEF Send, Post, TypeOK
  <2> QED BY <2>1, <2>2 DEF MaySend, NoVideo
<1>4. CASE SendSample \/ SendBeat
  <2>1. NoVideo(k)'
        BY <1>1, <1>4 DEF SendSample, SendBeat
  <2>2. ~MaySend(k)'
        BY <1>4 DEF SendSample, SendBeat, MaySend
  <2> QED BY <2>1, <2>2
<1>5. CASE TakeReply
  <2>1. Head(down[at]) \in {"ack", "error", "beat"}
        BY <1>5 DEF TakeReply, TypeOK
  <2>2. link' = link /\ at' = at /\ waiting' = "nothing" /\ up' = up
        BY <1>5 DEF TakeReply
  <2>3. told' = "nothing" => told = "nothing" /\ ~(waiting = "video" /\ next = Complete)
        BY <1>5, <2>1 DEF TakeReply
  <2> QED BY <2>2, <2>3 DEF MaySend, NoVideo
<1>6. CASE HangUp
  <2>1. at' = None /\ (link'[k] = "new" => link[k] = "new") /\ up' = up
        BY <1>6 DEF HangUp, TypeOK
  <2> QED BY <2>1, VideoAssumption DEF MaySend, NoVideo
<1> QED BY <1>2, <1>3, <1>4, <1>5, <1>6 DEF SenderNext

\* A handler comes to open the file through VIDEO_COMPLETE.
LEMMA OpensByComplete ==
    ASSUME TypeOK, GatewayNext, NEW k \in Conn, work'[k] = "open"
    PROVE  work[k] = "open" \/ CompleteStarts(k)
<1>1. CASE GatewayCrash
      BY <1>1 DEF GatewayCrash
<1>2. ASSUME NEW m \in Conn,
             \/ GatewayBeat(m) \/ HandleBeat(m) \/ HandleSample(m) \/ ChunkRefused(m)
             \/ CompleteRefused(m) \/ ChunkBuffered(m) \/ Notice(m) \/ ConnectionFails(m)
      PROVE  work[k] = "open"
      BY <1>2 DEF GatewayBeat, HandleBeat, HandleSample, ChunkRefused, CompleteRefused,
                  ChunkBuffered, Notice, ConnectionFails
<1>3. ASSUME NEW m \in Conn, CompleteStarts(m)
      PROVE  work[k] = "open" \/ CompleteStarts(k)
  <2>1. work' = [work EXCEPT ![m] = "open"]
        BY <1>3 DEF CompleteStarts
  <2> QED BY <1>3, <2>1 DEF TypeOK
<1>4. ASSUME NEW m \in Conn, NEW w \in {"idle", "fill", "insert"}, work' = [work EXCEPT ![m] = w]
      PROVE  work[k] = "open"
      BY <1>4 DEF TypeOK
<1>5. ASSUME NEW m \in Conn,
             \/ OpenFile(m) \/ FillFile(m) \/ SaveFails(m) \/ InsertRefused(m)
             \/ InsertRow(m) \/ InsertFails(m)
      PROVE  work[k] = "open"
      BY <1>4, <1>5 DEF OpenFile, FillFile, SaveFails, InsertRefused, InsertRow, InsertFails,
                        Answer
<1> QED BY <1>1, <1>2, <1>3, <1>5 DEF GatewayNext

\* Only OpenFile sets a path, and the connection has opened no file before.
LEMMA StepsOpenOnce ==
    ASSUME IInv, OpenedOnce, [Next]_vars
    PROVE  OpenedOnce'
<1>1. TypeOK /\ LinksOK /\ WorkIsLast
      BY DEF IInv
<1>2. ASSUME UNCHANGED <<opener, path>>,
             \A k \in Conn : ~MaySend(k) /\ NoVideo(k) => ~MaySend(k)' /\ NoVideo(k)',
             \A k \in Conn : work'[k] = "open" => work[k] = "open" \/ ~NoVideo(k),
             \/ row' \in {row, None}
             \/ \E k \in Conn : row' = <<path[k], k>>
      PROVE  OpenedOnce'
  <2>1. ASSUME NEW d \in Day, opener'[d] # None
        PROVE  /\ path'[opener'[d]] = d /\ work'[opener'[d]] # "open"
               /\ ~MaySend(opener[d])' /\ NoVideo(opener[d])'
    <3>1. opener[d] \in Conn /\ opener'[d] = opener[d]
          BY <1>1, <1>2, <2>1 DEF TypeOK
    <3> QED BY <1>2, <2>1, <3>1 DEF OpenedOnce
  <2>2. row' # None => row'[1] = path'[row'[2]]
        BY <1>2 DEF OpenedOnce
  <2> QED BY <2>1, <2>2 DEF OpenedOnce, MaySend, NoVideo
<1>3. CASE SenderNext
  <2>1. UNCHANGED <<opener, path, work, row>>
        BY <1>3 DEF SenderNext, Connect, Send, SendSample, TakeReply, HangUp, SendBeat
  <2>2. \A k \in Conn : ~MaySend(k) /\ NoVideo(k) => ~MaySend(k)' /\ NoVideo(k)'
        BY <1>1, <1>3, SenderDone
  <2> QED BY <1>2, <2>1, <2>2
<1>4. CASE GatewayNext
  <2>1. GatewayFrame
        BY <1>1, <1>4, GatewayFrames
  <2>2. \A k \in Conn : MaySend(k)' <=> MaySend(k)
        BY <2>1 DEF GatewayFrame, MaySend
  <2>3. \A k \in Conn : NoVideo(k) => NoVideo(k)'
    <3>1. CompleteIsLast
          BY DEF IInv
    <3> QED BY <1>1, <2>1, <2>2, <3>1, TakingKeepsOrder DEF GatewayFrame
  <2>4. \A k \in Conn : CompleteStarts(k) => ~NoVideo(k)
    <3> SUFFICES ASSUME NEW k \in Conn, CompleteStarts(k)
                 PROVE  ~NoVideo(k)
        OBVIOUS
    <3>1. up[k] # <<>> /\ up[k][1].kind = "video"
          BY <1>1, TakeTypes DEF CompleteStarts
    <3>2. 1 \in 1..Len(up[k])
          BY <1>1, <3>1 DEF TypeOK
    <3> QED BY <3>1, <3>2 DEF NoVideo
  <2>5. ASSUME NEW k \in Conn, OpenFile(k)
        PROVE  OpenedOnce'
    <3>1. /\ work[k] = "open" /\ day \in Day /\ UNCHANGED row
          /\ path' = [path EXCEPT ![k] = day] /\ opener' = [opener EXCEPT ![day] = k]
          /\ work' = [work EXCEPT ![k] = "fill"] /\ UNCHANGED <<up, link, sender>>
          BY <1>1, <2>5 DEF OpenFile, TypeOK
    <3>2. ASSUME NEW d \in Day, opener'[d] # None
          PROVE  /\ path'[opener'[d]] = d /\ work'[opener'[d]] # "open"
                 /\ ~MaySend(opener[d])' /\ NoVideo(opener[d])'
      <4>1. CASE d = day
        <5>1. opener'[d] = k /\ path'[k] = day /\ work'[k] = "fill"
              BY <1>1, <3>1, <4>1 DEF TypeOK
        <5>2. ~MaySend(k) /\ NoVideo(k)
              BY <1>1, <3>1 DEF WorkIsLast
        <5>3. ~MaySend(k)' /\ NoVideo(k)'
              BY <3>1, <5>2 DEF MaySend, NoVideo, Complete
        <5> QED BY <4>1, <5>1, <5>3 DEF MaySend, NoVideo
      <4>2. CASE d # day
        <5>1. opener'[d] = opener[d] /\ opener[d] \in Conn
              BY <1>1, <3>1, <3>2, <4>2 DEF TypeOK
        <5>2. /\ path[opener[d]] = d /\ work[opener[d]] # "open"
              /\ ~MaySend(opener[d]) /\ NoVideo(opener[d])
              BY <3>2, <5>1 DEF OpenedOnce
        <5>3. path'[opener[d]] = d /\ work'[opener[d]] # "open"
              BY <1>1, <3>1, <5>1, <5>2 DEF TypeOK
        <5>4. ~MaySend(opener[d])' /\ NoVideo(opener[d])'
              BY <3>1, <5>1, <5>2 DEF MaySend, NoVideo, Complete
        <5> QED BY <5>1, <5>3, <5>4
      <4> QED BY <4>1, <4>2
    <3>3. row' # None => row'[1] = path'[row'[2]]
      <4> SUFFICES ASSUME row # None PROVE row[1] = path'[row[2]]
          BY <3>1
      <4>1. row[2] \in Conn /\ work[row[2]] = "idle" /\ row[1] = path[row[2]]
            BY <1>1 DEF TypeOK, WorkIsLast, OpenedOnce
      <4> QED BY <1>1, <3>1, <4>1 DEF TypeOK
    <3> QED BY <3>2, <3>3 DEF OpenedOnce, MaySend, NoVideo
  <2>6. CASE \A k \in Conn : ~OpenFile(k)
    <3>1. UNCHANGED <<opener, path>>
          BY <1>4, <2>6 DEF GatewayNext, GatewayBeat, HandleBeat, HandleSample, ChunkRefused,
             ChunkBuffered, CompleteRefused, CompleteStarts, FillFile, SaveFails,
             InsertRow, InsertRefused, InsertFails, Notice, ConnectionFails, GatewayCrash
    <3>2. \A k \in Conn : work'[k] = "open" => work[k] = "open" \/ CompleteStarts(k)
          BY <1>1, <1>4, <2>6, OpensByComplete
    <3> QED BY <1>2, <2>1, <2>2, <2>3, <2>4, <3>1, <3>2 DEF GatewayFrame
  <2> QED BY <2>5, <2>6
<1>5. CASE CleanerNext \/ Midnight \/ (\E s \in {"active", "inactive", "absent"} : EditStation(s))
  <2>1. UNCHANGED <<opener, tcp, session, sender>> /\ row' \in {row, None}
        BY <1>5 DEF CleanerNext, GrowOld, UnlinkVideo, DeleteVideo, CleanerFails, Midnight,
                    EditStation
  <2>2. \A k \in Conn : (MaySend(k)' <=> MaySend(k)) /\ (NoVideo(k)' <=> NoVideo(k))
        BY <2>1 DEF MaySend, NoVideo, Complete
  <2> QED BY <1>2, <2>1, <2>2
<1>6. CASE UNCHANGED vars
  <2>1. UNCHANGED <<opener, tcp, session, sender, row>>
        BY <1>6 DEF vars
  <2>2. \A k \in Conn : (MaySend(k)' <=> MaySend(k)) /\ (NoVideo(k)' <=> NoVideo(k))
        BY <2>1 DEF MaySend, NoVideo, Complete
  <2> QED BY <1>2, <2>1, <2>2
<1> QED BY <1>3, <1>4, <1>5, <1>6 DEF Next


\* The Cleaner starts when every connection is over, and none is made then.
LEMMA StepsAreLate ==
    ASSUME TypeOK, CleanerIsLate, [Next]_vars
    PROVE  CleanerIsLate'
<1>1. CASE SenderNext
  <2>1. UNCHANGED <<work, cleaner>>
        /\ \/ \A k \in Conn : \/ link'[k] = link[k]
                              \/ link[k] = "open" /\ link'[k] = "left"
           \/ cleaner = "asleep" /\ \A k \in Conn : link'[k] = link[k] \/ link[k] = "new"
        BY <1>1 DEF SenderNext, Connect, Send, SendSample, TakeReply, HangUp, SendBeat, TypeOK
  <2> QED BY <2>1 DEF CleanerIsLate
<1>2. CASE GatewayNext
  <2>1. GatewayFrame
        BY <1>2, GatewayFrames
  <2>2. \A k \in Conn : CompleteStarts(k) => link[k] \in {"open", "left"} /\ link'[k] = link[k]
        BY DEF CompleteStarts, Handles
  <2>3. \A k \in Conn : link'[k] # link[k] => work'[k] = "idle"
    <3>1. CASE GatewayCrash
          BY <3>1 DEF GatewayCrash
    <3>2. ASSUME NEW k \in Conn, Notice(k) \/ ConnectionFails(k)
          PROVE  work' = work /\ work[k] = "idle" /\ link' = [link EXCEPT ![k] = "closed"]
          BY <3>2 DEF Notice, ConnectionFails, Cleanup
    <3>3. CASE ~GatewayCrash /\ \A k \in Conn : ~Notice(k) /\ ~ConnectionFails(k)
      <4>1. link' = link
            BY <1>2, <3>3 DEF GatewayNext, GatewayBeat, HandleBeat, HandleSample, ChunkRefused,
               ChunkBuffered, CompleteRefused, CompleteStarts, OpenFile, FillFile, SaveFails,
               InsertRow, InsertRefused, InsertFails
      <4> QED BY <4>1
    <3> QED BY <3>1, <3>2, <3>3 DEF TypeOK
  <2> QED BY <2>1, <2>2, <2>3 DEF GatewayFrame, CleanerIsLate
<1>3. CASE CleanerNext
  <2>1. /\ UNCHANGED <<link, work>>
        /\ cleaner # "asleep" \/ \A k \in Conn : link[k] \in {"new", "closed"}
        BY <1>3 DEF CleanerNext, GrowOld, UnlinkVideo, DeleteVideo, CleanerFails
  <2> QED BY <2>1 DEF CleanerIsLate
<1>4. CASE Midnight \/ UNCHANGED vars \/ \E s \in {"active", "inactive", "absent"} : EditStation(s)
  <2>1. UNCHANGED <<link, work, cleaner>>
        BY <1>4 DEF Midnight, EditStation, vars
  <2> QED BY <2>1 DEF CleanerIsLate
<1> QED BY <1>1, <1>2, <1>3, <1>4 DEF Next

\* The Cleaner removes the file its row names, and then the row; what is left
\* was opened by a connection other than the recorded one.
LEMMA StepsClean ==
    ASSUME IInv, OpenedOnce, CleanerIsLate, FilesCleaned, [Next]_vars
    PROVE  FilesCleaned'
<1>1. TypeOK /\ LinksOK /\ WorkIsLast
      BY DEF IInv
<1>2. faults' = 0 /\ edits' = 0 => faults = 0 /\ edits = 0
      BY <1>1, NoEarlierCause
<1>3. CASE cleaner = "asleep"
  <2>1. cleaner' = "asleep" \/ (cleaner' = "idle" /\ row' # None)
    <3>1. CASE GatewayNext
          BY <1>1, <1>3, <3>1, GatewayFrames DEF GatewayFrame
    <3>2. CASE ~GatewayNext
          BY <1>3, <3>2 DEF Next, vars, SenderNext, Connect, Send, SendSample, TakeReply, HangUp,
             SendBeat, CleanerNext, GrowOld, UnlinkVideo, DeleteVideo, CleanerFails, Midnight,
             EditStation
    <3> QED BY <3>1, <3>2
  <2> QED BY <2>1 DEF FilesCleaned
<1>4. CASE cleaner # "asleep"
  <2>1. \A k \in Conn : link[k] \in {"new", "closed"} /\ work[k] = "idle"
        BY <1>4 DEF CleanerIsLate
  <2>2. ASSUME UNCHANGED <<row, file, opener, cleaner>>,
               \A k \in Conn : link'[k] = "new" => link[k] = "new"
        PROVE  FilesCleaned'
        BY <1>2, <2>2 DEF FilesCleaned
  <2>3. CASE SenderNext
    <3>1. UNCHANGED <<row, file, opener, cleaner>>
          BY <2>3 DEF SenderNext, Connect, Send, SendSample, TakeReply, HangUp, SendBeat
    <3>2. \A k \in Conn : link'[k] = "new" => link[k] = "new"
          BY <1>1, <2>3 DEF SenderNext, Connect, Send, SendSample, TakeReply, HangUp, SendBeat, TypeOK
    <3> QED BY <2>2, <3>1, <3>2
  <2>4. CASE GatewayNext
    <3>1. GatewayCrash
          BY <2>1, <2>4 DEF GatewayNext, GatewayBeat, HandleBeat, HandleSample, ChunkRefused,
             ChunkBuffered, CompleteRefused, CompleteStarts, OpenFile, FillFile, SaveFails,
             InsertRow, InsertRefused, InsertFails, Notice, ConnectionFails, Handles
    <3>2. /\ UNCHANGED <<row, file, opener, cleaner>>
          /\ \A k \in Conn : link'[k] = "new" => link[k] = "new"
          BY <3>1 DEF GatewayCrash
    <3> QED BY <2>2, <3>2
  <2>5. CASE UnlinkVideo
    <3>1. /\ row \in Day \X Conn /\ row' = row /\ row # None
          /\ faults' = 0 => file' = [file EXCEPT ![row[1]] = "none"]
      <4>1. faults \in Nat /\ (Fault => faults' # 0)
            BY <1>1, VideoAssumption DEF TypeOK
      <4> QED BY <1>1, <2>5, <4>1 DEF UnlinkVideo, TypeOK
    <3>2. faults' = 0 => file'[row[1]] = "none"
          BY <1>1, <3>1 DEF TypeOK
    <3> QED BY <3>1, <3>2 DEF FilesCleaned
  <2>6. CASE DeleteVideo
    <3>1. /\ cleaner = "unlinked" /\ row \in Day \X Conn /\ row' = None /\ cleaner' = "idle"
          /\ UNCHANGED <<file, opener, link, faults, edits>>
          BY <1>1, <2>6 DEF DeleteVideo, FilesCleaned, TypeOK
    <3>2. row # None /\ row[2] \in Conn /\ row[1] = path[row[2]]
          BY <3>1, VideoAssumption DEF OpenedOnce
    <3>3. link[row[2]] # "new"
          BY <1>1, <3>2 DEF WorkIsLast, MaySend
    <3>4. ASSUME faults = 0, edits = 0, NEW d \in Day, file[d] # "none"
          PROVE  row[2] # opener[d]
      <4>1. d # row[1]
            BY <3>1, <3>4 DEF FilesCleaned
      <4>2. opener[d] # None => path[opener[d]] = d
            BY DEF OpenedOnce
      <4> QED BY <3>2, <4>1, <4>2, VideoAssumption
    <3> QED BY <3>1, <3>2, <3>3, <3>4 DEF FilesCleaned
  <2>7. CASE GrowOld \/ CleanerFails
    <3>1. faults' # 0
          BY <1>1, <1>4, <2>7, VideoAssumption DEF GrowOld, CleanerFails, TypeOK
    <3>2. cleaner' # "unlinked"
          BY <1>4, <2>7 DEF GrowOld, CleanerFails
    <3> QED BY <3>1, <3>2 DEF FilesCleaned
  <2>8. CASE Midnight \/ UNCHANGED vars \/ \E s \in {"active", "inactive", "absent"} : EditStation(s)
    <3>1. UNCHANGED <<row, file, opener, cleaner, link>>
          BY <2>8 DEF Midnight, EditStation, vars
    <3> QED BY <2>2, <3>1
  <2> QED BY <2>3, <2>4, <2>5, <2>6, <2>7, <2>8 DEF Next, CleanerNext
<1> QED BY <1>3, <1>4

-----------------------------------------------------------------------------
(* The theorems *)

\* The invariant is inductive.
THEOREM Inductive == Spec => []IInv
<1>1. Init => IInv
      BY InitIInv
<1>2. IInv /\ [Next]_vars => IInv'
  <2> SUFFICES ASSUME IInv, [Next]_vars
               PROVE  IInv'
      OBVIOUS
  <2>1. TypeOK /\ Order /\ LinksOK /\ FilledWhole /\ StoredWhole /\ InStep /\ AckMeansStored
        BY DEF IInv, Order
  <2>2. CASE SenderNext
    <3>1. TypeOK' BY <2>1, <2>2, SenderTypes
    <3>2. Order' /\ LinksOK' BY <2>1, <2>2, SenderOrder
    <3>3. FilledWhole' /\ StoredWhole' BY <2>1, <2>2, SenderWhole
    <3>4. InStep' /\ AckMeansStored' BY <2>1, <2>2, SenderInStep
    <3> QED BY <3>1, <3>2, <3>3, <3>4 DEF IInv, Order
  <2>3. CASE GatewayNext
    <3>1. TypeOK' BY <2>1, <2>3, GatewayTypes
    <3>2. Order' /\ LinksOK' BY <2>1, <2>3, GatewayOrder
    <3>3. FilledWhole' /\ StoredWhole' BY <2>1, <2>3, GatewayWhole
    <3>4. InStep' /\ AckMeansStored' BY <2>1, <2>3, GatewayInStep
    <3> QED BY <3>1, <3>2, <3>3, <3>4 DEF IInv, Order
  <2>4. CASE CleanerNext \/ Midnight \/ (\E s \in {"active", "inactive", "absent"} : EditStation(s))
    <3>1. TypeOK' BY <2>1, <2>4, AroundTypes
    <3>2. Order' /\ LinksOK' BY <2>1, <2>4, AroundOrder
    <3>3. FilledWhole' /\ StoredWhole' BY <2>1, <2>4, SenderWhole, CleanerWhole
    <3>4. InStep' /\ AckMeansStored' BY <2>1, <2>4, AroundInStep
    <3> QED BY <3>1, <3>2, <3>3, <3>4 DEF IInv, Order
  <2>5. CASE UNCHANGED vars
    <3>1. TypeOK' BY <2>1, <2>5 DEF vars, TypeOK
    <3>2. Order' /\ LinksOK'
          BY <2>1, <2>5 DEF vars, Order, CompleteIsLast, WorkIsLast, LinksOK, MaySend, NoVideo,
                            Complete
    <3>3. FilledWhole' /\ StoredWhole'
          BY <2>1, <2>5 DEF vars, FilledWhole, StoredWhole
    <3>4. InStep' /\ AckMeansStored'
          BY <2>1, <2>5 DEF vars, InStep, AckMeansStored, Complete
    <3> QED BY <3>1, <3>2, <3>3, <3>4 DEF IInv, Order
  <2> QED BY <2>2, <2>3, <2>4, <2>5 DEF Next
<1> QED BY <1>1, <1>2, PTL DEF Spec

\* Every variable keeps its type.
THEOREM TypeCorrect == Spec => []TypeOK
<1>1. IInv => TypeOK BY DEF IInv
<1> QED BY <1>1, Inductive, PTL

\* A stored video is whole until the Cleaner takes it, unless another attempt
\* opened the same path after it: video_handler.handle_complete.
THEOREM StoredIsWhole == Spec => []StoredWhole
<1>1. IInv => StoredWhole BY DEF IInv
<1> QED BY <1>1, Inductive, PTL

\* Without heartbeats, an acknowledged VIDEO_COMPLETE means a stored video:
\* send_video.py and video_handler.handle_complete.
THEOREM AckIsStored == Spec => []AckMeansStored
<1>1. IInv => AckMeansStored BY DEF IInv
<1> QED BY <1>1, Inductive, PTL

\* Without a failure or a change of the station, a file that nobody works on is
\* whole and the one its row names, and the Cleaner takes both: only another
\* attempt than the recorded one can leave a file on another day
\* (video_handler.handle_complete, cleaner._purge_videos).
THEOREM OrphansNeedACause == Spec => []NoOrphans
<1> DEFINE J == FilesInHand /\ OpenedOnce /\ CleanerIsLate /\ FilesCleaned
<1>1. Init => J
      BY VideoAssumption DEF Init, FilesInHand, OpenedOnce, CleanerIsLate, FilesCleaned
<1>2. IInv /\ J /\ [Next]_vars => J'
  <2> SUFFICES ASSUME IInv, J, [Next]_vars
               PROVE  J'
      OBVIOUS
  <2>1. TypeOK
        BY DEF IInv
  <2>2. FilesInHand' BY <2>1, StepsInHand
  <2>3. OpenedOnce' BY StepsOpenOnce
  <2>4. CleanerIsLate' BY <2>1, StepsAreLate
  <2>5. FilesCleaned' BY StepsClean
  <2> QED BY <2>2, <2>3, <2>4, <2>5
<1>3. IInv /\ J => NoOrphans
  <2> SUFFICES ASSUME IInv, J, faults = 0, edits = 0, NEW d \in Day,
                      file[d] # "none", \A k \in Conn : work[k] # "idle" => path[k] # d
               PROVE  /\ file[d] = "whole"
                      /\ IF row # None
                           THEN row[1] = d \/ row[2] # opener[d]
                           ELSE cleaner # "asleep" /\ \E k \in Conn \ {opener[d]} : link[k] # "new"
      BY DEF NoOrphans
  <2>1. file[d] \in {"none", "part", "whole"} /\ row \in (Day \X Conn) \cup {None}
        BY DEF IInv, TypeOK
  <2>2. file[d] = "whole" /\ (row # None \/ cleaner # "asleep")
        BY <2>1 DEF FilesInHand
  <2>3. CASE row # None
    <3>1. row[2] \in Conn /\ row[1] = path[row[2]]
          BY <2>1, <2>3 DEF OpenedOnce
    <3>2. opener[d] # None => path[opener[d]] = d
          BY DEF OpenedOnce
    <3> QED BY <2>2, <2>3, <3>1, <3>2, VideoAssumption
  <2>4. CASE row = None
        BY <2>2, <2>4 DEF FilesCleaned
  <2> QED BY <2>3, <2>4
<1> QED BY <1>1, <1>2, <1>3, Inductive, PTL DEF Spec
=============================================================================
