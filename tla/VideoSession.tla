---------------------------- MODULE VideoSession ----------------------------
(***************************************************************************)
(* The Ingestion Gateway in standard mode: a sender transfers a video in   *)
(* chunks over TCP and has it stored as a file and a row; after a failed   *)
(* attempt it starts again on a new connection.  Readings may be sent on   *)
(* the same connection.  The Cleaner removes the video when it is old.     *)
(*                                                                         *)
(* Abstractions: one video, whose chunks always have the same contents; a  *)
(* buffer is the set of chunks it has.  A connection carries every message *)
(* in order until one side is done with it, and loses what is unread then. *)
(* A transfer is cut up where its handler awaits something other handlers  *)
(* see.  Rows of the logs, of readings and what a reply says are left out. *)
(***************************************************************************)
EXTENDS Integers, Sequences

CONSTANTS
    Conn,       \* connections, which are also sessions
    Total,      \* total_chunks
    Day,        \* days: the directory of a file
    None,
    MaxBeats,   \* bound: heartbeats of both sides
    MaxSamples, \* bound: readings sent
    MaxEdits,   \* bound: changes of the station by an administrator
    MaxFaults   \* bound: failures and crashes

ASSUME VideoAssumption ==
    /\ Total \in Nat \ {0} /\ Day \subseteq Nat /\ 0 \in Day
    /\ None \notin Conn \cup Day \cup (Day \X Conn)
    /\ MaxBeats \in Nat /\ MaxSamples \in Nat /\ MaxEdits \in Nat /\ MaxFaults \in Nat

VARIABLES
    station,   \* the station of the video: active, inactive or not there
    requested, \* station_request has its name
    row,       \* the row of the video: the day of its file_path, and (history)
               \* the connection it came from
    day,       \* today
    file,      \* the file of the video in the directory of a day
    opener,    \* the connection that opened it last
    link,      \* a connection: new, open, left by the sender, closed
    up,        \* messages on the way to the gateway
    down,      \* replies and heartbeats on the way to the sender
    buf,       \* chunks in the VideoBuffer of a session
    work,      \* where handle_complete is
    path,      \* the day in its file_path
    at,        \* the sender's connection
    next,      \* the message it sends next: a chunk, or Complete
    waiting,   \* what it waits for a reply to
    told,      \* what it took as the reply to Complete
    cleaner,   \* asleep until the video is old, idle, or between its steps
    beats, samples, edits, faults

db      == <<station, requested, row>>
disk    == <<day, file, opener>>
tcp     == <<link, up, down>>
session == <<buf, work, path>>
sender  == <<at, next, waiting, told>>
bounds  == <<beats, samples, edits, faults>>
vars    == <<station, requested, row, day, file, opener, link, up, down, buf,
             work, path, at, next, waiting, told, cleaner, beats, samples,
             edits, faults>>

Chunk    == 1..Total
Complete == Total + 1
Message  == Chunk \cup {Complete}

TypeOK ==
    /\ station \in {"active", "inactive", "absent"} /\ requested \in BOOLEAN
    /\ row \in (Day \X Conn) \cup {None}
    /\ day \in Day /\ file \in [Day -> {"none", "part", "whole"}]
    /\ opener \in [Day -> Conn \cup {None}]
    /\ link \in [Conn -> {"new", "open", "left", "closed"}]
    /\ up \in [Conn -> Seq([kind : {"video"}, part : Message]
                           \cup [kind : {"sample", "beat"}, part : {0}])]
    /\ down \in [Conn -> Seq({"ack", "error", "beat"})]
    /\ buf \in [Conn -> SUBSET Chunk]
    /\ work \in [Conn -> {"idle", "open", "fill", "insert"}]
    /\ path \in [Conn -> Day]
    /\ at \in Conn \cup {None} /\ next \in Message
    /\ waiting \in {"nothing", "video", "sample"}
    /\ told \in {"nothing", "ack", "error", "beat"}
    /\ cleaner \in {"asleep", "idle", "unlinked"}
    /\ beats \in 0..MaxBeats /\ samples \in 0..MaxSamples
    /\ edits \in 0..MaxEdits /\ faults \in 0..MaxFaults

Init ==
    /\ station = "active" /\ requested = FALSE /\ row = None
    /\ day = 0 /\ file = [d \in Day |-> "none"] /\ opener = [d \in Day |-> None]
    /\ link = [k \in Conn |-> "new"]
    /\ up = [k \in Conn |-> <<>>] /\ down = [k \in Conn |-> <<>>]
    /\ buf = [k \in Conn |-> {}] /\ work = [k \in Conn |-> "idle"]
    /\ path = [k \in Conn |-> 0]
    /\ at = None /\ next = 1 /\ waiting = "nothing" /\ told = "nothing"
    /\ cleaner = "asleep" /\ beats = 0 /\ samples = 0 /\ edits = 0 /\ faults = 0

Fault == faults < MaxFaults /\ faults' = faults + 1

-----------------------------------------------------------------------------
(* The sender *)

\* An attempt, unless one ended with anything but an error.
Connect(k) ==
    /\ at = None /\ link[k] = "new" /\ told \in {"nothing", "error"} /\ cleaner = "asleep"
    /\ at' = k /\ next' = 1 /\ waiting' = "nothing" /\ told' = "nothing"
    /\ link' = [link EXCEPT ![k] = "open"]
    /\ UNCHANGED <<db, disk, up, down, session, cleaner, bounds>>

Post(kind, part) ==
    up' = [up EXCEPT ![at] = Append(@, [kind |-> kind, part |-> part])]

\* One message, then its reply is awaited.
Send ==
    /\ at # None /\ waiting = "nothing" /\ told = "nothing"
    /\ Post("video", next) /\ waiting' = "video"
    /\ UNCHANGED <<db, disk, link, down, session, at, next, told, cleaner, bounds>>

SendSample ==
    /\ at # None /\ waiting = "nothing" /\ told = "nothing" /\ samples < MaxSamples
    /\ Post("sample", 0) /\ waiting' = "sample" /\ samples' = samples + 1
    /\ UNCHANGED <<db, disk, link, down, session, at, next, told, cleaner,
                   beats, edits, faults>>

\* Whatever arrives first is taken for the reply.
TakeReply ==
    /\ at # None /\ waiting # "nothing" /\ down[at] # <<>>
    /\ down' = [down EXCEPT ![at] = Tail(@)]
    /\ waiting' = "nothing"
    /\ next' = IF waiting = "video" /\ next # Complete THEN next + 1 ELSE next
    /\ told' = IF waiting = "video" /\ next = Complete THEN Head(down[at]) ELSE told
    /\ UNCHANGED <<db, disk, link, up, session, at, cleaner, bounds>>

\* The transfer is over, or no reply came in time, or the gateway is gone.
HangUp ==
    /\ at # None /\ (told # "nothing" \/ waiting # "nothing" \/ link[at] = "closed")
    /\ link' = [link EXCEPT ![at] = IF @ = "open" THEN "left" ELSE @]
    /\ down' = [down EXCEPT ![at] = <<>>]
    /\ at' = None /\ waiting' = "nothing"
    /\ UNCHANGED <<db, disk, up, session, next, told, cleaner, bounds>>

\* Both sides send heartbeats, and the gateway acknowledges the sender's.
SendBeat ==
    /\ at # None /\ beats < MaxBeats /\ beats' = beats + 1
    /\ Post("beat", 0)
    /\ UNCHANGED <<db, disk, link, down, session, sender, cleaner, samples, edits, faults>>

GatewayBeat(k) ==
    /\ link[k] = "open" /\ beats < MaxBeats /\ beats' = beats + 1
    /\ down' = [down EXCEPT ![k] = Append(@, "beat")]
    /\ UNCHANGED <<db, disk, link, up, session, sender, cleaner, samples, edits, faults>>

-----------------------------------------------------------------------------
(* A connection of the gateway: one message after the other *)

\* The next message is of this kind; the handlers of a session never overlap.
Handles(k, kind, parts) ==
    /\ link[k] \in {"open", "left"} /\ work[k] = "idle" /\ up[k] # <<>>
    /\ Head(up[k]).kind = kind /\ Head(up[k]).part \in parts
    /\ up' = [up EXCEPT ![k] = Tail(@)]

Reply(k, r) == down' = IF link[k] = "open" THEN [down EXCEPT ![k] = Append(@, r)] ELSE down

HandleBeat(k) ==
    /\ Handles(k, "beat", {0}) /\ Reply(k, "ack")
    /\ UNCHANGED <<db, disk, link, session, sender, cleaner, bounds>>

\* A reading of an unknown or inactive station becomes a station request.
HandleSample(k) ==
    /\ Handles(k, "sample", {0})
    /\ Reply(k, IF station = "active" THEN "ack" ELSE "error")
    /\ requested' = (requested \/ station # "active")
    /\ UNCHANGED <<station, row, disk, link, session, sender, cleaner, bounds>>

\* Only the first chunk looks the station up.
ChunkRefused(k) ==
    /\ Handles(k, "video", Chunk) /\ buf[k] = {} /\ station # "active"
    /\ requested' = TRUE /\ Reply(k, "error")
    /\ UNCHANGED <<station, row, disk, link, session, sender, cleaner, bounds>>

ChunkBuffered(k) ==
    /\ Handles(k, "video", Chunk) /\ (buf[k] # {} \/ station = "active")
    /\ buf' = [buf EXCEPT ![k] = @ \cup {Head(up[k]).part}] /\ Reply(k, "ack")
    /\ UNCHANGED <<db, disk, link, work, path, sender, cleaner, bounds>>

\* Mutant: VIDEO_COMPLETE is acknowledged, whatever is missing.
CompleteAcked(k) ==
    /\ Handles(k, "video", {Complete}) /\ buf[k] # Chunk /\ Reply(k, "ack")
    /\ UNCHANGED <<db, disk, link, session, sender, cleaner, bounds>>

\* Nothing is buffered, or not everything: what there is stays.
CompleteRefused(k) ==
    /\ Handles(k, "video", {Complete}) /\ buf[k] # Chunk /\ Reply(k, "error")
    /\ UNCHANGED <<db, disk, link, session, sender, cleaner, bounds>>

CompleteStarts(k) ==
    /\ Handles(k, "video", {Complete}) /\ buf[k] = Chunk
    /\ work' = [work EXCEPT ![k] = "open"]
    /\ UNCHANGED <<db, disk, link, down, buf, path, sender, cleaner, bounds>>

\* handle_complete ends: the buffer goes, stored or not.
Answer(k, r) ==
    /\ work' = [work EXCEPT ![k] = "idle"] /\ buf' = [buf EXCEPT ![k] = {}]
    /\ Reply(k, r)

\* _assemble_and_save, in a thread: opening empties a file of the same day.
OpenFile(k) ==
    /\ work[k] = "open"
    /\ path' = [path EXCEPT ![k] = day]
    /\ file' = [file EXCEPT ![day] = "part"] /\ opener' = [opener EXCEPT ![day] = k]
    /\ work' = [work EXCEPT ![k] = "fill"]
    /\ UNCHANGED <<db, day, tcp, buf, sender, cleaner, bounds>>

\* Mutant: a write that fails is not noticed.
FillFileCut(k) ==
    /\ work[k] = "fill" /\ work' = [work EXCEPT ![k] = "insert"]
    /\ \/ opener[path[k]] = k /\ file' = [file EXCEPT ![path[k]] = "whole"]
       \/ UNCHANGED file
    /\ UNCHANGED <<db, day, opener, tcp, buf, path, sender, cleaner, bounds>>

\* Who opened it last has written all of it; what another writes meanwhile
\* leaves a hole.
FillFile(k) ==
    /\ work[k] = "fill" /\ work' = [work EXCEPT ![k] = "insert"]
    /\ file' = IF opener[path[k]] = k THEN [file EXCEPT ![path[k]] = "whole"] ELSE file
    /\ UNCHANGED <<db, day, opener, tcp, buf, path, sender, cleaner, bounds>>

\* The directory, the file or the write fails: what is there stays.
SaveFails(k) ==
    /\ work[k] \in {"open", "fill"} /\ Fault
    /\ Answer(k, "error")
    /\ UNCHANGED <<db, disk, link, up, path, sender, cleaner, beats, samples, edits>>

\* Mutant: the file_path of the row is put together anew, from the date of now.
InsertRowToday(k) ==
    /\ work[k] = "insert" /\ row = None /\ station # "absent"
    /\ row' = <<day, k>> /\ Answer(k, "ack")
    /\ UNCHANGED <<station, requested, disk, link, up, path, sender, cleaner, bounds>>

InsertRow(k) ==
    /\ work[k] = "insert" /\ row = None /\ station # "absent"
    /\ row' = <<path[k], k>> /\ Answer(k, "ack")
    /\ UNCHANGED <<station, requested, disk, link, up, path, sender, cleaner, bounds>>

\* The row is there already, or its station is not: the file stays.
InsertRefused(k) ==
    /\ work[k] = "insert" /\ (row # None \/ station = "absent") /\ Answer(k, "error")
    /\ UNCHANGED <<db, disk, link, up, path, sender, cleaner, bounds>>

\* The database fails, before or after it has stored the row.
InsertFails(k) ==
    /\ work[k] = "insert" /\ row = None /\ station # "absent" /\ Fault
    /\ row' \in {row, <<path[k], k>>} /\ Answer(k, "error")
    /\ UNCHANGED <<station, requested, disk, link, up, path, sender, cleaner,
                   beats, samples, edits>>

\* _cleanup_session: nothing more of the connection is read.  Its session
\* and buffer stay in the registry, but no other connection finds them.
Cleanup(k) ==
    /\ link' = [link EXCEPT ![k] = "closed"] /\ up' = [up EXCEPT ![k] = <<>>]

\* Between two messages the gateway finds that the sender has left.
Notice(k) ==
    /\ link[k] = "left" /\ work[k] = "idle" /\ Cleanup(k)
    /\ UNCHANGED <<db, disk, down, session, sender, cleaner, bounds>>

\* A timeout, a bad frame, or an exception of a handler.
ConnectionFails(k) ==
    /\ link[k] \in {"open", "left"} /\ work[k] = "idle" /\ Fault /\ Cleanup(k)
    /\ UNCHANGED <<db, disk, down, session, sender, cleaner, beats, samples, edits>>

\* The gateway stops or crashes, and starts again.
GatewayCrash ==
    /\ Fault
    /\ link' = [k \in Conn |-> IF link[k] = "new" THEN "new" ELSE "closed"]
    /\ up' = [k \in Conn |-> <<>>]
    /\ buf' = [k \in Conn |-> {}] /\ work' = [k \in Conn |-> "idle"]
    /\ UNCHANGED <<db, disk, down, path, sender, cleaner, beats, samples, edits>>

-----------------------------------------------------------------------------
(* Around the gateway *)

\* An administrator; a station with rows cannot be deleted.
EditStation(s) ==
    /\ edits < MaxEdits /\ edits' = edits + 1
    /\ station # s /\ (s = "absent" => row = None) /\ station' = s
    /\ UNCHANGED <<requested, row, disk, tcp, session, sender, cleaner, beats, samples, faults>>

Midnight ==
    /\ day + 1 \in Day /\ day' = day + 1
    /\ UNCHANGED <<db, file, opener, tcp, session, sender, cleaner, bounds>>

\* The retention period of the row is over, long after the transfers.
GrowOld ==
    /\ cleaner = "asleep" /\ row # None /\ at = None
    /\ \A k \in Conn : link[k] \in {"new", "closed"}
    /\ cleaner' = "idle"
    /\ UNCHANGED <<db, disk, tcp, session, sender, bounds>>

\* _purge_videos: the file, and then the row even if the file stays.
UnlinkVideo ==
    /\ cleaner = "idle" /\ row # None /\ cleaner' = "unlinked"
    /\ \/ file' = [file EXCEPT ![row[1]] = "none"] /\ UNCHANGED faults
       \/ Fault /\ UNCHANGED file
    /\ UNCHANGED <<db, day, opener, tcp, session, sender, beats, samples, edits>>

DeleteVideo ==
    /\ cleaner = "unlinked" /\ row' = None /\ cleaner' = "idle"
    /\ UNCHANGED <<station, requested, disk, tcp, session, sender, bounds>>

\* The DELETE fails or the Cleaner crashes; the next pass finds the row again.
CleanerFails ==
    /\ cleaner = "unlinked" /\ Fault /\ cleaner' = "idle"
    /\ UNCHANGED <<db, disk, tcp, session, sender, beats, samples, edits>>

-----------------------------------------------------------------------------
SenderNext ==
    Send \/ SendSample \/ TakeReply \/ HangUp \/ SendBeat \/ \E k \in Conn : Connect(k)

GatewayNext ==
    \/ \E k \in Conn :
          \/ GatewayBeat(k) \/ HandleBeat(k) \/ HandleSample(k)
          \/ ChunkRefused(k) \/ ChunkBuffered(k) \/ CompleteRefused(k)
          \/ CompleteStarts(k) \/ OpenFile(k) \/ FillFile(k) \/ SaveFails(k)
          \/ InsertRow(k) \/ InsertRefused(k) \/ InsertFails(k)
          \/ Notice(k) \/ ConnectionFails(k)
    \/ GatewayCrash

CleanerNext == GrowOld \/ UnlinkVideo \/ DeleteVideo \/ CleanerFails

Next ==
    \/ SenderNext \/ GatewayNext \/ CleanerNext \/ Midnight
    \/ \E s \in {"active", "inactive", "absent"} : EditStation(s)

Spec == Init /\ [][Next]_vars

-----------------------------------------------------------------------------
\* The file of a video that has a row is all there until the Cleaner takes
\* it, unless another attempt opened the same path after the one that is
\* recorded: handle_complete inserts the row last, and a failed attempt, a
\* crash or a slow thread of another session changes nothing about that.
StoredWhole ==
    row # None /\ cleaner = "asleep" /\ opener[row[1]] = row[2] => file[row[1]] = "whole"

\* A sender that took ACK for the reply to VIDEO_COMPLETE can rely on the
\* video being stored, as long as no heartbeat was on the way: one of either
\* side makes every later reply look like that to the message after it.
AckMeansStored ==
    told = "ack" /\ beats = 0 /\ cleaner = "asleep" => row # None

\* Without a failure or a change of the station, a file that no attempt is
\* working on is whole and the one the row names; nor does the Cleaner leave
\* it behind.  Only a second attempt can write a file no row names: on another
\* day than the one that was recorded, because its own row is refused.
NoOrphans ==
    faults = 0 /\ edits = 0 =>
        \A d \in Day :
            file[d] # "none" /\ (\A k \in Conn : work[k] # "idle" => path[k] # d) =>
                /\ file[d] = "whole"
                /\ IF row # None
                     THEN row[1] = d \/ row[2] # opener[d]
                     ELSE cleaner # "asleep" /\ \E k \in Conn \ {opener[d]} : link[k] # "new"
=============================================================================
