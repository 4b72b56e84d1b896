---------------------------- MODULE Broadcaster ----------------------------
(***************************************************************************)
(* The Broadcaster of the Dumopro API: one pump per topic takes the candle *)
(* events of Redis and puts them into the bounded queue of every client of *)
(* the topic, from which its SSE stream sends them.  A topic is a station, *)
(* or all of them.                                                         *)
(*                                                                         *)
(* Abstractions: an event is its position in the log of all events, which  *)
(* says only whose it is.  Nothing is awaited under the lock, so taking a  *)
(* message and handing it to the queues is one step.  A cancelled pump     *)
(* hands out nothing more; how it closes its connection is left out.       *)
(***************************************************************************)
EXTENDS Integers, FiniteSets, Sequences, SequencesExt

CONSTANTS
    Station,    \* stations of the list in Redis
    All,        \* the topic of every station's events
    Client,     \* connections of browsers
    Cap,        \* maxsize of a queue, by topic
    NoTopic,
    MaxEvents,  \* bound: events published
    MaxDeaths   \* bound: pumps that end with an error

Topic == Station \cup {All}

ASSUME BroadcasterAssumption ==
    /\ All \notin Station /\ NoTopic \notin Topic
    /\ Cap \in [Topic -> Nat \ {0}]
    /\ MaxEvents \in Nat /\ MaxDeaths \in Nat

VARIABLES
    log,     \* the station of every event published
    pump,    \* _pumps and _all_pump
    inbox,   \* messages Redis has sent to the pump of a topic
    subs,    \* _queues and _all_queues: whose queues a pump feeds
    queue,   \* the queue of a client
    topic,   \* what the client asked for
    stage,   \* of its request
    left,    \* the client has disconnected
    got,     \* history: events it was sent
    since,   \* history: the last event before those its pump could have got
    closed,  \* close() was called
    deaths

sseVars == <<log, pump, inbox, subs, queue, topic, stage, left, got, since, closed, deaths>>

Event == 1..MaxEvents

SseTypeOK ==
    /\ log \in Seq(Station) /\ Len(log) <= MaxEvents
    /\ pump \in [Topic -> {"none", "starting", "live", "dead"}]
    /\ inbox \in [Topic -> Seq(Event)]
    /\ subs \in [Topic -> SUBSET Client]
    /\ queue \in [Client -> Seq(Event)]
    /\ topic \in [Client -> Topic \cup {NoTopic}]
    /\ stage \in [Client -> {"none", "subscribed", "streaming", "leaked"}]
    /\ left \in [Client -> BOOLEAN]
    /\ got \in [Client -> Seq(Event)] /\ since \in [Client -> Event \cup {0}]
    /\ closed \in BOOLEAN /\ deaths \in 0..MaxDeaths

SseInit ==
    /\ log = <<>> /\ pump = [t \in Topic |-> "none"]
    /\ inbox = [t \in Topic |-> <<>>] /\ subs = [t \in Topic |-> {}]
    /\ queue = [c \in Client |-> <<>>] /\ topic = [c \in Client |-> NoTopic]
    /\ stage = [c \in Client |-> "none"] /\ left = [c \in Client |-> FALSE]
    /\ got = [c \in Client |-> <<>>] /\ since = [c \in Client |-> 0]
    /\ closed = FALSE /\ deaths = 0

-----------------------------------------------------------------------------
(* Events and pumps *)

\* The poller publishes; Redis sends the event to the pumps that subscribed.
Publish(s) ==
    /\ Len(log) < MaxEvents
    /\ log' = Append(log, s)
    /\ inbox' = [t \in Topic |->
         IF t \in {s, All} /\ pump[t] = "live" THEN Append(inbox[t], Len(log) + 1)
         ELSE inbox[t]]
    /\ UNCHANGED <<pump, subs, queue, topic, stage, left, got, since, closed, deaths>>

\* subscribe or psubscribe has returned.
PumpReady(t) ==
    /\ pump[t] = "starting"
    /\ pump' = [pump EXCEPT ![t] = "live"]
    /\ since' = [c \in Client |-> IF c \in subs[t] THEN Len(log) ELSE since[c]]
    /\ UNCHANGED <<log, inbox, subs, queue, topic, stage, left, got, closed, deaths>>

\* Mutant: a full queue keeps what it has.
PutNewestLost(q, cap, e) == IF Len(q) < cap THEN Append(q, e) ELSE q

\* put_nowait; a full queue loses its oldest event first.
PutNowait(q, cap, e) == Append(IF Len(q) < cap THEN q ELSE Tail(q), e)

FanOut(t) ==
    /\ pump[t] = "live" /\ inbox[t] # <<>>
    /\ queue' = [c \in Client |->
         IF c \in subs[t] THEN PutNowait(queue[c], Cap[t], Head(inbox[t])) ELSE queue[c]]
    /\ inbox' = [inbox EXCEPT ![t] = Tail(@)]
    /\ UNCHANGED <<log, pump, subs, topic, stage, left, got, since, closed, deaths>>

\* The pump ends with an error and stays where the Broadcaster keeps it.
PumpDies(t) ==
    /\ pump[t] \in {"starting", "live"} /\ deaths < MaxDeaths
    /\ deaths' = deaths + 1
    /\ pump' = [pump EXCEPT ![t] = "dead"] /\ inbox' = [inbox EXCEPT ![t] = <<>>]
    /\ UNCHANGED <<log, subs, queue, topic, stage, left, got, since, closed>>

-----------------------------------------------------------------------------
(* A request of a client *)

\* The request arrives, and the queue is made known; the first queue of a
\* topic starts the pump.
Subscribe(c, t) ==
    /\ stage[c] = "none" /\ ~closed
    /\ stage' = [stage EXCEPT ![c] = "subscribed"] /\ topic' = [topic EXCEPT ![c] = t]
    /\ left' = [left EXCEPT ![c] = FALSE]
    /\ queue' = [queue EXCEPT ![c] = <<>>] /\ got' = [got EXCEPT ![c] = <<>>]
    /\ since' = [since EXCEPT ![c] =
         IF inbox[t] = <<>> THEN Len(log) ELSE Head(inbox[t]) - 1]
    /\ subs' = [subs EXCEPT ![t] = @ \cup {c}]
    /\ pump' = [pump EXCEPT ![t] = IF @ = "none" THEN "starting" ELSE @]
    /\ UNCHANGED <<log, inbox, closed, deaths>>

\* The response starts: from now on the generator's `finally' will run.
Begin(c) ==
    /\ stage[c] = "subscribed"
    /\ stage' = [stage EXCEPT ![c] = "streaming"]
    /\ UNCHANGED <<log, pump, inbox, subs, queue, topic, left, got, since, closed, deaths>>

LeaveTopic(c) ==
    /\ stage[c] \in {"subscribed", "streaming"} /\ ~left[c]
    /\ left' = [left EXCEPT ![c] = TRUE]
    /\ UNCHANGED <<log, pump, inbox, subs, queue, topic, stage, got, since, closed, deaths>>

\* The server drops a request whose generator has not begun: its queue stays.
Leak(c) ==
    /\ stage[c] = "subscribed" /\ left[c]
    /\ stage' = [stage EXCEPT ![c] = "leaked"]
    /\ UNCHANGED <<log, pump, inbox, subs, queue, topic, left, got, since, closed, deaths>>

\* Mutant: the pump is stopped for the clients that remain too.
UnsubscribeAll(c) ==
    LET t == topic[c]
    IN /\ subs' = [subs EXCEPT ![t] = @ \ {c}]
       /\ pump' = [pump EXCEPT ![t] = "none"] /\ inbox' = [inbox EXCEPT ![t] = <<>>]

\* The last queue of a topic takes the pump with it.
Unsubscribe(c) ==
    LET t == topic[c]
    IN /\ subs' = [subs EXCEPT ![t] = @ \ {c}]
       /\ IF subs[t] \subseteq {c}
          THEN pump' = [pump EXCEPT ![t] = "none"] /\ inbox' = [inbox EXCEPT ![t] = <<>>]
          ELSE UNCHANGED <<pump, inbox>>

Finish(c) ==
    /\ Unsubscribe(c)
    /\ stage' = [stage EXCEPT ![c] = "none"] /\ topic' = [topic EXCEPT ![c] = NoTopic]
    /\ queue' = [queue EXCEPT ![c] = <<>>]
    /\ UNCHANGED <<log, left, got, since, closed, deaths>>

Send(c) ==
    /\ stage[c] = "streaming" /\ queue[c] # <<>> /\ ~left[c]
    /\ got' = [got EXCEPT ![c] = Append(@, Head(queue[c]))]
    /\ queue' = [queue EXCEPT ![c] = Tail(@)]
    /\ UNCHANGED <<log, pump, inbox, subs, topic, stage, left, since, closed, deaths>>

\* Mutant: only an event makes the stream look whether the client is there.
NoticeAtEvent(c) == stage[c] = "streaming" /\ left[c] /\ queue[c] # <<>> /\ Finish(c)

\* With the next event or ping the stream finds its client gone, unless the
\* server cancels it before.
Notice(c) == stage[c] = "streaming" /\ left[c] /\ Finish(c)

\* The API shuts down.
Close ==
    /\ ~closed /\ closed' = TRUE
    /\ pump' = [t \in Topic |-> "none"] /\ inbox' = [t \in Topic |-> <<>>]
    /\ subs' = [t \in Topic |-> {}]
    /\ UNCHANGED <<log, queue, topic, stage, left, got, since, deaths>>

-----------------------------------------------------------------------------
SseNext ==
    \/ Close
    \/ \E s \in Station : Publish(s)
    \/ \E t \in Topic : PumpReady(t) \/ FanOut(t) \/ PumpDies(t)
    \/ \E c \in Client :
          \/ Begin(c) \/ LeaveTopic(c) \/ Leak(c) \/ Send(c) \/ Notice(c)
          \/ \E t \in Topic : Subscribe(c, t)

SseSpec == SseInit /\ [][SseNext]_sseVars

\* A response that was accepted starts or is dropped, and every stream wakes
\* up, at the latest after heartbeat_sec.
SseFairSpec ==
    SseSpec /\ \A c \in Client : WF_sseVars(Begin(c) \/ Leak(c)) /\ WF_sseVars(Notice(c))

-----------------------------------------------------------------------------
\* What a client should have got, had it been fast: the events of its topic
\* since there was a pump for it.
Expected(c) == {e \in 1..Len(log) : e > since[c] /\ topic[c] \in {log[e], All}}

Ascending(s) == \A i, j \in DOMAIN s : i < j => s[i] < s[j]

\* While its pump lives, what is on the way to a client is the newest part of
\* what it should get, what it was sent before came in order and only once,
\* and nothing is missing unless its queue was full once.
NewestInOrder ==
    \A t \in Topic : \A c \in subs[t] :
        pump[t] = "live" =>
            LET coming == queue[c] \o inbox[t]
                before == Expected(c) \ ToSet(coming)
            IN /\ Ascending(coming) /\ ToSet(coming) \subseteq Expected(c)
               /\ \A e \in before : \A f \in ToSet(coming) : e < f
               /\ Ascending(got[c]) /\ ToSet(got[c]) \subseteq before
               /\ Cardinality(Expected(c) \ ToSet(inbox[t])) <= Cap[t]
                    => ToSet(got[c]) = before

\* There is a pump for a topic exactly as long as there are queues to feed:
\* one, however clients come and go (Broadcaster: "Maintains exactly one Redis
\* subscription per station regardless of how many SSE clients are connected").
PumpsFollowQueues == \A t \in Topic : pump[t] # "none" <=> subs[t] # {}

\* When all clients of a topic have left, its pump ends, unless somebody else
\* comes or a request was dropped before its stream began.
PumpsStop ==
    \A t \in Topic :
        (\A c \in subs[t] : left[c]) ~>
            \/ pump[t] = "none"
            \/ \E c \in subs[t] : ~left[c] \/ stage[c] = "leaked"
=============================================================================
