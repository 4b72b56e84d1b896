---------------------------- MODULE StationAdmin ----------------------------
(***************************************************************************)
(* The stations of SocketDaim: a sender whose station is not known gets a  *)
(* station request, administrators approve, reject and restore requests    *)
(* and edit stations, and the Ingestion Gateway looks stations up by name  *)
(* to store readings under their id.                                       *)
(*                                                                         *)
(* Abstractions: a station is its name and whether it is inactive; a       *)
(* request is its status.  The station_id is the primary key, and nothing  *)
(* makes the station_name unique.  A handler is cut where it awaits the    *)
(* database, a transaction takes effect when it commits.  Rows of readings *)
(* stay: the Cleaner takes them much later.                                *)
(***************************************************************************)
EXTENDS Integers

CONSTANTS
    Name,      \* station names on the wire
    Sample,    \* names of SAMPLE_STATIONS
    Station,   \* station ids
    Free,      \* the name of an id that is not generated yet
    Gone,      \* the name of an id whose station was deleted
    Admin,     \* HTTP requests of administrators that may be in flight
    Sender,    \* connections of the gateway
    None,
    MaxEdits,  \* bound: changes of stations by hand
    MaxFaults  \* bound: failures and crashes

ASSUME AdminAssumption ==
    /\ Sample \subseteq Name /\ Free \notin Name /\ Gone \notin Name /\ Free # Gone
    /\ None \notin Station /\ None \notin Name
    /\ MaxEdits \in Nat /\ MaxFaults \in Nat

VARIABLES
    name,      \* station_name of the row of an id
    inactive,  \* ids whose status is inactive
    request,   \* status of the row of a name in station_request
    call,      \* what a request of an administrator has read and will commit
    handler,   \* what the handler of a reading has looked up
    rows,      \* readings: the name they were sent with and the id they are under
    edited,    \* history: names an administrator has edited stations of by hand
    crossed,   \* history: names whose approvals overlapped or were taken back
    edits, faults

gateway == <<handler, rows>>
vars    == <<name, inactive, request, call, handler, rows, edited, crossed, edits, faults>>

Idle == [op |-> "none", names |-> {}]
Call == [op : {"none", "approve", "seed"}, names : SUBSET Name]
Rest == [name |-> None, station |-> None]

TypeOK ==
    /\ name \in [Station -> Name \cup {Free, Gone}]
    /\ inactive \subseteq Station
    /\ request \in [Name -> {"none", "pending", "approved", "rejected"}]
    /\ call \in [Admin -> Call]
    /\ handler \in [Sender -> [name : Name \cup {None}, station : Station \cup {None}]]
    /\ rows \subseteq Name \X Station
    /\ edited \subseteq Name /\ crossed \subseteq Name
    /\ edits \in 0..MaxEdits /\ faults \in 0..MaxFaults

Init ==
    /\ name = [s \in Station |-> Free] /\ inactive = {}
    /\ request = [n \in Name |-> "none"]
    /\ call = [a \in Admin |-> Idle] /\ handler = [g \in Sender |-> Rest]
    /\ rows = {} /\ edited = {} /\ crossed = {} /\ edits = 0 /\ faults = 0

Exists(s) == name[s] \in Name
Named(n)  == {s \in Station : name[s] = n}
Fault     == faults < MaxFaults /\ faults' = faults + 1

-----------------------------------------------------------------------------
(* The Ingestion Gateway *)

\* lookup_by_name: any active row of the name, or none.
Lookup(g, n) ==
    /\ handler[g] = Rest
    /\ \E s \in Station \cup {None} :
          /\ IF Named(n) \ inactive = {} THEN s = None ELSE s \in Named(n) \ inactive
          /\ handler' = [handler EXCEPT ![g] = [name |-> n, station |-> s]]
    /\ UNCHANGED <<name, inactive, request, call, rows, edited, crossed, edits, faults>>

Done(g) == handler' = [handler EXCEPT ![g] = Rest]

\* upsert: a first request is pending, a later one keeps its status.
Upsert(g) ==
    /\ handler[g].name # None /\ handler[g].station = None /\ Done(g)
    /\ request' = [request EXCEPT ![handler[g].name] = IF @ = "none" THEN "pending" ELSE @]
    /\ UNCHANGED <<name, inactive, call, rows, edited, crossed, edits, faults>>

\* The reading is inserted under the id, if that still exists.
Store(g) ==
    /\ handler[g].station # None /\ Exists(handler[g].station) /\ Done(g)
    /\ rows' = rows \cup {<<handler[g].name, handler[g].station>>}
    /\ UNCHANGED <<name, inactive, request, call, edited, crossed, edits, faults>>

\* A foreign key that is gone ends the connection.
StoreRefused(g) ==
    /\ handler[g].station # None /\ ~Exists(handler[g].station) /\ Done(g)
    /\ UNCHANGED <<name, inactive, request, call, rows, edited, crossed, edits, faults>>

\* The database fails or the gateway stops: nothing is stored.
HandlerFails(g) ==
    /\ handler[g] # Rest /\ Fault /\ Done(g)
    /\ UNCHANGED <<name, inactive, request, call, rows, edited, crossed, edits>>

-----------------------------------------------------------------------------
(* Station requests *)

\* Mutant: the status of the request is not looked at.
ApproveReadsAny(a, n) ==
    /\ call[a] = Idle /\ request[n] # "none"
    /\ call' = [call EXCEPT ![a] = [op |-> "approve", names |-> {n}]]
    /\ crossed' = IF \E b \in Admin : n \in call[b].names THEN crossed \cup {n} ELSE crossed
    /\ UNCHANGED <<name, inactive, request, gateway, edited, edits, faults>>

\* approve_request gets the request: 404 without one, 409 if it is approved.
ApproveReads(a, n) ==
    /\ call[a] = Idle /\ request[n] \in {"pending", "rejected"}
    /\ call' = [call EXCEPT ![a] = [op |-> "approve", names |-> {n}]]
    /\ crossed' = IF \E b \in Admin : n \in call[b].names THEN crossed \cup {n} ELSE crossed
    /\ UNCHANGED <<name, inactive, request, gateway, edited, edits, faults>>

\* The rows of these names get ids that gen_random_uuid has not given out.
Insert(names) ==
    \E id \in [names -> Station] :
        /\ \A n \in names : name[id[n]] = Free
        /\ \A m, n \in names : id[m] = id[n] => m = n
        /\ name' = [s \in Station |->
                      IF \E n \in names : id[n] = s THEN CHOOSE n \in names : id[n] = s
                                                    ELSE name[s]]

\* Mutant: the transaction may end between its two statements.
CommitHalf(a) ==
    /\ \/ Insert(call[a].names)
       \/ UNCHANGED name
    /\ request' = [n \in Name |-> IF n \in call[a].names THEN "approved" ELSE request[n]]

\* The transaction of approve: a station, and the status.
Commit(a) ==
    /\ Insert(call[a].names)
    /\ request' = [n \in Name |-> IF n \in call[a].names THEN "approved" ELSE request[n]]

ApproveCommits(a) ==
    /\ call[a].op = "approve" /\ Commit(a)
    /\ call' = [call EXCEPT ![a] = Idle]
    /\ UNCHANGED <<inactive, gateway, edited, crossed, edits, faults>>

\* The database fails: the transaction is rolled back, or only its answer lost.
ApproveFails(a) ==
    /\ call[a].op = "approve" /\ Fault
    /\ call' = [call EXCEPT ![a] = Idle]
    /\ Commit(a) \/ UNCHANGED <<name, request>>
    /\ UNCHANGED <<inactive, gateway, edited, crossed, edits>>

\* Whatever its status was, approved included.
Reject(n) ==
    /\ request[n] # "none" /\ request' = [request EXCEPT ![n] = "rejected"]
    /\ crossed' = IF request[n] = "approved" THEN crossed \cup {n} ELSE crossed
    /\ UNCHANGED <<name, inactive, call, gateway, edited, edits, faults>>

Restore(n) ==
    /\ request[n] = "rejected" /\ request' = [request EXCEPT ![n] = "pending"]
    /\ UNCHANGED <<name, inactive, call, gateway, edited, crossed, edits, faults>>

-----------------------------------------------------------------------------
(* Stations by hand *)

Edit(names) ==
    /\ edits < MaxEdits /\ edits' = edits + 1 /\ edited' = edited \cup (names \cap Name)

CreateStation(n) ==
    /\ Edit({n}) /\ Insert({n})
    /\ inactive' \in {inactive, inactive \cup {s \in Station : name'[s] # name[s]}}
    /\ UNCHANGED <<request, call, gateway, crossed, faults>>

\* A column that is not in the body keeps its value.
PatchStation(s, n, off) ==
    /\ Exists(s) /\ Edit({name[s], n})
    /\ name' = [name EXCEPT ![s] = n]
    /\ inactive' = IF off THEN inactive \cup {s} ELSE inactive \ {s}
    /\ UNCHANGED <<request, call, gateway, crossed, faults>>

\* Mutant: the rows of a station do not keep it from being deleted.
DeleteWithRows(s) ==
    /\ Exists(s)
    /\ Edit({name[s]}) /\ name' = [name EXCEPT ![s] = Gone]
    /\ inactive' = inactive \ {s}
    /\ UNCHANGED <<request, call, gateway, crossed, faults>>

\* 409 while rows refer to it.
DeleteStation(s) ==
    /\ Exists(s) /\ (\A n \in Name : <<n, s>> \notin rows)
    /\ Edit({name[s]}) /\ name' = [name EXCEPT ![s] = Gone]
    /\ inactive' = inactive \ {s}
    /\ UNCHANGED <<request, call, gateway, crossed, faults>>

\* seed_samples inserts the stations it does not see, and commits at the end.
SeedReads(a) ==
    /\ call[a] = Idle /\ Edit(Sample)
    /\ call' = [call EXCEPT ![a] = [op |-> "seed", names |-> {n \in Sample : Named(n) = {}}]]
    /\ UNCHANGED <<name, inactive, request, gateway, crossed, faults>>

SeedCommits(a) ==
    /\ call[a].op = "seed" /\ Insert(call[a].names)
    /\ call' = [call EXCEPT ![a] = Idle]
    /\ UNCHANGED <<inactive, request, gateway, edited, crossed, edits, faults>>

SeedFails(a) ==
    /\ call[a].op = "seed" /\ Fault
    /\ call' = [call EXCEPT ![a] = Idle]
    /\ UNCHANGED <<name, inactive, request, gateway, edited, crossed, edits>>

-----------------------------------------------------------------------------
GatewayNext ==
    \E g \in Sender :
        \/ Upsert(g) \/ Store(g) \/ StoreRefused(g) \/ HandlerFails(g)
        \/ \E n \in Name : Lookup(g, n)

RequestNext ==
    \/ \E n \in Name : Reject(n) \/ Restore(n) \/ \E a \in Admin : ApproveReads(a, n)
    \/ \E a \in Admin : ApproveCommits(a) \/ ApproveFails(a)

StationNext ==
    \/ \E n \in Name : CreateStation(n)
    \/ \E s \in Station : DeleteStation(s)
    \/ \E s \in Station, n \in Name, off \in BOOLEAN : PatchStation(s, n, off)
    \/ \E a \in Admin : SeedReads(a) \/ SeedCommits(a) \/ SeedFails(a)

Next == GatewayNext \/ RequestNext \/ StationNext

Spec == Init /\ [][Next]_vars

-----------------------------------------------------------------------------
\* Nothing makes a station_name unique, and still two stations share one only
\* if an administrator edited stations of that name by hand, or approvals of
\* it overlapped, or one of them was taken back by a rejection: the 409 of
\* approve_request, the transaction and the ON CONFLICT of the gateway see to
\* that, in whatever order they come and whatever fails.
TwinsExplained ==
    \A s, t \in Station :
        Exists(s) /\ name[s] = name[t] => s = t \/ name[s] \in edited \cup crossed

\* An approved name has its station (init_db.sql promises that), unless its
\* stations were edited by hand: no failure of approve and no reading that
\* arrives meanwhile leaves a request approved and the sender unknown.
ApprovedHasStation ==
    \A n \in Name : request[n] = "approved" => Named(n) # {} \/ n \in edited

\* The readings of a name are together under one station unless the name was
\* edited or approved twice, and no station under which there are readings is
\* ever deleted, also when the deletion comes between the lookup of a handler
\* and its INSERT.
ReadingsTogether ==
    \A r, q \in rows :
        /\ Exists(r[2])
        /\ r[1] = q[1] => r[2] = q[2] \/ r[1] \in edited \cup crossed

\* The docstring of approve: a name that is already taken, by a concurrent
\* approval for instance, is refused.
TakenNameRefused ==
    [][\A a \in Admin : ApproveCommits(a) => \A n \in call[a].names : Named(n) = {}]_vars
=============================================================================
