------------------------- MODULE StationAdmin_proofs ------------------------
(* Proofs about StationAdmin: type correctness, and when two stations share *)
(* a name, an approved name has none, or readings of a name are apart.      *)
EXTENDS StationAdmin, TLAPS

Suspect == edited \cup crossed

\* What a request in flight will insert.  A name that was neither edited nor
\* approved twice has no station yet, and nobody else is approving it.
CallsOK ==
    \A a \in Admin :
        /\ call[a].op = "none" => call[a].names = {}
        /\ call[a].op = "seed" => call[a].names \subseteq edited
        /\ call[a].op = "approve" => \E n \in Name : call[a].names = {n}
        /\ \A n \in call[a].names :
              n \notin Suspect =>
                 /\ \A s \in Station : name[s] # n
                 /\ \A b \in Admin : n \in call[b].names => b = a

\* A station whose name nobody edited came from an approval that stands.
StationsApproved ==
    \A s \in Station :
        Exists(s) /\ name[s] \notin Suspect => request[name[s]] = "approved"

\* A handler goes on with the name its station had; who changes it edits it.
HandlersOK ==
    \A g \in Sender :
        handler[g].station # None =>
            /\ handler[g].name \in Name
            /\ handler[g].name \notin edited => name[handler[g].station] = handler[g].name

RowsOK ==
    \A r \in rows : Exists(r[2]) /\ (r[1] \notin edited => name[r[2]] = r[1])

IInv ==
    /\ TypeOK /\ CallsOK /\ StationsApproved /\ HandlersOK /\ RowsOK
    /\ TwinsExplained /\ ApprovedHasStation

USE DEF gateway, Fault

\* The initial state satisfies the invariant.
LEMMA InitIInv == Init => IInv
BY AdminAssumption
   DEF Init, IInv, TypeOK, CallsOK, StationsApproved, HandlersOK, RowsOK, TwinsExplained,
       ApprovedHasStation, Idle, Call, Rest, Exists, Named

\* INSERT gives every name one id that was free, and changes no other row.
LEMMA InsertRows ==
    ASSUME TypeOK, NEW names \in SUBSET Name, Insert(names)
    PROVE  /\ name' \in [Station -> Name \cup {Free, Gone}]
           /\ \A s \in Station : name'[s] = name[s] \/ (name[s] = Free /\ name'[s] \in names)
           /\ \A n \in names : \E s \in Station : name'[s] = n
           /\ \A s, t \in Station :
                 name[s] = Free /\ name[t] = Free /\ name'[s] = name'[t]
                 /\ name'[s] \in names => s = t
<1> PICK id \in [names -> Station] :
        /\ \A n \in names : name[id[n]] = Free
        /\ \A m, n \in names : id[m] = id[n] => m = n
        /\ name' = [s \in Station |->
                      IF \E n \in names : id[n] = s THEN CHOOSE n \in names : id[n] = s
                                                    ELSE name[s]]
    BY DEF Insert
<1> USE DEF TypeOK
<1>1. \A n \in names : name'[id[n]] = n
  <2> SUFFICES ASSUME NEW n \in names PROVE name'[id[n]] = n
      OBVIOUS
  <2>1. name'[id[n]] = CHOOSE k \in names : id[k] = id[n]
        OBVIOUS
  <2>2. (CHOOSE k \in names : id[k] = id[n]) = n
        OBVIOUS
  <2> QED BY <2>1, <2>2
<1>2. \A s \in Station : (\A n \in names : id[n] # s) => name'[s] = name[s]
      OBVIOUS
<1>3. ASSUME NEW s \in Station
      PROVE  name'[s] = name[s] \/ (name[s] = Free /\ name'[s] \in names)
  <2>1. CASE \A n \in names : id[n] # s
        BY <2>1, <1>2
  <2>2. CASE \E n \in names : id[n] = s
    <3>1. PICK n \in names : id[n] = s
          BY <2>2
    <3>2. name[s] = Free /\ name'[s] = n
          BY <3>1, <1>1
    <3> QED BY <3>2
  <2> QED BY <2>1, <2>2
<1>4. \A s \in Station : name[s] = Free /\ name'[s] \in names => s = id[name'[s]]
      BY <1>1, <1>2, AdminAssumption
<1>5. name' \in [Station -> Name \cup {Free, Gone}]
  <2>1. \A s \in Station : name'[s] \in Name \cup {Free, Gone}
        BY <1>3
  <2> QED BY <2>1
<1>6. \A n \in names : id[n] \in Station /\ name'[id[n]] = n
      BY <1>1
<1>7. ASSUME NEW s \in Station, NEW t \in Station, name[s] = Free, name[t] = Free,
             name'[s] = name'[t], name'[s] \in names
      PROVE  s = t
      BY <1>4, <1>7
<1> QED BY <1>3, <1>5, <1>6, <1>7

\* What a request in flight inserts are names.
LEMMA CallNames ==
    ASSUME TypeOK, NEW a \in Admin PROVE call[a] \in Call /\ call[a].names \in SUBSET Name
BY DEF TypeOK, Call

\* The steps of the gateway keep the invariant.
LEMMA GatewayIInv == IInv /\ GatewayNext => IInv'
<1> SUFFICES ASSUME IInv, NEW g \in Sender,
                    \/ Upsert(g) \/ Store(g) \/ StoreRefused(g) \/ HandlerFails(g)
                    \/ \E n \in Name : Lookup(g, n)
             PROVE  IInv'
    BY DEF GatewayNext
<1> USE DEF IInv
<1>1. name' = name /\ call' = call /\ edited' = edited /\ crossed' = crossed
      BY DEF Upsert, Store, StoreRefused, HandlerFails, Lookup, Done
<1>2. CallsOK' /\ TwinsExplained'
      BY <1>1 DEF CallsOK, TwinsExplained, Suspect, Exists
<1>3. CASE Upsert(g)
  <2> USE <1>3 DEF Upsert, Done
  <2>1. TypeOK' BY AdminAssumption DEF TypeOK, Rest
  <2>2. \A k \in Name : request'[k] = "approved" <=> request[k] = "approved"
        BY DEF TypeOK
  <2>3. StationsApproved' /\ ApprovedHasStation'
        BY <2>2 DEF StationsApproved, ApprovedHasStation, Suspect, Exists, Named
  <2>4. HandlersOK' BY DEF HandlersOK, TypeOK, Rest
  <2>5. RowsOK' BY DEF RowsOK, Exists
  <2> QED BY <1>2, <2>1, <2>3, <2>4, <2>5
<1>4. CASE Store(g) \/ StoreRefused(g) \/ HandlerFails(g)
         \/ \E n \in Name : Lookup(g, n)
  <2>1. request' = request
        BY <1>4 DEF Store, StoreRefused, HandlerFails, Lookup, Done
  <2>2. StationsApproved' /\ ApprovedHasStation'
        BY <1>1, <2>1 DEF StationsApproved, ApprovedHasStation, Suspect, Exists, Named
  <2>3. CASE Store(g)
    <3> USE <2>3 DEF Store, Done
    <3>1. handler[g].name \in Name /\ handler[g].station \in Station
          BY DEF HandlersOK, TypeOK
    <3>2. TypeOK' BY <3>1 DEF TypeOK, Rest
    <3>3. HandlersOK' BY DEF HandlersOK, TypeOK, Rest
    <3>4. RowsOK' BY <3>1 DEF RowsOK, HandlersOK, Exists
    <3> QED BY <1>2, <2>2, <3>2, <3>3, <3>4
  <2>4. CASE StoreRefused(g) \/ HandlerFails(g)
    <3> USE <2>4 DEF StoreRefused, HandlerFails, Done
    <3>1. TypeOK' BY AdminAssumption DEF TypeOK, Rest
    <3>2. HandlersOK' BY DEF HandlersOK, TypeOK, Rest
    <3>3. RowsOK' BY DEF RowsOK, Exists
    <3> QED BY <1>2, <2>2, <3>1, <3>2, <3>3
  <2>5. CASE \E n \in Name : Lookup(g, n)
    <3> PICK n \in Name : Lookup(g, n)
        BY <2>5
    <3> USE DEF Lookup
    <3>1. PICK s \in Station \cup {None} :
             /\ IF Named(n) \ inactive = {} THEN s = None ELSE s \in Named(n) \ inactive
             /\ handler' = [handler EXCEPT ![g] = [name |-> n, station |-> s]]
          OBVIOUS
    <3>2. TypeOK' BY <3>1 DEF TypeOK
    <3>3. s # None => s \in Station /\ name[s] = n
          BY <3>1 DEF Named
    <3>4. HandlersOK' BY <3>1, <3>3 DEF HandlersOK, TypeOK
    <3>5. RowsOK' BY DEF RowsOK, Exists
    <3> QED BY <1>2, <2>2, <3>2, <3>4, <3>5
  <2> QED BY <1>4, <2>3, <2>4, <2>5
<1> QED BY <1>3, <1>4

\* Reading, rejecting and restoring a request keep it.
LEMMA RequestIInv ==
    ASSUME IInv, NEW n \in Name,
           Reject(n) \/ Restore(n) \/ (\E a \in Admin : ApproveReads(a, n))
    PROVE  IInv'
<1> USE DEF IInv
<1>1. /\ name' = name /\ inactive' = inactive /\ edited' = edited /\ crossed \subseteq crossed'
      /\ handler' = handler /\ rows' = rows
      BY DEF Reject, Restore, ApproveReads
<1>2. HandlersOK' /\ RowsOK' /\ TwinsExplained'
      BY <1>1 DEF HandlersOK, RowsOK, TwinsExplained, Exists
<1>3. CASE Reject(n) \/ Restore(n)
  <2> USE <1>3 DEF Reject, Restore
  <2>1. TypeOK' BY DEF TypeOK
  <2>2. CallsOK' BY DEF CallsOK, Suspect
  <2>3. StationsApproved' BY DEF StationsApproved, Suspect, Exists, TypeOK
  <2>4. ApprovedHasStation' BY DEF ApprovedHasStation, Named, TypeOK
  <2> QED BY <1>2, <2>1, <2>2, <2>3, <2>4
<1>4. ASSUME NEW a \in Admin, ApproveReads(a, n)
      PROVE  IInv'
  <2> USE <1>4 DEF ApproveReads
  <2>1. TypeOK' BY DEF TypeOK, Call
  <2>2. StationsApproved' /\ ApprovedHasStation'
        BY DEF StationsApproved, ApprovedHasStation, Suspect, Exists, Named
  <2>3. n \notin Suspect => \A s \in Station : name[s] # n
        BY DEF StationsApproved, Exists
  <2>4. \A b \in Admin : call'[b] = IF b = a THEN [op |-> "approve", names |-> {n}] ELSE call[b]
        BY DEF TypeOK
  <2>5. ASSUME NEW b \in Admin
        PROVE  /\ call'[b].op = "none" => call'[b].names = {}
               /\ call'[b].op = "seed" => call'[b].names \subseteq edited'
               /\ call'[b].op = "approve" => \E k \in Name : call'[b].names = {k}
        BY <2>4 DEF CallsOK
  <2>6. ASSUME NEW b \in Admin, NEW k \in call'[b].names, k \notin Suspect'
        PROVE  /\ \A s \in Station : name'[s] # k
               /\ \A c \in Admin : k \in call'[c].names => c = b
    <3>1. k \notin Suspect BY <2>6 DEF Suspect
    <3>2. (\E c \in Admin : n \in call[c].names) => n \in Suspect'
          BY DEF Suspect
    <3>3. CASE b = a BY <2>3, <2>4, <2>6, <3>1, <3>2, <3>3
    <3>4. CASE b # a BY <2>4, <2>6, <3>1, <3>2, <3>4 DEF CallsOK
    <3> QED BY <3>3, <3>4
  <2>7. CallsOK' BY <2>5, <2>6 DEF CallsOK
  <2> QED BY <1>2, <2>1, <2>2, <2>7
<1> QED BY <1>3, <1>4

\* Rows that are only added leave handlers and readings as they were.
LEMMA AddedRows ==
    ASSUME IInv, NEW names \in SUBSET Name, Insert(names),
           edited \subseteq edited', UNCHANGED <<handler, rows>>
    PROVE  HandlersOK' /\ RowsOK'
<1>1. \A s \in Station : Exists(s) => name'[s] = name[s] /\ Exists(s)'
      BY InsertRows, AdminAssumption DEF IInv, Exists
<1>2. RowsOK'
      BY <1>1 DEF IInv, RowsOK, TypeOK
<1>3. HandlersOK'
      BY <1>1 DEF IInv, HandlersOK, TypeOK, Exists
<1> QED BY <1>2, <1>3

\* So does a transaction of approve that commits.
LEMMA CommitIInv ==
    ASSUME IInv, NEW a \in Admin, call[a].op = "approve", Commit(a),
           call' = [call EXCEPT ![a] = Idle],
           UNCHANGED <<inactive, handler, rows, edited, crossed, edits>>,
           faults' \in 0..MaxFaults
    PROVE  IInv'
<1> USE DEF IInv
<1> PICK n \in Name : call[a].names = {n}
    BY DEF CallsOK
<1>1. Insert({n}) /\ request' = [m \in Name |-> IF m = n THEN "approved" ELSE request[m]]
      BY DEF Commit
<1>2. /\ name' \in [Station -> Name \cup {Free, Gone}]
      /\ \A s \in Station : name'[s] = name[s] \/ (name[s] = Free /\ name'[s] = n)
      /\ \E s \in Station : name'[s] = n
      /\ \A s, t \in Station :
            name[s] = Free /\ name[t] = Free /\ name'[s] = n /\ name'[t] = n => s = t
      BY <1>1, InsertRows
<1>3. n \notin Suspect => \A s \in Station : name[s] # n
      BY DEF CallsOK
<1>4. TypeOK'
  <2>1. request' \in [Name -> {"none", "pending", "approved", "rejected"}]
        BY <1>1 DEF TypeOK
  <2>2. call' \in [Admin -> Call]
        BY DEF TypeOK, Idle, Call
  <2> QED BY <1>2, <2>1, <2>2 DEF TypeOK
<1>5. HandlersOK' /\ RowsOK'
      BY <1>1, AddedRows
<1>6. StationsApproved'
      BY <1>1, <1>2 DEF StationsApproved, Suspect, Exists, TypeOK
<1>7. ApprovedHasStation'
  <2> SUFFICES ASSUME NEW m \in Name, request'[m] = "approved", m \notin edited
               PROVE  \E s \in Station : name'[s] = m
      BY DEF ApprovedHasStation, Named
  <2>1. CASE m = n BY <1>2, <2>1
  <2>2. CASE m # n
    <3>1. PICK s \in Station : name[s] = m
          BY <1>1, <2>2 DEF ApprovedHasStation, Named
    <3>2. name'[s] = m BY <1>2, <3>1, AdminAssumption
    <3> QED BY <3>2
  <2> QED BY <2>1, <2>2
<1>8. TwinsExplained'
  <2> SUFFICES ASSUME NEW s \in Station, NEW t \in Station,
                      name'[s] \in Name, name'[s] = name'[t], name'[s] \notin Suspect
               PROVE  s = t
      BY DEF TwinsExplained, Exists, Suspect
  <2>1. CASE name'[s] = n BY <1>2, <1>3, <2>1
  <2>2. CASE name'[s] # n BY <1>2, <2>2 DEF TwinsExplained, Exists, Suspect
  <2> QED BY <2>1, <2>2
<1>9. CallsOK'
  <2>1. \A b \in Admin : call'[b] = IF b = a THEN Idle ELSE call[b]
        BY DEF TypeOK
  <2>2. ASSUME NEW b \in Admin, NEW k \in call'[b].names, k \notin Suspect
        PROVE  /\ \A s \in Station : name'[s] # k
               /\ \A c \in Admin : k \in call'[c].names => c = b
    <3>1. b # a /\ k \in call[b].names
          BY <2>1, <2>2 DEF Idle
    <3>2. k # n
          BY <2>2, <3>1 DEF CallsOK
    <3>3. \A s \in Station : name'[s] # k
          BY <1>2, <2>2, <3>1, <3>2 DEF CallsOK
    <3>4. \A c \in Admin : k \in call'[c].names => c = b
          BY <2>1, <2>2, <3>1 DEF CallsOK, Idle
    <3> QED BY <3>3, <3>4
  <2>3. ASSUME NEW b \in Admin
        PROVE  /\ call'[b].op = "none" => call'[b].names = {}
               /\ call'[b].op = "seed" => call'[b].names \subseteq edited'
               /\ call'[b].op = "approve" => \E k \in Name : call'[b].names = {k}
        BY <2>1 DEF CallsOK, Idle
  <2> QED BY <2>2, <2>3 DEF CallsOK, Suspect
<1> QED BY <1>4, <1>5, <1>6, <1>7, <1>8, <1>9

\* Stations that are added by hand or as samples do, as their names count as
\* edited.
LEMMA EditedRows ==
    ASSUME IInv, NEW names \in SUBSET Name, Insert(names), names \subseteq edited',
           edited \subseteq edited', UNCHANGED <<handler, rows, request, crossed>>
    PROVE  HandlersOK' /\ RowsOK' /\ StationsApproved' /\ ApprovedHasStation' /\ TwinsExplained'
<1>1. \A s \in Station : name'[s] = name[s] \/ (name[s] = Free /\ name'[s] \in names)
      BY InsertRows DEF IInv
<1>2. HandlersOK' /\ RowsOK'
      BY AddedRows
<1>3. StationsApproved'
      BY <1>1 DEF IInv, StationsApproved, Suspect, Exists
<1>4. ApprovedHasStation'
  <2> SUFFICES ASSUME NEW n \in Name, request[n] = "approved", n \notin edited'
               PROVE  \E s \in Station : name'[s] = n
      BY DEF ApprovedHasStation, Named
  <2>1. PICK s \in Station : name[s] = n
        BY DEF IInv, ApprovedHasStation, Named
  <2> QED BY <1>1, <2>1, AdminAssumption
<1>5. TwinsExplained'
      BY <1>1 DEF IInv, TwinsExplained, Exists
<1> QED BY <1>2, <1>3, <1>4, <1>5

\* A name that is edited need not have its station to itself any more.
LEMMA CallsAfter ==
    ASSUME CallsOK, edited \subseteq edited', crossed' = crossed,
           \A n \in Name : n \notin edited' =>
               \A s \in Station : name'[s] = n => name[s] = n,
           \A a \in Admin :
               \/ call'[a] = call[a]
               \/ call'[a].names = {} /\ call'[a].op # "approve"
               \/ call'[a].op = "seed" /\ call'[a].names \subseteq edited',
           \A a \in Admin : call[a].names \in SUBSET Name
    PROVE  CallsOK'
<1>1. ASSUME NEW a \in Admin
      PROVE  /\ call'[a].op = "none" => call'[a].names = {}
             /\ call'[a].op = "seed" => call'[a].names \subseteq edited'
             /\ call'[a].op = "approve" => \E n \in Name : call'[a].names = {n}
  <2>1. CASE call'[a] = call[a]
        BY <2>1 DEF CallsOK
  <2>2. CASE call'[a].names = {} /\ call'[a].op # "approve"
        BY <2>2
  <2>3. CASE call'[a].op = "seed" /\ call'[a].names \subseteq edited'
        BY <2>3
  <2> QED BY <2>1, <2>2, <2>3
<1>2. ASSUME NEW a \in Admin, NEW n \in call'[a].names, n \notin Suspect'
      PROVE  /\ \A s \in Station : name'[s] # n
             /\ \A b \in Admin : n \in call'[b].names => b = a
  <2>1. \A b \in Admin : n \in call'[b].names => call'[b] = call[b]
        BY <1>2 DEF Suspect
  <2>2. n \in call[a].names /\ n \notin Suspect
        BY <1>2, <2>1 DEF Suspect
  <2>3. \A s \in Station : name'[s] # n
        BY <1>2, <2>2 DEF CallsOK, Suspect
  <2>4. \A b \in Admin : n \in call'[b].names => b = a
        BY <2>1, <2>2 DEF CallsOK
  <2> QED BY <2>3, <2>4
<1> QED BY <1>1, <1>2 DEF CallsOK

\* The edits by hand and the samples keep the invariant.
LEMMA StationIInv == IInv /\ StationNext => IInv'
<1> SUFFICES ASSUME IInv, StationNext
             PROVE  IInv'
    OBVIOUS
<1> USE DEF Edit
<1>0. \A a \in Admin : call[a] \in Call /\ call[a].names \in SUBSET Name
      BY CallNames DEF IInv
<1>1. ASSUME NEW n \in Name, CreateStation(n)
      PROVE  IInv'
  <2> USE <1>1 DEF CreateStation
  <2>1. TypeOK'
    <3>1. name' \in [Station -> Name \cup {Free, Gone}]
          BY InsertRows DEF IInv
    <3>2. edits' \in 0..MaxEdits
          BY AdminAssumption DEF IInv, TypeOK
    <3> QED BY <3>1, <3>2 DEF IInv, TypeOK
  <2>2. \A s \in Station : name'[s] = name[s] \/ (name[s] = Free /\ name'[s] \in {n})
        BY InsertRows DEF IInv
  <2>3. CallsOK'
        BY <1>0, <2>2, CallsAfter DEF IInv
  <2> QED BY <2>1, <2>3, EditedRows DEF IInv
<1>2. ASSUME NEW a \in Admin, SeedCommits(a)
      PROVE  IInv'
  <2> USE <1>2 DEF SeedCommits
  <2>1. call[a].names \subseteq edited /\ call[a].names \in SUBSET Name
        BY <1>0 DEF IInv, CallsOK
  <2>2. \A b \in Admin : call'[b] = IF b = a THEN Idle ELSE call[b]
        BY DEF IInv, TypeOK
  <2>3. TypeOK'
    <3>1. name' \in [Station -> Name \cup {Free, Gone}]
          BY <2>1, InsertRows DEF IInv
    <3>2. call' \in [Admin -> Call]
          BY DEF IInv, TypeOK, Idle, Call
    <3> QED BY <3>1, <3>2 DEF IInv, TypeOK
  <2>4. \A s \in Station :
           name'[s] = name[s] \/ (name[s] = Free /\ name'[s] \in call[a].names)
        BY <2>1, InsertRows DEF IInv
  <2>5. CallsOK'
        BY <1>0, <2>1, <2>2, <2>4, CallsAfter DEF IInv, Idle
  <2> QED BY <2>1, <2>3, <2>5, EditedRows DEF IInv
<1>3. ASSUME NEW s \in Station, Exists(s),
             \/ DeleteStation(s)
             \/ \E n \in Name, off \in BOOLEAN : PatchStation(s, n, off)
      PROVE  IInv'
  <2> PICK v \in Name \cup {Gone} :
         /\ name' = [name EXCEPT ![s] = v] /\ edited' = edited \cup ({name[s], v} \cap Name)
         /\ v = Gone => \A n \in Name : <<n, s>> \notin rows
      BY <1>3, AdminAssumption DEF DeleteStation, PatchStation
  <2>1. UNCHANGED <<request, call, handler, rows, crossed, faults>>
        /\ edits < MaxEdits /\ edits' = edits + 1 /\ inactive' \subseteq inactive \cup {s}
        BY <1>3 DEF DeleteStation, PatchStation
  <2>2. \A t \in Station : name'[t] = IF t = s THEN v ELSE name[t]
        BY DEF IInv, TypeOK
  <2>3. name[s] \in edited' /\ (v \in Name => v \in edited') /\ edited \subseteq edited'
        BY <1>3 DEF Exists
  <2>4. TypeOK'
    <3>1. edits' \in 0..MaxEdits
          BY <2>1, AdminAssumption DEF IInv, TypeOK
    <3> QED BY <2>1, <3>1 DEF IInv, TypeOK
  <2>5. CallsOK'
        BY <1>0, <2>1, <2>2, <2>3, CallsAfter DEF IInv
  <2>6. StationsApproved'
        BY <2>1, <2>2, <2>3, AdminAssumption DEF IInv, StationsApproved, Suspect, Exists
  <2>7. HandlersOK'
        BY <2>1, <2>2, <2>3 DEF IInv, HandlersOK, TypeOK
  <2>8. RowsOK'
    <3> SUFFICES ASSUME NEW r \in rows
                 PROVE  name'[r[2]] \in Name /\ (r[1] \notin edited' => name'[r[2]] = r[1])
        BY <2>1 DEF RowsOK, Exists
    <3>1. r[1] \in Name /\ r[2] \in Station /\ r = <<r[1], r[2]>>
          BY DEF IInv, TypeOK
    <3>2. CASE r[2] = s BY <2>2, <2>3, <3>1, <3>2 DEF IInv, RowsOK
    <3>3. CASE r[2] # s BY <2>2, <2>3, <3>1, <3>3 DEF IInv, RowsOK, Exists
    <3> QED BY <3>2, <3>3
  <2>9. ApprovedHasStation'
    <3> SUFFICES ASSUME NEW n \in Name, request[n] = "approved", n \notin edited'
                 PROVE  \E t \in Station : name'[t] = n
        BY <2>1 DEF ApprovedHasStation, Named
    <3>1. PICK t \in Station : name[t] = n
          BY <2>3 DEF IInv, ApprovedHasStation, Named
    <3> QED BY <2>2, <2>3, <3>1
  <2>10. TwinsExplained'
        BY <2>1, <2>2, <2>3, AdminAssumption DEF IInv, TwinsExplained, Exists
  <2> QED BY <2>4, <2>5, <2>6, <2>7, <2>8, <2>9, <2>10 DEF IInv
<1>4. ASSUME NEW a \in Admin, SeedReads(a) \/ SeedFails(a)
      PROVE  IInv'
  <2> USE <1>4 DEF SeedReads, SeedFails
  <2>1. /\ UNCHANGED <<name, inactive, request, handler, rows, crossed>>
        /\ edited \subseteq edited' /\ edited' \subseteq Name
        BY DEF IInv, TypeOK
  <2>2. \A b \in Admin :
           \/ call'[b] = call[b]
           \/ call'[b].names = {} /\ call'[b].op # "approve"
           \/ call'[b].op = "seed" /\ call'[b].names \subseteq edited'
        BY AdminAssumption DEF IInv, TypeOK, Idle
  <2>3. CallsOK'
        BY <1>0, <2>1, <2>2, CallsAfter DEF IInv
  <2>4. TypeOK'
    <3>1. call' \in [Admin -> Call]
          BY AdminAssumption DEF IInv, TypeOK, Idle, Call
    <3>2. edits' \in 0..MaxEdits /\ faults' \in 0..MaxFaults
          BY AdminAssumption DEF IInv, TypeOK
    <3> QED BY <2>1, <3>1, <3>2 DEF IInv, TypeOK
  <2>5. StationsApproved' /\ ApprovedHasStation' /\ TwinsExplained'
        BY <2>1 DEF IInv, StationsApproved, ApprovedHasStation, TwinsExplained, Suspect,
                    Exists, Named
  <2>6. HandlersOK' /\ RowsOK'
        BY <2>1 DEF IInv, HandlersOK, RowsOK, Exists
  <2> QED BY <2>3, <2>4, <2>5, <2>6 DEF IInv
<1> QED BY <1>1, <1>2, <1>3, <1>4 DEF StationNext, DeleteStation, PatchStation

\* Every step keeps the invariant, and the invariant holds from the start.
THEOREM Inductive == Spec => []IInv
<1>1. IInv /\ [Next]_vars => IInv'
  <2> SUFFICES ASSUME IInv, [Next]_vars PROVE IInv'
      OBVIOUS
  <2>1. CASE GatewayNext BY <2>1, GatewayIInv
  <2>2. CASE StationNext BY <2>2, StationIInv
  <2>3. ASSUME NEW n \in Name, Reject(n) \/ Restore(n) \/ (\E a \in Admin : ApproveReads(a, n))
        PROVE  IInv'
        BY <2>3, RequestIInv
  <2>4. ASSUME NEW a \in Admin, ApproveCommits(a) PROVE IInv'
    <3>1. faults \in 0..MaxFaults BY DEF IInv, TypeOK
    <3> QED BY <2>4, <3>1, CommitIInv DEF ApproveCommits
  <2>5. ASSUME NEW a \in Admin, ApproveFails(a) PROVE IInv'
    <3> USE <2>5 DEF ApproveFails
    <3>1. faults' \in 0..MaxFaults
          BY AdminAssumption DEF IInv, TypeOK
    <3>2. CASE Commit(a)
          BY <3>1, <3>2, CommitIInv
    <3>3. CASE UNCHANGED <<name, request>>
      <4>1. \A b \in Admin : call[b] \in Call /\ call[b].names \in SUBSET Name
            BY CallNames DEF IInv
      <4>2. \A b \in Admin : \/ call'[b] = call[b]
                             \/ call'[b].names = {} /\ call'[b].op # "approve"
            BY DEF IInv, TypeOK, Idle
      <4>3. CallsOK'
            BY <3>3, <4>1, <4>2, CallsAfter DEF IInv
      <4>4. call' \in [Admin -> Call]
            BY DEF IInv, TypeOK, Idle, Call
      <4>5. TypeOK'
            BY <3>1, <3>3, <4>4 DEF IInv, TypeOK
      <4>6. StationsApproved' /\ ApprovedHasStation' /\ TwinsExplained'
            BY <3>3 DEF IInv, StationsApproved, ApprovedHasStation, TwinsExplained,
                        Suspect, Exists, Named
      <4>7. HandlersOK' /\ RowsOK'
            BY <3>3 DEF IInv, HandlersOK, RowsOK, Exists
      <4> QED BY <4>3, <4>5, <4>6, <4>7 DEF IInv
    <3> QED BY <3>2, <3>3
  <2>6. CASE UNCHANGED vars
        BY <2>6 DEF vars, IInv, TypeOK, CallsOK, StationsApproved, HandlersOK, RowsOK,
                    TwinsExplained, ApprovedHasStation, Suspect, Exists, Named
  <2> QED BY <2>1, <2>2, <2>3, <2>4, <2>5, <2>6 DEF Next, RequestNext
<1> QED BY InitIInv, <1>1, PTL DEF Spec

\* Every reachable state is well typed.
THEOREM TypeCorrect == Spec => []TypeOK
<1>1. IInv => TypeOK BY DEF IInv
<1> QED BY Inductive, <1>1, PTL

\* Two stations share a name only after an edit by hand, overlapping approvals,
\* or the rejection of an approved request.
THEOREM TwinsNeedACause == Spec => []TwinsExplained
<1>1. IInv => TwinsExplained BY DEF IInv
<1> QED BY Inductive, <1>1, PTL

\* An approved name has a station, unless its stations were edited by hand.
THEOREM ApprovalIsAtomic == Spec => []ApprovedHasStation
<1>1. IInv => ApprovedHasStation BY DEF IInv
<1> QED BY Inductive, <1>1, PTL

\* Readings stay with a station that exists, those of a name with one.
THEOREM ReadingsStay == Spec => []ReadingsTogether
<1>1. IInv => ReadingsTogether
  <2> SUFFICES ASSUME IInv, NEW r \in rows, NEW q \in rows
               PROVE  /\ Exists(r[2])
                      /\ r[1] = q[1] => r[2] = q[2] \/ r[1] \in edited \cup crossed
      BY DEF ReadingsTogether
  <2>1. r[1] \in Name /\ r[2] \in Station /\ q[2] \in Station
        BY DEF IInv, TypeOK
  <2> QED BY <2>1 DEF IInv, RowsOK, TwinsExplained
<1> QED BY Inductive, <1>1, PTL
=============================================================================
