---------------------------- MODULE Dumopro_proofs ----------------------------
(***************************************************************************)
(* Proofs about the modules of the Dumopro poller and API.                 *)
(*                                                                         *)
(* StationTask: the types, and what a frozen candle holds and a hidden one *)
(* waits for, however often ticks fail and tasks restart.                  *)
(*                                                                         *)
(* Broadcaster: the types, that a topic has a pump exactly as long as it   *)
(* has queues, and that what a pump feeds arrives in order.                *)
(*                                                                         *)
(* StationSync: the types, no task while a conflict waits, and no task     *)
(* that goes on with other candles unless somebody decided so or nobody    *)
(* could be asked.                                                         *)
(***************************************************************************)
EXTENDS StationTask, Broadcaster, StationSync, FiniteSetTheorems, TLAPS

-----------------------------------------------------------------------------
(* StationTask: the inductive invariant *)

\* KeyOf and InOrder of any sequence of samples.
Key(s, u, i) == BucketOf[u][s[i]]
Ordered(s, u, b) ==
    \A i, j \in 1..Len(s) : i < j =>
        /\ Key(s, u, i) = b => Key(s, u, j) >= b
        /\ Key(s, u, j) = b => Key(s, u, i) <= b

\* What a batch holds; each pair is followed by all pairs of later samples.
Holds(B, i, u) == \E k \in 1..Len(B) : B[k] = <<i, u>>
HoldsOf(B, u) == \E k \in 1..Len(B) : B[k][2] = u
Sorted(B, lo, hi) ==
    \A k \in 1..Len(B) :
        /\ lo < B[k][1] /\ B[k][1] <= hi
        /\ \A j \in (B[k][1] + 1)..hi, u \in Unit :
              \E l \in (k + 1)..Len(B) : B[l] = <<j, u>>

\* A sample is in no other candle than its own.
Own(s, C) == \A u \in Unit, b \in Bucket : \A i \in C[u][b] :
                i \in 1..Len(s) /\ Key(s, u, i) = b

Loop == {"poll", "add", "cursor", "recompute", "freeze"}

\* Where the task keeps what.
ControlOK ==
    /\ pc \notin {"cold", "add", "dead"} => batch = <<>>
    /\ pc = "add" => batch # <<>> /\ Sorted(batch, lastId, upTo)
    /\ pc \in {"down", "cold"} => pending = NoKeys /\ lastKey = NoKeys /\ dirty = {} /\ fails = 0
    /\ pc = "cold" => cursor = 0 /\ upTo > 0
    /\ pc # "freeze" => due = {}
    /\ pc = "freeze" => dirty = {}
    /\ due \subseteq ripe /\ \A u \in ripe : pending[u] # None
    /\ pc \in Loop => lastId <= cursor /\ cursor <= lastId + Limit /\ fails < FailCap
    /\ pc \in {"add", "cursor"} => /\ lastId < upTo /\ cursor <= upTo
                                   /\ upTo <= lastId + Limit
    /\ pc \in {"recompute", "freeze"} => cursor = upTo

\* The samples the task may have looked at, and those it is going to add.
Noted(j) ==
    /\ j \in 1..Len(stamp)
    /\ pc = "poll" => j <= lastId + Limit
    /\ pc \in {"add", "cursor", "cold"} => j <= upTo
    /\ pc \in {"recompute", "freeze"} => j <= cursor
ToAdd(j, u) ==
    \/ pc = "poll" /\ lastId < j /\ Noted(j)
    \/ pc = "add" /\ Holds(batch, j, u)

\* Samples are kept with their own; a live one was seen before the cursor was set.
OwnOK ==
    /\ Own(stamp, raw) /\ Own(stamp, live) /\ Own(stamp, frozen)
    /\ \A u \in Unit, b \in Bucket : <<u, b>> \in torn => frozen[u][b] # {}
SeenOK ==
    \A u \in Unit, b \in Bucket :
        /\ \A i \in raw[u][b] :
              /\ Noted(i)
              /\ pc \in {"down", "dead"} /\ cursor > 0 => i <= cursor + Limit
        /\ \A i \in live[u][b] :
              /\ pc = "cold" => i <= upTo
              /\ pc \in Loop \/ cursor > 0 => i <= cursor

\* What has been added, or need not be, is kept.
Processed(i, u) ==
    \/ i <= cursor
    \/ pc = "cold" /\ i <= upTo /\ ~ HoldsOf(batch, u)
    \/ pc \in {"add", "cursor"} /\ i <= upTo /\ ~ Holds(batch, i, u)
Sound(u, b) == Ordered(stamp, u, b) /\ <<u, b>> \notin torn
Covered ==
    \A u \in Unit : \A i \in 1..Len(stamp) :
        Processed(i, u) /\ Sound(u, Key(stamp, u, i)) =>
            i \in raw[u][Key(stamp, u, i)] \/ i \in frozen[u][Key(stamp, u, i)]

\* A sound frozen candle is whole, is over and has left nothing behind.
Whole ==
    \A u \in Unit, b \in Bucket :
        frozen[u][b] # {} /\ Sound(u, b) =>
            /\ raw[u][b] = {}
            /\ \A i \in 1..Len(stamp) : Key(stamp, u, i) = b => i \in frozen[u][b]
            /\ \E j \in 1..Len(stamp) : Key(stamp, u, j) > b /\ (pc = "cold" => j <= upTo)

\* The last key is that of a sample; a pending bucket is over, or the tick that
\* scheduled it failed and will schedule another one.
KeysOK ==
    /\ pc \in Loop => \A u \in Unit : lastKey[u] # None =>
          \E j \in 1..Len(stamp) : Noted(j) /\ Key(stamp, u, j) = lastKey[u]
    /\ pc \in {"add", "cursor"} => \A u \in Unit :
          ~ Holds(batch, upTo, u) => lastKey[u] = Key(stamp, u, upTo)
PendingOK ==
    pc \in Loop => \A u \in Unit :
        pending[u] # None /\ Ordered(stamp, u, pending[u]) =>
            \/ \E j \in 1..Len(stamp) : Noted(j) /\ Key(stamp, u, j) > pending[u]
            \/ /\ lastKey[u] \notin {None, pending[u]}
               /\ \E j \in 1..Len(stamp) : ToAdd(j, u) /\ Key(stamp, u, j) = pending[u]

\* A bucket with samples is explained, or it is the one samples are added to and
\* its candle is there or will be computed in this tick or when it is repeated.
Explained(u, b) == pending[u] = b \/ <<u, b>> \in lost \/ frozen[u][b] # {}
Open(u, b) == raw[u][b] # {} /\ Ordered(stamp, u, b) /\ ~ Explained(u, b)
Again(u, b) == \E j \in 1..Len(stamp) : ToAdd(j, u) /\ Key(stamp, u, j) = b
LatestOK(u, b) ==
    /\ \A i \in 1..cursor : Key(stamp, u, i) <= b
    /\ pc \in Loop => lastKey[u] = b
    /\ pc \in {"down", "freeze"} => live[u][b] # {}
    /\ pc = "cold" /\ ~ HoldsOf(batch, u) =>
          live[u][b] # {} /\ \A i \in 1..upTo : Key(stamp, u, i) <= b
    /\ pc = "poll" => live[u][b] # {} \/ (fails > 0 /\ Again(u, b))
    /\ pc = "add" => live[u][b] # {} \/ <<u, b>> \in dirty \/ Again(u, b)
    /\ pc \in {"cursor", "recompute"} => live[u][b] # {} \/ <<u, b>> \in dirty
OpenOK == \A u \in Unit, b \in Bucket : Open(u, b) => LatestOK(u, b)

\* A dirty bucket is that of a sample of this tick, which a failed one repeats.
DirtyOK ==
    pc \in Loop => \A u \in Unit, b \in Bucket : <<u, b>> \in dirty =>
        \E j \in 1..Len(stamp) : lastId < j /\ Noted(j) /\ Key(stamp, u, j) = b

IInv ==
    /\ TypeOK /\ ControlOK /\ OwnOK /\ SeenOK /\ Covered /\ Whole
    /\ KeysOK /\ PendingOK /\ OpenOK /\ DirtyOK

-----------------------------------------------------------------------------
(* Lemmas about the operators *)

\* Buckets are numbers, None is not one, and each sample has one of each unit.
LEMMA BucketFacts ==
    /\ Bucket \subseteq Nat /\ None \notin Bucket
    /\ \A u \in Unit, t \in Time : BucketOf[u][t] \in Bucket
    /\ Unit # {} /\ Len(UnitList) \in Nat \ {0}
    /\ \A k \in 1..Len(UnitList) : UnitList[k] \in Unit
    /\ \A u \in Unit : \E k \in 1..Len(UnitList) : UnitList[k] = u
  <1>1. Bucket \subseteq Nat /\ \A u \in Unit, t \in Time : BucketOf[u][t] \in Bucket
    BY TaskAssumption DEF TaskAssumption, Bucket
  <1>2. None \notin Bucket
    BY <1>1, TaskAssumption DEF TaskAssumption
  <1>3. /\ Len(UnitList) \in Nat \ {0}
        /\ \A k \in 1..Len(UnitList) : UnitList[k] \in Unit
    BY TaskAssumption DEF TaskAssumption
  <1>4. \A u \in Unit : \E k \in 1..Len(UnitList) : UnitList[k] = u
    BY TaskAssumption DEF TaskAssumption, Unit, ToSet
  <1> QED BY <1>1, <1>2, <1>3, <1>4


\* Of samples that are in order.
LEMMA OrderedBy ==
    ASSUME NEW s, NEW u \in Unit, NEW b \in Bucket, Ordered(s, u, b),
           NEW i \in 1..Len(s), NEW j \in 1..Len(s), i < j
    PROVE  /\ Key(s, u, i) = b => Key(s, u, j) >= b
           /\ Key(s, u, j) = b => Key(s, u, i) <= b
  BY DEF Ordered

\* One more sample changes no other, and fewer are in order if more are.
LEMMA Appended ==
    ASSUME NEW s \in Seq(Time), NEW t \in Time
    PROVE  LET r == Append(s, t)
           IN  /\ Len(r) = Len(s) + 1
               /\ \A u \in Unit : \A i \in 1..Len(s) : Key(r, u, i) = Key(s, u, i)
               /\ \A u \in Unit, b \in Bucket : Ordered(r, u, b) => Ordered(s, u, b)
               /\ \A C : Own(s, C) => Own(r, C)
  <1> DEFINE r == Append(s, t)
  <1>1. Len(r) = Len(s) + 1 /\ \A i \in 1..Len(s) : r[i] = s[i] /\ i \in 1..Len(r)
    OBVIOUS
  <1>2. \A u \in Unit : \A i \in 1..Len(s) : Key(r, u, i) = Key(s, u, i)
    BY <1>1 DEF Key
  <1> HIDE DEF r
  <1>3. ASSUME NEW u \in Unit, NEW b \in Bucket, Ordered(r, u, b)
        PROVE  Ordered(s, u, b)
    <2>1. ASSUME NEW i \in 1..Len(s), NEW j \in 1..Len(s), i < j
          PROVE  /\ Key(s, u, i) = b => Key(s, u, j) >= b
                 /\ Key(s, u, j) = b => Key(s, u, i) <= b
      <3>1. i \in 1..Len(r) /\ j \in 1..Len(r)
        BY <1>1
      <3>2. /\ Key(r, u, i) = b => Key(r, u, j) >= b
            /\ Key(r, u, j) = b => Key(r, u, i) <= b
        BY <1>3, <2>1, <3>1, OrderedBy
      <3> QED BY <1>2, <3>2
    <2> QED BY <2>1 DEF Ordered
  <1>4. \A C : Own(s, C) => Own(r, C)
    BY <1>1, <1>2 DEF Own
  <1> QED BY <1>1, <1>2, <1>3, <1>4 DEF r

\* What of a batch the first pair is and what the rest.
LEMMA Rest ==
    ASSUME NEW B \in Seq((1..MaxSample) \X Unit), B # <<>>
    PROVE  /\ Head(B) \in (1..MaxSample) \X Unit /\ Tail(B) \in Seq((1..MaxSample) \X Unit)
           /\ Head(B) = <<Head(B)[1], Head(B)[2]>>
           /\ \A i, u : Holds(B, i, u) <=> Head(B) = <<i, u>> \/ Holds(Tail(B), i, u)
           /\ \A u : HoldsOf(B, u) <=> Head(B)[2] = u \/ HoldsOf(Tail(B), u)
  <1> DEFINE T == Tail(B)
  <1>1. /\ Len(B) \in Nat \ {0} /\ Len(T) = Len(B) - 1 /\ Head(B) = B[1]
        /\ \A k \in 1..Len(T) : T[k] = B[k + 1]
    OBVIOUS
  <1>2. Head(B) \in (1..MaxSample) \X Unit /\ T \in Seq((1..MaxSample) \X Unit)
    OBVIOUS
  <1>3. \A k \in 1..Len(B) : k = 1 \/ (k - 1 \in 1..Len(T) /\ T[k - 1] = B[k])
    BY <1>1
  <1>4. \A k \in 1..Len(T) : k + 1 \in 1..Len(B) /\ 1 \in 1..Len(B)
    BY <1>1
  <1> HIDE DEF T
  <1>5. ASSUME NEW i, NEW u
        PROVE  Holds(B, i, u) <=> Head(B) = <<i, u>> \/ Holds(T, i, u)
    <2>1. ASSUME NEW k \in 1..Len(B), B[k] = <<i, u>>
          PROVE  B[1] = <<i, u>> \/ \E l \in 1..Len(T) : T[l] = <<i, u>>
      <3>1. CASE k = 1
        BY <2>1, <3>1
      <3>2. CASE k - 1 \in 1..Len(T) /\ T[k - 1] = B[k]
        BY <2>1, <3>2
      <3> QED BY <1>3, <3>1, <3>2
    <2>2. ASSUME NEW l \in 1..Len(T), T[l] = <<i, u>>
          PROVE  \E k \in 1..Len(B) : B[k] = <<i, u>>
      <3>1. l + 1 \in 1..Len(B) /\ B[l + 1] = <<i, u>>
        BY <1>1, <1>4, <2>2
      <3> QED BY <3>1
    <2>3. B[1] = <<i, u>> => \E k \in 1..Len(B) : B[k] = <<i, u>>
      BY <1>1
    <2> QED BY <1>1, <2>1, <2>2, <2>3 DEF Holds
  <1>6. ASSUME NEW u
        PROVE  HoldsOf(B, u) <=> Head(B)[2] = u \/ HoldsOf(T, u)
    <2>1. ASSUME NEW k \in 1..Len(B), B[k][2] = u
          PROVE  B[1][2] = u \/ \E l \in 1..Len(T) : T[l][2] = u
      <3>1. CASE k = 1
        BY <2>1, <3>1
      <3>2. CASE k - 1 \in 1..Len(T) /\ T[k - 1] = B[k]
        BY <2>1, <3>2
      <3> QED BY <1>3, <3>1, <3>2
    <2>2. ASSUME NEW l \in 1..Len(T), T[l][2] = u
          PROVE  \E k \in 1..Len(B) : B[k][2] = u
      <3>1. l + 1 \in 1..Len(B) /\ B[l + 1][2] = u
        BY <1>1, <1>4, <2>2
      <3> QED BY <3>1
    <2>3. B[1][2] = u => \E k \in 1..Len(B) : B[k][2] = u
      BY <1>1
    <2> QED BY <1>1, <2>1, <2>2, <2>3 DEF HoldsOf
  <1>7. Head(B) = <<Head(B)[1], Head(B)[2]>>
    BY <1>2
  <1> QED BY <1>2, <1>5, <1>6, <1>7 DEF T

LEMMA NoneHeld == \A i, u : ~ Holds(<<>>, i, u) /\ ~ HoldsOf(<<>>, u)
  BY DEF Holds, HoldsOf

\* A sorted batch.
LEMMA SortedRest ==
    ASSUME NEW B \in Seq((1..MaxSample) \X Unit), B # <<>>,
           NEW lo \in Nat, NEW hi \in Nat, Sorted(B, lo, hi)
    PROVE  /\ Sorted(Tail(B), lo, hi) /\ lo < Head(B)[1] /\ Head(B)[1] <= hi
           /\ \A j \in (Head(B)[1] + 1)..hi, u \in Unit : Holds(Tail(B), j, u)
  <1> DEFINE T == Tail(B)
  <1>1. /\ Len(B) \in Nat \ {0} /\ Len(T) = Len(B) - 1 /\ Head(B) = B[1]
        /\ \A k \in 1..Len(T) : T[k] = B[k + 1] /\ k + 1 \in 1..Len(B)
        /\ \A k \in 2..Len(B) : k - 1 \in 1..Len(T) /\ T[k - 1] = B[k]
        /\ 1 \in 1..Len(B)
    OBVIOUS
  <1> HIDE DEF T
  <1>2. lo < B[1][1] /\ B[1][1] <= hi
    BY <1>1 DEF Sorted
  <1>3. ASSUME NEW j \in (B[1][1] + 1)..hi, NEW u \in Unit
        PROVE  Holds(T, j, u)
    <2>1. PICK l \in (1 + 1)..Len(B) : B[l] = <<j, u>>
      BY <1>1 DEF Sorted
    <2>2. l \in 2..Len(B)
      BY <2>1, <1>1
    <2>3. l - 1 \in 1..Len(T) /\ T[l - 1] = <<j, u>>
      BY <1>1, <2>1, <2>2
    <2> QED BY <2>3 DEF Holds
  <1>4. ASSUME NEW k \in 1..Len(T)
        PROVE  /\ lo < T[k][1] /\ T[k][1] <= hi
               /\ \A j \in (T[k][1] + 1)..hi, u \in Unit :
                     \E l \in (k + 1)..Len(T) : T[l] = <<j, u>>
    <2>1. k + 1 \in 1..Len(B) /\ T[k] = B[k + 1]
      BY <1>1
    <2>2. ASSUME NEW j \in (B[k + 1][1] + 1)..hi, NEW u \in Unit
          PROVE  \E l \in (k + 1)..Len(T) : T[l] = <<j, u>>
      <3>1. PICK l \in ((k + 1) + 1)..Len(B) : B[l] = <<j, u>>
        BY <2>1 DEF Sorted
      <3>2. l \in 2..Len(B) /\ l - 1 \in (k + 1)..Len(T)
        BY <1>1, <3>1
      <3>3. T[l - 1] = <<j, u>>
        BY <1>1, <3>1, <3>2
      <3> QED BY <3>2, <3>3
    <2>3. lo < B[k + 1][1] /\ B[k + 1][1] <= hi
      BY <2>1 DEF Sorted
    <2> QED BY <2>1, <2>2, <2>3
  <1>5. Sorted(T, lo, hi)
    BY <1>4 DEF Sorted
  <1> QED BY <1>1, <1>2, <1>3, <1>5 DEF T

LEMMA SortedHolds ==
    ASSUME NEW B, NEW lo, NEW hi, Sorted(B, lo, hi), NEW i, NEW u, Holds(B, i, u)
    PROVE  lo < i /\ i <= hi
  <1>1. PICK k \in 1..Len(B) : B[k] = <<i, u>>
    BY DEF Holds
  <1>2. B[k][1] = i
    BY <1>1
  <1> QED BY <1>2 DEF Sorted

\* Quotient and remainder of a number below n * m.
LEMMA DivMod ==
    ASSUME NEW m \in Nat \ {0}, NEW n \in Nat, NEW k \in 1..(n * m)
    PROVE  /\ (k - 1) \div m \in 0..(n - 1) /\ (k - 1) % m \in 0..(m - 1)
           /\ k - 1 = m * ((k - 1) \div m) + ((k - 1) % m)
  OBVIOUS

LEMMA DivModIs ==
    ASSUME NEW m \in Nat \ {0}, NEW q \in Nat, NEW c \in 0..(m - 1)
    PROVE  (q * m + c) \div m = q /\ (q * m + c) % m = c
  OBVIOUS

\* The pairs of a fetch: those of the samples after lo up to hi.
Pairs(lo, hi) ==
    [k \in 1..((hi - lo) * Len(UnitList)) |->
        <<lo + 1 + ((k - 1) \div Len(UnitList)), UnitList[1 + ((k - 1) % Len(UnitList))]>>]

LEMMA PairsOf ==
    ASSUME NEW lo \in Nat, NEW hi \in Nat, lo <= hi, hi <= MaxSample
    PROVE  /\ Pairs(lo, hi) \in Seq((1..MaxSample) \X Unit)
           /\ Pairs(lo, hi) = <<>> <=> lo = hi
           /\ Sorted(Pairs(lo, hi), lo, hi)
           /\ \A j \in (lo + 1)..hi, u \in Unit : Holds(Pairs(lo, hi), j, u)
  <1> DEFINE m == Len(UnitList)
             n == hi - lo
             L == n * m
             P == Pairs(lo, hi)
  <1>0. MaxSample \in Nat
    BY TaskAssumption DEF TaskAssumption
  <1>1. m \in Nat \ {0} /\ n \in Nat /\ L \in Nat /\ (L = 0 <=> n = 0)
    BY BucketFacts
  <1> HIDE DEF m, n
  <1>2. P = [k \in 1..L |-> <<lo + 1 + ((k - 1) \div m), UnitList[1 + ((k - 1) % m)]>>]
    BY DEF Pairs, m, n
  <1>p. P = Pairs(lo, hi)
    OBVIOUS
  <1> HIDE DEF P, L
  <1>3. ASSUME NEW k \in 1..L
        PROVE  /\ P[k] \in (1..MaxSample) \X Unit /\ lo < P[k][1] /\ P[k][1] <= hi
               /\ P[k][1] = lo + 1 + ((k - 1) \div m)
    <2>1. (k - 1) \div m \in 0..(n - 1) /\ (k - 1) % m \in 0..(m - 1)
      BY <1>1, DivMod DEF L
    <2>2. P[k] = <<lo + 1 + ((k - 1) \div m), UnitList[1 + ((k - 1) % m)]>>
      BY <1>2
    <2>3. UnitList[1 + ((k - 1) % m)] \in Unit
      BY <2>1, <1>1, BucketFacts DEF m
    <2>4. lo + 1 + ((k - 1) \div m) \in 1..MaxSample /\ lo + 1 + ((k - 1) \div m) <= hi
      BY <2>1, <1>0 DEF n
    <2> QED BY <2>1, <2>2, <2>3, <2>4
  <1>4. P \in Seq((1..MaxSample) \X Unit) /\ Len(P) = L
    <2> DEFINE S == (1..MaxSample) \X Unit
    <2>1. \A k \in 1..L : P[k] \in S
      BY <1>3
    <2> HIDE DEF S
    <2>2. P \in [1..L -> S]
      BY <2>1, <1>2
    <2>3. P \in Seq(S) /\ Len(P) = L
      BY <2>2, <1>1
    <2> QED BY <2>3 DEF S
  <1>5. P = <<>> <=> lo = hi
    <2>1. P = <<>> <=> Len(P) = 0
      BY <1>4
    <2> QED BY <2>1, <1>1, <1>4 DEF n
  <1>6. ASSUME NEW j \in (lo + 1)..hi, NEW u \in Unit
        PROVE  \E l \in 1..L : P[l] = <<j, u>> /\ (l - 1) \div m = j - lo - 1
    <2>1. PICK c \in 1..m : UnitList[c] = u
      BY BucketFacts DEF m
    <2> DEFINE q == j - lo - 1
               r == c - 1
               l == q * m + r + 1
    <2>2. q \in 0..(n - 1) /\ q \in Nat /\ r \in 0..(m - 1) /\ m \in Nat \ {0}
      BY <1>1 DEF n
    <2> HIDE DEF q, r
    <2>3. (q * m + r) \div m = q /\ (q * m + r) % m = r
      BY <2>2, DivModIs
    <2>4. q * m \in Nat /\ q * m + m <= n * m
      BY <2>2, <1>1
    <2>5. l \in 1..L /\ l - 1 = q * m + r
      BY <2>2, <2>4, <1>1 DEF L
    <2> HIDE DEF l
    <2>6. P[l] = <<lo + 1 + q, UnitList[1 + r]>>
      BY <2>3, <2>5, <1>2
    <2>7. lo + 1 + q = j /\ 1 + r = c
      BY <2>2 DEF q, r
    <2> QED BY <2>1, <2>3, <2>5, <2>6, <2>7 DEF q
  <1>7. ASSUME NEW k \in 1..L, NEW j \in (P[k][1] + 1)..hi, NEW u \in Unit
        PROVE  \E l \in (k + 1)..L : P[l] = <<j, u>>
    <2>1. lo < P[k][1] /\ P[k][1] = lo + 1 + ((k - 1) \div m) /\ P[k][1] \in Nat
      BY <1>0, <1>3
    <2>i. j \in (lo + 1)..hi
      BY <2>1
    <2>2. PICK l \in 1..L : P[l] = <<j, u>> /\ (l - 1) \div m = j - lo - 1
      BY <2>i, <1>6
    <2> DEFINE a == (k - 1) \div m
               d == (l - 1) \div m
               e == (k - 1) % m
               f == (l - 1) % m
    <2>3. /\ a \in Nat /\ e \in 0..(m - 1) /\ k - 1 = m * a + e
          /\ d \in Nat /\ f \in 0..(m - 1) /\ l - 1 = m * d + f
      BY <1>1, DivMod DEF L
    <2>4. a < d
      BY <2>1, <2>2, <2>3
    <2> HIDE DEF a, d, e, f
    <2>5. m * a + m <= m * d /\ m * a \in Nat /\ m * d \in Nat
      BY <2>3, <2>4, <1>1
    <2>6. k < l
      BY <2>3, <2>5, <1>1
    <2> QED BY <2>2, <2>6, <1>1
  <1>8. Sorted(P, lo, hi)
    BY <1>3, <1>4, <1>7 DEF Sorted
  <1>9. \A j \in (lo + 1)..hi, u \in Unit : Holds(P, j, u)
    BY <1>4, <1>6 DEF Holds
  <1> QED BY <1>4, <1>5, <1>8, <1>9, <1>p

\* The units that a cold start has to do.
LEMMA FirstPairs ==
    LET B == [k \in 1..Len(UnitList) |-> <<1, UnitList[k]>>]
    IN  /\ MaxSample >= 1 => B \in Seq((1..MaxSample) \X Unit)
        /\ B # <<>> /\ \A u \in Unit : HoldsOf(B, u)
  <1> DEFINE B == [k \in 1..Len(UnitList) |-> <<1, UnitList[k]>>]
             S == (1..MaxSample) \X Unit
  <1>1. ASSUME MaxSample >= 1
        PROVE  \A k \in 1..Len(UnitList) : <<1, UnitList[k]>> \in S
    <2>1. 1 \in 1..MaxSample
      BY <1>1, TaskAssumption DEF TaskAssumption
    <2> QED BY <2>1, BucketFacts
  <1> HIDE DEF S
  <1>2. MaxSample >= 1 => B \in Seq(S)
    BY <1>1, BucketFacts
  <1>3. Len(B) = Len(UnitList) /\ B # <<>>
    BY BucketFacts
  <1>4. ASSUME NEW u \in Unit
        PROVE  HoldsOf(B, u)
    <2>1. PICK k \in 1..Len(UnitList) : UnitList[k] = u
      BY BucketFacts
    <2>2. B[k][2] = u
      BY <2>1
    <2> QED BY <1>3, <2>2 DEF HoldsOf
  <1> QED BY <1>2, <1>3, <1>4 DEF S

\* What the types say of numbers.
LEMMA Known ==
    ASSUME TypeOK
    PROVE  /\ stamp \in Seq(Time) /\ Len(stamp) \in Nat /\ Len(stamp) <= MaxSample
           /\ cursor \in 0..Len(stamp) /\ lastId \in 0..Len(stamp) /\ upTo \in 0..Len(stamp)
           /\ Limit \in Nat \ {0} /\ FailCap \in Nat \ {0} /\ MaxSample \in Nat
           /\ Bucket \subseteq Nat /\ None \notin Bucket
           /\ \A u \in Unit : \A i \in 1..Len(stamp) :
                 Key(stamp, u, i) \in Bucket /\ Key(stamp, u, i) \in Nat
  <1>1. stamp \in Seq(Time) /\ Len(stamp) \in Nat /\ \A i \in 1..Len(stamp) : stamp[i] \in Time
    BY DEF TypeOK
  <1>2. \A u \in Unit : \A i \in 1..Len(stamp) :
            Key(stamp, u, i) \in Bucket /\ Key(stamp, u, i) \in Nat
    BY <1>1, BucketFacts DEF Key
  <1> QED BY <1>1, <1>2, BucketFacts, TaskAssumption DEF TypeOK, TaskAssumption

-----------------------------------------------------------------------------
(* Each step preserves the invariant *)

LEMMA RipenStep ==
    ASSUME IInv, NEW u \in Freezable, Ripen(u)
    PROVE  IInv'
  <1> USE DEF IInv, Ripen, redis, tick
  <1>1. TypeOK'
    BY DEF TypeOK
  <1>2. ControlOK'
    BY DEF ControlOK
  <1>3. OwnOK' /\ SeenOK'
    BY DEF OwnOK, SeenOK, Noted
  <1>4. Covered'
    BY DEF Covered, Processed, Sound
  <1>5. Whole'
    BY DEF Whole, Sound
  <1>6. KeysOK'
    BY DEF KeysOK, Noted
  <1>7. PendingOK'
    BY DEF PendingOK, Noted, ToAdd
  <1>8. OpenOK'
    BY DEF OpenOK, Open, LatestOK, Explained, Again, Noted, ToAdd
  <1>9. DirtyOK'
    BY DEF DirtyOK, Noted
  <1> QED BY <1>1, <1>2, <1>3, <1>4, <1>5, <1>6, <1>7, <1>8, <1>9 DEF IInv

LEMMA ArriveStep ==
    ASSUME IInv, NEW t \in Time, Arrive(t)
    PROVE  IInv'
  <1> USE DEF IInv, Arrive, redis, tick, freezer
  <1>0. /\ Len(stamp') = Len(stamp) + 1
        /\ \A u \in Unit : \A i \in 1..Len(stamp) : Key(stamp', u, i) = Key(stamp, u, i)
        /\ \A u \in Unit, b \in Bucket : Ordered(stamp', u, b) => Ordered(stamp, u, b)
        /\ \A C : Own(stamp, C) => Own(stamp', C)
    BY Known, Appended
  <1>1. TypeOK'
    <2>1. stamp' \in Seq(Time) /\ Len(stamp') <= MaxSample
      BY Known, <1>0
    <2>2. late' \in 0..MaxLate
      BY TaskAssumption DEF TypeOK, TaskAssumption
    <2>3. cursor \in 0..Len(stamp') /\ lastId \in 0..Len(stamp') /\ upTo \in 0..Len(stamp')
      BY Known, <1>0
    <2> QED BY <2>1, <2>2, <2>3 DEF TypeOK
  <1>2. ControlOK'
    BY DEF ControlOK
  <1>m. \A i \in 1..Len(stamp) : i \in 1..Len(stamp')
    BY <1>0, Known
  <1>3. OwnOK' /\ SeenOK'
    <2>1. OwnOK'
      BY <1>0 DEF OwnOK
    <2>2. SeenOK'
      BY <1>m DEF SeenOK, Noted
    <2> QED BY <2>1, <2>2
  <1>4. Covered'
    <2> SUFFICES ASSUME NEW u \in Unit, NEW i \in 1..Len(stamp'), Processed(i, u)',
                        Ordered(stamp', u, Key(stamp', u, i)), <<u, Key(stamp', u, i)>> \notin torn
                 PROVE  \/ i \in raw[u][Key(stamp', u, i)]
                        \/ i \in frozen[u][Key(stamp', u, i)]
      BY DEF Covered, Sound
    <2>1. i \in 1..Len(stamp)
      BY <1>0, Known DEF Processed
    <2>2. Key(stamp', u, i) = Key(stamp, u, i) /\ Key(stamp, u, i) \in Bucket
      BY <1>0, <2>1, Known
    <2>3. Processed(i, u) /\ Sound(u, Key(stamp, u, i))
      BY <1>0, <2>2 DEF Processed, Sound
    <2> QED BY <2>1, <2>2, <2>3 DEF Covered
  <1>5. Whole'
    <2> SUFFICES ASSUME NEW u \in Unit, NEW b \in Bucket, frozen[u][b] # {},
                        Ordered(stamp', u, b), <<u, b>> \notin torn
                 PROVE  /\ raw[u][b] = {}
                        /\ \A i \in 1..Len(stamp') : Key(stamp', u, i) = b => i \in frozen[u][b]
                        /\ \E j \in 1..Len(stamp') : Key(stamp', u, j) > b /\ (pc = "cold" => j <= upTo)
      BY DEF Whole, Sound
    <2>1. /\ raw[u][b] = {}
          /\ \A i \in 1..Len(stamp) : Key(stamp, u, i) = b => i \in frozen[u][b]
      BY <1>0 DEF Whole, Sound
    <2>2. PICK j \in 1..Len(stamp) : Key(stamp, u, j) > b /\ (pc = "cold" => j <= upTo)
      BY <1>0 DEF Whole, Sound
    <2>3. j \in 1..Len(stamp') /\ Key(stamp', u, j) > b
      BY <1>0, <1>m, <2>2
    <2>4. ASSUME NEW i \in 1..Len(stamp'), Key(stamp', u, i) = b
          PROVE  i \in 1..Len(stamp)
      <3>1. CASE j < i
        <4>1. Key(stamp', u, j) <= b
          BY <2>3, <2>4, <3>1, OrderedBy
        <4>2. Key(stamp', u, j) \in Nat /\ b \in Nat
          BY <1>0, <2>2, Known
        <4> QED BY <2>3, <4>1, <4>2
      <3>2. CASE ~ j < i
        BY <2>2, <3>2, Known
      <3> QED BY <3>1, <3>2
    <2>5. \A i \in 1..Len(stamp') : Key(stamp', u, i) = b => i \in frozen[u][b]
      BY <1>0, <2>1, <2>4
    <2> QED BY <2>1, <2>2, <2>3, <2>5
  <1>6. KeysOK'
    BY <1>0, Known DEF KeysOK, Noted, ControlOK
  <1>7. PendingOK'
    <2> SUFFICES ASSUME pc \in Loop, NEW u \in Unit, pending[u] # None,
                        Ordered(stamp', u, pending[u])
                 PROVE  \/ \E j \in 1..Len(stamp') : Noted(j)' /\ Key(stamp', u, j) > pending[u]
                        \/ /\ lastKey[u] \notin {None, pending[u]}
                           /\ \E j \in 1..Len(stamp') : ToAdd(j, u)' /\ Key(stamp', u, j) = pending[u]
      BY DEF PendingOK
    <2>1. pending[u] \in Bucket /\ Ordered(stamp, u, pending[u])
      BY <1>0 DEF TypeOK
    <2>2. \A j : Noted(j) => Noted(j)'
      BY <1>m DEF Noted
    <2>3. \A j : ToAdd(j, u) => ToAdd(j, u)'
      BY <2>2 DEF ToAdd
    <2> QED BY <1>0, <1>m, <2>1, <2>2, <2>3 DEF PendingOK
  <1>8. OpenOK'
    <2> SUFFICES ASSUME NEW u \in Unit, NEW b \in Bucket, Open(u, b)'
                 PROVE  LatestOK(u, b)'
      BY DEF OpenOK
    <2>1. LatestOK(u, b)
      BY <1>0 DEF OpenOK, Open, Explained
    <2>2. Again(u, b) => Again(u, b)'
      BY <1>0, <1>m DEF Again, ToAdd, Noted
    <2>3. /\ \A i \in 1..cursor : Key(stamp', u, i) = Key(stamp, u, i)
          /\ \A i \in 1..upTo : Key(stamp', u, i) = Key(stamp, u, i)
      BY <1>0, Known
    <2> QED BY <2>1, <2>2, <2>3 DEF LatestOK
  <1>9. DirtyOK'
    BY <1>0, Known DEF DirtyOK, Noted
  <1> QED BY <1>1, <1>2, <1>3, <1>4, <1>5, <1>6, <1>7, <1>8, <1>9 DEF IInv

LEMMA WarmStartStep ==
    ASSUME IInv, WarmStart
    PROVE  IInv'
  <1> USE DEF IInv, WarmStart, redis, tick, freezer
  <1>0. /\ cursor \in 1..Len(stamp)
        /\ \A u \in Unit : lastKey'[u] = Key(stamp, u, cursor)
        /\ lastKey' \in [Unit -> Bucket]
    BY Known DEF Seed, Key, KeyOf
  <1>1. TypeOK'
    BY <1>0, Known DEF TypeOK
  <1>2. ControlOK'
    BY Known DEF ControlOK
  <1>3. OwnOK' /\ SeenOK'
    BY <1>0, Known DEF OwnOK, SeenOK, Noted
  <1>4. Covered'
    BY DEF Covered, Processed, Sound
  <1>5. Whole'
    BY DEF Whole, Sound
  <1>6. KeysOK'
    BY <1>0, Known DEF KeysOK, Noted
  <1>7. PendingOK'
    BY DEF PendingOK, ControlOK, NoKeys
  <1>8. OpenOK'
    <2> SUFFICES ASSUME NEW u \in Unit, NEW b \in Bucket, Open(u, b)'
                 PROVE  LatestOK(u, b)'
      BY DEF OpenOK
    <2>1. Ordered(stamp, u, b) /\ LatestOK(u, b)
      BY DEF OpenOK, Open, Explained
    <2>2. PICK i \in live[u][b] : i \in 1..Len(stamp) /\ i <= cursor /\ Key(stamp, u, i) = b
      BY <1>0, <2>1 DEF LatestOK, OwnOK, Own, SeenOK
    <2>3. Key(stamp, u, cursor) = b
      BY <1>0, <2>1, <2>2, OrderedBy, Known DEF LatestOK
    <2> QED BY <1>0, <2>1, <2>3 DEF LatestOK, Loop
  <1>9. DirtyOK'
    BY DEF DirtyOK, ControlOK
  <1> QED BY <1>1, <1>2, <1>3, <1>4, <1>5, <1>6, <1>7, <1>8, <1>9 DEF IInv

LEMMA ColdStartStep ==
    ASSUME IInv, ColdStart
    PROVE  IInv'
  <1> USE DEF IInv, ColdStart, redis, freezer
  <1>0. /\ Len(stamp) = 0 <=> stamp = <<>>
        /\ upTo' = Len(stamp) /\ upTo' > 0 <=> stamp # <<>>
    BY Known
  <1>b. /\ batch' \in Seq((1..MaxSample) \X Unit)
        /\ stamp # <<>> => \A u \in Unit : HoldsOf(batch', u)
    <2>1. CASE stamp = <<>>
      BY <2>1
    <2>2. CASE stamp # <<>>
      <3>1. batch' = [k \in 1..Len(UnitList) |-> <<1, UnitList[k]>>] /\ MaxSample >= 1
        BY <1>0, <2>2, Known
      <3> QED BY <3>1, FirstPairs
    <2> QED BY <2>1, <2>2
  <1>1. TypeOK'
    BY <1>0, <1>b, Known DEF TypeOK
  <1>2. ControlOK'
    BY <1>0, Known DEF ControlOK, Loop
  <1>3. OwnOK' /\ SeenOK'
    <2>1. OwnOK'
      BY DEF OwnOK
    <2>2. ASSUME NEW u \in Unit, NEW b \in Bucket, NEW i \in raw[u][b] \cup live[u][b]
          PROVE  i \in 1..Len(stamp)
      BY DEF OwnOK, Own
    <2>3. CASE stamp = <<>>
      <3>1. \A u \in Unit, b \in Bucket : raw[u][b] = {} /\ live[u][b] = {}
        BY <1>0, <2>2, <2>3, Known
      <3> QED BY <2>1, <3>1 DEF SeenOK
    <2>4. CASE stamp # <<>>
      <3>1. \A u \in Unit, b \in Bucket : \A i \in raw[u][b] : Noted(i)'
        BY <1>0, <2>2, <2>4, Known DEF Noted
      <3>2. \A u \in Unit, b \in Bucket : \A i \in live[u][b] : i <= upTo'
        BY <1>0, <2>2, <2>4, Known
      <3>3. pc' = "cold" /\ cursor' = 0 /\ pc' \notin Loop
        BY <2>4 DEF Loop
      <3> QED BY <2>1, <3>1, <3>2, <3>3 DEF SeenOK, Noted
    <2> QED BY <2>1, <2>3, <2>4
  <1>4. Covered'
    BY <1>0, <1>b, Known DEF Covered, Processed, Sound
  <1>5. Whole'
    <2>1. \A j \in 1..Len(stamp) : j <= upTo'
      BY <1>0, Known
    <2> QED BY <2>1 DEF Whole, Sound
  <1>6. KeysOK'
    BY DEF KeysOK, ControlOK, NoKeys
  <1>7. PendingOK'
    BY DEF PendingOK, ControlOK, NoKeys
  <1>8. OpenOK'
    <2> SUFFICES ASSUME NEW u \in Unit, NEW b \in Bucket, Open(u, b)'
                 PROVE  LatestOK(u, b)'
      BY DEF OpenOK
    <2>1. stamp # <<>>
      BY <1>0 DEF OwnOK, Own, Open
    <2> QED BY <1>0, <1>b, <2>1, Known DEF LatestOK, Loop
  <1>9. DirtyOK'
    BY DEF DirtyOK, ControlOK
  <1> QED BY <1>1, <1>2, <1>3, <1>4, <1>5, <1>6, <1>7, <1>8, <1>9 DEF IInv

\* What a backfill of a unit does, of all of its buckets or of some.
LEMMA BackfillOK ==
    ASSUME IInv, pc = "cold", NEW u \in Unit, NEW B, B \subseteq Keys(u, upTo), Backfill(u, B),
           stamp' = stamp, torn' = torn, upTo' = upTo
    PROVE  /\ raw' \in Candles /\ live' \in Candles /\ frozen' \in Candles
           /\ OwnOK' /\ Whole'
           /\ \A v \in Unit, b \in Bucket : v # u =>
                 raw'[v][b] = raw[v][b] /\ live'[v][b] = live[v][b] /\ frozen'[v][b] = frozen[v][b]
           /\ \A v \in Unit, b \in Bucket :
                 /\ \A i \in raw'[v][b] : i \in 1..Len(stamp) /\ i <= upTo
                 /\ \A i \in live'[v][b] : i <= upTo
           /\ B = Keys(u, upTo) =>
                 /\ \A i \in 1..upTo : \/ i \in raw'[u][Key(stamp, u, i)]
                                       \/ i \in frozen'[u][Key(stamp, u, i)]
                 /\ \A b \in Bucket : raw'[u][b] # {} /\ frozen'[u][b] = {} =>
                       live'[u][b] # {} /\ \A i \in 1..upTo : Key(stamp, u, i) <= b
  <1> USE DEF IInv
  <1> DEFINE S(b) == Samples(u, b, upTo)
             Old(b) == b \in B /\ ~ IsLatest(u, b)
             New(b) == b \in B /\ IsLatest(u, b)
  <1>k. /\ \A i \in 1..upTo : i \in 1..Len(stamp) /\ Key(stamp, u, i) \in Bucket
        /\ \A b : S(b) = {i \in 1..upTo : Key(stamp, u, i) = b}
        /\ \A b : b \in Keys(u, upTo) <=> \E i \in 1..upTo : Key(stamp, u, i) = b
    BY Known DEF Samples, Keys, KeyOf, Key
  <1>l. \A b \in Bucket : IsLatest(u, b) <=> \A i \in 1..upTo : Key(stamp, u, i) <= b
    BY DEF IsLatest, Keys, KeyOf, Key
  <1>s. \A b \in Bucket : S(b) \in SUBSET (1..MaxSample)
    BY <1>k, Known
  <1>f. /\ frozen' = [frozen EXCEPT ![u] = [b \in Bucket |-> IF Old(b) THEN S(b) ELSE @[b]]]
        /\ raw' = [raw EXCEPT ![u] = [b \in Bucket |->
              IF Old(b) THEN {} ELSE IF New(b) THEN @[b] \cup S(b) ELSE @[b]]]
        /\ live' = [live EXCEPT ![u] = [b \in Bucket |->
              IF Old(b) THEN {} ELSE IF New(b) THEN S(b) ELSE @[b]]]
    BY DEF Backfill
  <1> HIDE DEF S, Old, New
  <1>t. raw \in Candles /\ live \in Candles /\ frozen \in Candles
    BY DEF TypeOK
  <1>1. raw' \in Candles /\ live' \in Candles /\ frozen' \in Candles
    BY <1>f, <1>s, <1>t DEF Candles
  <1>2. ASSUME NEW v \in Unit, v # u
        PROVE  raw'[v] = raw[v] /\ live'[v] = live[v] /\ frozen'[v] = frozen[v]
    BY <1>f, <1>t, <1>2 DEF Candles
  <1>3. ASSUME NEW b \in Bucket
        PROVE  /\ Old(b) => frozen'[u][b] = S(b) /\ raw'[u][b] = {} /\ live'[u][b] = {}
               /\ New(b) => /\ frozen'[u][b] = frozen[u][b]
                            /\ raw'[u][b] = raw[u][b] \cup S(b) /\ live'[u][b] = S(b)
               /\ ~ Old(b) /\ ~ New(b) =>
                     /\ frozen'[u][b] = frozen[u][b]
                     /\ raw'[u][b] = raw[u][b] /\ live'[u][b] = live[u][b]
    <2>1. /\ frozen'[u] = [c \in Bucket |-> IF Old(c) THEN S(c) ELSE frozen[u][c]]
          /\ raw'[u] = [c \in Bucket |->
                IF Old(c) THEN {} ELSE IF New(c) THEN raw[u][c] \cup S(c) ELSE raw[u][c]]
          /\ live'[u] = [c \in Bucket |->
                IF Old(c) THEN {} ELSE IF New(c) THEN S(c) ELSE live[u][c]]
      BY <1>f, <1>t DEF Candles
    <2>2. ~ (Old(b) /\ New(b))
      BY DEF Old, New
    <2> QED BY <2>1, <2>2
  <1>4. ASSUME NEW b \in Bucket
        PROVE  /\ \A i \in S(b) : i \in 1..upTo /\ i \in 1..Len(stamp) /\ Key(stamp, u, i) = b
               /\ \A i \in 1..upTo : Key(stamp, u, i) = b => i \in S(b)
               /\ Old(b) => S(b) # {} /\ \E j \in 1..upTo : Key(stamp, u, j) > b
               /\ New(b) => S(b) # {} /\ \A j \in 1..upTo : Key(stamp, u, j) <= b
    <2>1. S(b) = {i \in 1..upTo : Key(stamp, u, i) = b}
      BY <1>k
    <2>2. b \in B => S(b) # {}
      <3>1. b \in B => \E i \in 1..upTo : Key(stamp, u, i) = b
        BY <1>k
      <3> QED BY <2>1, <3>1
    <2>3. Old(b) => \E j \in 1..upTo : Key(stamp, u, j) > b
      <3>1. Old(b) => \E j \in 1..upTo : ~ (Key(stamp, u, j) <= b)
        BY <1>l DEF Old
      <3>2. b \in Nat /\ \A j \in 1..upTo : Key(stamp, u, j) \in Nat
        BY <1>k, Known
      <3> QED BY <3>1, <3>2
    <2>4. New(b) => \A j \in 1..upTo : Key(stamp, u, j) <= b
      BY <1>l DEF New
    <2> QED BY <1>k, <2>1, <2>2, <2>3, <2>4 DEF Old, New
  <1>5. OwnOK'
    <2>1. Own(stamp, raw')
      BY <1>2, <1>3, <1>4 DEF OwnOK, Own
    <2>2. Own(stamp, live')
      BY <1>2, <1>3, <1>4 DEF OwnOK, Own
    <2>3. Own(stamp, frozen')
      BY <1>2, <1>3, <1>4 DEF OwnOK, Own
    <2>4. \A v \in Unit, b \in Bucket : <<v, b>> \in torn => frozen'[v][b] # {}
      BY <1>2, <1>3, <1>4 DEF OwnOK
    <2> QED BY <2>1, <2>2, <2>3, <2>4 DEF OwnOK
  <1>6. Whole'
    <2> SUFFICES ASSUME NEW v \in Unit, NEW b \in Bucket, frozen'[v][b] # {}, Sound(v, b)
                 PROVE  /\ raw'[v][b] = {}
                        /\ \A i \in 1..Len(stamp) : Key(stamp, v, i) = b => i \in frozen'[v][b]
                        /\ \E j \in 1..Len(stamp) : Key(stamp, v, j) > b /\ j <= upTo
      BY DEF Whole, Sound
    <2>1. CASE v # u
      BY <1>2, <2>1 DEF Whole
    <2>2. CASE v = u /\ Old(b)
      <3>1. PICK j \in 1..upTo : Key(stamp, u, j) > b
        BY <1>4, <2>2
      <3>2. j \in 1..Len(stamp) /\ j <= upTo
        BY <1>k, Known
      <3>3. ASSUME NEW i \in 1..Len(stamp), Key(stamp, u, i) = b
            PROVE  i \in S(b)
        <4>1. ~ j < i
          BY <3>1, <3>2, <3>3, <2>2, OrderedBy, Known DEF Sound
        <4> QED BY <1>4, <3>2, <3>3, <4>1, Known
      <3> QED BY <1>3, <2>2, <3>1, <3>2, <3>3
    <2>3. CASE v = u /\ ~ Old(b) /\ ~ New(b)
      BY <1>3, <2>3 DEF Whole
    <2>4. CASE v = u /\ New(b)
      <3>1. frozen[u][b] # {} /\ \A j \in 1..upTo : Key(stamp, u, j) <= b
        BY <1>3, <1>4, <2>4
      <3>2. PICK j \in 1..Len(stamp) : Key(stamp, u, j) > b /\ j <= upTo
        BY <2>4, <3>1 DEF Whole
      <3> QED BY <3>1, <3>2, Known
    <2> QED BY <2>1, <2>2, <2>3, <2>4
  <1>7. ASSUME NEW v \in Unit, NEW b \in Bucket
        PROVE  /\ \A i \in raw'[v][b] : i \in 1..Len(stamp) /\ i <= upTo
               /\ \A i \in live'[v][b] : i <= upTo
    <2>1. /\ \A i \in raw[v][b] : i \in 1..Len(stamp) /\ i <= upTo
          /\ \A i \in live[v][b] : i <= upTo
      BY DEF SeenOK, Noted
    <2>2. \A i \in S(b) : i \in 1..Len(stamp) /\ i <= upTo
      BY <1>4, Known
    <2> QED BY <1>2, <1>3, <2>1, <2>2
  <1>8. ASSUME B = Keys(u, upTo), NEW i \in 1..upTo
        PROVE  i \in raw'[u][Key(stamp, u, i)] \/ i \in frozen'[u][Key(stamp, u, i)]
    <2>1. Key(stamp, u, i) \in Bucket /\ Key(stamp, u, i) \in B
      BY <1>8, <1>k
    <2>2. i \in S(Key(stamp, u, i))
      BY <1>4, <2>1
    <2>3. Old(Key(stamp, u, i)) \/ New(Key(stamp, u, i))
      BY <2>1 DEF Old, New
    <2> QED BY <1>3, <2>1, <2>2, <2>3
  <1>9. ASSUME B = Keys(u, upTo), NEW b \in Bucket, raw'[u][b] # {}, frozen'[u][b] = {}
        PROVE  live'[u][b] # {} /\ \A i \in 1..upTo : Key(stamp, u, i) <= b
    <2>1. b \in B
      <3>1. PICK i \in raw'[u][b] : i \in 1..Len(stamp) /\ i <= upTo /\ Key(stamp, u, i) = b
        BY <1>5, <1>7, <1>9 DEF OwnOK, Own
      <3> QED BY <1>9, <1>k, <3>1, Known
    <2>2. New(b)
      BY <1>3, <1>4, <1>9, <2>1 DEF Old, New
    <2> QED BY <1>3, <1>4, <2>2
  <1> QED BY <1>1, <1>2, <1>5, <1>6, <1>7, <1>8, <1>9

LEMMA ColdUnitStep ==
    ASSUME IInv, ColdUnit
    PROVE  IInv'
  <1> USE DEF IInv, ColdUnit, freezer
  <1> DEFINE u == Head(batch)[2]
  <1>0. /\ u \in Unit /\ batch' \in Seq((1..MaxSample) \X Unit)
        /\ \A v : HoldsOf(batch, v) <=> u = v \/ HoldsOf(batch', v)
    BY Rest DEF TypeOK
  <1> HIDE DEF u
  <1>b. /\ raw' \in Candles /\ live' \in Candles /\ frozen' \in Candles
        /\ OwnOK' /\ Whole'
        /\ \A v \in Unit, b \in Bucket : v # u =>
              raw'[v][b] = raw[v][b] /\ live'[v][b] = live[v][b] /\ frozen'[v][b] = frozen[v][b]
        /\ \A v \in Unit, b \in Bucket :
              /\ \A i \in raw'[v][b] : i \in 1..Len(stamp) /\ i <= upTo
              /\ \A i \in live'[v][b] : i <= upTo
        /\ \A i \in 1..upTo : i \in raw'[u][Key(stamp, u, i)] \/ i \in frozen'[u][Key(stamp, u, i)]
        /\ \A b \in Bucket : raw'[u][b] # {} /\ frozen'[u][b] = {} =>
              live'[u][b] # {} /\ \A i \in 1..upTo : Key(stamp, u, i) <= b
    BY <1>0, BackfillOK DEF u
  <1>1. TypeOK'
    BY <1>0, <1>b DEF TypeOK
  <1>2. ControlOK'
    BY DEF ControlOK
  <1>3. OwnOK' /\ SeenOK'
    BY <1>b DEF SeenOK, Noted, ControlOK, Loop
  <1>4. Covered'
    <2> SUFFICES ASSUME NEW v \in Unit, NEW i \in 1..Len(stamp), Processed(i, v)',
                        Sound(v, Key(stamp, v, i))
                 PROVE  i \in raw'[v][Key(stamp, v, i)] \/ i \in frozen'[v][Key(stamp, v, i)]
      BY DEF Covered, Sound
    <2>1. i \in 1..upTo /\ ~ HoldsOf(batch', v)
      BY Known DEF Processed, ControlOK
    <2>2. CASE v = u
      BY <1>b, <2>1, <2>2
    <2>3. CASE v # u
      <3>1. Processed(i, v)
        BY <1>0, <2>1, <2>3, Known DEF Processed
      <3> QED BY <1>b, <2>3, <3>1, Known DEF Covered
    <2> QED BY <2>2, <2>3
  <1>5. Whole'
    BY <1>b
  <1>6. KeysOK'
    BY DEF KeysOK, Loop
  <1>7. PendingOK'
    BY DEF PendingOK, Loop
  <1>8. OpenOK'
    <2> SUFFICES ASSUME NEW v \in Unit, NEW b \in Bucket, Open(v, b)'
                 PROVE  ~ HoldsOf(batch', v) =>
                            live'[v][b] # {} /\ \A i \in 1..upTo : Key(stamp, v, i) <= b
      BY Known DEF OpenOK, LatestOK, ControlOK, Loop
    <2>1. CASE v = u
      BY <1>b, <2>1 DEF Open, Explained
    <2>2. CASE v # u
      <3>1. LatestOK(v, b)
        BY <1>b, <2>2 DEF OpenOK, Open, Explained
      <3> QED BY <1>0, <1>b, <2>2, <3>1 DEF LatestOK
    <2> QED BY <2>1, <2>2
  <1>9. DirtyOK'
    BY DEF DirtyOK, Loop
  <1> QED BY <1>1, <1>2, <1>3, <1>4, <1>5, <1>6, <1>7, <1>8, <1>9 DEF IInv

LEMMA ColdFailsStep ==
    ASSUME IInv, ColdFails
    PROVE  IInv'
  <1> USE DEF IInv, ColdFails, freezer, tick
  <1> DEFINE u == Head(batch)[2]
  <1>0. u \in Unit
    BY Rest DEF TypeOK
  <1>k. PICK k \in Bucket : Backfill(u, {b \in Keys(u, upTo) : b < k})
    OBVIOUS
  <1> HIDE DEF u
  <1>b. /\ raw' \in Candles /\ live' \in Candles /\ frozen' \in Candles
        /\ OwnOK' /\ Whole'
        /\ \A v \in Unit, b \in Bucket :
              /\ \A i \in raw'[v][b] : i \in 1..Len(stamp) /\ i <= upTo
              /\ \A i \in live'[v][b] : i <= upTo
    <2> DEFINE B == {b \in Keys(u, upTo) : b < k}
    <2>1. B \subseteq Keys(u, upTo) /\ Backfill(u, B)
      BY <1>k
    <2> HIDE DEF B
    <2> QED BY <1>0, <2>1, BackfillOK
  <1>1. TypeOK'
    BY <1>b, TaskAssumption DEF TypeOK, Fault, TaskAssumption
  <1>2. ControlOK'
    BY DEF ControlOK, Loop
  <1>3. OwnOK' /\ SeenOK'
    BY <1>b DEF SeenOK, Noted, ControlOK, Loop
  <1>4. Covered'
    BY DEF Covered, Processed, ControlOK
  <1>5. Whole'
    BY <1>b
  <1>6. KeysOK'
    BY DEF KeysOK, Loop
  <1>7. PendingOK'
    BY DEF PendingOK, Loop
  <1>8. OpenOK'
    BY DEF OpenOK, LatestOK, ControlOK, Loop
  <1>9. DirtyOK'
    BY DEF DirtyOK, Loop
  <1> QED BY <1>1, <1>2, <1>3, <1>4, <1>5, <1>6, <1>7, <1>8, <1>9 DEF IInv

LEMMA ColdDoneStep ==
    ASSUME IInv, ColdDone
    PROVE  IInv'
  <1> USE DEF IInv, ColdDone, freezer, tick
  <1>0. /\ upTo \in 1..Len(stamp) /\ batch = <<>> /\ cursor = 0 /\ cursor' \in {0, upTo}
        /\ pc' \in {"poll", "dead"}
        /\ pc' = "poll" => /\ cursor' = upTo /\ lastId' = upTo /\ lastKey' \in [Unit -> Bucket]
                          /\ \A u \in Unit : lastKey'[u] = Key(stamp, u, upTo)
        /\ pc' = "dead" => lastKey' = lastKey /\ lastId' = lastId
    BY Known DEF ControlOK, Seed, KeyOf, Key
  <1>l. \A u \in Unit, b \in Bucket :
           /\ \A i \in raw[u][b] : i \in 1..Len(stamp) /\ i <= upTo
           /\ \A i \in live[u][b] : i <= upTo
    BY DEF SeenOK, Noted
  <1>1. TypeOK'
    BY <1>0, TaskAssumption, Known DEF TypeOK, Fault, TaskAssumption
  <1>2. ControlOK'
    BY <1>0, Known DEF ControlOK, Loop
  <1>3. OwnOK' /\ SeenOK'
    <2>1. OwnOK'
      BY DEF OwnOK
    <2>2. SeenOK'
      BY <1>0, <1>l, Known DEF SeenOK, Noted, Loop
    <2> QED BY <2>1, <2>2
  <1>4. Covered'
    BY <1>0, NoneHeld, Known DEF Covered, Processed, Sound
  <1>5. Whole'
    BY <1>0 DEF Whole, Sound
  <1>6. KeysOK'
    BY <1>0, Known DEF KeysOK, Noted, Loop
  <1>7. PendingOK'
    BY DEF PendingOK, ControlOK, NoKeys
  <1>8. OpenOK'
    <2> SUFFICES ASSUME NEW u \in Unit, NEW b \in Bucket, Open(u, b)'
                 PROVE  LatestOK(u, b)'
      BY DEF OpenOK
    <2>1. /\ Ordered(stamp, u, b) /\ live[u][b] # {}
          /\ \A i \in 1..upTo : Key(stamp, u, i) <= b
      BY <1>0, NoneHeld DEF OpenOK, Open, Explained, LatestOK
    <2>2. PICK i \in live[u][b] : i \in 1..Len(stamp) /\ i <= upTo /\ Key(stamp, u, i) = b
      BY <1>l, <2>1 DEF OwnOK, Own
    <2>3. Key(stamp, u, upTo) = b
      BY <1>0, <2>1, <2>2, OrderedBy, Known
    <2> QED BY <1>0, <2>1, <2>3 DEF LatestOK, Loop
  <1>9. DirtyOK'
    BY DEF DirtyOK, ControlOK
  <1> QED BY <1>1, <1>2, <1>3, <1>4, <1>5, <1>6, <1>7, <1>8, <1>9 DEF IInv

LEMMA FetchStep ==
    ASSUME IInv, Fetch
    PROVE  IInv'
  <1> USE DEF IInv, Fetch, freezer, redis
  <1>h. /\ Limit \in Nat /\ lastId \in Nat /\ lastId <= cursor /\ cursor <= lastId + Limit
        /\ Len(stamp) \in Nat /\ lastId <= Len(stamp) /\ cursor \in 0..Len(stamp)
    BY Known DEF ControlOK, Loop
  <1>u. PICK h \in Nat :
           /\ upTo' = h /\ h \in 0..Len(stamp) /\ lastId <= h /\ h <= lastId + Limit /\ cursor <= h
           /\ \A j \in 1..Len(stamp) : j <= lastId + Limit => j <= h
    <2> DEFINE h == Least(Len(stamp), lastId + Limit)
    <2>1. /\ h \in Nat /\ h \in 0..Len(stamp) /\ lastId <= h /\ h <= lastId + Limit /\ cursor <= h
          /\ \A j \in 1..Len(stamp) : j <= lastId + Limit => j <= h
      BY <1>h DEF Least
    <2>2. upTo' = h
      OBVIOUS
    <2> HIDE DEF h
    <2> QED BY <2>1, <2>2
  <1>0. /\ batch' \in Seq((1..MaxSample) \X Unit) /\ (batch' = <<>> <=> lastId = h)
        /\ Sorted(batch', lastId, h)
        /\ \A j \in (lastId + 1)..h, u \in Unit : Holds(batch', j, u)
    <2>1. batch' = Pairs(lastId, h)
      BY <1>u DEF Pairs
    <2>2. lastId \in Nat /\ h \in Nat /\ h <= MaxSample /\ lastId <= h
      BY <1>u, Known
    <2> HIDE DEF Fetch
    <2> QED BY <2>1, <2>2, PairsOf
  <1>p. /\ pc' \in {"freeze", "add"} /\ (pc' = "freeze" <=> lastId = h)
        /\ upTo' = h /\ (pc' = "freeze" => batch' = <<>>) /\ (pc' = "add" => batch' # <<>>)
    BY <1>0, <1>u
  <1>d. batch' = <<>> => cursor = h /\ dirty = {}
                         /\ \A j \in 1..Len(stamp) : ~ (lastId < j /\ j <= lastId + Limit)
    <2>1. batch' = <<>> => cursor = h
                         /\ \A j \in 1..Len(stamp) : ~ (lastId < j /\ j <= lastId + Limit)
      BY <1>u, <1>0, Known DEF ControlOK, Loop
    <2>2. dirty # {} => \E j \in 1..Len(stamp) : lastId < j /\ j <= lastId + Limit
      BY DEF DirtyOK, Noted, Loop, TypeOK, Pair
    <2> QED BY <2>1, <2>2
  <1>n. \A j \in 1..Len(stamp) : j <= lastId + Limit =>
           /\ pc' = "freeze" => j <= cursor
           /\ pc' = "add" => j <= h
    <2>1. pc' = "freeze" => cursor = h
      BY <1>d, <1>p
    <2> QED BY <1>u, <2>1
  <1>a. \A j \in 1..Len(stamp), u \in Unit : lastId < j /\ j <= lastId + Limit =>
           pc' = "add" /\ Holds(batch', j, u)
    <2> SUFFICES ASSUME NEW j \in 1..Len(stamp), NEW u \in Unit, lastId < j, j <= lastId + Limit
                 PROVE  pc' = "add" /\ Holds(batch', j, u)
      OBVIOUS
    <2>1. j \in (lastId + 1)..h
      BY <1>u, <1>h
    <2>2. pc' = "add"
      BY <1>p, <2>1, <1>h
    <2> QED BY <1>0, <2>1, <2>2
  <1>1. TypeOK'
    BY <1>u, <1>0 DEF TypeOK
  <1>2. ControlOK'
    <2>1. pending' = pending /\ ripe' = ripe /\ due' \subseteq ripe /\ (pc' # "freeze" => due' = {})
      BY <1>p
    <2>2. pc' = "freeze" => dirty = {} /\ cursor = h
      BY <1>d, <1>p
    <2>3. Sorted(batch', lastId, upTo')
      BY <1>0, <1>p
    <2>4. pc' = "add" => lastId < h
      BY <1>0, <1>p, <1>u, <1>h
    <2> QED BY <1>h, <1>u, <1>p, <2>1, <2>2, <2>3, <2>4 DEF ControlOK, Loop
  <1>3. OwnOK' /\ SeenOK'
    BY <1>n, <1>p DEF OwnOK, SeenOK, Noted, Loop
  <1>4. Covered'
    <2> SUFFICES ASSUME NEW u \in Unit, NEW i \in 1..Len(stamp), Processed(i, u)'
                 PROVE  Processed(i, u)
      BY DEF Covered, Sound
    <2>1. i <= cursor
      <3>1. i \in Nat
        BY <1>h
      <3>2. CASE i <= h /\ ~ Holds(batch', i, u)
        <4>1. i \notin (lastId + 1)..h
          BY <1>0, <3>2
        <4> QED BY <1>h, <1>u, <3>1, <3>2, <4>1
      <3>3. CASE ~ (i <= h /\ ~ Holds(batch', i, u))
        BY <1>p, <3>3 DEF Processed
      <3> QED BY <3>2, <3>3
    <2> QED BY <2>1 DEF Processed
  <1>5. Whole'
    BY DEF Whole, Sound
  <1>6. KeysOK'
    <2>1. \A u \in Unit : lastKey[u] # None =>
             \E j \in 1..Len(stamp) : j <= lastId + Limit /\ Key(stamp, u, j) = lastKey[u]
      BY DEF KeysOK, Noted, Loop
    <2>2. pc' = "add" => \A u \in Unit : Holds(batch', h, u)
      <3>1. pc' = "add" => h \in (lastId + 1)..h
        BY <1>p, <1>u, <1>h
      <3> QED BY <3>1, <1>0
    <2> QED BY <1>n, <1>p, <2>1, <2>2 DEF KeysOK, Noted, Loop
  <1>7. PendingOK'
    <2> SUFFICES ASSUME NEW u \in Unit, pending[u] # None, Ordered(stamp, u, pending[u])
                 PROVE  \/ \E j \in 1..Len(stamp) : Noted(j)' /\ Key(stamp, u, j) > pending[u]
                        \/ /\ lastKey[u] \notin {None, pending[u]}
                           /\ \E j \in 1..Len(stamp) : ToAdd(j, u)' /\ Key(stamp, u, j) = pending[u]
      BY DEF PendingOK
    <2>1. \A j : Noted(j) => Noted(j)'
      BY <1>n, <1>p DEF Noted
    <2>2. \A j : ToAdd(j, u) => ToAdd(j, u)'
      BY <1>p, <1>a DEF ToAdd, Noted
    <2> QED BY <2>1, <2>2 DEF PendingOK, Loop
  <1>8. OpenOK'
    <2> SUFFICES ASSUME NEW u \in Unit, NEW b \in Bucket, Open(u, b)'
                 PROVE  LatestOK(u, b)'
      BY DEF OpenOK
    <2>1. LatestOK(u, b)
      BY DEF OpenOK, Open, Explained
    <2>2. Again(u, b) => batch' # <<>> /\ Again(u, b)'
      BY <1>p, <1>a DEF Again, ToAdd, Noted
    <2> QED BY <2>1, <2>2 DEF LatestOK, Loop
  <1>9. DirtyOK'
    BY <1>n, <1>p DEF DirtyOK, Noted, Loop
  <1> QED BY <1>1, <1>2, <1>3, <1>4, <1>5, <1>6, <1>7, <1>8, <1>9 DEF IInv

LEMMA SetCursorStep ==
    ASSUME IInv, SetCursor
    PROVE  IInv'
  <1> USE DEF IInv, SetCursor, freezer, tick
  <1>0. upTo \in 1..Len(stamp) /\ cursor <= upTo /\ batch = <<>> /\ lastId < upTo
    BY Known DEF ControlOK
  <1>1. TypeOK'
    BY <1>0 DEF TypeOK
  <1>2. ControlOK'
    BY <1>0, Known DEF ControlOK, Loop
  <1>3. OwnOK' /\ SeenOK'
    <2>1. OwnOK'
      BY DEF OwnOK
    <2>2. \A u \in Unit, b \in Bucket :
             /\ \A i \in raw[u][b] : i \in 1..Len(stamp) /\ i <= upTo
             /\ \A i \in live[u][b] : i \in 1..Len(stamp) /\ i <= upTo
      BY <1>0, Known DEF OwnOK, Own, SeenOK, Noted, Loop
    <2> QED BY <2>1, <2>2 DEF SeenOK, Noted
  <1>4. Covered'
    BY <1>0, NoneHeld, Known DEF Covered, Processed, Sound
  <1>5. Whole'
    BY DEF Whole, Sound
  <1>6. KeysOK'
    BY DEF KeysOK, Noted, Loop
  <1>7. PendingOK'
    BY DEF PendingOK, Noted, ToAdd, Loop
  <1>8. OpenOK'
    <2> SUFFICES ASSUME NEW u \in Unit, NEW b \in Bucket, Open(u, b)'
                 PROVE  LatestOK(u, b)'
      BY DEF OpenOK
    <2>1. Ordered(stamp, u, b) /\ LatestOK(u, b)
      BY DEF OpenOK, Open, Explained
    <2>2. Key(stamp, u, upTo) = b
      BY <1>0, <2>1, NoneHeld DEF LatestOK, KeysOK, Loop
    <2>3. \A i \in 1..upTo : Key(stamp, u, i) <= b
      BY <1>0, <2>1, <2>2, OrderedBy, Known
    <2> QED BY <2>1, <2>3 DEF LatestOK, Loop
  <1>9. DirtyOK'
    BY DEF DirtyOK, Noted, Loop
  <1> QED BY <1>1, <1>2, <1>3, <1>4, <1>5, <1>6, <1>7, <1>8, <1>9 DEF IInv

LEMMA TickDoneStep ==
    ASSUME IInv, TickDone
    PROVE  IInv'
  <1> USE DEF IInv, TickDone, freezer, tick, redis
  <1>0. upTo = cursor /\ upTo \in 0..Len(stamp) /\ batch = <<>> /\ dirty = {}
    BY Known DEF ControlOK
  <1>1. TypeOK'
    BY TaskAssumption DEF TypeOK, TaskAssumption
  <1>2. ControlOK'
    BY <1>0, Known DEF ControlOK, Loop
  <1>3. OwnOK' /\ SeenOK'
    <2>1. OwnOK'
      BY DEF OwnOK
    <2>2. \A u \in Unit, b \in Bucket :
             /\ \A i \in raw[u][b] : i \in 1..Len(stamp) /\ i <= cursor
             /\ \A i \in live[u][b] : i <= cursor
      BY DEF SeenOK, Noted, Loop
    <2>3. lastId' = cursor /\ \A i \in 1..Len(stamp) : i <= cursor => i <= cursor + Limit
      BY <1>0, Known
    <2> QED BY <2>1, <2>2, <2>3 DEF SeenOK, Noted
  <1>4. Covered'
    BY DEF Covered, Processed, Sound
  <1>5. Whole'
    BY DEF Whole, Sound
  <1>6. KeysOK'
    BY <1>0, Known DEF KeysOK, Noted, Loop
  <1>7. PendingOK'
    BY <1>0, Known DEF PendingOK, Noted, ToAdd, Loop
  <1>8. OpenOK'
    BY DEF OpenOK, Open, Explained, LatestOK, Loop
  <1>9. DirtyOK'
    BY <1>0 DEF DirtyOK
  <1> QED BY <1>1, <1>2, <1>3, <1>4, <1>5, <1>6, <1>7, <1>8, <1>9 DEF IInv

\* The sample that is added next.
LEMMA NextPair ==
    ASSUME IInv, pc = "add"
    PROVE  /\ batch \in Seq((1..MaxSample) \X Unit) /\ batch # <<>>
           /\ Head(batch)[2] \in Unit /\ Tail(batch) \in Seq((1..MaxSample) \X Unit)
           /\ Head(batch)[1] \in 1..Len(stamp) /\ lastId < Head(batch)[1] /\ Head(batch)[1] <= upTo
           /\ \A j, v : Holds(batch, j, v) <=>
                 (j = Head(batch)[1] /\ v = Head(batch)[2]) \/ Holds(Tail(batch), j, v)
           /\ Sorted(Tail(batch), lastId, upTo)
           /\ \A j \in 1..upTo, v \in Unit : Head(batch)[1] < j => Holds(Tail(batch), j, v)
           /\ \A j, v : Holds(batch, j, v) => lastId < j /\ j <= upTo
  <1> USE DEF IInv
  <1>1. batch \in Seq((1..MaxSample) \X Unit) /\ batch # <<>> /\ Sorted(batch, lastId, upTo)
    BY DEF TypeOK, ControlOK
  <1>2. /\ Head(batch) \in (1..MaxSample) \X Unit /\ Tail(batch) \in Seq((1..MaxSample) \X Unit)
        /\ Head(batch) = <<Head(batch)[1], Head(batch)[2]>>
        /\ \A j, v : Holds(batch, j, v) <=> Head(batch) = <<j, v>> \/ Holds(Tail(batch), j, v)
    BY <1>1, Rest
  <1>3. /\ Sorted(Tail(batch), lastId, upTo) /\ lastId < Head(batch)[1] /\ Head(batch)[1] <= upTo
        /\ \A j \in (Head(batch)[1] + 1)..upTo, v \in Unit : Holds(Tail(batch), j, v)
    <2>1. lastId \in Nat /\ upTo \in Nat
      BY Known
    <2> QED BY <1>1, <2>1, SortedRest
  <1>4. Head(batch)[1] \in 1..Len(stamp)
    BY <1>2, <1>3, Known
  <1>5. ASSUME NEW j \in 1..upTo, NEW v \in Unit, Head(batch)[1] < j
        PROVE  Holds(Tail(batch), j, v)
    <2>1. j \in (Head(batch)[1] + 1)..upTo
      BY <1>4, <1>5, Known
    <2> QED BY <1>3, <2>1
  <1>6. \A j, v : Holds(batch, j, v) => lastId < j /\ j <= upTo
    BY <1>1, SortedHolds
  <1>7. \A j, v : Head(batch) = <<j, v>> <=> j = Head(batch)[1] /\ v = Head(batch)[2]
    BY <1>2
  <1> QED BY <1>1, <1>2, <1>3, <1>4, <1>5, <1>6, <1>7

\* What the new key of a unit does to what is pending.
LEMMA NoteKeyOK ==
    ASSUME IInv, pc = "add", NEW u \in Unit, NEW i \in 1..Len(stamp),
           i = Head(batch)[1], u = Head(batch)[2], NoteKey(u, KeyOf(u, i))
    PROVE  /\ pending' \in [Unit -> Bucket \cup {None}] /\ lastKey' \in [Unit -> Bucket \cup {None}]
           /\ ripe' \subseteq ripe /\ lost' \subseteq Pair /\ \A v \in ripe' : pending'[v] # None
           /\ lastKey'[u] = Key(stamp, u, i)
           /\ \A v \in Unit : v # u => lastKey'[v] = lastKey[v] /\ pending'[v] = pending[v]
           /\ \A v \in Unit, b \in Bucket : pending'[v] # b /\ <<v, b>> \notin lost' =>
                 /\ pending[v] # b /\ <<v, b>> \notin lost
                 /\ v = u /\ lastKey[u] = b => b = Key(stamp, u, i)
           /\ pending'[u] # None /\ pending'[u] # pending[u] =>
                 lastKey[u] # None /\ pending'[u] = lastKey[u] /\ lastKey[u] # Key(stamp, u, i)
           /\ lastKey[u] \notin {None, Key(stamp, u, i)} => pending'[u] = lastKey[u]
  <1> USE DEF IInv
  <1> DEFINE k == KeyOf(u, i)
             l == lastKey[u]
  <1>1. k = Key(stamp, u, i) /\ k \in Bucket /\ None \notin Bucket
    BY Known DEF KeyOf, Key
  <1>2. /\ pending \in [Unit -> Bucket \cup {None}] /\ lastKey \in [Unit -> Bucket \cup {None}]
        /\ lost \subseteq Pair /\ ripe \subseteq Freezable /\ \A v \in ripe : pending[v] # None
    BY DEF TypeOK, ControlOK
  <1> HIDE DEF k
  <1>3. lastKey' = [lastKey EXCEPT ![u] = k]
    BY DEF NoteKey, k
  <1>4. CASE l \in {None, k}
    <2>1. pending' = pending /\ ripe' = ripe /\ lost' = lost
      BY <1>4 DEF NoteKey, k
    <2> QED BY <1>1, <1>2, <1>3, <1>4, <2>1
  <1>5. CASE l \notin {None, k}
    <2>1. l \in Bucket /\ Schedule(u, l)
      BY <1>2, <1>5 DEF NoteKey, k
    <2>2. CASE pending[u] = l
      <3>1. pending' = pending /\ ripe' = ripe /\ lost' = lost
        BY <2>1, <2>2 DEF Schedule
      <3> QED BY <1>1, <1>2, <1>3, <1>5, <2>1, <2>2, <3>1
    <2>3. CASE pending[u] # l
      <3>1. /\ pending' = [pending EXCEPT ![u] = l] /\ ripe' = ripe \ {u}
            /\ lost' = (IF pending[u] = None THEN lost ELSE lost \cup {<<u, pending[u]>>}) \ {<<u, l>>}
        BY <2>1, <2>3 DEF Schedule
      <3>2. lost' \subseteq Pair
        BY <1>2, <3>1 DEF Pair
      <3>3. ASSUME NEW v \in Unit, NEW b \in Bucket, pending'[v] # b, <<v, b>> \notin lost'
            PROVE  /\ pending[v] # b /\ <<v, b>> \notin lost
                   /\ v = u /\ lastKey[u] = b => b = Key(stamp, u, i)
        BY <1>1, <1>2, <2>1, <3>1, <3>3
      <3> QED BY <1>1, <1>2, <1>3, <1>5, <2>1, <3>1, <3>2, <3>3
    <2> QED BY <2>2, <2>3
  <1> QED BY <1>4, <1>5

\* A pending bucket is over, or a later pair of the batch has a sample of it.
LEMMA NoteKeyPending ==
    ASSUME IInv, pc = "add", NEW u \in Unit, NEW i \in 1..Len(stamp),
           i = Head(batch)[1], u = Head(batch)[2], NoteKey(u, KeyOf(u, i)),
           NEW v \in Unit, pending'[v] # None, Ordered(stamp, v, pending'[v])
    PROVE  \/ \E j \in 1..Len(stamp) : j <= upTo /\ Key(stamp, v, j) > pending'[v]
           \/ /\ lastKey'[v] \notin {None, pending'[v]}
              /\ \E j \in 1..Len(stamp) : Holds(Tail(batch), j, v) /\ Key(stamp, v, j) = pending'[v]
  <1> USE DEF IInv
  <1> DEFINE k == Key(stamp, u, i)
  <1>1. /\ lastKey'[u] = k /\ k \in Bucket /\ k \in Nat /\ None \notin Bucket /\ i <= upTo
        /\ upTo \in 0..Len(stamp) /\ pending'[v] \in Bucket /\ pending'[v] \in Nat
    <2>1. /\ k \in Bucket /\ k \in Nat /\ None \notin Bucket /\ Bucket \subseteq Nat
          /\ upTo \in 0..Len(stamp)
      BY Known
    <2>2. i <= upTo
      BY NextPair
    <2>3. lastKey'[u] = k /\ pending' \in [Unit -> Bucket \cup {None}]
      BY NoteKeyOK
    <2> QED BY <2>1, <2>2, <2>3
  <1>2. CASE pending'[v] = pending[v]
    <2>1. \/ \E j \in 1..Len(stamp) : j <= upTo /\ Key(stamp, v, j) > pending[v]
          \/ /\ lastKey[v] \notin {None, pending[v]}
             /\ \E j \in 1..Len(stamp) : Holds(batch, j, v) /\ Key(stamp, v, j) = pending[v]
      BY <1>2 DEF PendingOK, Loop, Noted, ToAdd
    <2>2. CASE \E j \in 1..Len(stamp) : j <= upTo /\ Key(stamp, v, j) > pending[v]
      BY <1>2, <2>2
    <2>3. CASE /\ lastKey[v] \notin {None, pending[v]}
               /\ \E j \in 1..Len(stamp) : Holds(batch, j, v) /\ Key(stamp, v, j) = pending[v]
      <3>1. PICK j \in 1..Len(stamp) : Holds(batch, j, v) /\ Key(stamp, v, j) = pending[v]
        BY <2>3
      <3>2. CASE v # u
        <4>1. lastKey'[v] = lastKey[v] /\ Holds(Tail(batch), j, v)
          BY <3>1, <3>2, NoteKeyOK, NextPair
        <4> QED BY <1>2, <2>3, <3>1, <4>1
      <3>3. CASE v = u /\ k # pending[u]
        <4>1. Holds(Tail(batch), j, v)
          BY <3>1, <3>3, NextPair
        <4> QED BY <1>1, <1>2, <3>1, <3>3, <4>1
      <3>4. CASE v = u /\ k = pending[u]
        <4>1. lastKey[u] \notin {None, k}
          BY <2>3, <3>4
        <4>2. pending'[u] = lastKey[u]
          BY <4>1, NoteKeyOK
        <4> QED BY <1>2, <3>4, <4>1, <4>2
      <3> QED BY <3>2, <3>3, <3>4
    <2> QED BY <2>1, <2>2, <2>3
  <1>3. CASE pending'[v] # pending[v]
    <2>1. v = u
      BY <1>3, NoteKeyOK
    <2>2. lastKey[u] # None /\ pending'[u] = lastKey[u] /\ lastKey[u] # k
      BY <1>3, <2>1, NoteKeyOK
    <2> DEFINE l == lastKey[u]
    <2>3. PICK j \in 1..Len(stamp) : j <= upTo /\ Key(stamp, u, j) = l
      BY <2>2 DEF KeysOK, Loop, Noted
    <2>4. CASE k > l
      BY <1>1, <2>1, <2>2, <2>4
    <2>5. CASE ~ (k > l)
      <3>1. i < j
        <4>1. ~ (j < i)
          BY <1>1, <2>1, <2>2, <2>3, <2>5, OrderedBy
        <4> QED BY <2>2, <2>3, <4>1
      <3>2. Holds(Tail(batch), j, u)
        BY <1>1, <2>3, <3>1, NextPair
      <3> QED BY <1>1, <2>1, <2>2, <2>3, <3>2
    <2> QED BY <2>4, <2>5
  <1> QED BY <1>2, <1>3

\* What adding a sample does to the candles.
LEMMA AddRawOK ==
    ASSUME IInv, pc = "add", NEW u \in Unit, NEW i \in 1..Len(stamp),
           i = Head(batch)[1], u = Head(batch)[2],
           AddRaw(i, u) \/ (raw' = raw /\ torn' = torn),
           live' = live, frozen' = frozen, stamp' = stamp, pc' # "cold"
    PROVE  /\ raw' \in Candles /\ torn' \subseteq Pair /\ torn \subseteq torn'
           /\ OwnOK' /\ Whole'
           /\ \A v \in Unit, b \in Bucket :
                 /\ raw[v][b] \subseteq raw'[v][b]
                 /\ raw'[v][b] \subseteq raw[v][b] \cup {i}
                 /\ v # u \/ b # Key(stamp, u, i) => raw'[v][b] = raw[v][b]
           /\ AddRaw(i, u) => i \in raw'[u][Key(stamp, u, i)]
  <1> USE DEF IInv
  <1> DEFINE k == Key(stamp, u, i)
  <1>1. /\ KeyOf(u, i) = k /\ k \in Bucket /\ raw \in Candles /\ torn \subseteq Pair /\ i \in 1..MaxSample
    <2>1. KeyOf(u, i) = k
      BY DEF KeyOf, Key
    <2>2. k \in Bucket /\ i \in 1..MaxSample
      BY Known
    <2>3. raw \in Candles /\ torn \subseteq Pair
      BY DEF TypeOK
    <2> QED BY <2>1, <2>2, <2>3
  <1>2. AddRaw(i, u) => /\ raw' = [raw EXCEPT ![u][k] = raw[u][k] \cup {i}]
                        /\ torn' = IF i \in frozen[u][k] THEN torn \cup {<<u, k>>} ELSE torn
    BY <1>1 DEF AddRaw, Put
  <1> HIDE DEF k
  <1>3. raw' \in Candles /\ torn' \subseteq Pair /\ torn \subseteq torn'
    BY <1>1, <1>2 DEF Candles, Pair
  <1>4. ASSUME NEW v \in Unit, NEW b \in Bucket
        PROVE  /\ raw[v][b] \subseteq raw'[v][b]
               /\ raw'[v][b] \subseteq raw[v][b] \cup {i}
               /\ v # u \/ b # k => raw'[v][b] = raw[v][b]
    BY <1>1, <1>2 DEF Candles
  <1>5. AddRaw(i, u) => i \in raw'[u][k]
    BY <1>1, <1>2 DEF Candles
  <1>6. OwnOK'
    <2>1. Own(stamp, raw')
      BY <1>4 DEF OwnOK, Own, k
    <2>2. \A v \in Unit, b \in Bucket : <<v, b>> \in torn' => frozen[v][b] # {}
      BY <1>2 DEF OwnOK
    <2> QED BY <2>1, <2>2 DEF OwnOK
  <1>7. Whole'
    <2> SUFFICES ASSUME NEW v \in Unit, NEW b \in Bucket, frozen[v][b] # {},
                        Ordered(stamp, v, b), <<v, b>> \notin torn'
                 PROVE  /\ raw'[v][b] = {}
                        /\ \A j \in 1..Len(stamp) : Key(stamp, v, j) = b => j \in frozen[v][b]
                        /\ \E j \in 1..Len(stamp) : Key(stamp, v, j) > b
      BY DEF Whole, Sound
    <2>1. /\ raw[v][b] = {}
          /\ \A j \in 1..Len(stamp) : Key(stamp, v, j) = b => j \in frozen[v][b]
          /\ \E j \in 1..Len(stamp) : Key(stamp, v, j) > b
      BY <1>3 DEF Whole, Sound
    <2>2. CASE v = u /\ b = k /\ AddRaw(i, u)
      <3>1. i \in frozen[u][k]
        BY <2>1, <2>2 DEF k
      <3> QED BY <1>2, <2>2, <3>1
    <2>3. CASE ~ (v = u /\ b = k /\ AddRaw(i, u))
      BY <1>4, <2>1, <2>3
    <2> QED BY <2>2, <2>3
  <1> QED BY <1>3, <1>4, <1>5, <1>6, <1>7 DEF k

\* A bucket that is open after a sample was added is the one it was added to.
LEMMA OpenAdded ==
    ASSUME IInv, pc = "add", NEW u \in Unit, NEW i \in 1..Len(stamp),
           i = Head(batch)[1], u = Head(batch)[2], NoteKey(u, KeyOf(u, i)),
           AddRaw(i, u) \/ (raw' = raw /\ torn' = torn),
           live' = live, frozen' = frozen, stamp' = stamp, pc' # "cold",
           NEW v \in Unit, NEW b \in Bucket, Open(v, b)'
    PROVE  /\ \A j \in 1..cursor : Key(stamp, v, j) <= b
           /\ lastKey'[v] = b
           /\ LatestOK(v, b) \/ (AddRaw(i, u) /\ v = u /\ b = Key(stamp, u, i))
  <1> USE DEF IInv
  <1> DEFINE k == Key(stamp, u, i)
  <1>1. /\ raw'[v][b] # {} /\ frozen[v][b] = {} /\ Ordered(stamp, v, b)
        /\ pending'[v] # b /\ <<v, b>> \notin lost'
    BY DEF Open, Explained
  <1>2. /\ pending[v] # b /\ <<v, b>> \notin lost
        /\ v = u /\ lastKey[u] = b => b = k
        /\ lastKey'[u] = k /\ (v # u => lastKey'[v] = lastKey[v])
    BY <1>1, NoteKeyOK
  <1>3. CASE raw[v][b] # {}
    <2>1. LatestOK(v, b)
      BY <1>1, <1>2, <1>3 DEF OpenOK, Open, Explained
    <2>2. lastKey[v] = b /\ \A j \in 1..cursor : Key(stamp, v, j) <= b
      BY <2>1 DEF LatestOK, Loop
    <2> QED BY <1>2, <2>1, <2>2
  <1>4. CASE raw[v][b] = {}
    <2>1. v = u /\ b = k /\ AddRaw(i, u)
      BY <1>1, <1>4, AddRawOK
    <2>2. i > cursor
      <3>1. <<u, k>> \notin torn
        BY <1>1, <2>1 DEF OwnOK
      <3>2. i <= cursor => i \in raw[u][k] \/ i \in frozen[u][k]
        BY <1>1, <2>1, <3>1 DEF Covered, Processed, Sound
      <3> QED BY <1>1, <1>4, <2>1, <3>2, Known
    <2>3. \A j \in 1..cursor : Key(stamp, u, j) <= k
      <3> SUFFICES ASSUME NEW j \in 1..cursor PROVE Key(stamp, u, j) <= k
        OBVIOUS
      <3>1. j \in 1..Len(stamp) /\ j < i
        BY <2>2, Known
      <3> QED BY <1>1, <2>1, <3>1, OrderedBy
    <2> QED BY <1>2, <2>1, <2>3
  <1> QED BY <1>3, <1>4

LEMMA AddSampleStep ==
    ASSUME IInv, AddSample
    PROVE  IInv'
  <1> USE DEF IInv, AddSample
  <1> DEFINE i == Head(batch)[1]
             u == Head(batch)[2]
             k == Key(stamp, u, i)
  <1>0. /\ u \in Unit /\ i \in 1..Len(stamp) /\ lastId < i /\ i <= upTo
        /\ batch' = Tail(batch) /\ batch' \in Seq((1..MaxSample) \X Unit)
        /\ \A j, v : Holds(batch, j, v) <=> (j = i /\ v = u) \/ Holds(batch', j, v)
        /\ Sorted(batch', lastId, upTo)
        /\ \A j \in 1..upTo, v \in Unit : i < j => Holds(batch', j, v)
    BY NextPair
  <1>p. /\ pc = "add" /\ pc' \in {"add", "cursor"} /\ pc' # "cold" /\ (pc' = "cursor" <=> batch' = <<>>)
        /\ NoteKey(u, KeyOf(u, i)) /\ AddRaw(i, u) /\ KeyOf(u, i) = k /\ k \in Bucket
        /\ dirty' = dirty \cup {<<u, k>>}
        /\ stamp' = stamp /\ cursor' = cursor /\ live' = live /\ frozen' = frozen
        /\ lastId' = lastId /\ upTo' = upTo /\ late' = late /\ due' = due /\ fails' = fails
        /\ faults' = faults
    <2>1. KeyOf(u, i) = k
      BY DEF KeyOf, Key
    <2>2. k \in Bucket
      BY <1>0, Known
    <2> QED BY <2>1, <2>2
  <1>c. upTo \in 1..Len(stamp) /\ cursor <= upTo /\ upTo \in 1..upTo
    <2>1. cursor <= upTo /\ lastId < upTo
      BY <1>p DEF ControlOK
    <2> QED BY <2>1, Known
  <1> HIDE DEF AddSample, i, u
  <1>r. /\ raw' \in Candles /\ torn' \subseteq Pair /\ torn \subseteq torn'
        /\ OwnOK' /\ Whole'
        /\ \A v \in Unit, b \in Bucket :
              raw[v][b] \subseteq raw'[v][b] /\ raw'[v][b] \subseteq raw[v][b] \cup {i}
        /\ i \in raw'[u][k]
    BY <1>0, <1>p, AddRawOK DEF i, u
  <1>n. /\ pending' \in [Unit -> Bucket \cup {None}] /\ lastKey' \in [Unit -> Bucket \cup {None}]
        /\ ripe' \subseteq ripe /\ lost' \subseteq Pair /\ \A v \in ripe' : pending'[v] # None
        /\ lastKey'[u] = k
        /\ \A v \in Unit : v # u => lastKey'[v] = lastKey[v]
    BY <1>0, <1>p, NoteKeyOK DEF i, u
  <1> HIDE DEF k
  <1>1. TypeOK'
    <2>1. dirty \subseteq Pair /\ ripe \subseteq Freezable
      BY DEF TypeOK
    <2>2. dirty' \subseteq Pair
      <3>1. <<u, k>> \in Pair
        BY <1>0, <1>p DEF Pair
      <3> QED BY <1>p, <2>1, <3>1
    <2>3. ripe' \subseteq Freezable
      BY <1>n, <2>1
    <2> QED BY <1>0, <1>p, <1>r, <1>n, <2>2, <2>3 DEF TypeOK
  <1>2. ControlOK'
    <2>1. due' = {}
      BY <1>p DEF ControlOK
    <2> QED BY <1>0, <1>p, <1>n, <2>1 DEF ControlOK, Loop
  <1>3. OwnOK' /\ SeenOK'
    BY <1>0, <1>p, <1>r DEF SeenOK, Noted, Loop
  <1>4. Covered'
    <2> SUFFICES ASSUME NEW v \in Unit, NEW j \in 1..Len(stamp), Processed(j, v)',
                        Ordered(stamp, v, Key(stamp, v, j)), <<v, Key(stamp, v, j)>> \notin torn'
                 PROVE  j \in raw'[v][Key(stamp, v, j)] \/ j \in frozen[v][Key(stamp, v, j)]
      BY <1>p DEF Covered, Sound
    <2>1. CASE j = i /\ v = u
      BY <1>r, <2>1 DEF k
    <2>2. CASE ~ (j = i /\ v = u)
      <3>1. Processed(j, v)
        BY <1>0, <1>p, <2>2 DEF Processed
      <3> QED BY <1>r, <3>1, Known DEF Covered, Sound
    <2> QED BY <2>1, <2>2
  <1>5. Whole'
    BY <1>r
  <1>6. KeysOK'
    <2>1. ASSUME NEW v \in Unit, lastKey'[v] # None
          PROVE  \E j \in 1..Len(stamp) : j <= upTo /\ Key(stamp, v, j) = lastKey'[v]
      BY <1>0, <1>p, <1>n, <2>1 DEF KeysOK, Noted, Loop, k
    <2>2. ASSUME NEW v \in Unit, ~ Holds(batch', upTo, v)
          PROVE  lastKey'[v] = Key(stamp, v, upTo)
      <3>1. CASE v = u
        <4>1. i = upTo
          BY <1>0, <1>c, <2>2, Known
        <4> QED BY <1>n, <3>1, <4>1 DEF k
      <3>2. CASE v # u
        BY <1>0, <1>n, <1>p, <2>2, <3>2 DEF KeysOK
      <3> QED BY <3>1, <3>2
    <2> QED BY <1>p, <2>1, <2>2 DEF KeysOK, Noted
  <1>7. PendingOK'
    <2> SUFFICES ASSUME NEW v \in Unit, pending'[v] # None, Ordered(stamp, v, pending'[v])
                 PROVE  \/ \E j \in 1..Len(stamp) : Noted(j)' /\ Key(stamp, v, j) > pending'[v]
                        \/ /\ lastKey'[v] \notin {None, pending'[v]}
                           /\ \E j \in 1..Len(stamp) : ToAdd(j, v)' /\ Key(stamp, v, j) = pending'[v]
      BY <1>p DEF PendingOK
    <2>1. \A j \in 1..Len(stamp) : j <= upTo => Noted(j)'
      BY <1>p DEF Noted
    <2>2. \A j : Holds(batch', j, v) => ToAdd(j, v)'
      BY <1>p, NoneHeld DEF ToAdd
    <2>3. \/ \E j \in 1..Len(stamp) : j <= upTo /\ Key(stamp, v, j) > pending'[v]
          \/ /\ lastKey'[v] \notin {None, pending'[v]}
             /\ \E j \in 1..Len(stamp) : Holds(batch', j, v) /\ Key(stamp, v, j) = pending'[v]
      BY <1>0, <1>p, NoteKeyPending DEF i, u
    <2> QED BY <2>1, <2>2, <2>3
  <1>8. OpenOK'
    <2> SUFFICES ASSUME NEW v \in Unit, NEW b \in Bucket, Open(v, b)'
                 PROVE  LatestOK(v, b)'
      BY DEF OpenOK
    <2>1. /\ \A j \in 1..cursor : Key(stamp, v, j) <= b
          /\ lastKey'[v] = b
          /\ LatestOK(v, b) \/ (v = u /\ b = k)
      BY <1>0, <1>p, OpenAdded DEF i, u, k
    <2>2. <<u, k>> \in dirty'
      BY <1>p
    <2>3. CASE v = u /\ b = k
      BY <1>p, <2>1, <2>2, <2>3 DEF LatestOK, Loop
    <2>4. CASE ~ (v = u /\ b = k) /\ LatestOK(v, b)
      <3>1. live[v][b] # {} \/ <<v, b>> \in dirty \/ Again(v, b)
        BY <1>p, <2>4 DEF LatestOK
      <3>2. Again(v, b) => Again(v, b)' /\ pc' = "add"
        <4> SUFFICES ASSUME NEW j \in 1..Len(stamp), Holds(batch, j, v), Key(stamp, v, j) = b
                     PROVE  Again(v, b)' /\ pc' = "add"
          BY <1>p DEF Again, ToAdd
        <4>1. Holds(batch', j, v)
          BY <1>0, <2>4 DEF k
        <4>2. pc' = "add"
          BY <1>p, <4>1, NoneHeld
        <4> QED BY <1>p, <4>1, <4>2 DEF Again, ToAdd
      <3> QED BY <1>p, <2>1, <3>1, <3>2 DEF LatestOK
    <2> QED BY <2>1, <2>3, <2>4
  <1>9. DirtyOK'
    <2> SUFFICES ASSUME NEW v \in Unit, NEW b \in Bucket, <<v, b>> \in dirty'
                 PROVE  \E j \in 1..Len(stamp) : lastId < j /\ Noted(j)' /\ Key(stamp, v, j) = b
      BY <1>p DEF DirtyOK
    <2>1. CASE v = u /\ b = k
      BY <1>0, <1>p, <2>1 DEF Noted, k
    <2>2. CASE <<v, b>> \in dirty
      BY <1>p, <2>2 DEF DirtyOK, Noted, Loop
    <2> QED BY <1>p, <2>1, <2>2
  <1> QED BY <1>1, <1>2, <1>3, <1>4, <1>5, <1>6, <1>7, <1>8, <1>9 DEF IInv

\* Candles that are computed anew, all dirty ones or some.
LEMMA ComputedOK ==
    ASSUME IInv, pc = "recompute", NEW D \in SUBSET dirty, live' = Computed(D)
    PROVE  /\ live' \in Candles /\ Own(stamp, live')
           /\ \A u \in Unit, b \in Bucket :
                 /\ \A i \in live'[u][b] : i <= cursor
                 /\ live[u][b] # {} => live'[u][b] # {}
                 /\ raw[u][b] # {} /\ <<u, b>> \in D => live'[u][b] # {}
  <1> USE DEF IInv
  <1>1. raw \in Candles /\ live \in Candles
    BY DEF TypeOK
  <1>2. live' \in Candles
    BY <1>1 DEF Candles, Computed
  <1>3. ASSUME NEW u \in Unit, NEW b \in Bucket
        PROVE  live'[u][b] = IF <<u, b>> \in D /\ raw[u][b] # {} THEN raw[u][b] ELSE live[u][b]
    BY DEF Computed
  <1>4. Own(stamp, live')
    <2>1. ASSUME NEW u \in Unit, NEW b \in Bucket
          PROVE  \A i \in live'[u][b] : i \in 1..Len(stamp) /\ Key(stamp, u, i) = b
      <3>1. /\ \A i \in raw[u][b] : i \in 1..Len(stamp) /\ Key(stamp, u, i) = b
            /\ \A i \in live[u][b] : i \in 1..Len(stamp) /\ Key(stamp, u, i) = b
        BY DEF Own, OwnOK
      <3> QED BY <1>3, <3>1
    <2> QED BY <2>1 DEF Own
  <1>5. ASSUME NEW u \in Unit, NEW b \in Bucket
        PROVE  \A i \in live'[u][b] : i <= cursor
    <2>1. /\ \A i \in raw[u][b] : i <= cursor
          /\ \A i \in live[u][b] : i <= cursor
      BY DEF SeenOK, Noted, Loop
    <2> QED BY <1>3, <2>1
  <1> QED BY <1>2, <1>3, <1>4, <1>5

LEMMA RecomputeStep ==
    ASSUME IInv, RecomputeDirty
    PROVE  IInv'
  <1> USE DEF IInv, RecomputeDirty, freezer
  <1>0. /\ live' \in Candles /\ Own(stamp, live')
        /\ \A u \in Unit, b \in Bucket :
              /\ \A i \in live'[u][b] : i <= cursor
              /\ live[u][b] # {} => live'[u][b] # {}
              /\ raw[u][b] # {} /\ <<u, b>> \in dirty => live'[u][b] # {}
    BY ComputedOK
  <1> HIDE DEF RecomputeDirty
  <1>p. /\ pc = "recompute" /\ pc' = "freeze" /\ dirty' = {} /\ due' = ripe
        /\ UNCHANGED <<stamp, late, cursor, raw, frozen, lastId, upTo, batch, lastKey,
                       pending, ripe, lost, fails, torn, faults>>
    BY DEF RecomputeDirty
  <1>1. TypeOK'
    BY <1>0, <1>p DEF TypeOK
  <1>2. ControlOK'
    BY <1>p DEF ControlOK, Loop
  <1>3. OwnOK' /\ SeenOK'
    BY <1>0, <1>p DEF OwnOK, SeenOK, Noted, Loop
  <1>4. Covered'
    BY <1>p DEF Covered, Processed, Sound
  <1>5. Whole'
    BY <1>p DEF Whole, Sound
  <1>6. KeysOK'
    BY <1>p DEF KeysOK, Noted, Loop
  <1>7. PendingOK'
    BY <1>p DEF PendingOK, Noted, ToAdd, Loop
  <1>8. OpenOK'
    BY <1>0, <1>p DEF OpenOK, Open, Explained, LatestOK, Loop
  <1>9. DirtyOK'
    BY <1>p DEF DirtyOK
  <1> QED BY <1>1, <1>2, <1>3, <1>4, <1>5, <1>6, <1>7, <1>8, <1>9 DEF IInv

\* A bucket that is frozen is over, and all of its samples are there: the candle
\* is whole.  One that has been frozen before is not written again.
LEMMA FreezeOK ==
    ASSUME IInv, pc = "freeze", NEW u \in due, FreezeBucket(u, pending[u]),
           stamp' = stamp, torn' = torn, pc' # "cold"
    PROVE  /\ raw' \in Candles /\ live' \in Candles /\ frozen' \in Candles
           /\ u \in Unit /\ pending[u] \in Bucket /\ OwnOK' /\ Whole'
           /\ raw'[u][pending[u]] = {}
           /\ \A v \in Unit, b \in Bucket :
                 /\ raw'[v][b] \subseteq raw[v][b] /\ live'[v][b] \subseteq live[v][b]
                 /\ v # u \/ b # pending[u] => /\ raw'[v][b] = raw[v][b] /\ live'[v][b] = live[v][b]
                                             /\ frozen'[v][b] = frozen[v][b]
                 /\ frozen[v][b] # {} => frozen'[v][b] # {}
                 /\ Sound(v, b) => raw[v][b] \cup frozen[v][b] \subseteq raw'[v][b] \cup frozen'[v][b]
  <1> USE DEF IInv
  <1> DEFINE p == pending[u]
  <1>1. u \in Unit /\ p \in Bucket /\ p # None /\ p \in Nat
    <2>1. u \in ripe /\ u \in Unit /\ p # None
      BY TaskAssumption DEF ControlOK, TypeOK, TaskAssumption
    <2> QED BY <2>1, Known DEF TypeOK
  <1>2. raw \in Candles /\ live \in Candles /\ frozen \in Candles
    BY DEF TypeOK
  <1>3. CASE raw[u][p] = {}
    <2>1. raw' = raw /\ live' = live /\ frozen' = frozen
      BY <1>3 DEF FreezeBucket
    <2>2. OwnOK' /\ Whole'
      BY <2>1 DEF OwnOK, Whole, Sound
    <2> QED BY <1>1, <1>2, <1>3, <2>1, <2>2
  <1>4. CASE raw[u][p] # {}
    <2>1. /\ frozen' = [frozen EXCEPT ![u][p] = raw[u][p]]
          /\ raw' = [raw EXCEPT ![u][p] = {}] /\ live' = [live EXCEPT ![u][p] = {}]
      BY <1>4 DEF FreezeBucket, Put
    <2> HIDE DEF p
    <2>2. raw' \in Candles /\ live' \in Candles /\ frozen' \in Candles
      BY <1>1, <1>2, <2>1 DEF Candles
    <2>3. /\ raw'[u][p] = {} /\ live'[u][p] = {} /\ frozen'[u][p] = raw[u][p]
          /\ \A v \in Unit, b \in Bucket : v # u \/ b # p =>
                raw'[v][b] = raw[v][b] /\ live'[v][b] = live[v][b] /\ frozen'[v][b] = frozen[v][b]
      BY <1>1, <1>2, <2>1 DEF Candles
    <2>4. OwnOK'
      <3>1. Own(stamp, raw') /\ Own(stamp, live')
        BY <1>1, <2>3 DEF OwnOK, Own
      <3>2. Own(stamp, frozen')
        BY <1>1, <2>3 DEF OwnOK, Own
      <3>3. \A v \in Unit, b \in Bucket : <<v, b>> \in torn => frozen'[v][b] # {}
        BY <1>1, <1>4, <2>3 DEF OwnOK
      <3> QED BY <3>1, <3>2, <3>3 DEF OwnOK
    <2>5. Sound(u, p) => /\ frozen[u][p] = {}
                         /\ \A i \in 1..Len(stamp) : Key(stamp, u, i) = p => i \in raw[u][p]
                         /\ \E j \in 1..Len(stamp) : Key(stamp, u, j) > p
      <3> SUFFICES ASSUME Sound(u, p)
                   PROVE  /\ frozen[u][p] = {}
                          /\ \A i \in 1..Len(stamp) : Key(stamp, u, i) = p => i \in raw[u][p]
                          /\ \E j \in 1..Len(stamp) : Key(stamp, u, j) > p
        OBVIOUS
      <3>1. frozen[u][p] = {}
        BY <1>1, <1>4 DEF Whole
      <3>2. PICK j \in 1..Len(stamp) : j <= cursor /\ Key(stamp, u, j) > p
        BY <1>1 DEF PendingOK, Noted, ToAdd, Loop, Sound, p
      <3>3. ASSUME NEW i \in 1..Len(stamp), Key(stamp, u, i) = p
            PROVE  i \in raw[u][p]
        <4>1. ~ (j < i)
          BY <1>1, <3>2, <3>3, OrderedBy, Known DEF Sound
        <4>2. i <= cursor
          BY <3>2, <4>1, Known
        <4> QED BY <1>1, <3>1, <3>3, <4>2 DEF Covered, Processed
      <3> QED BY <3>1, <3>2, <3>3
    <2>6. Whole'
      <3> SUFFICES ASSUME NEW v \in Unit, NEW b \in Bucket, frozen'[v][b] # {}, Sound(v, b)
                   PROVE  /\ raw'[v][b] = {}
                          /\ \A i \in 1..Len(stamp) : Key(stamp, v, i) = b => i \in frozen'[v][b]
                          /\ \E j \in 1..Len(stamp) : Key(stamp, v, j) > b
        BY DEF Whole, Sound
      <3>1. CASE v = u /\ b = p
        BY <2>3, <2>5, <3>1
      <3>2. CASE ~ (v = u /\ b = p)
        BY <2>3, <3>2 DEF Whole
      <3> QED BY <3>1, <3>2
    <2>7. ASSUME NEW v \in Unit, NEW b \in Bucket
          PROVE  /\ raw'[v][b] \subseteq raw[v][b] /\ live'[v][b] \subseteq live[v][b]
                 /\ frozen[v][b] # {} => frozen'[v][b] # {}
                 /\ Sound(v, b) => raw[v][b] \cup frozen[v][b] \subseteq raw'[v][b] \cup frozen'[v][b]
      <3>1. CASE v = u /\ b = p
        BY <1>4, <2>3, <2>5, <3>1
      <3>2. CASE ~ (v = u /\ b = p)
        BY <2>3, <3>2
      <3> QED BY <3>1, <3>2
    <2> QED BY <1>1, <2>2, <2>3, <2>4, <2>6, <2>7 DEF p
  <1> QED BY <1>3, <1>4

LEMMA FreezeStep ==
    ASSUME IInv, NEW u \in Unit, Freeze(u)
    PROVE  IInv'
  <1> USE DEF IInv, Freeze
  <1> DEFINE p == pending[u]
  <1>0. /\ raw' \in Candles /\ live' \in Candles /\ frozen' \in Candles
        /\ p \in Bucket /\ OwnOK' /\ Whole' /\ raw'[u][p] = {}
        /\ \A v \in Unit, b \in Bucket :
              /\ raw'[v][b] \subseteq raw[v][b] /\ live'[v][b] \subseteq live[v][b]
              /\ v # u \/ b # p => /\ raw'[v][b] = raw[v][b] /\ live'[v][b] = live[v][b]
                                 /\ frozen'[v][b] = frozen[v][b]
              /\ Sound(v, b) => raw[v][b] \cup frozen[v][b] \subseteq raw'[v][b] \cup frozen'[v][b]
    BY FreezeOK
  <1>p. /\ pc = "freeze" /\ pc' = pc /\ due' = due \ {u} /\ ripe' = ripe \ {u}
        /\ pending' = [pending EXCEPT ![u] = None]
        /\ UNCHANGED <<stamp, late, cursor, lastId, upTo, batch, lastKey, lost, dirty, fails,
                       torn, faults>>
    OBVIOUS
  <1> HIDE DEF Freeze, p
  <1>q. /\ pending' \in [Unit -> Bucket \cup {None}] /\ pending'[u] = None
        /\ \A v \in Unit : v # u => pending'[v] = pending[v]
    BY <1>p DEF TypeOK
  <1>1. TypeOK'
    BY <1>0, <1>p, <1>q DEF TypeOK
  <1>2. ControlOK'
    <2>1. \A v \in ripe' : pending'[v] # None
      BY <1>p, <1>q, TaskAssumption DEF ControlOK, TypeOK, TaskAssumption
    <2>2. due' \subseteq ripe'
      BY <1>p DEF ControlOK
    <2> QED BY <1>p, <2>1, <2>2 DEF ControlOK, Loop
  <1>3. OwnOK' /\ SeenOK'
    BY <1>0, <1>p DEF SeenOK, Noted
  <1>4. Covered'
    <2> SUFFICES ASSUME NEW v \in Unit, NEW j \in 1..Len(stamp), j <= cursor,
                        Sound(v, Key(stamp, v, j))
                 PROVE  j \in raw'[v][Key(stamp, v, j)] \/ j \in frozen'[v][Key(stamp, v, j)]
      BY <1>p DEF Covered, Processed, Sound
    <2>1. Key(stamp, v, j) \in Bucket
      BY Known
    <2>2. j \in raw[v][Key(stamp, v, j)] \cup frozen[v][Key(stamp, v, j)]
      BY DEF Covered, Processed
    <2> QED BY <1>0, <2>1, <2>2
  <1>5. Whole'
    BY <1>0
  <1>6. KeysOK'
    BY <1>p DEF KeysOK, Noted
  <1>7. PendingOK'
    BY <1>p, <1>q DEF PendingOK, Noted, ToAdd
  <1>8. OpenOK'
    <2> SUFFICES ASSUME NEW v \in Unit, NEW b \in Bucket, Open(v, b)'
                 PROVE  LatestOK(v, b)'
      BY DEF OpenOK
    <2>1. v # u \/ b # p
      BY <1>0 DEF Open
    <2>2. LatestOK(v, b)
      BY <1>0, <1>p, <1>q, <2>1 DEF OpenOK, Open, Explained, p
    <2> QED BY <1>0, <1>p, <2>1, <2>2 DEF LatestOK, Loop
  <1>9. DirtyOK'
    BY <1>p DEF DirtyOK, Noted
  <1> QED BY <1>1, <1>2, <1>3, <1>4, <1>5, <1>6, <1>7, <1>8, <1>9 DEF IInv

LEMMA EndStep ==
    ASSUME IInv, End
    PROVE  IInv'
  <1> USE DEF IInv, End, redis
  <1>1. TypeOK'
    <2>1. lost' \subseteq Pair
      BY DEF TypeOK
    <2>2. NoKeys \in [Unit -> Bucket \cup {None}]
      BY DEF NoKeys
    <2>3. faults' \in 0..MaxFaults
      BY TaskAssumption DEF TypeOK, Fault, TaskAssumption
    <2> QED BY <2>1, <2>2, <2>3, Known, TaskAssumption DEF TypeOK, TaskAssumption
  <1>2. ControlOK'
    BY DEF ControlOK, Loop
  <1>3. OwnOK' /\ SeenOK'
    <2>1. OwnOK'
      BY DEF OwnOK
    <2>2. ASSUME NEW u \in Unit, NEW b \in Bucket, NEW i \in raw[u][b]
          PROVE  i \in 1..Len(stamp) /\ (cursor > 0 => i <= cursor + Limit)
      <3>1. Noted(i) /\ (pc \in {"down", "dead"} /\ cursor > 0 => i <= cursor + Limit)
        BY DEF SeenOK
      <3>2. pc \in {"down", "dead", "cold"} \cup Loop
        BY DEF TypeOK, Loop
      <3>3. CASE pc \in Loop
        BY <3>1, <3>3, Known DEF Noted, ControlOK, Loop
      <3> QED BY <3>1, <3>2, <3>3 DEF Noted, ControlOK
    <2>3. \A u \in Unit, b \in Bucket : \A i \in live[u][b] : cursor > 0 => i <= cursor
      BY DEF SeenOK
    <2> QED BY <2>1, <2>2, <2>3 DEF SeenOK, Noted, Loop
  <1>4. Covered'
    BY DEF Covered, Processed, Sound
  <1>5. Whole'
    BY DEF Whole, Sound
  <1>6. KeysOK'
    BY DEF KeysOK, Loop
  <1>7. PendingOK'
    BY DEF PendingOK, Loop
  <1>8. OpenOK'
    <2> SUFFICES ASSUME NEW u \in Unit, NEW b \in Bucket, Open(u, b)'
                 PROVE  live[u][b] # {} /\ \A i \in 1..cursor : Key(stamp, u, i) <= b
      BY DEF OpenOK, LatestOK, Loop
    <2>1. /\ raw[u][b] # {} /\ frozen[u][b] = {} /\ Ordered(stamp, u, b)
          /\ <<u, b>> \notin lost /\ b \notin Hidden(u) /\ pending[u] # b
      BY DEF Open, Explained, Pair
    <2>2. LatestOK(u, b)
      BY <2>1 DEF OpenOK, Open, Explained
    <2>3. live[u][b] # {}
      BY <2>1 DEF Hidden, Shown
    <2> QED BY <2>2, <2>3 DEF LatestOK
  <1>9. DirtyOK'
    BY DEF DirtyOK, Loop
  <1> QED BY <1>1, <1>2, <1>3, <1>4, <1>5, <1>6, <1>7, <1>8, <1>9 DEF IInv

\* What a failed tick leaves, whatever it had done.
LEMMA FailsFrame ==
    ASSUME IInv, TickFails
    PROVE  /\ pc \in Loop /\ pc' \in {"poll", "dead"} /\ pc' # "cold" /\ fails' = fails + 1
           /\ batch' = <<>> /\ due' = {} /\ upTo' = lastId /\ lastId' = lastId
           /\ stamp' = stamp /\ late' = late /\ fails' \in 1..FailCap /\ faults' \in 0..MaxFaults
           /\ pc' = "poll" => fails' < FailCap
           /\ lastId <= cursor /\ cursor <= lastId + Limit /\ lastId + Limit \in Nat
  <1> USE DEF IInv, TickFails
  <1>1. pc \in Loop /\ pc # "cold"
    BY DEF Loop
  <1>2. faults' \in 0..MaxFaults
    BY TaskAssumption DEF TypeOK, Fault, TaskAssumption
  <1>3. fails' \in 1..FailCap /\ (pc' = "poll" => fails' < FailCap)
    BY <1>1, TaskAssumption DEF TypeOK, ControlOK, TaskAssumption
  <1>4. lastId <= cursor /\ cursor <= lastId + Limit /\ lastId + Limit \in Nat
    BY <1>1, Known DEF ControlOK
  <1> QED BY <1>1, <1>2, <1>3, <1>4

\* The samples a tick fetches: those it notes or adds are among them.
Window(j) == lastId < j /\ j <= lastId + Limit

LEMMA InWindow ==
    ASSUME IInv, pc \in Loop
    PROVE  /\ \A j : Noted(j) => j \in 1..Len(stamp) /\ j <= lastId + Limit
           /\ \A j, u : ToAdd(j, u) => Window(j)
  <1> USE DEF IInv
  <1>1. ASSUME NEW j, Noted(j)
        PROVE  j \in 1..Len(stamp) /\ j <= lastId + Limit
    BY <1>1, Known DEF Noted, Loop, ControlOK
  <1>2. ASSUME NEW j, NEW u, ToAdd(j, u)
        PROVE  Window(j)
    <2>1. CASE pc = "poll"
      BY <1>1, <1>2, <2>1 DEF ToAdd, Window
    <2>2. CASE pc = "add"
      <3>1. Holds(batch, j, u) /\ lastId < j /\ j <= upTo
        BY <1>2, <2>2, NextPair DEF ToAdd
      <3>2. upTo <= lastId + Limit /\ upTo \in 0..Len(stamp)
        BY <2>2, Known DEF ControlOK
      <3>3. PICK k \in 1..Len(batch) : batch[k] = <<j, u>>
        BY <3>1 DEF Holds
      <3>4. j \in Nat
        BY <3>3 DEF TypeOK
      <3> QED BY <3>1, <3>2, <3>4, Known DEF Window
    <2> QED BY <1>2, <2>1, <2>2 DEF ToAdd
  <1> QED BY <1>1, <1>2

\* What has to be kept for the tick to be repeated.
Kept ==
    /\ cursor' \in 0..Len(stamp) /\ cursor <= cursor' /\ cursor' <= lastId + Limit
    /\ raw' \in Candles /\ live' \in Candles /\ frozen' \in Candles
    /\ lastKey' \in [Unit -> Bucket \cup {None}] /\ pending' \in [Unit -> Bucket \cup {None}]
    /\ ripe' \subseteq ripe /\ dirty' \subseteq dirty /\ lost' \subseteq Pair /\ torn' \subseteq Pair
    /\ \A u \in ripe' : pending'[u] # None
    /\ OwnOK' /\ Whole' /\ Covered'
    /\ \A u \in Unit, b \in Bucket :
          /\ \A i \in raw'[u][b] : i \in 1..Len(stamp) /\ i <= lastId + Limit
          /\ \A i \in live'[u][b] : i <= cursor'
    /\ \A u \in Unit : lastKey'[u] # None =>
          \E j \in 1..Len(stamp) : j <= lastId + Limit /\ Key(stamp, u, j) = lastKey'[u]
    /\ \A u \in Unit : pending'[u] # None /\ Ordered(stamp, u, pending'[u]) =>
          \/ \E j \in 1..Len(stamp) : j <= lastId + Limit /\ Key(stamp, u, j) > pending'[u]
          \/ /\ lastKey'[u] \notin {None, pending'[u]}
             /\ \E j \in 1..Len(stamp) : Window(j) /\ Key(stamp, u, j) = pending'[u]
    /\ \A u \in Unit, b \in Bucket : Open(u, b)' =>
          /\ \A i \in 1..cursor' : Key(stamp, u, i) <= b
          /\ lastKey'[u] = b
          /\ live'[u][b] # {} \/ \E j \in 1..Len(stamp) : Window(j) /\ Key(stamp, u, j) = b

\* What holds of the samples of a tick that fails.
LEMMA Failing ==
    ASSUME IInv, TickFails
    PROVE  /\ \A u \in Unit, b \in Bucket :
                 /\ \A i \in raw[u][b] : i \in 1..Len(stamp) /\ i <= lastId + Limit
                 /\ \A i \in live[u][b] : i <= cursor
           /\ \A u \in Unit : lastKey[u] # None =>
                 \E j \in 1..Len(stamp) : j <= lastId + Limit /\ Key(stamp, u, j) = lastKey[u]
           /\ \A u \in Unit : pending[u] # None /\ Ordered(stamp, u, pending[u]) =>
                 \/ \E j \in 1..Len(stamp) : j <= lastId + Limit /\ Key(stamp, u, j) > pending[u]
                 \/ /\ lastKey[u] \notin {None, pending[u]}
                    /\ \E j \in 1..Len(stamp) : Window(j) /\ Key(stamp, u, j) = pending[u]
           /\ \A u \in Unit, b \in Bucket : <<u, b>> \in dirty =>
                 \E j \in 1..Len(stamp) : Window(j) /\ Key(stamp, u, j) = b
           /\ \A u \in Unit, b \in Bucket : LatestOK(u, b) =>
                 /\ \A i \in 1..cursor : Key(stamp, u, i) <= b
                 /\ lastKey[u] = b
                 /\ live[u][b] # {} \/ \E j \in 1..Len(stamp) : Window(j) /\ Key(stamp, u, j) = b
           /\ \A u \in ripe : pending[u] # None
  <1> USE DEF IInv
  <1>0. pc \in Loop
    BY FailsFrame
  <1>1. \A u \in Unit, b \in Bucket :
           /\ \A i \in raw[u][b] : i \in 1..Len(stamp) /\ i <= lastId + Limit
           /\ \A i \in live[u][b] : i <= cursor
    BY <1>0, InWindow DEF SeenOK
  <1>2. \A u \in Unit : lastKey[u] # None =>
          \E j \in 1..Len(stamp) : j <= lastId + Limit /\ Key(stamp, u, j) = lastKey[u]
    BY <1>0, InWindow DEF KeysOK
  <1>3. \A u \in Unit : pending[u] # None /\ Ordered(stamp, u, pending[u]) =>
          \/ \E j \in 1..Len(stamp) : j <= lastId + Limit /\ Key(stamp, u, j) > pending[u]
          \/ /\ lastKey[u] \notin {None, pending[u]}
             /\ \E j \in 1..Len(stamp) : Window(j) /\ Key(stamp, u, j) = pending[u]
    BY <1>0, InWindow DEF PendingOK
  <1>4. \A u \in Unit, b \in Bucket : <<u, b>> \in dirty =>
          \E j \in 1..Len(stamp) : Window(j) /\ Key(stamp, u, j) = b
    BY <1>0, InWindow DEF DirtyOK, Window
  <1>5. ASSUME NEW u \in Unit, NEW b \in Bucket, LatestOK(u, b)
        PROVE  /\ \A i \in 1..cursor : Key(stamp, u, i) <= b
               /\ lastKey[u] = b
               /\ live[u][b] # {} \/ \E j \in 1..Len(stamp) : Window(j) /\ Key(stamp, u, j) = b
    <2>1. Again(u, b) => \E j \in 1..Len(stamp) : Window(j) /\ Key(stamp, u, j) = b
      BY <1>0, InWindow DEF Again
    <2>2. live[u][b] # {} \/ <<u, b>> \in dirty \/ Again(u, b)
      BY <1>0, <1>5 DEF LatestOK, Loop
    <2> QED BY <1>0, <1>4, <1>5, <2>1, <2>2 DEF LatestOK
  <1>6. \A u \in ripe : pending[u] # None
    BY DEF ControlOK
  <1> QED BY <1>1, <1>2, <1>3, <1>4, <1>5, <1>6

LEMMA PollFails ==
    ASSUME IInv, TickFails, pc = "poll"
    PROVE  Kept
  <1> USE DEF IInv
  <1>0. /\ pc' \in {"poll", "dead"} /\ stamp' = stamp /\ lastId <= cursor /\ cursor <= lastId + Limit
    BY FailsFrame
  <1>p. UNCHANGED <<cursor, raw, live, frozen, lastKey, pending, ripe, lost, dirty, torn>>
    BY DEF TickFails, PartOf, redis, freezer
  <1>1. OwnOK' /\ Whole' /\ Covered'
    BY <1>0, <1>p DEF OwnOK, Whole, Covered, Processed, Sound
  <1>2. \A u \in Unit, b \in Bucket : Open(u, b)' => LatestOK(u, b)
    BY <1>0, <1>p DEF OpenOK, Open, Explained
  <1>3. /\ cursor' \in 0..Len(stamp) /\ cursor <= cursor' /\ cursor' <= lastId + Limit
        /\ raw' \in Candles /\ live' \in Candles /\ frozen' \in Candles
        /\ lastKey' \in [Unit -> Bucket \cup {None}] /\ pending' \in [Unit -> Bucket \cup {None}]
        /\ ripe' \subseteq ripe /\ dirty' \subseteq dirty /\ lost' \subseteq Pair /\ torn' \subseteq Pair
    BY <1>0, <1>p, Known DEF TypeOK
  <1> QED BY <1>p, <1>1, <1>2, <1>3, Failing DEF Kept

LEMMA AddFails ==
    ASSUME IInv, TickFails, pc = "add"
    PROVE  Kept
  <1> USE DEF IInv
  <1> DEFINE i == Head(batch)[1]
             u == Head(batch)[2]
             k == Key(stamp, u, i)
  <1>0. /\ pc' \in {"poll", "dead"} /\ pc' # "cold" /\ stamp' = stamp
        /\ lastId <= cursor /\ cursor <= lastId + Limit /\ lastId + Limit \in Nat
    BY FailsFrame
  <1>h. /\ u \in Unit /\ i \in 1..Len(stamp) /\ lastId < i /\ i <= upTo /\ i <= lastId + Limit
        /\ upTo <= lastId + Limit /\ KeyOf(u, i) = k /\ k \in Bucket
        /\ \A j, v : Holds(Tail(batch), j, v) => lastId < j /\ j <= upTo
    <2>1. /\ u \in Unit /\ i \in 1..Len(stamp) /\ lastId < i /\ i <= upTo
          /\ \A j, v : Holds(Tail(batch), j, v) => lastId < j /\ j <= upTo
      BY NextPair
    <2>2. upTo <= lastId + Limit
      BY DEF ControlOK
    <2> QED BY <2>1, <2>2, Known DEF KeyOf, Key
  <1>p. /\ NoteKey(u, KeyOf(u, i)) /\ (AddRaw(i, u) \/ (raw' = raw /\ torn' = torn))
        /\ UNCHANGED <<cursor, live, frozen, dirty>>
    BY DEF TickFails, PartOf
  <1> HIDE DEF i, u
  <1>r. /\ raw' \in Candles /\ torn' \subseteq Pair /\ torn \subseteq torn'
        /\ OwnOK' /\ Whole'
        /\ \A v \in Unit, b \in Bucket :
              raw[v][b] \subseteq raw'[v][b] /\ raw'[v][b] \subseteq raw[v][b] \cup {i}
    BY <1>0, <1>h, <1>p, AddRawOK DEF i, u
  <1>n. /\ pending' \in [Unit -> Bucket \cup {None}] /\ lastKey' \in [Unit -> Bucket \cup {None}]
        /\ ripe' \subseteq ripe /\ lost' \subseteq Pair /\ \A v \in ripe' : pending'[v] # None
        /\ lastKey'[u] = k
        /\ \A v \in Unit : v # u => lastKey'[v] = lastKey[v]
    BY <1>h, <1>p, NoteKeyOK DEF i, u
  <1> HIDE DEF k
  <1>1. Covered'
    <2> SUFFICES ASSUME NEW v \in Unit, NEW j \in 1..Len(stamp), j <= cursor,
                        Ordered(stamp, v, Key(stamp, v, j)), <<v, Key(stamp, v, j)>> \notin torn'
                 PROVE  j \in raw'[v][Key(stamp, v, j)] \/ j \in frozen[v][Key(stamp, v, j)]
      BY <1>0, <1>p DEF Covered, Processed, Sound
    <2> QED BY <1>r, Known DEF Covered, Processed, Sound
  <1>2. \A v \in Unit, b \in Bucket :
           /\ \A j \in raw'[v][b] : j \in 1..Len(stamp) /\ j <= lastId + Limit
           /\ \A j \in live'[v][b] : j <= cursor'
    BY <1>h, <1>p, <1>r, Failing
  <1>3. \A v \in Unit : lastKey'[v] # None =>
          \E j \in 1..Len(stamp) : j <= lastId + Limit /\ Key(stamp, v, j) = lastKey'[v]
    BY <1>h, <1>n, Failing DEF k
  <1>4. ASSUME NEW v \in Unit, pending'[v] # None, Ordered(stamp, v, pending'[v])
        PROVE  \/ \E j \in 1..Len(stamp) : j <= lastId + Limit /\ Key(stamp, v, j) > pending'[v]
               \/ /\ lastKey'[v] \notin {None, pending'[v]}
                  /\ \E j \in 1..Len(stamp) : Window(j) /\ Key(stamp, v, j) = pending'[v]
    <2>1. \/ \E j \in 1..Len(stamp) : j <= upTo /\ Key(stamp, v, j) > pending'[v]
          \/ /\ lastKey'[v] \notin {None, pending'[v]}
             /\ \E j \in 1..Len(stamp) : Holds(Tail(batch), j, v) /\ Key(stamp, v, j) = pending'[v]
      BY <1>h, <1>p, <1>4, NoteKeyPending DEF i, u
    <2>2. \A j \in 1..Len(stamp) : j <= upTo => j <= lastId + Limit
      BY <1>0, <1>h, Known
    <2>3. \A j \in 1..Len(stamp) : Holds(Tail(batch), j, v) => Window(j)
      BY <1>h, <2>2 DEF Window
    <2> QED BY <2>1, <2>2, <2>3
  <1>5. ASSUME NEW v \in Unit, NEW b \in Bucket, Open(v, b)'
        PROVE  /\ \A j \in 1..cursor : Key(stamp, v, j) <= b
               /\ lastKey'[v] = b
               /\ live[v][b] # {} \/ \E j \in 1..Len(stamp) : Window(j) /\ Key(stamp, v, j) = b
    <2>1. /\ \A j \in 1..cursor : Key(stamp, v, j) <= b
          /\ lastKey'[v] = b
          /\ LatestOK(v, b) \/ (v = u /\ b = k)
      BY <1>0, <1>h, <1>p, <1>5, OpenAdded DEF i, u, k
    <2>2. Window(i) /\ Key(stamp, u, i) = k
      BY <1>h DEF Window, k
    <2> QED BY <1>h, <2>1, <2>2, Failing
  <1>6. cursor' \in 0..Len(stamp) /\ cursor <= cursor' /\ cursor' <= lastId + Limit
        /\ live' \in Candles /\ frozen' \in Candles /\ dirty' \subseteq dirty
    BY <1>0, <1>p, Known DEF TypeOK
  <1> QED BY <1>p, <1>r, <1>n, <1>1, <1>2, <1>3, <1>4, <1>5, <1>6 DEF Kept

LEMMA CursorFails ==
    ASSUME IInv, TickFails, pc = "cursor"
    PROVE  Kept
  <1> USE DEF IInv
  <1>0. /\ pc' \in {"poll", "dead"} /\ stamp' = stamp
        /\ lastId <= cursor /\ cursor <= lastId + Limit /\ lastId + Limit \in Nat
    BY FailsFrame
  <1>p. /\ cursor' \in {cursor, upTo}
        /\ UNCHANGED <<raw, live, frozen, lastKey, pending, ripe, lost, dirty, torn>>
    BY DEF TickFails, PartOf, freezer
  <1>c. /\ upTo \in 1..Len(stamp) /\ cursor <= upTo /\ upTo <= lastId + Limit /\ batch = <<>>
        /\ cursor' \in 0..Len(stamp) /\ cursor <= cursor' /\ cursor' <= lastId + Limit /\ cursor' <= upTo
    <2>1. cursor <= upTo /\ upTo <= lastId + Limit /\ lastId < upTo /\ batch = <<>>
      BY DEF ControlOK
    <2> QED BY <1>0, <1>p, <2>1, Known
  <1>1. OwnOK' /\ Whole'
    BY <1>0, <1>p DEF OwnOK, Whole, Sound
  <1>2. Covered'
    <2> SUFFICES ASSUME NEW v \in Unit, NEW j \in 1..Len(stamp), j <= cursor',
                        Sound(v, Key(stamp, v, j))
                 PROVE  j \in raw[v][Key(stamp, v, j)] \/ j \in frozen[v][Key(stamp, v, j)]
      BY <1>0, <1>p DEF Covered, Processed, Sound
    <2>1. j <= upTo /\ ~ Holds(batch, j, v)
      BY <1>c, NoneHeld, Known
    <2> QED BY <2>1 DEF Covered, Processed
  <1>3. \A v \in Unit, b \in Bucket : \A j \in live[v][b] : j <= cursor'
    <2> TAKE v \in Unit, b \in Bucket
    <2> TAKE j \in live[v][b]
    <2>1. j \in 1..Len(stamp) /\ j <= cursor
      BY Failing DEF OwnOK, Own
    <2> QED BY <1>c, <2>1, Known
  <1>4. ASSUME NEW v \in Unit, NEW b \in Bucket, Open(v, b)'
        PROVE  /\ \A j \in 1..cursor' : Key(stamp, v, j) <= b
               /\ lastKey[v] = b
               /\ live[v][b] # {} \/ \E j \in 1..Len(stamp) : Window(j) /\ Key(stamp, v, j) = b
    <2>1. Ordered(stamp, v, b) /\ LatestOK(v, b)
      BY <1>0, <1>p, <1>4 DEF OpenOK, Open, Explained
    <2>2. lastKey[v] = b
      BY <2>1, Failing
    <2>3. Key(stamp, v, upTo) = b
      BY <1>c, <2>2, NoneHeld DEF KeysOK
    <2>4. ASSUME NEW j \in 1..cursor'
          PROVE  Key(stamp, v, j) <= b
      <3>1. j \in 1..Len(stamp) /\ j <= upTo
        BY <1>c, Known
      <3>2. CASE j < upTo
        BY <1>c, <2>1, <2>3, <3>1, <3>2, OrderedBy
      <3>3. CASE j = upTo
        BY <2>3, <3>3, Known
      <3> QED BY <1>c, <3>1, <3>2, <3>3
    <2> QED BY <2>1, <2>2, <2>4, Failing
  <1>5. /\ raw' \in Candles /\ live' \in Candles /\ frozen' \in Candles
        /\ lastKey' \in [Unit -> Bucket \cup {None}] /\ pending' \in [Unit -> Bucket \cup {None}]
        /\ ripe' \subseteq ripe /\ dirty' \subseteq dirty /\ lost' \subseteq Pair /\ torn' \subseteq Pair
    BY <1>p DEF TypeOK
  <1> QED BY <1>p, <1>c, <1>1, <1>2, <1>3, <1>4, <1>5, Failing DEF Kept

LEMMA RecomputeFails ==
    ASSUME IInv, TickFails, pc = "recompute"
    PROVE  Kept
  <1> USE DEF IInv
  <1>0. /\ pc' \in {"poll", "dead"} /\ stamp' = stamp
        /\ lastId <= cursor /\ cursor <= lastId + Limit /\ lastId + Limit \in Nat
    BY FailsFrame
  <1>p. /\ \E D \in SUBSET dirty : live' = Computed(D)
        /\ dirty' \subseteq dirty
        /\ UNCHANGED <<cursor, raw, frozen, lastKey, pending, ripe, lost, torn>>
    <2>1. PICK D \in SUBSET dirty : \E p \in dirty \ D :
             /\ dirty' = dirty \ (D \cup {p})
             /\ live' \in {Computed(D), Computed(D \cup {p})}
             /\ UNCHANGED <<cursor, raw, frozen, lastKey, freezer, torn>>
      BY DEF TickFails, PartOf
    <2>2. PICK p \in dirty \ D :
             /\ dirty' = dirty \ (D \cup {p})
             /\ live' \in {Computed(D), Computed(D \cup {p})}
             /\ UNCHANGED <<cursor, raw, frozen, lastKey, freezer, torn>>
      BY <2>1
    <2>3. D \cup {p} \in SUBSET dirty
      BY <2>2
    <2> QED BY <2>2, <2>3 DEF freezer
  <1>l. /\ live' \in Candles /\ Own(stamp, live')
        /\ \A v \in Unit, b \in Bucket :
              /\ \A i \in live'[v][b] : i <= cursor
              /\ live[v][b] # {} => live'[v][b] # {}
    BY <1>p, ComputedOK
  <1>1. OwnOK' /\ Whole' /\ Covered'
    BY <1>0, <1>p, <1>l DEF OwnOK, Whole, Covered, Processed, Sound
  <1>2. \A v \in Unit, b \in Bucket : Open(v, b)' => LatestOK(v, b)
    BY <1>0, <1>p DEF OpenOK, Open, Explained
  <1>3. /\ cursor' \in 0..Len(stamp) /\ cursor <= cursor' /\ cursor' <= lastId + Limit
        /\ raw' \in Candles /\ frozen' \in Candles
        /\ lastKey' \in [Unit -> Bucket \cup {None}] /\ pending' \in [Unit -> Bucket \cup {None}]
        /\ ripe' \subseteq ripe /\ lost' \subseteq Pair /\ torn' \subseteq Pair
    BY <1>0, <1>p, Known DEF TypeOK
  <1>4. \A v \in Unit, b \in Bucket : Open(v, b)' =>
          /\ \A i \in 1..cursor : Key(stamp, v, i) <= b
          /\ lastKey[v] = b
          /\ live'[v][b] # {} \/ \E j \in 1..Len(stamp) : Window(j) /\ Key(stamp, v, j) = b
    BY <1>l, <1>2, Failing
  <1> QED BY <1>p, <1>l, <1>1, <1>3, <1>4, Failing DEF Kept

LEMMA FreezeFails ==
    ASSUME IInv, TickFails, pc = "freeze"
    PROVE  Kept
  <1> USE DEF IInv
  <1>0. /\ pc' \in {"poll", "dead"} /\ pc' # "cold" /\ stamp' = stamp
        /\ lastId <= cursor /\ cursor <= lastId + Limit /\ lastId + Limit \in Nat
    BY FailsFrame
  <1>p. PICK u \in due :
           /\ (raw' = raw /\ live' = live /\ frozen' = frozen) \/ FreezeBucket(u, pending[u])
           /\ \/ pending' = pending /\ ripe' = ripe
              \/ /\ raw'[u][pending[u]] = {}
                 /\ pending' = [pending EXCEPT ![u] = None] /\ ripe' = ripe \ {u}
           /\ UNCHANGED <<cursor, lastKey, lost, dirty, torn>>
    BY DEF TickFails, PartOf
  <1>u. u \in Unit /\ ripe \subseteq Unit
    BY TaskAssumption DEF ControlOK, TypeOK, TaskAssumption
  <1>f. /\ raw' \in Candles /\ live' \in Candles /\ frozen' \in Candles
        /\ OwnOK' /\ Whole'
        /\ \A v \in Unit, b \in Bucket :
              /\ raw'[v][b] \subseteq raw[v][b] /\ live'[v][b] \subseteq live[v][b]
              /\ raw'[v][b] # {} => live'[v][b] = live[v][b]
              /\ frozen[v][b] # {} => frozen'[v][b] # {}
              /\ Sound(v, b) => raw[v][b] \cup frozen[v][b] \subseteq raw'[v][b] \cup frozen'[v][b]
    <2>1. CASE raw' = raw /\ live' = live /\ frozen' = frozen
      <3>1. OwnOK' /\ Whole'
        BY <1>0, <1>p, <2>1 DEF OwnOK, Whole, Sound
      <3> QED BY <2>1, <3>1 DEF TypeOK
    <2>2. CASE FreezeBucket(u, pending[u])
      <3>1. /\ raw' \in Candles /\ live' \in Candles /\ frozen' \in Candles
            /\ OwnOK' /\ Whole' /\ raw'[u][pending[u]] = {}
            /\ \A v \in Unit, b \in Bucket :
                 /\ raw'[v][b] \subseteq raw[v][b] /\ live'[v][b] \subseteq live[v][b]
                 /\ v # u \/ b # pending[u] => live'[v][b] = live[v][b]
                 /\ frozen[v][b] # {} => frozen'[v][b] # {}
                 /\ Sound(v, b) => raw[v][b] \cup frozen[v][b] \subseteq raw'[v][b] \cup frozen'[v][b]
        <4>1. torn' = torn
          BY <1>p
        <4> QED BY <1>0, <2>2, <4>1, FreezeOK
      <3> QED BY <3>1
    <2> QED BY <1>p, <2>1, <2>2
  <1>q. /\ pending' \in [Unit -> Bucket \cup {None}] /\ ripe' \subseteq ripe
        /\ \A v \in Unit : pending'[v] = pending[v] \/ (pending'[v] = None /\ v = u /\ raw'[u][pending[u]] = {})
        /\ \A v \in ripe' : pending'[v] # None
    <2>1. pending \in [Unit -> Bucket \cup {None}] /\ \A v \in ripe : pending[v] # None
      BY DEF TypeOK, ControlOK
    <2> QED BY <1>p, <1>u, <2>1
  <1>1. Covered'
    <2> SUFFICES ASSUME NEW v \in Unit, NEW j \in 1..Len(stamp), j <= cursor,
                        Sound(v, Key(stamp, v, j))
                 PROVE  j \in raw'[v][Key(stamp, v, j)] \/ j \in frozen'[v][Key(stamp, v, j)]
      BY <1>0, <1>p DEF Covered, Processed, Sound
    <2>1. Key(stamp, v, j) \in Bucket
      BY Known
    <2>2. j \in raw[v][Key(stamp, v, j)] \cup frozen[v][Key(stamp, v, j)]
      BY DEF Covered, Processed
    <2> QED BY <1>f, <2>1, <2>2
  <1>2. ASSUME NEW v \in Unit, NEW b \in Bucket, Open(v, b)'
        PROVE  LatestOK(v, b) /\ live'[v][b] = live[v][b]
    <2>1. /\ raw'[v][b] # {} /\ frozen'[v][b] = {} /\ Ordered(stamp, v, b)
          /\ pending'[v] # b /\ <<v, b>> \notin lost
      BY <1>0, <1>p, <1>2 DEF Open, Explained
    <2>2. pending[v] # b
      BY <1>q, <2>1
    <2>3. raw[v][b] # {} /\ frozen[v][b] = {}
      BY <1>f, <2>1
    <2> QED BY <1>f, <2>1, <2>2, <2>3 DEF OpenOK, Open, Explained
  <1>3. \A v \in Unit, b \in Bucket :
           /\ \A j \in raw'[v][b] : j \in 1..Len(stamp) /\ j <= lastId + Limit
           /\ \A j \in live'[v][b] : j <= cursor
    BY <1>f, Failing
  <1>4. \A v \in Unit : pending'[v] # None /\ Ordered(stamp, v, pending'[v]) =>
          \/ \E j \in 1..Len(stamp) : j <= lastId + Limit /\ Key(stamp, v, j) > pending'[v]
          \/ /\ lastKey[v] \notin {None, pending'[v]}
             /\ \E j \in 1..Len(stamp) : Window(j) /\ Key(stamp, v, j) = pending'[v]
    BY <1>q, Failing
  <1>5. /\ cursor' \in 0..Len(stamp) /\ cursor <= cursor' /\ cursor' <= lastId + Limit
        /\ lastKey' \in [Unit -> Bucket \cup {None}]
        /\ dirty' \subseteq dirty /\ lost' \subseteq Pair /\ torn' \subseteq Pair
    BY <1>0, <1>p, Known DEF TypeOK
  <1> QED BY <1>p, <1>f, <1>q, <1>1, <1>2, <1>3, <1>4, <1>5, Failing DEF Kept

LEMMA TickFailsStep ==
    ASSUME IInv, TickFails, Kept
    PROVE  IInv'
  <1> USE DEF IInv
  <1>0. /\ pc \in Loop /\ pc' \in {"poll", "dead"} /\ pc' # "cold" /\ fails' = fails + 1
        /\ batch' = <<>> /\ due' = {} /\ upTo' = lastId /\ lastId' = lastId
        /\ stamp' = stamp /\ late' = late /\ fails' \in 1..FailCap /\ faults' \in 0..MaxFaults
        /\ pc' = "poll" => fails' < FailCap
        /\ lastId <= cursor /\ cursor <= lastId + Limit /\ lastId + Limit \in Nat
    BY FailsFrame
  <1>c. /\ cursor' \in 0..Len(stamp) /\ cursor <= cursor' /\ cursor' <= lastId + Limit
        /\ lastId <= cursor' /\ lastId + Limit <= cursor' + Limit
    BY <1>0, Known DEF Kept
  <1>w. \A u : \A j \in 1..Len(stamp) : pc' = "poll" =>
           /\ j <= lastId + Limit => Noted(j)'
           /\ Window(j) => ToAdd(j, u)'
    BY <1>0 DEF Noted, ToAdd, Window
  <1>1. TypeOK'
    <2>1. fails' \in 0..FailCap /\ ripe' \subseteq Freezable /\ dirty' \subseteq Pair
      BY <1>0, TaskAssumption DEF Kept, TypeOK, TaskAssumption
    <2>2. batch' \in Seq((1..MaxSample) \X Unit) /\ pc' \in {"poll", "dead"}
      BY <1>0
    <2> QED BY <1>0, <2>1, <2>2 DEF Kept, TypeOK
  <1>2. ControlOK'
    BY <1>0, <1>c DEF Kept, ControlOK, Loop
  <1>3. OwnOK' /\ SeenOK'
    <2>1. ASSUME NEW u \in Unit, NEW b \in Bucket, NEW i \in raw'[u][b]
          PROVE  i \in 1..Len(stamp) /\ i <= lastId + Limit /\ i <= cursor' + Limit
      <3>1. i \in 1..Len(stamp) /\ i <= lastId + Limit
        BY DEF Kept
      <3> QED BY <1>0, <1>c, <3>1, Known
    <2> QED BY <1>0, <2>1 DEF Kept, SeenOK, Noted
  <1>4. Covered'
    BY DEF Kept
  <1>5. Whole'
    BY DEF Kept
  <1>6. KeysOK'
    BY <1>0, <1>w DEF Kept, KeysOK, Loop
  <1>7. PendingOK'
    BY <1>0, <1>w DEF Kept, PendingOK, Loop
  <1>8. OpenOK'
    <2> SUFFICES ASSUME NEW u \in Unit, NEW b \in Bucket, Open(u, b)'
                 PROVE  LatestOK(u, b)'
      BY DEF OpenOK
    <2>1. /\ \A i \in 1..cursor' : Key(stamp, u, i) <= b
          /\ lastKey'[u] = b
          /\ live'[u][b] # {} \/ \E j \in 1..Len(stamp) : Window(j) /\ Key(stamp, u, j) = b
      BY DEF Kept
    <2>2. pc' = "poll" => live'[u][b] # {} \/ Again(u, b)'
      BY <1>0, <1>w, <2>1 DEF Again
    <2>3. fails' > 0
      BY <1>0, TaskAssumption DEF TaskAssumption
    <2> QED BY <1>0, <2>1, <2>2, <2>3 DEF LatestOK
  <1>9. DirtyOK'
    <2> SUFFICES ASSUME pc' = "poll", NEW u \in Unit, NEW b \in Bucket, <<u, b>> \in dirty'
                 PROVE  \E j \in 1..Len(stamp) : lastId < j /\ Noted(j)' /\ Key(stamp, u, j) = b
      BY <1>0 DEF DirtyOK, Loop
    <2>1. PICK j \in 1..Len(stamp) : lastId < j /\ Noted(j) /\ Key(stamp, u, j) = b
      BY <1>0 DEF Kept, DirtyOK
    <2> QED BY <1>0, <1>w, <2>1, InWindow
  <1> QED BY <1>1, <1>2, <1>3, <1>4, <1>5, <1>6, <1>7, <1>8, <1>9 DEF IInv

LEMMA Start == Init => IInv
  <1> SUFFICES ASSUME Init PROVE IInv
    OBVIOUS
  <1> USE DEF Init
  <1>1. TypeOK
    <2>1. Empty \in Candles /\ NoKeys \in [Unit -> Bucket \cup {None}]
      BY DEF Empty, Candles, NoKeys
    <2> QED BY <2>1, TaskAssumption DEF TypeOK, TaskAssumption
  <1>2. ControlOK
    BY DEF ControlOK, Loop
  <1>3. \A u \in Unit, b \in Bucket : raw[u][b] = {} /\ live[u][b] = {} /\ frozen[u][b] = {}
    BY DEF Empty
  <1>4. OwnOK /\ SeenOK /\ Whole
    BY <1>3 DEF OwnOK, Own, SeenOK, Whole
  <1>5. Covered
    BY DEF Covered
  <1>6. KeysOK /\ PendingOK /\ DirtyOK
    BY DEF KeysOK, PendingOK, DirtyOK, Loop
  <1>7. OpenOK
    BY <1>3 DEF OpenOK, Open
  <1> QED BY <1>1, <1>2, <1>4, <1>5, <1>6, <1>7 DEF IInv

LEMMA Stutters == IInv /\ UNCHANGED vars => IInv'
  <1> SUFFICES ASSUME IInv, UNCHANGED vars PROVE IInv'
    OBVIOUS
  <1> USE DEF IInv, vars
  <1>1. TypeOK'
    BY DEF TypeOK
  <1>2. ControlOK'
    BY DEF ControlOK
  <1>3. OwnOK' /\ SeenOK'
    BY DEF OwnOK, SeenOK, Noted
  <1>4. Covered'
    BY DEF Covered, Processed, Sound
  <1>5. Whole'
    BY DEF Whole, Sound
  <1>6. KeysOK'
    BY DEF KeysOK, Noted
  <1>7. PendingOK'
    BY DEF PendingOK, Noted, ToAdd
  <1>8. OpenOK'
    BY DEF OpenOK, Open, LatestOK, Explained, Again, Noted, ToAdd
  <1>9. DirtyOK'
    BY DEF DirtyOK, Noted
  <1> QED BY <1>1, <1>2, <1>3, <1>4, <1>5, <1>6, <1>7, <1>8, <1>9 DEF IInv

\* The invariant is one: whatever the task does and however it fails.
THEOREM Inductive == Spec => []IInv
  <1>1. ASSUME IInv, [Next]_vars
        PROVE  IInv'
    <2>1. CASE \E t \in Time : Arrive(t)
      BY <1>1, <2>1, ArriveStep
    <2>2. CASE WarmStart
      BY <1>1, <2>2, WarmStartStep
    <2>3. CASE ColdStart
      BY <1>1, <2>3, ColdStartStep
    <2>4. CASE ColdUnit
      BY <1>1, <2>4, ColdUnitStep
    <2>5. CASE ColdDone
      BY <1>1, <2>5, ColdDoneStep
    <2>6. CASE Fetch
      BY <1>1, <2>6, FetchStep
    <2>7. CASE AddSample
      BY <1>1, <2>7, AddSampleStep
    <2>8. CASE SetCursor
      BY <1>1, <2>8, SetCursorStep
    <2>9. CASE RecomputeDirty
      BY <1>1, <2>9, RecomputeStep
    <2>10. CASE TickDone
      BY <1>1, <2>10, TickDoneStep
    <2>11. CASE \E u \in Unit : Freeze(u)
      BY <1>1, <2>11, FreezeStep
    <2>12. CASE ColdFails
      BY <1>1, <2>12, ColdFailsStep
    <2>13. CASE TickFails
      <3>1. pc \in Loop
        BY <1>1, <2>13, FailsFrame
      <3>2. Kept
        BY <1>1, <2>13, <3>1, PollFails, AddFails, CursorFails, RecomputeFails, FreezeFails DEF Loop
      <3> QED BY <1>1, <2>13, <3>2, TickFailsStep
    <2>14. CASE End
      BY <1>1, <2>14, EndStep
    <2>15. CASE \E u \in Freezable : Ripen(u)
      BY <1>1, <2>15, RipenStep
    <2>16. CASE UNCHANGED vars
      BY <1>1, <2>16, Stutters
    <2> QED BY <1>1, <2>1, <2>2, <2>3, <2>4, <2>5, <2>6, <2>7, <2>8, <2>9, <2>10, <2>11,
               <2>12, <2>13, <2>14, <2>15, <2>16 DEF Next, TaskStep
  <1> QED BY <1>1, Start, PTL DEF Spec

-----------------------------------------------------------------------------
(* The theorems *)

\* The types of StationTask: its cursors, candles, pending buckets and dirty
\* pairs stay what StationTask.__init__ and the Redis keys make them.
THEOREM TypeCorrect == Spec => []TypeOK
  <1>1. IInv => TypeOK
    BY DEF IInv
  <1> QED BY <1>1, Inductive, PTL

\* A frozen candle holds every sample of its bucket, for any number of units,
\* samples, restarts and failed ticks: unless a sample came out of order or the
\* tick that froze the bucket failed and added its samples again.
THEOREM FrozenIsWhole == Spec => []FrozenWhole
  <1>1. ASSUME IInv
        PROVE  FrozenWhole
    <2> SUFFICES ASSUME NEW u \in Unit, NEW b \in Bucket,
                        frozen[u][b] # {}, InOrder(u, b), <<u, b>> \notin torn
                 PROVE  frozen[u][b] = Samples(u, b, Len(stamp))
      BY DEF FrozenWhole
    <2>1. Sound(u, b)
      BY DEF Sound, Ordered, InOrder, Key, KeyOf
    <2>2. \A i \in 1..Len(stamp) : Key(stamp, u, i) = b => i \in frozen[u][b]
      BY <1>1, <2>1 DEF IInv, Whole
    <2>3. \A i \in frozen[u][b] : i \in 1..Len(stamp) /\ Key(stamp, u, i) = b
      BY <1>1 DEF IInv, OwnOK, Own
    <2> QED BY <2>2, <2>3 DEF Samples, KeyOf, Key
  <1> QED BY <1>1, Inductive, PTL

\* After a tick without a failure the chart leaves out a bucket that holds
\* samples only while it waits to be frozen or when the freezer lost it.
THEOREM HiddenIsExplained == Spec => []HiddenExplained
  <1>1. ASSUME IInv
        PROVE  HiddenExplained
    <2> USE <1>1 DEF IInv
    <2> SUFFICES ASSUME pc = "poll", fails = 0, NEW u \in Freezable, NEW b \in Hidden(u),
                        InOrder(u, b), pending[u] # b, <<u, b>> \notin lost
                 PROVE  FALSE
      BY DEF HiddenExplained
    <2>1. /\ u \in Unit /\ b \in Bucket /\ raw[u][b] # {} /\ frozen[u][b] = {}
          /\ live[u][b] # {} => \E c \in Bucket : live[u][c] # {} /\ ~ (c <= b)
      BY TaskAssumption DEF TaskAssumption, Hidden, Shown
    <2>2. LatestOK(u, b)
      <3>1. Ordered(stamp, u, b)
        BY DEF Ordered, InOrder, Key, KeyOf
      <3> QED BY <2>1, <3>1 DEF OpenOK, Open, Explained
    <2>3. live[u][b] # {} /\ \A i \in 1..cursor : Key(stamp, u, i) <= b
      BY <2>2 DEF LatestOK
    <2>4. PICK c \in Bucket : live[u][c] # {} /\ ~ (c <= b)
      BY <2>1, <2>3
    <2>5. PICK i \in live[u][c] : i \in 1..Len(stamp) /\ i <= cursor /\ Key(stamp, u, i) = c
      BY <2>1, <2>4 DEF OwnOK, Own, SeenOK, Loop
    <2>6. i \in 1..cursor
      BY <2>5, Known
    <2> QED BY <2>3, <2>4, <2>5, <2>6
  <1> QED BY <1>1, Inductive, PTL

-----------------------------------------------------------------------------
(* Broadcaster *)

\* A request that is not over has its topic.
Asked == \A c \in Client : stage[c] # "none" => topic[c] \in Topic

SseInv == SseTypeOK /\ Asked /\ PumpsFollowQueues

LEMMA InitSseInv == SseInit => SseInv
<1> SUFFICES ASSUME SseInit PROVE SseInv
    OBVIOUS
<1> USE BroadcasterAssumption DEF SseInit
<1>1. SseTypeOK
  <2>1. <<>> \in Seq(Event) /\ <<>> \in Seq(Station) /\ Len(<<>>) = 0
        OBVIOUS
  <2>2. log \in Seq(Station) /\ Len(log) <= MaxEvents
        BY <2>1
  <2>3. /\ inbox \in [Topic -> Seq(Event)] /\ queue \in [Client -> Seq(Event)]
        /\ got \in [Client -> Seq(Event)]
        BY <2>1
  <2>4. deaths \in 0..MaxDeaths /\ since \in [Client -> Event \cup {0}]
        OBVIOUS
  <2> QED BY <2>2, <2>3, <2>4 DEF SseTypeOK
<1>2. Asked BY DEF Asked
<1>3. PumpsFollowQueues BY DEF PumpsFollowQueues
<1> QED BY <1>1, <1>2, <1>3 DEF SseInv

-----------------------------------------------------------------------------
(* Every action keeps the types *)

\* A queue takes one more event, whether or not it was full.
LEMMA PutTypes ==
    ASSUME NEW q \in Seq(Event), NEW cap, NEW e \in Event
    PROVE  PutNowait(q, cap, e) \in Seq(Event)
<1>1. CASE Len(q) < cap BY <1>1 DEF PutNowait
<1>2. CASE ~(Len(q) < cap)
  <2>1. CASE q = <<>>
    <3>1. Tail(q) = <<>> \/ Tail(q) # <<>> OBVIOUS
    <3> QED BY <1>2, <2>1 DEF PutNowait
  <2>2. CASE q # <<>> BY <1>2, <2>2 DEF PutNowait
  <2> QED BY <2>1, <2>2
<1> QED BY <1>1, <1>2

LEMMA PumpTypes ==
    ASSUME SseTypeOK,
           (\E s \in Station : Publish(s)) \/ Close
           \/ (\E t \in Topic : PumpReady(t) \/ FanOut(t) \/ PumpDies(t))
    PROVE  SseTypeOK'
<1> USE BroadcasterAssumption DEF SseTypeOK, Event
<1>1. ASSUME NEW s \in Station, Publish(s) PROVE SseTypeOK'
  <2>1. Len(log) + 1 \in 1..MaxEvents /\ log' = Append(log, s) /\ Len(log') = Len(log) + 1
        BY <1>1 DEF Publish
  <2>2. \A t \in Topic : inbox'[t] \in Seq(1..MaxEvents)
    <3> TAKE t \in Topic
    <3>1. inbox[t] \in Seq(1..MaxEvents) /\ Append(inbox[t], Len(log) + 1) \in Seq(1..MaxEvents)
          BY <2>1
    <3>2. inbox'[t] \in {inbox[t], Append(inbox[t], Len(log) + 1)}
          BY <1>1 DEF Publish
    <3> QED BY <3>1, <3>2
  <2>3. inbox' \in [Topic -> Seq(1..MaxEvents)]
        BY <1>1, <2>2 DEF Publish
  <2> QED BY <1>1, <2>1, <2>3 DEF Publish
<1>2. CASE Close BY <1>2 DEF Close
<1>3. ASSUME NEW t \in Topic, PumpReady(t) PROVE SseTypeOK'
  <2>1. since' \in [Client -> (1..MaxEvents) \cup {0}]
        BY <1>3 DEF PumpReady
  <2> QED BY <1>3, <2>1 DEF PumpReady
<1>4. ASSUME NEW t \in Topic, FanOut(t) PROVE SseTypeOK'
  <2>1. Head(inbox[t]) \in Event /\ inbox' \in [Topic -> Seq(Event)]
        BY <1>4 DEF FanOut
  <2>2. \A c \in Client : queue'[c] \in Seq(Event)
    <3> TAKE c \in Client
    <3>1. queue[c] \in Seq(Event) BY DEF SseTypeOK
    <3>2. PutNowait(queue[c], Cap[t], Head(inbox[t])) \in Seq(Event)
          BY <2>1, <3>1, PutTypes
    <3> QED BY <1>4, <3>1, <3>2 DEF FanOut
  <2>3. queue' \in [Client -> Seq(Event)]
        BY <1>4, <2>2 DEF FanOut
  <2> QED BY <1>4, <2>1, <2>3 DEF FanOut
<1>5. ASSUME NEW t \in Topic, PumpDies(t) PROVE SseTypeOK'
      BY <1>5 DEF PumpDies
<1> QED BY <1>1, <1>2, <1>3, <1>4, <1>5

LEMMA ClientTypes ==
    ASSUME SseTypeOK, Asked, NEW c \in Client,
           \/ Begin(c) \/ LeaveTopic(c) \/ Leak(c) \/ Send(c) \/ Notice(c)
           \/ \E t \in Topic : Subscribe(c, t)
    PROVE  SseTypeOK'
<1> USE BroadcasterAssumption DEF SseTypeOK, Event
<1>1. CASE Begin(c) \/ LeaveTopic(c) \/ Leak(c)
  <2>1. CASE Begin(c) BY <2>1 DEF Begin
  <2>2. CASE LeaveTopic(c) BY <2>2 DEF LeaveTopic
  <2>3. CASE Leak(c) BY <2>3 DEF Leak
  <2> QED BY <1>1, <2>1, <2>2, <2>3
<1>2. CASE Send(c) BY <1>2 DEF Send
<1>3. CASE Notice(c)
  <2>1. topic[c] \in Topic BY <1>3 DEF Notice, Asked
  <2>2. /\ subs' \in [Topic -> SUBSET Client] /\ inbox' \in [Topic -> Seq(Event)]
        /\ pump' \in [Topic -> {"none", "starting", "live", "dead"}]
    <3>1. subs' = [subs EXCEPT ![topic[c]] = subs[topic[c]] \ {c}]
          BY <1>3 DEF Notice, Finish, Unsubscribe
    <3>2. \/ pump' = pump /\ inbox' = inbox
          \/ /\ pump' = [pump EXCEPT ![topic[c]] = "none"]
             /\ inbox' = [inbox EXCEPT ![topic[c]] = <<>>]
          BY <1>3 DEF Notice, Finish, Unsubscribe
    <3>3. subs' \in [Topic -> SUBSET Client]
          BY <2>1, <3>1
    <3>4. CASE pump' = pump /\ inbox' = inbox
          BY <3>3, <3>4
    <3>5. CASE /\ pump' = [pump EXCEPT ![topic[c]] = "none"]
               /\ inbox' = [inbox EXCEPT ![topic[c]] = <<>>]
      <4>1. pump' \in [Topic -> {"none", "starting", "live", "dead"}]
            BY <2>1, <3>5
      <4>2. inbox' \in [Topic -> Seq(Event)]
            BY <2>1, <3>5
      <4> QED BY <3>3, <4>1, <4>2
    <3> QED BY <3>2, <3>4, <3>5
  <2> QED BY <1>3, <2>2 DEF Notice, Finish
<1>4. ASSUME NEW t \in Topic, Subscribe(c, t) PROVE SseTypeOK'
  <2>1. IF inbox[t] = <<>> THEN Len(log) \in Event \cup {0}
        ELSE Head(inbox[t]) - 1 \in Event \cup {0}
    <3>1. CASE inbox[t] = <<>>
          BY <3>1
    <3>2. CASE inbox[t] # <<>>
      <4>1. inbox[t] \in Seq(1..MaxEvents)
            OBVIOUS
      <4>2. Head(inbox[t]) \in 1..MaxEvents
            BY <3>2, <4>1
      <4> QED BY <3>2, <4>2
    <3> QED BY <3>1, <3>2
  <2>2. since' \in [Client -> Event \cup {0}]
        BY <1>4, <2>1 DEF Subscribe
  <2> QED BY <1>4, <2>2 DEF Subscribe
<1> QED BY <1>1, <1>2, <1>3, <1>4

-----------------------------------------------------------------------------
(* Queues come and go with their pumps *)

LEMMA PumpStays ==
    ASSUME SseTypeOK, Asked, PumpsFollowQueues,
           (\E s \in Station : Publish(s)) \/ Close
           \/ (\E t \in Topic : PumpReady(t) \/ FanOut(t) \/ PumpDies(t))
    PROVE  Asked' /\ PumpsFollowQueues'
<1>1. UNCHANGED <<stage, topic>>
      BY DEF Publish, Close, PumpReady, FanOut, PumpDies
<1>2. Asked' BY <1>1 DEF Asked, Topic
<1>3. CASE Close
  <2>1. \A t \in Topic : pump'[t] = "none" /\ subs'[t] = {}
        BY <1>3 DEF Close
  <2> QED BY <1>2, <2>1 DEF PumpsFollowQueues, Topic
<1>4. CASE ~Close
  <2>1. subs' = subs
        BY <1>4 DEF Publish, PumpReady, FanOut, PumpDies
  <2>2. \A t \in Topic : (pump'[t] = "none") <=> (pump[t] = "none")
        BY <1>4 DEF Publish, PumpReady, FanOut, PumpDies, SseTypeOK
  <2>3. \A t \in Topic : (pump[t] # "none") <=> (subs[t] # {})
        BY DEF PumpsFollowQueues
  <2>4. \A t \in Topic : (pump'[t] # "none") <=> (subs'[t] # {})
        BY <2>1, <2>2, <2>3
  <2> QED BY <1>2, <2>4 DEF PumpsFollowQueues, Topic
<1> QED BY <1>3, <1>4

LEMMA ClientKeepsPump ==
    ASSUME SseTypeOK, Asked, PumpsFollowQueues, NEW c \in Client,
           \/ Begin(c) \/ LeaveTopic(c) \/ Leak(c) \/ Send(c) \/ Notice(c)
           \/ \E t \in Topic : Subscribe(c, t)
    PROVE  Asked' /\ PumpsFollowQueues'
<1>1. CASE Begin(c) \/ LeaveTopic(c) \/ Leak(c) \/ Send(c)
  <2>1. UNCHANGED <<topic, pump, subs>> /\ \A d \in Client : stage'[d] # "none" => stage[d] # "none"
        BY <1>1 DEF Begin, LeaveTopic, Leak, Send, SseTypeOK
  <2> QED BY <2>1 DEF Asked, PumpsFollowQueues, Topic
<1>2. CASE Notice(c)
  <2>1. topic[c] \in Topic BY <1>2 DEF Notice, Asked
  <2>2. Asked' BY <1>2 DEF Notice, Finish, Asked, SseTypeOK, Topic
  <2>3. subs' = [subs EXCEPT ![topic[c]] = subs[topic[c]] \ {c}]
        BY <1>2 DEF Notice, Finish, Unsubscribe
  <2>4. ASSUME NEW t \in Topic PROVE pump'[t] # "none" <=> subs'[t] # {}
    <3>1. CASE t # topic[c]
      <4>1. subs'[t] = subs[t] /\ pump'[t] = pump[t]
            BY <1>2, <2>1, <2>3, <3>1 DEF Notice, Finish, Unsubscribe, SseTypeOK
      <4> QED BY <4>1 DEF PumpsFollowQueues
    <3>2. CASE t = topic[c] /\ subs[t] \subseteq {c}
          BY <1>2, <2>3, <3>2 DEF Notice, Finish, Unsubscribe, SseTypeOK
    <3>3. CASE t = topic[c] /\ ~(subs[t] \subseteq {c})
      <4>1. pump' = pump /\ subs[t] # {} /\ subs'[t] # {}
            BY <1>2, <2>3, <3>3 DEF Notice, Finish, Unsubscribe, SseTypeOK
      <4> QED BY <4>1 DEF PumpsFollowQueues
    <3> QED BY <3>1, <3>2, <3>3
  <2> QED BY <2>2, <2>4 DEF PumpsFollowQueues, Topic
<1>3. ASSUME NEW t \in Topic, Subscribe(c, t) PROVE Asked' /\ PumpsFollowQueues'
  <2>1. Asked' BY <1>3 DEF Subscribe, Asked, SseTypeOK, Topic
  <2>2. ASSUME NEW u \in Topic PROVE pump'[u] # "none" <=> subs'[u] # {}
    <3>1. CASE u # t BY <1>3, <3>1 DEF Subscribe, SseTypeOK, PumpsFollowQueues
    <3>2. CASE u = t
      <4>1. c \in subs'[u] /\ pump'[u] # "none"
            BY <1>3, <3>2 DEF Subscribe, SseTypeOK
      <4> QED BY <4>1
    <3> QED BY <3>1, <3>2
  <2> QED BY <2>1, <2>2 DEF PumpsFollowQueues, Topic
<1> QED BY <1>1, <1>2, <1>3

-----------------------------------------------------------------------------
(* The theorems *)

\* The invariant is inductive.
THEOREM SseInductive == SseSpec => []SseInv
<1>1. SseInit => SseInv
      BY InitSseInv
<1>2. SseInv /\ [SseNext]_sseVars => SseInv'
  <2> SUFFICES ASSUME SseInv, [SseNext]_sseVars
               PROVE  SseInv'
      OBVIOUS
  <2>1. SseTypeOK /\ Asked /\ PumpsFollowQueues
        BY DEF SseInv
  <2>2. CASE (\E s \in Station : Publish(s)) \/ Close
             \/ (\E t \in Topic : PumpReady(t) \/ FanOut(t) \/ PumpDies(t))
        BY <2>1, <2>2, PumpTypes, PumpStays DEF SseInv
  <2>3. ASSUME NEW c \in Client,
               \/ Begin(c) \/ LeaveTopic(c) \/ Leak(c) \/ Send(c) \/ Notice(c)
               \/ \E t \in Topic : Subscribe(c, t)
        PROVE  SseInv'
        BY <2>1, <2>3, ClientTypes, ClientKeepsPump DEF SseInv
  <2>4. CASE UNCHANGED sseVars
        BY <2>1, <2>4 DEF sseVars, SseInv, SseTypeOK, Asked, PumpsFollowQueues, Event, Topic
  <2> QED BY <2>2, <2>3, <2>4 DEF SseNext
<1> QED BY <1>1, <1>2, PTL DEF SseSpec

\* Every variable keeps its type.
THEOREM SseTypeCorrect == SseSpec => []SseTypeOK
<1>1. SseInv => SseTypeOK BY DEF SseInv
<1> QED BY <1>1, SseInductive, PTL

\* A topic has a pump exactly as long as there are queues to feed, however
\* clients come and go: Broadcaster.subscribe and unsubscribe.
THEOREM OnePumpPerTopic == SseSpec => []PumpsFollowQueues
<1>1. SseInv => PumpsFollowQueues BY DEF SseInv
<1> QED BY <1>1, SseInductive, PTL

-----------------------------------------------------------------------------
(* What the pumps feed to their clients *)

\* Expected, of any log: the events of a topic after n.
After(l, t, n) == {e \in 1..Len(l) : e > n /\ t \in {l[e], All}}

\* Everything in S comes before everything in T.
Before(S, T) == \A e \in S, f \in T : e < f

\* What a client was sent, what is in its queue and what is in the inbox of its
\* pump, of the events E it should get.
Fed(E, sent, q, box, cap) ==
    /\ Ascending(sent) /\ Ascending(q) /\ Ascending(box)
    /\ ToSet(sent) \subseteq E /\ ToSet(q) \subseteq E /\ ToSet(box) \subseteq E
    /\ Before(ToSet(sent), ToSet(q)) /\ Before(ToSet(sent), ToSet(box))
    /\ Before(ToSet(q), ToSet(box))
    /\ \A e \in E, f \in ToSet(q) \cup ToSet(box) : f < e => e \in ToSet(q) \cup ToSet(box)
    /\ Len(q) <= cap
    /\ Cardinality(E \ ToSet(box)) <= cap => E \subseteq ToSet(sent) \cup ToSet(q) \cup ToSet(box)

\* The elements of a sequence that got longer or shorter by one.
LEMMA AppendSet ==
    ASSUME NEW s \in Seq(Nat), NEW e \in Nat
    PROVE  /\ Append(s, e) \in Seq(Nat) /\ Len(Append(s, e)) = Len(s) + 1 /\ Len(s) \in Nat
           /\ ToSet(Append(s, e)) = ToSet(s) \cup {e}
           /\ Ascending(s) /\ Before(ToSet(s), {e}) => Ascending(Append(s, e))
<1>1. /\ Append(s, e) \in Seq(Nat) /\ Len(Append(s, e)) = Len(s) + 1 /\ Len(s) \in Nat
      /\ \A i \in 1..Len(s) : Append(s, e)[i] = s[i] /\ s[i] \in Nat
      /\ Append(s, e)[Len(s) + 1] = e
      /\ DOMAIN s = 1..Len(s) /\ DOMAIN Append(s, e) = 1..(Len(s) + 1)
      OBVIOUS
<1>2. ToSet(Append(s, e)) = ToSet(s) \cup {e}
  <2>1. ASSUME NEW x \in ToSet(Append(s, e)) PROVE x \in ToSet(s) \cup {e}
    <3>1. PICK i \in 1..(Len(s) + 1) : x = Append(s, e)[i]
          BY <1>1 DEF ToSet
    <3>2. i \in 1..Len(s) \/ i = Len(s) + 1
          BY <1>1
    <3> QED BY <1>1, <3>1, <3>2 DEF ToSet
  <2>2. ASSUME NEW x \in ToSet(s) PROVE x \in ToSet(Append(s, e))
    <3>1. PICK i \in 1..Len(s) : x = s[i]
          BY <1>1 DEF ToSet
    <3>2. i \in 1..(Len(s) + 1) /\ x = Append(s, e)[i]
          BY <1>1, <3>1
    <3> QED BY <1>1, <3>2 DEF ToSet
  <2>3. e \in ToSet(Append(s, e))
    <3>1. Len(s) + 1 \in 1..(Len(s) + 1)
          BY <1>1
    <3> QED BY <1>1, <3>1 DEF ToSet
  <2> QED BY <2>1, <2>2, <2>3
<1>3. ASSUME Ascending(s), Before(ToSet(s), {e}), NEW i \in 1..(Len(s) + 1),
             NEW j \in 1..(Len(s) + 1), i < j
      PROVE  Append(s, e)[i] < Append(s, e)[j]
  <2>1. i \in 1..Len(s) /\ s[i] \in ToSet(s)
        BY <1>1, <1>3 DEF ToSet
  <2>2. CASE j \in 1..Len(s)
        BY <1>1, <1>3, <2>1, <2>2 DEF Ascending
  <2>3. CASE j = Len(s) + 1
        BY <1>1, <1>3, <2>1, <2>3 DEF Before
  <2> QED BY <1>1, <2>2, <2>3
<1> QED BY <1>1, <1>2, <1>3 DEF Ascending

LEMMA TailSet ==
    ASSUME NEW s \in Seq(Nat), s # <<>>, Ascending(s)
    PROVE  /\ Tail(s) \in Seq(Nat) /\ Len(Tail(s)) = Len(s) - 1 /\ Len(s) \in Nat /\ Len(s) # 0
           /\ Head(s) \in Nat /\ Head(s) \in ToSet(s)
           /\ ToSet(Tail(s)) = ToSet(s) \ {Head(s)}
           /\ Ascending(Tail(s)) /\ Before({Head(s)}, ToSet(Tail(s)))
<1>1. /\ Tail(s) \in Seq(Nat) /\ Len(Tail(s)) = Len(s) - 1 /\ Len(s) \in Nat /\ Len(s) # 0
      /\ Head(s) = s[1] /\ \A i \in 1..Len(s) : s[i] \in Nat
      /\ \A i \in 1..(Len(s) - 1) : Tail(s)[i] = s[i + 1]
      /\ DOMAIN s = 1..Len(s) /\ DOMAIN Tail(s) = 1..(Len(s) - 1)
      OBVIOUS
<1>2. \A i, j \in 1..Len(s) : i < j => s[i] < s[j]
      BY <1>1 DEF Ascending
<1>3. ASSUME NEW i \in 1..(Len(s) - 1), NEW j \in 1..(Len(s) - 1), i < j
      PROVE  Tail(s)[i] < Tail(s)[j]
  <2>1. i + 1 \in 1..Len(s) /\ j + 1 \in 1..Len(s) /\ i + 1 < j + 1
        BY <1>1, <1>3
  <2> QED BY <1>1, <1>2, <2>1
<1>4. \A x : x \in ToSet(Tail(s)) <=> \E i \in 1..(Len(s) - 1) : x = s[i + 1]
      BY <1>1 DEF ToSet
<1>5. \A x : x \in ToSet(s) <=> \E i \in 1..Len(s) : x = s[i]
      BY <1>1 DEF ToSet
<1>6. 1 \in 1..Len(s) /\ Head(s) \in ToSet(s) /\ Head(s) \in Nat
      BY <1>1, <1>5
<1>7. ASSUME NEW x \in ToSet(Tail(s)) PROVE x \in ToSet(s) /\ Head(s) < x /\ x # Head(s)
  <2>1. PICK i \in 1..(Len(s) - 1) : x = s[i + 1]
        BY <1>4
  <2>2. i + 1 \in 1..Len(s) /\ 1 < i + 1 /\ s[i + 1] \in Nat
        BY <1>1
  <2>3. s[1] < s[i + 1]
        BY <1>2, <1>6, <2>2
  <2> QED BY <1>1, <1>5, <1>6, <2>1, <2>2, <2>3
<1>8. ASSUME NEW x \in ToSet(s), x # Head(s) PROVE x \in ToSet(Tail(s))
  <2>1. PICK i \in 1..Len(s) : x = s[i]
        BY <1>5
  <2>2. i - 1 \in 1..(Len(s) - 1) /\ x = s[(i - 1) + 1]
        BY <1>1, <1>8, <2>1
  <2> QED BY <1>4, <2>2
<1>9. Ascending(Tail(s))
      BY <1>1, <1>3 DEF Ascending
<1> QED BY <1>1, <1>6, <1>7, <1>8, <1>9 DEF Before

\* As many different elements as it is long.
LEMMA AscendingCard ==
    ASSUME NEW s \in Seq(Nat), Ascending(s), NEW S, ToSet(s) \subseteq S, IsFiniteSet(S)
    PROVE  Len(s) <= Cardinality(S)
<1>1. /\ Len(s) \in Nat /\ DOMAIN s = 1..Len(s) /\ \A i \in 1..Len(s) : s[i] \in Nat
      /\ s = [i \in 1..Len(s) |-> s[i]]
      OBVIOUS
<1>2. \A i \in 1..Len(s) : s[i] \in S
      BY <1>1 DEF ToSet
<1>3. s \in [1..Len(s) -> S]
      BY <1>1, <1>2
<1>4. ASSUME NEW i \in 1..Len(s), NEW j \in 1..Len(s), s[i] = s[j] PROVE i = j
  <2>1. ~(i < j) /\ ~(j < i)
        BY <1>1, <1>4 DEF Ascending
  <2> QED BY <1>1, <2>1
<1>5. s \in Injection(1..Len(s), S)
      BY <1>1, <1>3, <1>4 DEF Injection, IsInjective
<1>6. Cardinality(1..Len(s)) <= Cardinality(S)
      BY <1>5, FS_Injection
<1>7. Cardinality(1..Len(s)) = Len(s)
  <2>1. 1 \in Int /\ Len(s) \in Int
        BY <1>1
  <2>2. Cardinality(1..Len(s)) = IF 1 > Len(s) THEN 0 ELSE Len(s) - 1 + 1
        BY <2>1, FS_Interval, Zenon
  <2> QED BY <1>1, <2>2
<1> QED BY <1>6, <1>7

\* A new event that is for the client enters the inbox last.
LEMMA PublishFed ==
    ASSUME NEW E \in SUBSET Nat, NEW sent \in Seq(Nat), NEW q \in Seq(Nat), NEW box \in Seq(Nat),
           NEW cap \in Nat, Fed(E, sent, q, box, cap), NEW e \in Nat, Before(E, {e})
    PROVE  Fed(E \cup {e}, sent, q, Append(box, e), cap)
<1> DEFINE B == ToSet(box)
           C == ToSet(Append(box, e))
<1>1. C = B \cup {e} /\ (Before(B, {e}) => Ascending(Append(box, e)))
      BY AppendSet DEF Fed
<1> HIDE DEF B, C
<1>2. /\ Before(ToSet(sent), ToSet(q)) /\ Before(ToSet(sent), B) /\ Before(ToSet(q), B)
      /\ ToSet(sent) \subseteq E /\ ToSet(q) \subseteq E /\ B \subseteq E
      /\ Ascending(sent) /\ Ascending(q) /\ Len(q) <= cap
      /\ \A f \in E, g \in ToSet(q) \cup B : g < f => f \in ToSet(q) \cup B
      /\ Cardinality(E \ B) <= cap => E \subseteq ToSet(sent) \cup ToSet(q) \cup B
      BY DEF Fed, B
<1>3. Ascending(Append(box, e)) /\ Before(ToSet(sent), C) /\ Before(ToSet(q), C)
      BY <1>1, <1>2 DEF Before
<1>4. e \notin E
      BY DEF Before
<1>5. (E \cup {e}) \ C = E \ B
      BY <1>1, <1>4
<1>6. Cardinality((E \cup {e}) \ C) <= cap =>
          E \cup {e} \subseteq ToSet(sent) \cup ToSet(q) \cup C
      BY <1>1, <1>2, <1>5
<1>7. \A f \in E \cup {e}, g \in ToSet(q) \cup C : g < f => f \in ToSet(q) \cup C
  <2> TAKE f \in E \cup {e}, g \in ToSet(q) \cup C
  <2> HAVE g < f
  <2>1. CASE f = e BY <1>1, <2>1
  <2>2. CASE f # e
    <3>1. f \in E /\ f < e /\ f \in Nat /\ g # e
          BY <2>2 DEF Before
    <3> QED BY <1>1, <1>2, <3>1
  <2> QED BY <2>1, <2>2
<1>8. ToSet(sent) \subseteq E \cup {e} /\ ToSet(q) \subseteq E \cup {e} /\ C \subseteq E \cup {e}
      BY <1>1, <1>2
<1> QED BY <1>2, <1>3, <1>6, <1>7, <1>8 DEF Fed, C

\* The first event of the inbox goes to the queue, which may lose its oldest.
LEMMA FanOutFed ==
    ASSUME NEW E \in SUBSET Nat, NEW sent \in Seq(Nat), NEW q \in Seq(Nat), NEW box \in Seq(Nat),
           NEW cap \in Nat \ {0}, Fed(E, sent, q, box, cap), box # <<>>, IsFiniteSet(E)
    PROVE  Fed(E, sent, PutNowait(q, cap, Head(box)), Tail(box), cap)
<1> DEFINE B == ToSet(box)
           C == ToSet(Tail(box))
           Q == ToSet(q)
           S == ToSet(sent)
           h == Head(box)
<1>1. /\ Before(S, Q) /\ Before(S, B) /\ Before(Q, B) /\ S \subseteq E /\ Q \subseteq E /\ B \subseteq E
      /\ Ascending(sent) /\ Ascending(q) /\ Ascending(box) /\ Len(q) <= cap /\ Len(q) \in Nat
      /\ \A f \in E, g \in Q \cup B : g < f => f \in Q \cup B
      /\ Cardinality(E \ B) <= cap => E \subseteq S \cup Q \cup B
      BY DEF Fed
<1>2. /\ h \in Nat /\ h \in B /\ C = B \ {h} /\ Ascending(Tail(box)) /\ Before({h}, C)
      /\ Tail(box) \in Seq(Nat)
      BY <1>1, TailSet
<1> HIDE DEF B, C, Q, S, h
<1>3. Before(Q, {h}) /\ Before(Q, C) /\ Before(S, C) /\ Before(S, {h}) /\ C \subseteq E /\ h \in E
      BY <1>1, <1>2 DEF Before
<1>4. IsFiniteSet(E \ B) /\ IsFiniteSet(E \ C) /\ Cardinality(E \ B) <= Cardinality(E \ C)
  <2>1. E \ C \in SUBSET E /\ E \ B \in SUBSET (E \ C)
        BY <1>2
  <2>2. IsFiniteSet(E \ C)
        BY <2>1, FS_Subset, Zenon
  <2> QED BY <2>1, <2>2, FS_Subset, Zenon
<1>5. Cardinality(E \ B) \in Nat /\ Cardinality(E \ C) \in Nat
      BY <1>4, FS_CardinalityType
<1>6. CASE Len(q) < cap
  <2> DEFINE r == Append(q, h)
  <2>1. PutNowait(q, cap, h) = r
        BY <1>6 DEF PutNowait
  <2>2. Len(r) = Len(q) + 1 /\ ToSet(r) = Q \cup {h} /\ Ascending(r)
        BY <1>1, <1>2, <1>3, AppendSet DEF Q
  <2> HIDE DEF r
  <2>3. Before(S, ToSet(r)) /\ Before(ToSet(r), C) /\ ToSet(r) \subseteq E
        BY <1>1, <1>2, <1>3, <2>2 DEF Before
  <2>4. ToSet(r) \cup C = Q \cup B
        BY <1>2, <2>2
  <2>5. Cardinality(E \ C) <= cap => E \subseteq S \cup ToSet(r) \cup C
        BY <1>1, <1>4, <1>5, <2>4
  <2>6. Len(r) <= cap
        BY <1>1, <1>6, <2>2
  <2>7. \A f \in E, g \in ToSet(r) \cup C : g < f => f \in ToSet(r) \cup C
        BY <1>1, <2>4
  <2>8. Fed(E, sent, r, Tail(box), cap)
        BY <1>1, <1>2, <1>3, <2>2, <2>3, <2>5, <2>6, <2>7 DEF Fed, C, S
  <2> QED BY <2>1, <2>8 DEF h
<1>7. CASE ~(Len(q) < cap)
  <2> DEFINE p == Tail(q)
             r == Append(p, h)
             o == Head(q)
  <2>1. PutNowait(q, cap, h) = r
        BY <1>7 DEF PutNowait
  <2>2. Len(q) = cap /\ q # <<>>
        BY <1>1, <1>7
  <2>3. /\ p \in Seq(Nat) /\ Len(p) = Len(q) - 1 /\ o \in Nat /\ o \in Q /\ ToSet(p) = Q \ {o}
        /\ Ascending(p) /\ Before({o}, ToSet(p))
        BY <1>1, <2>2, TailSet DEF Q
  <2> HIDE DEF p, o
  <2>4. Before(ToSet(p), {h})
        BY <1>3, <2>3 DEF Before
  <2>5. Len(r) = Len(p) + 1 /\ ToSet(r) = ToSet(p) \cup {h} /\ Ascending(r)
        BY <1>2, <2>3, <2>4, AppendSet
  <2> HIDE DEF r
  <2>6. Before(S, ToSet(r)) /\ Before(ToSet(r), C) /\ ToSet(r) \subseteq E
        BY <1>1, <1>2, <1>3, <2>3, <2>5 DEF Before
  <2>7. Before({o}, ToSet(r) \cup C)
        BY <1>3, <2>3, <2>5 DEF Before
  <2>8. ToSet(r) \cup C = (Q \cup B) \ {o}
        BY <1>2, <1>3, <2>3, <2>5 DEF Before
  <2>9. ASSUME NEW f \in E, NEW g \in ToSet(r) \cup C, g < f
        PROVE  f \in ToSet(r) \cup C
    <3>1. f \in Q \cup B
          BY <1>1, <2>8, <2>9
    <3>2. o < g /\ g \in Nat /\ f \in Nat /\ o \in Nat
          BY <1>1, <2>3, <2>7, <2>8 DEF Before
    <3> QED BY <2>8, <2>9, <3>1, <3>2
  <2>10. cap < Cardinality(E \ C)
    <3> DEFINE s == Append(q, h)
    <3>1. s \in Seq(Nat) /\ Ascending(s) /\ Len(s) = cap + 1 /\ ToSet(s) = Q \cup {h}
          BY <1>1, <1>2, <1>3, <2>2, AppendSet DEF Q
    <3> HIDE DEF s
    <3>2. ToSet(s) \subseteq E \ C
          BY <1>1, <1>2, <1>3, <3>1 DEF Before
    <3>3. Len(s) <= Cardinality(E \ C)
          BY <1>4, <3>1, <3>2, AscendingCard
    <3> QED BY <1>5, <3>1, <3>3
  <2>11. Len(r) <= cap
        BY <2>2, <2>3, <2>5
  <2>12. ~(Cardinality(E \ C) <= cap)
        BY <1>5, <2>10
  <2>13. Fed(E, sent, r, Tail(box), cap)
        BY <1>1, <1>2, <1>3, <2>5, <2>6, <2>9, <2>11, <2>12 DEF Fed, C, S
  <2> QED BY <2>1, <2>13 DEF h
<1> QED BY <1>6, <1>7

\* The client is sent the first event of its queue.
LEMMA SendFed ==
    ASSUME NEW E \in SUBSET Nat, NEW sent \in Seq(Nat), NEW q \in Seq(Nat), NEW box \in Seq(Nat),
           NEW cap \in Nat, Fed(E, sent, q, box, cap), q # <<>>
    PROVE  Fed(E, Append(sent, Head(q)), Tail(q), box, cap)
<1> DEFINE B == ToSet(box)
           Q == ToSet(q)
           R == ToSet(Tail(q))
           S == ToSet(sent)
           T == ToSet(Append(sent, Head(q)))
           h == Head(q)
<1>1. /\ Before(S, Q) /\ Before(S, B) /\ Before(Q, B) /\ S \subseteq E /\ Q \subseteq E /\ B \subseteq E
      /\ Ascending(sent) /\ Ascending(q) /\ Ascending(box) /\ Len(q) <= cap /\ Len(q) \in Nat
      /\ \A f \in E, g \in Q \cup B : g < f => f \in Q \cup B
      /\ Cardinality(E \ B) <= cap => E \subseteq S \cup Q \cup B
      BY DEF Fed
<1>2. /\ h \in Nat /\ h \in Q /\ R = Q \ {h} /\ Ascending(Tail(q)) /\ Before({h}, R)
      /\ Len(Tail(q)) = Len(q) - 1
      BY <1>1, TailSet
<1>3. T = S \cup {h} /\ (Before(S, {h}) => Ascending(Append(sent, Head(q))))
      BY <1>1, <1>2, AppendSet
<1> HIDE DEF B, Q, R, S, T, h
<1>4. /\ Before(S, {h}) /\ Before(T, R) /\ Before(T, B) /\ Before(R, B)
      /\ T \subseteq E /\ R \subseteq E
      BY <1>1, <1>2, <1>3 DEF Before
<1>5. ASSUME NEW f \in E, NEW g \in R \cup B, g < f
      PROVE  f \in R \cup B
  <2>1. f \in Q \cup B
        BY <1>1, <1>2, <1>5
  <2>2. h < g /\ g \in Nat /\ f \in Nat
        BY <1>1, <1>2 DEF Before
  <2> QED BY <1>2, <1>5, <2>1, <2>2
<1>6. T \cup R \cup B = S \cup Q \cup B
      BY <1>2, <1>3
<1>7. Len(Tail(q)) <= cap
      BY <1>1, <1>2
<1> QED BY <1>1, <1>2, <1>3, <1>4, <1>5, <1>6, <1>7 DEF Fed, B, R, T

\* A box holds the newest part of E, in order.
NewestOf(box, E) ==
    /\ Ascending(box) /\ ToSet(box) \subseteq E
    /\ \A e \in E, f \in ToSet(box) : f < e => e \in ToSet(box)

\* An inbox holds the newest events of its topic, and none before its pump lives.
InboxOK ==
    \A t \in Topic :
        /\ pump[t] # "live" => inbox[t] = <<>>
        /\ NewestOf(inbox[t], After(log, t, 0))

\* What a pump feeds is fed well.
SubsOK ==
    \A t \in Topic : \A c \in subs[t] :
        /\ topic[c] = t /\ stage[c] # "none" /\ since[c] <= Len(log)
        /\ pump[t] = "starting" => queue[c] = <<>> /\ got[c] = <<>>
        /\ pump[t] = "live" =>
             Fed(After(log, t, since[c]), got[c], queue[c], inbox[t], Cap[t])

LEMMA EmptySet == ToSet(<<>>) = {} /\ Ascending(<<>>) /\ Len(<<>>) = 0
<1>1. DOMAIN <<>> = {}
      OBVIOUS
<1> QED BY <1>1 DEF ToSet, Ascending

LEMMA AfterFacts ==
    ASSUME NEW l \in Seq(Station), NEW t, NEW n \in Nat
    PROVE  /\ After(l, t, n) \in SUBSET Nat /\ IsFiniteSet(After(l, t, n)) /\ Len(l) \in Nat
           /\ Before(After(l, t, n), {Len(l) + 1})
<1>1. Len(l) \in Nat /\ After(l, t, n) \in SUBSET (1..Len(l))
      BY DEF After
<1>2. IsFiniteSet(1..Len(l))
  <2>1. 1 \in Int /\ Len(l) \in Int
        BY <1>1
  <2> QED BY <2>1, FS_Interval, Zenon
<1>3. IsFiniteSet(After(l, t, n))
      BY <1>1, <1>2, FS_Subset, Zenon
<1> QED BY <1>1, <1>3 DEF Before

LEMMA AfterAppend ==
    ASSUME NEW l \in Seq(Station), NEW s \in Station, NEW t, NEW n \in Nat, n <= Len(l)
    PROVE  After(Append(l, s), t, n) =
             IF t \in {s, All} THEN After(l, t, n) \cup {Len(l) + 1} ELSE After(l, t, n)
<1> DEFINE m == Append(l, s)
<1>1. /\ Len(l) \in Nat /\ Len(m) = Len(l) + 1 /\ m[Len(l) + 1] = s
      /\ \A e \in 1..Len(l) : m[e] = l[e]
      OBVIOUS
<1> HIDE DEF m
<1>2. ASSUME NEW e
      PROVE  e \in After(m, t, n) <=>
               e \in After(l, t, n) \/ (e = Len(l) + 1 /\ t \in {s, All})
  <2>1. CASE e \in 1..Len(l)
        BY <1>1, <2>1 DEF After
  <2>2. CASE e = Len(l) + 1
        BY <1>1, <2>2 DEF After
  <2>3. CASE e \notin 1..Len(l) /\ e # Len(l) + 1
    <3>1. e \notin 1..Len(m)
          BY <1>1, <2>3
    <3> QED BY <2>3, <3>1 DEF After
  <2> QED BY <2>1, <2>2, <2>3
<1> QED BY <1>2 DEF m

\* A step that ends requests or pumps and feeds nobody.
LEMMA OtherFeeds ==
    ASSUME InboxOK, SubsOK, log' = log,
           \A t \in Topic : \/ pump'[t] = pump[t] /\ inbox'[t] = inbox[t]
                            \/ pump'[t] \notin {"starting", "live"} /\ inbox'[t] = <<>>,
           \A t \in Topic : \A c \in subs'[t] :
               /\ c \in subs[t] /\ stage'[c] # "none"
               /\ topic'[c] = topic[c] /\ since'[c] = since[c]
               /\ queue'[c] = queue[c] /\ got'[c] = got[c]
    PROVE  InboxOK' /\ SubsOK'
<1>1. InboxOK'
  <2> SUFFICES ASSUME NEW t \in Topic
               PROVE  /\ pump'[t] # "live" => inbox'[t] = <<>>
                      /\ Ascending(inbox'[t]) /\ ToSet(inbox'[t]) \subseteq After(log', t, 0)
                      /\ \A e \in After(log', t, 0), f \in ToSet(inbox'[t]) :
                            f < e => e \in ToSet(inbox'[t])
      BY DEF InboxOK, NewestOf
  <2>1. CASE inbox'[t] = <<>>
        BY <2>1, EmptySet
  <2>2. CASE pump'[t] = pump[t] /\ inbox'[t] = inbox[t]
        BY <2>2 DEF InboxOK, NewestOf
  <2> QED BY <2>1, <2>2
<1>2. SubsOK'
  <2> SUFFICES ASSUME NEW t \in Topic, NEW c \in subs'[t]
               PROVE  /\ topic'[c] = t /\ stage'[c] # "none" /\ since'[c] <= Len(log')
                      /\ pump'[t] = "starting" => queue'[c] = <<>> /\ got'[c] = <<>>
                      /\ pump'[t] = "live" =>
                           Fed(After(log', t, since'[c]), got'[c], queue'[c], inbox'[t], Cap[t])
      BY DEF SubsOK
  <2>1. c \in subs[t] /\ (pump'[t] \in {"starting", "live"} =>
                              pump'[t] = pump[t] /\ inbox'[t] = inbox[t])
        OBVIOUS
  <2> QED BY <2>1 DEF SubsOK
<1> QED BY <1>1, <1>2

LEMMA PublishFeeds ==
    ASSUME SseTypeOK, InboxOK, SubsOK, NEW s \in Station, Publish(s)
    PROVE  InboxOK' /\ SubsOK'
<1> DEFINE e == Len(log) + 1
<1>1. /\ log \in Seq(Station) /\ log' = Append(log, s) /\ Len(log') = e /\ Len(log) \in Nat
      /\ UNCHANGED <<pump, subs, queue, topic, stage, got, since>> /\ e \in Nat
      BY DEF Publish, SseTypeOK
<1>2. ASSUME NEW t \in Topic
      PROVE  /\ inbox'[t] = IF t \in {s, All} /\ pump[t] = "live" THEN Append(inbox[t], e)
                            ELSE inbox[t]
             /\ inbox[t] \in Seq(Nat) /\ subs[t] \subseteq Client /\ Cap[t] \in Nat
      BY BroadcasterAssumption DEF Publish, SseTypeOK, Event
<1>3. ASSUME NEW t \in Topic, NEW n \in Nat, n <= Len(log)
      PROVE  /\ After(log', t, n) = IF t \in {s, All} THEN After(log, t, n) \cup {e}
                                    ELSE After(log, t, n)
             /\ After(log, t, n) \in SUBSET Nat /\ Before(After(log, t, n), {e})
  <2>1. After(Append(log, s), t, n) = IF t \in {s, All} THEN After(log, t, n) \cup {Len(log) + 1}
                                      ELSE After(log, t, n)
        BY <1>1, <1>3, AfterAppend
  <2>2. After(log, t, n) \in SUBSET Nat /\ Before(After(log, t, n), {Len(log) + 1})
        BY <1>1, AfterFacts
  <2> QED BY <1>1, <2>1, <2>2
<1> HIDE DEF e
<1>4. ASSUME NEW t \in Topic
      PROVE  /\ pump'[t] # "live" => inbox'[t] = <<>>
             /\ Ascending(inbox'[t]) /\ ToSet(inbox'[t]) \subseteq After(log', t, 0)
             /\ \A f \in After(log', t, 0), g \in ToSet(inbox'[t]) : g < f => f \in ToSet(inbox'[t])
  <2> DEFINE A == After(log, t, 0)
             B == ToSet(inbox[t])
  <2>1. /\ pump[t] # "live" => inbox[t] = <<>>
        /\ Ascending(inbox[t]) /\ B \subseteq A
        /\ \A f \in A, g \in B : g < f => f \in B
        BY DEF InboxOK, NewestOf
  <2>2. /\ After(log', t, 0) = IF t \in {s, All} THEN A \cup {e} ELSE A
        /\ A \in SUBSET Nat /\ Before(A, {e})
    <3>1. 0 \in Nat /\ 0 <= Len(log)
          BY <1>1
    <3> QED BY <1>3, <3>1
  <2> HIDE DEF A
  <2>3. CASE t \in {s, All} /\ pump[t] = "live"
    <3>1. /\ ToSet(inbox'[t]) = B \cup {e}
          /\ (Before(B, {e}) => Ascending(inbox'[t]))
      <4>1. inbox'[t] = Append(inbox[t], e) /\ inbox[t] \in Seq(Nat) /\ e \in Nat
            BY <1>1, <1>2, <2>3
      <4>2. Ascending(inbox[t])
            BY <2>1
      <4> QED BY <4>1, <4>2, AppendSet
    <3> HIDE DEF B
    <3>2. Before(B, {e})
          BY <2>1, <2>2 DEF Before
    <3>3. ASSUME NEW f \in A \cup {e}, NEW g \in B \cup {e}, g < f
          PROVE  f \in B \cup {e}
      <4>1. CASE f \in A
        <5>1. f < e /\ f \in Nat /\ e \in Nat
              BY <1>1, <2>2, <4>1 DEF Before
        <5>2. g # e
              BY <3>3, <5>1
        <5> QED BY <2>1, <3>3, <4>1, <5>2
      <4> QED BY <3>3, <4>1
    <3> QED BY <1>1, <2>1, <2>2, <2>3, <3>1, <3>2, <3>3
  <2>4. CASE pump[t] # "live"
    <3>1. inbox'[t] = <<>>
          BY <1>2, <2>1, <2>4
    <3> QED BY <1>1, <3>1, EmptySet
  <2>5. CASE t \notin {s, All}
    <3>1. inbox'[t] = inbox[t] /\ After(log', t, 0) = A
          BY <1>2, <2>2, <2>5
    <3> QED BY <1>1, <2>1, <3>1
  <2> QED BY <2>3, <2>4, <2>5
<1>5. ASSUME NEW t \in Topic, NEW c \in subs'[t]
      PROVE  /\ topic'[c] = t /\ stage'[c] # "none" /\ since'[c] <= Len(log')
             /\ pump'[t] = "starting" => queue'[c] = <<>> /\ got'[c] = <<>>
             /\ pump'[t] = "live" =>
                  Fed(After(log', t, since'[c]), got'[c], queue'[c], inbox'[t], Cap[t])
  <2>1. /\ c \in subs[t] /\ c \in Client /\ since[c] \in Nat
        /\ topic[c] = t /\ stage[c] # "none" /\ since[c] <= Len(log)
        /\ pump[t] = "starting" => queue[c] = <<>> /\ got[c] = <<>>
        BY <1>1, <1>2, <1>5 DEF SubsOK, SseTypeOK, Event
  <2>2. since[c] <= Len(log')
        BY <1>1, <2>1 DEF e
  <2>3. ASSUME pump[t] = "live"
        PROVE  Fed(After(log', t, since[c]), got[c], queue[c], inbox'[t], Cap[t])
    <3>1. Fed(After(log, t, since[c]), got[c], queue[c], inbox[t], Cap[t])
          BY <2>1, <2>3 DEF SubsOK
    <3>2. got[c] \in Seq(Nat) /\ queue[c] \in Seq(Nat) /\ inbox[t] \in Seq(Nat) /\ Cap[t] \in Nat
          BY <1>2, <2>1, BroadcasterAssumption DEF SseTypeOK, Event
    <3>3. CASE t \in {s, All}
      <4> DEFINE E == After(log, t, since[c])
      <4>1. E \in SUBSET Nat /\ Before(E, {e}) /\ After(log', t, since[c]) = E \cup {e}
            BY <1>3, <2>1, <3>3
      <4>2. inbox'[t] = Append(inbox[t], e) /\ e \in Nat
            BY <1>1, <1>2, <2>3, <3>3
      <4> HIDE DEF E
      <4>3. Fed(E, got[c], queue[c], inbox[t], Cap[t])
            BY <3>1 DEF E
      <4>4. Fed(E \cup {e}, got[c], queue[c], Append(inbox[t], e), Cap[t])
            BY <3>2, <4>1, <4>2, <4>3, PublishFed
      <4> QED BY <4>1, <4>2, <4>4
    <3>4. CASE t \notin {s, All}
          BY <1>2, <1>3, <2>1, <3>1, <3>4
    <3> QED BY <3>3, <3>4
  <2> QED BY <1>1, <2>1, <2>2, <2>3
<1> QED BY <1>4, <1>5 DEF InboxOK, NewestOf, SubsOK

-----------------------------------------------------------------------------
(* Every action feeds in order *)

\* A client with nothing of its own yet, fed from an inbox with all it should get.
LEMMA FreshFed ==
    ASSUME NEW box \in Seq(Nat), Ascending(box), NEW cap \in Nat
    PROVE  Fed(ToSet(box), <<>>, <<>>, box, cap)
<1>1. /\ Ascending(<<>>) /\ ToSet(<<>>) = {} /\ Len(<<>>) = 0
      BY EmptySet
<1> QED BY <1>1 DEF Fed, Before

LEMMA ReadyFeeds ==
    ASSUME SseTypeOK, InboxOK, SubsOK, NEW t \in Topic, PumpReady(t)
    PROVE  InboxOK' /\ SubsOK'
<1>1. /\ UNCHANGED <<log, inbox, subs, queue, topic, stage, got>>
      /\ pump[t] = "starting" /\ pump'[t] = "live" /\ Len(log) \in Nat
      /\ \A u \in Topic : u # t => pump'[u] = pump[u]
      BY DEF PumpReady, SseTypeOK
<1>2. \A c \in Client : since'[c] = IF c \in subs[t] THEN Len(log) ELSE since[c]
      BY DEF PumpReady
<1>3. ASSUME NEW u \in Topic
      PROVE  /\ pump'[u] # "live" => inbox'[u] = <<>>
             /\ Ascending(inbox'[u]) /\ ToSet(inbox'[u]) \subseteq After(log', u, 0)
             /\ \A e \in After(log', u, 0), f \in ToSet(inbox'[u]) : f < e => e \in ToSet(inbox'[u])
  <2>1. pump'[u] # "live" => pump[u] # "live"
        BY <1>1
  <2> QED BY <1>1, <2>1 DEF InboxOK, NewestOf
<1>4. ASSUME NEW u \in Topic, NEW c \in subs'[u]
      PROVE  /\ topic'[c] = u /\ stage'[c] # "none" /\ since'[c] <= Len(log')
             /\ pump'[u] = "starting" => queue'[c] = <<>> /\ got'[c] = <<>>
             /\ pump'[u] = "live" =>
                  Fed(After(log', u, since'[c]), got'[c], queue'[c], inbox'[u], Cap[u])
  <2>1. /\ c \in subs[u] /\ c \in Client /\ topic[c] = u
        BY <1>1, <1>4 DEF SubsOK, SseTypeOK
  <2>2. CASE u = t
    <3>1. /\ topic[c] = u /\ stage[c] # "none" /\ since'[c] = Len(log)
          /\ queue[c] = <<>> /\ got[c] = <<>>
          BY <1>1, <1>2, <2>1, <2>2 DEF SubsOK
    <3>2. inbox[u] = <<>>
          BY <1>1, <2>2 DEF InboxOK, NewestOf
    <3>3. After(log, u, Len(log)) = {}
          BY <1>1 DEF After
    <3>4. Fed({}, <<>>, <<>>, <<>>, Cap[u])
      <4>1. <<>> \in Seq(Nat) /\ Cap[u] \in Nat
            BY BroadcasterAssumption
      <4> QED BY <4>1, EmptySet, FreshFed
    <3> QED BY <1>1, <2>2, <3>1, <3>2, <3>3, <3>4
  <2>3. CASE u # t
    <3>1. c \notin subs[t]
          BY <2>1, <2>3 DEF SubsOK
    <3>2. since'[c] = since[c] /\ pump'[u] = pump[u]
          BY <1>1, <1>2, <2>1, <2>3, <3>1
    <3> QED BY <1>1, <2>1, <3>2 DEF SubsOK
  <2> QED BY <2>2, <2>3
<1> QED BY <1>3, <1>4 DEF InboxOK, NewestOf, SubsOK

LEMMA FanOutFeeds ==
    ASSUME SseTypeOK, InboxOK, SubsOK, NEW t \in Topic, FanOut(t)
    PROVE  InboxOK' /\ SubsOK'
<1> DEFINE h == Head(inbox[t])
<1>1. /\ UNCHANGED <<log, pump, subs, topic, stage, got, since>>
      /\ pump[t] = "live" /\ inbox[t] # <<>> /\ log \in Seq(Station)
      /\ inbox'[t] = Tail(inbox[t]) /\ \A u \in Topic : u # t => inbox'[u] = inbox[u]
      BY DEF FanOut, SseTypeOK
<1>2. \A c \in Client :
          queue'[c] = IF c \in subs[t] THEN PutNowait(queue[c], Cap[t], h) ELSE queue[c]
      BY DEF FanOut
<1>3. ASSUME NEW u \in Topic
      PROVE  /\ inbox[u] \in Seq(Nat) /\ subs[u] \subseteq Client /\ Cap[u] \in Nat \ {0}
             /\ pump[u] # "live" => inbox[u] = <<>>
             /\ Ascending(inbox[u]) /\ ToSet(inbox[u]) \subseteq After(log, u, 0)
             /\ \A e \in After(log, u, 0), f \in ToSet(inbox[u]) : f < e => e \in ToSet(inbox[u])
      BY BroadcasterAssumption DEF SseTypeOK, Event, InboxOK, NewestOf
<1>4. /\ h \in Nat /\ h \in ToSet(inbox[t])
      /\ ToSet(Tail(inbox[t])) = ToSet(inbox[t]) \ {h}
      /\ Ascending(Tail(inbox[t])) /\ Before({h}, ToSet(Tail(inbox[t])))
      BY <1>1, <1>3, TailSet
<1> HIDE DEF h
<1>5. ASSUME NEW u \in Topic
      PROVE  /\ pump'[u] # "live" => inbox'[u] = <<>>
             /\ Ascending(inbox'[u]) /\ ToSet(inbox'[u]) \subseteq After(log', u, 0)
             /\ \A e \in After(log', u, 0), f \in ToSet(inbox'[u]) : f < e => e \in ToSet(inbox'[u])
  <2>1. CASE u # t
        BY <1>1, <1>3, <2>1
  <2>2. CASE u = t
    <3> DEFINE A == After(log, t, 0)
               B == ToSet(inbox[t])
               C == ToSet(Tail(inbox[t]))
    <3>1. /\ B \subseteq A /\ C = B \ {h} /\ Before({h}, C) /\ h \in Nat
          /\ \A e \in A, f \in B : f < e => e \in B
          BY <1>3, <1>4
    <3>2. A \in SUBSET Nat
      <4>1. 0 \in Nat
            OBVIOUS
      <4> QED BY <1>1, <4>1, AfterFacts
    <3> HIDE DEF A, B, C
    <3>3. ASSUME NEW e \in A, NEW f \in C, f < e
          PROVE  e \in C
      <4>1. f \in B /\ h < f /\ e \in B
            BY <3>1, <3>3 DEF Before
      <4>2. e # h
        <5>1. e \in Nat /\ f \in Nat /\ h \in Nat
              BY <3>1, <3>2, <4>1
        <5> QED BY <3>3, <4>1, <5>1
      <4> QED BY <3>1, <4>1, <4>2
    <3>4. C \subseteq A /\ \A e \in A, f \in C : f < e => e \in C
          BY <3>1, <3>3
    <3> QED BY <1>1, <1>4, <2>2, <3>4 DEF A, C
  <2> QED BY <2>1, <2>2
<1>6. ASSUME NEW u \in Topic, NEW c \in subs'[u]
      PROVE  /\ topic'[c] = u /\ stage'[c] # "none" /\ since'[c] <= Len(log')
             /\ pump'[u] = "starting" => queue'[c] = <<>> /\ got'[c] = <<>>
             /\ pump'[u] = "live" =>
                  Fed(After(log', u, since'[c]), got'[c], queue'[c], inbox'[u], Cap[u])
  <2>1. /\ c \in subs[u] /\ c \in Client /\ topic[c] = u
        BY <1>1, <1>3, <1>6 DEF SubsOK
  <2>2. CASE u = t
    <3>1. /\ stage[c] # "none" /\ since[c] <= Len(log)
          /\ Fed(After(log, t, since[c]), got[c], queue[c], inbox[t], Cap[t])
          BY <1>1, <2>1, <2>2 DEF SubsOK
    <3> DEFINE E == After(log, t, since[c])
    <3>2. E \in SUBSET Nat /\ IsFiniteSet(E)
      <4>1. since[c] \in Nat
            BY <2>1, BroadcasterAssumption DEF SseTypeOK, Event
      <4> QED BY <1>1, <4>1, AfterFacts
    <3>3. got[c] \in Seq(Nat) /\ queue[c] \in Seq(Nat)
          BY <2>1, BroadcasterAssumption DEF SseTypeOK, Event
    <3>4. Fed(E, got[c], queue[c], inbox[t], Cap[t])
          BY <3>1
    <3> HIDE DEF E
    <3>5. Fed(E, got[c], PutNowait(queue[c], Cap[t], Head(inbox[t])), Tail(inbox[t]), Cap[t])
          BY <1>1, <1>3, <3>2, <3>3, <3>4, FanOutFed
    <3>6. queue'[c] = PutNowait(queue[c], Cap[t], Head(inbox[t]))
          BY <1>2, <2>1, <2>2 DEF h
    <3> QED BY <1>1, <2>1, <2>2, <3>1, <3>5, <3>6 DEF E
  <2>3. CASE u # t
    <3>1. c \notin subs[t]
          BY <2>1, <2>3 DEF SubsOK
    <3>2. queue'[c] = queue[c] /\ inbox'[u] = inbox[u]
          BY <1>1, <1>2, <2>1, <2>3, <3>1
    <3> QED BY <1>1, <2>1, <3>2 DEF SubsOK
  <2> QED BY <2>2, <2>3
<1> QED BY <1>5, <1>6 DEF InboxOK, NewestOf, SubsOK

LEMMA SendFeeds ==
    ASSUME SseTypeOK, InboxOK, SubsOK, NEW d \in Client, Send(d)
    PROVE  InboxOK' /\ SubsOK'
<1>1. /\ UNCHANGED <<log, pump, inbox, subs, topic, stage, since>>
      /\ queue[d] # <<>> /\ log \in Seq(Station)
      /\ got'[d] = Append(got[d], Head(queue[d])) /\ queue'[d] = Tail(queue[d])
      /\ \A c \in Client : c # d => got'[c] = got[c] /\ queue'[c] = queue[c]
      BY DEF Send, SseTypeOK
<1>2. InboxOK'
      BY <1>1 DEF InboxOK, NewestOf, Topic
<1>3. ASSUME NEW u \in Topic, NEW c \in subs'[u]
      PROVE  /\ topic'[c] = u /\ stage'[c] # "none" /\ since'[c] <= Len(log')
             /\ pump'[u] = "starting" => queue'[c] = <<>> /\ got'[c] = <<>>
             /\ pump'[u] = "live" =>
                  Fed(After(log', u, since'[c]), got'[c], queue'[c], inbox'[u], Cap[u])
  <2>1. c \in subs[u] /\ c \in Client
        BY <1>1, <1>3 DEF SseTypeOK
  <2>2. CASE c # d
        BY <1>1, <2>1, <2>2 DEF SubsOK
  <2>3. CASE c = d
    <3>1. pump[u] # "starting"
          BY <1>1, <2>1, <2>3 DEF SubsOK
    <3>2. ASSUME pump[u] = "live"
          PROVE  Fed(After(log, u, since[c]), Append(got[c], Head(queue[c])), Tail(queue[c]),
                     inbox[u], Cap[u])
      <4> DEFINE E == After(log, u, since[c])
      <4>1. Fed(E, got[c], queue[c], inbox[u], Cap[u])
            BY <2>1, <3>2 DEF SubsOK
      <4>2. E \in SUBSET Nat
        <5>1. since[c] \in Nat
              BY <2>1, BroadcasterAssumption DEF SseTypeOK, Event
        <5> QED BY <1>1, <5>1, AfterFacts
      <4>3. got[c] \in Seq(Nat) /\ queue[c] \in Seq(Nat) /\ inbox[u] \in Seq(Nat) /\ Cap[u] \in Nat
            BY <2>1, BroadcasterAssumption DEF SseTypeOK, Event
      <4> HIDE DEF E
      <4>4. Fed(E, Append(got[c], Head(queue[c])), Tail(queue[c]), inbox[u], Cap[u])
            BY <1>1, <2>3, <4>1, <4>2, <4>3, SendFed
      <4> QED BY <4>4 DEF E
    <3> QED BY <1>1, <2>1, <2>3, <3>1, <3>2 DEF SubsOK
  <2> QED BY <2>2, <2>3
<1> QED BY <1>2, <1>3 DEF SubsOK

\* Where a new client begins: with what the inbox of a pump holds already.
LEMMA AfterInbox ==
    ASSUME NEW l \in Seq(Station), NEW t, NEW box \in Seq(Nat),
           NewestOf(box, After(l, t, 0)), NEW n, n = IF box = <<>> THEN Len(l) ELSE Head(box) - 1
    PROVE  n \in Nat /\ n <= Len(l) /\ After(l, t, n) = ToSet(box)
<1>1. Len(l) \in Nat /\ \A e \in After(l, t, 0) : e \in 1..Len(l) /\ e > 0 /\ t \in {l[e], All}
      BY DEF After
<1> USE DEF NewestOf
<1>2. CASE box = <<>>
  <2>1. n = Len(l)
        BY <1>2
  <2>2. After(l, t, n) = {}
        BY <1>1, <2>1 DEF After
  <2>3. ToSet(box) = {}
        BY <1>2, EmptySet
  <2> QED BY <1>1, <2>1, <2>2, <2>3
<1>3. CASE box # <<>>
  <2> DEFINE h == Head(box)
  <2>1. h \in Nat /\ h \in ToSet(box) /\ \A f \in ToSet(box) : f = h \/ h < f
        BY <1>3, TailSet DEF Before
  <2> HIDE DEF h
  <2>2. h \in 1..Len(l)
        BY <1>1, <2>1
  <2>3. ASSUME NEW e
        PROVE  e \in After(l, t, h - 1) <=> e \in ToSet(box)
    <3>1. ASSUME e \in After(l, t, h - 1) PROVE e \in ToSet(box)
      <4>1. e \in 1..Len(l) /\ e > h - 1 /\ e \in After(l, t, 0)
            BY <2>2, <3>1 DEF After
      <4>2. e = h \/ h < e
            BY <2>2, <4>1
      <4> QED BY <2>1, <4>1, <4>2
    <3>2. ASSUME e \in ToSet(box) PROVE e \in After(l, t, h - 1)
      <4>1. e \in 1..Len(l) /\ t \in {l[e], All} /\ (e = h \/ h < e)
            BY <1>1, <2>1, <3>2
      <4>2. e > h - 1
            BY <2>2, <4>1
      <4> QED BY <4>1, <4>2 DEF After
    <3> QED BY <3>1, <3>2
  <2>4. After(l, t, h - 1) = ToSet(box)
        BY <2>3
  <2>5. n = h - 1
        BY <1>3 DEF h
  <2> QED BY <1>1, <2>2, <2>4, <2>5
<1> QED BY <1>2, <1>3

LEMMA SubscribeFeeds ==
    ASSUME SseTypeOK, PumpsFollowQueues, InboxOK, SubsOK,
           NEW d \in Client, NEW t \in Topic, Subscribe(d, t)
    PROVE  InboxOK' /\ SubsOK'
<1> DEFINE n == IF inbox[t] = <<>> THEN Len(log) ELSE Head(inbox[t]) - 1
<1>1. /\ UNCHANGED <<log, inbox>> /\ stage[d] = "none" /\ log \in Seq(Station)
      /\ pump'[t] = (IF pump[t] = "none" THEN "starting" ELSE pump[t])
      /\ subs'[t] = subs[t] \cup {d}
      /\ \A u \in Topic : u # t => pump'[u] = pump[u] /\ subs'[u] = subs[u]
      /\ stage'[d] = "subscribed" /\ topic'[d] = t /\ queue'[d] = <<>> /\ got'[d] = <<>>
      /\ since'[d] = n
      /\ \A c \in Client : c # d => /\ stage'[c] = stage[c] /\ topic'[c] = topic[c]
                                    /\ queue'[c] = queue[c] /\ got'[c] = got[c]
                                    /\ since'[c] = since[c]
      BY DEF Subscribe, SseTypeOK
<1>2. InboxOK'
  <2>1. \A u \in Topic : pump'[u] # "live" => pump[u] # "live"
        BY <1>1
  <2> QED BY <1>1, <2>1 DEF InboxOK, NewestOf
<1>3. n \in Nat /\ n <= Len(log) /\ After(log, t, n) = ToSet(inbox[t]) /\ Ascending(inbox[t])
      /\ inbox[t] \in Seq(Nat) /\ Cap[t] \in Nat
  <2>1. inbox[t] \in Seq(Nat) /\ Cap[t] \in Nat
        BY BroadcasterAssumption DEF SseTypeOK, Event
  <2>2. NewestOf(inbox[t], After(log, t, 0)) /\ Ascending(inbox[t])
        BY DEF InboxOK, NewestOf
  <2> DEFINE m == n
  <2>3. m = IF inbox[t] = <<>> THEN Len(log) ELSE Head(inbox[t]) - 1
        OBVIOUS
  <2> HIDE DEF m
  <2>4. m \in Nat /\ m <= Len(log) /\ After(log, t, m) = ToSet(inbox[t])
        BY <1>1, <2>1, <2>2, <2>3, AfterInbox
  <2> QED BY <2>1, <2>2, <2>4 DEF m
<1> HIDE DEF n
<1>4. ASSUME NEW u \in Topic, NEW c \in subs'[u]
      PROVE  /\ topic'[c] = u /\ stage'[c] # "none" /\ since'[c] <= Len(log')
             /\ pump'[u] = "starting" => queue'[c] = <<>> /\ got'[c] = <<>>
             /\ pump'[u] = "live" =>
                  Fed(After(log', u, since'[c]), got'[c], queue'[c], inbox'[u], Cap[u])
  <2>1. subs[u] \subseteq Client /\ d \notin subs[u]
        BY <1>1 DEF SubsOK, SseTypeOK
  <2>2. CASE c = d
    <3>1. u = t
          BY <1>1, <1>4, <2>1, <2>2
    <3>2. Fed(After(log, t, n), <<>>, <<>>, inbox[t], Cap[t])
          BY <1>3, FreshFed
    <3> QED BY <1>1, <1>3, <2>2, <3>1, <3>2
  <2>3. CASE c # d
    <3>1. c \in subs[u] /\ c \in Client
          BY <1>1, <1>4, <2>1, <2>3
    <3>2. pump'[u] = pump[u]
      <4>1. pump[u] # "none"
            BY <3>1 DEF PumpsFollowQueues
      <4> QED BY <1>1, <4>1
    <3> QED BY <1>1, <2>3, <3>1, <3>2 DEF SubsOK
  <2> QED BY <2>2, <2>3
<1> QED BY <1>2, <1>4 DEF SubsOK

LEMMA QuietFeeds ==
    ASSUME SseTypeOK, Asked, InboxOK, SubsOK,
           \/ Close
           \/ \E t \in Topic : PumpDies(t)
           \/ \E c \in Client : Begin(c) \/ LeaveTopic(c) \/ Leak(c) \/ Notice(c)
           \/ UNCHANGED sseVars
    PROVE  InboxOK' /\ SubsOK'
<1> DEFINE
      Pumps == \A t \in Topic :
                  \/ pump'[t] = pump[t] /\ inbox'[t] = inbox[t]
                  \/ pump'[t] \notin {"starting", "live"} /\ inbox'[t] = <<>>
      Subs == \A t \in Topic : \A c \in subs'[t] :
                  /\ c \in subs[t] /\ stage'[c] # "none"
                  /\ topic'[c] = topic[c] /\ since'[c] = since[c]
                  /\ queue'[c] = queue[c] /\ got'[c] = got[c]
<1>1. \A t \in Topic : \A c \in subs[t] : c \in Client /\ stage[c] # "none" /\ topic[c] = t
      BY DEF SubsOK, SseTypeOK
<1>2. CASE Close
      BY <1>1, <1>2, OtherFeeds DEF Close
<1>3. ASSUME NEW t \in Topic, PumpDies(t) PROVE InboxOK' /\ SubsOK'
  <2>1. Pumps /\ Subs /\ log' = log
        BY <1>1, <1>3 DEF PumpDies, SseTypeOK
  <2> QED BY <2>1, OtherFeeds
<1>4. ASSUME NEW c \in Client, Begin(c) \/ LeaveTopic(c) \/ Leak(c) PROVE InboxOK' /\ SubsOK'
  <2>1. UNCHANGED <<log, pump, inbox, subs, topic, since, queue, got>>
        /\ \A d \in Client : stage[d] # "none" => stage'[d] # "none"
        BY <1>4 DEF Begin, LeaveTopic, Leak, SseTypeOK
  <2> QED BY <1>1, <2>1, OtherFeeds
<1>5. ASSUME NEW c \in Client, Notice(c) PROVE InboxOK' /\ SubsOK'
  <2>1. topic[c] \in Topic
        BY <1>5 DEF Notice, Asked
  <2>2. Pumps
        BY <1>5, <2>1 DEF Notice, Finish, Unsubscribe, SseTypeOK
  <2>3. /\ subs'[topic[c]] = subs[topic[c]] \ {c}
        /\ \A t \in Topic : t # topic[c] => subs'[t] = subs[t]
        /\ log' = log /\ since' = since /\ got' = got
        /\ \A d \in Client : d # c => /\ stage'[d] = stage[d] /\ topic'[d] = topic[d]
                                      /\ queue'[d] = queue[d]
        BY <1>5, <2>1 DEF Notice, Finish, Unsubscribe, SseTypeOK
  <2>4. ASSUME NEW t \in Topic, NEW d \in subs'[t] PROVE d \in subs[t] /\ d # c
        BY <1>1, <2>1, <2>3, <2>4
  <2>5. Subs
        BY <1>1, <2>3, <2>4
  <2> QED BY <2>2, <2>3, <2>5, OtherFeeds
<1>6. CASE UNCHANGED sseVars
      BY <1>1, <1>6, OtherFeeds DEF sseVars
<1> QED BY <1>2, <1>3, <1>4, <1>5, <1>6

LEMMA Feeds ==
    ASSUME SseInv, InboxOK, SubsOK, [SseNext]_sseVars
    PROVE  InboxOK' /\ SubsOK'
<1>1. SseTypeOK /\ Asked /\ PumpsFollowQueues
      BY DEF SseInv
<1>2. CASE \E s \in Station : Publish(s)
      BY <1>1, <1>2, PublishFeeds
<1>3. CASE \E t \in Topic : PumpReady(t) \/ FanOut(t)
      BY <1>1, <1>3, ReadyFeeds, FanOutFeeds
<1>4. CASE \E c \in Client : Send(c) \/ \E t \in Topic : Subscribe(c, t)
      BY <1>1, <1>4, SendFeeds, SubscribeFeeds
<1>5. CASE \/ Close
           \/ \E t \in Topic : PumpDies(t)
           \/ \E c \in Client : Begin(c) \/ LeaveTopic(c) \/ Leak(c) \/ Notice(c)
           \/ UNCHANGED sseVars
      BY <1>1, <1>5, QuietFeeds
<1> QED BY <1>2, <1>3, <1>4, <1>5 DEF SseNext

\* What is on the way to a client, once its queue and its inbox are well ordered.
LEMMA Joined ==
    ASSUME NEW q \in Seq(Nat), NEW box \in Seq(Nat), Ascending(q), Ascending(box),
           Before(ToSet(q), ToSet(box))
    PROVE  Ascending(q \o box) /\ ToSet(q \o box) = ToSet(q) \cup ToSet(box)
<1> DEFINE r == q \o box
<1>1. /\ Len(q) \in Nat /\ Len(box) \in Nat /\ DOMAIN r = 1..(Len(q) + Len(box))
      /\ DOMAIN q = 1..Len(q) /\ DOMAIN box = 1..Len(box)
      /\ \A i \in 1..Len(q) : r[i] = q[i] /\ q[i] \in Nat
      /\ \A i \in 1..Len(box) : r[Len(q) + i] = box[i] /\ box[i] \in Nat
      OBVIOUS
<1> HIDE DEF r
<1>2. ASSUME NEW i \in DOMAIN r
      PROVE  \/ i \in 1..Len(q) /\ r[i] = q[i]
             \/ \E k \in 1..Len(box) : i = Len(q) + k /\ r[i] = box[k]
  <2>1. CASE i <= Len(q)
        BY <1>1, <2>1
  <2>2. CASE ~(i <= Len(q))
    <3>1. i - Len(q) \in 1..Len(box) /\ i = Len(q) + (i - Len(q))
          BY <1>1, <2>2
    <3>2. r[Len(q) + (i - Len(q))] = box[i - Len(q)]
          BY <1>1, <3>1
    <3> QED BY <3>1, <3>2
  <2> QED BY <2>1, <2>2
<1>3. ASSUME NEW i \in DOMAIN r, NEW j \in DOMAIN r, i < j
      PROVE  r[i] < r[j]
  <2>1. CASE i \in 1..Len(q) /\ j \in 1..Len(q)
        BY <1>1, <1>3, <2>1 DEF Ascending
  <2>2. CASE i \in 1..Len(q) /\ j \notin 1..Len(q)
    <3>1. PICK k \in 1..Len(box) : r[j] = box[k]
          BY <1>2, <2>2
    <3>2. q[i] \in ToSet(q) /\ box[k] \in ToSet(box)
          BY <1>1, <2>2 DEF ToSet
    <3> QED BY <1>1, <2>2, <3>1, <3>2 DEF Before
  <2>3. CASE i \notin 1..Len(q)
    <3>1. j \notin 1..Len(q)
          BY <1>1, <1>3, <2>3
    <3>2. PICK k \in 1..Len(box) : i = Len(q) + k /\ r[i] = box[k]
          BY <1>2, <2>3
    <3>3. PICK m \in 1..Len(box) : j = Len(q) + m /\ r[j] = box[m]
          BY <1>2, <3>1
    <3>4. k < m
          BY <1>1, <1>3, <3>2, <3>3
    <3> QED BY <1>1, <3>2, <3>3, <3>4 DEF Ascending
  <2> QED BY <2>1, <2>2, <2>3
<1>4. ASSUME NEW x PROVE x \in ToSet(r) <=> x \in ToSet(q) \cup ToSet(box)
  <2>1. ASSUME x \in ToSet(r) PROVE x \in ToSet(q) \cup ToSet(box)
        BY <1>1, <1>2, <2>1 DEF ToSet
  <2>2. ASSUME x \in ToSet(q) PROVE x \in ToSet(r)
    <3>1. PICK i \in 1..Len(q) : x = q[i]
          BY <1>1, <2>2 DEF ToSet
    <3>2. i \in DOMAIN r
          BY <1>1
    <3> QED BY <1>1, <3>1, <3>2 DEF ToSet
  <2>3. ASSUME x \in ToSet(box) PROVE x \in ToSet(r)
    <3>1. PICK i \in 1..Len(box) : x = box[i]
          BY <1>1, <2>3 DEF ToSet
    <3>2. Len(q) + i \in DOMAIN r
          BY <1>1
    <3> QED BY <1>1, <3>1, <3>2 DEF ToSet
  <2> QED BY <2>1, <2>2, <2>3
<1> QED BY <1>3, <1>4 DEF r, Ascending

-----------------------------------------------------------------------------

\* A pump that lives has sent each of its clients, or has on the way to it, the
\* newest of the events the client should get, in order and once, and nothing
\* is missing unless the queue was full: Broadcaster._fan_out_all and iter_sse.
THEOREM NewestArrive == SseSpec => []NewestInOrder
<1>1. SseInit => InboxOK /\ SubsOK
  <2> SUFFICES ASSUME SseInit PROVE InboxOK /\ SubsOK
      OBVIOUS
  <2>1. \A t \in Topic : inbox[t] = <<>> /\ subs[t] = {}
        BY DEF SseInit
  <2> QED BY <2>1, EmptySet DEF InboxOK, NewestOf, SubsOK
<1>2. SseInv /\ InboxOK /\ SubsOK /\ [SseNext]_sseVars => (InboxOK /\ SubsOK)'
      BY Feeds
<1>3. SseInv /\ SubsOK => NewestInOrder
  <2> SUFFICES ASSUME SseInv, SubsOK, NEW t \in Topic, NEW c \in subs[t], pump[t] = "live"
               PROVE  LET coming == queue[c] \o inbox[t]
                          before == Expected(c) \ ToSet(coming)
                      IN /\ Ascending(coming) /\ ToSet(coming) \subseteq Expected(c)
                         /\ \A e \in before : \A f \in ToSet(coming) : e < f
                         /\ Ascending(got[c]) /\ ToSet(got[c]) \subseteq before
                         /\ Cardinality(Expected(c) \ ToSet(inbox[t])) <= Cap[t]
                              => ToSet(got[c]) = before
      BY DEF NewestInOrder
  <2> DEFINE E == Expected(c)
             B == ToSet(inbox[t])
             Q == ToSet(queue[c])
             S == ToSet(got[c])
             C == ToSet(queue[c] \o inbox[t])
  <2>1. /\ c \in Client /\ E = After(log, t, since[c])
        /\ Fed(E, got[c], queue[c], inbox[t], Cap[t])
    <3>1. topic[c] = t /\ Fed(After(log, t, since[c]), got[c], queue[c], inbox[t], Cap[t])
          BY DEF SubsOK
    <3>2. E = After(log, t, since[c])
          BY <3>1 DEF Expected, After
    <3>3. c \in Client
          BY DEF SseInv, SseTypeOK
    <3> QED BY <3>1, <3>2, <3>3
  <2>2. queue[c] \in Seq(Nat) /\ inbox[t] \in Seq(Nat) /\ E \in SUBSET Nat
    <3>1. queue[c] \in Seq(Nat) /\ inbox[t] \in Seq(Nat) /\ since[c] \in Nat /\ log \in Seq(Station)
          BY <2>1, BroadcasterAssumption DEF SseInv, SseTypeOK, Event
    <3> QED BY <2>1, <3>1, AfterFacts
  <2>3. Ascending(queue[c] \o inbox[t]) /\ C = Q \cup B
        BY <2>1, <2>2, Joined DEF Fed
  <2> HIDE DEF E, B, Q, S, C
  <2>4. /\ Ascending(got[c]) /\ S \subseteq E /\ Q \subseteq E /\ B \subseteq E
        /\ Before(S, Q) /\ Before(S, B)
        /\ \A e \in E, f \in Q \cup B : f < e => e \in Q \cup B
        /\ Cardinality(E \ B) <= Cap[t] => E \subseteq S \cup Q \cup B
        BY <2>1 DEF Fed, B, Q, S
  <2>5. \A e \in E \ C, f \in C : e < f
    <3> SUFFICES ASSUME NEW e \in E \ C, NEW f \in C PROVE e < f
        OBVIOUS
    <3>1. e \in Nat /\ f \in Nat /\ ~(f < e) /\ e # f
          BY <2>2, <2>3, <2>4
    <3> QED BY <3>1
  <2>6. S \subseteq E \ C
    <3> SUFFICES ASSUME NEW e \in S PROVE e \notin C
        BY <2>4
    <3>1. e \in Nat /\ (e \in C => e < e)
          BY <2>2, <2>3, <2>4 DEF Before
    <3> QED BY <3>1
  <2>7. Cardinality(E \ B) <= Cap[t] => S = E \ C
        BY <2>3, <2>4, <2>6
  <2> QED BY <2>3, <2>4, <2>5, <2>6, <2>7 DEF E, B, S, C
<1> QED BY <1>1, <1>2, <1>3, SseInductive, PTL DEF SseSpec

-----------------------------------------------------------------------------
(* StationSync *)

\* Where the poller is: it knows the id of the name it is about to start or
\* to flag, that name has no task, and the task a reconciliation waits for is
\* the one of the name it is at.
PollerOK ==
    /\ doing \in {"boot", "bootclear"} => \A n \in todo : curr[n] # Nobody
    /\ doing \notin {"down", "boot", "idle", "sync"} => at \in Name
    /\ doing \in {"clear", "bootclear", "marker", "remnant", "flag", "drift"} => curr[at] # Nobody
    /\ doing \in {"marker", "remnant", "flag", "drift"} => ~Running(at)
    /\ doing \in {"marker", "remnant"} => conflict[at] = Nobody
    /\ doing \in {"stop", "drift"} <=> ending["loop"] # NoStop
    /\ ending["loop"] # NoStop => ending["loop"].name = at

\* Tasks(n), of any map and any stops.
TasksOf(R, E, n) == {E[s].id : s \in {r \in Stopper : E[r].name = n}} \cup ({R[n]} \ {Nobody})

\* An id may go on with the data of a name and what its tasks add to it.
Good(A, D, T, i) == i \in A \/ D \cup T \subseteq {i}

TasksOK ==
    \A n \in Name : \A i \in TasksOf(running, ending, n) :
        Good(allowed[n], data[n], TasksOf(running, ending, n), i)

\* The marker that _start_task is about to delete.
Dropped(n) == doing \in {"clear", "bootclear"} /\ at = n /\ removed[n] # curr[n]

MarkersOK ==
    \A n \in Name :
        removed[n] # Nobody =>
            Good(allowed[n], data[n], TasksOf(running, ending, n), removed[n]) \/ Dropped(n)

SyncInv == SyncTypeOK /\ PollerOK /\ NoTaskUnderConflict /\ TasksOK /\ MarkersOK

USE DEF edit, sweep, out, keys, stored, tasks, Failure, Set, Add

\* Who is a task of a name.
LEMMA TaskIs ==
    ASSUME NEW R, NEW E, NEW n, NEW i
    PROVE  i \in TasksOf(R, E, n) <=> \/ R[n] = i /\ i # Nobody
                                      \/ \E s \in Stopper : E[s].name = n /\ E[s].id = i
BY DEF TasksOf

\* Tasks and Ending in these terms.
LEMMA TasksAre ==
    ASSUME NEW n
    PROVE  /\ Tasks(n) = TasksOf(running, ending, n)
           /\ \A i : i \in Ending(n) <=> \E s \in Stopper : ending[s].name = n /\ ending[s].id = i
BY DEF Tasks, TasksOf, Ending

\* The initial state satisfies the invariant.
LEMMA InitSyncInv == SyncInit => SyncInv
<1> SUFFICES ASSUME SyncInit PROVE SyncInv
    OBVIOUS
<1> USE SyncAssumption DEF SyncInit
<1>1. SyncTypeOK
  <2>1. ending \in [Stopper -> Stop \cup {NoStop}] /\ adm \in [Admin -> Call \cup {NoCall}]
        OBVIOUS
  <2>2. Nowhere \in [Name -> MaybeId] /\ db \in [Name -> MaybeId]
        BY DEF Nowhere, MaybeId
  <2>3. data \in [Name -> SUBSET Id] /\ allowed \in [Name -> SUBSET Id] /\ visible \in [Name -> BOOLEAN]
        OBVIOUS
  <2>4. edits \in 0..MaxEdits /\ failures \in 0..MaxFailures
        OBVIOUS
  <2>5. /\ doing = "down" /\ at = Nobody /\ gone = {} /\ todo = {} /\ loops = 0 /\ exiting \in BOOLEAN
        /\ leaving = {} /\ listed = {} /\ curr = Nowhere /\ removed = Nowhere /\ conflict = Nowhere
        /\ running = Nowhere
        OBVIOUS
  <2> HIDE DEF SyncInit
  <2> QED BY <2>1, <2>2, <2>3, <2>4, <2>5 DEF SyncTypeOK
<1>2. PollerOK /\ NoTaskUnderConflict
      BY DEF PollerOK, NoTaskUnderConflict, Nowhere, NoStop, Stopper, Running
<1>3. MarkersOK
      BY DEF MarkersOK, Nowhere
<1>4. TasksOK
      BY TaskIs DEF TasksOK, Nowhere, NoStop, Stopper
<1> QED BY <1>1, <1>2, <1>3, <1>4 DEF SyncInv

\* What a stop is, and that none is none of them.
LEMMA Stops ==
    ASSUME SyncTypeOK, NEW s \in Stopper
    PROVE  /\ ending[s] # NoStop => ending[s] \in Stop
           /\ ending[s].step = "none" <=> ending[s] = NoStop
           /\ ending[s] = NoStop => ending[s].name \notin Name
BY SyncAssumption DEF SyncTypeOK, Stop, NoStop

\* The ids of tasks are ids.
LEMMA TaskIds ==
    ASSUME SyncTypeOK, NEW n \in Name
    PROVE  Tasks(n) \subseteq Id /\ Ending(n) \subseteq Id
<1>1. ASSUME NEW s \in Stopper, ending[s].name = n PROVE ending[s].id \in Id
      BY <1>1, Stops DEF Stop
<1>2. Ending(n) \subseteq Id
      BY <1>1, TasksAre
<1> QED BY <1>2 DEF Tasks, SyncTypeOK, MaybeId

-----------------------------------------------------------------------------
(* Every action keeps the types *)

\* Starting a task, and an id that is excused.
LEMMA StartTypes ==
    ASSUME SyncTypeOK, NEW n \in Name, NEW blind \in BOOLEAN, StartTask(n, blind), curr[n] # Nobody
    PROVE  running' \in [Name -> MaybeId] /\ allowed' \in [Name -> SUBSET Id]
<1>1. curr[n] \in Id /\ Ending(n) \subseteq Id
      BY TaskIds DEF SyncTypeOK, MaybeId
<1>2. running' \in [Name -> MaybeId]
      BY <1>1 DEF StartTask, SyncTypeOK, MaybeId
<1>3. PICK S \in SUBSET Id : allowed' = [allowed EXCEPT ![n] = @ \cup S]
      BY <1>1 DEF StartTask
<1> QED BY <1>2, <1>3 DEF SyncTypeOK

LEMMA LeftoverType ==
    ASSUME SyncTypeOK PROVE Leftover \in [Name -> SUBSET Id]
<1>1. CASE at \in Name
      BY <1>1 DEF Leftover, SyncTypeOK, MaybeId
<1>2. CASE at \notin Name
  <2>1. Leftover = allowed
        BY <1>2 DEF Leftover, SyncTypeOK
  <2> QED BY <2>1 DEF SyncTypeOK
<1> QED BY <1>1, <1>2

LEMMA ReturnTypes ==
    ASSUME SyncTypeOK, NEW rest \in SUBSET Name, Return(rest) \/ Forget
    PROVE  /\ doing' \in {"idle", "sync"} /\ at' = Nobody /\ curr' \in [Name -> MaybeId]
           /\ gone' \in SUBSET Name /\ todo' \in SUBSET Name
BY DEF Return, Forget, Nowhere, MaybeId, SyncTypeOK

LEMMA PopTypes ==
    ASSUME SyncTypeOK, NEW s \in Stopper, NEW n \in Name, Pop(s, n), Running(n)
    PROVE  running' \in [Name -> MaybeId] /\ ending' \in [Stopper -> Stop \cup {NoStop}]
<1>1. [name |-> n, id |-> running[n], step |-> "remember"] \in Stop
      BY DEF Stop, SyncTypeOK, MaybeId, Running
<1> QED BY <1>1 DEF Pop, SyncTypeOK, MaybeId

LEMMA LoopTypes ==
    ASSUME SyncInv, BootStep \/ LoopStep
    PROVE  SyncTypeOK'
<1> USE DEF SyncInv
<1>1. CASE Boot \/ BootDone \/ Reconcile \/ SyncDone
  <2>1. curr' \in [Name -> MaybeId]
        BY <1>1 DEF Boot, BootDone, Reconcile, SyncDone, Forget, SyncTypeOK, Nowhere, MaybeId
  <2>2. listed' \in SUBSET Name /\ gone' \in SUBSET Name /\ todo' \in SUBSET Name
        BY <1>1 DEF Boot, BootDone, Reconcile, SyncDone, Forget, SyncTypeOK, Present
  <2>3. doing' \in {"boot", "idle", "sync"} /\ at' \in {at, Nobody} /\ loops' \in {loops, 2}
        BY <1>1 DEF Boot, BootDone, Reconcile, SyncDone, Forget
  <2>4. UNCHANGED <<edit, exiting, leaving, removed, conflict, keys, tasks, adm, allowed, failures>>
        BY <1>1 DEF Boot, BootDone, Reconcile, SyncDone
  <2> QED BY <2>1, <2>2, <2>3, <2>4 DEF SyncTypeOK
<1>2. ASSUME NEW n \in Name, BootSkip(n)
      PROVE  SyncTypeOK'
      BY <1>2 DEF BootSkip, SyncTypeOK
<1>3. ASSUME NEW n \in Name, BootStart(n)
      PROVE  SyncTypeOK'
  <2>1. curr[n] # Nobody
        BY <1>3 DEF BootStart, PollerOK
  <2>2. running' \in [Name -> MaybeId] /\ allowed' \in [Name -> SUBSET Id]
        BY <1>3, <2>1, StartTypes DEF BootStart
  <2> QED BY <1>3, <2>2 DEF BootStart, Await, SyncTypeOK
<1>4. ASSUME NEW n \in Name, VisitStop(n) \/ VisitDrift(n)
      PROVE  SyncTypeOK'
  <2>1. Running(n) /\ Pop("loop", n) /\ \E c \in {"stop", "drift"} : Await(n, c)
        BY <1>4 DEF VisitStop, VisitDrift
  <2>2. running' \in [Name -> MaybeId] /\ ending' \in [Stopper -> Stop \cup {NoStop}]
        BY <2>1, PopTypes DEF Stopper
  <2> QED BY <1>4, <2>1, <2>2 DEF VisitStop, VisitDrift, Await, SyncTypeOK
<1>5. ASSUME NEW n \in Name, VisitNothing(n)
      PROVE  SyncTypeOK'
  <2>1. todo \ {n} \in SUBSET Name /\ Return(todo \ {n})
        BY <1>5 DEF VisitNothing, SyncTypeOK
  <2> QED BY <1>5, <2>1, ReturnTypes DEF VisitNothing, SyncTypeOK
<1>6. ASSUME NEW n \in Name, VisitLook(n)
      PROVE  SyncTypeOK'
      BY <1>6 DEF VisitLook, Await, SyncTypeOK
<1>7. CASE ReadMarker \/ ReadRemnant
  <2>1. at \in Name /\ curr[at] # Nobody
        BY <1>7 DEF ReadMarker, ReadRemnant, PollerOK
  <2>2. \/ UNCHANGED <<running, allowed>>
        \/ \E blind \in BOOLEAN : StartTask(at, blind)
        BY <1>7, <2>1 DEF ReadMarker, ReadRemnant, SyncTypeOK
  <2>3. running' \in [Name -> MaybeId] /\ allowed' \in [Name -> SUBSET Id]
        BY <2>1, <2>2, StartTypes DEF SyncTypeOK
  <2>4. doing' \in {"clear", "remnant", "flag"}
        BY <1>7 DEF ReadMarker, ReadRemnant
  <2> QED BY <1>7, <2>3, <2>4 DEF ReadMarker, ReadRemnant, SyncTypeOK
<1>8. CASE Flag
  <2>1. at \in Name /\ curr[at] \in MaybeId /\ Return(todo) /\ todo \in SUBSET Name
        BY <1>8 DEF Flag, PollerOK, SyncTypeOK
  <2> QED BY <1>8, <2>1, ReturnTypes DEF Flag, SyncTypeOK
<1>9. CASE ClearMarker
  <2>1. removed' \in [Name -> MaybeId] /\ allowed' \in [Name -> SUBSET Id] /\ failures' \in 0..MaxFailures
        BY <1>9, LeftoverType, SyncAssumption DEF ClearMarker, SyncTypeOK, MaybeId
  <2>2. Return(todo) \/ (doing' = "boot" /\ at' = Nobody /\ UNCHANGED <<curr, gone, todo>>)
        BY <1>9 DEF ClearMarker
  <2>3. /\ doing' \in {"idle", "sync", "boot"} /\ at' = Nobody /\ curr' \in [Name -> MaybeId]
        /\ gone' \in SUBSET Name /\ todo' \in SUBSET Name
        BY <2>2, ReturnTypes DEF SyncTypeOK
  <2> QED BY <1>9, <2>1, <2>3 DEF ClearMarker, SyncTypeOK
<1>10. CASE Remember("loop")
  <2>1. ending["loop"] \in Stop /\ "loop" \in Stopper
        BY <1>10, Stops DEF Remember, NoStop, Stopper
  <2> QED BY <1>10, <2>1, SyncAssumption DEF Remember, SyncTypeOK, Stop, MaybeId
<1>11. CASE EndStop("loop")
  <2>1. \/ Return(todo)
        \/ doing' = "flag" /\ UNCHANGED <<at, curr, gone, todo>>
        BY <1>11 DEF EndStop
  <2>2. /\ doing' \in {"idle", "sync", "flag"} /\ at' \in {at, Nobody} /\ curr' \in [Name -> MaybeId]
        /\ gone' \in SUBSET Name /\ todo' \in SUBSET Name
        BY <2>1, ReturnTypes DEF SyncTypeOK
  <2> QED BY <1>11, <2>2 DEF EndStop, SyncTypeOK
<1> QED BY <1>1, <1>2, <1>3, <1>4, <1>5, <1>6, <1>7, <1>8, <1>9, <1>10, <1>11
        DEF BootStep, LoopStep, VisitStep

LEMMA ExitTypes ==
    ASSUME SyncInv, ExitStep \/ FetchFails \/ LoopFails \/ OtherLoopFails \/ Crash
    PROVE  SyncTypeOK'
<1> USE SyncAssumption DEF SyncInv
<1>1. CASE Remember("exit")
  <2>1. ending["exit"] \in Stop /\ "exit" \in Stopper
        BY <1>1, Stops DEF Remember, NoStop, Stopper
  <2> QED BY <1>1, <2>1 DEF Remember, SyncTypeOK, Stop, MaybeId
<1>2. CASE EndStop("exit")
      BY <1>2 DEF EndStop, SyncTypeOK
<1>3. ASSUME NEW n \in Name, ExitStop(n)
      PROVE  SyncTypeOK'
  <2>1. running' \in [Name -> MaybeId] /\ ending' \in [Stopper -> Stop \cup {NoStop}]
        BY <1>3, PopTypes DEF ExitStop, Stopper, SyncTypeOK
  <2> QED BY <1>3, <2>1 DEF ExitStop, SyncTypeOK
<1>4. CASE ExitDone \/ Crash
  <2>1. Reset /\ UNCHANGED <<edit, stored, adm>> /\ failures' \in 0..MaxFailures
        BY <1>4 DEF ExitDone, Crash, SyncTypeOK
  <2>2. allowed' \in [Name -> SUBSET Id]
        BY <2>1, LeftoverType DEF Reset, SyncTypeOK
  <2>3. running' \in [Name -> MaybeId] /\ curr' \in [Name -> MaybeId]
        BY <2>1 DEF Reset, Nowhere, MaybeId
  <2>4. ending' \in [Stopper -> Stop \cup {NoStop}]
        BY <2>1 DEF Reset
  <2>5. /\ doing' = "down" /\ at' = Nobody /\ gone' = {} /\ todo' = {}
        /\ loops' = 0 /\ exiting' \in BOOLEAN /\ leaving' = {}
        BY <2>1 DEF Reset
  <2> QED BY <2>1, <2>2, <2>3, <2>4, <2>5 DEF SyncTypeOK
<1>5. CASE FetchFails
      BY <1>5 DEF FetchFails, SyncTypeOK
<1>6. CASE LoopFails
  <2>1. conflict' \in [Name -> MaybeId]
        BY <1>6 DEF LoopFails, SyncTypeOK
  <2>2. loops' \in 0..2 /\ leaving' \in SUBSET Name /\ exiting' \in BOOLEAN
        BY <1>6 DEF LoopFails, Raise, SyncTypeOK
  <2>3. Forget /\ failures' \in 0..MaxFailures
        BY <1>6 DEF LoopFails, SyncTypeOK
  <2> QED BY <1>6, <2>1, <2>2, <2>3, ReturnTypes DEF LoopFails, SyncTypeOK
<1>7. CASE OtherLoopFails
  <2>1. loops' \in 0..2 /\ leaving' \in SUBSET Name /\ exiting' \in BOOLEAN
        BY <1>7 DEF OtherLoopFails, Raise, SyncTypeOK
  <2> QED BY <1>7, <2>1 DEF OtherLoopFails, SyncTypeOK
<1> QED BY <1>1, <1>2, <1>3, <1>4, <1>5, <1>6, <1>7 DEF ExitStep

LEMMA OutsideTypes ==
    ASSUME SyncInv, EditStations \/ TasksStep \/ ApiStep
    PROVE  SyncTypeOK'
<1> USE SyncAssumption DEF SyncInv
<1>1. CASE EditStations
      BY <1>1 DEF EditStations, SyncTypeOK
<1>2. ASSUME NEW n \in Name, NEW i \in Id, TaskWrites(n, i)
      PROVE  SyncTypeOK'
      BY <1>2 DEF TaskWrites, SyncTypeOK
<1>3. ASSUME NEW a \in Admin, ResolveBegin(a) \/ ResolveClear(a) \/ ResolveLost(a)
      PROVE  SyncTypeOK'
      BY <1>3 DEF ResolveBegin, ResolveClear, ResolveLost, SyncTypeOK, Call, NoCall, MaybeId
<1>4. ASSUME NEW a \in Admin,
             \/ ResolveRead(a) \/ CarryOver(a) \/ DeleteCursor(a)
             \/ DeleteKeys(a) \/ DeleteMarker(a)
      PROVE  SyncTypeOK'
  <2>1. adm[a] \in Call
        BY <1>4 DEF ResolveRead, CarryOver, DeleteCursor, DeleteKeys, DeleteMarker, SyncTypeOK, NoCall
  <2>2. adm[a].name \in Name /\ adm[a].new \in MaybeId
        BY <2>1 DEF Call
  <2>3. CASE ResolveRead(a)
    <3>1. [adm[a] EXCEPT !.step = "carry", !.new = conflict[adm[a].name]] \in Call
          BY <2>1, <2>2 DEF Call, SyncTypeOK
    <3> QED BY <2>3, <3>1 DEF ResolveRead, SyncTypeOK
  <2>4. ASSUME NEW x \in {"clear", "keys", "marker"}, Go(a, x)
        PROVE  adm' \in [Admin -> Call \cup {NoCall}]
    <3>1. [adm[a] EXCEPT !.step = x, !.new = Nobody] \in Call
          BY <2>1, <2>2 DEF Call, MaybeId
    <3> QED BY <2>4, <3>1 DEF Go, SyncTypeOK
  <2>5. CASE CarryOver(a)
    <3>1. removed' \in [Name -> MaybeId] /\ allowed' \in [Name -> SUBSET Id]
          BY <2>2, <2>5 DEF CarryOver, SyncTypeOK, MaybeId
    <3> QED BY <2>4, <2>5, <3>1 DEF CarryOver, SyncTypeOK
  <2>6. CASE DeleteCursor(a)
    <3>1. visible' \in [Name -> BOOLEAN]
          BY <2>2, <2>6 DEF DeleteCursor, SyncTypeOK
    <3> QED BY <2>4, <2>6, <3>1 DEF DeleteCursor, SyncTypeOK
  <2>7. CASE DeleteKeys(a)
    <3>1. data' \in [Name -> SUBSET Id] /\ visible' \in [Name -> BOOLEAN]
          BY <2>2, <2>7 DEF DeleteKeys, SyncTypeOK
    <3> QED BY <2>4, <2>7, <3>1 DEF DeleteKeys, SyncTypeOK
  <2>8. CASE DeleteMarker(a)
    <3>1. removed' \in [Name -> MaybeId] /\ allowed' \in [Name -> SUBSET Id]
          BY <2>2, <2>8 DEF DeleteMarker, SyncTypeOK, MaybeId
    <3> QED BY <2>4, <2>8, <3>1 DEF DeleteMarker, SyncTypeOK
  <2> QED BY <1>4, <2>3, <2>5, <2>6, <2>7, <2>8
<1> QED BY <1>1, <1>2, <1>3, <1>4 DEF TasksStep, ApiStep, Resolving

-----------------------------------------------------------------------------
(* Every action keeps the poller in order *)

\* Nothing the first two parts speak of changes.
LEMMA OrderKept ==
    ASSUME SyncInv, UNCHANGED <<doing, at, curr, todo, running>>, ending'["loop"] = ending["loop"],
           \A n \in Name : conflict'[n] \in {conflict[n], Nobody}
    PROVE  PollerOK' /\ NoTaskUnderConflict'
BY DEF SyncInv, PollerOK, NoTaskUnderConflict, Running

\* The reconciliation goes on or is over, and waits for no task.
LEMMA ReturnOrder ==
    ASSUME SyncInv, Return(todo) \/ Forget \/ \E n \in Name : Return(todo \ {n}),
           ending'["loop"] = NoStop
    PROVE  PollerOK'
BY DEF Return, Forget, PollerOK

LEMMA BootOrder ==
    ASSUME SyncInv, BootStep
    PROVE  PollerOK' /\ NoTaskUnderConflict'
<1> USE DEF SyncInv
<1>1. CASE Boot \/ BootDone
  <2>1. UNCHANGED <<conflict, running, ending>>
        BY <1>1 DEF Boot, BootDone
  <2>2. NoTaskUnderConflict'
        BY <2>1 DEF NoTaskUnderConflict, Running
  <2>3. PollerOK'
        BY <1>1, <2>1 DEF Boot, BootDone, PollerOK, Present
  <2> QED BY <2>2, <2>3
<1>2. ASSUME NEW n \in Name, BootSkip(n)
      PROVE  PollerOK' /\ NoTaskUnderConflict'
      BY <1>2 DEF BootSkip, PollerOK, NoTaskUnderConflict, Running
<1>3. ASSUME NEW n \in Name, BootStart(n)
      PROVE  PollerOK' /\ NoTaskUnderConflict'
  <2>1. /\ doing = "boot" /\ n \in todo /\ conflict[n] = Nobody /\ UNCHANGED <<conflict, ending>>
        /\ doing' = "bootclear" /\ at' = n /\ todo' = todo \ {n} /\ UNCHANGED curr
        /\ \A m \in Name : m # n => running'[m] = running[m]
        BY <1>3 DEF BootStart, Await, StartTask, SyncTypeOK
  <2>2. NoTaskUnderConflict'
        BY <2>1 DEF NoTaskUnderConflict, Running
  <2> QED BY <2>1, <2>2 DEF PollerOK
<1> QED BY <1>1, <1>2, <1>3 DEF BootStep

LEMMA VisitOrder ==
    ASSUME SyncInv, VisitStep
    PROVE  PollerOK' /\ NoTaskUnderConflict'
<1> USE DEF SyncInv
<1>1. ASSUME NEW n \in Name, VisitNothing(n)
      PROVE  PollerOK' /\ NoTaskUnderConflict'
  <2>1. doing = "sync" /\ UNCHANGED <<conflict, running, ending>> /\ Return(todo \ {n})
        BY <1>1 DEF VisitNothing, Visiting
  <2>2. ending["loop"] = NoStop
        BY <2>1 DEF PollerOK
  <2> QED BY <2>1, <2>2, ReturnOrder DEF NoTaskUnderConflict, Running
<1>2. ASSUME NEW n \in Name, VisitLook(n)
      PROVE  PollerOK' /\ NoTaskUnderConflict'
      BY <1>2 DEF VisitLook, Visiting, Await, PollerOK, NoTaskUnderConflict, Running
<1>3. ASSUME NEW n \in Name, VisitStop(n) \/ VisitDrift(n)
      PROVE  PollerOK' /\ NoTaskUnderConflict'
  <2>1. /\ Pop("loop", n) /\ Running(n) /\ UNCHANGED <<conflict, curr>> /\ at' = n
        /\ doing' = "stop" \/ (doing' = "drift" /\ curr[n] # Nobody)
        BY <1>3 DEF VisitStop, VisitDrift, Await
  <2>2. conflict[n] = Nobody
        BY <2>1 DEF NoTaskUnderConflict
  <2>3. /\ running'[n] = Nobody /\ \A m \in Name : running'[m] \in {running[m], Nobody}
        /\ ending'["loop"].name = n /\ ending'["loop"].step = "remember"
        BY <2>1 DEF Pop, SyncTypeOK, Stopper
  <2>4. ending'["loop"] # NoStop
        BY <2>3 DEF NoStop
  <2>5. NoTaskUnderConflict'
        BY <2>1, <2>2, <2>3 DEF NoTaskUnderConflict, Running
  <2>6. PollerOK'
        BY <2>1, <2>3, <2>4 DEF PollerOK, Running
  <2> QED BY <2>5, <2>6
<1> QED BY <1>1, <1>2, <1>3 DEF VisitStep

LEMMA LoopOrder ==
    ASSUME SyncInv, LoopStep
    PROVE  PollerOK' /\ NoTaskUnderConflict'
<1> USE DEF SyncInv
<1>1. CASE Reconcile \/ SyncDone
  <2>1. /\ UNCHANGED <<conflict, running, ending>>
        /\ (doing = "idle" /\ doing' = "sync" /\ at' = at) \/ (doing = "sync" /\ Forget)
        BY <1>1 DEF Reconcile, SyncDone
  <2>2. ending["loop"] = NoStop
        BY <2>1 DEF PollerOK
  <2>3. PollerOK'
        BY <2>1, <2>2 DEF Forget, PollerOK
  <2> QED BY <2>1, <2>3 DEF NoTaskUnderConflict, Running
<1>2. CASE VisitStep
      BY <1>2, VisitOrder
<1>3. CASE ReadMarker \/ ReadRemnant
  <2>1. /\ doing \in {"marker", "remnant"} /\ UNCHANGED <<at, curr, todo, conflict, ending>>
        /\ \/ doing' = "clear" /\ \E blind \in BOOLEAN : StartTask(at, blind)
           \/ doing' = "flag" /\ UNCHANGED running
           \/ doing' = "remnant" /\ UNCHANGED running
        BY <1>3 DEF ReadMarker, ReadRemnant, SyncTypeOK
  <2>2. at \in Name /\ conflict[at] = Nobody /\ curr[at] # Nobody /\ ~Running(at) /\ ending["loop"] = NoStop
        BY <2>1 DEF PollerOK
  <2>3. \A m \in Name : m # at => running'[m] = running[m]
        BY <2>1 DEF StartTask, SyncTypeOK
  <2>4. NoTaskUnderConflict'
        BY <2>1, <2>2, <2>3 DEF NoTaskUnderConflict, Running
  <2>5. PollerOK'
        BY <2>1, <2>2 DEF PollerOK, Running
  <2> QED BY <2>4, <2>5
<1>4. CASE Flag
  <2>1. /\ doing = "flag" /\ Return(todo) /\ UNCHANGED <<running, ending>>
        /\ \A m \in Name : m # at => conflict'[m] = conflict[m]
        BY <1>4 DEF Flag, SyncTypeOK
  <2>2. at \in Name /\ ~Running(at) /\ ending["loop"] = NoStop
        BY <2>1 DEF PollerOK
  <2>3. NoTaskUnderConflict'
    <3>1. ending["loop"].name # at
          BY <2>2, Stops DEF Stopper
    <3> QED BY <2>1, <2>2, <3>1 DEF NoTaskUnderConflict, Running
  <2> QED BY <2>1, <2>2, <2>3, ReturnOrder
<1>5. CASE ClearMarker
  <2>1. /\ doing \in {"clear", "bootclear"} /\ UNCHANGED <<conflict, running, ending>>
        /\ \/ Return(todo)
           \/ /\ doing = "bootclear" /\ doing' = "boot"
              /\ at' = Nobody /\ UNCHANGED <<curr, todo>>
        BY <1>5 DEF ClearMarker
  <2>2. ending["loop"] = NoStop
        BY <2>1 DEF PollerOK
  <2>3. PollerOK'
    <3>1. CASE Return(todo)
          BY <2>1, <2>2, <3>1, ReturnOrder
    <3>2. CASE doing = "bootclear" /\ doing' = "boot" /\ at' = Nobody /\ UNCHANGED <<curr, todo>>
          BY <2>1, <2>2, <3>2 DEF PollerOK
    <3> QED BY <2>1, <3>1, <3>2
  <2> QED BY <2>1, <2>3 DEF NoTaskUnderConflict, Running
<1>6. CASE Remember("loop")
  <2>1. /\ UNCHANGED <<doing, at, curr, todo, conflict, running>>
        /\ ending["loop"].step = "remember"
        /\ ending'["loop"].name = ending["loop"].name /\ ending'["loop"].step = "wait"
        BY <1>6 DEF Remember, SyncTypeOK, Stopper, Stop, NoStop
  <2>2. ending["loop"] # NoStop /\ ending'["loop"] # NoStop
        BY <2>1 DEF NoStop
  <2> QED BY <2>1, <2>2 DEF PollerOK, NoTaskUnderConflict, Running
<1>7. CASE EndStop("loop")
  <2>1. /\ ending["loop"].step = "wait" /\ ending'["loop"] = NoStop /\ UNCHANGED <<running, conflict>>
        /\ \/ doing = "drift" /\ doing' = "flag" /\ UNCHANGED <<at, curr, todo>>
           \/ Return(todo)
        BY <1>7 DEF EndStop, SyncTypeOK, Stopper
  <2>2. NoStop.name = Nobody
        BY DEF NoStop
  <2>3. PollerOK'
    <3>1. CASE Return(todo)
          BY <2>1, <3>1, ReturnOrder
    <3>2. CASE doing = "drift" /\ doing' = "flag" /\ UNCHANGED <<at, curr, todo>>
          BY <2>1, <3>2 DEF PollerOK, Running
    <3> QED BY <2>1, <3>1, <3>2
  <2> QED BY <2>1, <2>2, <2>3, SyncAssumption DEF NoTaskUnderConflict, Running
<1> QED BY <1>1, <1>2, <1>3, <1>4, <1>5, <1>6, <1>7 DEF LoopStep

LEMMA ExitOrder ==
    ASSUME SyncInv, ExitStep \/ FetchFails \/ LoopFails \/ OtherLoopFails \/ Crash
    PROVE  PollerOK' /\ NoTaskUnderConflict'
<1> USE DEF SyncInv
<1>1. CASE Remember("exit") \/ EndStop("exit") \/ FetchFails \/ OtherLoopFails
  <2>1. /\ UNCHANGED <<doing, at, curr, todo, running, conflict>> /\ ending'["loop"] = ending["loop"]
        BY <1>1 DEF Remember, EndStop, FetchFails, OtherLoopFails, SyncTypeOK, Stopper
  <2> QED BY <2>1, OrderKept
<1>2. ASSUME NEW n \in Name, ExitStop(n)
      PROVE  PollerOK' /\ NoTaskUnderConflict'
  <2>1. /\ UNCHANGED <<doing, at, curr, todo, conflict>> /\ ending'["loop"] = ending["loop"]
        /\ \A m \in Name : running'[m] \in {running[m], Nobody}
        BY <1>2 DEF ExitStop, Pop, SyncTypeOK, Stopper
  <2> QED BY <2>1 DEF PollerOK, NoTaskUnderConflict, Running
<1>3. CASE ExitDone \/ Crash
  <2>1. /\ doing' = "down" /\ \A n \in Name : running'[n] = Nobody
        /\ ending'["loop"] = NoStop
        BY <1>3 DEF ExitDone, Crash, Reset, Nowhere, Stopper
  <2>2. NoStop.name = Nobody
        BY DEF NoStop
  <2> QED BY <2>1, <2>2, SyncAssumption DEF PollerOK, NoTaskUnderConflict, Running
<1>4. CASE LoopFails
  <2>1. /\ doing \in {"idle", "sync", "marker", "remnant", "flag"} /\ Forget
        /\ UNCHANGED <<running, ending>>
        /\ \/ UNCHANGED conflict
           \/ doing = "flag" /\ \A m \in Name : m # at => conflict'[m] = conflict[m]
        BY <1>4 DEF LoopFails, SyncTypeOK
  <2>2. ending["loop"] = NoStop /\ (doing = "flag" => at \in Name /\ ~Running(at))
        BY <2>1 DEF PollerOK
  <2>3. NoTaskUnderConflict'
    <3>1. \A n \in Name : ending["loop"].name # n
          BY <2>2, Stops DEF Stopper
    <3> QED BY <2>1, <2>2, <3>1 DEF NoTaskUnderConflict, Running
  <2> QED BY <2>1, <2>2, <2>3, ReturnOrder
<1> QED BY <1>1, <1>2, <1>3, <1>4 DEF ExitStep

LEMMA OutsideOrder ==
    ASSUME SyncInv, EditStations \/ TasksStep \/ ApiStep
    PROVE  PollerOK' /\ NoTaskUnderConflict'
<1>1. UNCHANGED <<doing, at, curr, todo, running, ending>>
      BY DEF EditStations, TasksStep, TaskWrites, ApiStep, Resolving, ResolveBegin, ResolveRead, CarryOver,
             DeleteCursor, DeleteKeys, DeleteMarker, ResolveClear, ResolveLost
<1>2. \A n \in Name : conflict'[n] \in {conflict[n], Nobody}
      BY DEF EditStations, TasksStep, TaskWrites, ApiStep, Resolving, ResolveBegin, ResolveRead, CarryOver,
             DeleteCursor, DeleteKeys, DeleteMarker, ResolveClear, ResolveLost, SyncInv, SyncTypeOK
<1> QED BY <1>1, <1>2, OrderKept

-----------------------------------------------------------------------------
(* Every action leaves tasks and markers with data they may go on with *)

\* What may disturb neither: no task, no sample and no claim is added.
Calmer ==
    \A n \in Name :
        /\ TasksOf(running', ending', n) \subseteq TasksOf(running, ending, n)
        /\ data'[n] \cup TasksOf(running', ending', n) \subseteq data[n] \cup TasksOf(running, ending, n)
        /\ allowed[n] \subseteq allowed'[n]

LEMMA CalmTasks ==
    ASSUME SyncInv, Calmer
    PROVE  /\ TasksOK'
           /\ \A n \in Name, i \in MaybeId :
                  Good(allowed[n], data[n], TasksOf(running, ending, n), i)
                      => Good(allowed'[n], data'[n], TasksOf(running', ending', n), i)
<1>1. ASSUME NEW n \in Name, NEW i, Good(allowed[n], data[n], TasksOf(running, ending, n), i)
      PROVE  Good(allowed'[n], data'[n], TasksOf(running', ending', n), i)
      BY <1>1 DEF Calmer, Good
<1>2. TasksOK'
  <2> SUFFICES ASSUME NEW n \in Name, NEW i \in TasksOf(running', ending', n)
               PROVE  Good(allowed'[n], data'[n], TasksOf(running', ending', n), i)
      BY DEF TasksOK
  <2> QED BY <1>1 DEF Calmer, TasksOK, SyncInv
<1> QED BY <1>1, <1>2

\* With the markers left alone.
LEMMA CalmMarkers ==
    ASSUME SyncInv, Calmer,
           \A n \in Name : removed'[n] # Nobody =>
               removed'[n] = removed[n] /\ (Dropped(n) => doing' = doing /\ at' = at /\ curr' = curr)
    PROVE  TasksOK' /\ MarkersOK'
<1>1. TasksOK'
      BY CalmTasks
<1>2. MarkersOK'
  <2> SUFFICES ASSUME NEW n \in Name, removed'[n] # Nobody
               PROVE  \/ Good(allowed'[n], data'[n], TasksOf(running', ending', n), removed'[n])
                      \/ Dropped(n)'
      BY DEF MarkersOK
  <2>1. removed'[n] = removed[n] /\ removed[n] \in MaybeId
        BY DEF SyncInv, SyncTypeOK
  <2>2. CASE Dropped(n)
        BY <2>1, <2>2 DEF Dropped
  <2>3. CASE ~Dropped(n)
        BY <2>1, <2>3, CalmTasks DEF MarkersOK, SyncInv
  <2> QED BY <2>2, <2>3
<1> QED BY <1>1, <1>2

\* The steps that touch neither tasks nor samples nor markers.
Quiet ==
    /\ UNCHANGED <<removed, data, running, ending, allowed>>
    /\ UNCHANGED <<doing, at, curr>> \/ doing \notin {"clear", "bootclear"}

LEMMA QuietSteps ==
    ASSUME SyncInv, Quiet
    PROVE  TasksOK' /\ MarkersOK'
<1>1. Calmer
      BY DEF Quiet, Calmer
<1>2. \A n \in Name : removed'[n] = removed[n] /\ (Dropped(n) => doing' = doing /\ at' = at /\ curr' = curr)
      BY DEF Quiet, Dropped
<1> QED BY <1>1, <1>2, CalmMarkers

LEMMA AreQuiet ==
    ASSUME \/ EditStations \/ Boot \/ BootDone \/ Reconcile \/ Flag \/ SyncDone
           \/ FetchFails \/ LoopFails \/ OtherLoopFails
           \/ \E n \in Name : BootSkip(n) \/ VisitNothing(n) \/ VisitLook(n)
           \/ \E a \in Admin : \/ ResolveBegin(a) \/ ResolveRead(a) \/ DeleteCursor(a)
                               \/ ResolveClear(a) \/ ResolveLost(a)
    PROVE  Quiet
<1>1. CASE EditStations \/ Boot \/ BootDone \/ Reconcile \/ Flag \/ SyncDone
      BY <1>1 DEF Quiet, EditStations, Boot, BootDone, Reconcile, Flag, SyncDone
<1>2. CASE FetchFails \/ LoopFails \/ OtherLoopFails
      BY <1>2 DEF Quiet, FetchFails, LoopFails, OtherLoopFails
<1>3. CASE \E n \in Name : BootSkip(n) \/ VisitNothing(n) \/ VisitLook(n)
      BY <1>3 DEF Quiet, BootSkip, VisitNothing, VisitLook, Visiting
<1>4. CASE \E a \in Admin : \/ ResolveBegin(a) \/ ResolveRead(a) \/ DeleteCursor(a)
                            \/ ResolveClear(a) \/ ResolveLost(a)
      BY <1>4 DEF Quiet, ResolveBegin, ResolveRead, DeleteCursor, ResolveClear, ResolveLost
<1> QED BY <1>1, <1>2, <1>3, <1>4

\* A popped task is the same task.
LEMMA PopSteps ==
    ASSUME SyncInv, NEW s \in Stopper, NEW n \in Name, Pop(s, n), Running(n), ending[s] = NoStop,
           UNCHANGED <<removed, data, allowed>>, UNCHANGED <<doing, at, curr>> \/ doing = "sync"
    PROVE  TasksOK' /\ MarkersOK'
<1>1. ASSUME NEW m \in Name, NEW i \in TasksOf(running', ending', m)
      PROVE  i \in TasksOf(running, ending, m)
  <2>1. /\ running'[m] = IF m = n THEN Nobody ELSE running[m]
        /\ ending'[s].name = n /\ ending'[s].id = running[n]
        /\ \A r \in Stopper : r # s => ending'[r] = ending[r]
        BY DEF Pop, SyncInv, SyncTypeOK
  <2>2. CASE running'[m] = i /\ i # Nobody
        BY <2>1, <2>2, TaskIs
  <2>3. ASSUME NEW r \in Stopper, ending'[r].name = m, ending'[r].id = i
        PROVE  i \in TasksOf(running, ending, m)
    <3>1. CASE r = s
          BY <2>1, <2>3, <3>1, TaskIs DEF Running
    <3>2. CASE r # s
          BY <2>1, <2>3, <3>2, TaskIs
    <3> QED BY <3>1, <3>2
  <2> QED BY <2>2, <2>3, TaskIs
<1>2. Calmer
      BY <1>1 DEF Calmer
<1>3. \A m \in Name : removed'[m] = removed[m] /\ (Dropped(m) => doing' = doing /\ at' = at /\ curr' = curr)
      BY DEF Dropped
<1> QED BY <1>2, <1>3, CalmMarkers

\* A task that has ended is none of the name any more.
LEMMA EndSteps ==
    ASSUME SyncInv, NEW s \in Stopper, EndStop(s)
    PROVE  TasksOK' /\ MarkersOK'
<1>1. /\ ending'[s] = NoStop /\ \A r \in Stopper : r # s => ending'[r] = ending[r]
      /\ UNCHANGED <<running, removed, data, allowed>> /\ ending[s] # NoStop
      BY DEF EndStop, SyncInv, SyncTypeOK, NoStop
<1>2. ASSUME NEW m \in Name, NEW i \in TasksOf(running', ending', m)
      PROVE  i \in TasksOf(running, ending, m)
  <2>1. NoStop.name # m
        BY SyncAssumption DEF NoStop
  <2> QED BY <1>1, <2>1, TaskIs
<1>3. Calmer
      BY <1>1, <1>2 DEF Calmer
<1>4. \A m \in Name : Dropped(m) => doing' = doing /\ at' = at /\ curr' = curr
  <2>1. CASE s = "exit"
        BY <2>1 DEF EndStop
  <2>2. CASE s = "loop"
        BY <1>1, <2>2 DEF Dropped, SyncInv, PollerOK
  <2> QED BY <2>1, <2>2 DEF Stopper
<1> QED BY <1>1, <1>3, <1>4, CalmMarkers

\* The id that is remembered is that of a task.
LEMMA RememberSteps ==
    ASSUME SyncInv, NEW s \in Stopper, Remember(s)
    PROVE  TasksOK' /\ MarkersOK'
<1> DEFINE n == ending[s].name
           i == ending[s].id
<1>1. /\ ending[s] \in Stop /\ UNCHANGED <<sweep, running, data, allowed>>
      /\ removed' = removed \/ removed' = [removed EXCEPT ![n] = i]
      BY Stops DEF Remember, NoStop, SyncInv
<1>2. n \in Name /\ i \in Id
      BY <1>1 DEF Stop
<1>3. \A r \in Stopper : ending'[r].name = ending[r].name /\ ending'[r].id = ending[r].id
      BY <1>1 DEF Remember, SyncInv, SyncTypeOK, Stop
<1>4. Calmer
  <2>1. \A m \in Name : \A k : k \in TasksOf(running', ending', m) <=> k \in TasksOf(running, ending, m)
        BY <1>1, <1>3, TaskIs
  <2> QED BY <1>1, <2>1 DEF Calmer
<1>5. i \in TasksOf(running, ending, n)
      BY TaskIs
<1> HIDE DEF n, i
<1>6. Good(allowed'[n], data'[n], TasksOf(running', ending', n), i)
      BY <1>2, <1>4, <1>5, CalmTasks DEF SyncInv, TasksOK, MaybeId
<1>7. CASE removed' = removed
      BY <1>1, <1>4, <1>7, CalmMarkers
<1>8. CASE removed' = [removed EXCEPT ![n] = i]
  <2> SUFFICES ASSUME NEW m \in Name, removed'[m] # Nobody
               PROVE  \/ Good(allowed'[m], data'[m], TasksOf(running', ending', m), removed'[m])
                      \/ Dropped(m)'
      BY <1>4, CalmTasks DEF MarkersOK
  <2>1. CASE m = n
        BY <1>2, <1>6, <1>8, <2>1 DEF SyncInv, SyncTypeOK
  <2>2. CASE m # n
    <3>1. removed'[m] = removed[m] /\ removed[m] \in MaybeId /\ (Dropped(m) => Dropped(m)')
          BY <1>1, <1>8, <2>2 DEF SyncInv, SyncTypeOK, Dropped
    <3> QED BY <1>4, <3>1, CalmTasks DEF SyncInv, MarkersOK
  <2> QED BY <2>1, <2>2
<1> QED BY <1>1, <1>7, <1>8

\* Whoever starts a task has looked at marker and data, or the id is excused.
LEMMA StartSteps ==
    ASSUME SyncInv, NEW n \in Name, NEW blind \in BOOLEAN, StartTask(n, blind), curr[n] # Nobody,
           UNCHANGED <<removed, data, ending, curr>>, doing' \in {"clear", "bootclear"}, at' = n,
           doing \notin {"clear", "bootclear"},
           blind \/ removed[n] = curr[n]
    PROVE  TasksOK' /\ MarkersOK'
<1> DEFINE T == TasksOf(running, ending, n)
           E == Ending(n)
           c == curr[n]
<1>1. /\ \A m \in Name : m # n => running'[m] = running[m] /\ allowed'[m] = allowed[m]
      /\ running'[n] = c
      /\ allowed'[n] = allowed[n] \cup ((IF blind /\ ~(data[n] \subseteq {c}) THEN {c} ELSE {})
                                        \cup (IF E \subseteq {c} THEN {} ELSE E \cup {c}))
      BY DEF StartTask, SyncInv, SyncTypeOK
<1>2. \A i : i \in TasksOf(running', ending', n) <=> i \in E \/ i = c
      BY <1>1, TaskIs, TasksAre
<1>3. E \subseteq T
      BY TaskIs, TasksAre
<1>4. \A m \in Name : m # n => TasksOf(running', ending', m) = TasksOf(running, ending, m)
  <2> SUFFICES ASSUME NEW m \in Name, m # n
               PROVE  \A i : i \in TasksOf(running', ending', m) <=> i \in TasksOf(running, ending, m)
      OBVIOUS
  <2> QED BY <1>1, TaskIs
<1>5. /\ \A i \in T : i \in allowed[n] \/ data[n] \cup T \subseteq {i}
      /\ removed[n] = c => c \in allowed[n] \/ data[n] \cup T \subseteq {c}
      BY DEF SyncInv, TasksOK, MarkersOK, Good, Dropped
<1> HIDE DEF T, E, c
<1>6. ASSUME NEW i, i \in E \/ i = c
      PROVE  i \in allowed'[n] \/ data[n] \cup E \cup {c} \subseteq {i}
  <2>1. CASE ~(E \subseteq {c})
        BY <1>1, <1>6, <2>1
  <2>2. CASE E \subseteq {c} /\ blind
        BY <1>1, <1>6, <2>2
  <2>3. CASE E \subseteq {c} /\ removed[n] = c
        BY <1>1, <1>3, <1>5, <1>6, <2>3
  <2> QED BY <2>1, <2>2, <2>3 DEF c
<1>7. TasksOf(running', ending', n) = E \cup {c}
      BY <1>2
<1>8. TasksOK'
  <2> SUFFICES ASSUME NEW m \in Name, NEW i \in TasksOf(running', ending', m)
               PROVE  Good(allowed'[m], data'[m], TasksOf(running', ending', m), i)
      BY DEF TasksOK
  <2>1. CASE m = n
        BY <1>6, <1>7, <2>1 DEF Good
  <2>2. CASE m # n
        BY <1>1, <1>4, <2>2 DEF SyncInv, TasksOK
  <2> QED BY <2>1, <2>2
<1>9. MarkersOK'
  <2> SUFFICES ASSUME NEW m \in Name, removed'[m] # Nobody
               PROVE  \/ Good(allowed'[m], data'[m], TasksOf(running', ending', m), removed'[m])
                      \/ Dropped(m)'
      BY DEF MarkersOK
  <2>1. CASE m = n /\ removed[n] = c
        BY <1>6, <1>7, <2>1 DEF Good
  <2>2. CASE m = n /\ removed[n] # c
        BY <2>2 DEF Dropped, c
  <2>3. CASE m # n
        BY <1>1, <1>4, <2>3 DEF SyncInv, MarkersOK, Dropped
  <2> QED BY <2>1, <2>2, <2>3
<1> QED BY <1>8, <1>9

\* The marker is gone, or its id is excused.
LEMMA ClearSteps ==
    ASSUME SyncInv, ClearMarker
    PROVE  TasksOK' /\ MarkersOK'
<1>1. at \in Name /\ UNCHANGED <<running, ending, data>>
      BY DEF ClearMarker, SyncInv, PollerOK
<1>2. CASE removed' = [removed EXCEPT ![at] = Nobody] /\ UNCHANGED allowed
  <2>1. Calmer
        BY <1>1, <1>2 DEF Calmer
  <2>2. \A n \in Name : removed'[n] # Nobody => removed'[n] = removed[n] /\ ~Dropped(n)
        BY <1>1, <1>2 DEF Dropped, SyncInv, SyncTypeOK
  <2> QED BY <2>1, <2>2, CalmMarkers
<1>3. CASE allowed' = Leftover /\ UNCHANGED removed
  <2>1. /\ \A n \in Name : n # at => allowed'[n] = allowed[n]
        /\ allowed'[at] = allowed[at] \cup ({removed[at]} \ {Nobody, curr[at]})
        BY <1>1, <1>3 DEF Leftover, SyncInv, SyncTypeOK
  <2>2. Calmer
        BY <1>1, <2>1 DEF Calmer
  <2> SUFFICES ASSUME NEW n \in Name, removed'[n] # Nobody
               PROVE  Good(allowed'[n], data'[n], TasksOf(running', ending', n), removed'[n])
      BY <2>2, CalmTasks DEF MarkersOK
  <2>3. CASE Dropped(n)
        BY <1>3, <2>1, <2>3 DEF Dropped, Good
  <2>4. CASE ~Dropped(n)
    <3>1. removed[n] \in MaybeId
          BY DEF SyncInv, SyncTypeOK
    <3> QED BY <1>3, <2>2, <2>4, <3>1, CalmTasks DEF SyncInv, MarkersOK
  <2> QED BY <2>3, <2>4
<1> QED BY <1>2, <1>3 DEF ClearMarker

\* A poller that is gone has no tasks.
LEMMA ResetSteps ==
    ASSUME SyncInv, Reset, UNCHANGED <<removed, data>>
    PROVE  TasksOK' /\ MarkersOK'
<1>1. \A n \in Name : \A i : i \notin TasksOf(running', ending', n)
  <2>1. \A n \in Name : running'[n] = Nobody /\ \A s \in Stopper : ending'[s].name = Nobody
        BY DEF Reset, Nowhere, NoStop
  <2> QED BY <2>1, TaskIs, SyncAssumption
<1>2. \A n \in Name : /\ allowed[n] \subseteq allowed'[n]
                      /\ Dropped(n) /\ removed[n] # Nobody => removed[n] \in allowed'[n]
  <2>1. CASE doing \in {"clear", "bootclear"}
    <3>1. at \in Name
          BY <2>1 DEF SyncInv, PollerOK
    <3> QED BY <2>1, <3>1 DEF Reset, Leftover, Dropped, SyncInv, SyncTypeOK
  <2>2. CASE doing \notin {"clear", "bootclear"}
        BY <2>2 DEF Reset, Dropped
  <2> QED BY <2>1, <2>2
<1>3. Calmer
      BY <1>1, <1>2 DEF Calmer
<1> SUFFICES ASSUME NEW n \in Name, removed'[n] # Nobody
             PROVE  Good(allowed'[n], data'[n], TasksOf(running', ending', n), removed'[n])
    BY <1>3, CalmTasks DEF MarkersOK
<1>4. CASE Dropped(n)
      BY <1>2, <1>4 DEF Good
<1>5. CASE ~Dropped(n)
  <2>1. removed[n] \in MaybeId
        BY DEF SyncInv, SyncTypeOK
  <2> QED BY <1>3, <1>5, <2>1, CalmTasks DEF SyncInv, MarkersOK
<1> QED BY <1>4, <1>5

\* A task adds its own samples only.
LEMMA WriteSteps ==
    ASSUME SyncInv, NEW n \in Name, NEW i \in Id, TaskWrites(n, i)
    PROVE  TasksOK' /\ MarkersOK'
<1>1. /\ i \in TasksOf(running, ending, n)
      /\ UNCHANGED <<running, ending, removed, allowed, doing, at, curr>>
      /\ \A m \in Name : data'[m] = IF m = n THEN data[n] \cup {i} ELSE data[m]
      BY TasksAre DEF TaskWrites, SyncInv, SyncTypeOK
<1>2. Calmer
      BY <1>1 DEF Calmer
<1> QED BY <1>1, <1>2, CalmMarkers

\* A user's answer: the new id is allowed, or the keys go, then the marker.
LEMMA ResolveSteps ==
    ASSUME SyncInv, NEW a \in Admin, CarryOver(a) \/ DeleteKeys(a) \/ DeleteMarker(a)
    PROVE  TasksOK' /\ MarkersOK'
<1> DEFINE n == adm[a].name
<1>1. UNCHANGED <<running, ending, doing, at, curr>> /\ n \in Name /\ adm[a].new \in MaybeId
  <2>1. adm[a] \in Call
        BY DEF CarryOver, DeleteKeys, DeleteMarker, SyncInv, SyncTypeOK, NoCall
  <2> QED BY <2>1 DEF CarryOver, DeleteKeys, DeleteMarker, Call
<1>2. CASE CarryOver(a)
  <2>1. /\ UNCHANGED data /\ \A m \in Name : m # n => allowed'[m] = allowed[m]
        /\ allowed'[n] = allowed[n] \cup ({adm[a].new} \ {Nobody})
        /\ \/ removed' = removed
           \/ adm[a].new # Nobody /\ removed' = [removed EXCEPT ![n] = adm[a].new]
        BY <1>1, <1>2 DEF CarryOver, SyncInv, SyncTypeOK
  <2>2. Calmer
        BY <1>1, <2>1 DEF Calmer
  <2>3. CASE removed' = removed
        BY <1>1, <2>2, <2>3, CalmMarkers
  <2>4. CASE adm[a].new # Nobody /\ removed' = [removed EXCEPT ![n] = adm[a].new]
    <3> SUFFICES ASSUME NEW m \in Name, removed'[m] # Nobody
                 PROVE  \/ Good(allowed'[m], data'[m], TasksOf(running', ending', m), removed'[m])
                        \/ Dropped(m)'
        BY <2>2, CalmTasks DEF MarkersOK
    <3>1. CASE m = n
          BY <1>1, <2>1, <2>4, <3>1 DEF Good, SyncInv, SyncTypeOK
    <3>2. CASE m # n
      <4>1. removed'[m] = removed[m] /\ removed[m] \in MaybeId /\ (Dropped(m) => Dropped(m)')
            BY <1>1, <2>4, <3>2 DEF SyncInv, SyncTypeOK, Dropped
      <4> QED BY <2>2, <4>1, CalmTasks DEF SyncInv, MarkersOK
    <3> QED BY <3>1, <3>2
  <2> QED BY <2>1, <2>3, <2>4
<1>3. CASE DeleteKeys(a)
  <2>1. UNCHANGED <<removed, allowed>> /\ \A m \in Name : data'[m] \in {data[m], {}}
        BY <1>1, <1>3 DEF DeleteKeys, SyncInv, SyncTypeOK
  <2>2. Calmer
        BY <1>1, <2>1 DEF Calmer
  <2> QED BY <1>1, <2>1, <2>2, CalmMarkers
<1>4. CASE DeleteMarker(a)
  <2>1. /\ UNCHANGED data /\ \A m \in Name : m # n => allowed'[m] = allowed[m] /\ removed'[m] = removed[m]
        /\ allowed'[n] = allowed[n] \cap TasksOf(running, ending, n) /\ removed'[n] = Nobody
        BY <1>1, <1>4, TasksAre DEF DeleteMarker, SyncInv, SyncTypeOK
  <2>2. \A m \in Name : TasksOf(running', ending', m) = TasksOf(running, ending, m)
        BY <1>1
  <2> HIDE DEF n
  <2>3. TasksOK'
    <3> SUFFICES ASSUME NEW m \in Name, NEW i \in TasksOf(running, ending, m)
                 PROVE  Good(allowed'[m], data[m], TasksOf(running, ending, m), i)
        BY <2>1, <2>2 DEF TasksOK
    <3>1. Good(allowed[m], data[m], TasksOf(running, ending, m), i)
          BY DEF SyncInv, TasksOK
    <3> QED BY <1>1, <2>1, <3>1 DEF Good
  <2>4. MarkersOK'
    <3> SUFFICES ASSUME NEW m \in Name, removed'[m] # Nobody
                 PROVE  \/ Good(allowed'[m], data'[m], TasksOf(running', ending', m), removed'[m])
                        \/ Dropped(m)'
        BY DEF MarkersOK
    <3> QED BY <1>1, <2>1, <2>2 DEF SyncInv, MarkersOK, Dropped
  <2> QED BY <2>3, <2>4
<1> QED BY <1>2, <1>3, <1>4

\* All together.
LEMMA Claims ==
    ASSUME SyncInv, SyncNext
    PROVE  TasksOK' /\ MarkersOK'
<1>1. ASSUME NEW n \in Name, BootStart(n)
      PROVE  TasksOK' /\ MarkersOK'
  <2>1. /\ StartTask(n, TRUE) /\ UNCHANGED <<removed, data, ending, curr>>
        /\ doing = "boot" /\ doing' = "bootclear" /\ at' = n /\ n \in todo
        BY <1>1 DEF BootStart, Await
  <2>2. curr[n] # Nobody
        BY <2>1 DEF SyncInv, PollerOK
  <2> QED BY <2>1, <2>2, StartSteps
<1>2. CASE ReadMarker \/ ReadRemnant
  <2>1. /\ doing \in {"marker", "remnant"} /\ UNCHANGED <<removed, data, ending, at, curr>>
        /\ at \in Name /\ curr[at] # Nobody
        BY <1>2 DEF ReadMarker, ReadRemnant, SyncInv, PollerOK
  <2>2. \/ UNCHANGED <<running, allowed>>
        \/ doing' = "clear" /\ StartTask(at, TRUE)
        \/ doing' = "clear" /\ StartTask(at, FALSE) /\ removed[at] = curr[at]
    <3>1. CASE ReadMarker
          BY <3>1 DEF ReadMarker
    <3>2. CASE ReadRemnant /\ visible[at]
          BY <3>2 DEF ReadRemnant, HasRemnant
    <3>3. CASE ReadRemnant /\ ~visible[at]
      <4>1. StartTask(at, ~visible[at]) /\ doing' = "clear"
            BY <3>3 DEF ReadRemnant, HasRemnant
      <4>2. (~visible[at]) = TRUE
            BY <2>1, <3>3 DEF SyncInv, SyncTypeOK
      <4> QED BY <4>1, <4>2
    <3> QED BY <1>2, <3>1, <3>2, <3>3
  <2>3. CASE UNCHANGED <<running, allowed>>
    <3>1. Quiet
          BY <2>1, <2>3 DEF Quiet
    <3> QED BY <3>1, QuietSteps
  <2>4. CASE doing' = "clear" /\ StartTask(at, TRUE)
        BY <2>1, <2>4, StartSteps
  <2>5. CASE doing' = "clear" /\ StartTask(at, FALSE) /\ removed[at] = curr[at]
        BY <2>1, <2>5, StartSteps
  <2> QED BY <2>2, <2>3, <2>4, <2>5
<1>3. ASSUME NEW n \in Name, VisitStop(n) \/ VisitDrift(n)
      PROVE  TasksOK' /\ MarkersOK'
  <2>1. doing = "sync" /\ Running(n) /\ Pop("loop", n) /\ UNCHANGED <<removed, data, allowed>>
        BY <1>3 DEF VisitStop, VisitDrift, Visiting
  <2>2. ending["loop"] = NoStop
        BY <2>1 DEF SyncInv, PollerOK
  <2> QED BY <2>1, <2>2, PopSteps DEF Stopper
<1>4. ASSUME NEW n \in Name, ExitStop(n)
      PROVE  TasksOK' /\ MarkersOK'
  <2>1. /\ UNCHANGED <<doing, at, curr, removed, data, allowed>> /\ ending["exit"] = NoStop
        /\ (Running(n) /\ Pop("exit", n)) \/ UNCHANGED <<running, ending>>
        BY <1>4 DEF ExitStop
  <2>2. CASE Running(n) /\ Pop("exit", n)
        BY <2>1, <2>2, PopSteps DEF Stopper
  <2>3. CASE UNCHANGED <<running, ending>>
    <3>1. Quiet
          BY <2>1, <2>3 DEF Quiet
    <3> QED BY <3>1, QuietSteps
  <2> QED BY <2>1, <2>2, <2>3
<1>5. ASSUME NEW s \in Stopper, Remember(s) \/ EndStop(s)
      PROVE  TasksOK' /\ MarkersOK'
      BY <1>5, RememberSteps, EndSteps
<1>6. CASE ExitDone \/ Crash
      BY <1>6, ResetSteps DEF ExitDone, Crash
<1>7. CASE ClearMarker
      BY <1>7, ClearSteps
<1>8. CASE TasksStep
      BY <1>8, WriteSteps DEF TasksStep
<1>9. ASSUME NEW a \in Admin, CarryOver(a) \/ DeleteKeys(a) \/ DeleteMarker(a)
      PROVE  TasksOK' /\ MarkersOK'
      BY <1>9, ResolveSteps
<1>10. CASE \/ EditStations \/ Boot \/ BootDone \/ Reconcile \/ Flag \/ SyncDone
            \/ FetchFails \/ LoopFails \/ OtherLoopFails
            \/ \E n \in Name : BootSkip(n) \/ VisitNothing(n) \/ VisitLook(n)
            \/ \E a \in Admin : \/ ResolveBegin(a) \/ ResolveRead(a) \/ DeleteCursor(a)
                                \/ ResolveClear(a) \/ ResolveLost(a)
       BY <1>10, AreQuiet, QuietSteps
<1>11. CASE BootStep
       BY <1>1, <1>10, <1>11 DEF BootStep
<1>12. CASE LoopStep
       BY <1>2, <1>3, <1>5, <1>7, <1>10, <1>12 DEF LoopStep, VisitStep, Stopper
<1>13. CASE ExitStep
       BY <1>4, <1>5, <1>6, <1>13 DEF ExitStep, Stopper
<1>14. CASE ApiStep
       BY <1>9, <1>10, <1>14 DEF ApiStep, Resolving
<1> QED BY <1>6, <1>8, <1>10, <1>11, <1>12, <1>13, <1>14 DEF SyncNext

-----------------------------------------------------------------------------
(* The theorems *)

\* Every step keeps the invariant, and the invariant holds from the start.
THEOREM SyncInductive == SyncSpec => []SyncInv
<1>1. SyncInv /\ [SyncNext]_syncVars => SyncInv'
  <2>1. ASSUME SyncInv, SyncNext PROVE SyncInv'
    <3>1. SyncTypeOK'
          BY <2>1, LoopTypes, ExitTypes, OutsideTypes DEF SyncNext
    <3>2. PollerOK' /\ NoTaskUnderConflict'
          BY <2>1, BootOrder, LoopOrder, ExitOrder, OutsideOrder DEF SyncNext
    <3>3. TasksOK' /\ MarkersOK'
          BY <2>1, Claims
    <3> QED BY <3>1, <3>2, <3>3 DEF SyncInv
  <2>2. ASSUME SyncInv, UNCHANGED syncVars PROVE SyncInv'
    <3>1. Quiet /\ SyncTypeOK'
          BY <2>2 DEF Quiet, syncVars, SyncInv, SyncTypeOK
    <3>2. PollerOK' /\ NoTaskUnderConflict'
          BY <2>2, OrderKept DEF syncVars
    <3> QED BY <2>2, <3>1, <3>2, QuietSteps DEF SyncInv
  <2> QED BY <2>1, <2>2
<1> QED BY InitSyncInv, <1>1, PTL DEF SyncSpec

\* Every reachable state is well typed.
THEOREM SyncTypeCorrect == SyncSpec => []SyncTypeOK
<1>1. SyncInv => SyncTypeOK BY DEF SyncInv
<1> QED BY SyncInductive, <1>1, PTL

\* A station whose conflict waits for an answer has no task, but one that an
\* exit is still stopping.
THEOREM ConflictsHoldTasks == SyncSpec => []NoTaskUnderConflict
<1>1. SyncInv => NoTaskUnderConflict BY DEF SyncInv
<1> QED BY SyncInductive, <1>1, PTL

\* A task works on candles of another id only if a user decided so or nobody
\* could be asked.
THEOREM MixingIsDecided == SyncSpec => []MixingDecided
<1>1. SyncInv => MixingDecided
  <2> SUFFICES ASSUME SyncInv, NEW n \in Name, Running(n)
               PROVE  running[n] \in allowed[n] \/ data[n] \subseteq {running[n]}
      BY DEF MixingDecided
  <2>1. running[n] \in TasksOf(running, ending, n)
        BY TaskIs DEF Running
  <2> QED BY <2>1 DEF SyncInv, TasksOK, Good
<1> QED BY SyncInductive, <1>1, PTL

=============================================================================
