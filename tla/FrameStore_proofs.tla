--------------------------- MODULE FrameStore_proofs --------------------------
(* Proofs about FrameStore: the types, and the three bounds on what a failure *)
(* may leave behind.                                                          *)
EXTENDS FrameStore, FiniteSetTheorems, TLAPS

(* The inductive invariant *)

\* The batch in hand is rows of the table; a frame has no row before its INSERT.
RowsOK ==
    /\ batch \subseteq row /\ gone \subseteq row
    /\ \A f \in row : hstep[f] \in {"unlink", "done"}
    /\ cpc = "delete" => batch = {}

\* Two counts that no step exceeds.
CountsOK ==
    /\ Cardinality(InFlight) <= MaxConnections
    /\ Cardinality(batch) + Cardinality(gone) <= BatchSize

\* A frame about to be inserted has its image, unless another one of the same
\* path could have lost it.
ImageOK == \A f \in Frame : hstep[f] = "insert" => PathOf[f] \in files \/ Shared(f)

\* Frames whose INSERT failed; each of them has used a fault.
Undoing == {f \in Frame : hstep[f] = "unlink"}

\* The emergency pass goes on only above its target.  What on_frame may still
\* undo is paid for by the failures it has had.
PassOK ==
    /\ Cardinality(Undoing) <= faults
    /\ mode = "emergency" /\ cpc \in {"select", "unlink", "delete"}
          => Used + Cardinality(gone) + faults > Target + Cardinality(Undoing)

\* Files no row refers to once the rows of `gone' are deleted.
Loose ==
    {p \in files : \A f \in Frame : PathOf[f] = p =>
                      f \notin row \ gone /\ hstep[f] \notin {"insert", "unlink"}}

\* Rows without an image once the frames under `unlink' are undone.
Bare ==
    {f \in row \ gone : ~ Shared(f) /\ (PathOf[f] \notin files \/ hstep[f] = "unlink")}

LooseOK == Cardinality(Loose) <= faults * MaxConnections
BareOK  == Cardinality(Bare) <= faults * BatchSize

IInv == TypeOK /\ RowsOK /\ CountsOK /\ ImageOK /\ PassOK /\ LooseOK /\ BareOK

-----------------------------------------------------------------------------
(* Counting *)

\* A part of a finite set has no more elements.
LEMMA Part ==
    ASSUME NEW S, IsFiniteSet(S), NEW T, T \subseteq S
    PROVE  /\ IsFiniteSet(T) /\ Cardinality(T) \in Nat /\ Cardinality(S) \in Nat
           /\ Cardinality(T) <= Cardinality(S)
<1>1. T \in SUBSET S
      OBVIOUS
<1>2. IsFiniteSet(T) /\ Cardinality(T) <= Cardinality(S)
      BY <1>1, FS_Subset
<1> QED BY <1>2, FS_CardinalityType

\* What is in one of two finite sets.
LEMMA Both ==
    ASSUME NEW S, IsFiniteSet(S), NEW R, IsFiniteSet(R), NEW T, T \subseteq S \cup R
    PROVE  IsFiniteSet(T) /\ Cardinality(T) <= Cardinality(S) + Cardinality(R)
<1>1. IsFiniteSet(S \cup R)
      BY FS_Union
<1>2. Cardinality(S \cup R) = Cardinality(S) + Cardinality(R) - Cardinality(S \cap R)
      BY FS_Union
<1>3. Cardinality(S \cap R) \in Nat
      BY Part, S \cap R \subseteq S
<1>4. Cardinality(S) \in Nat /\ Cardinality(R) \in Nat
      BY FS_CardinalityType
<1>5. IsFiniteSet(T) /\ Cardinality(T) \in Nat /\ Cardinality(T) <= Cardinality(S \cup R)
      BY <1>1, Part
<1>6. Cardinality(S \cup R) \in Nat
      BY <1>1, FS_CardinalityType
<1> QED BY <1>2, <1>3, <1>4, <1>5, <1>6

\* At most one element more.
LEMMA OneMore ==
    ASSUME NEW S, IsFiniteSet(S), NEW x, NEW T, T \subseteq S \cup {x}
    PROVE  IsFiniteSet(T) /\ Cardinality(T) <= Cardinality(S) + 1
<1>1. IsFiniteSet({x}) /\ Cardinality({x}) = 1
      BY FS_Singleton
<1> QED BY <1>1, Both

\* One element less.
LEMMA OneLess ==
    ASSUME NEW S, IsFiniteSet(S), NEW x \in S
    PROVE  /\ Cardinality(S \ {x}) = Cardinality(S) - 1
           /\ IsFiniteSet(S \ {x}) /\ Cardinality(S) \in Nat /\ Cardinality(S \ {x}) \in Nat
<1>1. Cardinality(S \ {x}) = Cardinality(S) - 1
      BY FS_RemoveElement
<1>2. S \ {x} \subseteq S
      OBVIOUS
<1> QED BY <1>1, <1>2, Part

\* Frames have no more paths than there are frames.
LEMMA PathsOf ==
    ASSUME NEW S \in SUBSET Frame, IsFiniteSet(S)
    PROVE  LET T == {PathOf[f] : f \in S}
           IN  IsFiniteSet(T) /\ Cardinality(T) <= Cardinality(S)
<1> DEFINE T == {PathOf[f] : f \in S}
           F == [f \in S |-> PathOf[f]]
<1>1. F \in Surjection(S, T)
      BY DEF Surjection
<1> HIDE DEF F, T
<1>2. IsFiniteSet(T) /\ Cardinality(T) <= Cardinality(S)
      BY <1>1, FS_Surjection
<1> QED BY <1>2 DEF T

\* The sets of the invariant are finite.
LEMMA Finite ==
    ASSUME TypeOK
    PROVE  /\ IsFiniteSet(files) /\ IsFiniteSet(batch) /\ IsFiniteSet(gone)
           /\ IsFiniteSet(InFlight) /\ IsFiniteSet(Undoing)
           /\ IsFiniteSet(Loose) /\ IsFiniteSet(Bare)
           /\ Cardinality(files) \in Nat /\ Cardinality(batch) \in Nat
           /\ Cardinality(gone) \in Nat /\ Cardinality(InFlight) \in Nat
           /\ Cardinality(Undoing) \in Nat /\ Cardinality(Loose) \in Nat
           /\ Cardinality(Bare) \in Nat
<1>1. files \subseteq Path /\ Loose \subseteq Path
      BY DEF TypeOK, Loose
<1>2. /\ batch \subseteq Frame /\ gone \subseteq Frame /\ InFlight \subseteq Frame
      /\ Undoing \subseteq Frame /\ Bare \subseteq Frame
      BY DEF TypeOK, InFlight, Undoing, Bare
<1> QED BY <1>1, <1>2, Part, StoreAssumption

-----------------------------------------------------------------------------
(* Every action keeps the types and the rows *)

\* Init and one lemma for each of the three processes.
LEMMA InitIInv == Init => IInv
<1> SUFFICES ASSUME Init PROVE IInv
    OBVIOUS
<1> USE StoreAssumption DEF Init
<1>1. TypeOK
  <2>1. hstep \in [Frame -> HandlerStep]
        BY DEF HandlerStep
  <2>2. presses \in 0..MaxPresses /\ faults \in 0..MaxFaults
        OBVIOUS
  <2> QED BY <2>1, <2>2 DEF TypeOK, Pc
<1>4. RowsOK /\ ImageOK
      BY DEF RowsOK, ImageOK
<1>2. InFlight = {} /\ Undoing = {} /\ Loose = {} /\ Bare = {} /\ batch = {} /\ gone = {}
      BY DEF InFlight, Undoing, Loose, Bare
<1>3. CountsOK /\ PassOK /\ LooseOK /\ BareOK
      BY <1>2, FS_EmptySet DEF CountsOK, PassOK, LooseOK, BareOK
<1> QED BY <1>1, <1>3, <1>4 DEF IInv

\* A failure is one more of at most MaxFaults.
LEMMA FaultTypes ==
    ASSUME TypeOK
    PROVE  faults \in Nat /\ (Fault => faults' = faults + 1 /\ faults' \in 0..MaxFaults)
BY StoreAssumption DEF TypeOK, Fault

LEMMA HandlerTypes ==
    ASSUME TypeOK, RowsOK,
           \/ \E f \in Frame : Receive(f) \/ HandlerNext(f) \/ WriteFails(f) \/ InsertFails(f)
           \/ IngestCrash
    PROVE  TypeOK' /\ RowsOK'
<1> USE StoreAssumption DEF TypeOK, RowsOK, HandlerStep, Pc, GoTo, pass, button
<1>1. ASSUME NEW f \in Frame, Receive(f) PROVE TypeOK' /\ RowsOK'
      BY <1>1 DEF Receive
<1>2. ASSUME NEW f \in Frame, HandlerNext(f) PROVE TypeOK' /\ RowsOK'
  <2>1. CASE WriteFile(f) BY <2>1 DEF WriteFile
  <2>2. CASE InsertRow(f) BY <2>2 DEF InsertRow
  <2>3. CASE UnlinkOwn(f) BY <2>3, FaultTypes DEF UnlinkOwn
  <2> QED BY <1>2, <2>1, <2>2, <2>3 DEF HandlerNext
<1>3. ASSUME NEW f \in Frame, WriteFails(f) PROVE TypeOK' /\ RowsOK'
      BY <1>3, FaultTypes DEF WriteFails
<1>4. ASSUME NEW f \in Frame, InsertFails(f) PROVE TypeOK' /\ RowsOK'
      BY <1>4, FaultTypes DEF InsertFails
<1>5. CASE IngestCrash
  <2>1. PICK W \in SUBSET {f \in InFlight : hstep[f] = "write"},
             R \in SUBSET {f \in InFlight : hstep[f] = "insert"} :
             files' = files \cup {PathOf[f] : f \in W} /\ row' = row \cup R
        BY <1>5 DEF IngestCrash
  <2>2. files' \subseteq Path /\ row' \subseteq Frame /\ R \subseteq InFlight
        BY <2>1 DEF InFlight
  <2>3. \A f \in row' : hstep'[f] \in {"unlink", "done"}
        BY <1>5, <2>1, <2>2 DEF IngestCrash
  <2>4. hstep' \in [Frame -> HandlerStep]
        BY <1>5 DEF IngestCrash
  <2> QED BY <1>5, <2>1, <2>2, <2>3, <2>4, FaultTypes DEF IngestCrash
<1> QED BY <1>1, <1>2, <1>3, <1>4, <1>5

LEMMA CleanerTypes ==
    ASSUME TypeOK, RowsOK, CleanerNext
    PROVE  TypeOK' /\ RowsOK'
<1> USE DEF TypeOK, RowsOK, Pc, handler, button
<1>1. CASE Wake BY <1>1 DEF Wake
<1>2. CASE NoPressure \/ TargetReached \/ NoRows \/ NoProgress
      BY <1>2 DEF NoPressure, TargetReached, NoRows, NoProgress, EndPass
<1>3. CASE Pressure \/ AboveTarget
      BY <1>3 DEF Pressure, AboveTarget
<1>4. CASE SelectOldest
      BY <1>4 DEF SelectOldest, IsOldest
<1>5. CASE DeleteRows
      BY <1>5 DEF DeleteRows, NextBatch
<1>6. ASSUME NEW f \in Frame, UnlinkImage(f) PROVE TypeOK' /\ RowsOK'
  <2>1. batch' = batch \ {f} /\ f \in batch /\ cpc = "unlink"
        BY <1>6 DEF UnlinkImage
  <2>2. \/ files' = files /\ gone' = gone
        \/ files' = files \ {PathOf[f]} /\ gone' = gone \cup {f}
        BY <1>6 DEF UnlinkImage
  <2>3. cpc' = IF batch' = {} THEN "delete" ELSE "unlink"
        BY <1>6 DEF UnlinkImage
  <2> QED BY <1>6, <2>1, <2>2, <2>3 DEF UnlinkImage
<1> QED BY <1>1, <1>2, <1>3, <1>4, <1>5, <1>6 DEF CleanerNext

LEMMA OtherTypes ==
    ASSUME TypeOK, RowsOK,
           PassFails \/ CleanerCrash \/ CleanerRestart \/ Listen \/ ListenerDrops \/ Press
    PROVE  TypeOK' /\ RowsOK'
<1> USE StoreAssumption DEF TypeOK, RowsOK, Pc, handler, pass, button
<1>1. CASE PassFails BY <1>1, FaultTypes DEF PassFails, EndPass, Forget
<1>2. CASE CleanerCrash BY <1>2, FaultTypes DEF CleanerCrash
<1>3. CASE CleanerRestart BY <1>3 DEF CleanerRestart
<1>4. CASE Listen \/ ListenerDrops BY <1>4, FaultTypes DEF Listen, ListenerDrops
<1>5. CASE Press
  <2>1. presses' \in 0..MaxPresses
    <3>1. presses \in 0..MaxPresses /\ presses < MaxPresses /\ presses' = presses + 1
          BY <1>5 DEF Press
    <3> QED BY <3>1
  <2>2. trigger' \in BOOLEAN /\ asked' \in SUBSET Frame
        BY <1>5 DEF Press
  <2> QED BY <1>5, <2>1, <2>2 DEF Press
<1> QED BY <1>1, <1>2, <1>3, <1>4, <1>5

-----------------------------------------------------------------------------
(* Frames in flight and the size of the batch *)

LEMMA HandlerCounts ==
    ASSUME TypeOK, TypeOK', RowsOK, CountsOK,
           \/ \E f \in Frame : Receive(f) \/ HandlerNext(f) \/ WriteFails(f) \/ InsertFails(f)
           \/ IngestCrash
    PROVE  CountsOK'
<1>1. UNCHANGED <<batch, gone>>
      BY DEF Receive, HandlerNext, WriteFile, InsertRow, UnlinkOwn, WriteFails, InsertFails,
             IngestCrash, pass
<1>2. Cardinality(InFlight') <= MaxConnections
  <2>1. ASSUME NEW f \in Frame, Receive(f) PROVE Cardinality(InFlight') <= MaxConnections
    <3>1. InFlight' \subseteq InFlight \cup {f}
          BY <2>1 DEF Receive, GoTo, InFlight, TypeOK
    <3>2. Cardinality(InFlight) < MaxConnections
          BY <2>1 DEF Receive
    <3>3. Cardinality(InFlight') <= Cardinality(InFlight) + 1 /\ Cardinality(InFlight') \in Nat
          BY <3>1, Finite, OneMore, FS_CardinalityType
    <3> QED BY <3>2, <3>3, Finite, StoreAssumption
  <2>2. ASSUME \/ \E f \in Frame : HandlerNext(f) \/ WriteFails(f) \/ InsertFails(f)
               \/ IngestCrash
        PROVE Cardinality(InFlight') <= MaxConnections
    <3>1. InFlight' \subseteq InFlight
      <4>1. ASSUME NEW f \in Frame, HandlerNext(f) \/ WriteFails(f) \/ InsertFails(f)
            PROVE InFlight' \subseteq InFlight
        <5>1. hstep[f] \in {"write", "insert", "unlink"}
              /\ \E s \in HandlerStep : hstep' = [hstep EXCEPT ![f] = s]
              BY <4>1 DEF HandlerNext, WriteFile, InsertRow, UnlinkOwn, WriteFails,
                          InsertFails, GoTo, HandlerStep
        <5> QED BY <5>1 DEF InFlight, TypeOK
      <4>2. CASE IngestCrash
            BY <4>2 DEF IngestCrash, InFlight, TypeOK
      <4> QED BY <2>2, <4>1, <4>2
    <3>2. Cardinality(InFlight') <= Cardinality(InFlight) /\ Cardinality(InFlight') \in Nat
          BY <3>1, Finite, Part
    <3> QED BY <3>2, Finite, StoreAssumption DEF CountsOK
  <2> QED BY <2>1, <2>2
<1> QED BY <1>1, <1>2 DEF CountsOK

LEMMA CleanerCounts ==
    ASSUME TypeOK, TypeOK', RowsOK, CountsOK,
           \/ CleanerNext \/ PassFails \/ CleanerCrash \/ CleanerRestart
           \/ Listen \/ ListenerDrops \/ Press
    PROVE  CountsOK'
<1>1. hstep' = hstep
      BY DEF CleanerNext, Wake, NoPressure, Pressure, TargetReached, AboveTarget, NoRows,
             SelectOldest, DeleteRows, NoProgress, UnlinkImage, PassFails, CleanerCrash,
             CleanerRestart, Listen, ListenerDrops, Press, handler
<1>2. InFlight' = InFlight
      BY <1>1 DEF InFlight
<1>3. Cardinality({}) = 0 /\ IsFiniteSet({})
      BY FS_EmptySet
<1>4. Cardinality(batch') + Cardinality(gone') <= BatchSize
  <2>1. CASE UNCHANGED <<batch, gone>>
        BY <2>1 DEF CountsOK
  <2>2. CASE batch' = {} /\ gone' = {}
        BY <2>2, <1>3, StoreAssumption
  <2>3. CASE SelectOldest
    <3>1. gone' = {} /\ Cardinality(batch') <= BatchSize
          BY <2>3 DEF SelectOldest, IsOldest, TypeOK
    <3>2. Cardinality(batch') \in Nat
          BY Finite, FS_CardinalityType, Part, StoreAssumption DEF TypeOK
    <3> QED BY <1>3, <3>1, <3>2, StoreAssumption
  <2>4. ASSUME NEW f \in Frame, UnlinkImage(f)
        PROVE Cardinality(batch') + Cardinality(gone') <= BatchSize
    <3>1. batch' = batch \ {f} /\ f \in batch
          BY <2>4 DEF UnlinkImage
    <3>2. gone' = gone \/ gone' = gone \cup {f}
          BY <2>4 DEF UnlinkImage
    <3>3. Cardinality(batch') = Cardinality(batch) - 1
          BY <3>1, Finite, OneLess
    <3>4. Cardinality(gone') <= Cardinality(gone) + 1 /\ Cardinality(gone') \in Nat
          BY <3>2, Finite, OneMore, FS_CardinalityType
    <3> QED BY <3>3, <3>4, Finite, StoreAssumption DEF CountsOK
  <2>5. CASE DeleteRows
        BY <2>5, <2>2 DEF DeleteRows, NextBatch, RowsOK
  <2>6. CASE NoPressure \/ TargetReached \/ NoRows \/ NoProgress \/ PassFails \/ CleanerCrash
        BY <2>2, <2>6 DEF NoPressure, TargetReached, NoRows, NoProgress, PassFails,
                          CleanerCrash, EndPass
  <2>7. CASE Wake \/ Pressure \/ AboveTarget \/ CleanerRestart \/ Listen \/ ListenerDrops
             \/ Press
        BY <2>1, <2>7 DEF Wake, Pressure, AboveTarget, CleanerRestart, Listen,
                          ListenerDrops, Press, pass
  <2> QED BY <2>3, <2>4, <2>5, <2>6, <2>7 DEF CleanerNext
<1> QED BY <1>2, <1>4 DEF CountsOK

-----------------------------------------------------------------------------
(* Images of frames about to be inserted *)

LEMMA ImagesStay ==
    ASSUME TypeOK, RowsOK, ImageOK, Next
    PROVE  ImageOK'
<1> SUFFICES ASSUME NEW g \in Frame, hstep'[g] = "insert", ~ Shared(g)
             PROVE  PathOf[g] \in files'
    BY DEF ImageOK, Shared
<1> USE DEF TypeOK
<1>1. CASE files' = files /\ hstep[g] = "insert"
      BY <1>1 DEF ImageOK
<1>2. ASSUME NEW f \in Frame, WriteFile(f) PROVE PathOf[g] \in files'
      BY <1>2 DEF WriteFile, GoTo, ImageOK
<1>3. ASSUME NEW f \in Frame, UnlinkOwn(f) PROVE PathOf[g] \in files'
  <2>1. hstep[g] = "insert" /\ f # g
        BY <1>3 DEF UnlinkOwn, GoTo
  <2>2. PathOf[f] # PathOf[g]
        BY <2>1 DEF Shared
  <2> QED BY <1>3, <2>1, <2>2 DEF UnlinkOwn, ImageOK
<1>4. ASSUME NEW f \in Frame, UnlinkImage(f) PROVE PathOf[g] \in files'
  <2>1. f \in row /\ hstep[g] = "insert"
        BY <1>4 DEF UnlinkImage, RowsOK
  <2>2. f # g
        BY <2>1 DEF RowsOK
  <2>3. PathOf[f] # PathOf[g]
        BY <2>2 DEF Shared
  <2> QED BY <1>4, <2>1, <2>3 DEF UnlinkImage, ImageOK
<1>5. ASSUME NEW f \in Frame, Receive(f) \/ InsertRow(f) \/ InsertFails(f)
      PROVE PathOf[g] \in files'
      BY <1>1, <1>5 DEF Receive, InsertRow, InsertFails, GoTo
<1>6. ASSUME NEW f \in Frame, WriteFails(f) PROVE PathOf[g] \in files'
      BY <1>6 DEF WriteFails, GoTo, ImageOK
<1>7. CASE IngestCrash
      BY <1>7 DEF IngestCrash, InFlight
<1>8. CASE \/ Wake \/ NoPressure \/ Pressure \/ TargetReached \/ AboveTarget \/ NoRows
           \/ SelectOldest \/ DeleteRows \/ NoProgress \/ PassFails \/ CleanerCrash
           \/ CleanerRestart \/ Listen \/ ListenerDrops \/ Press
      BY <1>1, <1>8 DEF Wake, NoPressure, Pressure, TargetReached, AboveTarget, NoRows,
            SelectOldest, DeleteRows, NoProgress, PassFails, CleanerCrash, CleanerRestart,
            Listen, ListenerDrops, Press, handler
<1> QED BY <1>2, <1>3, <1>4, <1>5, <1>6, <1>7, <1>8 DEF Next, HandlerNext, CleanerNext

-----------------------------------------------------------------------------
(* The emergency pass *)

\* No step of on_frame frees an image that no failure has paid for.
LEMMA HandlerFrees ==
    ASSUME TypeOK, TypeOK', Cardinality(Undoing) <= faults,
           \/ \E f \in Frame : Receive(f) \/ HandlerNext(f) \/ WriteFails(f) \/ InsertFails(f)
           \/ IngestCrash
    PROVE  /\ Cardinality(Undoing') <= faults'
           /\ Used + faults + Cardinality(Undoing') <= Used' + faults' + Cardinality(Undoing)
<1> DEFINE Goal == /\ Cardinality(Undoing') <= faults'
                   /\ Used + faults + Cardinality(Undoing')
                        <= Used' + faults' + Cardinality(Undoing)
<1>1. /\ Used \in Nat /\ Used' \in Nat /\ faults \in Nat
      /\ Cardinality(Undoing) \in Nat /\ Cardinality(Undoing') \in Nat
  <2>1. /\ IsFiniteSet(files) /\ IsFiniteSet(Undoing)
        /\ IsFiniteSet(files') /\ IsFiniteSet(Undoing')
    <3>1. files' \subseteq Path /\ Undoing' \subseteq Frame
          BY DEF TypeOK, Undoing
    <3> QED BY <3>1, Finite, Part, StoreAssumption
  <2> QED BY <2>1, FS_CardinalityType, FaultTypes DEF Used
<1>2. ASSUME files \subseteq files' PROVE Used <= Used'
  <2>1. IsFiniteSet(files')
        BY Part, StoreAssumption DEF TypeOK
  <2> QED BY <1>2, <2>1, Part DEF Used
<1>3. ASSUME NEW f \in Frame,
             \/ Receive(f) \/ WriteFile(f) \/ InsertRow(f) \/ WriteFails(f)
      PROVE Goal
  <2>1. Undoing' = Undoing
        BY <1>3 DEF Receive, WriteFile, InsertRow, WriteFails, GoTo, Undoing, TypeOK
  <2>2. files \subseteq files' /\ (faults' = faults \/ faults' = faults + 1)
        BY <1>3 DEF Receive, WriteFile, InsertRow, WriteFails, Fault
  <2> QED BY <1>1, <1>2, <2>1, <2>2
<1>4. ASSUME NEW f \in Frame, InsertFails(f) PROVE Goal
  <2>1. Undoing' \subseteq Undoing \cup {f}
        BY <1>4 DEF InsertFails, GoTo, Undoing, TypeOK
  <2>2. Cardinality(Undoing') <= Cardinality(Undoing) + 1
        BY <2>1, Finite, OneMore
  <2>3. files' = files /\ faults' = faults + 1
        BY <1>4 DEF InsertFails, Fault
  <2> QED BY <1>1, <2>2, <2>3 DEF Used
<1>5. ASSUME NEW f \in Frame, UnlinkOwn(f) PROVE Goal
  <2>1. f \in Undoing /\ Undoing' = Undoing \ {f}
        BY <1>5 DEF UnlinkOwn, GoTo, Undoing, TypeOK
  <2>2. Cardinality(Undoing') = Cardinality(Undoing) - 1
        BY <2>1, Finite, OneLess
  <2>3. CASE files' = files \ {PathOf[f]} /\ faults' = faults
    <3>1. files \subseteq files' \cup {PathOf[f]} /\ IsFiniteSet(files')
          BY <2>3, Part, Finite
    <3>2. Used <= Used' + 1
          BY <3>1, OneMore DEF Used
    <3> QED BY <1>1, <2>2, <2>3, <3>2 DEF Used
  <2>4. CASE files' = files /\ faults' = faults + 1
        BY <1>1, <2>2, <2>4 DEF Used
  <2> QED BY <1>5, <2>3, <2>4 DEF UnlinkOwn, Fault
<1>6. CASE IngestCrash
  <2>1. Undoing' = {}
        BY <1>6 DEF IngestCrash, InFlight, Undoing, TypeOK
  <2>2. files \subseteq files' /\ faults' = faults + 1
        BY <1>6 DEF IngestCrash, Fault
  <2>3. Cardinality(Undoing') = 0
        BY <2>1, FS_EmptySet
  <2> QED BY <1>1, <1>2, <2>2, <2>3
<1> QED BY <1>3, <1>4, <1>5, <1>6 DEF HandlerNext

\* What the Cleaner unlinks it remembers, and it stops between two batches.
LEMMA PassStays ==
    ASSUME TypeOK, TypeOK', RowsOK, PassOK, Next
    PROVE  PassOK'
<1>1. /\ Used \in Nat /\ Cardinality(gone) \in Nat /\ faults \in Nat
      /\ Cardinality(Undoing) \in Nat
      BY Finite, FaultTypes DEF Used
<1>2. CASE \/ \E f \in Frame : Receive(f) \/ HandlerNext(f) \/ WriteFails(f) \/ InsertFails(f)
           \/ IngestCrash
  <2>1. UNCHANGED <<mode, cpc, gone>>
        BY <1>2 DEF Receive, HandlerNext, WriteFile, InsertRow, UnlinkOwn, WriteFails,
                    InsertFails, IngestCrash, pass
  <2>2. /\ Cardinality(Undoing') <= faults'
        /\ Used + faults + Cardinality(Undoing') <= Used' + faults' + Cardinality(Undoing)
        BY <1>2, HandlerFrees DEF PassOK
  <2>3. /\ Used' \in Nat /\ faults' \in Nat /\ Cardinality(Undoing') \in Nat
    <3>1. files' \subseteq Path /\ Undoing' \subseteq Frame /\ faults' \in Nat
          BY DEF TypeOK, Undoing
    <3> QED BY <3>1, Part, StoreAssumption DEF Used
  <2> QED BY <1>1, <2>1, <2>2, <2>3, StoreAssumption DEF PassOK
<1>3. ASSUME ~ (\/ \E f \in Frame :
                     Receive(f) \/ HandlerNext(f) \/ WriteFails(f) \/ InsertFails(f)
                \/ IngestCrash)
      PROVE  PassOK'
  <2>1. hstep' = hstep /\ (faults' = faults \/ faults' = faults + 1)
        BY <1>3 DEF Next, CleanerNext, Wake, NoPressure, Pressure, TargetReached, AboveTarget,
             NoRows, SelectOldest, DeleteRows, NoProgress, UnlinkImage, PassFails, CleanerCrash,
             CleanerRestart, Listen, ListenerDrops, Press, handler, Fault
  <2>2. Undoing' = Undoing
        BY <2>1 DEF Undoing
  <2>3. Cardinality(Undoing') <= faults'
        BY <1>1, <2>1, <2>2 DEF PassOK
  <2>4. CASE ~ (mode' = "emergency" /\ cpc' \in {"select", "unlink", "delete"})
        BY <2>3, <2>4 DEF PassOK
  <2>5. CASE AboveTarget
    <3>1. files' = files /\ gone' = gone /\ faults' = faults /\ Used > Target
          BY <2>5 DEF AboveTarget, handler
    <3>2. Used' + Cardinality(gone') + faults' > Target + Cardinality(Undoing')
          BY <1>1, <2>2, <3>1, StoreAssumption DEF Used, PassOK
    <3> QED BY <2>3, <3>2 DEF PassOK
  <2>6. CASE SelectOldest \/ Listen \/ ListenerDrops \/ Press
    <3>1. /\ UNCHANGED <<files, gone, mode>>
          /\ cpc' = cpc \/ cpc = "select"
          BY <2>6 DEF SelectOldest, Listen, ListenerDrops, Press, handler, pass
    <3>2. Used' = Used
          BY <3>1 DEF Used
    <3> QED BY <1>1, <2>1, <2>2, <2>3, <3>1, <3>2, StoreAssumption DEF PassOK
  <2>7. ASSUME NEW f \in Frame, UnlinkImage(f) PROVE PassOK'
    <3>1. /\ f \in batch /\ cpc = "unlink" /\ mode' = mode /\ faults' = faults
          BY <2>7 DEF UnlinkImage
    <3>2. Used + Cardinality(gone) <= Used' + Cardinality(gone')
      <4>1. CASE files' = files /\ gone' = gone
            BY <1>1, <4>1 DEF Used
      <4>2. CASE files' = files \ {PathOf[f]} /\ gone' = gone \cup {f}
        <5>1. f \notin gone
              BY <3>1 DEF TypeOK
        <5>2. Cardinality(gone') = Cardinality(gone) + 1
              BY <4>2, <5>1, Finite, FS_AddElement
        <5>3. files \subseteq files' \cup {PathOf[f]} /\ IsFiniteSet(files')
              BY <4>2, Part, Finite
        <5>4. Used <= Used' + 1 /\ Used' \in Nat
              BY <5>3, OneMore, FS_CardinalityType DEF Used
        <5> QED BY <1>1, <5>2, <5>4 DEF Used
      <4> QED BY <2>7, <4>1, <4>2 DEF UnlinkImage
    <3>3. Used' \in Nat /\ Cardinality(gone') \in Nat
      <4>1. files' \subseteq Path /\ gone' \subseteq Frame
            BY DEF TypeOK
      <4> QED BY <4>1, Part, StoreAssumption DEF Used
    <3> QED BY <1>1, <2>2, <2>3, <3>1, <3>2, <3>3, StoreAssumption DEF PassOK
  <2>8. CASE \/ Wake \/ NoPressure \/ Pressure \/ TargetReached \/ NoRows \/ DeleteRows
             \/ NoProgress \/ PassFails \/ CleanerCrash \/ CleanerRestart
        BY <2>4, <2>8 DEF Wake, NoPressure, Pressure, TargetReached, NoRows, DeleteRows,
             NextBatch, NoProgress, PassFails, EndPass, CleanerCrash, CleanerRestart
  <2> QED BY <1>3, <2>5, <2>6, <2>7, <2>8 DEF Next, CleanerNext
<1> QED BY <1>2, <1>3

-----------------------------------------------------------------------------
(* What failures leave behind *)

\* One failure more pays for c more.
LEMMA Paid ==
    ASSUME NEW n \in Nat, NEW m \in Nat, NEW c \in Nat, NEW a, NEW b,
           a \in Nat, b \in Nat, a <= n * c, b <= a + c, m = n + 1
    PROVE  b <= m * c
<1>1. m * c = n * c + c
      OBVIOUS
<1>2. n * c \in Nat
      OBVIOUS
<1> QED BY <1>1, <1>2

\* A set that only loses elements stays within its bound, and so does one that
\* gains what one failure may add.
LEMMA LooseStep ==
    ASSUME TypeOK, TypeOK', LooseOK,
           \/ Loose' \subseteq Loose /\ (faults' = faults \/ Fault)
           \/ Fault /\ \E X : /\ IsFiniteSet(X) /\ Cardinality(X) <= MaxConnections
                              /\ Loose' \subseteq Loose \cup X
    PROVE  LooseOK'
<1>1. /\ faults \in Nat /\ IsFiniteSet(Loose) /\ Cardinality(Loose) \in Nat
      /\ MaxConnections \in Nat
      BY Finite, FaultTypes, StoreAssumption
<1>2. IsFiniteSet(Loose') /\ Cardinality(Loose') \in Nat
  <2>1. Loose' \subseteq Path
        BY DEF TypeOK, Loose
  <2> QED BY <2>1, Part, StoreAssumption
<1>3. CASE Loose' \subseteq Loose /\ faults' = faults
      BY <1>1, <1>3, Part DEF LooseOK
<1>4. ASSUME Fault, NEW X, IsFiniteSet(X), Cardinality(X) <= MaxConnections,
             Loose' \subseteq Loose \cup X
      PROVE  LooseOK'
  <2>1. Cardinality(Loose') <= Cardinality(Loose) + Cardinality(X) /\ Cardinality(X) \in Nat
        BY <1>1, <1>4, Both, FS_CardinalityType
  <2>2. Cardinality(Loose') <= Cardinality(Loose) + MaxConnections
        BY <1>1, <1>2, <1>4, <2>1
  <2>3. faults' = faults + 1 /\ faults' \in Nat
        BY <1>1, <1>4 DEF Fault
  <2> QED BY <1>1, <1>2, <2>2, <2>3, Paid DEF LooseOK
<1>5. CASE Loose' \subseteq Loose /\ Fault
  <2>1. IsFiniteSet({}) /\ Cardinality({}) <= MaxConnections
        BY <1>1, FS_EmptySet
  <2> QED BY <1>4, <1>5, <2>1
<1> QED BY <1>3, <1>4, <1>5

LEMMA BareStep ==
    ASSUME TypeOK, TypeOK', BareOK,
           \/ Bare' \subseteq Bare /\ (faults' = faults \/ Fault)
           \/ Fault /\ \E X : /\ IsFiniteSet(X) /\ Cardinality(X) <= BatchSize
                              /\ Bare' \subseteq Bare \cup X
    PROVE  BareOK'
<1>1. /\ faults \in Nat /\ IsFiniteSet(Bare) /\ Cardinality(Bare) \in Nat
      /\ BatchSize \in Nat
      BY Finite, FaultTypes, StoreAssumption
<1>2. IsFiniteSet(Bare') /\ Cardinality(Bare') \in Nat
  <2>1. Bare' \subseteq Frame
        BY DEF TypeOK, Bare
  <2> QED BY <2>1, Part, StoreAssumption
<1>3. CASE Bare' \subseteq Bare /\ faults' = faults
      BY <1>1, <1>3, Part DEF BareOK
<1>4. ASSUME Fault, NEW X, IsFiniteSet(X), Cardinality(X) <= BatchSize,
             Bare' \subseteq Bare \cup X
      PROVE  BareOK'
  <2>1. Cardinality(Bare') <= Cardinality(Bare) + Cardinality(X) /\ Cardinality(X) \in Nat
        BY <1>1, <1>4, Both, FS_CardinalityType
  <2>2. Cardinality(Bare') <= Cardinality(Bare) + BatchSize
        BY <1>1, <1>2, <1>4, <2>1
  <2>3. faults' = faults + 1 /\ faults' \in Nat
        BY <1>1, <1>4 DEF Fault
  <2> QED BY <1>1, <1>2, <2>2, <2>3, Paid DEF BareOK
<1>5. CASE Bare' \subseteq Bare /\ Fault
  <2>1. IsFiniteSet({}) /\ Cardinality({}) <= BatchSize
        BY <1>1, FS_EmptySet
  <2> QED BY <1>4, <1>5, <2>1
<1> QED BY <1>3, <1>4, <1>5

\* on_frame: a file stays without a row when writing it or undoing it fails, or
\* when the process ends; a row without a file when its INSERT said it failed.
LEMMA HandlerLeaves ==
    ASSUME TypeOK, TypeOK', RowsOK, CountsOK, ImageOK, LooseOK, BareOK,
           \/ \E f \in Frame : Receive(f) \/ HandlerNext(f) \/ WriteFails(f) \/ InsertFails(f)
           \/ IngestCrash
    PROVE  LooseOK' /\ BareOK'
<1> USE DEF TypeOK, HandlerStep
<1>1. \A x : IsFiniteSet({x}) /\ Cardinality({x}) <= MaxConnections
             /\ Cardinality({x}) <= BatchSize
  <2>1. 1 <= MaxConnections /\ 1 <= BatchSize
        BY StoreAssumption
  <2> QED BY <2>1, FS_Singleton
<1>2. ASSUME NEW f \in Frame, Receive(f) \/ WriteFile(f) PROVE LooseOK' /\ BareOK'
  <2>1. /\ UNCHANGED <<row, gone, faults>>
        /\ \/ Receive(f) /\ files' = files /\ hstep[f] = "new" /\ GoTo(f, "write")
           \/ /\ files' = files \cup {PathOf[f]}
              /\ hstep[f] = "write" /\ GoTo(f, "insert")
        BY <1>2 DEF Receive, WriteFile, pass
  <2>2. Loose' \subseteq Loose
        BY <2>1 DEF Loose, GoTo
  <2>3. Bare' \subseteq Bare
        BY <2>1 DEF Bare, GoTo, Shared
  <2> QED BY <2>1, <2>2, <2>3, LooseStep, BareStep
<1>3. ASSUME NEW f \in Frame, InsertRow(f) PROVE LooseOK' /\ BareOK'
  <2>1. /\ UNCHANGED <<files, gone, faults>> /\ row' = row \cup {f}
        /\ hstep[f] = "insert" /\ GoTo(f, "done")
        BY <1>3 DEF InsertRow, pass
  <2>2. f \notin gone
        BY <2>1 DEF RowsOK
  <2>3. Loose' \subseteq Loose
        BY <2>1, <2>2 DEF Loose, GoTo
  <2>4. Bare' \subseteq Bare
        BY <2>1 DEF Bare, GoTo, Shared, ImageOK
  <2> QED BY <2>1, <2>3, <2>4, LooseStep, BareStep
<1>4. ASSUME NEW f \in Frame, UnlinkOwn(f) PROVE LooseOK' /\ BareOK'
  <2>1. /\ UNCHANGED <<row, gone>> /\ hstep[f] = "unlink" /\ GoTo(f, "done")
        /\ \/ files' = files \ {PathOf[f]} /\ faults' = faults
           \/ files' = files /\ Fault
        BY <1>4 DEF UnlinkOwn, pass
  <2>2. CASE files' = files \ {PathOf[f]} /\ faults' = faults
    <3>1. Loose' \subseteq Loose
          BY <2>1, <2>2 DEF Loose, GoTo
    <3>2. Bare' \subseteq Bare
          BY <2>1, <2>2 DEF Bare, GoTo, Shared
    <3> QED BY <2>2, <3>1, <3>2, LooseStep, BareStep
  <2>3. CASE files' = files /\ Fault
    <3>1. Loose' \subseteq Loose \cup {PathOf[f]}
          BY <2>1, <2>3 DEF Loose, GoTo
    <3>2. Bare' \subseteq Bare
          BY <2>1, <2>3 DEF Bare, GoTo, Shared
    <3> QED BY <1>1, <2>3, <3>1, <3>2, LooseStep, BareStep
  <2> QED BY <2>1, <2>2, <2>3
<1>5. ASSUME NEW f \in Frame, WriteFails(f) PROVE LooseOK' /\ BareOK'
  <2>1. /\ UNCHANGED <<row, gone>> /\ hstep[f] = "write" /\ GoTo(f, "done") /\ Fault
        /\ files \subseteq files' /\ files' \subseteq files \cup {PathOf[f]}
        BY <1>5 DEF WriteFails, pass
  <2>2. Loose' \subseteq Loose \cup {PathOf[f]}
        BY <2>1 DEF Loose, GoTo
  <2>3. Bare' \subseteq Bare
        BY <2>1 DEF Bare, GoTo, Shared
  <2> QED BY <1>1, <2>1, <2>2, <2>3, LooseStep, BareStep
<1>6. ASSUME NEW f \in Frame, InsertFails(f) PROVE LooseOK' /\ BareOK'
  <2>1. /\ UNCHANGED <<files, gone>> /\ hstep[f] = "insert" /\ GoTo(f, "unlink") /\ Fault
        /\ row \subseteq row' /\ row' \subseteq row \cup {f}
        BY <1>6 DEF InsertFails, pass
  <2>2. Loose' \subseteq Loose
        BY <2>1 DEF Loose, GoTo
  <2>3. Bare' \subseteq Bare \cup {f}
        BY <2>1 DEF Bare, GoTo, Shared
  <2> QED BY <1>1, <2>1, <2>2, <2>3, LooseStep, BareStep
<1>7. CASE IngestCrash
  <2> DEFINE X == {PathOf[f] : f \in InFlight}
  <2>1. PICK W \in SUBSET {f \in InFlight : hstep[f] = "write"},
             R \in SUBSET {f \in InFlight : hstep[f] = "insert"} :
             files' = files \cup {PathOf[f] : f \in W} /\ row' = row \cup R
        BY <1>7 DEF IngestCrash
  <2>2. /\ gone' = gone /\ Fault
        /\ hstep' = [f \in Frame |-> IF f \in InFlight THEN "done" ELSE hstep[f]]
        BY <1>7 DEF IngestCrash, pass
  <2>3. IsFiniteSet(X) /\ Cardinality(X) <= MaxConnections
    <3>1. InFlight \in SUBSET Frame
          BY DEF InFlight
    <3>2. IsFiniteSet(X) /\ Cardinality(X) <= Cardinality(InFlight)
          BY <3>1, PathsOf, Finite
    <3>3. Cardinality(X) \in Nat /\ Cardinality(InFlight) \in Nat
          BY <3>2, Finite, FS_CardinalityType
    <3> QED BY <3>2, <3>3, StoreAssumption DEF CountsOK
  <2>4. Loose' \subseteq Loose \cup X
    <3> SUFFICES ASSUME NEW p \in Loose', p \notin X PROVE p \in Loose
        OBVIOUS
    <3>1. p \in files
          BY <2>1 DEF Loose
    <3>2. ASSUME NEW f \in Frame, PathOf[f] = p
          PROVE  f \notin row \ gone /\ hstep[f] \notin {"insert", "unlink"}
      <4>1. f \notin InFlight
            BY <3>2
      <4>2. f \notin row' \ gone' /\ hstep'[f] \notin {"insert", "unlink"}
            BY <3>2 DEF Loose
      <4> QED BY <2>1, <2>2, <4>1, <4>2
    <3> QED BY <3>1, <3>2 DEF Loose
  <2>5. Bare' \subseteq Bare
    <3> SUFFICES ASSUME NEW f \in Bare' PROVE f \in Bare
        OBVIOUS
    <3>1. f \in Frame /\ f \in row' \ gone /\ ~ Shared(f)
          BY <2>2 DEF Bare, Shared
    <3>2. hstep'[f] # "unlink"
          BY <2>2, <3>1 DEF InFlight
    <3>3. PathOf[f] \notin files' /\ PathOf[f] \notin files
          BY <2>1, <3>2 DEF Bare
    <3>4. f \notin R
          BY <3>1, <3>3 DEF ImageOK
    <3> QED BY <2>1, <3>1, <3>3, <3>4 DEF Bare
  <2> HIDE DEF X
  <2> QED BY <2>2, <2>3, <2>4, <2>5, LooseStep, BareStep
<1> QED BY <1>2, <1>3, <1>4, <1>5, <1>6, <1>7 DEF HandlerNext

\* The Cleaner unlinks a file before it deletes the row: only a pass that ends
\* between the two leaves the rows of its batch without files.
LEMMA CleanerLeaves ==
    ASSUME TypeOK, TypeOK', RowsOK, CountsOK, LooseOK, BareOK,
           \/ CleanerNext \/ PassFails \/ CleanerCrash \/ CleanerRestart
           \/ Listen \/ ListenerDrops \/ Press
    PROVE  LooseOK' /\ BareOK'
<1>1. ASSUME NEW f \in Frame, UnlinkImage(f) PROVE LooseOK' /\ BareOK'
  <2>1. /\ UNCHANGED <<row, hstep, faults>>
        /\ \/ UNCHANGED <<files, gone>>
           \/ files' = files \ {PathOf[f]} /\ gone' = gone \cup {f}
        BY <1>1 DEF UnlinkImage
  <2>2. Loose' \subseteq Loose
        BY <2>1 DEF Loose
  <2>3. Bare' \subseteq Bare
    <3> SUFFICES ASSUME NEW g \in Bare' PROVE g \in Bare
        OBVIOUS
    <3>1. g \in row \ gone /\ ~ Shared(g) /\ g \in Frame
          BY <2>1 DEF Bare, Shared, TypeOK
    <3>2. CASE UNCHANGED <<files, gone>>
          BY <2>1, <3>1, <3>2 DEF Bare
    <3>3. CASE files' = files \ {PathOf[f]} /\ gone' = gone \cup {f}
      <4>1. g # f
            BY <3>3 DEF Bare
      <4>2. PathOf[g] # PathOf[f]
            BY <3>1, <4>1 DEF Shared
      <4> QED BY <2>1, <3>1, <3>3, <4>2 DEF Bare
    <3> QED BY <2>1, <3>2, <3>3
  <2> QED BY <2>1, <2>2, <2>3, LooseStep, BareStep
<1>2. CASE DeleteRows
  <2>1. UNCHANGED <<files, hstep, faults>> /\ row' = row \ gone /\ gone' = {}
        BY <1>2 DEF DeleteRows, NextBatch
  <2>2. row' \ gone' = row \ gone
        BY <2>1
  <2>3. Loose' \subseteq Loose /\ Bare' \subseteq Bare
        BY <2>1, <2>2 DEF Loose, Bare, Shared
  <2> QED BY <2>1, <2>3, LooseStep, BareStep
<1>3. CASE PassFails \/ CleanerCrash
  <2>1. /\ UNCHANGED <<files, hstep>> /\ gone' = {} /\ Fault
        /\ row' = row \/ row' = row \ gone
        BY <1>3 DEF PassFails, CleanerCrash, EndPass, handler
  <2>2. Loose' \subseteq Loose
        BY <2>1 DEF Loose
  <2>3. Bare' \subseteq Bare \cup gone
        BY <2>1 DEF Bare, Shared
  <2>4. IsFiniteSet(gone) /\ Cardinality(gone) <= BatchSize
        BY Finite, StoreAssumption DEF CountsOK
  <2> QED BY <2>1, <2>2, <2>3, <2>4, LooseStep, BareStep
<1>4. CASE NoPressure \/ TargetReached \/ NoRows \/ NoProgress
  <2>1. UNCHANGED <<files, row, hstep, gone, faults>>
        BY <1>4 DEF NoPressure, TargetReached, NoRows, NoProgress, EndPass, handler, TypeOK
  <2>2. Loose' \subseteq Loose /\ Bare' \subseteq Bare
        BY <2>1 DEF Loose, Bare, Shared
  <2> QED BY <2>1, <2>2, LooseStep, BareStep
<1>5. CASE \/ Wake \/ Pressure \/ AboveTarget \/ SelectOldest \/ CleanerRestart
           \/ Listen \/ ListenerDrops \/ Press
  <2>1. UNCHANGED <<files, row, hstep, gone>> /\ (faults' = faults \/ Fault)
        BY <1>5 DEF Wake, Pressure, AboveTarget, SelectOldest, CleanerRestart, Listen,
                    ListenerDrops, Press, handler, pass
  <2>2. Loose' \subseteq Loose /\ Bare' \subseteq Bare
        BY <2>1 DEF Loose, Bare, Shared
  <2> QED BY <2>1, <2>2, LooseStep, BareStep
<1> QED BY <1>1, <1>2, <1>3, <1>4, <1>5 DEF CleanerNext

-----------------------------------------------------------------------------
(* The theorems *)

\* The invariant is inductive.
THEOREM Inductive == Spec => []IInv
<1>1. IInv /\ [Next]_vars => IInv'
  <2> SUFFICES ASSUME IInv, [Next]_vars PROVE IInv'
      OBVIOUS
  <2>1. TypeOK /\ RowsOK /\ CountsOK /\ ImageOK /\ PassOK /\ LooseOK /\ BareOK
        BY DEF IInv
  <2>2. CASE \/ \E f \in Frame :
                   Receive(f) \/ HandlerNext(f) \/ WriteFails(f) \/ InsertFails(f)
             \/ IngestCrash
    <3>1. TypeOK' /\ RowsOK'
          BY <2>1, <2>2, HandlerTypes
    <3>2. CountsOK' /\ LooseOK' /\ BareOK'
          BY <2>1, <2>2, <3>1, HandlerCounts, HandlerLeaves
    <3>3. Next
          BY <2>2 DEF Next
    <3> QED BY <2>1, <3>1, <3>2, <3>3, ImagesStay, PassStays DEF IInv
  <2>3. CASE \/ CleanerNext \/ PassFails \/ CleanerCrash \/ CleanerRestart
             \/ Listen \/ ListenerDrops \/ Press
    <3>1. TypeOK' /\ RowsOK'
          BY <2>1, <2>3, CleanerTypes, OtherTypes
    <3>2. CountsOK' /\ LooseOK' /\ BareOK'
          BY <2>1, <2>3, <3>1, CleanerCounts, CleanerLeaves
    <3>3. Next
          BY <2>3 DEF Next
    <3> QED BY <2>1, <3>1, <3>2, <3>3, ImagesStay, PassStays DEF IInv
  <2>4. CASE UNCHANGED vars
        BY <2>1, <2>4 DEF IInv, vars, TypeOK, RowsOK, CountsOK, ImageOK, PassOK, LooseOK,
                      BareOK, InFlight, Undoing, Loose, Bare, Used, Shared
  <2> QED BY <2>2, <2>3, <2>4 DEF Next
<1> QED BY <1>1, InitIInv, PTL DEF Spec

\* Type correctness: a pass has a mode exactly while it runs, and what is in hand
\* is in hand only between the SELECT and the DELETE.
THEOREM TypeCorrect == Spec => []TypeOK
<1>1. IInv => TypeOK BY DEF IInv
<1> QED BY <1>1, Inductive, PTL

\* Files no row knows are bounded by the failures: on_frame writes before it
\* inserts, and the Cleaner unlinks before it deletes.
THEOREM OrphansBounded == Spec => []OrphansNeedFaults
<1>1. IInv => OrphansNeedFaults
  <2> SUFFICES ASSUME IInv PROVE OrphansNeedFaults
      OBVIOUS
  <2>1. Orphans \subseteq Loose
        BY DEF Orphans, Loose
  <2>2. Cardinality(Orphans) <= Cardinality(Loose) /\ Cardinality(Orphans) \in Nat
        BY <2>1, Finite, Part DEF IInv
  <2>3. faults \in Nat /\ Cardinality(Loose) \in Nat /\ faults * MaxConnections \in Nat
        BY Finite, FaultTypes, StoreAssumption DEF IInv
  <2> QED BY <2>2, <2>3 DEF IInv, LooseOK, OrphansNeedFaults
<1> QED BY <1>1, Inductive, PTL

\* Rows whose image is gone are at most one batch for each failure: successful_ids
\* of the Cleaner and the undo of on_frame.
THEOREM ImagelessBounded == Spec => []ImagelessNeedFaults
<1>1. IInv => ImagelessNeedFaults
  <2> SUFFICES ASSUME IInv PROVE ImagelessNeedFaults
      OBVIOUS
  <2>1. Imageless \subseteq Bare
        BY DEF Imageless, Bare
  <2>2. Cardinality(Imageless) <= Cardinality(Bare) /\ Cardinality(Imageless) \in Nat
        BY <2>1, Finite, Part DEF IInv
  <2>3. faults \in Nat /\ Cardinality(Bare) \in Nat /\ faults * BatchSize \in Nat
        BY Finite, FaultTypes, StoreAssumption DEF IInv
  <2> QED BY <2>2, <2>3 DEF IInv, BareOK, ImagelessNeedFaults
<1> QED BY <1>1, Inductive, PTL

\* The emergency pass stops at its target, whatever the gateway does meanwhile.
THEOREM PassStopsAtTarget == Spec => []TargetRespected
<1>1. IInv => TargetRespected
  <2> SUFFICES ASSUME IInv, mode = "emergency", cpc \in {"unlink", "delete"}
               PROVE  Used + Cardinality(gone) + faults > Target
      BY DEF TargetRespected
  <2>1. Used + Cardinality(gone) + faults > Target + Cardinality(Undoing)
        BY DEF IInv, PassOK
  <2>2. /\ Used \in Nat /\ Cardinality(gone) \in Nat /\ faults \in Nat
        /\ Cardinality(Undoing) \in Nat
        BY Finite, FaultTypes DEF IInv, Used
  <2> QED BY <2>1, <2>2, StoreAssumption
<1> QED BY <1>1, Inductive, PTL
=============================================================================
