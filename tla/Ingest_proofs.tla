---------------------------- MODULE Ingest_proofs ----------------------------
(* Proofs about Ingest: type correctness, the deadline of a pairing, and    *)
(* the choice of the reading.                                               *)
EXTENDS Ingest, TLAPS

\* The clock never stands behind what it stamped, and a tick is never late.
ClockOK ==
    /\ up => now <= due
    /\ due <= now + Interval /\ down <= now
    /\ \A d \in Reading : dustAt[d] <= now
    /\ \A f \in Frame : pairedAt[f] <= now /\ rowAt[f] <= now /\ frameAt[f] <= now

\* Nothing is under way in a process that does not run.
StoppedOK ==
    ~ up => /\ \A d \in Reading : dstep[d] # "saving"
            /\ \A f \in Frame : fstep[f] # "saving"

\* Only observations come past the gate.
GateOK == \A d \in Reading : dstep[d] \in {"saving", "stored"} => d \in Observing

\* A paired frame and its reading are stored and within the window.
PairOK ==
    \A f \in Frame : pair[f] # NoReading =>
        fstep[f] = "stored" /\ Stored(pair[f]) /\ InWindow(f, pair[f])

\* The next tick, or the one a restart starts with, comes before the deadline.
NextTick == IF up THEN due ELSE now

TickOK ==
    \A f \in Frame, d \in Reading :
        Unmatched(f, d) =>
            NextTick <= Deadline(f, d) \/ Deadline(f, d) >= frameAt[f] + Lookback

IInv == TypeOK /\ ClockOK /\ StoppedOK /\ GateOK /\ PairOK /\ TickOK /\ NearestSoFar

USE DEF dust, frames, pairs, clocks, Fault

\* The initial state satisfies the invariant.
LEMMA InitIInv == Init => IInv
<1> SUFFICES ASSUME Init PROVE IInv
    OBVIOUS
<1> USE IngestAssumption DEF Init
<1>1. TypeOK BY DEF TypeOK, HandlerStep
<1>2. ClockOK BY DEF ClockOK
<1>3. StoppedOK /\ GateOK /\ PairOK /\ TickOK /\ NearestSoFar
      BY DEF StoppedOK, GateOK, PairOK, TickOK, NearestSoFar, Unmatched
<1> QED BY <1>1, <1>2, <1>3 DEF IInv

\* Every step keeps the types.
LEMMA TypeStep == IInv /\ [Next]_vars => TypeOK'
<1> SUFFICES ASSUME IInv, [Next]_vars PROVE TypeOK'
    OBVIOUS
<1> USE IngestAssumption DEF IInv, TypeOK, HandlerStep
<1>1. ASSUME NEW d \in Reading, ReceiveDust(d) PROVE TypeOK'
      BY <1>1 DEF ReceiveDust
<1>2. ASSUME NEW d \in Reading, StoreDust(d) PROVE TypeOK'
      BY <1>2 DEF StoreDust
<1>3. ASSUME NEW d \in Reading, DustFails(d) PROVE TypeOK'
      BY <1>3 DEF DustFails
<1>4. ASSUME NEW f \in Frame, CaptureFrame(f) PROVE TypeOK'
      BY <1>4 DEF CaptureFrame
<1>5. ASSUME NEW f \in Frame, StoreFrame(f) PROVE TypeOK'
      BY <1>5 DEF StoreFrame, ClockOK
<1>6. ASSUME NEW f \in Frame, FrameFails(f) PROVE TypeOK'
      BY <1>6 DEF FrameFails
<1>7. ASSUME Tick PROVE TypeOK'
  <2> DEFINE F == {f \in Unpaired : Candidates(f) # {}}
  <2>1. PICK p \in [F -> Reading] :
            /\ pair' = [f \in Frame |-> IF f \in F THEN p[f] ELSE pair[f]]
            /\ pairedAt' = [f \in Frame |-> IF f \in F THEN now ELSE pairedAt[f]]
        BY <1>7 DEF Tick
  <2>2. F \subseteq {f \in Frame : fstep[f] = "stored"}
        BY DEF Unpaired
  <2>3. /\ UNCHANGED <<now, gate, dstep, dustAt, fstep, frameAt, rowAt, up, down, faults>>
        /\ due' = now + Interval
        BY <1>7 DEF Tick
  <2> HIDE DEF F
  <2>4. /\ pair' \in [Frame -> Reading \cup {NoReading}]
        /\ pairedAt' \in [Frame -> 0..MaxTime]
        BY <2>1
  <2>5. \A f \in Frame : pair'[f] # NoReading => fstep[f] = "stored"
        BY <2>1, <2>2
  <2> QED BY <2>3, <2>4, <2>5
<1>8. CASE TickFails BY <1>8 DEF TickFails
<1>9. CASE Advance BY <1>9 DEF Advance, ClockOK
<1>10. CASE Crash
  <2>1. /\ dstep' \in [Reading -> HandlerStep] /\ fstep' \in [Frame -> HandlerStep]
        /\ \A f \in Frame : /\ fstep'[f] # "saving"
                            /\ fstep[f] = "stored" <=> fstep'[f] = "stored"
        BY <1>10 DEF Crash
  <2>2. /\ up' = FALSE /\ faults' \in 0..MaxFaults
        /\ UNCHANGED <<now, gate, dustAt, frameAt, rowAt, pair, pairedAt, due, down>>
        BY <1>10 DEF Crash
  <2> QED BY <2>1, <2>2
<1>11. CASE Restart BY <1>11 DEF Restart
<1>12. CASE UNCHANGED vars BY <1>12 DEF vars
<1> QED BY <1>1, <1>2, <1>3, <1>4, <1>5, <1>6, <1>7, <1>8, <1>9, <1>10, <1>11,
           <1>12 DEF Next

\* Every step keeps the clock and what it stamped in order.
LEMMA ClockStep == IInv /\ [Next]_vars => ClockOK'
<1> SUFFICES ASSUME IInv, [Next]_vars PROVE ClockOK'
    OBVIOUS
<1> USE IngestAssumption DEF IInv, TypeOK, ClockOK
<1>1. ASSUME NEW d \in Reading, ReceiveDust(d) PROVE ClockOK'
      BY <1>1 DEF ReceiveDust
<1>2. ASSUME NEW d \in Reading, StoreDust(d) PROVE ClockOK'
      BY <1>2 DEF StoreDust
<1>3. ASSUME NEW d \in Reading, DustFails(d) PROVE ClockOK'
      BY <1>3 DEF DustFails
<1>4. ASSUME NEW f \in Frame, CaptureFrame(f) PROVE ClockOK'
      BY <1>4 DEF CaptureFrame
<1>5. ASSUME NEW f \in Frame, StoreFrame(f) PROVE ClockOK'
      BY <1>5 DEF StoreFrame
<1>6. ASSUME NEW f \in Frame, FrameFails(f) PROVE ClockOK'
      BY <1>6 DEF FrameFails
<1>7. ASSUME Tick PROVE ClockOK'
  <2>1. \A f \in Frame : pairedAt'[f] = pairedAt[f] \/ pairedAt'[f] = now
        BY <1>7 DEF Tick
  <2>2. UNCHANGED <<now, dustAt, rowAt, frameAt, up, down>> /\ due' = now + Interval
        BY <1>7 DEF Tick
  <2> QED BY <2>1, <2>2
<1>8. CASE TickFails BY <1>8 DEF TickFails
<1>9. CASE Advance BY <1>9 DEF Advance
<1>10. CASE Crash BY <1>10 DEF Crash
<1>11. CASE Restart BY <1>11 DEF Restart
<1>12. CASE UNCHANGED vars BY <1>12 DEF vars
<1> QED BY <1>1, <1>2, <1>3, <1>4, <1>5, <1>6, <1>7, <1>8, <1>9, <1>10, <1>11,
           <1>12 DEF Next

\* A process that does not run has nothing under way, and only observations are
\* stored.
LEMMA GateStep == IInv /\ [Next]_vars => StoppedOK' /\ GateOK'
<1> SUFFICES ASSUME IInv, [Next]_vars PROVE StoppedOK' /\ GateOK'
    OBVIOUS
<1> USE DEF IInv, TypeOK, HandlerStep, StoppedOK, GateOK
<1>1. ASSUME NEW d \in Reading, ReceiveDust(d) PROVE StoppedOK' /\ GateOK'
      BY <1>1 DEF ReceiveDust
<1>2. ASSUME NEW d \in Reading, StoreDust(d) PROVE StoppedOK' /\ GateOK'
      BY <1>2 DEF StoreDust
<1>3. ASSUME NEW d \in Reading, DustFails(d) PROVE StoppedOK' /\ GateOK'
      BY <1>3 DEF DustFails
<1>4. ASSUME NEW f \in Frame, CaptureFrame(f) PROVE StoppedOK' /\ GateOK'
      BY <1>4 DEF CaptureFrame
<1>5. ASSUME NEW f \in Frame, StoreFrame(f) PROVE StoppedOK' /\ GateOK'
      BY <1>5 DEF StoreFrame
<1>6. ASSUME NEW f \in Frame, FrameFails(f) PROVE StoppedOK' /\ GateOK'
      BY <1>6 DEF FrameFails
<1>7. ASSUME Tick PROVE StoppedOK' /\ GateOK'
      BY <1>7 DEF Tick
<1>8. CASE TickFails BY <1>8 DEF TickFails
<1>9. CASE Advance BY <1>9 DEF Advance
<1>10. CASE Crash BY <1>10 DEF Crash
<1>11. CASE Restart BY <1>11 DEF Restart
<1>12. CASE UNCHANGED vars BY <1>12 DEF vars
<1> QED BY <1>1, <1>2, <1>3, <1>4, <1>5, <1>6, <1>7, <1>8, <1>9, <1>10, <1>11,
           <1>12 DEF Next

\* What is stored stays as it is; what a step stores is stamped with the clock
\* and does not move the next tick.
KeepsReading(d) ==
    /\ Stored(d) => Stored(d)' /\ dustAt'[d] = dustAt[d]
    /\ ~ Stored(d) /\ Stored(d)' =>
          dustAt'[d] = now /\ up /\ up' /\ due' = due /\ pairs' = pairs /\ now' = now

KeepsFrame(f) ==
    /\ fstep[f] = "stored" =>
          fstep'[f] = "stored" /\ frameAt'[f] = frameAt[f] /\ rowAt'[f] = rowAt[f]
    /\ fstep[f] # "stored" /\ fstep'[f] = "stored" =>
          rowAt'[f] = now /\ up /\ up' /\ due' = due /\ pairs' = pairs /\ now' = now

\* Stored readings are never changed.
LEMMA ReadingStep == IInv /\ [Next]_vars => \A d \in Reading : KeepsReading(d)
<1> SUFFICES ASSUME IInv, [Next]_vars, NEW x \in Reading PROVE KeepsReading(x)
    OBVIOUS
<1> USE DEF IInv, TypeOK, HandlerStep, StoppedOK, Stored, KeepsReading
<1>1. ASSUME NEW d \in Reading, ReceiveDust(d) PROVE KeepsReading(x)
      BY <1>1 DEF ReceiveDust
<1>2. ASSUME NEW d \in Reading, StoreDust(d) PROVE KeepsReading(x)
      BY <1>2 DEF StoreDust
<1>3. ASSUME NEW d \in Reading, DustFails(d) PROVE KeepsReading(x)
      BY <1>3 DEF DustFails
<1>4. ASSUME NEW f \in Frame, CaptureFrame(f) PROVE KeepsReading(x)
      BY <1>4 DEF CaptureFrame
<1>5. ASSUME NEW f \in Frame, StoreFrame(f) PROVE KeepsReading(x)
      BY <1>5 DEF StoreFrame
<1>6. ASSUME NEW f \in Frame, FrameFails(f) PROVE KeepsReading(x)
      BY <1>6 DEF FrameFails
<1>7. ASSUME Tick PROVE KeepsReading(x)
      BY <1>7 DEF Tick
<1>8. CASE TickFails BY <1>8 DEF TickFails
<1>9. CASE Advance BY <1>9 DEF Advance
<1>10. CASE Crash BY <1>10 DEF Crash
<1>11. CASE Restart BY <1>11 DEF Restart
<1>12. CASE UNCHANGED vars BY <1>12 DEF vars
<1> QED BY <1>1, <1>2, <1>3, <1>4, <1>5, <1>6, <1>7, <1>8, <1>9, <1>10, <1>11,
           <1>12 DEF Next

\* Stored frames keep their time.
LEMMA FrameStep == IInv /\ [Next]_vars => \A f \in Frame : KeepsFrame(f)
<1> SUFFICES ASSUME IInv, [Next]_vars, NEW x \in Frame PROVE KeepsFrame(x)
    OBVIOUS
<1> USE DEF IInv, TypeOK, HandlerStep, StoppedOK, KeepsFrame
<1>1. ASSUME NEW d \in Reading, ReceiveDust(d) PROVE KeepsFrame(x)
      BY <1>1 DEF ReceiveDust
<1>2. ASSUME NEW d \in Reading, StoreDust(d) PROVE KeepsFrame(x)
      BY <1>2 DEF StoreDust
<1>3. ASSUME NEW d \in Reading, DustFails(d) PROVE KeepsFrame(x)
      BY <1>3 DEF DustFails
<1>4. ASSUME NEW f \in Frame, CaptureFrame(f) PROVE KeepsFrame(x)
      BY <1>4 DEF CaptureFrame
<1>5. ASSUME NEW f \in Frame, StoreFrame(f) PROVE KeepsFrame(x)
      BY <1>5 DEF StoreFrame
<1>6. ASSUME NEW f \in Frame, FrameFails(f) PROVE KeepsFrame(x)
      BY <1>6 DEF FrameFails
<1>7. ASSUME Tick PROVE KeepsFrame(x)
      BY <1>7 DEF Tick
<1>8. CASE TickFails BY <1>8 DEF TickFails
<1>9. CASE Advance BY <1>9 DEF Advance
<1>10. CASE Crash BY <1>10 DEF Crash
<1>11. CASE Restart BY <1>11 DEF Restart
<1>12. CASE UNCHANGED vars BY <1>12 DEF vars
<1> QED BY <1>1, <1>2, <1>3, <1>4, <1>5, <1>6, <1>7, <1>8, <1>9, <1>10, <1>11,
           <1>12 DEF Next

\* A pairing is only ever written by a tick, for a frame without one, and with the
\* nearest of its candidates.
PairsAnew(f) ==
    /\ Tick /\ f \in Unpaired /\ pairedAt'[f] = now
    /\ pair'[f] \in Reading /\ IsNearest(pair'[f], f)

\* Every step keeps a frame's pairing or pairs it anew.
LEMMA PairingStep ==
    IInv /\ [Next]_vars =>
        \A f \in Frame : \/ pair'[f] = pair[f] /\ pairedAt'[f] = pairedAt[f]
                         \/ PairsAnew(f)
<1> SUFFICES ASSUME IInv, [Next]_vars, NEW f \in Frame
             PROVE \/ pair'[f] = pair[f] /\ pairedAt'[f] = pairedAt[f]
                   \/ PairsAnew(f)
    OBVIOUS
<1>1. CASE Tick
  <2> DEFINE F == {g \in Unpaired : Candidates(g) # {}}
  <2>1. PICK p \in [F -> Reading] :
            /\ \A g \in F : IsNearest(p[g], g)
            /\ pair' = [g \in Frame |-> IF g \in F THEN p[g] ELSE pair[g]]
            /\ pairedAt' = [g \in Frame |-> IF g \in F THEN now ELSE pairedAt[g]]
        BY <1>1 DEF Tick
  <2>2. F \subseteq Unpaired
        OBVIOUS
  <2> HIDE DEF F
  <2>3. CASE f \in F
        BY <1>1, <2>1, <2>2, <2>3 DEF PairsAnew
  <2>4. CASE f \notin F
        BY <2>1, <2>4
  <2> QED BY <2>3, <2>4
<1>2. CASE ~ Tick
      BY <1>2 DEF Next, vars, ReceiveDust, StoreDust, DustFails, CaptureFrame,
                  StoreFrame, FrameFails, TickFails, Advance, Crash, Restart
<1> QED BY <1>1, <1>2

\* A pair, and its distance to a stored reading, look the same after the step.
LEMMA SameView ==
    ASSUME IInv, [Next]_vars, NEW f \in Frame, fstep[f] = "stored",
           NEW d \in Reading, Stored(d)
    PROVE  /\ fstep'[f] = "stored" /\ Stored(d)'
           /\ dustAt'[d] = dustAt[d] /\ rowAt'[f] = rowAt[f] /\ frameAt'[f] = frameAt[f]
           /\ InWindow(f, d)' <=> InWindow(f, d)
           /\ Distance(f, d)' = Distance(f, d)
<1>1. KeepsReading(d) /\ KeepsFrame(f)
      BY ReadingStep, FrameStep
<1> QED BY <1>1 DEF KeepsReading, KeepsFrame, InWindow, Distance

\* Every step keeps pairs within their window.
LEMMA PairStep == IInv /\ [Next]_vars => PairOK'
<1> SUFFICES ASSUME IInv, [Next]_vars, NEW f \in Frame, pair'[f] # NoReading
             PROVE (fstep[f] = "stored" /\ Stored(pair[f]) /\ InWindow(f, pair[f]))'
    BY DEF PairOK
<1>1. /\ fstep[f] = "stored" /\ pair'[f] \in Reading
      /\ Stored(pair'[f]) /\ InWindow(f, pair'[f])
  <2>1. CASE pair'[f] = pair[f]
        BY <2>1 DEF IInv, TypeOK, PairOK
  <2>2. CASE PairsAnew(f)
        BY <2>2 DEF PairsAnew, IsNearest, Candidates, Unpaired
  <2> QED BY <2>1, <2>2, PairingStep
<1>2. PICK d \in Reading : d = pair'[f]
      BY <1>1
<1>3. fstep'[f] = "stored" /\ Stored(d)' /\ InWindow(f, d)'
      BY <1>1, <1>2, SameView
<1> QED BY <1>2, <1>3 DEF InWindow, Stored

\* Every step keeps the choice of the nearest reading stored before.
LEMMA NearestStep == IInv /\ [Next]_vars => NearestSoFar'
<1> SUFFICES ASSUME IInv, [Next]_vars, NEW f \in Frame, NEW e \in Reading,
                    pair'[f] # NoReading, Stored(e)', dustAt'[e] < pairedAt'[f],
                    InWindow(f, e)'
             PROVE (InWindow(f, pair[f]) /\ Distance(f, pair[f]) <= Distance(f, e))'
    BY DEF NearestSoFar
<1>1. /\ fstep[f] = "stored" /\ pair'[f] \in Reading
      /\ Stored(pair'[f]) /\ InWindow(f, pair'[f])
  <2>1. CASE pair'[f] = pair[f]
        BY <2>1 DEF IInv, TypeOK, PairOK
  <2>2. CASE PairsAnew(f)
        BY <2>2 DEF PairsAnew, IsNearest, Candidates, Unpaired
  <2> QED BY <2>1, <2>2, PairingStep
<1>2. pairedAt'[f] <= now /\ now \in Nat
      BY PairingStep DEF PairsAnew, IInv, TypeOK, ClockOK
<1>3. Stored(e)
  <2>1. KeepsReading(e)
        BY ReadingStep
  <2>2. SUFFICES ASSUME ~ Stored(e) PROVE FALSE
        OBVIOUS
  <2>3. dustAt'[e] = now
        BY <2>1, <2>2 DEF KeepsReading
  <2>4. pairedAt'[f] \in Nat
        BY TypeStep DEF TypeOK
  <2> QED BY <2>3, <2>4, <1>2
<1>4. /\ InWindow(f, e) /\ dustAt[e] < pairedAt'[f]
      /\ Distance(f, e)' = Distance(f, e)
      BY <1>1, <1>3, SameView
<1>5. Distance(f, pair'[f]) <= Distance(f, e)
  <2>1. CASE pair'[f] = pair[f] /\ pairedAt'[f] = pairedAt[f]
        BY <2>1, <1>3, <1>4 DEF IInv, NearestSoFar
  <2>2. CASE PairsAnew(f)
        BY <2>2, <1>3, <1>4 DEF PairsAnew, IsNearest, Candidates
  <2> QED BY <2>1, <2>2, PairingStep
<1>6. PICK d \in Reading : d = pair'[f]
      BY <1>1
<1>7. InWindow(f, d)' /\ Distance(f, d)' = Distance(f, d)
      BY <1>1, <1>6, SameView
<1>8. (InWindow(f, d) /\ Distance(f, d) <= Distance(f, e))'
      BY <1>4, <1>5, <1>6, <1>7
<1> QED BY <1>6, <1>8 DEF InWindow, Distance

\* The next tick is put off only by a failure, by one interval, or by time that
\* passes without a process.
LEMMA DelayStep ==
    IInv /\ [Next]_vars =>
        \/ Tick /\ UNCHANGED <<down, faults>>
        \/ NextTick' <= NextTick /\ faults' \in {faults, faults + 1} /\ down' = down
        \/ NextTick' = NextTick + Interval /\ faults' = faults + 1 /\ down' = down
        \/ NextTick' = NextTick + 1 /\ faults' = faults /\ down' = down + 1
<1> SUFFICES ASSUME IInv, [Next]_vars, ~ Tick
             PROVE  \/ NextTick' <= NextTick /\ faults' \in {faults, faults + 1} /\ down' = down
                    \/ NextTick' = NextTick + Interval /\ faults' = faults + 1 /\ down' = down
                    \/ NextTick' = NextTick + 1 /\ faults' = faults /\ down' = down + 1
    BY DEF Tick
<1> USE IngestAssumption DEF IInv, TypeOK, ClockOK, NextTick
<1>1. CASE UNCHANGED <<now, up, due, down>> /\ faults' \in {faults, faults + 1}
      BY <1>1
<1>2. CASE TickFails BY <1>2 DEF TickFails
<1>3. CASE Advance BY <1>3 DEF Advance
<1>4. CASE Crash BY <1>4 DEF Crash
<1>5. CASE Restart BY <1>5 DEF Restart
<1>6. CASE \/ \E d \in Reading : ReceiveDust(d) \/ StoreDust(d) \/ DustFails(d)
           \/ \E f \in Frame : CaptureFrame(f) \/ StoreFrame(f) \/ FrameFails(f)
           \/ UNCHANGED vars
      BY <1>1, <1>6 DEF ReceiveDust, StoreDust, DustFails, CaptureFrame, StoreFrame,
                        FrameFails, vars
<1> QED BY <1>2, <1>3, <1>4, <1>5, <1>6 DEF Next

\* The grace of a failure is one interval.
LEMMA Grace ==
    ASSUME NEW a \in Nat
    PROVE  /\ Interval * (1 + a) \in Nat
           /\ Interval * (1 + a) >= Interval
           /\ Interval * (1 + (a + 1)) = Interval * (1 + a) + Interval
BY IngestAssumption

\* A tick pairs every frame with a candidate that is within the lookback.
LEMMA TickPairs ==
    ASSUME IInv, Tick, NEW f \in Unpaired, Candidates(f) # {}
    PROVE  pair'[f] # NoReading
<1> DEFINE F == {g \in Unpaired : Candidates(g) # {}}
<1>1. PICK p \in [F -> Reading] :
          pair' = [g \in Frame |-> IF g \in F THEN p[g] ELSE pair[g]]
      BY DEF Tick
<1>2. f \in F /\ f \in Frame
      BY DEF Unpaired
<1> HIDE DEF F
<1> QED BY <1>1, <1>2, IngestAssumption

\* Every step keeps the next tick before the deadline.
LEMMA TickStep == IInv /\ [Next]_vars => TickOK'
<1> SUFFICES ASSUME IInv, [Next]_vars, NEW f \in Frame, NEW d \in Reading,
                    Unmatched(f, d)'
             PROVE (\/ NextTick <= Deadline(f, d)
                    \/ Deadline(f, d) >= frameAt[f] + Lookback)'
    BY DEF TickOK
<1> USE IngestAssumption
<1>1. /\ now \in Nat /\ due \in Nat /\ down \in Nat /\ faults \in Nat
      /\ NextTick \in Nat /\ rowAt[f] \in Nat /\ dustAt[d] \in Nat /\ frameAt[f] \in Nat
      BY DEF IInv, TypeOK, NextTick
<1>2. /\ down' \in Nat /\ faults' \in Nat /\ NextTick' \in Nat
      /\ rowAt'[f] \in Nat /\ dustAt'[d] \in Nat /\ frameAt'[f] \in Nat
      BY TypeStep DEF TypeOK, NextTick
<1>3. CASE fstep[f] = "stored" /\ Stored(d)
  <2>1. /\ InWindow(f, d) /\ rowAt'[f] = rowAt[f] /\ dustAt'[d] = dustAt[d]
        /\ frameAt'[f] = frameAt[f]
        BY <1>3, SameView DEF Unmatched
  <2>2. pair[f] = NoReading
        BY PairingStep DEF Unmatched, PairsAnew
  <2>3. \/ NextTick <= Deadline(f, d)
        \/ Deadline(f, d) >= frameAt[f] + Lookback
        BY <1>3, <2>1, <2>2 DEF IInv, TickOK, Unmatched
  <2>4. PICK s \in Nat : s = Later(rowAt[f], dustAt[d]) /\ s = Later(rowAt[f], dustAt[d])'
        BY <1>1, <2>1 DEF Later
  <2>5. /\ Deadline(f, d) = s + Interval * (1 + faults) + down
        /\ Deadline(f, d)' = s + Interval * (1 + faults') + down'
        BY <2>4 DEF Deadline
  <2>6. CASE Tick /\ UNCHANGED <<down, faults>>
    <3>1. f \notin Unpaired
          BY <1>3, <2>1, <2>6, TickPairs DEF Candidates, Unmatched
    <3>2. frameAt[f] <= now - Lookback
          BY <1>1, <1>3, <2>2, <3>1 DEF Unpaired
    <3>3. NextTick = now
          BY <2>6 DEF Tick, NextTick
    <3>4. Deadline(f, d)' = Deadline(f, d) /\ Deadline(f, d) \in Nat
          BY <1>1, <2>5, <2>6, Grace
    <3> QED BY <1>1, <2>1, <2>3, <3>2, <3>3, <3>4
  <2>7. CASE NextTick' <= NextTick /\ faults' \in {faults, faults + 1} /\ down' = down
    <3>1. Deadline(f, d) \in Nat /\ Deadline(f, d)' \in Nat /\ Deadline(f, d)' >= Deadline(f, d)
      <4>1. CASE faults' = faults BY <1>1, <2>5, <2>7, <4>1, Grace
      <4>2. CASE faults' = faults + 1 BY <1>1, <2>5, <2>7, <4>2, Grace
      <4> QED BY <2>7, <4>1, <4>2
    <3> QED BY <1>1, <1>2, <2>1, <2>3, <2>7, <3>1
  <2>8. CASE NextTick' = NextTick + Interval /\ faults' = faults + 1 /\ down' = down
    <3>1. Deadline(f, d) \in Nat /\ Deadline(f, d)' = Deadline(f, d) + Interval
          BY <1>1, <2>5, <2>8, Grace
    <3> QED BY <1>1, <1>2, <2>1, <2>3, <2>8, <3>1
  <2>9. CASE NextTick' = NextTick + 1 /\ faults' = faults /\ down' = down + 1
    <3>1. Deadline(f, d) \in Nat /\ Deadline(f, d)' = Deadline(f, d) + 1
          BY <1>1, <2>5, <2>9, Grace
    <3> QED BY <1>1, <1>2, <2>1, <2>3, <2>9, <3>1
  <2> QED BY <2>6, <2>7, <2>8, <2>9, DelayStep
<1>4. CASE ~ (fstep[f] = "stored" /\ Stored(d))
  <2>1. /\ up' /\ due' = due /\ due <= now + Interval
        /\ rowAt'[f] = now \/ dustAt'[d] = now
        BY <1>4, ReadingStep, FrameStep
        DEF KeepsReading, KeepsFrame, Unmatched, IInv, ClockOK
  <2>2. Later(rowAt[f], dustAt[d])' >= now /\ Later(rowAt[f], dustAt[d])' \in Nat
        BY <1>1, <1>2, <2>1 DEF Later
  <2>3. NextTick' = due
        BY <2>1 DEF NextTick
  <2> QED BY <1>1, <1>2, <2>1, <2>2, <2>3, Grace DEF Deadline
<1> QED BY <1>3, <1>4

\* IInv is an invariant.
THEOREM Inductive == Spec => []IInv
<1>1. IInv /\ [Next]_vars => IInv'
      BY TypeStep, ClockStep, GateStep, PairStep, TickStep, NearestStep DEF IInv
<1> QED BY InitIInv, <1>1, PTL DEF Spec

\* Every reachable state is well typed.
THEOREM TypeCorrect == Spec => []TypeOK
<1>1. IInv => TypeOK
      BY DEF IInv
<1> QED BY Inductive, <1>1, PTL

\* A frame and a reading of its window are paired by their deadline, or the frame
\* is older than the lookback by then (_PAIR_SQL, FrameCorrelator.run).
THEOREM DeadlineKept == Spec => []PairedInTime
<1>1. IInv => PairedInTime
  <2> SUFFICES ASSUME IInv, NEW f \in Frame, NEW d \in Reading, Unmatched(f, d)
               PROVE now <= Deadline(f, d) \/ Deadline(f, d) >= frameAt[f] + Lookback
      BY DEF PairedInTime
  <2> USE IngestAssumption
  <2>1. now <= NextTick /\ now \in Nat /\ NextTick \in Nat
        BY DEF IInv, TypeOK, ClockOK, NextTick
  <2>2. Deadline(f, d) \in Nat
        BY Grace DEF IInv, TypeOK, Deadline, Later
  <2> QED BY <2>1, <2>2 DEF IInv, TickOK
<1> QED BY Inductive, <1>1, PTL

\* No reading stored before the pairing was nearer (_PAIR_SQL).
THEOREM NearestChosen == Spec => []NearestSoFar
<1>1. IInv => NearestSoFar
      BY DEF IInv
<1> QED BY Inductive, <1>1, PTL

\* No frame is paired with the reading of a driving robot (should_collect).
THEOREM OnlyObservations == Spec => []PairsAreObservations
<1>1. IInv => PairsAreObservations
      BY DEF IInv, TypeOK, PairOK, GateOK, Stored, PairsAreObservations
<1> QED BY Inductive, <1>1, PTL
=============================================================================
