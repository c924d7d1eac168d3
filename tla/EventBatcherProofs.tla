------------------------- MODULE EventBatcherProofs -------------------------
(* Theorems about EventBatcher for every number of producers, capacity,    *)
(* batch size, delay and bound.                                            *)
EXTENDS EventBatcherOutbox, FiniteSets, SequenceTheorems, FiniteSetTheorems, FunctionTheorems,
        WellFoundedInduction, TLAPS

(* First, what the methods of the ring do to its sequence of events, for   *)
(* every capacity, and how many events each can make disappear.            *)

RingOf(S) == [events : Seq(S), dropped : Nat]

(* The events at the positions a to b of a sequence. *)
Positions(s, a, b) == {s[i] : i \in a .. b}

(* Push on a ring with room appends; on a full ring it shifts by one and   *)
(* counts one (ring.go Push).                                              *)
LEMMA PushFacts ==
  ASSUME NEW S, NEW r \in RingOf(S), NEW cap \in Nat \ {0}, NEW e \in S
  PROVE  /\ Push(r, cap, e) \in RingOf(S)
         /\ Len(r.events) < cap =>
              /\ Push(r, cap, e).dropped = r.dropped
              /\ Len(Push(r, cap, e).events) = Len(r.events) + 1
              /\ \A i \in 1 .. Len(r.events) : Push(r, cap, e).events[i] = r.events[i]
              /\ Push(r, cap, e).events[Len(r.events) + 1] = e
         /\ Len(r.events) >= cap =>
              /\ Push(r, cap, e).dropped = r.dropped + 1
              /\ Len(Push(r, cap, e).events) = Len(r.events)
              /\ \A i \in 1 .. Len(r.events) - 1 :
                   Push(r, cap, e).events[i] = r.events[i + 1]
              /\ Push(r, cap, e).events[Len(r.events)] = e
<1>0. r.events \in Seq(S) /\ r.dropped \in Nat /\ Len(r.events) \in Nat
  BY LenProperties DEF RingOf
<1>1. CASE Len(r.events) < cap
  BY <1>0, <1>1 DEF Push, RingOf
<1>2. CASE Len(r.events) >= cap
  <2>1. r.events # << >>
    BY <1>0, <1>2
  <2>2. /\ Tail(r.events) \in Seq(S) /\ Len(Tail(r.events)) = Len(r.events) - 1
        /\ \A i \in 1 .. Len(Tail(r.events)) : Tail(r.events)[i] = r.events[i + 1]
    BY <1>0, <2>1, HeadTailProperties
  <2>3. QED
    BY <1>0, <1>2, <2>2 DEF Push, RingOf
<1>3. QED
  BY <1>0, <1>1, <1>2

(* Peek copies the front and Ack removes it (ring.go Peek, Ack). *)
LEMMA PeekFacts ==
  ASSUME NEW S, NEW r \in RingOf(S), NEW n \in Nat
  PROVE  /\ Peek(r, n) \in Seq(S)
         /\ Len(Peek(r, n)) = Least(n, Len(r.events))
         /\ \A i \in 1 .. Len(Peek(r, n)) : Peek(r, n)[i] = r.events[i]
<1>0. r.events \in Seq(S) /\ Len(r.events) \in Nat
  BY LenProperties DEF RingOf
<1>1. \A i \in 1 .. Least(n, Len(r.events)) : r.events[i] \in S
  BY <1>0, ElementOfSeq DEF Least
<1>2. QED
  BY <1>0, <1>1, SubSeqProperties DEF Peek, Least

(* Ack removes from the front, no more than there is (ring.go Ack).        *)
LEMMA AckFacts ==
  ASSUME NEW S, NEW r \in RingOf(S), NEW n \in Nat
  PROVE  LET k == Least(n, Len(r.events)) IN
         /\ Ack(r, n) \in RingOf(S) /\ Ack(r, n).dropped = r.dropped
         /\ Len(Ack(r, n).events) = Len(r.events) - k
         /\ \A i \in 1 .. Len(r.events) - k : Ack(r, n).events[i] = r.events[k + i]
<1> DEFINE k == Least(n, Len(r.events))
<1>0. /\ r.events \in Seq(S) /\ Len(r.events) \in Nat /\ r.dropped \in Nat
      /\ k \in 0 .. Len(r.events)
  BY LenProperties DEF RingOf, Least
<1>1. \A i \in k + 1 .. Len(r.events) : r.events[i] \in S
  BY <1>0, ElementOfSeq
<1>2. /\ SubSeq(r.events, k + 1, Len(r.events)) \in Seq(S)
      /\ Len(SubSeq(r.events, k + 1, Len(r.events))) = Len(r.events) - k
      /\ \A i \in 1 .. Len(r.events) - k :
           SubSeq(r.events, k + 1, Len(r.events))[i] = r.events[k + i]
  BY <1>0, <1>1, SubSeqProperties
<1>3. QED
  BY <1>0, <1>2 DEF Ack, RingOf

(* Load keeps the newest events of the file and counts the rest. *)
LEMMA LoadFacts ==
  ASSUME NEW S, NEW f \in RingOf(S), NEW cap \in Nat
  PROVE  LET k == IF Len(f.events) > cap THEN Len(f.events) - cap ELSE 0 IN
         /\ Load(f, cap) \in RingOf(S)
         /\ Load(f, cap).dropped = f.dropped + k
         /\ Len(Load(f, cap).events) = Len(f.events) - k
         /\ \A i \in 1 .. Len(f.events) - k : Load(f, cap).events[i] = f.events[k + i]
<1> DEFINE k == IF Len(f.events) > cap THEN Len(f.events) - cap ELSE 0
<1>0. /\ f.events \in Seq(S) /\ Len(f.events) \in Nat /\ f.dropped \in Nat
      /\ k \in 0 .. Len(f.events)
  BY LenProperties DEF RingOf
<1>1. CASE Len(f.events) > cap
  <2>1. \A i \in k + 1 .. Len(f.events) : f.events[i] \in S
    BY <1>0, ElementOfSeq
  <2>2. /\ SubSeq(f.events, k + 1, Len(f.events)) \in Seq(S)
        /\ Len(SubSeq(f.events, k + 1, Len(f.events))) = Len(f.events) - k
        /\ \A i \in 1 .. Len(f.events) - k :
             SubSeq(f.events, k + 1, Len(f.events))[i] = f.events[k + i]
    <3> HIDE DEF k
    <3>1. QED
      BY <1>0, <2>1, SubSeqProperties
  <2>3. QED
    BY <1>0, <1>1, <2>2 DEF Load, RingOf
<1>2. CASE ~(Len(f.events) > cap)
  BY <1>0, <1>2 DEF Load, RingOf
<1>3. QED
  BY <1>1, <1>2

(* A range of positions holds no more events than it has positions. *)
LEMMA PositionsBound ==
  ASSUME NEW S, NEW s \in Seq(S), NEW a \in Nat \ {0}, NEW b \in Nat, b <= Len(s)
  PROVE  /\ IsFiniteSet(Positions(s, a, b))
         /\ Cardinality(Positions(s, a, b)) <= IF a > b THEN 0 ELSE b - a + 1
<1> DEFINE T == Positions(s, a, b)
           f == [i \in a .. b |-> s[i]]
<1>1. f \in Surjection(a .. b, T)
  BY DEF Surjection, Positions
<1>2. IsFiniteSet(a .. b) /\ Cardinality(a .. b) = IF a > b THEN 0 ELSE b - a + 1
  BY FS_Interval
<1>3. IsFiniteSet(T) /\ Cardinality(T) <= Cardinality(a .. b)
  BY <1>1, <1>2, FS_Surjection
<1>4. QED
  BY <1>2, <1>3

(* A set within the union of a set and of n positions of a sequence. *)
LEMMA AtMostPositionsMore ==
  ASSUME NEW S, NEW s \in Seq(S), NEW a \in Nat \ {0}, NEW b \in Nat, b <= Len(s),
         NEW A, IsFiniteSet(A), NEW B, B \subseteq A \cup Positions(s, a, b)
  PROVE  /\ IsFiniteSet(B)
         /\ Cardinality(B) <= Cardinality(A) + (IF a > b THEN 0 ELSE b - a + 1)
<1> DEFINE T == Positions(s, a, b)
<1>1. IsFiniteSet(T) /\ Cardinality(T) <= IF a > b THEN 0 ELSE b - a + 1
  BY PositionsBound
<1>2. /\ IsFiniteSet(A \cup T)
      /\ Cardinality(A \cup T) = Cardinality(A) + Cardinality(T) - Cardinality(A \cap T)
  BY <1>1, FS_Union
<1>3. IsFiniteSet(A \cap T)
  BY <1>1, FS_Intersection
<1>4. Cardinality(A \cap T) \in Nat /\ Cardinality(A) \in Nat /\ Cardinality(T) \in Nat
  BY <1>1, <1>3, FS_CardinalityType
<1>5. IsFiniteSet(B) /\ Cardinality(B) <= Cardinality(A \cup T)
  BY <1>2, FS_Subset
<1>6. Cardinality(B) \in Nat
  BY <1>5, FS_CardinalityType
<1>7. QED
  BY <1>1, <1>2, <1>4, <1>5, <1>6

(* The events held are the ones at the positions of the sequence. *)
LEMMA HeldPositions ==
  ASSUME NEW S, NEW r \in RingOf(S)
  PROVE  /\ Held(r) = {r.events[i] : i \in 1 .. Len(r.events)}
         /\ Held(r) \subseteq S
<1>1. r.events \in Seq(S)
  BY DEF RingOf
<1>2. DOMAIN r.events = 1 .. Len(r.events)
  BY <1>1, LenProperties
<1>3. \A i \in 1 .. Len(r.events) : r.events[i] \in S
  BY <1>1, ElementOfSeq
<1>4. QED
  BY <1>2, <1>3 DEF Held, Range

(* All that Push can make disappear is the front, and then it counts one. *)
LEMMA PushKeeps ==
  ASSUME NEW S, NEW r \in RingOf(S), NEW cap \in Nat \ {0}, NEW e \in S,
         NEW k, k = Push(r, cap, e).dropped - r.dropped
  PROVE  /\ k \in {0, 1} /\ k <= Len(r.events)
         /\ e \in Held(Push(r, cap, e))
         /\ Held(Push(r, cap, e)) \subseteq Held(r) \cup {e}
         /\ Held(r) \subseteq Held(Push(r, cap, e)) \cup Positions(r.events, 1, k)
<1> DEFINE q == Push(r, cap, e)
<1>1. q \in RingOf(S)
  BY PushFacts
<1>2. /\ Held(r) = {r.events[i] : i \in 1 .. Len(r.events)}
      /\ Held(q) = {q.events[i] : i \in 1 .. Len(q.events)}
      /\ Len(r.events) \in Nat /\ Len(q.events) \in Nat /\ r.dropped \in Nat
  BY <1>1, HeldPositions, LenProperties DEF RingOf
<1>3. CASE Len(r.events) < cap
  <2>1. /\ q.dropped = r.dropped
        /\ Len(q.events) = Len(r.events) + 1
        /\ \A i \in 1 .. Len(r.events) : q.events[i] = r.events[i]
        /\ q.events[Len(r.events) + 1] = e
    BY <1>3, PushFacts
  <2> HIDE DEF q
  <2>2. k = 0
    BY <1>2, <2>1 DEF q
  <2>3. e \in Held(q)
    <3>1. Len(r.events) + 1 \in 1 .. Len(q.events)
      BY <1>2, <2>1
    <3>2. QED
      BY <1>2, <2>1, <3>1
  <2>4. Held(r) \subseteq Held(q)
    <3>1. \A i \in 1 .. Len(r.events) : i \in 1 .. Len(q.events) /\ r.events[i] = q.events[i]
      BY <1>2, <2>1
    <3>2. QED
      BY <1>2, <3>1
  <2>5. Held(q) \subseteq Held(r) \cup {e}
    <3>1. \A i \in 1 .. Len(q.events) : i \in 1 .. Len(r.events) \/ i = Len(r.events) + 1
      BY <1>2, <2>1
    <3>2. QED
      BY <1>2, <2>1, <3>1
  <2>6. k \in {0, 1} /\ k <= Len(r.events)
    BY <1>2, <2>2
  <2>7. Held(r) \subseteq Held(q) \cup Positions(r.events, 1, k)
    BY <2>4
  <2>8. QED
    BY <2>3, <2>5, <2>6, <2>7 DEF q
<1>4. CASE Len(r.events) >= cap
  <2>1. /\ q.dropped = r.dropped + 1
        /\ Len(q.events) = Len(r.events)
        /\ \A i \in 1 .. Len(r.events) - 1 : q.events[i] = r.events[i + 1]
        /\ q.events[Len(r.events)] = e
        /\ Len(r.events) >= 1
    BY <1>2, <1>4, PushFacts
  <2>2. e \in Held(q) /\ Held(q) \subseteq Held(r) \cup {e}
    <3> HIDE DEF q
    <3>1. QED
      BY <1>2, <2>1
  <2>3. \A i \in 1 .. Len(r.events) : i = 1 \/ r.events[i] \in Held(q)
    <3> HIDE DEF q
    <3> TAKE i \in 1 .. Len(r.events)
    <3>1. CASE i # 1
      <4>1. i - 1 \in 1 .. Len(r.events) - 1 /\ (i - 1) + 1 = i
        BY <1>2, <3>1
      <4>2. q.events[i - 1] = r.events[i]
        BY <2>1, <4>1
      <4>3. QED
        BY <1>2, <2>1, <4>1, <4>2
    <3>2. QED
      BY <3>1
  <2>4. Held(r) \subseteq Held(q) \cup {r.events[1]}
    BY <1>2, <2>3
  <2>5. k = 1 /\ r.events[1] \in Positions(r.events, 1, k)
    BY <1>2, <2>1 DEF Positions
  <2>6. QED
    BY <2>1, <2>2, <2>4, <2>5
<1>5. QED
  BY <1>2, <1>3, <1>4, Len(r.events) < cap \/ Len(r.events) >= cap

(* What cutting the first k events off a ring leaves, for Ack and Load. *)
LEMMA CutKeeps ==
  ASSUME NEW S, NEW r \in RingOf(S), NEW q \in RingOf(S), NEW k \in 0 .. Len(r.events),
         Len(q.events) = Len(r.events) - k,
         \A i \in 1 .. Len(r.events) - k : q.events[i] = r.events[k + i]
  PROVE  /\ Held(q) \subseteq Held(r)
         /\ Held(r) \subseteq Held(q) \cup Positions(r.events, 1, k)
<1>1. /\ Held(r) = {r.events[i] : i \in 1 .. Len(r.events)}
      /\ Held(q) = {q.events[i] : i \in 1 .. Len(q.events)}
      /\ Len(r.events) \in Nat
  BY HeldPositions, LenProperties DEF RingOf
<1>2. \A i \in 1 .. Len(r.events) : i \in 1 .. k \/ r.events[i] \in Held(q)
  <2> TAKE i \in 1 .. Len(r.events)
  <2>1. CASE i > k
    <3>1. i - k \in 1 .. Len(r.events) - k /\ k + (i - k) = i
      BY <1>1, <2>1
    <3>2. q.events[i - k] = r.events[i]
      BY <3>1
    <3>3. QED
      BY <1>1, <3>1, <3>2
  <2>2. QED
    BY <1>1, <2>1
<1>3. Held(q) \subseteq Held(r)
  <2> SUFFICES ASSUME NEW i \in 1 .. Len(q.events) PROVE q.events[i] \in Held(r)
    BY <1>1
  <2>1. k + i \in 1 .. Len(r.events) /\ q.events[i] = r.events[k + i]
    BY <1>1
  <2>2. QED
    BY <1>1, <2>1
<1>4. Held(r) \subseteq Held(q) \cup Positions(r.events, 1, k)
  BY <1>1, <1>2 DEF Positions
<1>5. QED
  BY <1>3, <1>4

-----------------------------------------------------------------------------

(* The type of the ring is that of the lemmas above.                       *)
LEMMA RingTypeIs == RingType = RingOf(1 .. MaxEvents)
BY DEF RingType, RingOf

(* Writing the ring file keeps the types of the file and of its counter. *)
LEMMA PersistType ==
  ASSUME TypeOK, ring' \in RingType, NEW ok \in BOOLEAN, PersistLocked(ok)
  PROVE  disk' \in RingType /\ persistFails' \in 0 .. MaxPersistFails
BY BatcherAssumption DEF TypeOK, PersistLocked

(* Every step of the batcher, of a producer and of the process keeps the   *)
(* types of the state.                                                     *)
LEMMA TypeStep == TypeOK /\ [Next]_vars => TypeOK'
<1> SUFFICES ASSUME TypeOK, [Next]_vars PROVE TypeOK'
  OBVIOUS
<1> USE BatcherAssumption
<1>1. CASE Start
  <2>1. PICK c \in Capacities : capacity' = c /\ ring' = Load(disk, c)
    BY <1>1 DEF Start
  <2>2. c \in Nat
    BY <2>1
  <2>3. ring' \in RingType
    BY <2>1, <2>2, LoadFacts, RingTypeIs DEF TypeOK
  <2>4. Held(disk) \subseteq 1 .. MaxEvents
    BY HeldPositions, RingTypeIs DEF TypeOK
  <2>5. cutOff' \subseteq 1 .. MaxEvents
    BY <1>1, <2>4 DEF TypeOK, Start
  <2>6. pushedAtStart' \in 0 .. pushed' /\ starts' \in 0 .. MaxStarts
    BY <1>1 DEF TypeOK, Start
  <2>7. QED
    BY <1>1, <2>1, <2>3, <2>5, <2>6 DEF TypeOK, Start, flushVars
<1>2. CASE Cancel
  BY <1>2 DEF TypeOK, Cancel, ringVars, flushVars, loopVars, history, bounds
<1>3. CASE ProcessEnds
  <2>1. ring' \in RingType /\ batch' \in Seq(1 .. MaxEvents) /\ sent' \in 0 .. Len(batch')
    BY <1>3 DEF ProcessEnds, RingType, EmptyRing
  <2>2. QED
    BY <1>3, <2>1 DEF TypeOK, ProcessEnds, history, bounds
<1>4. ASSUME NEW p \in Producers, EnqueuePush(p) PROVE TypeOK'
  <2>1. pushed + 1 \in 1 .. MaxEvents /\ capacity \in Nat \ {0}
    BY <1>4 DEF TypeOK, EnqueuePush
  <2>2. ring' \in RingType
    BY <1>4, <2>1, PushFacts, RingTypeIs DEF TypeOK, EnqueuePush
  <2>3. disk' \in RingType /\ persistFails' \in 0 .. MaxPersistFails
    BY <1>4, <2>2, PersistType DEF EnqueuePush
  <2>4. QED
    BY <1>4, <2>1, <2>2, <2>3 DEF TypeOK, EnqueuePush, flushVars, loopVars
<1>5. ASSUME NEW p \in Producers, EnqueueSignal(p) PROVE TypeOK'
  BY <1>5 DEF TypeOK, EnqueueSignal, ringVars, flushVars, loopVars, history, bounds
<1>18. ASSUME NEW p \in Producers, EnqueueTest(p) PROVE TypeOK'
  BY <1>18 DEF TypeOK, EnqueueTest, ringVars, flushVars, loopVars, history, bounds
<1>6. CASE TimerFires
  BY <1>6 DEF TypeOK, TimerFires, ringVars, flushVars, history, bounds
<1>7. CASE SelectDone
  BY <1>7 DEF TypeOK, SelectDone, ringVars, loopVars, history, bounds
<1>8. CASE SelectTimer
  BY <1>8 DEF TypeOK, SelectTimer, ringVars, flushVars, history, bounds
<1>9. CASE SelectWake
  BY <1>9 DEF TypeOK, SelectWake, ringVars, flushVars, history, bounds
<1>10. CASE FlushPeek
  <2>1. batch' \in Seq(1 .. MaxEvents) /\ Len(batch') \in Nat
    BY <1>10, PeekFacts, RingTypeIs, LenProperties DEF TypeOK, FlushPeek
  <2>2. ring.dropped \in Nat /\ sent' \in 0 .. Len(batch')
    BY <1>10, <2>1 DEF TypeOK, RingType, FlushPeek
  <2>3. QED
    BY <1>10, <2>1, <2>2 DEF TypeOK, FlushPeek, ringVars, loopVars, history, bounds
<1>11. CASE PostTaken
  <2>1. Len(batch) \in Nat
    BY LenProperties DEF TypeOK
  <2>2. sent' \in 0 .. Len(batch)
    BY <1>11, <2>1 DEF TypeOK, PostTaken
  <2>3. accepted' \subseteq 1 .. MaxEvents
    <3>1. \A i \in 1 .. sent' : batch[i] \in 1 .. MaxEvents
      BY <2>1, <2>2, ElementOfSeq DEF TypeOK
    <3>2. QED
      BY <1>11, <3>1 DEF TypeOK, PostTaken
  <2>4. QED
    BY <1>11, <2>2, <2>3 DEF TypeOK, PostTaken, ringVars, loopVars, bounds
<1>12. CASE PostSucceeds
  BY <1>12 DEF TypeOK, PostSucceeds, ringVars, flushVars, loopVars, history, bounds
<1>13. CASE PostFails
  BY <1>13 DEF TypeOK, PostFails, UploadFailure, ringVars, loopVars, history
<1>19. CASE PostUnauthorized
  <2>1. sent' \in 0 .. Len(batch')
    BY <1>19, LenProperties DEF TypeOK, PostUnauthorized
  <2>2. QED
    BY <1>19, <2>1 DEF TypeOK, PostUnauthorized, UploadFailure, ringVars, loopVars, history
<1>14. CASE FlushAck
  <2>1. Len(batch) \in Nat
    BY LenProperties DEF TypeOK
  <2>2. ring' \in RingType
    BY <1>14, <2>1, AckFacts, RingTypeIs DEF TypeOK, FlushAck
  <2>3. /\ disk' \in RingType /\ persistFails' \in 0 .. MaxPersistFails
        /\ flushErr' \in BOOLEAN
    BY <1>14, <2>2, PersistType DEF FlushAck
  <2>4. QED
    BY <1>14, <2>2, <2>3 DEF TypeOK, FlushAck, loopVars, history
<1>15. CASE FlushReturns
  <2>1. NextBackoff(backoff) \in Nat \ {0}
    BY DEF TypeOK, NextBackoff
  <2>2. batch' \in Seq(1 .. MaxEvents) /\ sent' \in 0 .. Len(batch')
    BY <1>15 DEF FlushReturns
  <2>3. timer' \in {"stopped", "running", "fired"} /\ pc' \in {"select", "exited"}
    BY <1>15 DEF FlushReturns
  <2>4. wake' \in BOOLEAN
    BY <1>15, Zenon DEF TypeOK, FlushReturns
  <2>5. backoff' \in Nat \ {0} /\ streak' \in Nat
    BY <1>15, <2>1 DEF TypeOK, FlushReturns
  <2>6. QED
    BY <1>15, <2>2, <2>3, <2>4, <2>5 DEF TypeOK, FlushReturns, ringVars, history, bounds
<1>16. CASE UNCHANGED vars
  BY <1>16 DEF TypeOK, vars, ringVars, flushVars, loopVars, history, bounds
<1>17. QED
  BY <1>1, <1>2, <1>3, <1>4, <1>5, <1>6, <1>7, <1>8, <1>9, <1>10, <1>11, <1>12,
     <1>13, <1>14, <1>15, <1>16, <1>18, <1>19 DEF Next, Run, Flush, Enqueue

(* The state of a first process, before it starts, has the types.          *)
LEMMA InitType == Init => TypeOK
<1> SUFFICES ASSUME Init PROVE TypeOK
  OBVIOUS
<1>1. EmptyRing \in RingType
  BY DEF EmptyRing, RingType
<1>2. batch \in Seq(1 .. MaxEvents) /\ sent \in 0 .. Len(batch)
  BY DEF Init
<1>3. /\ pushed \in 0 .. MaxEvents /\ pushedAtStart \in 0 .. pushed
      /\ persistFails \in 0 .. MaxPersistFails
      /\ postFails \in 0 .. MaxPostFails /\ starts \in 0 .. MaxStarts
  BY BatcherAssumption DEF Init
<1>4. backoff \in Nat \ {0} /\ streak \in Nat
  BY BatcherAssumption DEF Init
<1>5. QED
  BY <1>1, <1>2, <1>3, <1>4 DEF Init, TypeOK

(* The ring, its file, the batch and the loop always have their types.     *)
THEOREM TypeCorrect == Spec => []TypeOK
BY InitType, TypeStep, PTL DEF Spec

-----------------------------------------------------------------------------
(* Every loss is counted.  The invariant that carries it says what a batch *)
(* in flight still is in the ring: an Ack that removes events which were   *)
(* never posted removes as many as Enqueue overwrote of the posted ones.   *)
LossInv == TypeOK /\ EveryLossCounted /\ BatchInFlight

(* What is numbered up to n is finite, whatever is taken out of it.        *)
LEMMA FiniteUpTo ==
  ASSUME NEW n \in Nat, NEW X
  PROVE  IsFiniteSet((1 .. n) \ X) /\ Cardinality((1 .. n) \ X) \in Nat
<1>1. IsFiniteSet(1 .. n) /\ (1 .. n) \ X \in SUBSET (1 .. n)
  BY FS_Interval
<1>2. QED
  BY <1>1, FS_Subset, FS_CardinalityType

(* So is what is lost from a ring.                                         *)
LEMMA LostFinite ==
  ASSUME NEW r, NEW X, pushed \in Nat
  PROVE  /\ IsFiniteSet(LostFrom(r)) /\ Cardinality(LostFrom(r)) \in Nat
         /\ IsFiniteSet(LostFrom(r) \ X) /\ Cardinality(LostFrom(r) \ X) \in Nat
<1>1. LostFrom(r) \ X = (1 .. pushed) \ (accepted \cup Held(r) \cup X)
  BY DEF LostFrom
<1>2. QED
  BY <1>1, FiniteUpTo DEF LostFrom

(* The same of the next state.                                             *)
LEMMA LostFiniteNext ==
  ASSUME pushed' \in Nat
  PROVE  /\ IsFiniteSet(LostFrom(ring)') /\ Cardinality(LostFrom(ring)') \in Nat
         /\ IsFiniteSet(LostFrom(disk)') /\ Cardinality(LostFrom(disk)') \in Nat
         /\ IsFiniteSet(LostFrom(ring)' \ Range(batch'))
         /\ Cardinality(LostFrom(ring)' \ Range(batch')) \in Nat
<1>1. LostFrom(ring)' \ Range(batch') =
        (1 .. pushed') \ (accepted' \cup Held(ring') \cup Range(batch'))
  BY DEF LostFrom
<1>2. QED
  BY <1>1, FiniteUpTo DEF LostFrom

(* A part of a finite set is no larger.                                    *)
LEMMA SmallerSet ==
  ASSUME NEW A, NEW B, IsFiniteSet(A), B \subseteq A
  PROVE  Cardinality(B) <= Cardinality(A)
BY FS_Subset

(* Losing sight of one more event costs one. *)
LEMMA OneMore ==
  ASSUME NEW A, NEW B, NEW x, IsFiniteSet(A), B \subseteq A \cup {x}
  PROVE  Cardinality(B) <= Cardinality(A) + 1
<1>0. Cardinality(A) \in Nat
  BY FS_CardinalityType
<1>1. /\ IsFiniteSet(A \cup {x})
      /\ Cardinality(A \cup {x}) <= Cardinality(A) + 1
  <2>1. /\ IsFiniteSet(A \cup {x})
        /\ Cardinality(A \cup {x}) = IF x \in A THEN Cardinality(A) ELSE Cardinality(A) + 1
    BY FS_AddElement, Zenon
  <2>2. QED
    BY <1>0, <2>1
<1>2. IsFiniteSet(B) /\ Cardinality(B) <= Cardinality(A \cup {x})
  BY <1>1, FS_Subset
<1>3. Cardinality(B) \in Nat /\ Cardinality(A \cup {x}) \in Nat
  BY <1>1, <1>2, FS_CardinalityType
<1>4. QED
  BY <1>0, <1>1, <1>2, <1>3

(* A write of the file either makes it the ring, or leaves it behind by at *)
(* most the event being pushed, and then it is a counted failure.          *)
LEMMA PersistLoss ==
  ASSUME TypeOK, TypeOK', EveryLossCounted, NEW ok \in BOOLEAN, PersistLocked(ok),
         pushed' \in {pushed, pushed + 1}, accepted \subseteq accepted',
         Cardinality(LostFrom(ring)') <= ring'.dropped + persistFails
  PROVE  /\ Cardinality(LostFrom(disk)') <= disk'.dropped + persistFails'
         /\ Cardinality(LostFrom(ring)') <= ring'.dropped + persistFails'
<1>0. /\ persistFails \in Nat /\ persistFails' \in Nat /\ pushed \in Nat /\ pushed' \in Nat
      /\ ring'.dropped \in Nat /\ disk.dropped \in Nat
  BY BatcherAssumption DEF TypeOK, RingType
<1>1. CASE ok
  BY <1>1 DEF PersistLocked, LostFrom
<1>2. CASE ~ok
  <2>1. disk' = disk /\ persistFails' = persistFails + 1
    BY <1>2 DEF PersistLocked
  <2>2. LostFrom(disk)' \subseteq LostFrom(disk) \cup {pushed + 1}
    BY <1>0, <2>1 DEF LostFrom
  <2>3. Cardinality(LostFrom(disk)') <= Cardinality(LostFrom(disk)) + 1
    BY <1>0, <2>2, LostFinite, OneMore
  <2>4. Cardinality(LostFrom(disk)) \in Nat /\ Cardinality(LostFrom(disk)') \in Nat
    BY <1>0, LostFinite, LostFiniteNext
  <2>5. Cardinality(LostFrom(disk)) <= disk.dropped + persistFails
    BY DEF EveryLossCounted
  <2>6. Cardinality(LostFrom(ring)') \in Nat
    BY <1>0, LostFiniteNext
  <2>7. QED
    BY <1>0, <2>1, <2>3, <2>4, <2>5, <2>6
<1>3. QED
  BY <1>1, <1>2

(* EnqueuePush overwrites at most the front of the ring, which is the next *)
(* event of a batch in flight as long as the batch is not all overwritten. *)
LEMMA PushLoss ==
  ASSUME LossInv, TypeOK', NEW p \in Producers, EnqueuePush(p)
  PROVE  EveryLossCounted' /\ BatchInFlight'
<1>k. PICK k : k = ring'.dropped - ring.dropped
  OBVIOUS
<1>s. PICK S : S = 1 .. MaxEvents
  OBVIOUS
<1>t. /\ ring \in RingOf(S) /\ ring' \in RingOf(S) /\ batch \in Seq(S)
  BY <1>s, RingTypeIs DEF LossInv, TypeOK
<1>n. /\ pushed \in Nat /\ pushed' \in Nat /\ persistFails \in Nat /\ persistFails' \in Nat
      /\ capacity \in Nat \ {0} /\ pushed + 1 \in S /\ droppedAtPeek \in Nat
  BY <1>s, BatcherAssumption DEF LossInv, TypeOK, EnqueuePush
<1>0. /\ ring.dropped \in Nat /\ ring'.dropped \in Nat
      /\ ring.events \in Seq(S) /\ Len(ring.events) \in Nat
      /\ Len(ring'.events) \in Nat /\ Len(batch) \in Nat
  BY <1>t, LenProperties DEF RingOf
<1>1. /\ ring' = Push(ring, capacity, pushed + 1) /\ pushed' = pushed + 1
      /\ accepted' = accepted /\ batch' = batch /\ pc' = pc /\ sent' = sent
      /\ droppedAtPeek' = droppedAtPeek
  BY DEF EnqueuePush, flushVars
<1>2. /\ k \in {0, 1} /\ k <= Len(ring.events)
      /\ pushed + 1 \in Held(ring')
      /\ Held(ring') \subseteq Held(ring) \cup {pushed + 1}
      /\ Held(ring) \subseteq Held(ring') \cup Positions(ring.events, 1, k)
  <2>1. k = Push(ring, capacity, pushed + 1).dropped - ring.dropped
    BY <1>1, <1>k
  <2>2. /\ k \in {0, 1} /\ k <= Len(ring.events)
        /\ pushed + 1 \in Held(Push(ring, capacity, pushed + 1))
        /\ Held(Push(ring, capacity, pushed + 1)) \subseteq Held(ring) \cup {pushed + 1}
        /\ Held(ring) \subseteq
             Held(Push(ring, capacity, pushed + 1)) \cup Positions(ring.events, 1, k)
    BY <1>t, <1>n, <2>1, PushKeeps
  <2>3. QED
    BY <1>1, <2>2
<1>3. LostFrom(ring)' \subseteq LostFrom(ring) \cup Positions(ring.events, 1, k)
  BY <1>0, <1>n, <1>1, <1>2 DEF LostFrom
<1>4. /\ IsFiniteSet(LostFrom(ring)) /\ Cardinality(LostFrom(ring)) \in Nat
      /\ Cardinality(LostFrom(ring)') \in Nat
  BY <1>0, <1>t, <1>n, LostFinite, LostFiniteNext
<1>5. Cardinality(LostFrom(ring)') <= Cardinality(LostFrom(ring)) + k
  <2>1. /\ 1 \in Nat \ {0} /\ k \in Nat
        /\ (IF 1 > k THEN 0 ELSE k - 1 + 1) = k
    BY <1>2
  <2>2. Cardinality(LostFrom(ring)') <=
          Cardinality(LostFrom(ring)) + (IF 1 > k THEN 0 ELSE k - 1 + 1)
    BY <1>0, <1>t, <1>n, <1>2, <1>3, <1>4, <2>1, AtMostPositionsMore
  <2>3. QED
    BY <2>1, <2>2
<1>6. Cardinality(LostFrom(ring)') <= ring'.dropped + persistFails
  <2>1. Cardinality(LostFrom(ring)) <= ring.dropped + persistFails
    BY DEF LossInv, EveryLossCounted, EnqueuePush
  <2>2. QED
    BY <1>0, <1>n, <1>k, <1>4, <1>5, <2>1
<1>7. EveryLossCounted'
  <2>1. PICK ok \in BOOLEAN : PersistLocked(ok)
    BY DEF EnqueuePush
  <2>2. /\ Cardinality(LostFrom(disk)') <= disk'.dropped + persistFails'
        /\ Cardinality(LostFrom(ring)') <= ring'.dropped + persistFails'
    BY <1>1, <1>6, <2>1, PersistLoss DEF LossInv
  <2>3. QED
    BY <2>2 DEF EveryLossCounted
<1>8. BatchInFlight'
  <2> SUFFICES ASSUME pc \in {"post", "ack"} PROVE BatchInFlight'
    BY <1>1 DEF BatchInFlight
  <2>d. PICK d : d = Overwritten
    OBVIOUS
  <2>0. d \in Nat /\ Overwritten' = d + k
    <3>1. droppedAtPeek <= ring.dropped
      BY DEF LossInv, BatchInFlight
    <3>2. QED
      BY <1>0, <1>n, <1>k, <1>1, <2>d, <3>1 DEF Overwritten
  <2>1. droppedAtPeek' <= ring'.dropped
    <3>1. droppedAtPeek <= ring.dropped
      BY DEF LossInv, BatchInFlight
    <3>2. QED
      BY <1>0, <1>n, <1>k, <1>1, <1>2, <3>1
  <2>2. ASSUME NEW i \in d + k + 1 .. Len(batch)
        PROVE  i - (d + k) <= Len(ring'.events) /\ batch[i] = ring'.events[i - (d + k)]
    <3>1. i \in d + 1 .. Len(batch)
      BY <1>0, <1>t, <1>n, <1>2, <2>0
    <3>2. /\ i - d <= Len(ring.events) /\ batch[i] = ring.events[i - d]
      BY <2>d, <3>1 DEF LossInv, BatchInFlight
    <3>3. CASE Len(ring.events) < capacity
      <4>1. /\ Len(ring'.events) = Len(ring.events) + 1 /\ k = 0
            /\ \A j \in 1 .. Len(ring.events) : ring'.events[j] = ring.events[j]
        <5>1. LET q == Push(ring, capacity, pushed + 1) IN
              /\ q.dropped = ring.dropped
              /\ Len(q.events) = Len(ring.events) + 1
              /\ \A j \in 1 .. Len(ring.events) : q.events[j] = ring.events[j]
          BY <1>t, <1>n, <3>3, PushFacts
        <5>2. QED
          BY <1>0, <1>1, <1>k, <5>1
      <4>2. i - d \in 1 .. Len(ring.events)
        BY <1>0, <1>t, <1>n, <2>0, <3>1, <3>2
      <4>3. QED
        BY <1>0, <1>t, <1>n, <2>0, <3>2, <4>1, <4>2
    <3>4. CASE Len(ring.events) >= capacity
      <4>1. /\ Len(ring'.events) = Len(ring.events) /\ k = 1
            /\ \A j \in 1 .. Len(ring.events) - 1 : ring'.events[j] = ring.events[j + 1]
        <5>1. LET q == Push(ring, capacity, pushed + 1) IN
              /\ q.dropped = ring.dropped + 1
              /\ Len(q.events) = Len(ring.events)
              /\ \A j \in 1 .. Len(ring.events) - 1 : q.events[j] = ring.events[j + 1]
          BY <1>t, <1>n, <3>4, PushFacts
        <5>2. QED
          BY <1>0, <1>1, <1>k, <5>1
      <4>2. /\ i - (d + 1) \in 1 .. Len(ring.events) - 1
            /\ (i - (d + 1)) + 1 = i - d
        BY <1>0, <1>t, <1>n, <2>0, <3>2, <4>1
      <4>3. QED
        BY <1>0, <1>t, <1>n, <2>0, <3>2, <4>1, <4>2
    <3>5. QED
      BY <1>0, <1>t, <1>n, <3>3, <3>4, Len(ring.events) < capacity \/ Len(ring.events) >= capacity
  <2>3. Cardinality(LostFrom(ring)' \ Range(batch')) <=
          droppedAtPeek + persistFails +
            (IF d + k > Len(batch) THEN d + k - Len(batch) ELSE 0)
    <3>1. /\ Cardinality(LostFrom(ring) \ Range(batch)) <=
               droppedAtPeek + persistFails +
                 (IF d > Len(batch) THEN d - Len(batch) ELSE 0)
          /\ IsFiniteSet(LostFrom(ring) \ Range(batch))
          /\ Cardinality(LostFrom(ring) \ Range(batch)) \in Nat
          /\ Cardinality(LostFrom(ring)' \ Range(batch')) \in Nat
      BY <1>0, <1>t, <1>n, <2>d, LostFinite, LostFiniteNext DEF LossInv, BatchInFlight
    <3>2. CASE d >= Len(batch)
      <4>1. LostFrom(ring)' \ Range(batch') \subseteq
              (LostFrom(ring) \ Range(batch)) \cup Positions(ring.events, 1, k)
        BY <1>1, <1>3
      <4>2. /\ 1 \in Nat \ {0} /\ k \in Nat
            /\ (IF 1 > k THEN 0 ELSE k - 1 + 1) = k
        BY <1>2
      <4>3. Cardinality(LostFrom(ring)' \ Range(batch')) <=
              Cardinality(LostFrom(ring) \ Range(batch))
                + (IF 1 > k THEN 0 ELSE k - 1 + 1)
        BY <1>0, <1>t, <1>n, <1>2, <3>1, <4>1, <4>2, AtMostPositionsMore
      <4>4. QED
        <5>1. (IF d > Len(batch) THEN d - Len(batch) ELSE 0) = d - Len(batch)
          BY <1>0, <2>0, <3>2
        <5>2. (IF d + k > Len(batch) THEN d + k - Len(batch) ELSE 0) = d + k - Len(batch)
          BY <1>0, <2>0, <3>2, <4>2
        <5>3. Cardinality(LostFrom(ring)' \ Range(batch')) <=
                Cardinality(LostFrom(ring) \ Range(batch)) + k
          BY <4>2, <4>3
        <5>4. Cardinality(LostFrom(ring) \ Range(batch)) <=
                droppedAtPeek + persistFails + (d - Len(batch))
          BY <3>1, <5>1
        <5>5. Cardinality(LostFrom(ring)' \ Range(batch')) <=
                droppedAtPeek + persistFails + (d + k - Len(batch))
          BY <1>0, <1>n, <2>0, <3>1, <4>2, <5>3, <5>4
        <5>6. QED
          BY <5>2, <5>5
    <3>3. CASE d < Len(batch)
      <4>1. d + 1 \in d + 1 .. Len(batch) /\ (d + 1) - d = 1
        BY <1>0, <1>t, <1>n, <2>0, <3>3
      <4>2. batch[d + 1] = ring.events[1]
        BY <2>d, <4>1 DEF LossInv, BatchInFlight
      <4>3. batch[d + 1] \in Range(batch)
        BY <1>0, <1>t, <1>n, <2>0, <3>3, LenProperties DEF Range
      <4>4. Positions(ring.events, 1, k) \subseteq Range(batch)
        BY <1>2, <4>2, <4>3 DEF Positions
      <4>5. LostFrom(ring)' \ Range(batch') \subseteq LostFrom(ring) \ Range(batch)
        BY <1>1, <1>3, <4>4
      <4>6. Cardinality(LostFrom(ring)' \ Range(batch')) <=
              Cardinality(LostFrom(ring) \ Range(batch))
        BY <3>1, <4>5, SmallerSet
      <4>7. QED
        <5>1. (IF d > Len(batch) THEN d - Len(batch) ELSE 0) = 0
          BY <1>0, <2>0, <3>3
        <5>2. (IF d + k > Len(batch) THEN d + k - Len(batch) ELSE 0) = 0
          BY <1>0, <1>2, <2>0, <3>3
        <5>3. QED
          BY <1>0, <1>n, <3>1, <4>6, <5>1, <5>2
    <3>4. QED
      BY <1>0, <1>t, <1>n, <2>0, <3>2, <3>3
  <2>4. persistFails' >= persistFails
    BY <1>0, <1>n DEF EnqueuePush, PersistLocked
  <2>5. Cardinality(LostFrom(ring)' \ Range(batch')) <=
          droppedAtPeek' + persistFails' +
            (IF Overwritten' > Len(batch') THEN Overwritten' - Len(batch') ELSE 0)
    <3>1. Cardinality(LostFrom(ring)' \ Range(batch')) \in Nat
      BY <1>0, <1>t, <1>n, LostFiniteNext
    <3>2. PICK x : x = IF d + k > Len(batch) THEN d + k - Len(batch) ELSE 0
      OBVIOUS
    <3>3. x \in Nat
      BY <1>0, <1>2, <2>0, <3>2
    <3>4. Cardinality(LostFrom(ring)' \ Range(batch')) <= droppedAtPeek + persistFails + x
      BY <2>3, <3>2
    <3>5. Cardinality(LostFrom(ring)' \ Range(batch')) <= droppedAtPeek + persistFails' + x
      BY <1>n, <2>4, <3>1, <3>3, <3>4
    <3>6. x = IF Overwritten' > Len(batch') THEN Overwritten' - Len(batch') ELSE 0
      BY <1>0, <1>1, <1>2, <2>0, <3>2
    <3>7. QED
      BY <1>1, <3>5, <3>6
  <2>6. /\ \A i \in 1 .. sent' : batch'[i] \in accepted'
        /\ pc' = "ack" => sent' = Len(batch')
    BY <1>1 DEF LossInv, BatchInFlight
  <2>7. \A i \in Overwritten' + 1 .. Len(batch') :
          /\ i - Overwritten' <= Len(ring'.events)
          /\ batch'[i] = ring'.events[i - Overwritten']
    BY <1>1, <2>0, <2>2
  <2>8. QED
    BY <2>1, <2>5, <2>6, <2>7 DEF BatchInFlight
<1>9. QED
  BY <1>7, <1>8

(* FlushAck: the events it removes and the API did not take stand where    *)
(* Enqueue shifted them since the peek, one place per overwritten event.   *)
LEMMA AckLoss ==
  ASSUME LossInv, TypeOK', FlushAck
  PROVE  EveryLossCounted' /\ BatchInFlight'
<1>s. PICK S : S = 1 .. MaxEvents
  OBVIOUS
<1>n. PICK n, k, d : /\ n = Len(batch) /\ k = Least(n, Len(ring.events)) /\ d = Overwritten
  OBVIOUS
<1>r. ring \in RingOf(S) /\ batch \in Seq(S)
  BY <1>s, RingTypeIs DEF LossInv, TypeOK
<1>t. /\ n \in Nat /\ ring.events \in Seq(S) /\ Len(ring.events) \in Nat
      /\ ring.dropped \in Nat /\ droppedAtPeek \in Nat /\ pushed \in Nat /\ persistFails \in Nat
  <2>1. n \in Nat /\ ring.events \in Seq(S) /\ Len(ring.events) \in Nat /\ ring.dropped \in Nat
    BY <1>n, <1>r, LenProperties DEF RingOf
  <2>2. droppedAtPeek \in Nat /\ pushed \in Nat /\ persistFails \in Nat
    BY BatcherAssumption DEF LossInv, TypeOK
  <2>3. QED
    BY <2>1, <2>2
<1>1. /\ pc = "ack" /\ pc' = "finish" /\ ring' = Ack(ring, n)
      /\ pushed' = pushed /\ accepted' = accepted
  BY <1>n DEF FlushAck, history
<1>2. /\ ring' \in RingOf(S) /\ ring'.dropped = ring.dropped
      /\ k \in 0 .. Len(ring.events) /\ k <= n
      /\ Len(ring'.events) = Len(ring.events) - k
      /\ \A i \in 1 .. Len(ring.events) - k : ring'.events[i] = ring.events[k + i]
  <2>1. /\ Ack(ring, n) \in RingOf(S) /\ Ack(ring, n).dropped = ring.dropped
        /\ Len(Ack(ring, n).events) = Len(ring.events) - Least(n, Len(ring.events))
        /\ \A i \in 1 .. Len(ring.events) - Least(n, Len(ring.events)) :
             Ack(ring, n).events[i] = ring.events[Least(n, Len(ring.events)) + i]
    BY <1>r, <1>t, AckFacts
  <2>2. k \in 0 .. Len(ring.events) /\ k <= n
    BY <1>t, <1>n DEF Least
  <2>3. QED
    BY <1>n, <1>1, <2>1, <2>2
<1>3. Held(ring) \subseteq Held(ring') \cup Positions(ring.events, 1, k)
  BY <1>r, <1>2, CutKeeps
<1>4. /\ droppedAtPeek <= ring.dropped /\ d = ring.dropped - droppedAtPeek /\ d \in Nat
      /\ \A i \in d + 1 .. n : i - d <= Len(ring.events) /\ batch[i] = ring.events[i - d]
      /\ Cardinality(LostFrom(ring) \ Range(batch)) <=
           droppedAtPeek + persistFails + (IF d > n THEN d - n ELSE 0)
      /\ \A i \in 1 .. n : batch[i] \in accepted
  BY <1>t, <1>n, <1>1 DEF LossInv, BatchInFlight, Overwritten
<1>d. d \in Nat /\ n \in Nat
  BY <1>t, <1>4
<1>5. PICK a : a = IF d > n THEN 1 ELSE n - d + 1
  OBVIOUS
<1>6. a \in Nat \ {0}
  BY <1>t, <1>4, <1>5
<1>7. LostFrom(ring)' \subseteq
        (LostFrom(ring) \ Range(batch)) \cup Positions(ring.events, a, k)
  <2> SUFFICES ASSUME NEW x \in LostFrom(ring)', x \notin Positions(ring.events, a, k)
               PROVE  x \in LostFrom(ring) /\ x \notin Range(batch)
    OBVIOUS
  <2>1. x \in 1 .. pushed /\ x \notin accepted /\ x \notin Held(ring')
    BY <1>1 DEF LostFrom
  <2>2. x \notin Range(batch)
    BY <1>r, <1>t, <1>n, <1>4, <2>1, LenProperties DEF Range
  <2>3. x \notin Positions(ring.events, 1, k)
    <3> SUFFICES ASSUME NEW i \in 1 .. k, x = ring.events[i] PROVE FALSE
      BY DEF Positions
    <3>1. CASE i >= a
      BY <1>2, <1>6, <3>1 DEF Positions
    <3>2. CASE i < a
      <4>1. /\ i + d \in d + 1 .. n /\ (i + d) - d = i /\ i + d \in 1 .. n
        <5>1. i \in Nat /\ i >= 1 /\ k \in Nat
          BY <1>t, <1>2
        <5>2. d <= n /\ a = n - d + 1
          BY <1>t, <1>4, <1>5, <3>2, <5>1
        <5>3. QED
          BY <1>d, <3>2, <5>1, <5>2
      <4>2. batch[i + d] = ring.events[i] /\ batch[i + d] \in accepted
        BY <1>4, <4>1
      <4>3. QED
        BY <2>1, <4>2
    <3>3. QED
      BY <1>2, <1>6, <3>1, <3>2
  <2>4. x \notin Held(ring)
    BY <1>3, <2>1, <2>3
  <2>5. QED
    BY <2>1, <2>2, <2>4 DEF LostFrom
<1>8. /\ IsFiniteSet(LostFrom(ring) \ Range(batch))
      /\ Cardinality(LostFrom(ring) \ Range(batch)) \in Nat
      /\ Cardinality(LostFrom(ring)') \in Nat
  BY <1>t, <1>1, LostFinite, LostFiniteNext
<1>9. PICK m : m = IF a > k THEN 0 ELSE k - a + 1
  OBVIOUS
<1>10. Cardinality(LostFrom(ring)') <= Cardinality(LostFrom(ring) \ Range(batch)) + m
  <2>1. k \in Nat /\ k <= Len(ring.events)
    BY <1>t, <1>2
  <2>2. Cardinality(LostFrom(ring)') <=
          Cardinality(LostFrom(ring) \ Range(batch)) + (IF a > k THEN 0 ELSE k - a + 1)
    BY <1>t, <1>6, <1>7, <1>8, <2>1, AtMostPositionsMore
  <2>3. QED
    BY <1>9, <2>2
<1>11. PICK e : e = IF d > n THEN d - n ELSE 0
  OBVIOUS
<1>12. m + e <= d /\ m \in Nat /\ e \in Nat
  <2>1. k \in Nat /\ k <= n
    BY <1>t, <1>2
  <2>2. CASE d > n
    <3>1. a = 1 /\ e = d - n /\ m = k
      BY <1>t, <1>4, <1>5, <1>9, <1>11, <2>1, <2>2
    <3>2. QED
      BY <1>t, <1>4, <2>1, <2>2, <3>1
  <2>3. CASE d <= n
    <3>1. a = n - d + 1 /\ e = 0
      BY <1>t, <1>4, <1>5, <1>11, <2>3
    <3>2. m \in Nat /\ m <= d
      BY <1>d, <1>9, <2>1, <2>3, <3>1
    <3>3. QED
      BY <1>4, <3>1, <3>2
  <2>4. QED
    BY <1>t, <1>4, <2>2, <2>3
<1>13. Cardinality(LostFrom(ring) \ Range(batch)) <= droppedAtPeek + persistFails + e
  BY <1>4, <1>11
<1>14. Cardinality(LostFrom(ring)') <= ring'.dropped + persistFails
  BY <1>t, <1>2, <1>4, <1>8, <1>10, <1>12, <1>13
<1>15. PICK ok \in BOOLEAN : PersistLocked(ok)
  BY DEF FlushAck
<1>16. /\ Cardinality(LostFrom(disk)') <= disk'.dropped + persistFails'
       /\ Cardinality(LostFrom(ring)') <= ring'.dropped + persistFails'
  BY <1>1, <1>14, <1>15, PersistLoss DEF LossInv
<1>17. QED
  BY <1>1, <1>16 DEF EveryLossCounted, BatchInFlight

(* Start: what load cuts off the file for a smaller capacity is counted.   *)
LEMMA StartLoss ==
  ASSUME LossInv, TypeOK', Start
  PROVE  EveryLossCounted' /\ BatchInFlight'
<1>s. PICK S : S = 1 .. MaxEvents
  OBVIOUS
<1>c. PICK c \in Capacities : capacity' = c /\ ring' = Load(disk, c)
  BY DEF Start
<1>k. PICK k : k = IF Len(disk.events) > c THEN Len(disk.events) - c ELSE 0
  OBVIOUS
<1>t. /\ disk \in RingOf(S) /\ disk.events \in Seq(S) /\ Len(disk.events) \in Nat
      /\ disk.dropped \in Nat /\ pushed \in Nat /\ persistFails \in Nat /\ c \in Nat
  BY <1>s, BatcherAssumption, RingTypeIs, LenProperties
  DEF LossInv, TypeOK, RingOf
<1>1. /\ pc' = "select" /\ disk' = disk /\ pushed' = pushed /\ accepted' = accepted
      /\ persistFails' = persistFails
  BY DEF Start
<1>2. /\ ring' \in RingOf(S) /\ ring'.dropped = disk.dropped + k
      /\ Len(ring'.events) = Len(disk.events) - k
      /\ \A i \in 1 .. Len(disk.events) - k : ring'.events[i] = disk.events[k + i]
  BY <1>t, <1>c, <1>k, LoadFacts
<1>3. k \in 0 .. Len(disk.events) /\ k \in Nat
  BY <1>t, <1>k
<1>4. Held(disk) \subseteq Held(ring') \cup Positions(disk.events, 1, k)
  BY <1>t, <1>2, <1>3, CutKeeps
<1>5. LostFrom(ring)' \subseteq LostFrom(disk) \cup Positions(disk.events, 1, k)
  BY <1>1, <1>4 DEF LostFrom
<1>6. /\ IsFiniteSet(LostFrom(disk)) /\ Cardinality(LostFrom(disk)) \in Nat
      /\ Cardinality(LostFrom(ring)') \in Nat
  BY <1>t, <1>1, LostFinite, LostFiniteNext
<1>7. Cardinality(LostFrom(ring)') <= Cardinality(LostFrom(disk)) + k
  <2>1. (IF 1 > k THEN 0 ELSE k - 1 + 1) = k /\ 1 \in Nat \ {0} /\ k <= Len(disk.events)
    BY <1>t, <1>3
  <2>2. Cardinality(LostFrom(ring)') <=
          Cardinality(LostFrom(disk)) + (IF 1 > k THEN 0 ELSE k - 1 + 1)
    BY <1>t, <1>3, <1>5, <1>6, <2>1, AtMostPositionsMore
  <2>3. QED
    BY <2>1, <2>2
<1>8. Cardinality(LostFrom(disk)) <= disk.dropped + persistFails
  BY DEF LossInv, EveryLossCounted
<1>9. Cardinality(LostFrom(ring)') <= ring'.dropped + persistFails'
  BY <1>t, <1>1, <1>2, <1>3, <1>6, <1>7, <1>8
<1>10. LostFrom(disk)' = LostFrom(disk)
  BY <1>1 DEF LostFrom
<1>11. QED
  BY <1>1, <1>8, <1>9, <1>10 DEF EveryLossCounted, BatchInFlight

(* FlushPeek copies the front of the ring: nothing overwritten yet.        *)
LEMMA PeekLoss ==
  ASSUME LossInv, FlushPeek
  PROVE  EveryLossCounted' /\ BatchInFlight'
<1>s. PICK S : S = 1 .. MaxEvents
  OBVIOUS
<1>t. /\ ring \in RingOf(S) /\ ring.dropped \in Nat /\ pushed \in Nat /\ persistFails \in Nat
      /\ ring.events \in Seq(S) /\ Len(ring.events) \in Nat /\ MaxSize \in Nat
  BY <1>s, BatcherAssumption, RingTypeIs, LenProperties DEF LossInv, TypeOK, RingOf
<1>1. /\ pc = "peek" /\ pc' # "down" /\ pc' # "ack" /\ batch' = Peek(ring, MaxSize) /\ sent' = 0
      /\ droppedAtPeek' = ring.dropped
      /\ ring' = ring /\ disk' = disk /\ pushed' = pushed /\ accepted' = accepted
      /\ persistFails' = persistFails
  BY DEF FlushPeek, ringVars, history, bounds
<1>2. EveryLossCounted'
  BY <1>1 DEF LossInv, EveryLossCounted, Up, LostFrom
<1>3. /\ batch' \in Seq(S) /\ Len(batch') = Least(MaxSize, Len(ring.events))
      /\ \A i \in 1 .. Len(batch') : batch'[i] = ring.events[i]
  BY <1>t, <1>1, PeekFacts
<1>4. Overwritten' = 0
  BY <1>t, <1>1 DEF Overwritten
<1>5. Len(batch') \in Nat /\ Len(batch') <= Len(ring.events)
  BY <1>t, <1>3 DEF Least
<1>6. \A i \in Overwritten' + 1 .. Len(batch') :
        /\ i - Overwritten' <= Len(ring'.events)
        /\ batch'[i] = ring'.events[i - Overwritten']
  <2> SUFFICES ASSUME NEW i \in 1 .. Len(batch')
               PROVE  i - 0 <= Len(ring.events) /\ batch'[i] = ring.events[i - 0]
    BY <1>1, <1>4
  <2>1. i - 0 = i /\ i <= Len(ring.events)
    BY <1>t, <1>5
  <2>2. QED
    BY <1>3, <2>1
<1>7. Cardinality(LostFrom(ring)' \ Range(batch')) <=
        droppedAtPeek' + persistFails' +
          (IF Overwritten' > Len(batch') THEN Overwritten' - Len(batch') ELSE 0)
  <2>1. LostFrom(ring)' \ Range(batch') \subseteq LostFrom(ring)
    BY <1>1 DEF LostFrom
  <2>2. Cardinality(LostFrom(ring)' \ Range(batch')) <= Cardinality(LostFrom(ring))
    BY <1>t, <2>1, LostFinite, SmallerSet
  <2>3. Cardinality(LostFrom(ring)) <= ring.dropped + persistFails
    BY <1>1 DEF LossInv, EveryLossCounted, Up
  <2>4. /\ Cardinality(LostFrom(ring)) \in Nat
        /\ Cardinality(LostFrom(ring)' \ Range(batch')) \in Nat
    BY <1>t, <1>1, LostFinite, LostFiniteNext
  <2>5. (IF Overwritten' > Len(batch') THEN Overwritten' - Len(batch') ELSE 0) = 0
    BY <1>4, <1>5
  <2>6. Cardinality(LostFrom(ring)' \ Range(batch')) <= ring.dropped + persistFails
    BY <1>t, <2>2, <2>3, <2>4
  <2>7. QED
    BY <1>t, <1>1, <2>5, <2>6
<1>8. QED
  BY <1>t, <1>1, <1>2, <1>6, <1>7 DEF BatchInFlight

(* PostTaken: what the API takes leaves every set of lost events.          *)
LEMMA TakenLoss ==
  ASSUME LossInv, TypeOK', PostTaken
  PROVE  EveryLossCounted' /\ BatchInFlight'
<1>t. /\ ring.dropped \in Nat /\ disk.dropped \in Nat /\ droppedAtPeek \in Nat
      /\ pushed \in Nat /\ persistFails \in Nat
      /\ sent' \in Nat
  BY BatcherAssumption DEF LossInv, TypeOK, RingType
<1>1. /\ pc = "post" /\ pc' = pc /\ batch' = batch /\ droppedAtPeek' = droppedAtPeek
      /\ ring' = ring /\ disk' = disk /\ pushed' = pushed /\ persistFails' = persistFails
      /\ accepted' = accepted \cup {batch[i] : i \in 1 .. sent'}
  BY DEF PostTaken, ringVars, bounds
<1>2. /\ LostFrom(ring)' \subseteq LostFrom(ring)
      /\ LostFrom(disk)' \subseteq LostFrom(disk)
      /\ LostFrom(ring)' \ Range(batch') \subseteq LostFrom(ring) \ Range(batch)
  BY <1>1 DEF LostFrom
<1>3. /\ Cardinality(LostFrom(ring)') <= Cardinality(LostFrom(ring))
      /\ Cardinality(LostFrom(disk)') <= Cardinality(LostFrom(disk))
      /\ Cardinality(LostFrom(ring)' \ Range(batch')) <=
           Cardinality(LostFrom(ring) \ Range(batch))
  BY <1>t, <1>2, LostFinite, SmallerSet
<1>4. /\ Cardinality(LostFrom(ring)') \in Nat /\ Cardinality(LostFrom(ring)) \in Nat
      /\ Cardinality(LostFrom(disk)') \in Nat /\ Cardinality(LostFrom(disk)) \in Nat
      /\ Cardinality(LostFrom(ring)' \ Range(batch')) \in Nat
      /\ Cardinality(LostFrom(ring) \ Range(batch)) \in Nat
  BY <1>t, <1>1, LostFinite, LostFiniteNext
<1>5. EveryLossCounted'
  <2>1. /\ Cardinality(LostFrom(ring)) <= ring.dropped + persistFails
        /\ Cardinality(LostFrom(disk)) <= disk.dropped + persistFails
    BY <1>1 DEF LossInv, EveryLossCounted, Up
  <2>2. /\ Cardinality(LostFrom(ring)') <= ring'.dropped + persistFails'
        /\ Cardinality(LostFrom(disk)') <= disk'.dropped + persistFails'
    BY <1>t, <1>1, <1>3, <1>4, <2>1
  <2>3. QED
    BY <2>2 DEF EveryLossCounted
<1>6. PICK x : x = IF Overwritten > Len(batch) THEN Overwritten - Len(batch) ELSE 0
  OBVIOUS
<1>7. /\ Cardinality(LostFrom(ring) \ Range(batch)) <= droppedAtPeek + persistFails + x
      /\ x \in Nat
  <2>1. Len(batch) \in Nat /\ Overwritten \in Int
    <3>1. batch \in Seq(1 .. MaxEvents)
      BY DEF LossInv, TypeOK
    <3>2. Len(batch) \in Nat
      BY <3>1, LenProperties
    <3>3. QED
      BY <1>t, <3>2 DEF Overwritten
  <2>2. QED
    BY <1>1, <1>6, <2>1 DEF LossInv, BatchInFlight
<1>8. Cardinality(LostFrom(ring)' \ Range(batch')) <= droppedAtPeek + persistFails + x
  BY <1>t, <1>3, <1>4, <1>7
<1>9. Overwritten' = Overwritten
  BY <1>1 DEF Overwritten
<1>10. Cardinality(LostFrom(ring)' \ Range(batch')) <=
         droppedAtPeek' + persistFails' +
           (IF Overwritten' > Len(batch') THEN Overwritten' - Len(batch') ELSE 0)
  BY <1>1, <1>6, <1>8, <1>9
<1>11. \A i \in 1 .. sent' : batch'[i] \in accepted'
  BY <1>1
<1>12. /\ droppedAtPeek <= ring.dropped
       /\ \A i \in Overwritten + 1 .. Len(batch) :
            /\ i - Overwritten <= Len(ring.events)
            /\ batch[i] = ring.events[i - Overwritten]
  BY <1>1 DEF LossInv, BatchInFlight
<1>13. QED
  BY <1>1, <1>5, <1>9, <1>10, <1>11, <1>12 DEF BatchInFlight

(* The steps that touch neither the ring, nor its file, nor the batch.     *)
LEMMA QuietLoss ==
  ASSUME LossInv, UNCHANGED <<ring, disk, batch, sent, droppedAtPeek, pushed, accepted, persistFails>>,
         pc = "down" <=> pc' = "down",
         pc' \in {"post", "ack"} => pc \in {"post", "ack"},
         pc' = "ack" => pc = "ack" \/ sent = Len(batch)
  PROVE  EveryLossCounted' /\ BatchInFlight'
<1>1. EveryLossCounted'
  BY DEF LossInv, EveryLossCounted, LostFrom, Up
<1>2. BatchInFlight'
  BY DEF LossInv, BatchInFlight, LostFrom, Overwritten
<1>3. QED
  BY <1>1, <1>2

(* Every step accounts for what it loses.                                  *)
LEMMA LossStep == LossInv /\ [Next]_vars => LossInv'
<1> SUFFICES ASSUME LossInv, [Next]_vars PROVE LossInv'
  OBVIOUS
<1>t. TypeOK'
  BY TypeStep DEF LossInv
<1> SUFFICES EveryLossCounted' /\ BatchInFlight'
  BY <1>t DEF LossInv
<1>1. CASE Start
  BY <1>1, <1>t, StartLoss
<1>2. CASE Cancel
  BY <1>2, QuietLoss DEF Cancel, ringVars, flushVars, history, bounds
<1>3. CASE ProcessEnds
  BY <1>3 DEF ProcessEnds, LossInv, EveryLossCounted, BatchInFlight, LostFrom, Up, history, bounds
<1>4. ASSUME NEW p \in Producers, EnqueuePush(p) PROVE EveryLossCounted' /\ BatchInFlight'
  BY <1>4, <1>t, PushLoss
<1>5. ASSUME NEW p \in Producers, EnqueueSignal(p) PROVE EveryLossCounted' /\ BatchInFlight'
  BY <1>5, QuietLoss DEF EnqueueSignal, ringVars, flushVars, history, bounds
<1>18. ASSUME NEW p \in Producers, EnqueueTest(p) PROVE EveryLossCounted' /\ BatchInFlight'
  BY <1>18, QuietLoss DEF EnqueueTest, ringVars, flushVars, history, bounds
<1>6. CASE TimerFires
  BY <1>6, QuietLoss DEF TimerFires, ringVars, flushVars, history, bounds
<1>7. CASE SelectDone
  BY <1>7, QuietLoss DEF SelectDone, ringVars, history, bounds
<1>8. CASE SelectTimer
  BY <1>8, QuietLoss DEF SelectTimer, ringVars, flushVars, history, bounds
<1>9. CASE SelectWake
  BY <1>9, QuietLoss DEF SelectWake, ringVars, flushVars, history, bounds
<1>10. CASE FlushPeek
  BY <1>10, PeekLoss
<1>11. CASE PostTaken
  BY <1>11, <1>t, TakenLoss
<1>12. CASE PostSucceeds
  BY <1>12, QuietLoss DEF PostSucceeds, ringVars, flushVars, history, bounds
<1>13. CASE PostFails
  BY <1>13, QuietLoss DEF PostFails, ringVars, history
<1>19. CASE PostUnauthorized
  BY <1>19 DEF PostUnauthorized, LossInv, EveryLossCounted, BatchInFlight, Overwritten,
               LostFrom, Up, ringVars, history
<1>14. CASE FlushAck
  BY <1>14, <1>t, AckLoss
<1>15. CASE FlushReturns
  BY <1>15 DEF FlushReturns, LossInv, EveryLossCounted, BatchInFlight, LostFrom, Up,
               ringVars, history, bounds
<1>16. CASE UNCHANGED vars
  BY <1>16, QuietLoss DEF vars, ringVars, flushVars, history, bounds
<1>17. QED
  BY <1>1, <1>2, <1>3, <1>4, <1>5, <1>6, <1>7, <1>8, <1>9, <1>10, <1>11, <1>12,
     <1>13, <1>14, <1>15, <1>16, <1>18, <1>19 DEF Next, Run, Flush, Enqueue

(* Nothing is lost at the start.                                           *)
LEMMA InitLoss == Init => LossInv
<1> SUFFICES ASSUME Init PROVE LossInv
  OBVIOUS
<1>1. TypeOK
  BY InitType
<1>2. LostFrom(disk) = {} /\ Cardinality({}) = 0
  BY FS_EmptySet DEF Init, LostFrom
<1>3. disk.dropped = 0 /\ persistFails = 0 /\ pc = "down"
  BY DEF Init, EmptyRing
<1>4. QED
  BY <1>1, <1>2, <1>3 DEF LossInv, EveryLossCounted, BatchInFlight, Up

(* No event is lost without a trace, in any run of any length: at every    *)
(* moment the events that neither the API nor the ring (nor its file) has  *)
(* are no more than the drop counter plus the failed writes of the file.   *)
THEOREM LossesAreCounted == Spec => []EveryLossCounted
<1>1. LossInv => EveryLossCounted
  BY DEF LossInv
<1>2. QED
  BY <1>1, InitLoss, LossStep, PTL DEF Spec

(* What a batch in flight still is in the ring, however often Enqueue has  *)
(* overwritten events since Flush peeked it.                               *)
THEOREM BatchesTrackTheRing == Spec => []BatchInFlight
<1>1. LossInv => BatchInFlight
  BY DEF LossInv
<1>2. QED
  BY <1>1, InitLoss, LossStep, PTL DEF Spec

-----------------------------------------------------------------------------
(* While no write of the ring file has failed, the file holds all that the *)
(* ring in memory does: a process that ends then loses nothing.            *)
DurableInv == TypeOK /\ PendingIsDurable

(* Every step keeps the file as far as memory.                             *)
LEMMA DurableStep == DurableInv /\ [Next]_vars => DurableInv'
<1> SUFFICES ASSUME DurableInv, [Next]_vars PROVE DurableInv'
  OBVIOUS
<1>t. TypeOK'
  BY TypeStep DEF DurableInv
<1> SUFFICES PendingIsDurable'
  BY <1>t DEF DurableInv
(* A step that writes the file leaves it equal to the ring, or fails. *)
<1>w. ASSUME NEW ok \in BOOLEAN, PersistLocked(ok) PROVE PendingIsDurable'
  <2>1. disk' = ring' \/ persistFails' = persistFails + 1
    BY <1>w DEF PersistLocked
  <2>2. persistFails \in Nat /\ ring'.dropped \in Nat
    BY <1>t, BatcherAssumption DEF DurableInv, TypeOK, RingType
  <2>3. QED
    BY <2>1, <2>2 DEF PendingIsDurable
<1>1. CASE Start
  <2>s. PICK S : S = 1 .. MaxEvents
    OBVIOUS
  <2>1. PICK c \in Capacities : ring' = Load(disk, c)
    BY <1>1 DEF Start
  <2>2. disk \in RingOf(S) /\ c \in Nat
    BY <2>s, <2>1, BatcherAssumption, RingTypeIs DEF DurableInv, TypeOK
  <2>3. disk.events \in Seq(S) /\ disk.dropped \in Nat /\ Len(disk.events) \in Nat
    BY <2>2, LenProperties DEF RingOf
  <2>4. PICK k : k = IF Len(disk.events) > c THEN Len(disk.events) - c ELSE 0
    OBVIOUS
  <2>5. k \in 0 .. Len(disk.events)
    BY <2>2, <2>3, <2>4
  <2>6. /\ Load(disk, c) \in RingOf(S) /\ Load(disk, c).dropped = disk.dropped + k
        /\ Len(Load(disk, c).events) = Len(disk.events) - k
        /\ \A i \in 1 .. Len(disk.events) - k : Load(disk, c).events[i] = disk.events[k + i]
    BY <2>2, <2>4, LoadFacts
  <2>7. Held(Load(disk, c)) \subseteq Held(disk)
    BY <2>2, <2>5, <2>6, CutKeeps
  <2>8. disk' = disk /\ ring'.dropped >= disk.dropped
    BY <1>1, <2>1, <2>3, <2>5, <2>6 DEF Start
  <2>9. QED
    BY <2>1, <2>7, <2>8 DEF PendingIsDurable
<1>2. CASE ProcessEnds
  BY <1>2 DEF ProcessEnds, PendingIsDurable, Up
<1>3. ASSUME NEW p \in Producers, EnqueuePush(p) PROVE PendingIsDurable'
  BY <1>3, <1>w DEF EnqueuePush
<1>4. CASE FlushAck
  BY <1>4, <1>w DEF FlushAck
<1>5. ASSUME UNCHANGED <<ring, disk, persistFails>>, pc = "down" <=> pc' = "down"
      PROVE  PendingIsDurable'
  BY <1>5 DEF DurableInv, PendingIsDurable, Up
<1>6. ASSUME NEW p \in Producers, EnqueueTest(p) \/ EnqueueSignal(p) PROVE PendingIsDurable'
  BY <1>5, <1>6 DEF EnqueueTest, EnqueueSignal, ringVars, bounds
<1>7. CASE Cancel \/ TimerFires \/ SelectDone \/ SelectTimer \/ SelectWake
  BY <1>5, <1>7 DEF Cancel, TimerFires, SelectDone, SelectTimer, SelectWake, ringVars, bounds
<1>8. CASE FlushPeek \/ PostTaken \/ PostSucceeds \/ PostUnauthorized \/ PostFails
  BY <1>5, <1>8 DEF FlushPeek, PostTaken, PostSucceeds, PostUnauthorized, PostFails,
                    ringVars, bounds
<1>9. CASE FlushReturns
  BY <1>5, <1>9 DEF FlushReturns, ringVars, bounds
<1>10. CASE UNCHANGED vars
  BY <1>5, <1>10 DEF vars, ringVars, bounds
<1>11. QED
  BY <1>1, <1>2, <1>3, <1>4, <1>6, <1>7, <1>8, <1>9, <1>10 DEF Next, Run, Flush, Enqueue

(* Nothing pending is only in memory while the writes of the file succeed. *)
THEOREM PendingIsOnDisk == Spec => []PendingIsDurable
<1>1. Init => DurableInv
  BY InitType DEF Init, DurableInv, PendingIsDurable, Up
<1>2. DurableInv => PendingIsDurable
  BY DEF DurableInv
<1>3. QED
  BY <1>1, <1>2, DurableStep, PTL DEF Spec

-----------------------------------------------------------------------------
(* Where events can be.  Every copy of an event is one that was pushed,    *)
(* and a process that is not there has no batch in flight.                 *)
KnownInv ==
  /\ TypeOK
  /\ Held(ring) \subseteq 1 .. pushed /\ Held(disk) \subseteq 1 .. pushed
  /\ Range(batch) \subseteq 1 .. pushed /\ accepted \subseteq 1 .. pushed
  /\ ~Up => batch = << >>

(* What the loop copies out of the ring, and what a post sends of that.    *)
LEMMA PeekedAreHeld ==
  ASSUME TypeOK, FlushPeek
  PROVE  Range(batch') \subseteq Held(ring)
<1>s. PICK S : S = 1 .. MaxEvents
  OBVIOUS
<1>1. /\ ring \in RingOf(S) /\ MaxSize \in Nat /\ batch' = Peek(ring, MaxSize)
      /\ Len(ring.events) \in Nat
  BY <1>s, BatcherAssumption, RingTypeIs, LenProperties DEF TypeOK, FlushPeek, RingOf
<1>2. /\ batch' \in Seq(S) /\ Len(batch') = Least(MaxSize, Len(ring.events))
      /\ \A i \in 1 .. Len(batch') : batch'[i] = ring.events[i]
  BY <1>1, PeekFacts
<1>3. Range(batch') = {batch'[i] : i \in 1 .. Len(batch')}
  BY <1>2, LenProperties DEF Range
<1>4. \A i \in 1 .. Len(batch') : i \in 1 .. Len(ring.events)
  BY <1>1, <1>2 DEF Least
<1>5. Held(ring) = {ring.events[i] : i \in 1 .. Len(ring.events)}
  BY <1>1, HeldPositions
<1>6. QED
  BY <1>2, <1>3, <1>4, <1>5

(* What the server takes of a batch is a front of it.                      *)
LEMMA TakenAreInBatch ==
  ASSUME TypeOK, PostTaken
  PROVE  /\ sent' \in 0 .. Len(batch) /\ Len(batch) \in Nat
         /\ Range(batch) = {batch[i] : i \in 1 .. Len(batch)}
         /\ accepted' = accepted \cup {batch[i] : i \in 1 .. sent'}
         /\ accepted' \subseteq accepted \cup Range(batch)
<1>1. batch \in Seq(1 .. MaxEvents)
  BY DEF TypeOK
<1>2. /\ Len(batch) \in Nat /\ DOMAIN batch = 1 .. Len(batch)
  BY <1>1, LenProperties
<1>3. Range(batch) = {batch[i] : i \in 1 .. Len(batch)}
  BY <1>2 DEF Range
<1>4. sent' \in 0 .. Len(batch)
  BY <1>2 DEF TypeOK, PostTaken
<1>5. accepted' = accepted \cup {batch[i] : i \in 1 .. sent'}
  BY DEF PostTaken
<1>6. \A i \in 1 .. sent' : i \in 1 .. Len(batch)
  BY <1>2, <1>4
<1>7. QED
  BY <1>2, <1>3, <1>4, <1>5, <1>6

(* What the ring holds after each step that changes it.                    *)
LEMMA StartHolds ==
  ASSUME TypeOK, Start
  PROVE  Held(ring') \subseteq Held(disk) /\ ring'.dropped >= disk.dropped
<1>s. PICK S : S = 1 .. MaxEvents
  OBVIOUS
<1>1. PICK c \in Capacities : ring' = Load(disk, c)
  BY DEF Start
<1>2. /\ disk \in RingOf(S) /\ c \in Nat
  BY <1>s, <1>1, BatcherAssumption, RingTypeIs DEF TypeOK
<1>3. disk.events \in Seq(S) /\ disk.dropped \in Nat /\ Len(disk.events) \in Nat
  BY <1>2, LenProperties DEF RingOf
<1>4. PICK k : k = IF Len(disk.events) > c THEN Len(disk.events) - c ELSE 0
  OBVIOUS
<1>5. k \in 0 .. Len(disk.events)
  BY <1>2, <1>3, <1>4
<1>6. /\ Load(disk, c) \in RingOf(S) /\ Load(disk, c).dropped = disk.dropped + k
      /\ Len(Load(disk, c).events) = Len(disk.events) - k
      /\ \A i \in 1 .. Len(disk.events) - k : Load(disk, c).events[i] = disk.events[k + i]
  BY <1>2, <1>4, LoadFacts
<1>7. Held(Load(disk, c)) \subseteq Held(disk)
  BY <1>2, <1>5, <1>6, CutKeeps
<1>8. QED
  BY <1>1, <1>3, <1>5, <1>6, <1>7

(* A push adds the new event and no other.                                 *)
LEMMA PushHolds ==
  ASSUME TypeOK, NEW p \in Producers, EnqueuePush(p)
  PROVE  /\ Held(ring') \subseteq Held(ring) \cup {pushed + 1}
         /\ ring'.dropped >= ring.dropped
<1>s. PICK S : S = 1 .. MaxEvents
  OBVIOUS
<1>1. PICK k : k = ring'.dropped - ring.dropped
  OBVIOUS
<1>2. /\ ring \in RingOf(S) /\ capacity \in Nat \ {0} /\ pushed + 1 \in S
      /\ ring' = Push(ring, capacity, pushed + 1)
  BY <1>s, BatcherAssumption, RingTypeIs DEF TypeOK, EnqueuePush
<1>3. /\ k \in {0, 1}
      /\ Held(ring') \subseteq Held(ring) \cup {pushed + 1}
  BY <1>1, <1>2, PushKeeps
<1>4. ring.dropped \in Nat /\ ring'.dropped \in Nat
  BY <1>2, PushFacts DEF RingOf
<1>5. QED
  BY <1>1, <1>3, <1>4

(* An acknowledgement adds none.                                           *)
LEMMA AckHolds ==
  ASSUME TypeOK, FlushAck
  PROVE  Held(ring') \subseteq Held(ring) /\ ring'.dropped = ring.dropped
<1>s. PICK S : S = 1 .. MaxEvents
  OBVIOUS
<1>1. /\ ring \in RingOf(S) /\ batch \in Seq(S) /\ ring' = Ack(ring, Len(batch))
  BY <1>s, RingTypeIs DEF TypeOK, FlushAck
<1>2. Len(ring.events) \in Nat /\ Len(batch) \in Nat
  BY <1>1, LenProperties DEF RingOf
<1>3. PICK k : k = Least(Len(batch), Len(ring.events))
  OBVIOUS
<1>4. k \in 0 .. Len(ring.events)
  BY <1>2, <1>3 DEF Least
<1>5. /\ ring' \in RingOf(S) /\ ring'.dropped = ring.dropped
      /\ Len(ring'.events) = Len(ring.events) - k
      /\ \A i \in 1 .. Len(ring.events) - k : ring'.events[i] = ring.events[k + i]
  BY <1>1, <1>2, <1>3, AckFacts
<1>6. QED
  BY <1>1, <1>4, <1>5, CutKeeps

(* A write of the file leaves in it what it held, or what the ring holds.  *)
LEMMA PersistHolds ==
  ASSUME NEW ok \in BOOLEAN, PersistLocked(ok)
  PROVE  /\ disk' = ring' \/ disk' = disk
         /\ Held(disk') \subseteq Held(disk) \cup Held(ring')
BY DEF PersistLocked

(* So no step holds or posts an event that was not enqueued.               *)
LEMMA KnownStep == KnownInv /\ [Next]_vars => KnownInv'
<1> SUFFICES ASSUME KnownInv, [Next]_vars PROVE KnownInv'
  OBVIOUS
<1>t. TypeOK /\ TypeOK' /\ pushed \in Nat
  <2>1. TypeOK
    BY DEF KnownInv
  <2>2. TypeOK'
    BY <2>1, TypeStep
  <2>3. pushed \in 0 .. MaxEvents
    BY <2>1 DEF TypeOK
  <2>4. QED
    BY <2>1, <2>2, <2>3
<1> SUFFICES /\ Held(ring') \subseteq 1 .. pushed' /\ Held(disk') \subseteq 1 .. pushed'
             /\ Range(batch') \subseteq 1 .. pushed' /\ accepted' \subseteq 1 .. pushed'
             /\ ~Up' => batch' = << >>
  BY <1>t DEF KnownInv
<1> USE DEF Up
<1>e. Range(<< >>) = {} /\ Held(EmptyRing) = {}
  BY DEF Range, Held, EmptyRing
<1>1. CASE Start
  BY <1>1, <1>t, StartHolds DEF Start, KnownInv, flushVars
<1>2. CASE Cancel
  BY <1>2 DEF Cancel, KnownInv, ringVars, flushVars, history
<1>3. CASE ProcessEnds
  BY <1>3, <1>e DEF ProcessEnds, KnownInv, history
<1>4. ASSUME NEW p \in Producers, EnqueuePush(p)
      PROVE  /\ Held(ring') \subseteq 1 .. pushed' /\ Held(disk') \subseteq 1 .. pushed'
             /\ Range(batch') \subseteq 1 .. pushed' /\ accepted' \subseteq 1 .. pushed'
             /\ ~Up' => batch' = << >>
  <2>1. /\ Held(ring') \subseteq Held(ring) \cup {pushed + 1}
        /\ Held(disk') \subseteq Held(disk) \cup Held(ring')
    BY <1>4, <1>t, PushHolds, PersistHolds DEF EnqueuePush
  <2>2. /\ pushed' = pushed + 1 /\ batch' = batch /\ accepted' = accepted /\ pc' = pc
    BY <1>4 DEF EnqueuePush, flushVars
  <2>3. 1 .. pushed' = (1 .. pushed) \cup {pushed + 1}
    BY <1>t, <2>2
  <2>4. QED
    BY <2>1, <2>2, <2>3 DEF KnownInv
<1>5. ASSUME NEW p \in Producers, EnqueueTest(p) \/ EnqueueSignal(p)
      PROVE  /\ Held(ring') \subseteq 1 .. pushed' /\ Held(disk') \subseteq 1 .. pushed'
             /\ Range(batch') \subseteq 1 .. pushed' /\ accepted' \subseteq 1 .. pushed'
             /\ ~Up' => batch' = << >>
  BY <1>5 DEF EnqueueTest, EnqueueSignal, KnownInv, ringVars, flushVars, history
<1>6. CASE TimerFires \/ SelectDone \/ SelectTimer \/ SelectWake
  BY <1>6 DEF TimerFires, SelectDone, SelectTimer, SelectWake, KnownInv, ringVars, flushVars, history
<1>7. CASE FlushPeek
  <2>1. /\ ring' = ring /\ disk' = disk /\ pushed' = pushed /\ accepted' = accepted
        /\ pc' # "down"
    BY <1>7 DEF FlushPeek, ringVars, history
  <2>2. QED
    BY <1>7, <1>t, <2>1, PeekedAreHeld DEF KnownInv
<1>8. CASE PostTaken
  <2>1. /\ ring' = ring /\ disk' = disk /\ pushed' = pushed /\ batch' = batch
        /\ pc' = "post"
    BY <1>8 DEF PostTaken, ringVars
  <2>2. QED
    BY <1>8, <1>t, <2>1, TakenAreInBatch DEF KnownInv
<1>9. CASE PostSucceeds \/ PostUnauthorized \/ PostFails
  BY <1>9 DEF PostSucceeds, PostUnauthorized, PostFails, KnownInv, ringVars, flushVars, history
<1>10. CASE FlushAck
  <2>1. Held(ring') \subseteq Held(ring) /\ Held(disk') \subseteq Held(disk) \cup Held(ring')
    BY <1>10, <1>t, AckHolds, PersistHolds DEF FlushAck
  <2>2. /\ pushed' = pushed /\ batch' = batch /\ accepted' = accepted /\ pc' # "down"
    BY <1>10 DEF FlushAck, history
  <2>3. QED
    BY <2>1, <2>2 DEF KnownInv
<1>11. CASE FlushReturns
  BY <1>11, <1>e DEF FlushReturns, KnownInv, ringVars, history
<1>12. CASE UNCHANGED vars
  BY <1>12 DEF vars, KnownInv, ringVars, flushVars, history
<1>13. QED
  BY <1>1, <1>2, <1>3, <1>4, <1>5, <1>6, <1>7, <1>8, <1>9, <1>10, <1>11, <1>12
     DEF Next, Run, Flush, Enqueue

(* None is held at the start.                                              *)
LEMMA InitKnown == Init => KnownInv
<1> SUFFICES ASSUME Init PROVE KnownInv
  OBVIOUS
<1>1. Range(<< >>) = {} /\ Held(EmptyRing) = {}
  BY DEF Range, Held, EmptyRing
<1>2. QED
  BY <1>1, InitType DEF Init, KnownInv, Up

-----------------------------------------------------------------------------
(* Order.  Every copy of the queue is in the order of the pushes; what the *)
(* ring holds beyond a batch in flight is newer than the batch; and while  *)
(* every write of the file has succeeded, the file holds what the ring     *)
(* does and what a start cut off, and all that is still to be taken, cut   *)
(* off events aside, is newer than all that has been taken.                *)
Increasing(s) == \A i, j \in 1 .. Len(s) : i < j => s[i] < s[j]

QueuesInOrder == Increasing(ring.events) /\ Increasing(disk.events) /\ Increasing(batch)
RestIsNewer ==
  pc \in {"post", "ack"} =>
    \A e \in Held(ring) : e \in Range(batch) \/ \A b \in Range(batch) : b < e
FileFollows == persistFails = 0 /\ Up => Held(disk) \subseteq Held(ring) \cup cutOff
TakenAreOldest ==
  persistFails = 0 =>
    \A e \in Held(ring) \cup Held(disk) \cup Range(batch) :
      e \in accepted \cup cutOff \/ \A d \in accepted : d < e

OrderParts == QueuesInOrder /\ RestIsNewer /\ FileFollows /\ TakenAreOldest
OrderInv == KnownInv /\ OrderParts

(* Pushing an event newer than all the ring holds keeps the ring in order. *)
LEMMA PushIncreases ==
  ASSUME NEW S, S \subseteq Int, NEW r \in RingOf(S), NEW cap \in Nat \ {0}, NEW e \in S,
         Increasing(r.events), \A x \in Held(r) : x < e
  PROVE  Increasing(Push(r, cap, e).events)
<1>n. PICK n : n = Len(r.events)
  OBVIOUS
<1>q. PICK q : q = Push(r, cap, e).events
  OBVIOUS
<1>1. n \in Nat /\ Held(r) = {r.events[i] : i \in 1 .. n}
  BY <1>n, HeldPositions, LenProperties DEF RingOf
<1>2. \A i \in 1 .. n : r.events[i] < e
  BY <1>1
<1>3. \A i, j \in 1 .. n : i < j => r.events[i] < r.events[j]
  BY <1>n DEF Increasing
<1>4. CASE n < cap
  <2>1. /\ Len(q) = n + 1 /\ q[n + 1] = e
        /\ \A i \in 1 .. n : q[i] = r.events[i]
    BY <1>n, <1>q, <1>4, PushFacts
  <2>2. ASSUME NEW i \in 1 .. n + 1, NEW j \in 1 .. n + 1, i < j PROVE q[i] < q[j]
    <3>1. i \in 1 .. n /\ (j \in 1 .. n \/ j = n + 1)
      BY <1>1, <2>2
    <3>2. QED
      BY <1>2, <1>3, <2>1, <2>2, <3>1
  <2>3. QED
    BY <1>q, <2>1, <2>2 DEF Increasing
<1>5. CASE n >= cap
  <2>1. /\ Len(q) = n /\ q[n] = e
        /\ \A i \in 1 .. n - 1 : q[i] = r.events[i + 1]
    BY <1>n, <1>q, <1>5, PushFacts
  <2>2. ASSUME NEW i \in 1 .. n, NEW j \in 1 .. n, i < j PROVE q[i] < q[j]
    <3>1. i \in 1 .. n - 1 /\ i + 1 \in 1 .. n /\ (j \in 1 .. n - 1 \/ j = n)
      BY <1>1, <2>2
    <3>2. CASE j = n
      BY <1>2, <2>1, <3>1, <3>2
    <3>3. CASE j \in 1 .. n - 1
      <4>1. j + 1 \in 1 .. n /\ i + 1 < j + 1
        BY <1>1, <2>2, <3>3
      <4>2. QED
        BY <1>3, <2>1, <3>1, <3>3, <4>1
    <3>4. QED
      BY <3>1, <3>2, <3>3
  <2>3. QED
    BY <1>q, <2>1, <2>2 DEF Increasing
<1>6. QED
  BY <1>1, <1>4, <1>5

(* So does cutting its front off, for Ack and Load.                        *)
LEMMA CutIncreases ==
  ASSUME NEW s, NEW q, NEW n \in Nat, NEW k \in 0 .. n, n = Len(s), Increasing(s),
         Len(q) = n - k, \A i \in 1 .. n - k : q[i] = s[k + i]
  PROVE  Increasing(q)
<1>1. ASSUME NEW i \in 1 .. n - k, NEW j \in 1 .. n - k, i < j PROVE q[i] < q[j]
  <2>1. k + i \in 1 .. n /\ k + j \in 1 .. n /\ k + i < k + j
    BY <1>1
  <2>2. s[k + i] < s[k + j]
    BY <2>1 DEF Increasing
  <2>3. QED
    BY <2>2
<1>2. QED
  BY <1>1 DEF Increasing

(* A start takes the file's newest events and leaves the file as it is.    *)
LEMMA StartOrder == ASSUME OrderInv, Start PROVE OrderParts'
<1>t. TypeOK
  BY DEF OrderInv, KnownInv
<1>1. /\ pc = "down" /\ pc' = "select" /\ disk' = disk /\ batch' = batch
      /\ accepted' = accepted /\ persistFails' = persistFails
      /\ cutOff' = cutOff \cup (Held(disk) \ Held(ring'))
  BY DEF Start, flushVars
<1>2. Held(ring') \subseteq Held(disk)
  BY <1>t, StartHolds
<1>3. Increasing(ring'.events)
  <2>s. PICK S : S = 1 .. MaxEvents
    OBVIOUS
  <2>1. PICK c \in Capacities : ring' = Load(disk, c)
    BY DEF Start
  <2>2. disk \in RingOf(S) /\ c \in Nat /\ Len(disk.events) \in Nat
    BY <1>t, <2>s, <2>1, BatcherAssumption, RingTypeIs, LenProperties DEF TypeOK, RingOf
  <2>3. PICK k : k = IF Len(disk.events) > c THEN Len(disk.events) - c ELSE 0
    OBVIOUS
  <2>4. k \in 0 .. Len(disk.events)
    BY <2>2, <2>3
  <2>5. /\ Len(ring'.events) = Len(disk.events) - k
        /\ \A i \in 1 .. Len(disk.events) - k : ring'.events[i] = disk.events[k + i]
    BY <2>1, <2>2, <2>3, LoadFacts
  <2>6. Increasing(disk.events)
    BY DEF OrderInv, OrderParts, QueuesInOrder
  <2>7. QED
    BY <2>2, <2>4, <2>5, <2>6, CutIncreases
<1>4. QueuesInOrder'
  BY <1>1, <1>3 DEF OrderInv, OrderParts, QueuesInOrder, Increasing
<1>5. RestIsNewer'
  BY <1>1 DEF RestIsNewer
<1>6. FileFollows'
  BY <1>1 DEF FileFollows
<1>7. TakenAreOldest'
  BY <1>1, <1>2 DEF OrderInv, OrderParts, TakenAreOldest
<1>8. QED
  BY <1>4, <1>5, <1>6, <1>7 DEF OrderParts

(* What writing the file after a change of the ring does to the order.     *)
LEMMA PersistOrder ==
  ASSUME OrderInv, TypeOK', NEW ok \in BOOLEAN, PersistLocked(ok), Up,
         Increasing(ring'.events), batch' = batch, accepted' = accepted, cutOff' = cutOff,
         persistFails = 0 =>
           \A e \in Held(ring') :
             e \in accepted \cup cutOff \/ \A d \in accepted : d < e
  PROVE  QueuesInOrder' /\ FileFollows' /\ TakenAreOldest'
<1>1. \/ disk' = ring' /\ persistFails' = persistFails
      \/ disk' = disk /\ persistFails' = persistFails + 1
  BY DEF PersistLocked
<1>2. persistFails \in Nat
  BY BatcherAssumption DEF OrderInv, KnownInv, TypeOK
<1>3. QueuesInOrder'
  BY <1>1 DEF OrderInv, OrderParts, QueuesInOrder, Increasing
<1>4. FileFollows'
  BY <1>1, <1>2 DEF FileFollows
<1>5. TakenAreOldest'
  BY <1>1, <1>2 DEF OrderInv, OrderParts, TakenAreOldest
<1>6. QED
  BY <1>3, <1>4, <1>5

(* A pushed event is newer than all events there are.                      *)
LEMMA PushOrder ==
  ASSUME OrderInv, TypeOK', NEW p \in Producers, EnqueuePush(p)
  PROVE  OrderParts'
<1>s. PICK S : S = 1 .. MaxEvents
  OBVIOUS
<1>t. /\ TypeOK /\ ring \in RingOf(S) /\ S \subseteq Int /\ pushed \in Nat
      /\ capacity \in Nat \ {0} /\ pushed + 1 \in S
  <2>1. TypeOK /\ ring \in RingOf(S) /\ capacity \in Nat \ {0}
    BY <1>s, BatcherAssumption, RingTypeIs DEF OrderInv, KnownInv, TypeOK
  <2>2. pushed \in 0 .. MaxEvents /\ pushed < MaxEvents /\ MaxEvents \in Nat
    BY <2>1, BatcherAssumption DEF TypeOK, EnqueuePush
  <2>3. QED
    BY <1>s, <2>1, <2>2
<1>1. /\ Up /\ ring' = Push(ring, capacity, pushed + 1) /\ pc' = pc
      /\ batch' = batch /\ accepted' = accepted /\ cutOff' = cutOff
  BY DEF EnqueuePush, flushVars
<1>2. /\ Held(ring) \subseteq 1 .. pushed /\ accepted \subseteq 1 .. pushed
      /\ Range(batch) \subseteq 1 .. pushed
  BY DEF OrderInv, KnownInv
<1>3. \A x \in 1 .. pushed : x < pushed + 1
  BY <1>t
<1>4. Increasing(ring'.events)
  <2>1. Increasing(ring.events)
    BY DEF OrderInv, OrderParts, QueuesInOrder
  <2>2. \A x \in Held(ring) : x < pushed + 1
    BY <1>2, <1>3
  <2>3. QED
    BY <1>t, <1>1, <2>1, <2>2, PushIncreases
<1>5. Held(ring') \subseteq Held(ring) \cup {pushed + 1}
  BY <1>t, PushHolds
<1>6. persistFails = 0 =>
        \A e \in Held(ring') : e \in accepted \cup cutOff \/ \A d \in accepted : d < e
  BY <1>2, <1>3, <1>5 DEF OrderInv, OrderParts, TakenAreOldest
<1>7. QueuesInOrder' /\ FileFollows' /\ TakenAreOldest'
  <2>1. PICK ok \in BOOLEAN : PersistLocked(ok)
    BY DEF EnqueuePush
  <2>2. QED
    BY <1>1, <1>4, <1>6, <2>1, PersistOrder
<1>8. RestIsNewer'
  BY <1>1, <1>2, <1>3, <1>5 DEF OrderInv, OrderParts, RestIsNewer
<1>9. QED
  BY <1>7, <1>8 DEF OrderParts

(* Ack takes from the front of the ring.                                   *)
LEMMA AckOrder == ASSUME OrderInv, TypeOK', FlushAck PROVE OrderParts'
<1>s. PICK S : S = 1 .. MaxEvents
  OBVIOUS
<1>t. /\ TypeOK /\ ring \in RingOf(S) /\ batch \in Seq(S)
  BY <1>s, RingTypeIs DEF OrderInv, KnownInv, TypeOK
<1>1. /\ Up /\ ring' = Ack(ring, Len(batch)) /\ pc' = "finish"
      /\ batch' = batch /\ accepted' = accepted /\ cutOff' = cutOff
  BY DEF FlushAck, Up, history
<1>2. Increasing(ring'.events)
  <2>1. Len(ring.events) \in Nat /\ Len(batch) \in Nat
    BY <1>t, LenProperties DEF RingOf
  <2>2. PICK k : k = Least(Len(batch), Len(ring.events))
    OBVIOUS
  <2>3. k \in 0 .. Len(ring.events)
    BY <2>1, <2>2 DEF Least
  <2>4. /\ Len(ring'.events) = Len(ring.events) - k
        /\ \A i \in 1 .. Len(ring.events) - k : ring'.events[i] = ring.events[k + i]
    BY <1>t, <1>1, <2>1, <2>2, AckFacts
  <2>5. Increasing(ring.events)
    BY DEF OrderInv, OrderParts, QueuesInOrder
  <2>6. QED
    BY <2>1, <2>3, <2>4, <2>5, CutIncreases
<1>3. Held(ring') \subseteq Held(ring)
  BY <1>t, AckHolds
<1>4. persistFails = 0 =>
        \A e \in Held(ring') : e \in accepted \cup cutOff \/ \A d \in accepted : d < e
  BY <1>3 DEF OrderInv, OrderParts, TakenAreOldest
<1>5. QueuesInOrder' /\ FileFollows' /\ TakenAreOldest'
  <2>1. PICK ok \in BOOLEAN : PersistLocked(ok)
    BY DEF FlushAck
  <2>2. QED
    BY <1>1, <1>2, <1>4, <2>1, PersistOrder
<1>6. RestIsNewer'
  BY <1>1 DEF RestIsNewer
<1>7. QED
  BY <1>5, <1>6 DEF OrderParts

(* Peek takes the front: what stays behind it is newer.                    *)
LEMMA PeekOrder == ASSUME OrderInv, FlushPeek PROVE OrderParts'
<1>s. PICK S : S = 1 .. MaxEvents
  OBVIOUS
<1>t. /\ TypeOK /\ ring \in RingOf(S) /\ MaxSize \in Nat /\ Len(ring.events) \in Nat
  BY <1>s, BatcherAssumption, RingTypeIs, LenProperties DEF OrderInv, KnownInv, TypeOK, RingOf
<1>1. /\ ring' = ring /\ disk' = disk /\ accepted' = accepted /\ cutOff' = cutOff
      /\ persistFails' = persistFails /\ batch' = Peek(ring, MaxSize) /\ Up
  BY DEF FlushPeek, Up, ringVars, history, bounds
<1>k. PICK k : k = Least(MaxSize, Len(ring.events))
  OBVIOUS
<1>2. /\ batch' \in Seq(S) /\ Len(batch') = k
      /\ \A i \in 1 .. k : batch'[i] = ring.events[i]
      /\ k \in 0 .. Len(ring.events)
  BY <1>t, <1>1, <1>k, PeekFacts DEF Least
<1>3. \A i, j \in 1 .. Len(ring.events) : i < j => ring.events[i] < ring.events[j]
  BY DEF OrderInv, OrderParts, QueuesInOrder, Increasing
<1>4. \A i \in 1 .. k : i \in 1 .. Len(ring.events)
  BY <1>t, <1>2
<1>5. QueuesInOrder'
  <2>1. Increasing(batch')
    BY <1>2, <1>3, <1>4 DEF Increasing
  <2>2. QED
    BY <1>1, <2>1 DEF OrderInv, OrderParts, QueuesInOrder
<1>6. /\ Held(ring) = {ring.events[i] : i \in 1 .. Len(ring.events)}
      /\ Range(batch') = {ring.events[i] : i \in 1 .. k}
  <2>1. Range(batch') = {batch'[i] : i \in 1 .. k}
    BY <1>2, LenProperties DEF Range
  <2>2. QED
    BY <1>t, <1>2, <2>1, HeldPositions
<1>7. ASSUME NEW j \in 1 .. Len(ring.events)
      PROVE  ring.events[j] \in Range(batch') \/ \A i \in 1 .. k : ring.events[i] < ring.events[j]
  <2>1. j \in 1 .. k \/ \A i \in 1 .. k : i < j
    BY <1>t, <1>2
  <2>2. QED
    BY <1>3, <1>4, <1>6, <2>1
<1>8. RestIsNewer'
  BY <1>1, <1>6, <1>7 DEF RestIsNewer
<1>9. FileFollows'
  BY <1>1 DEF OrderInv, OrderParts, FileFollows
<1>10. TakenAreOldest'
  BY <1>t, <1>1, PeekedAreHeld DEF OrderInv, OrderParts, TakenAreOldest
<1>11. QED
  BY <1>5, <1>8, <1>9, <1>10 DEF OrderParts

(* What the API takes of a batch is its front, and that is older than the  *)
(* rest of the batch, of the ring and of the file.                         *)
LEMMA TakenOrder == ASSUME OrderInv, PostTaken PROVE OrderParts'
<1>t. TypeOK
  BY DEF OrderInv, KnownInv
<1>1. /\ pc = "post" /\ pc' = pc /\ ring' = ring /\ disk' = disk /\ batch' = batch
      /\ cutOff' = cutOff /\ persistFails' = persistFails
  BY DEF PostTaken, ringVars, bounds
<1>2. /\ sent' \in 0 .. Len(batch) /\ Len(batch) \in Nat
      /\ Range(batch) = {batch[i] : i \in 1 .. Len(batch)}
      /\ accepted' = accepted \cup {batch[i] : i \in 1 .. sent'}
  BY <1>t, TakenAreInBatch
<1>3. ASSUME NEW e \in Range(batch)
      PROVE  e \in accepted' \/ \A i \in 1 .. sent' : batch[i] < e
  <2>1. PICK j \in 1 .. Len(batch) : e = batch[j]
    BY <1>2
  <2>2. j \in 1 .. sent' \/ \A i \in 1 .. sent' : i < j /\ i \in 1 .. Len(batch)
    BY <1>2
  <2>3. \A i \in 1 .. Len(batch) : i < j => batch[i] < batch[j]
    BY DEF OrderInv, OrderParts, QueuesInOrder, Increasing
  <2>4. QED
    BY <1>2, <2>1, <2>2, <2>3
<1>4. \A i \in 1 .. sent' : batch[i] \in Range(batch)
  BY <1>2
<1>5. ASSUME NEW e \in Held(ring)
      PROVE  e \in accepted' \/ \A i \in 1 .. sent' : batch[i] < e
  <2>1. e \in Range(batch) \/ \A b \in Range(batch) : b < e
    BY <1>1 DEF OrderInv, OrderParts, RestIsNewer
  <2>2. QED
    BY <1>3, <1>4, <2>1
<1>6. persistFails = 0 => Held(disk) \subseteq Held(ring) \cup cutOff
  BY <1>1 DEF OrderInv, OrderParts, FileFollows, Up
<1>7. TakenAreOldest'
  <2>1. SUFFICES ASSUME persistFails = 0,
                        NEW e \in Held(ring) \cup Held(disk) \cup Range(batch),
                        e \notin accepted' \cup cutOff,
                        NEW d \in accepted'
                 PROVE  d < e
    BY <1>1 DEF TakenAreOldest
  <2>2. e \in Held(ring) \cup Range(batch)
    BY <1>6, <2>1
  <2>3. d \in accepted => d < e
    BY <1>2, <2>1 DEF OrderInv, OrderParts, TakenAreOldest
  <2>4. \A i \in 1 .. sent' : batch[i] < e
    BY <1>3, <1>5, <2>1, <2>2
  <2>5. QED
    BY <1>2, <2>3, <2>4
<1>8. QueuesInOrder' /\ RestIsNewer' /\ FileFollows'
  BY <1>1 DEF OrderInv, OrderParts, QueuesInOrder, RestIsNewer, FileFollows, Up
<1>9. QED
  BY <1>7, <1>8 DEF OrderParts

(* The steps that touch no copy of the queue.                              *)
LEMMA QuietOrder ==
  ASSUME OrderInv, UNCHANGED <<ring, disk, batch, accepted, cutOff, persistFails>>,
         pc = "down" <=> pc' = "down",
         pc' \in {"post", "ack"} => pc \in {"post", "ack"}
  PROVE  OrderParts'
<1>1. QueuesInOrder'
  BY DEF OrderInv, OrderParts, QueuesInOrder
<1>2. RestIsNewer' /\ FileFollows' /\ TakenAreOldest'
  BY DEF OrderInv, OrderParts, RestIsNewer, FileFollows, TakenAreOldest, Up
<1>3. QED
  BY <1>1, <1>2 DEF OrderParts

(* An empty queue is in order.                                             *)
LEMMA EmptyIncreases == Increasing(<< >>) /\ Range(<< >>) = {} /\ Held(EmptyRing) = {}
BY DEF Increasing, Range, Held, EmptyRing

(* Every step keeps the queues in order and what is posted behind them.    *)
LEMMA OrderStep == OrderInv /\ [Next]_vars => OrderInv'
<1> SUFFICES ASSUME OrderInv, [Next]_vars PROVE OrderInv'
  OBVIOUS
<1>t. KnownInv' /\ TypeOK'
  BY KnownStep DEF OrderInv, KnownInv
<1> SUFFICES OrderParts'
  BY <1>t DEF OrderInv
<1>1. CASE Start
  BY <1>1, StartOrder
<1>2. CASE Cancel
  BY <1>2, QuietOrder DEF Cancel, ringVars, flushVars, history, bounds
<1>3. CASE ProcessEnds
  <2>1. /\ ring' = EmptyRing /\ batch' = << >> /\ disk' = disk /\ pc' = "down"
        /\ accepted' = accepted /\ cutOff' = cutOff /\ persistFails' = persistFails
    BY <1>3 DEF ProcessEnds, history, bounds
  <2>2. QueuesInOrder'
    BY <2>1, EmptyIncreases DEF OrderInv, OrderParts, QueuesInOrder, EmptyRing
  <2>3. RestIsNewer' /\ FileFollows'
    BY <2>1 DEF RestIsNewer, FileFollows, Up
  <2>4. TakenAreOldest'
    BY <2>1, EmptyIncreases DEF OrderInv, OrderParts, TakenAreOldest
  <2>5. QED
    BY <2>2, <2>3, <2>4 DEF OrderParts
<1>4. ASSUME NEW p \in Producers, EnqueuePush(p) PROVE OrderParts'
  BY <1>4, <1>t, PushOrder
<1>5. ASSUME NEW p \in Producers, EnqueueTest(p) PROVE OrderParts'
  BY <1>5, QuietOrder DEF EnqueueTest, ringVars, flushVars, history, bounds
<1>6. ASSUME NEW p \in Producers, EnqueueSignal(p) PROVE OrderParts'
  BY <1>6, QuietOrder DEF EnqueueSignal, ringVars, flushVars, history, bounds
<1>7. CASE TimerFires
  BY <1>7, QuietOrder DEF TimerFires, ringVars, flushVars, history, bounds
<1>8. CASE SelectDone
  BY <1>8, QuietOrder DEF SelectDone, ringVars, history, bounds
<1>9. CASE SelectTimer
  BY <1>9, QuietOrder DEF SelectTimer, ringVars, flushVars, history, bounds
<1>10. CASE SelectWake
  BY <1>10, QuietOrder DEF SelectWake, ringVars, flushVars, history, bounds
<1>11. CASE FlushPeek
  BY <1>11, PeekOrder
<1>12. CASE PostTaken
  BY <1>12, TakenOrder
<1>13. CASE PostSucceeds
  BY <1>13, QuietOrder DEF PostSucceeds, ringVars, flushVars, history, bounds
<1>14. CASE PostUnauthorized
  BY <1>14, QuietOrder DEF PostUnauthorized, ringVars, history
<1>15. CASE PostFails
  BY <1>15, QuietOrder DEF PostFails, ringVars, history
<1>16. CASE FlushAck
  BY <1>16, <1>t, AckOrder
<1>17. CASE FlushReturns
  <2>1. /\ ring' = ring /\ disk' = disk /\ batch' = << >> /\ accepted' = accepted
        /\ cutOff' = cutOff /\ persistFails' = persistFails
        /\ pc = "finish" /\ pc' \in {"exited", "select"}
    BY <1>17 DEF FlushReturns, ringVars, history, bounds
  <2>2. QueuesInOrder'
    BY <2>1, EmptyIncreases DEF OrderInv, OrderParts, QueuesInOrder
  <2>3. RestIsNewer' /\ FileFollows' /\ TakenAreOldest'
    BY <2>1, EmptyIncreases
       DEF OrderInv, OrderParts, RestIsNewer, FileFollows, TakenAreOldest, Up
  <2>4. QED
    BY <2>2, <2>3 DEF OrderParts
<1>18. CASE UNCHANGED vars
  BY <1>18, QuietOrder DEF vars, ringVars, flushVars, history, bounds
<1>19. QED
  BY <1>1, <1>2, <1>3, <1>4, <1>5, <1>6, <1>7, <1>8, <1>9, <1>10, <1>11, <1>12,
     <1>13, <1>14, <1>15, <1>16, <1>17, <1>18 DEF Next, Run, Flush, Enqueue

(* They are empty at the start.                                            *)
LEMMA InitOrder == Init => OrderInv
<1> SUFFICES ASSUME Init PROVE OrderInv
  OBVIOUS
<1>1. QueuesInOrder
  BY EmptyIncreases DEF Init, QueuesInOrder, EmptyRing
<1>2. RestIsNewer /\ FileFollows /\ TakenAreOldest
  BY EmptyIncreases DEF Init, RestIsNewer, FileFollows, TakenAreOldest, Up
<1>3. QED
  BY <1>1, <1>2, InitKnown DEF OrderInv, OrderParts

(* While every write of the file has succeeded, the API first sees the     *)
(* events in the order they were pushed, through overwrites, retries,      *)
(* partial posts, crashes and restarts with any capacities; only an event  *)
(* that a start had no room for can come after a newer one.                *)
THEOREM DeliveriesAreInOrder == Spec => FirstDeliveryInOrder
<1>1. OrderInv /\ [Next]_vars =>
        [persistFails = 0 =>
           \A e \in (accepted' \ accepted) \ cutOff : \A d \in accepted : d < e]_vars
  <2> SUFFICES ASSUME OrderInv, [Next]_vars, persistFails = 0,
                      NEW e \in (accepted' \ accepted) \ cutOff, NEW d \in accepted
               PROVE  d < e
    OBVIOUS
  <2>1. CASE PostTaken
    <3>1. e \in Range(batch)
      BY <2>1, TakenAreInBatch DEF OrderInv, KnownInv
    <3>2. QED
      BY <3>1 DEF OrderInv, OrderParts, TakenAreOldest
  <2>2. CASE ~PostTaken
    <3>1. accepted' = accepted
      BY <2>2 DEF Next, Run, Flush, Enqueue, Start, Cancel, ProcessEnds, EnqueuePush,
                  EnqueueTest, EnqueueSignal, TimerFires, SelectDone, SelectTimer,
                  SelectWake, FlushPeek, PostSucceeds, PostUnauthorized, PostFails,
                  FlushAck, FlushReturns, vars, history
    <3>2. QED
      BY <3>1
  <2>3. QED
    BY <2>1, <2>2
<1>2. QED
  BY <1>1, InitOrder, OrderStep, PTL DEF Spec, FirstDeliveryInOrder

-----------------------------------------------------------------------------
(* The batcher implements Outbox.  Besides what is lost and where events   *)
(* can be, the refinement needs that the counter in memory is never behind *)
(* the one in the file: a write of the file never takes a loss back.       *)
DropsGrow == Up => ring.dropped >= disk.dropped
OutboxInv == LossInv /\ KnownInv /\ DropsGrow

Gone == (1 .. pushed) \ (accepted \cup Reachable)

(* Outbox counts with the same Cardinality. *)
LEMMA SameCardinality == ASSUME NEW S PROVE Promise!Cardinality(S) = Cardinality(S)
BY DEF Promise!Cardinality, Cardinality

(* The counters are numbers.                                               *)
LEMMA CountsType ==
  ASSUME TypeOK
  PROVE  /\ disk.dropped \in Nat /\ ring.dropped \in Nat
         /\ persistFails \in Nat /\ pushed \in Nat
BY BatcherAssumption DEF TypeOK, RingType

(* The same of the next state.                                             *)
LEMMA CountsTypeNext ==
  ASSUME TypeOK'
  PROVE  /\ disk'.dropped \in Nat /\ ring'.dropped \in Nat
         /\ persistFails' \in Nat /\ pushed' \in Nat
BY BatcherAssumption DEF TypeOK, RingType

(* What a write of the file does to the counters. *)
LEMMA PersistCounts ==
  ASSUME TypeOK, TypeOK', DropsGrow, Up, ring'.dropped >= ring.dropped,
         NEW ok \in BOOLEAN, PersistLocked(ok)
  PROVE  /\ disk'.dropped >= disk.dropped /\ persistFails' >= persistFails
         /\ ring'.dropped >= disk'.dropped
<1>1. /\ disk.dropped \in Nat /\ ring.dropped \in Nat /\ ring'.dropped \in Nat
      /\ persistFails \in Nat
  BY CountsType, CountsTypeNext
<1>2. ring.dropped >= disk.dropped
  BY DEF DropsGrow
<1>3. \/ disk' = ring' /\ persistFails' = persistFails
      \/ disk' = disk /\ persistFails' = persistFails + 1
  BY DEF PersistLocked
<1>4. QED
  BY <1>1, <1>2, <1>3

(* A step after which the API has what it had, nothing but the event being *)
(* pushed has come within reach and the counters have not gone back, gives *)
(* up what Outbox lets be given up.                                        *)
LEMMA StepGivesUp ==
  ASSUME LossInv', pushed \in Nat, disk.dropped + persistFails \in Nat,
         pushed' \in {pushed, pushed + 1}, accepted' = accepted,
         Reachable' \subseteq Reachable \cup {pushed + 1},
         disk'.dropped + persistFails' >= disk.dropped + persistFails
  PROVE  Promise!GiveUp
<1>1. disk'.dropped + persistFails' \in Nat /\ pushed' \in Nat
  <2>1. disk'.dropped \in Nat /\ persistFails' \in Nat /\ pushed' \in Nat
    BY CountsTypeNext DEF LossInv
  <2>2. QED
    BY <2>1
<1>2. Gone \subseteq Gone'
  BY DEF Gone
<1>3. Gone' \subseteq (1 .. pushed') \ accepted
  BY DEF Gone
<1>4. Cardinality(Gone') <= disk'.dropped + persistFails'
  <2>1. Gone' \subseteq LostFrom(disk)'
    BY DEF Gone, LostFrom, Reachable
  <2>2. IsFiniteSet(LostFrom(disk)') /\ Cardinality(LostFrom(disk)') \in Nat
    BY <1>1, LostFiniteNext
  <2>3. Cardinality(Gone') <= Cardinality(LostFrom(disk)')
    BY <2>1, <2>2, FS_Subset
  <2>4. Cardinality(Gone') \in Nat
    BY <2>1, <2>2, FS_Subset, FS_CardinalityType
  <2>5. Cardinality(LostFrom(disk)') <= disk'.dropped + persistFails'
    BY DEF LossInv, EveryLossCounted
  <2>6. QED
    BY <1>1, <2>2, <2>3, <2>4, <2>5
<1>5. /\ (disk.dropped + persistFails)' \in Nat
      /\ (disk.dropped + persistFails)' >= disk.dropped + persistFails
  BY <1>1
<1>6. /\ (1 .. pushed) \ (accepted \cup Reachable) \subseteq
           ((1 .. pushed) \ (accepted \cup Reachable))'
      /\ ((1 .. pushed) \ (accepted \cup Reachable))' \subseteq (1 .. pushed') \ accepted
      /\ Cardinality(((1 .. pushed) \ (accepted \cup Reachable))') <=
           (disk.dropped + persistFails)'
  BY <1>2, <1>3, <1>4 DEF Gone
<1>7. QED
  BY <1>5, <1>6, SameCardinality, Zenon DEF Promise!GiveUp

(* So does a step that leaves every copy of the queue alone.               *)
LEMMA QuietLoses ==
  ASSUME OutboxInv, LossInv',
         UNCHANGED <<ring, disk, batch, accepted, pushed, persistFails>>,
         pc = "down" <=> pc' = "down"
  PROVE  Promise!Next /\ DropsGrow'
<1>1. /\ pushed \in Nat /\ disk.dropped + persistFails \in Nat
      /\ disk'.dropped + persistFails' >= disk.dropped + persistFails
  <2>1. disk.dropped \in Nat /\ persistFails \in Nat /\ pushed \in Nat
    BY CountsType DEF OutboxInv, KnownInv
  <2>2. QED
    BY <2>1
<1>2. Reachable' = Reachable
  BY DEF Reachable, Up
<1>3. Promise!GiveUp
  BY <1>1, <1>2, StepGivesUp
<1>4. DropsGrow'
  BY DEF OutboxInv, DropsGrow, Up
<1>5. QED
  BY <1>3, <1>4 DEF Promise!Next, Promise!Lose

(* Every step of the batcher is one of Outbox, and keeps the counters in   *)
(* step: the one fact of OutboxInv that is not known yet.                  *)
LEMMA OutboxStep ==
  ASSUME OutboxInv, LossInv', [Next]_vars
  PROVE  [Promise!Next]_(Promise!vars) /\ DropsGrow'
<1>n. /\ TypeOK /\ TypeOK'
      /\ disk.dropped \in Nat /\ persistFails \in Nat /\ ring.dropped \in Nat
      /\ disk'.dropped \in Nat /\ persistFails' \in Nat /\ ring'.dropped \in Nat
  <2>1. TypeOK /\ TypeOK'
    BY DEF OutboxInv, LossInv
  <2>2. QED
    BY <2>1, CountsType, CountsTypeNext
<1>t. TypeOK /\ TypeOK' /\ pushed \in Nat /\ disk.dropped + persistFails \in Nat
  BY <1>n, CountsType
<1>e. Range(<< >>) = {}
  BY EmptyIncreases
<1>1. CASE Start
  <2>1. /\ pushed' = pushed /\ accepted' = accepted /\ disk' = disk /\ batch' = batch
        /\ persistFails' = persistFails /\ ~Up
    BY <1>1 DEF Start, Up, flushVars
  <2>2. batch = << >> /\ Held(ring') \subseteq Held(disk) /\ ring'.dropped >= disk.dropped
    BY <1>1, <1>t, <2>1, StartHolds DEF OutboxInv, KnownInv
  <2>3. Reachable' \subseteq Reachable
    BY <1>e, <2>1, <2>2 DEF Reachable
  <2>4. Promise!GiveUp
    BY <1>t, <2>1, <2>3, StepGivesUp
  <2>5. QED
    BY <2>1, <2>2, <2>4 DEF Promise!Next, Promise!Lose, DropsGrow
<1>2. CASE ProcessEnds
  <2>1. /\ pushed' = pushed /\ accepted' = accepted /\ disk' = disk
        /\ persistFails' = persistFails /\ ~Up'
    BY <1>2 DEF ProcessEnds, Up, history, bounds
  <2>2. Reachable' \subseteq Reachable
    BY <2>1 DEF Reachable
  <2>3. Promise!GiveUp
    BY <1>t, <2>1, <2>2, StepGivesUp
  <2>4. QED
    BY <2>1, <2>3 DEF Promise!Next, Promise!Lose, DropsGrow
<1>3. ASSUME NEW p \in Producers, EnqueuePush(p)
      PROVE  Promise!Next /\ DropsGrow'
  <2>1. /\ pushed' = pushed + 1 /\ accepted' = accepted /\ batch' = batch /\ pc' = pc /\ Up
    BY <1>3 DEF EnqueuePush, flushVars
  <2>2. /\ Held(ring') \subseteq Held(ring) \cup {pushed + 1}
        /\ ring'.dropped >= ring.dropped
    BY <1>3, <1>t, PushHolds
  <2>3. PICK ok \in BOOLEAN : PersistLocked(ok)
    BY <1>3 DEF EnqueuePush
  <2>4. /\ disk'.dropped >= disk.dropped /\ persistFails' >= persistFails
        /\ ring'.dropped >= disk'.dropped
        /\ Held(disk') \subseteq Held(disk) \cup Held(ring')
    BY <1>t, <2>1, <2>2, <2>3, PersistCounts, PersistHolds DEF OutboxInv
  <2>5. Reachable' \subseteq Reachable \cup {pushed + 1}
    BY <2>1, <2>2, <2>4 DEF Reachable, Up
  <2>6. disk'.dropped + persistFails' >= disk.dropped + persistFails
    BY <1>n, <2>4
  <2>7. Promise!GiveUp
    BY <1>t, <2>1, <2>5, <2>6, StepGivesUp
  <2>8. QED
    BY <2>1, <2>4, <2>7 DEF Promise!Next, Promise!Offer, DropsGrow
<1>4. CASE FlushPeek
  <2>1. /\ pushed' = pushed /\ accepted' = accepted /\ ring' = ring /\ disk' = disk
        /\ persistFails' = persistFails /\ Up /\ Up'
    BY <1>4 DEF FlushPeek, Up, ringVars, history, bounds
  <2>2. Range(batch') \subseteq Held(ring)
    BY <1>4, <1>t, PeekedAreHeld
  <2>3. Reachable' \subseteq Reachable
    BY <2>1, <2>2 DEF Reachable
  <2>4. Promise!GiveUp
    BY <1>t, <2>1, <2>3, StepGivesUp
  <2>5. QED
    BY <2>1, <2>4 DEF Promise!Next, Promise!Lose, OutboxInv, DropsGrow
<1>5. CASE PostTaken
  <2>1. /\ pushed' = pushed /\ ring' = ring /\ disk' = disk /\ batch' = batch
        /\ persistFails' = persistFails /\ Up /\ Up'
    BY <1>5 DEF PostTaken, Up, ringVars, bounds
  <2>2. /\ accepted \subseteq accepted'
        /\ accepted' \subseteq accepted \cup Range(batch)
    BY <1>5, <1>t, TakenAreInBatch
  <2>3. /\ Reachable' = Reachable /\ Range(batch) \subseteq Reachable
        /\ Range(batch) \subseteq 1 .. pushed
    BY <2>1 DEF Reachable, OutboxInv, KnownInv
  <2>4. PICK S : S = accepted' \ accepted
    OBVIOUS
  <2>5. accepted' = accepted \cup S
    BY <2>2, <2>4
  <2>6. S \in SUBSET ((1 .. pushed) \ (accepted \cup Gone))
    BY <2>2, <2>3, <2>4 DEF Gone
  <2>7. Gone' = Gone
    BY <2>1, <2>2, <2>3 DEF Gone
  <2>8. Promise!Deliver
    BY <2>1, <2>5, <2>6, <2>7 DEF Promise!Deliver, Promise!Pending, Gone
  <2>9. QED
    BY <2>1, <2>8 DEF Promise!Next, OutboxInv, DropsGrow
<1>6. CASE FlushAck
  <2>1. /\ pushed' = pushed /\ accepted' = accepted /\ batch' = batch /\ Up /\ Up'
    BY <1>6 DEF FlushAck, Up, history
  <2>2. Held(ring') \subseteq Held(ring) /\ ring'.dropped = ring.dropped
    BY <1>6, <1>t, AckHolds
  <2>3. PICK ok \in BOOLEAN : PersistLocked(ok)
    BY <1>6 DEF FlushAck
  <2>4. ring'.dropped >= ring.dropped
    BY <1>n, <2>2
  <2>5. /\ disk'.dropped >= disk.dropped /\ persistFails' >= persistFails
        /\ ring'.dropped >= disk'.dropped
        /\ Held(disk') \subseteq Held(disk) \cup Held(ring')
    BY <1>t, <2>1, <2>3, <2>4, PersistCounts, PersistHolds DEF OutboxInv
  <2>6. Reachable' \subseteq Reachable
    BY <2>1, <2>2, <2>5 DEF Reachable
  <2>7. disk'.dropped + persistFails' >= disk.dropped + persistFails
    BY <1>n, <2>5
  <2>8. Promise!GiveUp
    BY <1>t, <2>1, <2>6, <2>7, StepGivesUp
  <2>9. QED
    BY <2>1, <2>5, <2>8 DEF Promise!Next, Promise!Lose, DropsGrow
<1>7. CASE FlushReturns
  <2>1. /\ pushed' = pushed /\ accepted' = accepted /\ ring' = ring /\ disk' = disk
        /\ batch' = << >> /\ persistFails' = persistFails /\ Up /\ Up'
    BY <1>7 DEF FlushReturns, Up, ringVars, history, bounds
  <2>2. Reachable' \subseteq Reachable
    BY <1>e, <2>1 DEF Reachable
  <2>3. Promise!GiveUp
    BY <1>t, <2>1, <2>2, StepGivesUp
  <2>4. QED
    BY <2>1, <2>3 DEF Promise!Next, Promise!Lose, OutboxInv, DropsGrow
<1>8. CASE Cancel
  BY <1>8, QuietLoses DEF Cancel, ringVars, flushVars, history, bounds
<1>9. ASSUME NEW p \in Producers, EnqueueTest(p) PROVE Promise!Next /\ DropsGrow'
  BY <1>9, QuietLoses DEF EnqueueTest, ringVars, flushVars, history, bounds
<1>10. ASSUME NEW p \in Producers, EnqueueSignal(p) PROVE Promise!Next /\ DropsGrow'
  BY <1>10, QuietLoses DEF EnqueueSignal, ringVars, flushVars, history, bounds
<1>11. CASE TimerFires
  BY <1>11, QuietLoses DEF TimerFires, ringVars, flushVars, history, bounds
<1>12. CASE SelectDone
  BY <1>12, QuietLoses DEF SelectDone, ringVars, history, bounds
<1>13. CASE SelectTimer
  BY <1>13, QuietLoses DEF SelectTimer, ringVars, flushVars, history, bounds
<1>14. CASE SelectWake
  BY <1>14, QuietLoses DEF SelectWake, ringVars, flushVars, history, bounds
<1>15. CASE PostSucceeds
  BY <1>15, QuietLoses DEF PostSucceeds, ringVars, flushVars, history, bounds
<1>16. CASE PostUnauthorized
  BY <1>16, QuietLoses DEF PostUnauthorized, ringVars, history
<1>17. CASE PostFails
  BY <1>17, QuietLoses DEF PostFails, ringVars, history
<1>18. CASE UNCHANGED vars
  BY <1>18, QuietLoses DEF vars, ringVars, flushVars, history, bounds
<1>19. QED
  BY <1>1, <1>2, <1>3, <1>4, <1>5, <1>6, <1>7, <1>8, <1>9, <1>10, <1>11, <1>12,
     <1>13, <1>14, <1>15, <1>16, <1>17, <1>18 DEF Next, Run, Flush, Enqueue

(* The first state is one of the outbox's.                                 *)
LEMMA InitOutbox == Init => OutboxInv /\ Promise!Init
<1> SUFFICES ASSUME Init PROVE OutboxInv /\ Promise!Init
  OBVIOUS
<1>1. OutboxInv
  BY InitLoss, InitKnown DEF Init, OutboxInv, DropsGrow, Up
<1>2. pushed = 0 /\ accepted = {} /\ disk.dropped + persistFails = 0
  BY DEF Init, EmptyRing
<1>3. QED
  BY <1>1, <1>2 DEF Promise!Init

(* The batcher, the ring and its file implement Outbox, for any number of  *)
(* collectors, any sizes, and any interleaving of pushes, flushes,         *)
(* failures, crashes and restarts.                                         *)
THEOREM OutboxIsImplemented == Spec => ImplementsOutbox
<1>1. OutboxInv /\ [Next]_vars => OutboxInv' /\ [Promise!Next]_(Promise!vars)
  <2> SUFFICES ASSUME OutboxInv, [Next]_vars PROVE OutboxInv' /\ [Promise!Next]_(Promise!vars)
    OBVIOUS
  <2>1. LossInv' /\ KnownInv'
    BY LossStep, KnownStep DEF OutboxInv
  <2>2. QED
    BY <2>1, OutboxStep DEF OutboxInv
<1>2. QED
  BY <1>1, InitOutbox, PTL DEF Spec, ImplementsOutbox, Promise!Spec

-----------------------------------------------------------------------------
(* Wake-ups.  The loop only comes to its select through FlushReturns, which*)
(* leaves a token when events are left, and through Start; from there on   *)
(* whoever makes the queue longer is not idle before it has signalled.     *)
WakeInv == TypeOK /\ NoLostWakeup

(* Steps that neither lengthen the queue nor bring the loop to its select, *)
(* nor take away what NoLostWakeup asks for.                               *)
LEMMA QuietWake ==
  ASSUME NoLostWakeup,
         pc' = "select" => /\ pc = "select" /\ (wake => wake') /\ flushErr' = flushErr
                           /\ UNCHANGED <<ring, enq, pushed, pushedAtStart>>
  PROVE  NoLostWakeup'
BY DEF NoLostWakeup

(* No step leaves a full batch without a wakeup.                           *)
LEMMA WakeStep == WakeInv /\ [Next]_vars => WakeInv'
<1> SUFFICES ASSUME WakeInv, [Next]_vars PROVE WakeInv'
  OBVIOUS
<1>t. TypeOK /\ TypeOK'
  BY TypeStep DEF WakeInv
<1>i. NoLostWakeup
  BY DEF WakeInv
<1> SUFFICES NoLostWakeup'
  BY <1>t DEF WakeInv
<1>1. CASE Start
  BY <1>1 DEF Start, NoLostWakeup
<1>2. CASE Cancel
  BY <1>i, <1>2, QuietWake DEF Cancel, ringVars, flushVars, history
<1>3. CASE ProcessEnds
  BY <1>3 DEF ProcessEnds, NoLostWakeup
<1>4. ASSUME NEW p \in Producers, EnqueuePush(p) PROVE NoLostWakeup'
  <2>1. enq'[p] = "pushed"
    BY <1>4, <1>t DEF TypeOK, EnqueuePush
  <2>2. QED
    BY <2>1 DEF NoLostWakeup
<1>5. ASSUME NEW p \in Producers, EnqueueTest(p) PROVE NoLostWakeup'
  <2>1. /\ enq'[p] = IF Len(ring.events) >= MaxSize THEN "full" ELSE "idle"
        /\ ring' = ring
    BY <1>5, <1>t DEF TypeOK, EnqueueTest, ringVars
  <2>2. QED
    BY <2>1 DEF NoLostWakeup
<1>6. ASSUME NEW p \in Producers, EnqueueSignal(p) PROVE NoLostWakeup'
  BY <1>6 DEF EnqueueSignal, NoLostWakeup
<1>7. CASE TimerFires
  BY <1>i, <1>7, QuietWake DEF TimerFires, ringVars, flushVars, history
<1>8. CASE SelectDone \/ SelectTimer \/ SelectWake
  BY <1>8 DEF SelectDone, SelectTimer, SelectWake, NoLostWakeup
<1>9. CASE FlushPeek \/ PostTaken \/ PostSucceeds \/ PostUnauthorized \/ PostFails \/ FlushAck
  <2>1. pc' # "select"
    BY <1>9 DEF FlushPeek, PostTaken, PostSucceeds, PostUnauthorized, PostFails, FlushAck
  <2>2. QED
    BY <2>1 DEF NoLostWakeup
(* With a batch or more left in the queue, there is something left in it.  *)
<1>10. CASE FlushReturns
  <2>1. Len(ring.events) >= MaxSize => ring.events # << >>
    BY <1>t, BatcherAssumption DEF TypeOK, RingType
  <2>2. CASE shutdown
    BY <1>10, <2>2 DEF FlushReturns, NoLostWakeup
  <2>3. CASE ~shutdown
    <3>1. /\ wake' = (wake \/ (~flushErr /\ ring.events # << >>))
          /\ flushErr' = flushErr /\ ring' = ring
      BY <1>10, <2>3 DEF FlushReturns, ringVars
    <3>2. QED
      BY <2>1, <3>1 DEF NoLostWakeup
  <2>4. QED
    BY <2>2, <2>3
<1>11. CASE UNCHANGED vars
  BY <1>i, <1>11, QuietWake DEF vars, ringVars, flushVars, history
<1>12. QED
  BY <1>1, <1>2, <1>3, <1>4, <1>5, <1>6, <1>7, <1>8, <1>9, <1>10, <1>11
     DEF Next, Run, Flush, Enqueue

(* For any number of collectors and any interleaving of their length tests *)
(* with a flush, a queue of a batch or more never waits for the timer alone*)
(* unless the last flush failed or the queue is a restored one.            *)
THEOREM NoWakeupIsLost == Spec => []NoLostWakeup
<1>1. Init => WakeInv
  BY InitType DEF Init, WakeInv, NoLostWakeup
<1>2. WakeInv => NoLostWakeup
  BY DEF WakeInv
<1>3. QED
  BY <1>1, <1>2, WakeStep, PTL DEF Spec

-----------------------------------------------------------------------------
(* A nonempty set of numbers has a least one: of the intervals from 0 to a *)
(* member, one is within no other.                                         *)
LEMMA LeastNumber ==
  ASSUME NEW S, S \subseteq Nat, S # {}
  PROVE  \E x \in S : \A y \in S : x <= y
<1>1. PICK n \in S : n \in Nat
  OBVIOUS
<1>2. PICK T : T = {0 .. m : m \in S \cap (0 .. n)}
  OBVIOUS
<1>3. IsFiniteSet(0 .. n) /\ FiniteSubsetsOf(0 .. n) = SUBSET (0 .. n)
  <2>1. PICK I : I = 0 .. n
    OBVIOUS
  <2>2. IsFiniteSet(I)
    BY <1>1, <2>1, FS_Interval
  <2>3. FiniteSubsetsOf(I) = SUBSET I
    BY <2>2, FS_FiniteSubsetsOfFinite
  <2> QED
    BY <2>1, <2>2, <2>3
<1>4. T \subseteq FiniteSubsetsOf(0 .. n) /\ T # {}
  <2>1. \A m \in 0 .. n : 0 .. m \subseteq 0 .. n
    BY <1>1
  <2>2. n \in S \cap (0 .. n)
    BY <1>1
  <2> QED
    BY <1>2, <1>3, <2>1, <2>2
<1>5. PICK I \in T : \A J \in T : ~(<<J, I>> \in StrictSubsetOrdering(0 .. n))
  BY <1>4, FS_StrictSubsetOrderingWellFounded, WFMin
<1>6. PICK x \in S \cap (0 .. n) : I = 0 .. x
  BY <1>2
<1>7. ASSUME NEW y \in S, y < x PROVE FALSE
  <2>1. y \in 0 .. n /\ x \in Nat
    BY <1>1, <1>6, <1>7
  <2>2. 0 .. y \in T /\ 0 .. y \subseteq 0 .. x /\ 0 .. y # 0 .. x
    BY <1>2, <1>7, <2>1
  <2>3. 0 .. y \subseteq 0 .. n /\ 0 .. x \subseteq 0 .. n
    BY <1>1, <1>6, <2>1
  <2> QED
    BY <1>5, <1>6, <2>2, <2>3 DEF StrictSubsetOrdering
<1> QED
  BY <1>6, <1>7

(* The delay after failures.  The doubling is defined by recursion; that   *)
(* there is such a function is shown from its beginnings, of which there   *)
(* is one for each length.                                                 *)
Begins(h, n) ==
  /\ h = [i \in 0 .. n |-> h[i]] /\ h[0] = FlushEvery
  /\ \A i \in 0 .. n : h[i] \in Nat /\ h[i] >= FlushEvery
  /\ \A i \in 1 .. n : h[i] = 2 * h[i - 1]

(* One beginning for each length.                                          *)
LEMMA SomeBeginning == \A n \in Nat : \E h : Begins(h, n)
<1> SUFFICES ASSUME NEW m \in Nat, ~\E h : Begins(h, m) PROVE FALSE
  OBVIOUS
<1>1. PICK S : S = {n \in Nat : ~\E h : Begins(h, n)}
  OBVIOUS
<1>2. S \subseteq Nat /\ S # {}
  BY <1>1
<1>3. PICK n \in S : \A k \in S : n <= k
  BY <1>2, LeastNumber
<1>4. FlushEvery \in Nat
  BY BatcherAssumption
<1>5. CASE n = 0
  <2>1. PICK h : h = [i \in 0 .. n |-> FlushEvery]
    OBVIOUS
  <2>2. Begins(h, n)
    BY <1>4, <1>5, <2>1 DEF Begins
  <2> QED
    BY <1>1, <2>2
<1>6. CASE n # 0
  <2>1. n \in Nat /\ n - 1 \in Nat /\ n - 1 \notin S
    BY <1>1, <1>3, <1>6
  <2>2. PICK g : Begins(g, n - 1)
    BY <1>1, <2>1
  <2>3. PICK h : h = [i \in 0 .. n |-> IF i = n THEN 2 * g[n - 1] ELSE g[i]]
    OBVIOUS
  <2>4. /\ \A i \in 0 .. n : h[i] = IF i = n THEN 2 * g[n - 1] ELSE g[i]
        /\ h = [i \in 0 .. n |-> h[i]]
    BY <2>3
  <2>5. g[n - 1] \in Nat /\ g[n - 1] >= FlushEvery /\ h[n] = 2 * g[n - 1]
    <3>1. n - 1 \in 0 .. n - 1 /\ n \in 0 .. n
      BY <2>1
    <3>2. g[n - 1] \in Nat /\ g[n - 1] >= FlushEvery
      BY <2>2, <3>1 DEF Begins
    <3> QED
      BY <2>4, <3>1, <3>2
  <2>6. ASSUME NEW i \in 0 .. n PROVE h[i] \in Nat /\ h[i] >= FlushEvery
    <3>1. CASE i = n
      <4>1. h[i] = 2 * g[n - 1]
        BY <2>5, <3>1
      <4>2. PICK x \in Nat : x = g[n - 1] /\ x >= FlushEvery
        BY <2>5
      <4> QED
        BY <1>4, <4>1, <4>2
    <3>2. CASE i # n
      <4>1. i \in 0 .. n - 1
        BY <2>1, <3>2
      <4>2. h[i] = g[i]
        BY <2>4, <3>2
      <4> QED
        BY <2>2, <4>1, <4>2 DEF Begins
    <3> QED
      BY <3>1, <3>2
  <2>7. h[0] = FlushEvery
    BY <1>6, <2>1, <2>2, <2>4 DEF Begins
  <2>8. ASSUME NEW i \in 1 .. n PROVE h[i] = 2 * h[i - 1]
    <3>1. i - 1 \in 0 .. n /\ i - 1 # n /\ i \in 0 .. n
      BY <2>1
    <3>2. h[i - 1] = g[i - 1]
      BY <2>4, <3>1
    <3>3. CASE i = n
      BY <2>5, <3>2, <3>3
    <3>4. CASE i # n
      <4>1. i \in 1 .. n - 1
        BY <2>1, <3>4
      <4>2. g[i] = 2 * g[i - 1]
        BY <2>2, <4>1 DEF Begins
      <4>3. h[i] = g[i]
        BY <2>4, <3>1, <3>4
      <4> QED
        BY <3>2, <4>2, <4>3
    <3> QED
      BY <3>3, <3>4
  <2>9. Begins(h, n)
    BY <2>4, <2>6, <2>7, <2>8 DEF Begins
  <2> QED
    BY <1>1, <2>9
<1> QED
  BY <1>5, <1>6

(* Two beginnings agree as far as both go.                                 *)
LEMMA SameBeginning ==
  ASSUME NEW n \in Nat, NEW m \in Nat, n <= m, NEW g, Begins(g, n), NEW h, Begins(h, m)
  PROVE  \A i \in 0 .. n : g[i] = h[i]
<1> SUFFICES ASSUME NEW j \in 0 .. n, g[j] # h[j] PROVE FALSE
  OBVIOUS
<1>1. PICK S : S = {i \in 0 .. n : g[i] # h[i]}
  OBVIOUS
<1>2. S \subseteq Nat /\ S # {}
  BY <1>1
<1>3. PICK i \in S : \A k \in S : i <= k
  BY <1>2, LeastNumber
<1>4. i \in 0 .. n /\ g[i] # h[i]
  BY <1>1
<1>5. CASE i = 0
  BY <1>4, <1>5 DEF Begins
<1>6. CASE i # 0
  <2>1. i - 1 \in 0 .. n /\ i \in 1 .. n /\ i \in 1 .. m
    BY <1>4, <1>6
  <2>2. g[i - 1] = h[i - 1]
    <3>1. i - 1 \notin S
      BY <1>3, <1>4, <2>1
    <3> QED
      BY <1>1, <2>1, <3>1
  <2>3. g[i] = 2 * g[i - 1] /\ h[i] = 2 * h[i - 1]
    BY <2>1 DEF Begins
  <2> QED
    BY <1>4, <2>2, <2>3
<1> QED
  BY <1>5, <1>6

(* So the doubling is what its definition says.                            *)
LEMMA DoubledIs ==
  \A n \in Nat : /\ Doubled[n] = IF n = 0 THEN FlushEvery ELSE 2 * Doubled[n - 1]
                 /\ Doubled[n] \in Nat /\ Doubled[n] >= FlushEvery
<1>1. PICK f : f = [n \in Nat |-> (CHOOSE h : Begins(h, n))[n]]
  OBVIOUS
<1>2. ASSUME NEW n \in Nat
      PROVE  /\ f[n] = IF n = 0 THEN FlushEvery ELSE 2 * f[n - 1]
             /\ f[n] \in Nat /\ f[n] >= FlushEvery
  <2>1. PICK h : h = (CHOOSE x : Begins(x, n)) /\ Begins(h, n) /\ f[n] = h[n]
    BY <1>1, SomeBeginning
  <2>2. f[n] \in Nat /\ f[n] >= FlushEvery
    BY <2>1 DEF Begins
  <2>3. CASE n = 0
    BY <2>1, <2>2, <2>3 DEF Begins
  <2>4. CASE n # 0
    <3>1. PICK m \in Nat : m = n - 1
      BY <2>4
    <3>2. PICK g : g = (CHOOSE x : Begins(x, m)) /\ Begins(g, m) /\ f[m] = g[m]
      BY <1>1, SomeBeginning
    <3>3. g[m] = h[m]
      <4>1. m <= n /\ m \in 0 .. m
        BY <3>1
      <4> QED
        BY <2>1, <3>2, <4>1, SameBeginning
    <3>4. h[n] = 2 * h[m]
      <4>1. n \in 1 .. n /\ m = n - 1
        BY <2>4, <3>1
      <4> QED
        BY <2>1, <4>1 DEF Begins
    <3> QED
      BY <2>1, <2>2, <2>4, <3>1, <3>2, <3>3, <3>4
  <2> QED
    BY <2>3, <2>4
<1>3. f = [n \in Nat |-> IF n = 0 THEN FlushEvery ELSE 2 * f[n - 1]]
  BY <1>1, <1>2
<1>4. Doubled = [n \in Nat |-> IF n = 0 THEN FlushEvery ELSE 2 * Doubled[n - 1]]
  BY <1>3 DEF Doubled
<1>5. f = Doubled
  <2>1. PICK d : d = Doubled
    OBVIOUS
  <2>2. \A n \in Nat : d[n] = IF n = 0 THEN FlushEvery ELSE 2 * d[n - 1]
    BY <1>4, <2>1
  <2>3. PICK S : S = {n \in Nat : f[n] # d[n]}
    OBVIOUS
  <2>4. S = {}
    <3> SUFFICES ASSUME S # {} PROVE FALSE
      OBVIOUS
    <3>1. S \subseteq Nat
      BY <2>3
    <3>2. PICK n \in S : \A k \in S : n <= k
      BY <3>1, LeastNumber
    <3>3. n \in Nat /\ f[n] # d[n]
      BY <2>3
    <3>4. n # 0
      BY <1>2, <2>2, <3>3
    <3>5. n - 1 \in Nat /\ n - 1 \notin S
      BY <3>2, <3>3, <3>4
    <3>6. f[n - 1] = d[n - 1]
      BY <2>3, <3>5
    <3>7. f[n] = 2 * f[n - 1] /\ d[n] = 2 * d[n - 1]
      BY <1>2, <2>2, <3>3, <3>4
    <3> QED
      BY <3>3, <3>6, <3>7
  <2>5. \A n \in Nat : f[n] = d[n]
    BY <2>3, <2>4
  <2>6. d = [n \in Nat |-> d[n]] /\ f = [n \in Nat |-> f[n]]
    <3>1. d = [n \in Nat |-> IF n = 0 THEN FlushEvery ELSE 2 * d[n - 1]]
      BY <1>4, <2>1
    <3> QED
      BY <1>1, <3>1
  <2> QED
    BY <2>1, <2>5, <2>6
<1> QED
  BY <1>2, <1>5

BackoffInv == TypeOK /\ BackoffFollowsFailures

(* The delay grows with the streak, and stays at its bound.                *)
LEMMA BackoffStep == BackoffInv /\ [Next]_vars => BackoffInv'
<1> SUFFICES ASSUME BackoffInv, [Next]_vars PROVE BackoffInv'
  OBVIOUS
<1>1. TypeOK'
  BY TypeStep DEF BackoffInv
<1>2. streak \in Nat /\ streak' \in Nat /\ backoff \in Nat \ {0} /\ Doubled[0] = FlushEvery
      /\ FlushEvery \in Nat \ {0} /\ MaxBackoff \in Nat \ {0}
  BY <1>1, DoubledIs, BatcherAssumption DEF BackoffInv, TypeOK
<1>3. CASE UNCHANGED <<backoff, streak>>
  BY <1>1, <1>3 DEF BackoffInv, BackoffFollowsFailures
<1>4. CASE backoff' = FlushEvery /\ streak' = 0
  BY <1>1, <1>2, <1>4 DEF BackoffInv, BackoffFollowsFailures
<1>5. CASE /\ backoff' = NextBackoff(backoff)
           /\ streak' = IF backoff < MaxBackoff THEN streak + 1 ELSE streak
  <2> SUFFICES ASSUME FlushEvery <= MaxBackoff
               PROVE  backoff' = IF Doubled[streak'] < MaxBackoff THEN Doubled[streak'] ELSE MaxBackoff
    BY <1>1 DEF BackoffInv, BackoffFollowsFailures
  <2>1. PICK d \in Nat : d = Doubled[streak] /\ d >= FlushEvery
    BY <1>2, DoubledIs
  <2>2. Doubled[streak + 1] = 2 * d
    <3>1. streak + 1 \in Nat /\ streak + 1 # 0 /\ (streak + 1) - 1 = streak
      BY <1>2
    <3> QED
      BY <2>1, <3>1, DoubledIs
  <2>3. backoff = IF d < MaxBackoff THEN d ELSE MaxBackoff
    BY <2>1 DEF BackoffInv, BackoffFollowsFailures
  <2>4. CASE backoff < MaxBackoff
    <3>1. backoff = d /\ streak' = streak + 1
      BY <1>2, <1>5, <2>3, <2>4
    <3>2. backoff' = IF 2 * d > MaxBackoff THEN MaxBackoff ELSE 2 * d
      BY <1>2, <1>5, <2>1, <3>1 DEF NextBackoff
    <3> QED
      BY <1>2, <2>1, <2>2, <3>1, <3>2
  <2>5. CASE ~(backoff < MaxBackoff)
    <3>1. backoff = MaxBackoff /\ streak' = streak /\ d >= MaxBackoff
      BY <1>2, <1>5, <2>1, <2>3, <2>5
    <3>2. backoff' = MaxBackoff
      BY <1>2, <1>5, <3>1 DEF NextBackoff
    <3> QED
      BY <1>2, <2>1, <3>1, <3>2
  <2> QED
    BY <2>4, <2>5
<1>6. CASE Start \/ ProcessEnds
  BY <1>4, <1>6 DEF Start, ProcessEnds
<1>7. CASE FlushReturns
  <2>1. CASE shutdown \/ ~flushErr
    BY <1>3, <1>4, <1>7, <2>1 DEF FlushReturns
  <2>2. CASE ~shutdown /\ flushErr
    BY <1>5, <1>7, <2>2 DEF FlushReturns
  <2> QED
    BY <2>1, <2>2
<1>8. CASE Cancel \/ (\E p \in Producers : Enqueue(p)) \/ UNCHANGED vars
  BY <1>3, <1>8 DEF Cancel, Enqueue, EnqueuePush, EnqueueTest, EnqueueSignal, vars, loopVars
<1>9. CASE TimerFires \/ SelectDone \/ SelectTimer \/ SelectWake \/ FlushPeek \/ PostTaken
           \/ PostSucceeds \/ PostUnauthorized \/ PostFails \/ FlushAck
  BY <1>3, <1>9 DEF TimerFires, SelectDone, SelectTimer, SelectWake, FlushPeek, PostTaken,
       PostSucceeds, PostUnauthorized, PostFails, FlushAck, loopVars
<1> QED
  BY <1>6, <1>7, <1>8, <1>9 DEF Next, Run, Flush

(* The delay of the retry loop is FlushEvery doubled once per failure in a *)
(* row and capped by MaxBackoff, whatever wake-ups, cancellations and      *)
(* restarts interleave (batcher.go:125-150, 183-192).                      *)
THEOREM DelaysFollowFailures == Spec => []BackoffFollowsFailures
<1>1. Init => BackoffInv
  <2>1. Doubled[0] = FlushEvery
    BY DoubledIs
  <2>2. Init => BackoffFollowsFailures
    BY <2>1, BatcherAssumption DEF Init, BackoffFollowsFailures
  <2> QED
    BY <2>2, InitType DEF BackoffInv
<1>2. BackoffInv => BackoffFollowsFailures
  BY DEF BackoffInv
<1> QED
  BY <1>1, <1>2, BackoffStep, PTL DEF Spec
=============================================================================
