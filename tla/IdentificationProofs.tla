------------------------ MODULE IdentificationProofs ------------------------
(* The cache of identities, for any disks, any pollers, any capacity and   *)
(* any catalog: the two halves of an entry belong together, and no verdict *)
(* is without the evidence its product asks for.                           *)
EXTENDS Identification, TLAPS, SequenceTheorems, FiniteSetTheorems, WellFoundedInduction

(* No key is twice in a cache.                                             *)
OncePerKey(c) == \A i, j \in 1 .. Len(c) : c[i].key = c[j].key => i = j

(* What removing one element leaves.                                       *)
LEMMA RemoveAtShape ==
  ASSUME NEW S, NEW s \in Seq(S), NEW k \in 1 .. Len(s)
  PROVE  /\ RemoveAt(s, k) \in Seq(S) /\ Len(RemoveAt(s, k)) = Len(s) - 1
         /\ \A i \in 1 .. Len(s) - 1 : RemoveAt(s, k)[i] = IF i < k THEN s[i] ELSE s[i + 1]
<1>1. Len(s) \in Nat /\ \A i \in 1 .. Len(s) : s[i] \in S
  BY LenProperties, ElementOfSeq
<1> DEFINE a == SubSeq(s, 1, k - 1)
           b == SubSeq(s, k + 1, Len(s))
<1>2. a \in Seq(S) /\ Len(a) = k - 1 /\ \A i \in 1 .. k - 1 : a[i] = s[i]
  <2>1. \A i \in 1 .. k - 1 : s[i] \in S
    BY <1>1
  <2>2. 1 \in Int /\ k - 1 \in Int /\ k - 1 >= 0 /\ (k - 1) - 1 + 1 = k - 1
    BY <1>1
  <2>3. a \in Seq(S) /\ Len(a) = (IF 1 <= k - 1 THEN (k - 1) - 1 + 1 ELSE 0)
        /\ \A i \in 1 .. (k - 1) - 1 + 1 : a[i] = s[1 + i - 1]
    BY <2>1, <2>2, SubSeqProperties
  <2> HIDE DEF a
  <2>4. \A i \in 1 .. k - 1 : a[i] = s[i]
    BY <2>2, <2>3
  <2> QED
    BY <2>2, <2>3, <2>4
<1>3. b \in Seq(S) /\ Len(b) = Len(s) - k /\ \A i \in 1 .. Len(s) - k : b[i] = s[k + i]
  <2>1. \A i \in k + 1 .. Len(s) : s[i] \in S
    BY <1>1
  <2>2. k + 1 \in Int /\ Len(s) \in Int /\ Len(s) - (k + 1) + 1 = Len(s) - k /\ k <= Len(s)
    BY <1>1
  <2>3. b \in Seq(S) /\ Len(b) = (IF k + 1 <= Len(s) THEN Len(s) - (k + 1) + 1 ELSE 0)
        /\ \A i \in 1 .. Len(s) - (k + 1) + 1 : b[i] = s[k + 1 + i - 1]
    BY <2>1, <2>2, SubSeqProperties
  <2> HIDE DEF b
  <2>4. ASSUME NEW i \in 1 .. Len(s) - k PROVE b[i] = s[k + i]
    <3>1. i \in 1 .. Len(s) - (k + 1) + 1 /\ k + 1 + i - 1 = k + i
      BY <2>2
    <3> QED
      BY <2>3, <3>1
  <2>5. PICK n \in Int : n = Len(s)
    BY <2>2
  <2>6. k \in Int /\ k <= n
    BY <2>2, <2>5
  <2>7. Len(b) = n - k
    <3>1. Len(b) = (IF k + 1 <= n THEN n - (k + 1) + 1 ELSE 0)
      BY <2>3, <2>5, Zenon
    <3> QED
      BY <2>6, <3>1
  <2> QED
    BY <2>3, <2>4, <2>5, <2>7
<1> HIDE DEF a, b
<1>4. /\ a \o b \in Seq(S) /\ Len(a \o b) = Len(a) + Len(b)
      /\ \A i \in 1 .. Len(a) + Len(b) : (a \o b)[i] = IF i <= Len(a) THEN a[i] ELSE b[i - Len(a)]
  BY <1>2, <1>3, ConcatProperties
<1>5. RemoveAt(s, k) = a \o b
  BY DEF RemoveAt, a, b
<1>6. ASSUME NEW i \in 1 .. Len(s) - 1
      PROVE  (a \o b)[i] = IF i < k THEN s[i] ELSE s[i + 1]
  <2>1. CASE i < k
    <3>1. i \in 1 .. k - 1 /\ i <= Len(a) /\ i \in 1 .. Len(a) + Len(b)
      BY <1>1, <1>2, <1>3, <2>1
    <3> QED
      BY <1>2, <1>4, <2>1, <3>1
  <2>2. CASE ~(i < k)
    <3>1. /\ i - Len(a) \in 1 .. Len(s) - k /\ ~(i <= Len(a)) /\ i \in 1 .. Len(a) + Len(b)
          /\ k + (i - Len(a)) = i + 1
      BY <1>1, <1>2, <1>3, <2>2
    <3> QED
      BY <1>3, <1>4, <2>2, <3>1
  <2> QED
    BY <2>1, <2>2
<1>7. Len(a \o b) = Len(s) - 1
  BY <1>1, <1>2, <1>3, <1>4
<1> QED
  BY <1>4, <1>5, <1>6, <1>7

(* An entry before a sequence that lacks its key.                          *)
LEMMA NewestShape ==
  ASSUME NEW S, NEW s \in Seq(S), NEW e \in S, OncePerKey(s),
         \A i \in 1 .. Len(s) : s[i].key # e.key
  PROVE  /\ <<e>> \o s \in Seq(S) /\ OncePerKey(<<e>> \o s)
         /\ \A i \in 1 .. Len(<<e>> \o s) :
              (<<e>> \o s)[i] = e \/ \E j \in 1 .. Len(s) : (<<e>> \o s)[i] = s[j]
<1>0. Len(s) \in Nat
  BY LenProperties
<1>1. <<e>> \in Seq(S) /\ Len(<<e>>) = 1 /\ <<e>>[1] = e
  OBVIOUS
<1>2. /\ <<e>> \o s \in Seq(S) /\ Len(<<e>> \o s) = 1 + Len(s)
      /\ \A i \in 1 .. 1 + Len(s) : (<<e>> \o s)[i] = IF i <= 1 THEN <<e>>[i] ELSE s[i - 1]
  <2>1. /\ <<e>> \o s \in Seq(S) /\ Len(<<e>> \o s) = Len(<<e>>) + Len(s)
        /\ \A i \in 1 .. Len(<<e>>) + Len(s) :
             (<<e>> \o s)[i] = IF i <= Len(<<e>>) THEN <<e>>[i] ELSE s[i - Len(<<e>>)]
    BY <1>1, ConcatProperties
  <2> QED
    BY <1>1, <2>1
<1>3. PICK t : t = <<e>> \o s
  OBVIOUS
<1>4. t[1] = e
  BY <1>0, <1>1, <1>2, <1>3
<1>5. \A i \in 2 .. Len(s) + 1 : t[i] = s[i - 1] /\ i - 1 \in 1 .. Len(s)
  BY <1>0, <1>2, <1>3
<1>6. Len(t) = Len(s) + 1 /\ \A i \in 1 .. Len(t) : i = 1 \/ i \in 2 .. Len(s) + 1
  BY <1>0, <1>2, <1>3
<1>7. \A i \in 1 .. Len(t) : t[i] = e \/ \E j \in 1 .. Len(s) : t[i] = s[j]
  BY <1>4, <1>5, <1>6
<1>8. OncePerKey(t)
  <2> SUFFICES ASSUME NEW i \in 1 .. Len(t), NEW j \in 1 .. Len(t), t[i].key = t[j].key PROVE i = j
    BY DEF OncePerKey
  <2>1. CASE i = 1 /\ j = 1
    BY <2>1
  <2>2. CASE i = 1 /\ j \in 2 .. Len(s) + 1
    BY <1>4, <1>5, <2>2
  <2>3. CASE j = 1 /\ i \in 2 .. Len(s) + 1
    BY <1>4, <1>5, <2>3
  <2>4. CASE i \in 2 .. Len(s) + 1 /\ j \in 2 .. Len(s) + 1
    <3>1. i - 1 = j - 1
      BY <1>5, <2>4 DEF OncePerKey
    <3> QED
      BY <1>0, <2>4, <3>1
  <2> QED
    BY <1>6, <2>1, <2>2, <2>3, <2>4
<1> QED
  BY <1>2, <1>3, <1>7, <1>8

(* Where a key is, and what the cache is without its entry.                *)
LEMMA WithoutShape ==
  ASSUME NEW S, NEW c \in Seq(S), OncePerKey(c), NEW k, k \in Keys(c)
  PROVE  /\ \E i \in 1 .. Len(c) : Entry(c, k) = c[i] /\ c[i].key = k
         /\ Without(c, k) \in Seq(S) /\ OncePerKey(Without(c, k))
         /\ \A i \in 1 .. Len(Without(c, k)) :
              \E j \in 1 .. Len(c) : Without(c, k)[i] = c[j] /\ c[j].key # k
<1>1. DOMAIN c = 1 .. Len(c) /\ Len(c) \in Nat
  BY LenProperties
<1>2. Place(c, k) \in 1 .. Len(c) /\ c[Place(c, k)].key = k
  BY <1>1 DEF Keys, Place
<1>3. PICK p \in 1 .. Len(c) : p = Place(c, k) /\ c[p].key = k
  BY <1>2
<1>4. PICK t : t = RemoveAt(c, p)
  OBVIOUS
<1>5. /\ t \in Seq(S) /\ Len(t) = Len(c) - 1
      /\ \A i \in 1 .. Len(c) - 1 : t[i] = IF i < p THEN c[i] ELSE c[i + 1]
  BY <1>4, RemoveAtShape
<1>6. ASSUME NEW i \in 1 .. Len(t)
      PROVE  LET j == IF i < p THEN i ELSE i + 1 IN j \in 1 .. Len(c) /\ j # p /\ t[i] = c[j]
  BY <1>1, <1>5
<1>7. \A i \in 1 .. Len(t) : \E j \in 1 .. Len(c) : t[i] = c[j] /\ c[j].key # k
  <2> SUFFICES ASSUME NEW i \in 1 .. Len(t)
               PROVE  \E j \in 1 .. Len(c) : t[i] = c[j] /\ c[j].key # k
    OBVIOUS
  <2>1. PICK j \in 1 .. Len(c) : j # p /\ t[i] = c[j]
    BY <1>6
  <2> QED
    BY <1>3, <2>1 DEF OncePerKey
<1>8. OncePerKey(t)
  <2> SUFFICES ASSUME NEW i \in 1 .. Len(t), NEW j \in 1 .. Len(t), t[i].key = t[j].key PROVE i = j
    BY DEF OncePerKey
  <2>1. PICK m : m = IF i < p THEN i ELSE i + 1
    OBVIOUS
  <2>2. PICK n : n = IF j < p THEN j ELSE j + 1
    OBVIOUS
  <2>3. m \in 1 .. Len(c) /\ n \in 1 .. Len(c) /\ t[i] = c[m] /\ t[j] = c[n]
    BY <1>6, <2>1, <2>2
  <2>4. m = n
    BY <2>3 DEF OncePerKey
  <2> QED
    BY <1>5, <2>1, <2>2, <2>4
<1>9. Entry(c, k) = c[p] /\ Without(c, k) = t
  BY <1>3, <1>4 DEF Entry, Without
<1> QED
  BY <1>3, <1>5, <1>7, <1>8, <1>9

(* Looking a key up moves its entry and no more.                           *)
LEMMA GetShape ==
  ASSUME NEW S, NEW c \in Seq(S), OncePerKey(c), NEW k
  PROVE  /\ Get(c, k) \in Seq(S) /\ OncePerKey(Get(c, k))
         /\ \A i \in 1 .. Len(Get(c, k)) : \E j \in 1 .. Len(c) : Get(c, k)[i] = c[j]
<1>1. CASE k \notin Keys(c)
  BY <1>1 DEF Get
<1>2. CASE k \in Keys(c)
  <2>1. PICK t : /\ t = Without(c, k) /\ t \in Seq(S) /\ OncePerKey(t)
                 /\ \A i \in 1 .. Len(t) : \E j \in 1 .. Len(c) : t[i] = c[j] /\ c[j].key # k
    BY <1>2, WithoutShape
  <2>2. PICK e \in 1 .. Len(c) : Entry(c, k) = c[e] /\ c[e].key = k
    BY <1>2, WithoutShape
  <2>4. c[e] \in S /\ \A i \in 1 .. Len(t) : t[i].key # c[e].key
    BY <2>1, <2>2, ElementOfSeq
  <2>5. /\ <<c[e]>> \o t \in Seq(S) /\ OncePerKey(<<c[e]>> \o t)
        /\ \A i \in 1 .. Len(<<c[e]>> \o t) :
             (<<c[e]>> \o t)[i] = c[e] \/ \E j \in 1 .. Len(t) : (<<c[e]>> \o t)[i] = t[j]
    BY <2>1, <2>4, NewestShape
  <2>6. Get(c, k) = <<c[e]>> \o t
    BY <1>2, <2>1, <2>2 DEF Get, Touch
  <2>7. PICK g : g = Get(c, k)
    OBVIOUS
  <2>8. \A i \in 1 .. Len(g) : \E j \in 1 .. Len(c) : g[i] = c[j]
    BY <2>1, <2>2, <2>5, <2>6, <2>7
  <2> QED
    BY <2>5, <2>6, <2>7, <2>8
<1> QED
  BY <1>1, <1>2

(* A full cache loses its oldest entry.                                    *)
LEMMA RoomShape ==
  ASSUME NEW S, NEW c \in Seq(S), OncePerKey(c), NEW cap \in Nat \ {0}
  PROVE  LET t == IF Len(c) >= cap THEN Front(c) ELSE c IN
         /\ t \in Seq(S) /\ OncePerKey(t)
         /\ \A i \in 1 .. Len(t) : i \in 1 .. Len(c) /\ t[i] = c[i]
<1>1. Len(c) \in Nat /\ \A i \in 1 .. Len(c) : c[i] \in S
  BY LenProperties, ElementOfSeq
<1>2. CASE Len(c) >= cap
  <2>1. PICK n \in Nat : n = Len(c) - 1
    BY <1>1, <1>2
  <2>2. PICK t : t = SubSeq(c, 1, n)
    OBVIOUS
  <2>3. \A i \in 1 .. n : i \in 1 .. Len(c) /\ c[i] \in S
    BY <1>1, <2>1
  <2>4. t \in Seq(S) /\ Len(t) = n /\ \A i \in 1 .. n : t[i] = c[i]
    <3>1. 1 \in Int /\ n \in Int
      OBVIOUS
    <3>2. /\ t \in Seq(S) /\ Len(t) = (IF 1 <= n THEN n - 1 + 1 ELSE 0)
          /\ \A i \in 1 .. n - 1 + 1 : t[i] = c[1 + i - 1]
      BY <2>2, <2>3, <3>1, SubSeqProperties
    <3>3. Len(t) = n
      BY <3>2
    <3>4. ASSUME NEW i \in 1 .. n PROVE t[i] = c[i]
      <4>1. i \in 1 .. n - 1 + 1 /\ 1 + i - 1 = i
        OBVIOUS
      <4> QED
        BY <3>2, <4>1
    <3> QED
      BY <3>2, <3>3, <3>4
  <2>5. \A i \in 1 .. Len(t) : i \in 1 .. Len(c) /\ t[i] = c[i]
    BY <2>3, <2>4
  <2>6. OncePerKey(t)
    BY <2>5 DEF OncePerKey
  <2> QED
    BY <1>2, <2>1, <2>2, <2>4, <2>5, <2>6 DEF Front
<1>3. CASE ~(Len(c) >= cap)
  BY <1>3
<1> QED
  BY <1>2, <1>3

(* The entry that one put leaves for its key.                              *)
NewEntry(c, k, half, value) ==
  IF k \in Keys(c) THEN [Entry(c, k) EXCEPT ![half] = <<value>>]
  ELSE [[key |-> k, first |-> Absent, second |-> Absent] EXCEPT ![half] = <<value>>]

(* A put leaves that entry, and otherwise entries that were there.         *)
LEMMA PutShape ==
  ASSUME NEW S, NEW c \in Seq(S), OncePerKey(c), NEW cap \in Nat \ {0},
         NEW k, NEW half, NEW value, NEW e \in S, e = NewEntry(c, k, half, value), e.key = k
  PROVE  /\ PutHalf(c, cap, k, half, value) \in Seq(S)
         /\ OncePerKey(PutHalf(c, cap, k, half, value))
         /\ \A i \in 1 .. Len(PutHalf(c, cap, k, half, value)) :
              \/ PutHalf(c, cap, k, half, value)[i] = e
              \/ \E j \in 1 .. Len(c) : PutHalf(c, cap, k, half, value)[i] = c[j] /\ c[j].key # k
<1>1. PICK t : t = IF k \in Keys(c) THEN Without(c, k)
                   ELSE IF Len(c) >= cap THEN Front(c) ELSE c
  OBVIOUS
<1>2. PutHalf(c, cap, k, half, value) = <<e>> \o t
  BY <1>1 DEF PutHalf, Add, NewEntry
<1>3. /\ t \in Seq(S) /\ OncePerKey(t)
      /\ \A i \in 1 .. Len(t) : \E j \in 1 .. Len(c) : t[i] = c[j] /\ c[j].key # k
  <2>1. CASE k \in Keys(c)
    BY <1>1, <2>1, WithoutShape
  <2>2. CASE k \notin Keys(c)
    <3>1. \A j \in 1 .. Len(c) : c[j].key # k
      BY <2>2, LenProperties DEF Keys
    <3>2. /\ t \in Seq(S) /\ OncePerKey(t)
          /\ \A i \in 1 .. Len(t) : i \in 1 .. Len(c) /\ t[i] = c[i]
      BY <1>1, <2>2, RoomShape
    <3> QED
      BY <3>1, <3>2
  <2> QED
    BY <2>1, <2>2
<1>4. \A i \in 1 .. Len(t) : t[i].key # e.key
  BY <1>3
<1>5. PICK r : /\ r = <<e>> \o t /\ r \in Seq(S) /\ OncePerKey(r)
               /\ \A i \in 1 .. Len(r) : r[i] = e \/ \E j \in 1 .. Len(t) : r[i] = t[j]
  <2>1. /\ <<e>> \o t \in Seq(S) /\ OncePerKey(<<e>> \o t)
        /\ \A i \in 1 .. Len(<<e>> \o t) :
             (<<e>> \o t)[i] = e \/ \E j \in 1 .. Len(t) : (<<e>> \o t)[i] = t[j]
    BY <1>3, <1>4, NewestShape
  <2> QED
    BY <2>1
<1>6. \A i \in 1 .. Len(r) : r[i] = e \/ \E j \in 1 .. Len(c) : r[i] = c[j] /\ c[j].key # k
  BY <1>3, <1>5
<1> QED
  BY <1>2, <1>5, <1>6

------------------------------------------------------------------------------
(* A poll that has put the identity only.                                  *)
HalfWay(w) == \E x : ids[w] = <<x, x>>

(* Which keys an entry may be filed under in disorder.                     *)
Excused == unsure \cup torn

(* An entry is in the midst of its two puts, by the one poll that holds    *)
(* its key, or it is whole and nobody holds it.                            *)
InMidst(w, e) ==
  key[w] = e.key /\ HalfWay(w) /\ e.first = <<ids[w][1]>> /\ e.second = Absent
Settled(e) ==
  /\ \E x : e.first = <<x>> /\ e.second = <<Identify(x)>>
  /\ \A w \in Pollers : key[w] # e.key

(* The strengthening of HalvesAgree.                                       *)
IsCache(c) ==
  /\ \E A, B : c \in Seq([key : A, first : B, second : B])
  /\ OncePerKey(c)
  /\ \A i \in 1 .. Len(c) : c[i].key # <<>>
CacheInv == IsCache(cache)
PollInv ==
  /\ key = [w \in Pollers |-> key[w]] /\ ids = [w \in Pollers |-> ids[w]]
  /\ \A w \in Pollers : ids[w] = <<>> \/ (\E x : ids[w] = <<x>>) \/ HalfWay(w)
  /\ \A w \in Pollers : key[w] = <<>> => ids[w] = <<>>
OneHolder ==
  \A w, v \in Pollers : key[w] = key[v] /\ key[w] # <<>> /\ key[w] \notin Excused => w = v
InOrder(e) ==
  e.key \notin Excused => Settled(e) \/ \E w \in Pollers : InMidst(w, e)
EntriesInv == \A i \in 1 .. Len(cache) : InOrder(cache[i])
FilingInv == CacheInv /\ PollInv /\ OneHolder /\ EntriesInv

(* At the start nothing is filed.                                          *)
LEMMA InitFiling == Init => FilingInv
<1> SUFFICES ASSUME Init PROVE FilingInv
  OBVIOUS
<1>1. cache = <<>> /\ Len(<<>>) = 0 /\ \A S : <<>> \in Seq(S)
  BY EmptySeq DEF Init
<1>2. CacheInv /\ EntriesInv
  <2>1. \A i : i \notin 1 .. Len(cache)
    BY <1>1
  <2>2. \E A, B : cache \in Seq([key : A, first : B, second : B])
    BY <1>1
  <2> QED
    BY <2>1, <2>2 DEF CacheInv, IsCache, EntriesInv, OncePerKey
<1>3. PollInv /\ OneHolder
  BY DEF Init, PollInv, OneHolder
<1> QED
  BY <1>2, <1>3 DEF FilingInv

(* The steps that leave the cache and what each poll holds alone.          *)
LEMMA IdleKeepsFiling ==
  FilingInv /\ UNCHANGED <<cache, key, ids, unsure, torn>> => FilingInv'
<1> SUFFICES ASSUME FilingInv, UNCHANGED <<cache, key, ids, unsure, torn>> PROVE FilingInv'
  OBVIOUS
<1>1. CacheInv' /\ PollInv' /\ OneHolder'
  BY DEF FilingInv, CacheInv, IsCache, PollInv, OneHolder, OncePerKey, Excused, HalfWay
<1>2. EntriesInv'
  BY DEF FilingInv, EntriesInv, InOrder, Excused, Settled, InMidst, HalfWay
<1> QED
  BY <1>1, <1>2 DEF FilingInv

(* What each step does to one entry is enough to know.                     *)
LEMMA EntryWise ==
  ASSUME \A e : (\E i \in 1 .. Len(cache') : e = cache'[i]) => InOrder(e)'
  PROVE  EntriesInv'
BY DEF EntriesInv, InOrder, Settled, InMidst

(* A look that finds a whole entry takes nothing; one that does not takes  *)
(* a key, which then has no entry, or was excused.                         *)
LEMMA LookupKeepsFiling ==
  ASSUME FilingInv, NEW w \in Pollers, Lookup(w)
  PROVE  FilingInv'
<1>1. PICK k : /\ k = CacheKey(Now, Head(todo[w])) /\ cache' = Get(cache, k)
               /\ \/ HasHalf(cache, k, "first") /\ HasHalf(cache, k, "second")
                     /\ UNCHANGED <<key, unsure>>
                  \/ ~(HasHalf(cache, k, "first") /\ HasHalf(cache, k, "second"))
                     /\ key' = [key EXCEPT ![w] = k] /\ unsure \subseteq unsure'
                     /\ (k \in Range(key) => k \in unsure')
  BY DEF Lookup
<1>2. key[w] = <<>> /\ UNCHANGED <<ids, torn>>
  BY DEF Lookup
<1>3. PICK A : \E B : cache \in Seq([key : A, first : B, second : B])
  BY DEF FilingInv, CacheInv, IsCache
<1>4. PICK B : cache \in Seq([key : A, first : B, second : B])
  BY <1>3
<1>5. PICK S : S = [key : A, first : B, second : B]
  OBVIOUS
<1>6. /\ cache' \in Seq(S) /\ OncePerKey(cache')
      /\ \A i \in 1 .. Len(cache') : \E j \in 1 .. Len(cache) : cache'[i] = cache[j]
  BY <1>1, <1>4, <1>5, GetShape DEF FilingInv, CacheInv, IsCache
<1>7. CacheInv'
  BY <1>5, <1>6 DEF FilingInv, CacheInv, IsCache, OncePerKey
<1>8. CASE UNCHANGED <<key, unsure>>
  <2>1. PollInv' /\ OneHolder'
    BY <1>2, <1>8 DEF FilingInv, PollInv, OneHolder, Excused, HalfWay
  <2>2. ASSUME NEW e, \E i \in 1 .. Len(cache') : e = cache'[i]
        PROVE  InOrder(e)'
    <3>1. InOrder(e)
      BY <1>6, <2>2 DEF FilingInv, EntriesInv
    <3> QED
      BY <1>2, <1>8, <3>1 DEF InOrder, Excused, Settled, InMidst, HalfWay
  <2> QED
    BY <1>7, <2>1, <2>2, EntryWise DEF FilingInv
<1>9. CASE /\ ~(HasHalf(cache, k, "first") /\ HasHalf(cache, k, "second"))
           /\ key' = [key EXCEPT ![w] = k] /\ unsure \subseteq unsure'
           /\ (k \in Range(key) => k \in unsure')
  <2>1. ids[w] = <<>>
    BY <1>2 DEF FilingInv, PollInv
  <2>2. /\ key' = [v \in Pollers |-> key'[v]]
        /\ \A v \in Pollers : key'[v] = IF v = w THEN k ELSE key[v]
    BY <1>9 DEF FilingInv, PollInv
  <2>3. PollInv'
    BY <1>2, <2>1, <2>2 DEF FilingInv, PollInv, HalfWay
  <2>4. ~(k \in unsure') => \A v \in Pollers : key[v] # k
    BY <1>9 DEF Range, FilingInv, PollInv
  <2>5. OneHolder'
    BY <1>2, <1>9, <2>2, <2>4 DEF FilingInv, OneHolder, Excused
  <2>6. ASSUME NEW i \in 1 .. Len(cache), cache[i].key = k
        PROVE  k \in Excused'
    <3> SUFFICES ASSUME ~(k \in Excused') PROVE FALSE
      OBVIOUS
    <3>1. k \notin Excused /\ ~(k \in unsure')
      BY <1>2, <1>9 DEF Excused
    <3>2. PICK x : cache[i].first = <<x>> /\ cache[i].second = <<Identify(x)>>
      BY <2>4, <2>6, <3>1 DEF FilingInv, EntriesInv, InOrder, InMidst, Settled
    <3>3. k \in Keys(cache) /\ Entry(cache, k) = cache[i]
      <4>1. DOMAIN cache = 1 .. Len(cache)
        BY <1>4, LenProperties
      <4>2. k \in Keys(cache)
        BY <2>6, <4>1 DEF Keys
      <4>3. PICK j \in 1 .. Len(cache) : Entry(cache, k) = cache[j] /\ cache[j].key = k
        BY <1>4, <4>2, WithoutShape DEF FilingInv, CacheInv, IsCache
      <4>4. i = j
        BY <2>6, <4>3 DEF FilingInv, CacheInv, IsCache, OncePerKey
      <4> QED
        BY <4>2, <4>3, <4>4
    <3>4. \A y : <<y>> # <<>>
      OBVIOUS
    <3> QED
      BY <1>9, <3>2, <3>3, <3>4 DEF HasHalf, Absent
  <2>7. ASSUME NEW e, \E i \in 1 .. Len(cache') : e = cache'[i]
        PROVE  InOrder(e)'
    <3> SUFFICES ASSUME ~(e.key \in Excused')
                 PROVE  Settled(e)' \/ \E v \in Pollers : InMidst(v, e)'
      BY DEF InOrder
    <3>1. PICK i \in 1 .. Len(cache) : e = cache[i]
      BY <1>6, <2>7
    <3>2. e.key # k /\ e.key # <<>>
      BY <2>6, <3>1 DEF FilingInv, CacheInv, IsCache
    <3>3. e.key \notin Excused /\ InOrder(e)
      BY <1>2, <1>9, <3>1 DEF Excused, FilingInv, EntriesInv
    <3>4. CASE Settled(e)
      BY <2>2, <3>2, <3>4 DEF Settled
    <3>5. ASSUME NEW v \in Pollers, InMidst(v, e)
          PROVE  InMidst(v, e)'
      <4>1. v # w
        BY <1>2, <3>2, <3>5 DEF InMidst
      <4> QED
        BY <1>2, <2>2, <3>5, <4>1 DEF InMidst, HalfWay
    <3> QED
      BY <3>3, <3>4, <3>5 DEF InOrder
  <2> QED
    BY <1>7, <2>3, <2>5, <2>7, EntryWise DEF FilingInv
<1> QED
  BY <1>1, <1>8, <1>9

(* Reading adds one half to what a poll holds, or excuses its key.         *)
LEMMA EnrichKeepsFiling ==
  ASSUME FilingInv, NEW w \in Pollers, NEW outcome, Enrich(w, outcome)
  PROVE  FilingInv'
<1>1. PICK x : ids' = [ids EXCEPT ![w] = <<x>>]
  BY DEF Enrich
<1>2. key[w] # <<>> /\ ids[w] = <<>> /\ UNCHANGED <<cache, key, torn>> /\ unsure \subseteq unsure'
  BY DEF Enrich
<1>3. /\ ids' = [v \in Pollers |-> ids'[v]]
      /\ \A v \in Pollers : ids'[v] = IF v = w THEN <<x>> ELSE ids[v]
  BY <1>1 DEF FilingInv, PollInv
<1>4. PollInv'
  BY <1>2, <1>3 DEF FilingInv, PollInv, HalfWay
<1>5. CacheInv' /\ OneHolder'
  BY <1>2 DEF FilingInv, CacheInv, IsCache, OncePerKey, OneHolder, Excused
<1>6. ASSUME NEW e, \E i \in 1 .. Len(cache') : e = cache'[i]
      PROVE  InOrder(e)'
  <2> SUFFICES ASSUME ~(e.key \in Excused')
               PROVE  Settled(e)' \/ \E v \in Pollers : InMidst(v, e)'
    BY DEF InOrder
  <2>1. e.key \notin Excused /\ InOrder(e)
    BY <1>2, <1>6 DEF Excused, FilingInv, EntriesInv
  <2>2. CASE Settled(e)
    BY <1>2, <2>2 DEF Settled
  <2>3. ASSUME NEW v \in Pollers, InMidst(v, e)
        PROVE  InMidst(v, e)'
    <3>1. v # w
      BY <1>2, <2>3 DEF InMidst, HalfWay
    <3> QED
      BY <1>2, <1>3, <2>3, <3>1 DEF InMidst, HalfWay
  <2> QED
    BY <2>1, <2>2, <2>3 DEF InOrder
<1> QED
  BY <1>4, <1>5, <1>6, EntryWise DEF FilingInv

(* How far a poll is shows in how much it holds.                           *)
LEMMA StagesByLength ==
  ASSUME PollInv, NEW w \in Pollers
  PROVE  /\ Len(ids[w]) = 1 => \E x : ids[w] = <<x>>
         /\ Len(ids[w]) = 2 => HalfWay(w)
         /\ Len(ids[w]) \in {1, 2} => key[w] # <<>>
<1>1. Len(<<>>) = 0 /\ \A x : Len(<<x>>) = 1 /\ Len(<<x, x>>) = 2
  OBVIOUS
<1> QED
  BY <1>1 DEF PollInv, HalfWay

(* A cache with the entry new, and otherwise entries of another cache.     *)
FiledInto(c, d, k, new) ==
  /\ IsCache(d) /\ new.key = k
  /\ \A e : (\E i \in 1 .. Len(d) : e = d[i]) =>
       \/ e = new
       \/ e.key # k /\ \E i \in 1 .. Len(c) : e = c[i]

(* What a put makes of the cache, for the record that it leaves.           *)
LEMMA PutInCache ==
  ASSUME NEW c, IsCache(c), NEW k, k # <<>>, NEW half \in {"first", "second"}, NEW value,
         NEW d, d = PutHalf(c, CacheCapacity, k, half, value)
  PROVE  FiledInto(c, d, k, NewEntry(c, k, half, value))
<1>1. PICK A : \E B : c \in Seq([key : A, first : B, second : B])
  BY DEF IsCache
<1>2. PICK B : c \in Seq([key : A, first : B, second : B])
  BY <1>1
<1>3. PICK A2 : A2 = A \cup {k}
  OBVIOUS
<1>4. PICK B2 : B2 = B \cup {<<value>>, <<>>}
  OBVIOUS
<1>5. PICK S : S = [key : A2, first : B2, second : B2]
  OBVIOUS
<1>6. c \in Seq(S)
  <2>1. [key : A, first : B, second : B] \subseteq S
    BY <1>3, <1>4, <1>5
  <2> QED
    BY <1>2, <2>1, SeqMonotonic
<1>7. PICK new : new = NewEntry(c, k, half, value)
  OBVIOUS
<1>8. new \in S /\ new.key = k
  <2>1. k \in A2 /\ <<value>> \in B2 /\ <<>> \in B2
    BY <1>3, <1>4
  <2>2. CASE k \in Keys(c)
    <3>1. PICK i \in 1 .. Len(c) : Entry(c, k) = c[i] /\ c[i].key = k
      BY <1>6, <2>2, WithoutShape DEF IsCache
    <3>2. PICK e \in S : e = Entry(c, k) /\ e.key = k
      BY <1>6, <3>1, ElementOfSeq
    <3>3. new = [e EXCEPT ![half] = <<value>>]
      BY <1>7, <2>2, <3>2 DEF NewEntry
    <3>4. CASE half = "first"
      BY <1>5, <2>1, <3>2, <3>3, <3>4
    <3>5. CASE half = "second"
      BY <1>5, <2>1, <3>2, <3>3, <3>5
    <3> QED
      BY <3>4, <3>5
  <2>3. CASE k \notin Keys(c)
    <3>1. PICK e : e = [key |-> k, first |-> <<>>, second |-> <<>>]
      OBVIOUS
    <3>2. e \in S /\ e.key = k
      BY <1>5, <2>1, <3>1
    <3>3. new = [e EXCEPT ![half] = <<value>>]
      BY <1>7, <2>3, <3>1 DEF NewEntry, Absent
    <3>4. CASE half = "first"
      BY <1>5, <2>1, <3>2, <3>3, <3>4
    <3>5. CASE half = "second"
      BY <1>5, <2>1, <3>2, <3>3, <3>5
    <3> QED
      BY <3>4, <3>5
  <2> QED
    BY <2>2, <2>3
<1>9. CacheCapacity \in Nat \ {0}
  BY IdentificationAssumption
<1>10. PICK r : /\ r = PutHalf(c, CacheCapacity, k, half, value) /\ r \in Seq(S) /\ OncePerKey(r)
                /\ \A i \in 1 .. Len(r) :
                     r[i] = new \/ \E j \in 1 .. Len(c) : r[i] = c[j] /\ c[j].key # k
  BY <1>6, <1>7, <1>8, <1>9, PutShape DEF IsCache
<1>11. d = r
  BY <1>10
<1>12. \A i \in 1 .. Len(r) : r[i].key # <<>>
  BY <1>8, <1>10 DEF IsCache
<1>13. IsCache(d)
  <2>1. \E A1, B1 : r \in Seq([key : A1, first : B1, second : B1])
    BY <1>5, <1>10
  <2>2. IsCache(r)
    BY <1>10, <1>12, <2>1 DEF IsCache
  <2> QED
    BY <1>11, <2>2
<1> QED
  BY <1>7, <1>8, <1>10, <1>11, <1>13 DEF FiledInto

(* The identity goes into an entry of its own, for nobody else holds the   *)
(* key, and no entry was there when it was taken.                          *)
LEMMA PutIdentityKeepsFiling ==
  ASSUME FilingInv, NEW w \in Pollers, PutIdentity(w)
  PROVE  FilingInv'
<1>1. PICK k : k = key[w]
  OBVIOUS
<1>2. PICK x : ids[w] = <<x>>
  BY StagesByLength DEF PutIdentity, FilingInv
<1>3. /\ k # <<>> /\ cache' = PutHalf(cache, CacheCapacity, k, "first", x)
      /\ UNCHANGED <<key, unsure, torn>> /\ ids' = [ids EXCEPT ![w] = <<x, x>>]
  <2>1. <<x>>[1] = x /\ Append(<<x>>, x) = <<x, x>>
    <3>1. /\ <<x>> \in Seq({x}) /\ Len(<<x>>) = 1 /\ <<x>>[1] = x
          /\ <<x, x>> \in Seq({x}) /\ Len(<<x, x>>) = 2 /\ <<x, x>>[1] = x /\ <<x, x>>[2] = x
      OBVIOUS
    <3>2. PICK t : t = Append(<<x>>, x)
      OBVIOUS
    <3>3. t \in Seq({x}) /\ Len(t) = 2 /\ t[1] = x /\ t[2] = x
      BY <3>1, <3>2, AppendProperties
    <3>4. \A i \in 1 .. Len(t) : t[i] = <<x, x>>[i]
      BY <3>1, <3>3
    <3>5. t = <<x, x>>
      BY <3>1, <3>3, <3>4, SeqEqual
    <3> QED
      BY <3>1, <3>2, <3>5
  <2>2. Len(ids[w]) = 1
    BY DEF PutIdentity
  <2>3. k # <<>>
    BY <1>1, <2>2, StagesByLength DEF FilingInv
  <2> QED
    BY <1>1, <1>2, <2>1, <2>3 DEF PutIdentity
<1>4. PICK new : new = NewEntry(cache, k, "first", x)
  OBVIOUS
<1>5. /\ CacheInv' /\ new.key = k
      /\ \A e : (\E i \in 1 .. Len(cache') : e = cache'[i]) =>
           \/ e = new
           \/ e.key # k /\ \E i \in 1 .. Len(cache) : e = cache[i]
  <2>1. IsCache(cache) /\ "first" \in {"first", "second"} /\ k # <<>>
        /\ cache' = PutHalf(cache, CacheCapacity, k, "first", x)
    BY <1>3 DEF FilingInv, CacheInv
  <2>2. PICK half : half \in {"first", "second"} /\ half = "first"
    OBVIOUS
  <2>3. PICK d : d = cache' /\ d = PutHalf(cache, CacheCapacity, k, half, x)
    BY <2>1, <2>2
  <2>4. FiledInto(cache, d, k, NewEntry(cache, k, half, x))
    BY <2>1, <2>2, <2>3, PutInCache
  <2> QED
    BY <1>4, <2>2, <2>3, <2>4 DEF CacheInv, FiledInto
<1>6. /\ ids' = [v \in Pollers |-> ids'[v]]
      /\ \A v \in Pollers : ids'[v] = IF v = w THEN <<x, x>> ELSE ids[v]
  BY <1>3 DEF FilingInv, PollInv
<1>7. PollInv'
  BY <1>1, <1>3, <1>6 DEF FilingInv, PollInv, HalfWay
<1>8. OneHolder'
  BY <1>3 DEF FilingInv, OneHolder, Excused
<1>9. ~HalfWay(w)
  <2>1. \A y : <<x>> # <<y, y>>
    OBVIOUS
  <2> QED
    BY <1>2, <2>1 DEF HalfWay
<1>10. k \notin Excused => k \notin Keys(cache)
  <2> SUFFICES ASSUME k \notin Excused, k \in Keys(cache) PROVE FALSE
    OBVIOUS
  <2>1. PICK i \in 1 .. Len(cache) : cache[i].key = k
    BY LenProperties DEF Keys, FilingInv, CacheInv, IsCache
  <2>2. PICK v \in Pollers : InMidst(v, cache[i])
    BY <1>1, <2>1 DEF FilingInv, EntriesInv, InOrder, Settled
  <2>3. v = w
    BY <1>1, <1>3, <2>1, <2>2 DEF InMidst, FilingInv, OneHolder
  <2> QED
    BY <1>9, <2>2, <2>3 DEF InMidst
<1>11. ASSUME k \notin Excused
       PROVE  InMidst(w, new)'
  <2>1. new = [[key |-> k, first |-> <<>>, second |-> <<>>] EXCEPT !["first"] = <<x>>]
    BY <1>4, <1>10, <1>11 DEF NewEntry, Absent
  <2>2. new.first = <<x>> /\ new.second = <<>>
    BY <2>1
  <2>3. <<x, x>>[1] = x
    OBVIOUS
  <2> QED
    BY <1>1, <1>3, <1>5, <1>6, <2>2, <2>3 DEF InMidst, HalfWay, Absent
<1>12. ASSUME NEW e, \E i \in 1 .. Len(cache') : e = cache'[i]
       PROVE  InOrder(e)'
  <2> SUFFICES ASSUME ~(e.key \in Excused')
               PROVE  Settled(e)' \/ \E v \in Pollers : InMidst(v, e)'
    BY DEF InOrder
  <2>0. e.key \notin Excused
    BY <1>3 DEF Excused
  <2>1. CASE e = new
    BY <1>5, <1>11, <2>0, <2>1
  <2>2. CASE e # new
    <3>1. e.key # k /\ InOrder(e)
      BY <1>5, <1>12, <2>2 DEF FilingInv, EntriesInv
    <3>2. CASE Settled(e)
      BY <1>3, <3>2 DEF Settled
    <3>3. ASSUME NEW v \in Pollers, InMidst(v, e)
          PROVE  InMidst(v, e)'
      <4>1. v # w
        BY <1>1, <3>1, <3>3 DEF InMidst
      <4> QED
        BY <1>3, <1>6, <3>3, <4>1 DEF InMidst, HalfWay
    <3> QED
      BY <2>0, <3>1, <3>2, <3>3 DEF InOrder
  <2> QED
    BY <2>1, <2>2
<1> QED
  BY <1>5, <1>7, <1>8, <1>12, EntryWise DEF FilingInv

(* The verdict joins the identity it was given for, or the entry has gone  *)
(* and its key is excused; either way nobody holds the key any more.       *)
LEMMA PutIdentificationKeepsFiling ==
  ASSUME FilingInv, NEW w \in Pollers, PutIdentification(w)
  PROVE  FilingInv'
<1>1. PICK k : k = key[w]
  OBVIOUS
<1>2. PICK x : ids[w] = <<x, x>>
  BY StagesByLength DEF PutIdentification, FilingInv, HalfWay
<1>3. PICK res : res = Identify(x)
  OBVIOUS
<1>4. /\ k # <<>> /\ cache' = PutHalf(cache, CacheCapacity, k, "second", res)
      /\ torn' = torn \cup ({k} \ Keys(cache)) /\ UNCHANGED unsure
      /\ ids' = [ids EXCEPT ![w] = <<>>] /\ key' = [key EXCEPT ![w] = <<>>]
  <2>1. <<x, x>>[1] = x
    OBVIOUS
  <2>2. Len(ids[w]) = 2
    BY DEF PutIdentification
  <2>3. k # <<>>
    BY <1>1, <2>2, StagesByLength DEF FilingInv
  <2> QED
    BY <1>1, <1>2, <1>3, <2>1, <2>3 DEF PutIdentification
<1>5. PICK new : new = NewEntry(cache, k, "second", res)
  OBVIOUS
<1>6. /\ CacheInv' /\ new.key = k
      /\ \A e : (\E i \in 1 .. Len(cache') : e = cache'[i]) =>
           \/ e = new
           \/ e.key # k /\ \E i \in 1 .. Len(cache) : e = cache[i]
  <2>1. IsCache(cache) /\ "second" \in {"first", "second"} /\ k # <<>>
        /\ cache' = PutHalf(cache, CacheCapacity, k, "second", res)
    BY <1>4 DEF FilingInv, CacheInv
  <2>2. PICK half : half \in {"first", "second"} /\ half = "second"
    OBVIOUS
  <2>3. PICK d : d = cache' /\ d = PutHalf(cache, CacheCapacity, k, half, res)
    BY <2>1, <2>2
  <2>4. FiledInto(cache, d, k, NewEntry(cache, k, half, res))
    BY <2>1, <2>2, <2>3, PutInCache
  <2> QED
    BY <1>5, <2>2, <2>3, <2>4 DEF CacheInv, FiledInto
<1>7. /\ ids' = [v \in Pollers |-> ids'[v]] /\ key' = [v \in Pollers |-> key'[v]]
      /\ \A v \in Pollers : ids'[v] = IF v = w THEN <<>> ELSE ids[v]
      /\ \A v \in Pollers : key'[v] = IF v = w THEN <<>> ELSE key[v]
  BY <1>4 DEF FilingInv, PollInv
<1>8. PollInv'
  BY <1>7 DEF FilingInv, PollInv, HalfWay
<1>9. Excused \subseteq Excused'
  BY <1>4 DEF Excused
<1>10. OneHolder'
  BY <1>7, <1>9 DEF FilingInv, OneHolder
<1>11. ASSUME ~(k \in Excused')
       PROVE  Settled(new)'
  <2>1. k \notin Excused /\ k \in Keys(cache)
    BY <1>4, <1>9, <1>11 DEF Excused
  <2>2. PICK i \in 1 .. Len(cache) : Entry(cache, k) = cache[i] /\ cache[i].key = k
    BY <2>1, WithoutShape DEF FilingInv, CacheInv, IsCache
  <2>3. PICK v \in Pollers : InMidst(v, cache[i])
    BY <1>1, <2>1, <2>2 DEF FilingInv, EntriesInv, InOrder, Settled
  <2>4. v = w
    BY <1>1, <1>4, <2>1, <2>2, <2>3 DEF InMidst, FilingInv, OneHolder
  <2>5. cache[i].first = <<x>>
    <3>1. <<x, x>>[1] = x
      OBVIOUS
    <3> QED
      BY <1>2, <2>3, <2>4, <3>1 DEF InMidst
  <2>6. new.first = <<x>> /\ new.second = <<res>>
    <3>1. PICK A : \E B : cache \in Seq([key : A, first : B, second : B])
      BY DEF FilingInv, CacheInv, IsCache
    <3>2. PICK B : cache \in Seq([key : A, first : B, second : B])
      BY <3>1
    <3>3. PICK e \in [key : A, first : B, second : B] : e = cache[i]
      BY <3>2, ElementOfSeq
    <3>4. new = [e EXCEPT !["second"] = <<res>>]
      BY <1>5, <2>1, <2>2, <3>3 DEF NewEntry
    <3> QED
      BY <2>5, <3>3, <3>4
  <2>7. \A u \in Pollers : key'[u] # k
    BY <1>1, <1>4, <1>7, <2>1 DEF FilingInv, OneHolder
  <2> QED
    BY <1>3, <1>6, <2>6, <2>7 DEF Settled
<1>12. ASSUME NEW e, \E i \in 1 .. Len(cache') : e = cache'[i]
       PROVE  InOrder(e)'
  <2> SUFFICES ASSUME ~(e.key \in Excused')
               PROVE  Settled(e)' \/ \E v \in Pollers : InMidst(v, e)'
    BY DEF InOrder
  <2>0. e.key \notin Excused
    BY <1>9
  <2>1. CASE e = new
    BY <1>6, <1>11, <2>1
  <2>2. CASE e # new
    <3>1. e.key # k /\ e.key # <<>> /\ InOrder(e)
      BY <1>6, <1>12, <2>2 DEF FilingInv, EntriesInv, CacheInv, IsCache
    <3>2. CASE Settled(e)
      BY <1>7, <3>1, <3>2 DEF Settled
    <3>3. ASSUME NEW v \in Pollers, InMidst(v, e)
          PROVE  InMidst(v, e)'
      <4>1. v # w
        BY <1>1, <3>1, <3>3 DEF InMidst
      <4> QED
        BY <1>7, <3>3, <4>1 DEF InMidst, HalfWay
    <3> QED
      BY <2>0, <3>1, <3>2, <3>3 DEF InOrder
  <2> QED
    BY <2>1, <2>2
<1> QED
  BY <1>6, <1>8, <1>10, <1>12, EntryWise DEF FilingInv

(* Every step keeps the cache in order.                                    *)
LEMMA FilingStep == FilingInv /\ [Next]_vars => FilingInv'
<1> SUFFICES ASSUME FilingInv, [Next]_vars PROVE FilingInv'
  OBVIOUS
<1>1. ASSUME NEW d, Change(d) PROVE FilingInv'
  BY <1>1, IdleKeepsFiling DEF Change, caches, poll
<1>2. ASSUME NEW w \in Pollers, Discover(w) \/ Extensions(w) \/ Finish(w) PROVE FilingInv'
  BY <1>2, IdleKeepsFiling DEF Discover, Extensions, Finish, caches
<1>3. CASE UNCHANGED vars
  BY <1>3, IdleKeepsFiling DEF vars, caches, poll
<1> QED
  BY <1>1, <1>2, <1>3, LookupKeepsFiling, EnrichKeepsFiling, PutIdentityKeepsFiling,
     PutIdentificationKeepsFiling DEF Next

(* The two halves of an entry are put in two calls, between which another  *)
(* poll can look, put and evict, yet the verdict of an entry is the one of *)
(* its identity, unless its key is excused (engine.go:356-382).            *)
THEOREM EntriesAreWhole == Spec => []HalvesAgree
<1>1. FilingInv => HalvesAgree
  <2> SUFFICES ASSUME FilingInv, NEW i \in DOMAIN cache,
                      cache[i].first # Absent, cache[i].second # Absent,
                      cache[i].key \notin unsure \cup torn
               PROVE  cache[i].second[1] = Identify(cache[i].first[1])
    BY DEF HalvesAgree
  <2>1. i \in 1 .. Len(cache)
    BY LenProperties DEF FilingInv, CacheInv, IsCache
  <2>2. PICK x : cache[i].first = <<x>> /\ cache[i].second = <<Identify(x)>>
    BY <2>1 DEF FilingInv, EntriesInv, InOrder, InMidst, Settled, Excused
  <2>3. \A y : <<y>>[1] = y
    OBVIOUS
  <2> QED
    BY <2>2, <2>3
<1> QED
  BY <1>1, InitFiling, FilingStep, PTL DEF Spec

------------------------------------------------------------------------------
(* The evidence of verdicts.                                               *)

(* What the evidence in a list of it says of application and product.      *)
Seen(app, p, s, m) ==
  /\ s \cap {"signature_valid", "package_provenance", "docker_image", "extension_id"} \subseteq m
  /\ CliStyle(p) => s \subseteq m
  /\ "bundle_id" \in s => "bundle_id" \in m
  /\ CliStyle(p) /\ "package_identity" \in s => "package_provenance" \in m
  /\ "extension_id" \in s => "package_provenance" \in m

LEMMA EvidenceIsSeen ==
  ASSUME NEW app, NEW p
  PROVE  Seen(app, p, Strong(app, p), Matched(app, p))
<1>1. PICK a, o, g : /\ a = Agrees(app, p) /\ o = Observed(app, p) /\ g = Named(app, p) \ Pinned(app, p)
  OBVIOUS
<1>2. PICK s, m : s = Strong(app, p) /\ m = Matched(app, p)
  OBVIOUS
<1>3. /\ s = a \cup o \cup (IF CliStyle(p) THEN {} ELSE g)
      /\ a \cup o \subseteq m
  BY <1>1, <1>2 DEF Strong, Matched
<1>4. g \cap {"signature_valid", "package_provenance", "docker_image", "extension_id"} = {}
  BY <1>1 DEF Named
<1>5. ~CliStyle(p) => "bundle_id" \notin g
  BY <1>1 DEF CliStyle, Pinned, Wanted, Named
<1>6. /\ app.manager # None \/ app.package # None => "package_provenance" \in o
      /\ "extension_id" \in o => app.manager \in ExtensionManagers
      /\ "package_identity" \notin o
  BY <1>1 DEF Observed, ExtensionIDMatches
<1>7. "package_identity" \in a => app.package # None
  BY <1>1 DEF Agrees, Got
<1>8. "extension_id" \notin a
  BY <1>1 DEF Agrees, Pinned, Named
<1>9. None \notin ExtensionManagers
  BY DEF None, ExtensionManagers
<1>10. Seen(app, p, s, m)
  BY <1>3, <1>4, <1>5, <1>6, <1>7, <1>8, <1>9 DEF Seen
<1> QED
  BY <1>2, <1>10

(* A nonempty set of numbers has a least one: of the intervals from 0 to a *)
(* member, one is within no other.                                         *)
LEMMA LeastNumber ==
  ASSUME NEW S, S \subseteq Nat, S # {}
  PROVE  \E x \in S : \A y \in S : x <= y
<1>1. PICK n \in S : n \in Nat
  OBVIOUS
<1>2. PICK T : T = {0 .. m : m \in S \cap (0 .. n)}
  OBVIOUS
<1>3. IsFiniteSet(0 .. n) /\ FiniteSubsetsOf(0 .. n) = SUBSET (0 .. n)
  <2>1. PICK I : I = 0 .. n
    OBVIOUS
  <2>2. IsFiniteSet(I)
    BY <1>1, <2>1, FS_Interval
  <2>3. FiniteSubsetsOf(I) = SUBSET I
    BY <2>2, FS_FiniteSubsetsOfFinite
  <2> QED
    BY <2>1, <2>2, <2>3
<1>4. T \subseteq FiniteSubsetsOf(0 .. n) /\ T # {}
  <2>1. \A m \in 0 .. n : 0 .. m \subseteq 0 .. n
    BY <1>1
  <2>2. n \in S \cap (0 .. n)
    BY <1>1
  <2> QED
    BY <1>2, <1>3, <2>1, <2>2
<1>5. PICK I \in T : \A J \in T : ~(<<J, I>> \in StrictSubsetOrdering(0 .. n))
  BY <1>4, FS_StrictSubsetOrderingWellFounded, WFMin
<1>6. PICK x \in S \cap (0 .. n) : I = 0 .. x
  BY <1>2
<1>7. ASSUME NEW y \in S, y < x PROVE FALSE
  <2>1. y \in 0 .. n /\ x \in Nat
    BY <1>1, <1>6, <1>7
  <2>2. 0 .. y \in T /\ 0 .. y \subseteq 0 .. x /\ 0 .. y # 0 .. x
    BY <1>2, <1>7, <2>1
  <2>3. 0 .. y \subseteq 0 .. n /\ 0 .. x \subseteq 0 .. n
    BY <1>1, <1>6, <2>1
  <2> QED
    BY <1>5, <1>6, <2>2, <2>3 DEF StrictSubsetOrdering
<1> QED
  BY <1>6, <1>7

(* Of alternatives of which one holds, the first that does is chosen.      *)
LEMMA FirstHolds ==
  ASSUME NEW n \in Nat, NEW rungs, DOMAIN rungs = 1 .. n, \E i \in 1 .. n : rungs[i].holds
  PROVE  \E i \in 1 .. n : FirstOf(rungs) = rungs[i] /\ rungs[i].holds
<1>1. PICK S : S = {i \in 1 .. n : rungs[i].holds}
  OBVIOUS
<1>2. PICK x \in S : \A y \in S : x <= y
  <2>1. S \subseteq Nat /\ S # {}
    BY <1>1
  <2> QED
    BY <2>1, LeastNumber
<1>3. rungs[x].holds /\ \A j \in 1 .. x - 1 : ~rungs[j].holds
  BY <1>1, <1>2
<1> QED
  BY <1>1, <1>3 DEF FirstOf

(* What PinsBackVerdicts asks of one result.                               *)
Backed(res) ==
  res.confidence \in {"HIGH", "VERIFIED"} =>
    \E pins \in Backing(res.confidence) : pins \subseteq res.matched

(* A rung of the ladder that gives HIGH or VERIFIED asks for a pin and for *)
(* what makes it count.                                                    *)
LEMMA RungsAreBacked ==
  ASSUME NEW app, NEW p, NEW i \in 1 .. 13, Ladder(app, p)[i].holds,
         Ladder(app, p)[i].level \in {"HIGH", "VERIFIED"}
  PROVE  \E pins \in Backing(Ladder(app, p)[i].level) : pins \subseteq Matched(app, p)
<1>1. PICK s, m : s = Strong(app, p) /\ m = Matched(app, p) /\ Seen(app, p, s, m)
  BY EvidenceIsSeen
<1>2. PICK level : level = Ladder(app, p)[i].level
  OBVIOUS
<1>3. {"bundle_id", "signature_valid"} \subseteq m =>
        \E pins \in Backing(level) : pins \subseteq m
  BY DEF Backing
<1>4. {"package_identity", "package_provenance"} \subseteq m =>
        \E pins \in Backing(level) : pins \subseteq m
  BY DEF Backing
<1>5. {"extension_id", "package_provenance"} \subseteq m =>
        \E pins \in Backing(level) : pins \subseteq m
  BY DEF Backing
<1>6. {"docker_image", "package_provenance"} \subseteq m /\ level = "HIGH" =>
        \E pins \in Backing(level) : pins \subseteq m
  BY DEF Backing
<1>7. /\ i = 1 \/ i = 2 => {"bundle_id", "signature_valid"} \subseteq s
      /\ i = 4 \/ i = 5 => "extension_id" \in s
      /\ i = 6 \/ i = 10 => CliStyle(p) /\ "package_identity" \in s
      /\ i = 7 => {"docker_image", "package_provenance"} \subseteq s /\ level = "HIGH"
      /\ i = 8 => {"bundle_id", "signature_valid"} \subseteq s
      /\ i \notin {3, 9, 11, 12, 13}
  <2>1. Ladder(app, p)[1].holds => {"bundle_id", "signature_valid"} \subseteq s
    BY <1>1 DEF Ladder, Rung
  <2>2. Ladder(app, p)[2].holds => {"bundle_id", "signature_valid"} \subseteq s
    BY <1>1 DEF Ladder, Rung
  <2>3. /\ Ladder(app, p)[4].holds => "extension_id" \in s
        /\ Ladder(app, p)[5].holds => "extension_id" \in s
    BY <1>1 DEF Ladder, Rung
  <2>4. /\ Ladder(app, p)[6].holds => CliStyle(p) /\ "package_identity" \in s
        /\ Ladder(app, p)[10].holds => CliStyle(p) /\ "package_identity" \in s
    BY <1>1 DEF Ladder, Rung
  <2>5. /\ Ladder(app, p)[7].holds => {"docker_image", "package_provenance"} \subseteq s
        /\ Ladder(app, p)[7].level = "HIGH"
    BY <1>1 DEF Ladder, Rung
  <2>6. Ladder(app, p)[8].holds => {"bundle_id", "signature_valid"} \subseteq s
    BY <1>1 DEF Ladder, Rung
  <2>7. \A j \in {3, 9, 11, 12, 13} : Ladder(app, p)[j].level \notin {"HIGH", "VERIFIED"}
    BY DEF Ladder, Rung
  <2> QED
    BY <1>2, <2>1, <2>2, <2>3, <2>4, <2>5, <2>6, <2>7
<1>8. \/ {"bundle_id", "signature_valid"} \subseteq m
      \/ {"package_identity", "package_provenance"} \subseteq m
      \/ {"extension_id", "package_provenance"} \subseteq m
      \/ {"docker_image", "package_provenance"} \subseteq m /\ level = "HIGH"
  BY <1>1, <1>7 DEF Seen
<1> QED
  BY <1>1, <1>2, <1>3, <1>4, <1>5, <1>6, <1>8

(* So the score of a candidate has its pins in its own evidence.           *)
LEMMA ScoresAreBacked ==
  ASSUME NEW app, NEW p
  PROVE  Backed(Score(app, p)) /\ Score(app, p).confidence \in Range(Levels)
<1>1. PICK n \in Nat : n = 13
  OBVIOUS
<1>2. DOMAIN Ladder(app, p) = 1 .. n /\ Ladder(app, p)[n].holds
  BY <1>1 DEF Ladder, Rung
<1>3. PICK i \in 1 .. n : FirstOf(Ladder(app, p)) = Ladder(app, p)[i] /\ Ladder(app, p)[i].holds
  <2>1. PICK rungs : rungs = Ladder(app, p)
    OBVIOUS
  <2>2. n \in 1 .. n
    BY <1>1
  <2>3. \E i \in 1 .. n : FirstOf(rungs) = rungs[i] /\ rungs[i].holds
    BY <1>2, <2>1, <2>2, FirstHolds
  <2> QED
    BY <2>1, <2>3
<1>4. Score(app, p).confidence = Ladder(app, p)[i].level /\ Score(app, p).matched = Matched(app, p)
  BY <1>3 DEF Score
<1>5. Backed(Score(app, p))
  BY <1>1, <1>3, <1>4, RungsAreBacked DEF Backed
<1>6. Ladder(app, p)[i].level \in {"LOW", "MEDIUM", "HIGH", "VERIFIED"}
  BY <1>1 DEF Ladder, Rung
<1>7. {"LOW", "MEDIUM", "HIGH", "VERIFIED"} \subseteq Range(Levels)
  BY DEF Range, Levels
<1> QED
  BY <1>4, <1>5, <1>6, <1>7

(* Levels are ranked from 1 to 5.                                          *)
LEMMA RankIs ==
  ASSUME NEW level \in Range(Levels)
  PROVE  Rank(level) \in 1 .. 5
BY DEF Rank, Range, Levels

(* The best candidate is one of them.                                      *)
LEMMA VerdictsAreBacked == ASSUME NEW app PROVE Backed(Identify(app))
<1>1. PICK C : C = {i \in DOMAIN Catalog : Candidate(app, Catalog[i])}
  OBVIOUS
<1>2. PICK f : f = [i \in C |-> Score(app, Catalog[i])]
  OBVIOUS
<1>3. CASE C = {}
  <2>1. Identify(app) = Unidentified
    BY <1>1, <1>3 DEF Identify
  <2> QED
    BY <2>1 DEF Unidentified, Backed
<1>4. CASE C # {}
  <2>1. C \subseteq Nat
    BY <1>1, MatcherAssumption, LenProperties
  <2>2. PICK r : r = [i \in C |-> Rank(f[i].confidence)]
    OBVIOUS
  <2>3. \A i \in C : r[i] \in 1 .. 5 /\ r[i] = Rank(f[i].confidence)
    BY <1>2, <2>2, ScoresAreBacked, RankIs
  <2>4. PICK S : S = {5 - r[i] : i \in C}
    OBVIOUS
  <2>5. S \subseteq Nat /\ S # {}
    BY <1>4, <2>3, <2>4
  <2>6. PICK low \in S : \A y \in S : low <= y
    BY <2>5, LeastNumber
  <2>7. PICK T : T = {i \in C : 5 - r[i] = low}
    OBVIOUS
  <2>8. T \subseteq Nat /\ T # {}
    BY <2>1, <2>4, <2>6, <2>7
  <2>9. PICK b \in T : \A y \in T : b <= y
    BY <2>8, LeastNumber
  <2>10. b \in C /\ \A j \in C : r[b] > r[j] \/ (r[b] = r[j] /\ b <= j)
    <3> SUFFICES ASSUME NEW j \in C PROVE r[b] > r[j] \/ (r[b] = r[j] /\ b <= j)
      BY <2>7
    <3>1. b \in C /\ 5 - r[b] = low /\ low <= 5 - r[j]
      BY <2>4, <2>6, <2>7
    <3>2. r[b] \in 1 .. 5 /\ r[j] \in 1 .. 5
      BY <2>3, <3>1
    <3>3. CASE 5 - r[j] = low
      BY <2>7, <2>9, <3>1, <3>2, <3>3
    <3> QED
      BY <3>1, <3>2, <3>3
  <2>11. PICK i \in C : Identify(app) = f[i]
    <3>1. b \in C /\ \A j \in C : \/ Rank(f[b].confidence) > Rank(f[j].confidence)
                                  \/ Rank(f[b].confidence) = Rank(f[j].confidence) /\ b <= j
      BY <2>3, <2>10
    <3>2. Identify(app) = f[CHOOSE i \in C : \A j \in C :
                               \/ Rank(f[i].confidence) > Rank(f[j].confidence)
                               \/ Rank(f[i].confidence) = Rank(f[j].confidence) /\ i <= j]
      BY <1>1, <1>2, <1>4 DEF Identify
    <3> QED
      BY <3>1, <3>2
  <2> QED
    BY <1>2, <2>11, ScoresAreBacked
<1> QED
  BY <1>3, <1>4

(* What is kept and what is reported is backed.                            *)
Kept == \A i \in 1 .. Len(cache) :
          cache[i].second # Absent => \E res : cache[i].second = <<res>> /\ Backed(res)
Reported ==
  /\ found = [w \in Pollers |-> found[w]]
  /\ \A w \in Pollers : \A row \in found[w] : Backed(row.res)
BackedInv == Kept /\ Reported

(* A row reported with a result that is backed.                            *)
LEMMA IdentifiedIsBacked ==
  ASSUME Reported, NEW w \in Pollers, NEW app, NEW res, Identified(w, app, res), Backed(res)
  PROVE  Reported'
<1>1. /\ found' = [v \in Pollers |-> found'[v]]
      /\ \A v \in Pollers : found'[v] = IF v = w THEN found[w] \cup {[app |-> app, res |-> res]}
                                        ELSE found[v]
  BY DEF Identified, Reported
<1>2. \A row \in {[app |-> app, res |-> res]} : row.res = res
  OBVIOUS
<1>3. \A v \in Pollers : \A row \in found'[v] : Backed(row.res)
  BY <1>1, <1>2 DEF Reported
<1> QED
  BY <1>1, <1>3 DEF Reported, Backed

(* A hit hands on the verdict that was kept.                               *)
LEMMA LookupKeepsBacked ==
  ASSUME FilingInv, BackedInv, NEW w \in Pollers, Lookup(w)
  PROVE  BackedInv'
<1>1. PICK k : /\ k = CacheKey(Now, Head(todo[w])) /\ cache' = Get(cache, k)
               /\ \/ /\ HasHalf(cache, k, "second")
                     /\ Identified(w, Entry(cache, k).first[1], Entry(cache, k).second[1])
                  \/ UNCHANGED found
  BY DEF Lookup
<1>2. PICK A : \E B : cache \in Seq([key : A, first : B, second : B])
  BY DEF FilingInv, CacheInv, IsCache
<1>3. PICK B : cache \in Seq([key : A, first : B, second : B])
  BY <1>2
<1>4. PICK S : S = [key : A, first : B, second : B]
  OBVIOUS
<1>5. \A i \in 1 .. Len(cache') : \E j \in 1 .. Len(cache) : cache'[i] = cache[j]
  BY <1>1, <1>3, <1>4, GetShape DEF FilingInv, CacheInv, IsCache
<1>6. Kept'
  BY <1>5 DEF BackedInv, Kept, Backed
<1>7. CASE UNCHANGED found
  BY <1>6, <1>7 DEF BackedInv, Reported, Backed
<1>8. CASE /\ HasHalf(cache, k, "second")
           /\ Identified(w, Entry(cache, k).first[1], Entry(cache, k).second[1])
  <2>1. k \in Keys(cache) /\ Entry(cache, k).second # Absent
    BY <1>8 DEF HasHalf
  <2>2. PICK i \in 1 .. Len(cache) : Entry(cache, k) = cache[i]
    BY <1>3, <1>4, <2>1, WithoutShape DEF FilingInv, CacheInv, IsCache
  <2>3. PICK res : cache[i].second = <<res>> /\ Backed(res)
    BY <2>1, <2>2 DEF BackedInv, Kept
  <2>4. <<res>>[1] = res
    OBVIOUS
  <2>5. Entry(cache, k).second[1] = res
    BY <2>2, <2>3, <2>4
  <2>6. Identified(w, Entry(cache, k).first[1], res)
    BY <1>8, <2>5
  <2>7. Reported'
    BY <2>3, <2>6, IdentifiedIsBacked DEF BackedInv
  <2> QED
    BY <1>6, <2>7 DEF BackedInv
<1> QED
  BY <1>1, <1>7, <1>8

(* A put of an identity leaves the verdict of its entry, if there is one.  *)
LEMMA PutIdentityKeepsBacked ==
  ASSUME FilingInv, BackedInv, NEW w \in Pollers, PutIdentity(w)
  PROVE  BackedInv'
<1>1. PICK k, x : k = key[w] /\ x = ids[w][1]
  OBVIOUS
<1>2. k # <<>> /\ cache' = PutHalf(cache, CacheCapacity, k, "first", x) /\ UNCHANGED found
  BY <1>1, StagesByLength DEF PutIdentity, FilingInv
<1>3. PICK new : new = NewEntry(cache, k, "first", x)
  OBVIOUS
<1>4. \A e : (\E i \in 1 .. Len(cache') : e = cache'[i]) =>
         e = new \/ \E i \in 1 .. Len(cache) : e = cache[i]
  <2>1. PICK half : half \in {"first", "second"} /\ half = "first"
    OBVIOUS
  <2>2. PICK d : d = cache' /\ d = PutHalf(cache, CacheCapacity, k, half, x)
    BY <1>2, <2>1
  <2>3. FiledInto(cache, d, k, NewEntry(cache, k, half, x))
    BY <1>2, <2>1, <2>2, PutInCache DEF FilingInv, CacheInv
  <2> QED
    BY <1>3, <2>1, <2>2, <2>3 DEF FiledInto
<1>5. new.second = Absent \/ \E i \in 1 .. Len(cache) : new.second = cache[i].second
  <2>1. PICK A : \E B : cache \in Seq([key : A, first : B, second : B])
    BY DEF FilingInv, CacheInv, IsCache
  <2>2. PICK B : cache \in Seq([key : A, first : B, second : B])
    BY <2>1
  <2>3. CASE k \in Keys(cache)
    <3>1. PICK i \in 1 .. Len(cache) : Entry(cache, k) = cache[i]
      BY <2>2, <2>3, WithoutShape DEF FilingInv, CacheInv, IsCache
    <3>2. PICK e \in [key : A, first : B, second : B] : e = cache[i]
      BY <2>2, ElementOfSeq
    <3>3. new = [e EXCEPT !["first"] = <<x>>]
      BY <1>3, <2>3, <3>1, <3>2 DEF NewEntry
    <3> QED
      BY <3>2, <3>3
  <2>4. CASE k \notin Keys(cache)
    <3>1. new = [[key |-> k, first |-> <<>>, second |-> <<>>] EXCEPT !["first"] = <<x>>]
      BY <1>3, <2>4 DEF NewEntry, Absent
    <3> QED
      BY <3>1 DEF Absent
  <2> QED
    BY <2>3, <2>4
<1>6. Kept'
  BY <1>4, <1>5 DEF BackedInv, Kept, Backed
<1> QED
  BY <1>2, <1>6 DEF BackedInv, Reported, Backed

(* A verdict that is put is what the matcher makes of the identity.        *)
LEMMA PutIdentificationKeepsBacked ==
  ASSUME FilingInv, BackedInv, NEW w \in Pollers, PutIdentification(w)
  PROVE  BackedInv'
<1>1. PICK k, x, res : k = key[w] /\ x = ids[w][1] /\ res = Identify(x)
  OBVIOUS
<1>2. /\ k # <<>> /\ cache' = PutHalf(cache, CacheCapacity, k, "second", res)
      /\ Identified(w, x, res)
  BY <1>1, StagesByLength DEF PutIdentification, FilingInv
<1>3. Backed(res)
  BY <1>1, VerdictsAreBacked
<1>4. PICK new : new = NewEntry(cache, k, "second", res)
  OBVIOUS
<1>5. \A e : (\E i \in 1 .. Len(cache') : e = cache'[i]) =>
         e = new \/ \E i \in 1 .. Len(cache) : e = cache[i]
  <2>1. PICK half : half \in {"first", "second"} /\ half = "second"
    OBVIOUS
  <2>2. PICK d : d = cache' /\ d = PutHalf(cache, CacheCapacity, k, half, res)
    BY <1>2, <2>1
  <2>3. FiledInto(cache, d, k, NewEntry(cache, k, half, res))
    BY <1>2, <2>1, <2>2, PutInCache DEF FilingInv, CacheInv
  <2> QED
    BY <1>4, <2>1, <2>2, <2>3 DEF FiledInto
<1>6. new.second = <<res>>
  <2>1. PICK A : \E B : cache \in Seq([key : A, first : B, second : B])
    BY DEF FilingInv, CacheInv, IsCache
  <2>2. PICK B : cache \in Seq([key : A, first : B, second : B])
    BY <2>1
  <2>3. CASE k \in Keys(cache)
    <3>1. PICK i \in 1 .. Len(cache) : Entry(cache, k) = cache[i]
      BY <2>2, <2>3, WithoutShape DEF FilingInv, CacheInv, IsCache
    <3>2. PICK e \in [key : A, first : B, second : B] : e = cache[i]
      BY <2>2, ElementOfSeq
    <3>3. new = [e EXCEPT !["second"] = <<res>>]
      BY <1>4, <2>3, <3>1, <3>2 DEF NewEntry
    <3> QED
      BY <3>2, <3>3
  <2>4. CASE k \notin Keys(cache)
    <3>1. new = [[key |-> k, first |-> <<>>, second |-> <<>>] EXCEPT !["second"] = <<res>>]
      BY <1>4, <2>4 DEF NewEntry, Absent
    <3> QED
      BY <3>1
  <2> QED
    BY <2>3, <2>4
<1>7. Kept'
  <2>1. ASSUME NEW i \in 1 .. Len(cache'), cache'[i].second # Absent
        PROVE  \E r : cache'[i].second = <<r>> /\ Backed(r)
    <3>1. CASE cache'[i] = new
      BY <1>3, <1>6, <3>1
    <3>2. CASE \E j \in 1 .. Len(cache) : cache'[i] = cache[j]
      BY <2>1, <3>2 DEF BackedInv, Kept
    <3> QED
      BY <1>5, <3>1, <3>2
  <2> QED
    BY <2>1 DEF Kept, Backed
<1>8. Reported'
  BY <1>2, <1>3, IdentifiedIsBacked DEF BackedInv
<1> QED
  BY <1>7, <1>8 DEF BackedInv

(* The other steps leave the cache, and at most take rows away.            *)
LEMMA RowsGoKeepsBacked ==
  ASSUME BackedInv, NEW w \in Pollers, UNCHANGED cache,
         \E rows : rows \subseteq found[w] /\ found' = [found EXCEPT ![w] = rows]
  PROVE  BackedInv'
<1>1. PICK rows : rows \subseteq found[w] /\ found' = [found EXCEPT ![w] = rows]
  OBVIOUS
<1>2. /\ found' = [v \in Pollers |-> found'[v]]
      /\ \A v \in Pollers : found'[v] = IF v = w THEN rows ELSE found[v]
  BY <1>1 DEF BackedInv, Reported
<1>3. Reported'
  BY <1>1, <1>2 DEF BackedInv, Reported, Backed
<1> QED
  BY <1>3 DEF BackedInv, Kept, Backed

(* Every step keeps the evidence.                                          *)
LEMMA BackedStep == FilingInv /\ BackedInv /\ [Next]_vars => BackedInv'
<1> SUFFICES ASSUME FilingInv, BackedInv, [Next]_vars PROVE BackedInv'
  OBVIOUS
<1>1. CASE UNCHANGED <<cache, found>>
  BY <1>1 DEF BackedInv, Kept, Reported, Backed
<1>2. ASSUME NEW w \in Pollers, Discover(w) \/ Finish(w) PROVE BackedInv'
  <2>1. UNCHANGED cache
    BY <1>2 DEF Discover, Finish, caches
  <2>2. \E rows : rows \subseteq found[w] /\ found' = [found EXCEPT ![w] = rows]
    BY <1>2 DEF Discover, Finish
  <2> QED
    BY <2>1, <2>2, RowsGoKeepsBacked
<1>3. ASSUME NEW w \in Pollers, Extensions(w) PROVE UNCHANGED <<cache, found>>
  BY <1>3 DEF Extensions
<1>4. ASSUME NEW w \in Pollers, NEW outcome, Enrich(w, outcome) PROVE UNCHANGED <<cache, found>>
  BY <1>4 DEF Enrich
<1>5. ASSUME NEW d, Change(d) PROVE UNCHANGED <<cache, found>>
  BY <1>5 DEF Change, caches, poll
<1>6. CASE UNCHANGED vars
  BY <1>1, <1>6 DEF vars, caches, poll
<1> QED
  BY <1>1, <1>2, <1>3, <1>4, <1>5, <1>6, LookupKeepsBacked, PutIdentityKeepsBacked,
     PutIdentificationKeepsBacked DEF Next

(* What a row is worth was seen, not granted, for every catalog: a HIGH or *)
(* VERIFIED result lists in its own evidence a pin that agreed and what    *)
(* makes it count, whether it was just made or comes from the cache        *)
(* (matcher.go:205-374, engine.go:356-382).                                *)
THEOREM VerdictsHavePins == Spec => []PinsBackVerdicts
<1>1. Init => BackedInv
  <2> SUFFICES ASSUME Init PROVE BackedInv
    OBVIOUS
  <2>1. cache = <<>> /\ Len(<<>>) = 0
    BY DEF Init
  <2>2. Kept
    BY <2>1 DEF Kept
  <2>3. Reported
    BY DEF Init, Reported
  <2> QED
    BY <2>2, <2>3 DEF BackedInv
<1>2. BackedInv => PinsBackVerdicts
  BY DEF BackedInv, Reported, Backed, PinsBackVerdicts
<1> QED
  BY <1>1, <1>2, InitFiling, FilingStep, BackedStep, PTL DEF Spec
=============================================================================
