------------------------- MODULE FrameAllocatorProofs -------------------------
(***************************************************************************)
(* Proofs about FrameAllocator for every memory map that is ascending and  *)
(* every page size.  The argument: the cursor never stands before a frame  *)
(* that was handed out.  Cursor says where the front range may lie, Behind *)
(* that issued frames are no longer ahead of it, and the two lemmas on     *)
(* NextFrame and SwapStops say what one pull of the iterator takes away.   *)
(***************************************************************************)
EXTENDS FrameAllocator, WellFoundedInduction, TLAPS

(* The first descriptor with a property: Min is the least element.         *)
LEMMA MinExists ==
  ASSUME NEW a \in Nat, NEW b \in Int, NEW S \in SUBSET (a .. b), S # {}
  PROVE  Min(S) \in S /\ \A j \in S : Min(S) <= j
<1>1. PICK R : R = {ss \in Nat \X Nat : ss[1] < ss[2]}
  OBVIOUS
<1>2. IsWellFoundedOn(R, Nat)
  BY <1>1, NatLessThanWellFounded DEF OpToRel
<1>3. S \subseteq Nat
  OBVIOUS
<1>4. PICK x \in S : \A y \in S : <<y, x>> \notin R
  BY <1>2, <1>3, WFMin
<1>5. \A y \in Nat, z \in Nat : <<y, z>> \in R <=> y < z
  BY <1>1
<1>6. ASSUME NEW y \in S PROVE x <= y
  <2>1. x \in Nat /\ y \in Nat
    BY <1>3
  <2>2. ~(y < x)
    BY <1>4, <1>5, <2>1, Zenon
  <2>. QED BY <2>1, <2>2
<1>. QED BY <1>6 DEF Min


(* The front range is the rest of the descriptor just before index.        *)
CursorOK(m, it) ==
  it.lo < it.hi =>
    /\ it.index - 1 \in 1 .. Len(m)
    /\ is_usable(m[it.index - 1].type)
    /\ m[it.index - 1].start <= it.lo
    /\ it.hi = m[it.index - 1].start + m[it.index - 1].size

(* No frame handed out is still ahead of the cursor.                       *)
Behind == \A i \in 1 .. Len(log) : log[i] \notin Ahead(memory_map, addresses)

IssuedUsable == \A i \in 1 .. Len(log) : log[i] \in UsableFrames(memory_map)

IInv ==
  /\ TypeOK
  /\ memory_map \in Maps
  /\ CursorOK(memory_map, addresses)
  /\ Behind
  /\ IssuedUsable
  /\ NoFrameIssuedTwice

-------------------------------------------------------------------------------
(* What a map UEFI reports gives: typed descriptors, disjoint in order.    *)
LEMMA MapFacts ==
  ASSUME NEW m \in Maps
  PROVE  /\ Len(m) \in Nat
         /\ \A k \in 1 .. Len(m) : m[k].start \in Nat /\ m[k].size \in Nat
         /\ \A k \in 1 .. Len(m) : is_usable(m[k].type) => m[k].size > 0
         /\ \A i, j \in 1 .. Len(m) :
              is_usable(m[i].type) /\ is_usable(m[j].type) /\ i < j
                => m[i].start + m[i].size <= m[j].start
<1>1. m \in Seq(Descriptor) /\ Ascending(m)
  BY MapsAssumption
<1>2. Len(m) \in Nat /\ \A k \in 1 .. Len(m) : m[k] \in Descriptor
  BY <1>1
<1>. QED BY <1>1, <1>2 DEF Ascending, Descriptor

(* Membership in the frames of the descriptors from i on.                  *)
LEMMA UsableFromMember ==
  ASSUME NEW m \in Maps, NEW i \in Nat \ {0}, NEW f
  PROVE  f \in UsableFrom(m, i) <=>
           \E k \in i .. Len(m) :
             /\ is_usable(m[k].type)
             /\ f \in m[k].start .. (m[k].start + m[k].size - 1)
BY DEF UsableFrom, Frames

(* Ranges of numbers: the first one taken off, a part of one, an empty one. *)
LEMMA FirstOfRange ==
  ASSUME NEW a \in Nat, NEW n \in Nat, n > 0
  PROVE  /\ a .. (a + n - 1) = {a} \cup ((a + 1) .. (a + n - 1))
         /\ a \notin (a + 1) .. (a + n - 1)
OBVIOUS

LEMMA PartOfRange ==
  ASSUME NEW a \in Nat, NEW n \in Nat, NEW lo \in Nat, NEW hi \in Nat, NEW f \in Nat,
         a <= lo, hi = a + n, lo <= f, f <= hi - 1
  PROVE  f \in a .. (a + n - 1)
OBVIOUS

LEMMA RestOfRange ==
  ASSUME NEW a \in Nat, NEW n \in Nat, NEW lo \in Nat, NEW hi \in Nat,
         a <= lo, hi = a + n
  PROVE  /\ lo .. (hi - 1) \subseteq a .. (a + n - 1)
         /\ lo < hi => lo \in a .. (a + n - 1)
OBVIOUS

LEMMA EmptyRange ==
  ASSUME NEW a \in Nat, NEW b \in Nat, ~(a < b)
  PROVE  a .. (b - 1) = {}
OBVIOUS

(* One pull of the iterator yields a frame ahead of the cursor and removes *)
(* exactly that frame from what is ahead.                                  *)
LEMMA NextFrameTakesOne ==
  ASSUME NEW m \in Maps, NEW it \in Iterator, CursorOK(m, it),
         ~Exhausted(m, it)
  PROVE  LET r == NextFrame(m, it) IN
         /\ r.frame \in Nat
         /\ r.iter \in Iterator
         /\ CursorOK(m, r.iter)
         /\ r.frame \in Ahead(m, it)
         /\ Ahead(m, r.iter) = Ahead(m, it) \ {r.frame}
<1>. DEFINE r == NextFrame(m, it)
<1>0. it.index \in Nat \ {0} /\ it.lo \in Nat /\ it.hi \in Nat
  BY DEF Iterator
<1>1. CASE it.lo < it.hi
  <2>. DEFINE c == it.index - 1
  <2>1. r.frame = it.lo /\ r.iter = [it EXCEPT !.lo = it.lo + 1]
    BY <1>1 DEF NextFrame
  <2>2. /\ r.iter.index = it.index /\ r.iter.lo = it.lo + 1 /\ r.iter.hi = it.hi
        /\ r.iter \in Iterator
    BY <2>1 DEF Iterator
  <2>3. CursorOK(m, r.iter)
    BY <1>0, <1>1, <2>2, MapFacts DEF CursorOK
  <2>4. /\ c \in 1 .. Len(m) /\ is_usable(m[c].type)
        /\ it.hi = m[c].start + m[c].size /\ m[c].start <= it.lo
    BY <1>1 DEF CursorOK
  <2>5. it.lo \notin UsableFrom(m, it.index)
    <3>1. SUFFICES ASSUME NEW k \in it.index .. Len(m), is_usable(m[k].type),
                          it.lo \in m[k].start .. (m[k].start + m[k].size - 1)
                   PROVE  FALSE
      BY <1>0, UsableFromMember
    <3>2. k \in 1 .. Len(m) /\ c < k
      BY <1>0, MapFacts
    <3>3. m[c].start + m[c].size <= m[k].start
      BY <2>4, <3>1, <3>2, MapFacts
    <3>4. m[k].start \in Nat /\ m[k].size \in Nat
      BY <3>2, MapFacts
    <3>. QED BY <1>0, <1>1, <2>4, <3>1, <3>3, <3>4
  <2>6. it.lo .. (it.hi - 1) = {it.lo} \cup ((it.lo + 1) .. (it.hi - 1))
    BY <1>0, <1>1
  <2>7. it.lo \notin (it.lo + 1) .. (it.hi - 1)
    BY <1>0
  <2>. QED BY <1>0, <2>1, <2>2, <2>3, <2>5, <2>6, <2>7 DEF Ahead
<1>2. CASE ~(it.lo < it.hi)
  <2>. DEFINE P == Pending(m, it.index)
  <2>1. P # {} /\ P \in SUBSET (it.index .. Len(m))
    BY <1>0, <1>2 DEF Exhausted, Pending
  <2>2. PICK k \in P : k = Min(P) /\ \A j \in P : k <= j
    <3>1. it.index \in Nat /\ Len(m) \in Int
      BY <1>0, MapFacts
    <3>. HIDE DEF P
    <3>. QED BY <2>1, <3>1, MinExists
  <2>3. /\ k \in it.index .. Len(m) /\ k \in 1 .. Len(m)
        /\ is_usable(m[k].type) /\ m[k].size > 0
        /\ m[k].start \in Nat /\ m[k].size \in Nat
    <3>1. k \in it.index .. Len(m) /\ is_usable(m[k].type) /\ m[k].size > 0
      BY <2>2 DEF Pending
    <3>. QED BY <1>0, <3>1, MapFacts
  <2>. DEFINE s == m[k].start
  <2>4. r.frame = s /\ r.iter = [index |-> k + 1, lo |-> s + 1, hi |-> s + m[k].size]
    BY <1>2, <2>2 DEF NextFrame
  <2>5. r.iter.index = k + 1 /\ r.iter.lo = s + 1 /\ r.iter.hi = s + m[k].size
    BY <2>4
  <2>6. r.iter \in Iterator
    BY <1>0, <2>3, <2>4 DEF Iterator
  <2>7. CursorOK(m, r.iter)
    <3>. HIDE DEF r
    <3>. QED BY <1>0, <2>3, <2>5 DEF CursorOK
  <2>8. UsableFrom(m, it.index) = (s .. (s + m[k].size - 1)) \cup UsableFrom(m, k + 1)
    <3>1. \A j \in it.index .. Len(m) : is_usable(m[j].type) => j = k \/ j \in (k + 1) .. Len(m)
      <4>1. SUFFICES ASSUME NEW j \in it.index .. Len(m), is_usable(m[j].type)
                     PROVE  k <= j
        BY <1>0, <2>3
      <4>2. m[j].size > 0
        BY <1>0, <4>1, MapFacts
      <4>3. j \in P
        BY <4>1, <4>2 DEF Pending
      <4>. QED BY <2>2, <4>3
    <3>2. (k + 1) .. Len(m) \subseteq it.index .. Len(m) /\ k + 1 \in Nat \ {0}
      BY <1>0, <2>3, MapFacts
    <3>3. ASSUME NEW f \in UsableFrom(m, it.index)
          PROVE  f \in (s .. (s + m[k].size - 1)) \cup UsableFrom(m, k + 1)
      <4>1. PICK j \in it.index .. Len(m) :
              /\ is_usable(m[j].type)
              /\ f \in m[j].start .. (m[j].start + m[j].size - 1)
        BY <1>0, <3>3, UsableFromMember
      <4>2. CASE j = k
        <5>1. f \in s .. (s + m[k].size - 1)
          BY <4>1, <4>2
        <5>. QED BY <5>1
      <4>3. CASE j \in (k + 1) .. Len(m)
        <5>1. f \in UsableFrom(m, k + 1)
          BY <3>2, <4>1, <4>3, UsableFromMember
        <5>. QED BY <5>1
      <4>. QED BY <3>1, <4>1, <4>2, <4>3
    <3>4. ASSUME NEW f \in (s .. (s + m[k].size - 1)) \cup UsableFrom(m, k + 1)
          PROVE  f \in UsableFrom(m, it.index)
      <4>1. CASE f \in s .. (s + m[k].size - 1)
        BY <1>0, <2>3, <4>1, UsableFromMember
      <4>2. CASE f \in UsableFrom(m, k + 1)
        <5>1. PICK j \in (k + 1) .. Len(m) :
                /\ is_usable(m[j].type)
                /\ f \in m[j].start .. (m[j].start + m[j].size - 1)
          BY <3>2, <4>2, UsableFromMember
        <5>2. j \in it.index .. Len(m)
          BY <3>2
        <5>. QED BY <1>0, <5>1, <5>2, UsableFromMember
      <4>. QED BY <3>4, <4>1, <4>2
    <3>. QED BY <3>3, <3>4
  <2>9. s \notin UsableFrom(m, k + 1)
    <3>1. k + 1 \in Nat \ {0}
      BY <1>0, <2>3
    <3>2. SUFFICES ASSUME NEW j \in (k + 1) .. Len(m), is_usable(m[j].type),
                          s \in m[j].start .. (m[j].start + m[j].size - 1)
                   PROVE  FALSE
      BY <3>1, UsableFromMember
    <3>3. j \in 1 .. Len(m) /\ k < j
      BY <2>3, <3>1, MapFacts
    <3>4. s + m[k].size <= m[j].start /\ m[j].start \in Nat /\ m[j].size \in Nat
      BY <2>3, <3>2, <3>3, MapFacts
    <3>. QED BY <2>3, <3>2, <3>4
  <2>10. /\ s .. (s + m[k].size - 1) = {s} \cup ((s + 1) .. (s + m[k].size - 1))
         /\ s \notin (s + 1) .. (s + m[k].size - 1)
         /\ it.lo .. (it.hi - 1) = {}
    <3>1. s \in Nat /\ m[k].size \in Nat /\ m[k].size > 0
      BY <2>3
    <3>2. ~(it.lo < it.hi) /\ it.lo \in Nat /\ it.hi \in Nat
      BY <1>0, <1>2
    <3>. HIDE DEF s
    <3>. QED BY <3>1, <3>2, FirstOfRange, EmptyRange
  <2>. QED BY <2>3, <2>4, <2>5, <2>6, <2>7, <2>8, <2>9, <2>10 DEF Ahead
<1>. QED BY <1>1, <1>2

(* What is ahead of a cursor lies in usable memory.                        *)
LEMMA AheadUsable ==
  ASSUME NEW m \in Maps, NEW it \in Iterator, CursorOK(m, it)
  PROVE  Ahead(m, it) \subseteq UsableFrames(m) /\ Ahead(m, it) \subseteq Nat
<1>0. it.index \in Nat \ {0} /\ it.lo \in Nat /\ it.hi \in Nat
  BY DEF Iterator
<1>1. UsableFrom(m, it.index) \subseteq UsableFrames(m)
  <2>1. it.index .. Len(m) \subseteq 1 .. Len(m)
    BY <1>0, MapFacts
  <2>. QED BY <1>0, <2>1, UsableFromMember DEF UsableFrames
<1>2. UsableFrames(m) \subseteq Nat
  <2>1. \A k \in 1 .. Len(m) : m[k].start .. (m[k].start + m[k].size - 1) \subseteq Nat
    BY MapFacts
  <2>. QED BY <2>1, UsableFromMember DEF UsableFrames
<1>3. it.lo .. (it.hi - 1) \subseteq UsableFrames(m)
  <2>1. CASE it.lo < it.hi
    <3>. DEFINE c == it.index - 1
    <3>1. /\ c \in 1 .. Len(m) /\ is_usable(m[c].type)
          /\ it.hi = m[c].start + m[c].size /\ m[c].start <= it.lo
      BY <2>1 DEF CursorOK
    <3>2. m[c].start \in Nat /\ m[c].size \in Nat
      BY <3>1, MapFacts
    <3>3. it.lo .. (it.hi - 1) \subseteq m[c].start .. (m[c].start + m[c].size - 1)
      BY <1>0, <3>1, <3>2, RestOfRange
    <3>. QED BY <3>1, <3>3, UsableFromMember DEF UsableFrames
  <2>2. CASE ~(it.lo < it.hi)
    BY <1>0, <2>2
  <2>. QED BY <2>1, <2>2
<1>. QED BY <1>1, <1>2, <1>3 DEF Ahead

(* The skipping loop of swap_map stops at or behind the descriptor of the  *)
(* frame just taken, so nothing behind the stop was ever handed out.       *)
LEMMA SwapSkipsIssued ==
  ASSUME NEW m \in Maps, NEW it \in Iterator, CursorOK(m, it),
         ~Exhausted(m, it),
         SwapStops(m, NextFrame(m, it).frame) # {}
  PROVE  LET curr == NextFrame(m, it).frame
             new  == IterFrom(Min(SwapStops(m, curr)) + 1) IN
         /\ new \in Iterator
         /\ CursorOK(m, new)
         /\ Ahead(m, new) \subseteq Ahead(m, it) \ {curr}
<1>. DEFINE curr == NextFrame(m, it).frame
           S    == SwapStops(m, curr)
           stop == Min(S)
           new  == IterFrom(stop + 1)
<1>0. it.index \in Nat \ {0} /\ it.lo \in Nat /\ it.hi \in Nat /\ Len(m) \in Nat
  BY MapFacts DEF Iterator
<1>1. curr \in Nat /\ curr \in Ahead(m, it)
  BY NextFrameTakesOne
<1>2. S # {} /\ S \in SUBSET (1 .. Len(m))
  BY DEF SwapStops
<1>3. stop \in S
  <2>1. 1 \in Int /\ Len(m) \in Int
    BY <1>0
  <2>. HIDE DEF S
  <2>. QED BY <1>2, <2>1, MinExists
<1>4. stop \in 1 .. Len(m) /\ is_usable(m[stop].type) /\ curr <= m[stop].start
  <2>. HIDE DEF stop, curr
  <2>. QED BY <1>3 DEF SwapStops
<1>5. new \in Iterator /\ new.index = stop + 1 /\ new.lo = 0 /\ new.hi = 0
  <2>. HIDE DEF stop
  <2>. QED BY <1>0, <1>4 DEF IterFrom, Iterator
<1>6. CursorOK(m, new)
  <2>. HIDE DEF new
  <2>. QED BY <1>5 DEF CursorOK
<1>7. PICK c \in 1 .. Len(m) :
        /\ is_usable(m[c].type) /\ it.index <= c + 1
        /\ curr \in m[c].start .. (m[c].start + m[c].size - 1)
  <2>. HIDE DEF curr
  <2>1. CASE curr \in it.lo .. (it.hi - 1)
    <3>1. it.lo < it.hi
      BY <1>0, <2>1
    <3>2. m[it.index - 1].start \in Nat /\ m[it.index - 1].size \in Nat
      BY <3>1, MapFacts DEF CursorOK
    <3>3. /\ it.index - 1 \in 1 .. Len(m)
          /\ is_usable(m[it.index - 1].type)
          /\ m[it.index - 1].start <= it.lo
          /\ it.hi = m[it.index - 1].start + m[it.index - 1].size
      BY <3>1 DEF CursorOK
    <3>4. curr \in m[it.index - 1].start ..
                     (m[it.index - 1].start + m[it.index - 1].size - 1)
      <4>1. curr \in Nat /\ it.lo <= curr /\ curr <= it.hi - 1
        BY <1>0, <2>1
      <4>. QED BY <1>0, <3>2, <3>3, <4>1, PartOfRange
    <3>5. it.index <= (it.index - 1) + 1
      BY <1>0
    <3>. QED BY <3>3, <3>4, <3>5
  <2>2. CASE curr \in UsableFrom(m, it.index)
    <3>1. PICK k \in it.index .. Len(m) :
            /\ is_usable(m[k].type)
            /\ curr \in m[k].start .. (m[k].start + m[k].size - 1)
      BY <1>0, <2>2, UsableFromMember
    <3>2. k \in 1 .. Len(m) /\ it.index <= k + 1
      BY <1>0
    <3>. QED BY <3>1, <3>2
  <2>. QED BY <1>1, <2>1, <2>2 DEF Ahead
<1>. HIDE DEF stop, curr
<1>8. c <= stop
  <2>1. SUFFICES ASSUME stop < c PROVE FALSE
    BY <1>0, <1>4
  <2>2. m[stop].start + m[stop].size <= m[c].start /\ m[stop].size > 0
    BY <1>4, <1>7, <2>1, MapFacts
  <2>3. /\ m[stop].start \in Nat /\ m[stop].size \in Nat
        /\ m[c].start \in Nat /\ m[c].size \in Nat
    BY <1>4, MapFacts
  <2>4. curr \in Nat /\ m[c].start <= curr /\ curr <= m[stop].start
    BY <1>4, <1>7, <2>3
  <2>. QED BY <2>2, <2>3, <2>4
<1>9. Ahead(m, new) = UsableFrom(m, stop + 1)
  <2>1. new.lo .. (new.hi - 1) = {}
    BY <1>5
  <2>. HIDE DEF new
  <2>. QED BY <1>5, <2>1 DEF Ahead
<1>10. stop + 1 \in Nat \ {0}
  BY <1>0, <1>4
<1>11. ASSUME NEW f \in UsableFrom(m, stop + 1)
       PROVE  f \in UsableFrom(m, it.index) /\ f # curr
  <2>1. PICK k \in (stop + 1) .. Len(m) :
          /\ is_usable(m[k].type)
          /\ f \in m[k].start .. (m[k].start + m[k].size - 1)
    BY <1>10, <1>11, UsableFromMember
  <2>2. k \in it.index .. Len(m) /\ k \in 1 .. Len(m) /\ stop < k
    BY <1>0, <1>4, <1>7, <1>8
  <2>3. f \in UsableFrom(m, it.index)
    BY <1>0, <2>1, <2>2, UsableFromMember
  <2>4. m[stop].start + m[stop].size <= m[k].start /\ m[stop].size > 0
    BY <1>4, <2>1, <2>2, MapFacts
  <2>5. /\ m[stop].start \in Nat /\ m[stop].size \in Nat
        /\ m[k].start \in Nat /\ m[k].size \in Nat
    BY <1>4, <2>2, MapFacts
  <2>6. f \in Nat /\ m[k].start <= f
    BY <2>1, <2>5
  <2>7. ~(f <= m[stop].start)
    BY <2>4, <2>5, <2>6
  <2>. QED BY <1>4, <2>3, <2>7
<1>12. Ahead(m, new) \subseteq Ahead(m, it) \ {curr}
  BY <1>9, <1>11 DEF Ahead
<1>. QED BY <1>5, <1>6, <1>12 DEF curr, stop

(* The frame the iterator is about to yield lies in a descriptor before    *)
(* which nothing is ahead any more.                                        *)
LEMMA FrontDescriptor ==
  ASSUME NEW m \in Maps, NEW it \in Iterator, CursorOK(m, it), ~Exhausted(m, it)
  PROVE  \E c \in 1 .. Len(m) :
           /\ is_usable(m[c].type)
           /\ NextFrame(m, it).frame \in Frames(m[c])
           /\ \A f \in Ahead(m, it) :
                \E k \in c .. Len(m) : is_usable(m[k].type) /\ f \in Frames(m[k])
<1>0. it.index \in Nat \ {0} /\ it.lo \in Nat /\ it.hi \in Nat /\ Len(m) \in Nat
  BY MapFacts DEF Iterator
<1>1. \A f \in UsableFrom(m, it.index) :
        \E k \in it.index .. Len(m) : is_usable(m[k].type) /\ f \in Frames(m[k])
  <2>1. SUFFICES ASSUME NEW f \in UsableFrom(m, it.index)
                 PROVE  \E k \in it.index .. Len(m) : is_usable(m[k].type) /\ f \in Frames(m[k])
    OBVIOUS
  <2>2. PICK k \in it.index .. Len(m) :
          /\ is_usable(m[k].type)
          /\ f \in m[k].start .. (m[k].start + m[k].size - 1)
    BY <1>0, <2>1, UsableFromMember
  <2>. QED BY <2>2 DEF Frames
<1>2. CASE it.lo < it.hi
  <2>. DEFINE c == it.index - 1
  <2>1. /\ c \in 1 .. Len(m) /\ is_usable(m[c].type)
        /\ it.hi = m[c].start + m[c].size /\ m[c].start <= it.lo
    BY <1>2 DEF CursorOK
  <2>2. it.lo .. (it.hi - 1) \subseteq Frames(m[c]) /\ it.lo \in Frames(m[c])
    <3>1. m[c].start \in Nat /\ m[c].size \in Nat
      BY <2>1, MapFacts
    <3>2. Frames(m[c]) = m[c].start .. (m[c].start + m[c].size - 1)
      BY DEF Frames
    <3>. QED BY <1>0, <1>2, <2>1, <3>1, <3>2, RestOfRange
  <2>3. it.index .. Len(m) \subseteq c .. Len(m) /\ c \in c .. Len(m)
    BY <1>0, <2>1
  <2>4. NextFrame(m, it).frame = it.lo
    BY <1>2 DEF NextFrame
  <2>5. \A f \in Ahead(m, it) :
          \E k \in c .. Len(m) : is_usable(m[k].type) /\ f \in Frames(m[k])
    BY <1>1, <2>1, <2>2, <2>3 DEF Ahead
  <2>. QED BY <2>1, <2>2, <2>4, <2>5
<1>3. CASE ~(it.lo < it.hi)
  <2>. DEFINE P == Pending(m, it.index)
  <2>1. P # {} /\ P \in SUBSET (it.index .. Len(m))
    BY <1>0, <1>3 DEF Exhausted, Pending
  <2>2. PICK c \in P : c = Min(P) /\ \A j \in P : c <= j
    <3>1. it.index \in Nat /\ Len(m) \in Int
      BY <1>0
    <3>. HIDE DEF P
    <3>. QED BY <2>1, <3>1, MinExists
  <2>3. c \in it.index .. Len(m) /\ is_usable(m[c].type) /\ m[c].size > 0
    BY <2>2 DEF Pending
  <2>4. c \in 1 .. Len(m) /\ m[c].start \in Nat /\ m[c].size \in Nat
    BY <1>0, <2>3, MapFacts
  <2>5. NextFrame(m, it).frame = m[c].start
    BY <1>3, <2>2 DEF NextFrame
  <2>6. m[c].start \in Frames(m[c])
    BY <2>3, <2>4 DEF Frames
  <2>7. \A f \in Ahead(m, it) : f \in UsableFrom(m, it.index)
    BY <1>0, <1>3 DEF Ahead
  <2>8. ASSUME NEW k \in it.index .. Len(m), is_usable(m[k].type)
        PROVE  k \in c .. Len(m)
    <3>1. m[k].size > 0
      BY <1>0, <2>8, MapFacts
    <3>2. k \in P
      BY <2>8, <3>1 DEF Pending
    <3>. QED BY <1>0, <2>2, <2>3, <3>2
  <2>9. \A f \in Ahead(m, it) :
          \E k \in c .. Len(m) : is_usable(m[k].type) /\ f \in Frames(m[k])
    BY <1>1, <2>7, <2>8
  <2>. QED BY <2>3, <2>4, <2>5, <2>6, <2>9
<1>. QED BY <1>2, <1>3

(* What swap_map's skip throws away lies in the descriptor of the frame it *)
(* took and in the one its loop stopped at.                                *)
LEMMA SwapSkipsTwo ==
  ASSUME NEW m \in Maps, NEW it \in Iterator, CursorOK(m, it), ~Exhausted(m, it),
         NEW stop, stop = Min(SwapStops(m, NextFrame(m, it).frame)),
         SwapStops(m, NextFrame(m, it).frame) # {}
  PROVE  \E i, j \in 1 .. Len(m) :
           Ahead(m, it) \ Ahead(m, IterFrom(stop + 1)) \subseteq Frames(m[i]) \cup Frames(m[j])
<1>0. it.index \in Nat \ {0} /\ it.lo \in Nat /\ it.hi \in Nat /\ Len(m) \in Nat
  BY MapFacts DEF Iterator
<1>1. PICK curr : curr = NextFrame(m, it).frame
  OBVIOUS
<1>2. PICK c \in 1 .. Len(m) :
        /\ is_usable(m[c].type) /\ curr \in Frames(m[c])
        /\ \A f \in Ahead(m, it) :
             \E k \in c .. Len(m) : is_usable(m[k].type) /\ f \in Frames(m[k])
  BY <1>1, FrontDescriptor
<1>3. stop \in SwapStops(m, curr) /\ \A k \in SwapStops(m, curr) : stop <= k
  <2>1. 1 \in Int /\ Len(m) \in Int /\ SwapStops(m, curr) \in SUBSET (1 .. Len(m))
    BY <1>0 DEF SwapStops
  <2>. QED BY <1>1, <2>1, MinExists
<1>4. stop \in 1 .. Len(m)
  BY <1>3 DEF SwapStops
<1>5. ASSUME NEW f \in Ahead(m, it), f \notin Ahead(m, IterFrom(stop + 1))
      PROVE  f \in Frames(m[c]) \cup Frames(m[stop])
  <2>1. PICK k \in c .. Len(m) : is_usable(m[k].type) /\ f \in Frames(m[k])
    BY <1>2, <1>5
  <2>2. k \in 1 .. Len(m)
    BY <1>0, <1>2
  <2>3. ASSUME k > stop PROVE FALSE
    <3>1. k \in (stop + 1) .. Len(m) /\ stop + 1 \in Nat \ {0}
      BY <1>0, <1>4, <2>2, <2>3
    <3>2. f \in UsableFrom(m, stop + 1)
      BY <2>1, <3>1 DEF UsableFrom
    <3>. QED BY <1>5, <3>2 DEF Ahead, IterFrom
  <2>4. ASSUME k # c, k # stop PROVE FALSE
    <3>1. c < k /\ k < stop
      BY <1>0, <1>4, <2>2, <2>3, <2>4
    <3>2. m[c].start + m[c].size <= m[k].start /\ m[k].start \in Nat
          /\ m[c].start \in Nat /\ m[c].size \in Nat
      BY <1>2, <2>1, <2>2, <3>1, MapFacts
    <3>3. m[k].start >= curr
      BY <1>2, <3>2 DEF Frames
    <3>4. k \in SwapStops(m, curr)
      BY <2>1, <2>2, <3>3 DEF SwapStops
    <3>. QED BY <1>3, <1>4, <2>2, <3>1, <3>4
  <2>. QED BY <2>1, <2>4
<1>. QED BY <1>2, <1>4, <1>5

-------------------------------------------------------------------------------
(* Appending to the history a frame that was ahead, and moving the cursor  *)
(* so that this frame is ahead no longer, keeps the invariant's core.      *)
LEMMA TakePreserves ==
  ASSUME IInv, NEW r, Take(r), UNCHANGED memory_map,
         r.frame \in Nat, r.iter \in Iterator, CursorOK(memory_map, r.iter),
         r.frame \in Ahead(memory_map, addresses),
         Ahead(memory_map, r.iter) \subseteq Ahead(memory_map, addresses) \ {r.frame}
  PROVE  /\ log' \in Seq(Nat) /\ addresses' \in Iterator
         /\ CursorOK(memory_map, addresses)'
         /\ Behind' /\ IssuedUsable' /\ NoFrameIssuedTwice'
<1>. USE DEF IInv, Take
<1>1. /\ addresses' = r.iter /\ log' = Append(log, r.frame)
      /\ log \in Seq(Nat) /\ addresses \in Iterator /\ memory_map' = memory_map
  BY DEF TypeOK
<1>2. /\ Len(log) \in Nat /\ log' \in Seq(Nat) /\ Len(log') = Len(log) + 1
      /\ log'[Len(log) + 1] = r.frame
      /\ \A i \in 1 .. Len(log) : log'[i] = log[i]
  BY <1>1
<1>3. \A i \in 1 .. Len(log') : i \in 1 .. Len(log) \/ i = Len(log) + 1
  BY <1>2
<1>4. CursorOK(memory_map, addresses)'
  BY <1>1 DEF CursorOK
<1>5. Behind'
  BY <1>1, <1>2, <1>3 DEF Behind
<1>6. IssuedUsable'
  <2>1. r.frame \in UsableFrames(memory_map)
    BY <1>1, AheadUsable
  <2>. QED BY <1>1, <1>2, <1>3, <2>1 DEF IssuedUsable
<1>7. NoFrameIssuedTwice'
  <2>1. \A i \in 1 .. Len(log) : log[i] # r.frame
    BY DEF Behind
  <2>. QED BY <1>2, <1>3, <2>1 DEF NoFrameIssuedTwice
<1>. QED BY <1>1, <1>2, <1>4, <1>5, <1>6, <1>7

(* The invariant's core does not depend on the other variables.            *)
LEMMA IdlePreserves ==
  ASSUME IInv, UNCHANGED <<memory_map, addresses, log>>
  PROVE  /\ memory_map' \in Maps /\ memory_map' \in Seq(Descriptor)
         /\ log' \in Seq(Nat) /\ addresses' \in Iterator
         /\ CursorOK(memory_map, addresses)'
         /\ Behind' /\ IssuedUsable' /\ NoFrameIssuedTwice'
BY DEF IInv, TypeOK, CursorOK, Behind, IssuedUsable, NoFrameIssuedTwice

(* What one pull by allocate_frame or allocate_size gives.                 *)
LEMMA PullPreserves ==
  ASSUME IInv, ~Exhausted(memory_map, addresses), UNCHANGED memory_map,
         Take(NextFrame(memory_map, addresses))
  PROVE  /\ NextFrame(memory_map, addresses).frame \in Nat
         /\ log' \in Seq(Nat) /\ addresses' \in Iterator
         /\ CursorOK(memory_map, addresses)'
         /\ Behind' /\ IssuedUsable' /\ NoFrameIssuedTwice'
<1>1. memory_map \in Maps /\ addresses \in Iterator /\ CursorOK(memory_map, addresses)
  BY DEF IInv, TypeOK
<1>2. PICK r : r = NextFrame(memory_map, addresses)
  OBVIOUS
<1>3. /\ r.frame \in Nat /\ r.iter \in Iterator /\ CursorOK(memory_map, r.iter)
      /\ r.frame \in Ahead(memory_map, addresses)
      /\ Ahead(memory_map, r.iter) = Ahead(memory_map, addresses) \ {r.frame}
  BY <1>1, <1>2, NextFrameTakesOne
<1>. QED BY <1>2, <1>3, TakePreserves

(* A fresh iterator over a map of UEFI satisfies the invariant.            *)
LEMMA IInvInit == Init => IInv
<1>1. SUFFICES ASSUME Init PROVE IInv
  OBVIOUS
<1>2. memory_map \in Maps /\ memory_map \in Seq(Descriptor)
  BY <1>1, MapsAssumption DEF Init
<1>3. log = << >> /\ Len(log) = 0 /\ log \in Seq(Nat)
  BY <1>1 DEF Init
<1>4. addresses \in Iterator /\ CursorOK(memory_map, addresses)
  BY <1>1 DEF Init, IterFrom, Iterator, CursorOK
<1>5. ret \in Return /\ want \in Nat /\ swapped \in BOOLEAN /\ panicked \in BOOLEAN
  BY <1>1 DEF Init, None, Return
<1>6. Behind /\ IssuedUsable /\ NoFrameIssuedTwice
  BY <1>3 DEF Behind, IssuedUsable, NoFrameIssuedTwice
<1>. QED BY <1>2, <1>3, <1>4, <1>5, <1>6 DEF IInv, TypeOK

(* Every call, every loop iteration and swap_map preserve the invariant.   *)
LEMMA IInvNext == IInv /\ [Next]_vars => IInv'
<1>1. SUFFICES ASSUME IInv, [Next]_vars PROVE IInv'
  OBVIOUS
<1>. USE <1>1
<1>2. TypeOK /\ memory_map \in Maps /\ Len(log) \in Nat
  BY DEF IInv, TypeOK
<1>3. CASE allocate_frame
  <2>. DEFINE r == NextFrame(memory_map, addresses)
  <2>1. CASE Exhausted(memory_map, addresses)
    <3>1. ret' = None /\ UNCHANGED <<memory_map, addresses, log, want, swapped, panicked>>
      BY <1>3, <2>1 DEF allocate_frame
    <3>2. ret' \in Return
      BY <3>1 DEF None, Return
    <3>. QED BY <1>2, <3>1, <3>2, IdlePreserves DEF IInv, TypeOK
  <2>2. CASE ~Exhausted(memory_map, addresses)
    <3>1. /\ Take(r) /\ ret' = Some(r.frame, 1)
          /\ UNCHANGED <<memory_map, want, swapped, panicked>>
      BY <1>3, <2>2 DEF allocate_frame
    <3>2. r.frame \in Nat
      BY <2>2, <3>1, PullPreserves
    <3>3. ret' \in Return
      <4>. HIDE DEF r
      <4>. QED BY <1>2, <3>1, <3>2 DEF Some, Return
    <3>. QED BY <1>2, <2>2, <3>1, <3>3, PullPreserves DEF IInv, TypeOK
  <2>. QED BY <2>1, <2>2
<1>4. CASE \E size \in 0 .. MaxRequest : allocate_size(size)
  <2>1. PICK size \in 0 .. MaxRequest : allocate_size(size)
    BY <1>4
  <2>2. size \div PageSize \in Nat
    BY SizeAssumption
  <2>3. /\ want' = size \div PageSize /\ ret' = Some(0, size \div PageSize)
        /\ UNCHANGED <<memory_map, addresses, log, swapped, panicked>>
    BY <2>1 DEF allocate_size
  <2>4. want' \in Nat /\ ret' \in Return
    BY <1>2, <2>2, <2>3 DEF Some, Return
  <2>. QED BY <1>2, <2>3, <2>4, IdlePreserves DEF IInv, TypeOK
<1>5. CASE allocate_size_step
  <2>. DEFINE r == NextFrame(memory_map, addresses)
  <2>1. CASE Exhausted(memory_map, addresses)
    <3>1. ret' = None /\ want' = 0 /\ UNCHANGED <<memory_map, addresses, log, swapped, panicked>>
      BY <1>5, <2>1 DEF allocate_size_step
    <3>2. ret' \in Return
      BY <3>1 DEF None, Return
    <3>. QED BY <1>2, <3>1, <3>2, IdlePreserves DEF IInv, TypeOK
  <2>2. CASE ~Exhausted(memory_map, addresses)
    <3>1. /\ Take(r) /\ want > 0 /\ want' = want - 1
          /\ ret' = IF want = ret.n THEN [ret EXCEPT !.frame = r.frame] ELSE ret
          /\ UNCHANGED <<memory_map, swapped, panicked>>
      BY <1>5, <2>2 DEF allocate_size_step
    <3>2. r.frame \in Nat
      BY <2>2, <3>1, PullPreserves
    <3>3. ret' \in Return /\ want' \in Nat
      <4>1. PICK f \in Nat : f = r.frame
        BY <3>2
      <4>2. [ret EXCEPT !.frame = f] \in Return /\ ret \in Return
        BY <1>2 DEF TypeOK, Return
      <4>. HIDE DEF r
      <4>. QED BY <1>2, <3>1, <4>1, <4>2 DEF TypeOK
    <3>. QED BY <1>2, <2>2, <3>1, <3>3, PullPreserves DEF IInv, TypeOK
  <2>. QED BY <2>1, <2>2
<1>6. CASE swap_map
  <2>1. ret' = None /\ UNCHANGED <<memory_map, want>>
    BY <1>6 DEF swap_map
  <2>2. ret' \in Return
    BY <2>1 DEF None, Return
  <2>3. CASE Exhausted(memory_map, addresses)
    <3>1. panicked' = TRUE /\ UNCHANGED <<addresses, log, swapped>>
      BY <1>6, <2>3 DEF swap_map
    <3>2. UNCHANGED <<memory_map, addresses, log>>
      BY <2>1, <3>1
    <3>. QED BY <1>2, <2>1, <2>2, <3>1, <3>2, IdlePreserves DEF IInv, TypeOK
  <2>4. CASE ~Exhausted(memory_map, addresses)
    <3>1. PICK r : r = NextFrame(memory_map, addresses)
      OBVIOUS
    <3>2. CASE SwapStops(memory_map, r.frame) = {}
      <4>1. Take(r) /\ panicked' = TRUE /\ UNCHANGED swapped
        BY <1>6, <2>4, <3>1, <3>2 DEF swap_map
      <4>. QED BY <1>2, <2>1, <2>2, <2>4, <3>1, <4>1, PullPreserves DEF IInv, TypeOK
    <3>3. CASE SwapStops(memory_map, r.frame) # {}
      <4>1. PICK new : new = IterFrom(Min(SwapStops(memory_map, r.frame)) + 1)
        OBVIOUS
      <4>2. /\ Take([r EXCEPT !.iter = new])
            /\ swapped' = TRUE /\ UNCHANGED panicked
        BY <1>6, <2>4, <3>1, <3>3, <4>1 DEF swap_map
      <4>3. addresses \in Iterator /\ CursorOK(memory_map, addresses)
        BY DEF IInv, TypeOK
      <4>4. r.frame \in Nat /\ r.frame \in Ahead(memory_map, addresses)
        BY <1>2, <2>4, <3>1, <4>3, NextFrameTakesOne
      <4>5. /\ new \in Iterator /\ CursorOK(memory_map, new)
            /\ Ahead(memory_map, new) \subseteq Ahead(memory_map, addresses) \ {r.frame}
        BY <1>2, <2>4, <3>1, <3>3, <4>1, <4>3, SwapSkipsIssued
      <4>6. PICK t : t = [r EXCEPT !.iter = new]
        OBVIOUS
      <4>7. t.frame = r.frame /\ t.iter = new
        BY <3>1, <4>6 DEF NextFrame
      <4>8. /\ log' \in Seq(Nat) /\ addresses' \in Iterator
            /\ CursorOK(memory_map, addresses)'
            /\ Behind' /\ IssuedUsable' /\ NoFrameIssuedTwice'
        BY <2>1, <4>2, <4>4, <4>5, <4>6, <4>7, TakePreserves
      <4>. QED BY <1>2, <2>1, <2>2, <4>2, <4>8 DEF IInv, TypeOK
    <3>. QED BY <3>2, <3>3
  <2>. QED BY <2>3, <2>4
<1>7. CASE UNCHANGED vars
  BY <1>2, <1>7, IdlePreserves DEF IInv, TypeOK, vars
<1>8. CASE panic_handler
  BY <1>2, <1>8, IdlePreserves DEF IInv, TypeOK, vars, panic_handler
<1>. QED BY <1>1, <1>3, <1>4, <1>5, <1>6, <1>7, <1>8 DEF Next

(* The invariant holds of every behaviour of the allocator.                *)
THEOREM Invariance == Spec => []IInv
BY IInvInit, IInvNext, PTL DEF Spec

(* The allocator's state keeps its types.                                  *)
THEOREM TypeCorrect == Spec => []TypeOK
<1>1. IInv => TypeOK
  BY DEF IInv
<1>. QED BY <1>1, Invariance, PTL

(* allocate_frame never returns a frame twice, for every ascending map and *)
(* also across swap_map: two page tables never share a physical frame.     *)
THEOREM NoDoubleIssue == Spec => []NoFrameIssuedTwice
<1>1. IInv => NoFrameIssuedTwice
  BY DEF IInv
<1>. QED BY <1>1, Invariance, PTL

(* Every frame allocate_frame returns lies in a usable descriptor.         *)
THEOREM OnlyUsableIssued == Spec => []IssuedFramesUsable
<1>1. IInv => IssuedFramesUsable
  BY DEF IInv, IssuedUsable, IssuedFramesUsable, Issued
<1>. QED BY <1>1, Invariance, PTL

-------------------------------------------------------------------------------
(* Appending a frame adds it to the frames handed out.                     *)
LEMMA TakeIssues ==
  ASSUME IInv, NEW r, Take(r)
  PROVE  Issued' = Issued \cup {r.frame}
<1>1. log' = Append(log, r.frame) /\ log \in Seq(Nat)
  BY DEF IInv, TypeOK, Take
<1>2. /\ Len(log) \in Nat /\ Len(log') = Len(log) + 1
      /\ log'[Len(log) + 1] = r.frame
      /\ \A i \in 1 .. Len(log) : log'[i] = log[i]
  BY <1>1
<1>3. 1 .. Len(log') = (1 .. Len(log)) \cup {Len(log) + 1}
  BY <1>2
<1>. QED BY <1>2, <1>3 DEF Issued

(* The abstract pool's step, for a cursor that moves past the taken frame. *)
LEMMA TakeIsPoolTake ==
  ASSUME IInv, NEW r, Take(r), UNCHANGED memory_map,
         r.frame \in Ahead(memory_map, addresses),
         Ahead(memory_map, r.iter) \subseteq Ahead(memory_map, addresses) \ {r.frame}
  PROVE  Pool!Take
<1>1. addresses' = r.iter /\ Issued' = Issued \cup {r.frame}
  BY TakeIssues DEF Take
<1>. QED BY <1>1 DEF Pool!Take

(* Before the first call the pool is full and nothing is issued.           *)
LEMMA RefinesInit == Init => Pool!Init
<1>1. SUFFICES ASSUME Init PROVE Pool!Init
  OBVIOUS
<1>2. memory_map \in Maps /\ addresses \in Iterator /\ CursorOK(memory_map, addresses)
  BY <1>1, IInvInit DEF IInv, TypeOK
<1>3. Ahead(memory_map, addresses) \subseteq Nat
  BY <1>2, AheadUsable
<1>4. Issued = {}
  BY <1>1 DEF Init, Issued
<1>. QED BY <1>3, <1>4 DEF Pool!Init

(* A step of the allocator is a step of the pool, or leaves it alone.      *)
LEMMA RefinesNext ==
  IInv /\ [Next]_vars => [Pool!Next]_<<Ahead(memory_map, addresses), Issued>>
<1>1. SUFFICES ASSUME IInv, [Next]_vars,
                      ~(UNCHANGED <<Ahead(memory_map, addresses), Issued>>)
               PROVE  Pool!Take
  BY DEF Pool!Next
<1>. USE <1>1
<1>2. memory_map \in Maps /\ addresses \in Iterator /\ CursorOK(memory_map, addresses)
  BY DEF IInv, TypeOK
<1>3. ~(UNCHANGED <<memory_map, addresses, log>>)
  BY DEF Issued
<1>4. UNCHANGED memory_map /\ ~Exhausted(memory_map, addresses)
  BY <1>3 DEF Next, vars, allocate_frame, allocate_size, allocate_size_step,
              swap_map, panic_handler
<1>5. PICK r : r = NextFrame(memory_map, addresses)
  OBVIOUS
<1>6. /\ r.frame \in Ahead(memory_map, addresses)
      /\ Ahead(memory_map, r.iter) = Ahead(memory_map, addresses) \ {r.frame}
  BY <1>2, <1>4, <1>5, NextFrameTakesOne
<1>7. CASE Take(r)
  BY <1>4, <1>6, <1>7, TakeIsPoolTake
<1>8. CASE /\ SwapStops(memory_map, r.frame) # {}
           /\ Take([r EXCEPT !.iter =
                      IterFrom(Min(SwapStops(memory_map, r.frame)) + 1)])
  <2>1. PICK new : new = IterFrom(Min(SwapStops(memory_map, r.frame)) + 1)
    OBVIOUS
  <2>2. Ahead(memory_map, new) \subseteq Ahead(memory_map, addresses) \ {r.frame}
    BY <1>2, <1>4, <1>5, <1>8, <2>1, SwapSkipsIssued
  <2>3. PICK t : t = [r EXCEPT !.iter = new]
    OBVIOUS
  <2>4. t.frame = r.frame /\ t.iter = new
    BY <1>5, <2>3 DEF NextFrame
  <2>. QED BY <1>4, <1>6, <1>8, <2>1, <2>2, <2>3, <2>4, TakeIsPoolTake
<1>9. Take(r) \/ (/\ SwapStops(memory_map, r.frame) # {}
                  /\ Take([r EXCEPT !.iter =
                             IterFrom(Min(SwapStops(memory_map, r.frame)) + 1)]))
  BY <1>3, <1>4, <1>5 DEF Next, vars, allocate_frame, allocate_size,
                          allocate_size_step, swap_map, panic_handler
<1>. QED BY <1>7, <1>8, <1>9

(* The flattened, swappable iterator implements the abstract frame pool.   *)
THEOREM Refinement == Spec => ImplementsPool
BY Invariance, RefinesInit, RefinesNext, PTL DEF Spec, ImplementsPool, Pool!Spec

-------------------------------------------------------------------------------
(* Before swap_map the iterator accounts for the whole usable memory.      *)
LEMMA NothingLostInit == Init => NothingLostBeforeSwap
<1>1. SUFFICES ASSUME Init PROVE UsableFrames(memory_map) = Issued \cup Ahead(memory_map, addresses)
  BY DEF NothingLostBeforeSwap
<1>2. Issued = {} /\ addresses.index = 1 /\ addresses.lo = 0 /\ addresses.hi = 0
  BY <1>1 DEF Init, Issued, IterFrom
<1>3. addresses.lo .. (addresses.hi - 1) = {}
  BY <1>2
<1>. QED BY <1>2, <1>3 DEF UsableFrames, Ahead

(* A pull moves one frame from ahead of the cursor to the issued ones; the *)
(* other steps leave both alone, or are swap_map's.                        *)
LEMMA NothingLostNext ==
  IInv /\ NothingLostBeforeSwap /\ [Next]_vars => NothingLostBeforeSwap'
<1>1. SUFFICES ASSUME IInv, NothingLostBeforeSwap, [Next]_vars, ~swapped'
               PROVE  UsableFrames(memory_map)' = (Issued \cup Ahead(memory_map, addresses))'
  BY DEF NothingLostBeforeSwap
<1>. USE <1>1
<1>2. ~swapped /\ UNCHANGED memory_map
  BY DEF Next, vars, allocate_frame, allocate_size, allocate_size_step, swap_map,
         panic_handler
<1>3. UsableFrames(memory_map) = Issued \cup Ahead(memory_map, addresses)
  BY <1>2 DEF NothingLostBeforeSwap
<1>4. CASE UNCHANGED <<addresses, log>>
  BY <1>2, <1>3, <1>4 DEF Issued
<1>5. CASE ~(UNCHANGED <<addresses, log>>)
  <2>1. PICK r : r = NextFrame(memory_map, addresses)
    OBVIOUS
  <2>2. Take(r) /\ ~Exhausted(memory_map, addresses)
    BY <1>2, <1>5, <2>1 DEF Next, vars, allocate_frame, allocate_size,
                            allocate_size_step, swap_map, panic_handler
  <2>3. /\ r.frame \in Ahead(memory_map, addresses)
        /\ Ahead(memory_map, r.iter) = Ahead(memory_map, addresses) \ {r.frame}
    BY <2>1, <2>2, NextFrameTakesOne DEF IInv, TypeOK
  <2>4. Issued' = Issued \cup {r.frame} /\ addresses' = r.iter
    BY <2>2, TakeIssues DEF Take
  <2>. QED BY <1>2, <1>3, <2>3, <2>4
<1>. QED BY <1>4, <1>5

(* Until swap_map runs, the flattened iterator skips no usable frame, for  *)
(* every memory map of UEFI: each is handed out or still to come.          *)
THEOREM NothingLost == Spec => []NothingLostBeforeSwap
BY Invariance, NothingLostInit, NothingLostNext, PTL DEF Spec

(* What swap_map loses lies in two descriptors.                            *)
LEMMA SwapLossStep ==
  IInv /\ swap_map /\ ~panicked' =>
    \E i, j \in 1 .. Len(memory_map) :
      Ahead(memory_map, addresses) \ Ahead(memory_map, addresses')
        \subseteq Frames(memory_map[i]) \cup Frames(memory_map[j])
<1>1. SUFFICES ASSUME IInv, swap_map, ~panicked'
               PROVE  \E i, j \in 1 .. Len(memory_map) :
                        Ahead(memory_map, addresses) \ Ahead(memory_map, addresses')
                          \subseteq Frames(memory_map[i]) \cup Frames(memory_map[j])
  OBVIOUS
<1>2. PICK r : r = NextFrame(memory_map, addresses)
  OBVIOUS
<1>3. PICK stop : stop = Min(SwapStops(memory_map, r.frame))
  OBVIOUS
<1>4. /\ ~Exhausted(memory_map, addresses) /\ SwapStops(memory_map, r.frame) # {}
      /\ Take([r EXCEPT !.iter = IterFrom(stop + 1)])
  BY <1>1, <1>2, <1>3 DEF swap_map
<1>5. [r EXCEPT !.iter = IterFrom(stop + 1)].iter = IterFrom(stop + 1)
  BY <1>2 DEF NextFrame
<1>6. addresses' = IterFrom(stop + 1)
  BY <1>4, <1>5 DEF Take
<1>7. memory_map \in Maps /\ addresses \in Iterator /\ CursorOK(memory_map, addresses)
  BY <1>1 DEF IInv, TypeOK
<1>. QED BY <1>2, <1>3, <1>4, <1>6, <1>7, SwapSkipsTwo

(* swap_map throws away at most the rest of the descriptor in use and the  *)
(* descriptor its skipping loop stops at.                                  *)
THEOREM SwapLoss == Spec => SwapLossBounded
<1>1. IInv /\ [Next]_vars =>
        [swap_map /\ ~panicked' =>
           \E i, j \in 1 .. Len(memory_map) :
             Ahead(memory_map, addresses) \ Ahead(memory_map, addresses')
               \subseteq Frames(memory_map[i]) \cup Frames(memory_map[j])]_vars
  BY SwapLossStep
<1>. QED BY <1>1, Invariance, PTL DEF Spec, SwapLossBounded
===============================================================================
