---------------------------- MODULE PageTableProofs ----------------------------
(***************************************************************************)
(* What one map_to does to a page table, for every number of entries and   *)
(* levels, every page size and every supply of frames.  The table is well  *)
(* formed when a table's parents exist and a mapped page either has its    *)
(* tables or lies under a larger page; without the second part an entry    *)
(* could be written over pages that are in use.                            *)
(***************************************************************************)
EXTENDS PageTable, FiniteSetTheorems, WellFoundedInduction, TLAPS

(* The lowest table: Min of a set of levels is its least element.          *)
LEMMA MinExists ==
  ASSUME NEW a \in Nat, NEW b \in Int, NEW S \in SUBSET (a .. b), S # {}
  PROVE  Min(S) \in S /\ \A j \in S : Min(S) <= j
<1>1. PICK R : R = {ss \in Nat \X Nat : ss[1] < ss[2]}
  OBVIOUS
<1>2. IsWellFoundedOn(R, Nat)
  BY <1>1, NatLessThanWellFounded DEF OpToRel
<1>3. S \subseteq Nat
  OBVIOUS
<1>4. PICK x \in S : \A y \in S : <<y, x>> \notin R
  BY <1>2, <1>3, WFMin
<1>5. \A y \in Nat, z \in Nat : <<y, z>> \in R <=> y < z
  BY <1>1
<1>6. ASSUME NEW y \in S PROVE x <= y
  <2>1. x \in Nat /\ y \in Nat
    BY <1>3
  <2>2. ~(y < x)
    BY <1>4, <1>5, <2>1, Zenon
  <2>. QED BY <2>1, <2>2
<1>. QED BY <1>6 DEF Min

(* The larger and the smaller of two integers, as hole list and range      *)
(* mapping ask for them.                                                   *)
LEMMA PairBounds ==
  ASSUME NEW x \in Int, NEW y \in Int
  PROVE  /\ Max({x, y}) = IF x >= y THEN x ELSE y
         /\ Min({x, y}) = IF x <= y THEN x ELSE y
BY DEF Max, Min

(* Division with remainder, as a fact about products.                      *)
LEMMA Division ==
  ASSUME NEW d \in Nat \ {0}, NEW x \in Nat
  PROVE  \E q \in Nat, r \in 0 .. (d - 1) : x = d * q + r /\ q = x \div d /\ r = x % d
OBVIOUS

(* Different multiples are at least d apart.                               *)
LEMMA NextMultiple ==
  ASSUME NEW d \in Nat, NEW u \in Nat, NEW v \in Nat, u < v
  PROVE  d * u + d <= d * v
<1>1. v - u - 1 \in Nat /\ d * v = d * u + d + d * (v - u - 1)
  OBVIOUS
<1>2. d * (v - u - 1) \in Nat /\ d * u \in Nat
  BY <1>1
<1>. QED BY <1>1, <1>2

(* Quotient and remainder are unique.                                      *)
LEMMA DivUnique ==
  ASSUME NEW d \in Nat \ {0}, NEW x \in Nat, NEW q \in Nat, NEW r \in 0 .. (d - 1),
         x = d * q + r
  PROVE  x \div d = q /\ x % d = r
<1>1. PICK c \in Nat, s \in 0 .. (d - 1) : x = d * c + s /\ c = x \div d /\ s = x % d
  BY Division
<1>2. d * c \in Nat /\ d * q \in Nat /\ d * c + s = d * q + r
  BY <1>1
<1>3. ~(c < q)
  <2>1. c < q => d * c + d <= d * q
    BY NextMultiple
  <2>. QED BY <1>2, <2>1
<1>4. ~(q < c)
  <2>1. q < c => d * q + d <= d * c
    BY NextMultiple
  <2>. QED BY <1>2, <2>1
<1>5. c = q
  BY <1>3, <1>4
<1>6. s = r
  BY <1>2, <1>5
<1>. QED BY <1>1, <1>5, <1>6

(* Dividing by a product is dividing twice: a table of tables.             *)
LEMMA DivTwice ==
  ASSUME NEW a \in Nat \ {0}, NEW b \in Nat \ {0}, NEW x \in Nat
  PROVE  x \div (a * b) = (x \div a) \div b
<1>1. PICK q \in Nat, r \in 0 .. (a - 1) : x = a * q + r /\ q = x \div a
  BY Division
<1>2. PICK s \in Nat, t \in 0 .. (b - 1) : q = b * s + t /\ s = q \div b
  BY Division
<1>3. PICK m \in Nat \ {0} : m = a * b
  <2>1. a * b \in Nat /\ a * b # 0
    OBVIOUS
  <2>. QED BY <2>1
<1>4. PICK w \in Nat : w = a * t + r
  OBVIOUS
<1>5. x = m * s + w
  <2>1. a * q = a * (b * s) + a * t
    BY <1>2
  <2>2. a * (b * s) = m * s
    BY <1>3
  <2>. QED BY <1>1, <1>4, <2>1, <2>2
<1>6. w < m
  <2>1. m = a * t + a + a * (b - 1 - t) /\ b - 1 - t \in Nat
    BY <1>3
  <2>2. a * (b - 1 - t) \in Nat /\ a * t \in Nat
    BY <2>1
  <2>. QED BY <1>4, <2>1, <2>2
<1>7. x \div m = s
  BY <1>5, <1>6, DivUnique
<1>. QED BY <1>1, <1>2, <1>3, <1>7

(* A larger number has no smaller quotient.                                *)
LEMMA DivMonotone ==
  ASSUME NEW d \in Nat \ {0}, NEW x \in Nat, NEW y \in Nat, x <= y
  PROVE  x \div d <= y \div d
<1>1. PICK q \in Nat, r \in 0 .. (d - 1) : x = d * q + r /\ q = x \div d
  BY Division
<1>2. PICK s \in Nat, t \in 0 .. (d - 1) : y = d * s + t /\ s = y \div d
  BY Division
<1>3. ASSUME s < q PROVE FALSE
  <2>1. d * s + d <= d * q
    BY <1>3, NextMultiple
  <2>2. d * s \in Nat /\ d * q \in Nat
    OBVIOUS
  <2>. QED BY <1>1, <1>2, <2>1, <2>2
<1>. QED BY <1>1, <1>2, <1>3

(* The quotient of a sum is the sum of the quotients, or one more.         *)
LEMMA DivSum ==
  ASSUME NEW d \in Nat \ {0}, NEW x \in Nat, NEW y \in Nat
  PROVE  (x + y) \div d <= x \div d + y \div d + 1
<1>1. PICK q \in Nat, r \in 0 .. (d - 1) : x = d * q + r /\ q = x \div d
  BY Division
<1>2. PICK s \in Nat, t \in 0 .. (d - 1) : y = d * s + t /\ s = y \div d
  BY Division
<1>3. PICK z \in Nat : z = x + y
  OBVIOUS
<1>4. PICK p \in Nat, w \in 0 .. (d - 1) : z = d * p + w /\ p = z \div d
  BY Division
<1>5. ASSUME q + s + 1 < p PROVE FALSE
  <2>1. d * (q + s + 1) + d <= d * p
    BY <1>5, NextMultiple
  <2>2. d * (q + s + 1) = d * q + d * s + d
    OBVIOUS
  <2>3. d * q \in Nat /\ d * s \in Nat /\ d * p \in Nat
    OBVIOUS
  <2>. QED BY <1>1, <1>2, <1>3, <1>4, <2>1, <2>2, <2>3
<1>. QED BY <1>1, <1>2, <1>3, <1>4, <1>5

(* A byte lies in large page q or i pages behind it, where a large page    *)
(* has c small pages of s bytes: its large page and its small page.        *)
LEMMA PageOfByte ==
  ASSUME NEW s \in Nat \ {0}, NEW c \in Nat \ {0}, NEW n \in Nat, NEW w \in 0 .. (s - 1),
         NEW i \in Nat, NEW u \in 0 .. (c - 1), NEW q \in Nat, NEW x \in Nat,
         n = c * i + u, x = (s * c) * q + (s * n + w)
  PROVE  x \div (s * c) = q + i /\ x \div s = c * (q + i) + u
<1>1. PICK y \in Nat : y = c * q + n
  OBVIOUS
<1>2. x = s * y + w
  <2>1. s * y = s * (c * q) + s * n
    BY <1>1
  <2>2. s * (c * q) = (s * c) * q
    OBVIOUS
  <2>. QED BY <2>1, <2>2
<1>3. x \div s = y
  BY <1>2, DivUnique
<1>4. y = c * (q + i) + u /\ q + i \in Nat
  <2>1. c * (q + i) = c * q + c * i
    OBVIOUS
  <2>. QED BY <1>1, <2>1
<1>5. y \div c = q + i
  BY <1>4, DivUnique
<1>6. x \div (s * c) = (x \div s) \div c
  BY DivTwice
<1>. QED BY <1>3, <1>4, <1>5, <1>6


PtOK(t) ==
  /\ DOMAIN t.map \subseteq Nat /\ \A p \in DOMAIN t.map : t.map[p] \in Nat
  /\ \A p \in Nat, i \in 1 .. Levels : TableOf(p, i) \in DOMAIN t.tables =>
       \A j \in i .. Levels : TableOf(p, j) \in DOMAIN t.tables
  /\ \A p \in DOMAIN t.map, i \in 1 .. Levels :
       \/ TableOf(p, i) \in DOMAIN t.tables
       \/ \A q \in Nat : TableOf(q, i) = TableOf(p, i) => q \in DOMAIN t.map

(* Nothing mapped in t is lost or changed in u, and no table is lost.      *)
Grows(t, u) ==
  /\ \A p \in Mapped(t) : p \in Mapped(u) /\ u.map[p] = t.map[p]
  /\ DOMAIN t.tables \subseteq DOMAIN u.tables

(* The small pages a page of level l stands for.                           *)
EntryOf(l, page) == (page * Covered(l)) .. (page * Covered(l) + Covered(l) - 1)

(* page of level l shows frame.                                            *)
Shows(t, l, page, frame) ==
  \A p \in EntryOf(l, page) :
    p \in Mapped(t) /\ t.map[p] = frame * Covered(l) + (p - page * Covered(l))

-------------------------------------------------------------------------------

(* The pages an entry of level l covers.                                   *)
LEMMA CoveredFacts ==
  ASSUME NEW l \in 1 .. Levels
  PROVE  Covered(l) \in Nat \ {0} /\ Entries ^ l \in Nat \ {0} /\ Covered(1) = 1
<1>1. l - 1 \in 0 .. Levels /\ l \in 0 .. Levels
  BY TableAssumption
<1>2. Entries ^ (l - 1) \in Nat \ {0} /\ Entries ^ l \in Nat \ {0}
  BY <1>1, PowerAssumption
<1>3. Covered(1) = Entries ^ 0
  BY DEF Covered
<1>. QED BY <1>2, <1>3, PowerAssumption DEF Covered

(* Pages in one table share the tables above it.                           *)
LEMMA SameAbove ==
  ASSUME NEW p \in Nat, NEW q \in Nat, NEW i \in 0 .. Levels, NEW j \in i .. Levels,
         TableOf(p, i) = TableOf(q, i)
  PROVE  TableOf(p, j) = TableOf(q, j)
<1>1. PICK m \in 0 .. (Levels - i) : j = i + m
  BY TableAssumption
<1>2. m \in 0 .. Levels
  BY <1>1, TableAssumption
<1>3. Entries ^ (i + m) = Entries ^ i * Entries ^ m
  BY PowerAssumption
<1>4. PICK a \in Nat \ {0}, b \in Nat \ {0} : a = Entries ^ i /\ b = Entries ^ m
  BY <1>2, PowerAssumption
<1>5. p \div a = q \div a
  BY <1>4 DEF TableOf
<1>6. p \div (a * b) = (p \div a) \div b /\ q \div (a * b) = (q \div a) \div b
  BY DivTwice
<1>7. Entries ^ j = a * b
  BY <1>1, <1>3, <1>4
<1>. QED BY <1>5, <1>6, <1>7 DEF TableOf

(* The small pages of an entry are those with its number at its level, and *)
(* so those in one table of the level below.                               *)
LEMMA EntryPages ==
  ASSUME NEW l \in 1 .. Levels, NEW page \in Nat
  PROVE  /\ page * Covered(l) \in Nat /\ page * Covered(l) \in EntryOf(l, page)
         /\ EntryOf(l, page) \subseteq Nat
         /\ \A p \in Nat : p \in EntryOf(l, page) <=>
              TableOf(p, l - 1) = TableOf(page * Covered(l), l - 1)
<1>1. PICK c \in Nat \ {0} : c = Covered(l) /\ c = Entries ^ (l - 1)
  BY CoveredFacts DEF Covered
<1>2. PICK first \in Nat : first = page * c
  OBVIOUS
<1>3. EntryOf(l, page) = first .. (first + c - 1)
  BY <1>1, <1>2 DEF EntryOf
<1>4. first \div c = page
  <2>1. first = c * page + 0 /\ 0 \in 0 .. (c - 1)
    BY <1>2
  <2>. QED BY <2>1, DivUnique
<1>5. ASSUME NEW p \in Nat PROVE p \in first .. (first + c - 1) <=> p \div c = page
  <2>1. PICK q \in Nat, r \in 0 .. (c - 1) : p = c * q + r /\ q = p \div c
    BY Division
  <2>2. ASSUME q = page PROVE p \in first .. (first + c - 1)
    <3>1. c * q = first
      BY <1>2, <2>2
    <3>. QED BY <2>1, <3>1
  <2>3. ASSUME p \in first .. (first + c - 1) PROVE q = page
    <3>1. PICK s \in 0 .. (c - 1) : p = first + s
      <4>1. p - first \in 0 .. (c - 1)
        BY <2>3
      <4>. QED BY <4>1
    <3>2. p = c * page + s
      BY <1>2, <3>1
    <3>. QED BY <2>1, <3>2, DivUnique
  <2>. QED BY <2>1, <2>2, <2>3
<1>6. \A p \in Nat : TableOf(p, l - 1) = TableOf(first, l - 1) <=> p \div c = first \div c
  BY <1>1 DEF TableOf
<1>7. \A p \in Nat : p \in EntryOf(l, page) <=> TableOf(p, l - 1) = TableOf(first, l - 1)
  BY <1>3, <1>4, <1>5, <1>6
<1>8. EntryOf(l, page) \subseteq Nat /\ first \in EntryOf(l, page)
  BY <1>1, <1>3
<1>9. page * Covered(l) = first
  BY <1>1, <1>2
<1>. QED BY <1>7, <1>8, <1>9, Zenon

(* The missing tables are the innermost ones.                              *)
LEMMA MissingBelow ==
  ASSUME NEW t, PtOK(t), NEW first \in Nat, NEW l \in 1 .. Levels
  PROVE  \E k \in Nat : /\ Missing(t, first, l) = l .. (l + k - 1)
                        /\ Cardinality(Missing(t, first, l)) = k
                        /\ l + k - 1 <= Levels
<1>. DEFINE there == {i \in l .. Levels : TableOf(first, i) \in DOMAIN t.tables}
<1>1. Levels \in Nat /\ l \in Nat /\ l <= Levels
  BY TableAssumption
<1>2. PICK k \in Nat : Missing(t, first, l) = l .. (l + k - 1) /\ l + k - 1 <= Levels
  <2>1. CASE there = {}
    <3>1. Missing(t, first, l) = l .. (l + (Levels - l + 1) - 1)
      BY <1>1, <2>1 DEF Missing
    <3>2. Levels - l + 1 \in Nat /\ l + (Levels - l + 1) - 1 <= Levels
      BY <1>1
    <3>. QED BY <3>1, <3>2
  <2>2. CASE there # {}
    <3>1. PICK m : m = Min(there)
      OBVIOUS
    <3>2. m \in there /\ \A i \in there : m <= i
      <4>1. there \in SUBSET (l .. Levels) /\ l \in Nat /\ Levels \in Int
        BY <1>1
      <4>. HIDE DEF there
      <4>. QED BY <2>2, <3>1, <4>1, MinExists
    <3>3. \A i \in l .. Levels : i >= m => TableOf(first, i) \in DOMAIN t.tables
      <4>1. m \in 1 .. Levels /\ TableOf(first, m) \in DOMAIN t.tables
        BY <1>1, <3>2
      <4>2. \A i \in l .. Levels : i >= m => i \in m .. Levels
        BY <1>1, <4>1
      <4>. QED BY <4>1, <4>2 DEF PtOK
    <3>4. Missing(t, first, l) = l .. (m - 1)
      BY <1>1, <3>2, <3>3 DEF Missing
    <3>5. m - l \in Nat /\ l + (m - l) - 1 = m - 1 /\ m - 1 <= Levels
      BY <1>1, <3>2
    <3>. QED BY <3>4, <3>5
  <2>. QED BY <2>1, <2>2
<1>3. Cardinality(l .. (l + k - 1)) = k
  <2>1. PICK e \in Int : e = l + k - 1
    BY <1>1
  <2>2. Cardinality(l .. e) = IF l > e THEN 0 ELSE e - l + 1
    BY <1>1, FS_Interval
  <2>. QED BY <1>1, <2>1, <2>2
<1>. QED BY <1>2, <1>3

-------------------------------------------------------------------------------
(* The new tables of t stand on the first n frames of the allocator, each  *)
(* on one of its own, and those frames are gone.                           *)
TablesTaken(t, fa, first, r) ==
  \E n \in 0 .. Len(fa), outer \in Int :
    /\ r.fa = Advance(fa, n)
    /\ \A x \in DOMAIN r.pt.tables :
         \/ x \in DOMAIN t.tables /\ r.pt.tables[x] = t.tables[x]
         \/ \E i \in 1 .. n : x = TableOf(first, outer - i + 1) /\ r.pt.tables[x] = fa[i]

(* What one map_to with result r has done to t: what was mapped stays, a   *)
(* page is entered only where nothing was, the new tables are the page's   *)
(* own and stand on frames of the allocator, an error leaves the mapping   *)
(* as it was, and with the tables in place a free entry is always taken.   *)
(* A free entry is refused only when no frame is left, and an empty        *)
(* allocator makes no table.  With its table there no page is under a      *)
(* larger one.                                                             *)
MapDone(t, fa, l, page, frame, r) ==
  LET first == page * Covered(l) IN
  /\ PtOK(r.pt) /\ Grows(t, r.pt) /\ r.fa \in Seq(Nat) /\ r.res \in Results
  /\ \E n \in 0 .. Len(fa) : r.fa = Advance(fa, n)
  /\ r.res = "Ok" => /\ Shows(r.pt, l, page, frame)
                     /\ first \notin Mapped(t)
                     /\ DOMAIN r.pt.map = DOMAIN t.map \cup EntryOf(l, page)
                     /\ \A i \in l .. Levels : TableOf(first, i) \in DOMAIN r.pt.tables
  /\ r.res # "Ok" => r.pt.map = t.map
  /\ r.res = "FrameAllocationFailed" \/ fa = << >> => r.fa = << >>
  /\ first \notin Mapped(t) /\ (l > 1 => TableOf(first, l - 1) \notin DOMAIN t.tables) =>
       r.res \in {"Ok", "FrameAllocationFailed"}
  /\ fa = << >> /\ r.res = "Ok" => TableOf(first, l) \in DOMAIN t.tables
  /\ TableOf(first, l) \in DOMAIN t.tables => r.res # "ParentEntryHugePage"
  /\ \A x \in DOMAIN r.pt.tables :
       x \in DOMAIN t.tables \/ \E i \in l .. Levels : x = TableOf(first, i)
  /\ \A x \in DOMAIN r.pt.tables :
       \/ x \in DOMAIN t.tables /\ r.pt.tables[x] = t.tables[x]
       \/ \E i \in 1 .. Len(fa) : r.pt.tables[x] = fa[i]
  /\ TablesTaken(t, fa, first, r)
  /\ first \notin Mapped(t) /\ TableOf(first, l) \in DOMAIN t.tables
       /\ (l > 1 => TableOf(first, l - 1) \notin DOMAIN t.tables) => r.res = "Ok"

(* map_to does that and keeps the table well formed.                       *)
LEMMA MapTo ==
  ASSUME NEW t, PtOK(t), NEW fa \in Seq(Nat), NEW l \in 1 .. Levels,
         NEW page \in Nat, NEW frame \in Nat, NEW r, r = map_to_level(t, fa, l, page, frame)
  PROVE  MapDone(t, fa, l, page, frame, r)
<1>0. PICK first : first = page * Covered(l)
  OBVIOUS
<1>h. PICK huge \in BOOLEAN : huge = UnderHugePage(t, first, l)
  BY DEF UnderHugePage
<1>1. PICK k, n, outer, new, entry, res :
        /\ huge = UnderHugePage(t, first, l)
        /\ k = IF huge THEN 0 ELSE Cardinality(Missing(t, first, l))
        /\ n = Min({k, Len(fa)})
        /\ outer = l + k - 1
        /\ new = [x \in {TableOf(first, i) : i \in (outer - n + 1) .. outer} |->
                    fa[outer - x[1] + 1]]
        /\ entry = [p \in first .. (first + Covered(l) - 1) |->
                      frame * Covered(l) + (p - first)]
        /\ res = IF huge THEN "ParentEntryHugePage"
                 ELSE IF n < k THEN "FrameAllocationFailed"
                 ELSE IF InUse(t, first, l) THEN "PageAlreadyMapped" ELSE "Ok"
  BY <1>h
<1>2. /\ r.fa = Advance(fa, n) /\ r.res = res
      /\ r.pt.map = IF res = "Ok" THEN Entered(entry, t.map) ELSE t.map
      /\ r.pt.tables = Entered(new, t.tables)
  <2>1. r = [fa |-> Advance(fa, n), res |-> res,
             pt |-> [map |-> IF res = "Ok" THEN Entered(entry, t.map) ELSE t.map,
                     tables |-> Entered(new, t.tables)]]
    BY <1>0, <1>1, Zenon DEF map_to_level
  <2>. QED BY <2>1
<1>3. /\ first \in Nat /\ first \in EntryOf(l, page) /\ EntryOf(l, page) \subseteq Nat
      /\ \A p \in Nat : p \in EntryOf(l, page) <=> TableOf(p, l - 1) = TableOf(first, l - 1)
  BY <1>0, EntryPages
<1>4. Levels \in Nat /\ l \in Nat /\ l <= Levels /\ 1 <= l /\ Len(fa) \in Nat
  BY TableAssumption
<1>5. /\ k \in Nat /\ l + k - 1 <= Levels /\ outer = l + k - 1 /\ outer \in Int
      /\ ~huge => Missing(t, first, l) = l .. (l + k - 1)
  <2>1. k = IF huge THEN 0 ELSE Cardinality(Missing(t, first, l))
    BY <1>1, Zenon
  <2>2. outer = l + k - 1
    BY <1>1, Zenon
  <2>3. CASE huge
    BY <1>4, <2>1, <2>2, <2>3
  <2>4. CASE ~huge
    <3>1. PICK m \in Nat : /\ Missing(t, first, l) = l .. (l + m - 1)
                           /\ Cardinality(Missing(t, first, l)) = m /\ l + m - 1 <= Levels
      BY <1>3, MissingBelow
    <3>. QED BY <1>4, <2>1, <2>2, <2>4, <3>1
  <2>. QED BY <2>3, <2>4
<1>6. n \in Nat /\ n <= k /\ n <= Len(fa)
  <2>1. n = IF k <= Len(fa) THEN k ELSE Len(fa)
    <3>1. k \in Int /\ Len(fa) \in Int
      BY <1>4, <1>5
    <3>. QED BY <1>1, <3>1, PairBounds, Zenon
  <2>. QED BY <1>4, <1>5, <2>1
<1>7. r.fa \in Seq(Nat)
  <2>1. \A i \in (n + 1) .. Len(fa) : fa[i] \in Nat
    BY <1>6
  <2>. QED BY <1>2, <1>4, <1>6, <2>1 DEF Advance
<1>8. r.res \in Results
  BY <1>1, <1>2 DEF Results
(* The new tables.                                                         *)
<1>9. /\ DOMAIN r.pt.tables
           = {TableOf(first, i) : i \in (outer - n + 1) .. outer} \cup DOMAIN t.tables
      /\ DOMAIN t.tables \subseteq DOMAIN r.pt.tables
  BY <1>1, <1>2 DEF Entered
<1>10. \A i \in (outer - n + 1) .. outer : i \in l .. Levels
  BY <1>4, <1>5, <1>6
<1>11. \A x \in DOMAIN r.pt.tables :
         x \in DOMAIN t.tables \/ \E i \in l .. Levels : x = TableOf(first, i)
  BY <1>9, <1>10
<1>12. ASSUME NEW i \in l .. Levels, i > outer, ~huge PROVE TableOf(first, i) \in DOMAIN t.tables
  <2>1. i \notin Missing(t, first, l)
    BY <1>4, <1>5, <1>12
  <2>. QED BY <2>1 DEF Missing
<1>13. huge => n = 0
  BY <1>1, <1>6
<1>14. \A p \in Nat, i \in 1 .. Levels : TableOf(p, i) \in DOMAIN r.pt.tables =>
         \A j \in i .. Levels : TableOf(p, j) \in DOMAIN r.pt.tables
  <2>1. SUFFICES ASSUME NEW p \in Nat, NEW i \in 1 .. Levels, NEW j \in i .. Levels,
                        TableOf(p, i) \in DOMAIN r.pt.tables
                 PROVE  TableOf(p, j) \in DOMAIN r.pt.tables
    OBVIOUS
  <2>2. CASE TableOf(p, i) \in DOMAIN t.tables
    BY <1>9, <2>2 DEF PtOK
  <2>3. CASE TableOf(p, i) \notin DOMAIN t.tables
    <3>1. PICK m \in (outer - n + 1) .. outer : TableOf(p, i) = TableOf(first, m)
      BY <1>9, <2>1, <2>3
    <3>2. m = i
      BY <3>1 DEF TableOf
    <3>3. ~huge
      BY <1>5, <1>6, <1>13, <3>1
    <3>4. TableOf(p, j) = TableOf(first, j)
      BY <1>3, <1>4, <3>1, <3>2, SameAbove
    <3>5. CASE j <= outer
      <4>1. j \in (outer - n + 1) .. outer
        BY <1>5, <1>6, <3>1, <3>2, <3>5
      <4>. QED BY <1>9, <3>4, <4>1
    <3>6. CASE j > outer
      <4>1. j \in l .. Levels
        BY <1>4, <1>10, <3>1, <3>2
      <4>. QED BY <1>9, <1>12, <3>3, <3>4, <3>6, <4>1
    <3>. QED BY <1>5, <3>5, <3>6
  <2>. QED BY <2>2, <2>3
(* A page is entered only where nothing was mapped.                        *)
<1>15. ASSUME res = "Ok"
       PROVE  /\ first \notin Mapped(t) /\ n = k /\ ~huge
              /\ \A p \in EntryOf(l, page) : p \notin DOMAIN t.map
  <2>1. ~huge /\ ~(n < k) /\ ~InUse(t, first, l)
    BY <1>1, <1>15
  <2>2. first \notin Mapped(t) /\ (l > 1 => TableOf(first, l - 1) \notin DOMAIN t.tables)
    BY <2>1 DEF InUse
  <2>3. ASSUME NEW p \in EntryOf(l, page), p \in DOMAIN t.map PROVE FALSE
    <3>1. p \in Nat /\ TableOf(p, l - 1) = TableOf(first, l - 1)
      BY <1>3, <2>3
    <3>2. CASE l = 1
      <4>1. p = first
        <5>1. EntryOf(l, page) = first .. first
          BY <1>0, <1>3, <3>2, CoveredFacts DEF EntryOf
        <5>. QED BY <1>3, <5>1
      <4>. QED BY <2>2, <2>3, <4>1 DEF Mapped
    <3>3. CASE l > 1
      <4>1. l - 1 \in 1 .. Levels
        BY <1>4, <3>3
      <4>2. TableOf(p, l - 1) \notin DOMAIN t.tables
        BY <2>2, <3>1, <3>3
      <4>3. first \in DOMAIN t.map
        BY <1>3, <2>3, <3>1, <4>1, <4>2 DEF PtOK
      <4>. QED BY <2>2, <4>3 DEF Mapped
    <3>. QED BY <1>4, <3>2, <3>3
  <2>. QED BY <1>5, <1>6, <2>1, <2>2, <2>3
<1>16. EntryOf(l, page) = first .. (first + Covered(l) - 1) /\ DOMAIN entry = EntryOf(l, page)
  BY <1>0, <1>1 DEF EntryOf
<1>17. ASSUME res = "Ok"
       PROVE  /\ DOMAIN r.pt.map = DOMAIN t.map \cup EntryOf(l, page)
              /\ \A p \in EntryOf(l, page) : r.pt.map[p] = entry[p]
              /\ \A p \in DOMAIN t.map : r.pt.map[p] = t.map[p]
  BY <1>2, <1>15, <1>16, <1>17 DEF Entered
<1>18. Grows(t, r.pt)
  <2>1. CASE res = "Ok"
    BY <1>9, <1>17, <2>1 DEF Grows, Mapped
  <2>2. CASE res # "Ok"
    BY <1>2, <1>9, <2>2 DEF Grows, Mapped
  <2>. QED BY <2>1, <2>2
<1>19. res = "Ok" => Shows(r.pt, l, page, frame)
  BY <1>0, <1>1, <1>16, <1>17 DEF Shows, Mapped
<1>20. DOMAIN r.pt.map \subseteq Nat /\ \A p \in DOMAIN r.pt.map : r.pt.map[p] \in Nat
  <2>1. DOMAIN r.pt.map \subseteq Nat
    BY <1>2, <1>3, <1>17 DEF PtOK
  <2>2. ASSUME NEW p \in EntryOf(l, page) PROVE entry[p] \in Nat
    <3>1. PICK c \in Nat, d \in Nat : c = frame * Covered(l) /\ d = p - first
      <4>1. frame * Covered(l) \in Nat
        BY CoveredFacts
      <4>2. first <= p /\ p \in Nat
        BY <1>3, <1>16
      <4>. QED BY <1>3, <4>1, <4>2
    <3>2. entry[p] = c + d
      BY <1>1, <1>16, <3>1
    <3>. QED BY <3>2
  <2>3. ASSUME NEW p \in DOMAIN r.pt.map PROVE r.pt.map[p] \in Nat
    <3>1. CASE res = "Ok"
      BY <1>17, <2>2, <3>1 DEF PtOK
    <3>2. CASE res # "Ok"
      BY <1>2, <3>2 DEF PtOK
    <3>. QED BY <3>1, <3>2
  <2>. QED BY <2>1, <2>3
<1>21. \A p \in DOMAIN r.pt.map, i \in 1 .. Levels :
         \/ TableOf(p, i) \in DOMAIN r.pt.tables
         \/ \A q \in Nat : TableOf(q, i) = TableOf(p, i) => q \in DOMAIN r.pt.map
  <2>1. SUFFICES ASSUME NEW p \in DOMAIN r.pt.map, NEW i \in 1 .. Levels
                 PROVE  \/ TableOf(p, i) \in DOMAIN r.pt.tables
                        \/ \A q \in Nat : TableOf(q, i) = TableOf(p, i) => q \in DOMAIN r.pt.map
    OBVIOUS
  <2>2. CASE p \in DOMAIN t.map
    <3>1. DOMAIN t.map \subseteq DOMAIN r.pt.map
      BY <1>18 DEF Grows, Mapped
    <3>. QED BY <1>9, <2>2, <3>1 DEF PtOK
  <2>3. CASE p \notin DOMAIN t.map
    <3>1. res = "Ok" /\ p \in EntryOf(l, page) /\ p \in Nat
      BY <1>2, <1>3, <1>17, <2>3
    <3>2. TableOf(p, l - 1) = TableOf(first, l - 1)
      BY <1>3, <3>1
    <3>3. CASE i >= l
      <4>1. l - 1 \in 0 .. Levels /\ i \in (l - 1) .. Levels
        BY <1>4, <3>3
      <4>2. TableOf(p, i) = TableOf(first, i)
        BY <1>3, <3>1, <3>2, <4>1, SameAbove
      <4>3. CASE i <= outer
        <5>1. i \in (outer - n + 1) .. outer
          BY <1>4, <1>5, <1>6, <1>15, <3>1, <3>3, <4>3
        <5>. QED BY <1>9, <4>2, <5>1
      <4>4. CASE i > outer
        <5>1. i \in l .. Levels
          BY <1>4, <3>3
        <5>. QED BY <1>9, <1>12, <1>15, <3>1, <4>2, <4>4, <5>1
      <4>. QED BY <1>5, <4>3, <4>4
    <3>4. CASE i < l
      <4>1. ASSUME NEW q \in Nat, TableOf(q, i) = TableOf(p, i) PROVE q \in DOMAIN r.pt.map
        <5>1. i \in 0 .. Levels /\ l - 1 \in i .. Levels
          BY <1>4, <3>4
        <5>2. TableOf(q, l - 1) = TableOf(p, l - 1)
          BY <3>1, <4>1, <5>1, SameAbove
        <5>. QED BY <1>3, <1>17, <3>1, <3>2, <5>2
      <4>. QED BY <4>1
    <3>. QED BY <1>4, <3>3, <3>4
  <2>. QED BY <2>2, <2>3
<1>22. PtOK(r.pt)
  BY <1>14, <1>20, <1>21 DEF PtOK
<1>23. ASSUME first \notin Mapped(t), TableOf(first, l) \in DOMAIN t.tables,
              l > 1 => TableOf(first, l - 1) \notin DOMAIN t.tables
       PROVE  res = "Ok"
  <2>1. ~huge
    BY <1>1, <1>23 DEF UnderHugePage
  <2>2. k = 0
    <3>1. l \notin Missing(t, first, l)
      BY <1>23 DEF Missing
    <3>. QED BY <1>4, <1>5, <2>1, <3>1
  <2>3. ~InUse(t, first, l) /\ ~(n < k)
    BY <1>6, <1>23, <2>2 DEF InUse
  <2>. QED BY <1>1, <2>1, <2>3
<1>24. ASSUME res = "Ok", NEW i \in l .. Levels PROVE TableOf(first, i) \in DOMAIN r.pt.tables
  <2>1. CASE i <= outer
    <3>1. i \in (outer - n + 1) .. outer
      BY <1>4, <1>5, <1>6, <1>15, <1>24, <2>1
    <3>. QED BY <1>9, <3>1
  <2>2. CASE i > outer
    BY <1>9, <1>12, <1>15, <1>24, <2>2
  <2>. QED BY <1>4, <1>5, <2>1, <2>2
<1>25. res = "FrameAllocationFailed" \/ fa = << >> => r.fa = << >>
  <2>1. ASSUME res = "FrameAllocationFailed" \/ fa = << >> PROVE n = Len(fa)
    <3>1. CASE res = "FrameAllocationFailed"
      <4>1. n < k
        BY <1>1, <3>1
      <4>2. n = IF k <= Len(fa) THEN k ELSE Len(fa)
        <5>1. k \in Int /\ Len(fa) \in Int
          BY <1>4, <1>5
        <5>. QED BY <1>1, <5>1, PairBounds, Zenon
      <4>. QED BY <1>4, <1>5, <4>1, <4>2
    <3>2. CASE fa = << >>
      BY <1>6, <3>2
    <3>. QED BY <2>1, <3>1, <3>2
  <2>2. n = Len(fa) => Advance(fa, n) = << >>
    BY <1>4 DEF Advance
  <2>. QED BY <1>2, <2>1, <2>2
<1>26. ASSUME first \notin Mapped(t), l > 1 => TableOf(first, l - 1) \notin DOMAIN t.tables
       PROVE  res \in {"Ok", "FrameAllocationFailed"}
  <2>1. ~huge
    BY <1>1, <1>26 DEF UnderHugePage
  <2>2. ~InUse(t, first, l)
    BY <1>26 DEF InUse
  <2>. QED BY <1>1, <2>1, <2>2
<1>27. ASSUME fa = << >>, res = "Ok" PROVE TableOf(first, l) \in DOMAIN t.tables
  <2>1. n = 0 /\ k = 0 /\ ~huge
    BY <1>5, <1>6, <1>15, <1>27
  <2>2. l \in l .. Levels /\ l > outer
    BY <1>4, <1>5, <2>1
  <2>. QED BY <1>12, <2>1, <2>2
<1>28. /\ PtOK(r.pt) /\ Grows(t, r.pt) /\ r.fa \in Seq(Nat) /\ r.res \in Results
       /\ r.res = "Ok" => /\ Shows(r.pt, l, page, frame)
                          /\ first \notin Mapped(t)
                          /\ DOMAIN r.pt.map = DOMAIN t.map \cup EntryOf(l, page)
       /\ r.res # "Ok" => r.pt.map = t.map
  <2>1. r.res = res
    BY <1>2
  <2>2. res = "Ok" => /\ Shows(r.pt, l, page, frame)
                      /\ first \notin Mapped(t)
                      /\ DOMAIN r.pt.map = DOMAIN t.map \cup EntryOf(l, page)
    BY <1>15, <1>17, <1>19, Zenon
  <2>3. res # "Ok" => r.pt.map = t.map
    BY <1>2
  <2>. QED BY <1>7, <1>8, <1>18, <1>22, <2>1, <2>2, <2>3, Zenon
<1>29. \E m \in 0 .. Len(fa) : r.fa = Advance(fa, m)
  <2>1. n \in 0 .. Len(fa)
    BY <1>4, <1>6
  <2>. QED BY <1>2, <2>1
<1>30. ASSUME NEW x \in DOMAIN r.pt.tables
       PROVE  \/ x \in DOMAIN t.tables /\ r.pt.tables[x] = t.tables[x]
              \/ \E i \in 1 .. Len(fa) : r.pt.tables[x] = fa[i]
  <2>1. CASE x \in DOMAIN new
    <3>1. PICK i \in (outer - n + 1) .. outer : x = TableOf(first, i)
      BY <1>1, <2>1
    <3>2. x[1] = i
      BY <3>1 DEF TableOf
    <3>3. r.pt.tables[x] = fa[outer - i + 1]
      BY <1>1, <1>2, <2>1, <3>2 DEF Entered
    <3>4. outer - i + 1 \in 1 .. Len(fa)
      BY <1>4, <1>5, <1>6, <3>1
    <3>. QED BY <3>3, <3>4
  <2>2. CASE x \notin DOMAIN new
    BY <1>2, <1>30, <2>2 DEF Entered
  <2>. QED BY <2>1, <2>2
<1>31. TablesTaken(t, fa, first, r)
  <2>1. n \in 0 .. Len(fa) /\ outer \in Int
    BY <1>4, <1>5, <1>6
  <2>2. ASSUME NEW x \in DOMAIN r.pt.tables
        PROVE  \/ x \in DOMAIN t.tables /\ r.pt.tables[x] = t.tables[x]
               \/ \E i \in 1 .. n : x = TableOf(first, outer - i + 1) /\ r.pt.tables[x] = fa[i]
    <3>1. CASE x \in DOMAIN new
      <4>1. PICK j \in (outer - n + 1) .. outer : x = TableOf(first, j)
        BY <1>1, <3>1
      <4>2. x[1] = j
        BY <4>1 DEF TableOf
      <4>3. r.pt.tables[x] = fa[outer - j + 1]
        BY <1>1, <1>2, <3>1, <4>2 DEF Entered
      <4>4. PICK i \in 1 .. n : i = outer - j + 1 /\ j = outer - i + 1
        BY <1>5, <1>6, <4>1
      <4>. QED BY <4>1, <4>3, <4>4, Zenon
    <3>2. CASE x \notin DOMAIN new
      BY <1>2, <2>2, <3>2 DEF Entered
    <3>. QED BY <3>1, <3>2
  <2>. QED BY <1>2, <2>1, <2>2, Zenon DEF TablesTaken
<1>32. TableOf(first, l) \in DOMAIN t.tables => res # "ParentEntryHugePage"
  BY <1>1 DEF UnderHugePage
<1>. QED BY <1>0, <1>2, <1>11, <1>23, <1>24, <1>25, <1>26, <1>27, <1>28, <1>29, <1>30, <1>31, <1>32, Zenon DEF MapDone
===============================================================================
