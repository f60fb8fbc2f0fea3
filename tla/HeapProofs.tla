------------------------------ MODULE HeapProofs ------------------------------
(***************************************************************************)
(* Proofs about Heap for every heap range, every set of layouts and every  *)
(* sequence of calls, across the hand-over from loader to kernel.  The     *)
(* argument: the heap that owns the memory is well formed against the set  *)
(* of live blocks.  Cutting a block out of a hole and merging a freed      *)
(* range keep it so; the hand-over moves the whole value.                  *)
(***************************************************************************)
EXTENDS Heap, FiniteSetTheorems, WellFoundedInduction, TLAPS

(* The first hole: Min of a set of addresses is its least element.         *)
LEMMA MinExists ==
  ASSUME NEW a \in Nat, NEW b \in Int, NEW S \in SUBSET (a .. b), S # {}
  PROVE  Min(S) \in S /\ \A j \in S : Min(S) <= j
<1>1. PICK R : R = {ss \in Nat \X Nat : ss[1] < ss[2]}
  OBVIOUS
<1>2. IsWellFoundedOn(R, Nat)
  BY <1>1, NatLessThanWellFounded DEF OpToRel
<1>3. S \subseteq Nat
  OBVIOUS
<1>4. PICK x \in S : \A y \in S : <<y, x>> \notin R
  BY <1>2, <1>3, WFMin
<1>5. \A y \in Nat, z \in Nat : <<y, z>> \in R <=> y < z
  BY <1>1
<1>6. ASSUME NEW y \in S PROVE x <= y
  <2>1. x \in Nat /\ y \in Nat
    BY <1>3
  <2>2. ~(y < x)
    BY <1>4, <1>5, <2>1, Zenon
  <2>. QED BY <2>1, <2>2
<1>. QED BY <1>6 DEF Min

(* The larger and the smaller of two integers, as hole list and range      *)
(* mapping ask for them.                                                   *)
LEMMA PairBounds ==
  ASSUME NEW x \in Int, NEW y \in Int
  PROVE  /\ Max({x, y}) = IF x >= y THEN x ELSE y
         /\ Min({x, y}) = IF x <= y THEN x ELSE y
BY DEF Max, Min

(* Being aligned is being a multiple.                                      *)
LEMMA Multiple ==
  ASSUME NEW d \in Nat \ {0}, NEW x \in Int
  PROVE  x % d = 0 <=> \E q \in Int : x = d * q
<1>1. PICK c \in Int, r \in 0 .. (d - 1) : x = d * c + r /\ r = x % d
  OBVIOUS
<1>2. ASSUME NEW q \in Int, x = d * q PROVE r = 0
  <2>1. PICK k \in Int : k = q - c
    OBVIOUS
  <2>2. r = d * k
    <3>1. d * k = d * q - d * c
      BY <2>1
    <3>2. d * c \in Int /\ d * q \in Int
      OBVIOUS
    <3>3. d * q = d * c + r
      BY <1>1, <1>2
    <3>. QED BY <3>1, <3>2, <3>3
  <2>3. \A m \in Nat : d * m \in Nat
    OBVIOUS
  <2>4. ASSUME k >= 1 PROVE FALSE
    <3>1. k - 1 \in Nat /\ d * k = d + d * (k - 1)
      BY <2>4
    <3>2. d * (k - 1) \in Nat
      BY <2>3, <3>1
    <3>. QED BY <2>2, <3>1, <3>2
  <2>5. ASSUME k <= -1 PROVE FALSE
    <3>1. -1 - k \in Nat /\ d * k = -(d + d * (-1 - k))
      BY <2>5
    <3>2. d * (-1 - k) \in Nat
      BY <2>3, <3>1
    <3>. QED BY <2>2, <3>1, <3>2
  <2>6. k = 0
    BY <2>4, <2>5
  <2>. QED BY <2>2, <2>6
<1>3. ASSUME r = 0 PROVE \E q \in Int : x = d * q
  BY <1>1, <1>3
<1>. QED BY <1>1, <1>2, <1>3

(* Sums, differences and multiples of aligned numbers are aligned.         *)
LEMMA AlignedSums ==
  ASSUME NEW d \in Nat \ {0}, NEW x \in Int, NEW y \in Int, x % d = 0, y % d = 0
  PROVE  (x + y) % d = 0 /\ (x - y) % d = 0
<1>1. PICK p \in Int : x = d * p
  BY Multiple
<1>2. PICK q \in Int : y = d * q
  BY Multiple
<1>3. x + y = d * (p + q) /\ x - y = d * (p - q) /\ p + q \in Int /\ p - q \in Int
  BY <1>1, <1>2
<1>4. x + y \in Int /\ x - y \in Int
  OBVIOUS
<1>. QED BY <1>3, <1>4, Multiple

(* What is aligned to a multiple of d is aligned to d.                     *)
LEMMA AlignedToDivisor ==
  ASSUME NEW d \in Nat \ {0}, NEW e \in Nat \ {0}, NEW x \in Int, e % d = 0, x % e = 0
  PROVE  x % d = 0
<1>1. PICK p \in Int : x = e * p
  BY Multiple
<1>2. PICK q \in Int : e = d * q
  BY Multiple
<1>3. x = d * (q * p) /\ q * p \in Int
  BY <1>1, <1>2
<1>. QED BY <1>3, Multiple


Hole == [addr : Nat, size : Nat]

HeapValue == [bottom : Nat, size : Nat, used : Int, holes : SUBSET Hole]

(* A hole holds its node and lies in the heap.                             *)
HoleOK(hp, h) ==
  /\ h.size >= MinSize /\ h.addr % HoleAlign = 0
  /\ hp.bottom <= h.addr /\ End(h) <= top(hp)

(* A live block is aligned and lies in the heap.                           *)
BlockOK(hp, b) ==
  /\ b.addr \in Nat /\ b.addr % HoleAlign = 0 /\ b.layout \in Layouts
  /\ hp.bottom <= b.addr /\ End(Extent(b)) <= top(hp)

(* Holes and live blocks share the heap without overlap.                   *)
WellFormed(hp, blocks) ==
  /\ hp \in HeapValue /\ hp.bottom % HoleAlign = 0 /\ hp.size % HoleAlign = 0
  /\ \A h \in hp.holes : HoleOK(hp, h)
  /\ \A b \in blocks : BlockOK(hp, b)
  /\ \A g, h \in hp.holes : g # h => Apart(g, h)
  /\ \A b \in blocks : \A h \in hp.holes : Apart(Extent(b), h)
  /\ \A b, c \in blocks : b # c => Apart(Extent(b), Extent(c))

(* The bytes the live blocks take, the bytes the heap has, and the account *)
(* of them: what no block takes is in a hole, and used counts the rest.    *)
Taken(blocks) == Bytes({Extent(b) : b \in blocks})

Arena(hp) == hp.bottom .. (top(hp) - 1)

Counted(hp, blocks) ==
  /\ Bytes(hp.holes) = Arena(hp) \ Taken(blocks)
  /\ hp.used = Cardinality(Taken(blocks))

IInv ==
  /\ DOMAIN ALLOCATOR = {"loader", "kernel"}
  /\ running \in {"loader", "boot", "kernel"}
  /\ panicked \in {"no", "alloc_error"}
  /\ running = "boot" => parameters = ALLOCATOR["loader"]
  /\ WellFormed(current, live) /\ Counted(current, live)

-------------------------------------------------------------------------------
(* Rounding up yields a multiple that is not smaller.                      *)
LEMMA AlignUp ==
  ASSUME NEW x \in Nat, NEW a \in Nat \ {0}
  PROVE  align_up(x, a) \in Nat /\ align_up(x, a) >= x /\ align_up(x, a) % a = 0
<1>1. PICK q \in Nat, r \in 0 .. (a - 1) : x + a - 1 = a * q + r /\ q = (x + a - 1) \div a
  <2>1. PICK y \in Nat : y = x + a - 1
    OBVIOUS
  <2>2. \E q \in Nat, r \in 0 .. (a - 1) : y = a * q + r /\ q = y \div a
    OBVIOUS
  <2>. QED BY <2>1, <2>2
<1>2. align_up(x, a) = a * q /\ a * q \in Nat
  BY <1>1 DEF align_up, align_down
<1>3. a * q >= x
  BY <1>1, <1>2
<1>4. (a * q) % a = 0
  BY <1>2, Multiple
<1>. QED BY <1>2, <1>3, <1>4

(* What an allocation takes: room for a node, in whole nodes' alignment.   *)
LEMMA SizeFacts ==
  ASSUME NEW size \in Nat
  PROVE  /\ AlignedSize(size) \in Nat /\ AlignedSize(size) >= MinSize
         /\ AlignedSize(size) % HoleAlign = 0
         /\ size >= MinSize /\ size % HoleAlign = 0 => AlignedSize(size) = size
<1>1. HoleAlign \in Nat \ {0} /\ MinSize \in Nat \ {0}
  BY HeapAssumption
<1>2. PICK m \in Nat : m = Max({size, MinSize}) /\ m >= MinSize /\ (size >= MinSize => m = size)
  BY <1>1, PairBounds
<1>3. AlignedSize(size) = align_up(m, HoleAlign)
  BY <1>2 DEF AlignedSize
<1>4. AlignedSize(size) \in Nat /\ AlignedSize(size) >= m /\ AlignedSize(size) % HoleAlign = 0
  BY <1>1, <1>3, AlignUp
<1>5. ASSUME size >= MinSize, size % HoleAlign = 0 PROVE AlignedSize(size) = size
  <2>1. PICK q \in Int : size = HoleAlign * q
    BY <1>1, <1>5, Multiple
  <2>2. PICK p \in Int, r \in 0 .. (HoleAlign - 1) :
          size + HoleAlign - 1 = HoleAlign * p + r /\ p = (size + HoleAlign - 1) \div HoleAlign
    <3>1. PICK y \in Nat : y = size + HoleAlign - 1
      BY <1>1
    <3>2. \E p \in Int, r \in 0 .. (HoleAlign - 1) : y = HoleAlign * p + r /\ p = y \div HoleAlign
      BY <1>1
    <3>. QED BY <3>1, <3>2
  <2>3. AlignedSize(size) = HoleAlign * p
    BY <1>1, <1>2, <1>3, <1>5, <2>2 DEF align_up, align_down
  <2>4. PICK k \in Int : AlignedSize(size) - size = HoleAlign * k
    <3>1. HoleAlign * p - HoleAlign * q = HoleAlign * (p - q) /\ p - q \in Int
      BY <1>1
    <3>2. AlignedSize(size) - size = HoleAlign * (p - q)
      BY <2>1, <2>3, <3>1
    <3>. QED BY <3>1, <3>2
  <2>5. AlignedSize(size) - size \in 0 .. (HoleAlign - 1)
    BY <1>1, <1>2, <1>4, <1>5, <2>2, <2>3
  <2>6. (AlignedSize(size) - size) % HoleAlign = 0
    BY <1>1, <2>4, <2>5, Multiple
  <2>7. \A z \in 0 .. (HoleAlign - 1) : z % HoleAlign = z
    BY <1>1
  <2>8. AlignedSize(size) - size = 0
    BY <2>5, <2>6, <2>7
  <2>. QED BY <1>4, <2>8
<1>. QED BY <1>1, <1>2, <1>4, <1>5

(* Where a block starts in a hole: at the hole's start, or behind room for *)
(* a padding hole.                                                         *)
LEMMA StartFacts ==
  ASSUME NEW h \in Hole, h.addr % HoleAlign = 0, NEW l \in Layouts
  PROVE  /\ StartIn(h, l.align) \in Nat /\ StartIn(h, l.align) % HoleAlign = 0
         /\ StartIn(h, l.align) = h.addr \/ StartIn(h, l.align) >= h.addr + MinSize
<1>1. /\ HoleAlign \in Nat \ {0} /\ MinSize \in Nat \ {0} /\ l.align \in Nat \ {0}
      /\ h.addr \in Nat
  BY HeapAssumption DEF Hole
<1>2. CASE h.addr % l.align = 0
  BY <1>1, <1>2 DEF StartIn
<1>3. CASE h.addr % l.align # 0
  <2>1. l.align % HoleAlign = 0
    <3>1. HoleAlign % l.align = 0 => h.addr % l.align = 0
      BY <1>1, AlignedToDivisor
    <3>. QED BY <1>3, <3>1, AlignAssumption
  <2>2. PICK s : s = align_up(h.addr + MinSize, l.align)
    OBVIOUS
  <2>3. s \in Nat /\ s >= h.addr + MinSize /\ s % l.align = 0
    <3>1. h.addr + MinSize \in Nat
      BY <1>1
    <3>. QED BY <1>1, <2>2, <3>1, AlignUp
  <2>4. s % HoleAlign = 0
    BY <1>1, <2>1, <2>3, AlignedToDivisor
  <2>5. StartIn(h, l.align) = s
    BY <1>3, <2>2 DEF StartIn
  <2>. QED BY <2>3, <2>4, <2>5
<1>. QED BY <1>2, <1>3
(* A search finds the lowest hole that fits, if any does.                  *)
LEMMA FirstFitFound ==
  ASSUME NEW hp, NEW blocks, WellFormed(hp, blocks), NEW size, NEW align,
         \E g \in hp.holes : Fits(g, size, align)
  PROVE  FirstFit(hp.holes, size, align) \in hp.holes
         /\ Fits(FirstFit(hp.holes, size, align), size, align)
<1>. DEFINE F == {g \in hp.holes : Fits(g, size, align)}
           A == {g.addr : g \in F}
<1>1. hp \in HeapValue /\ \A h \in hp.holes : h \in Hole /\ HoleOK(hp, h)
  BY DEF WellFormed, HeapValue
<1>2. \A h \in hp.holes : h.addr \in 0 .. top(hp)
  BY <1>1, HeapAssumption DEF HeapValue, Hole, HoleOK, End, top
<1>3. A \in SUBSET (0 .. top(hp)) /\ A # {} /\ top(hp) \in Int /\ 0 \in Int
  BY <1>1, <1>2 DEF HeapValue, top
<1>4. Min(A) \in A /\ \A x \in A : Min(A) <= x
  <2>. HIDE DEF A
  <2>. QED BY <1>3, MinExists
<1>5. PICK h \in F : h.addr = Min(A)
  BY <1>4
<1>6. \A g \in hp.holes : Fits(g, size, align) => h.addr <= g.addr
  BY <1>4, <1>5
<1>. QED BY <1>5, <1>6 DEF FirstFit

(* What an allocation and a release do to the free bytes: size of them at  *)
(* start leave the holes, or join them.                                    *)
CutOut(hp, new, start, size) ==
  /\ new.bottom = hp.bottom /\ new.size = hp.size /\ new.used = hp.used + size
  /\ \A x \in Nat : InHole(new.holes, x)
                      <=> InHole(hp.holes, x) /\ x \notin start .. (start + size - 1)

PutBack(holes, new, addr, size) ==
  \A x \in Nat : InHole(new, x) <=> InHole(holes, x) \/ x \in addr .. (addr + size - 1)

(* A block cut out of a hole that fits leaves a well formed heap.          *)
LEMMA AllocateKeeps ==
  ASSUME NEW hp, NEW blocks, WellFormed(hp, blocks), NEW l \in Layouts, NEW h \in hp.holes,
         Fits(h, AlignedSize(l.size), l.align)
  PROVE  /\ WellFormed(allocate_first_fit(hp, h, AlignedSize(l.size), l.align),
                       blocks \cup {[addr |-> StartIn(h, l.align), layout |-> l]})
         /\ CutOut(hp, allocate_first_fit(hp, h, AlignedSize(l.size), l.align),
                   StartIn(h, l.align), AlignedSize(l.size))
<1>1. PICK size : size = AlignedSize(l.size)
  OBVIOUS
<1>2. PICK start : start = StartIn(h, l.align)
  OBVIOUS
<1>3. PICK new : new = allocate_first_fit(hp, h, size, l.align)
  OBVIOUS
<1>4. PICK b : b = [addr |-> start, layout |-> l]
  OBVIOUS
<1>5. /\ hp \in HeapValue /\ h \in Hole /\ HoleOK(hp, h)
      /\ HoleAlign \in Nat \ {0} /\ MinSize \in Nat \ {0}
  BY HeapAssumption DEF WellFormed, HeapValue
<1>6. h.addr \in Nat /\ h.size \in Nat /\ hp.bottom \in Nat /\ hp.size \in Nat
  BY <1>5 DEF HeapValue, Hole
<1>7. size \in Nat /\ size >= MinSize /\ size % HoleAlign = 0
  BY <1>1, SizeFacts, HeapAssumption
<1>8. /\ start \in Nat /\ start % HoleAlign = 0
      /\ start = h.addr \/ start >= h.addr + MinSize
  BY <1>2, <1>5, StartFacts DEF HoleOK
<1>9. PICK rest : /\ rest = h.addr + h.size - (start + size) /\ (rest = 0 \/ rest >= MinSize)
                  /\ rest = Rest(h, size, l.align)
  <2>1. Fits(h, size, l.align)
    BY <1>1
  <2>2. Rest(h, size, l.align) = h.addr + h.size - (start + size)
    BY <1>2, <1>6, <1>7, <1>8 DEF Rest, End
  <2>. QED BY <2>1, <2>2 DEF Fits
<1>10. PICK front, back : /\ front = [addr |-> h.addr, size |-> start - h.addr]
                          /\ back = [addr |-> start + size, size |-> rest]
  OBVIOUS
<1>11. /\ rest \in Nat /\ start - h.addr \in Nat
       /\ front \in Hole /\ back \in Hole
       /\ front.addr = h.addr /\ front.size = start - h.addr
       /\ back.addr = start + size /\ back.size = rest
  BY <1>5, <1>6, <1>7, <1>8, <1>9, <1>10 DEF Hole
<1>12. /\ new \in HeapValue /\ new.bottom = hp.bottom /\ new.size = hp.size
       /\ new.holes = (hp.holes \ {h}) \cup {p \in {front, back} : p.size > 0}
  <2>1. Split(h, size, l.align) = {p \in {front, back} : p.size > 0}
    BY <1>2, <1>9, <1>10, Zenon DEF Split
  <2>2. PICK x : x = [hp EXCEPT !.used = hp.used + size]
    OBVIOUS
  <2>3. new = [x EXCEPT !.holes = (hp.holes \ {h}) \cup Split(h, size, l.align)]
    BY <1>3, <2>2, Zenon DEF allocate_first_fit
  <2>4. x \in HeapValue /\ x.bottom = hp.bottom /\ x.size = hp.size
    BY <1>5, <1>7, <2>2 DEF HeapValue
  <2>5. (hp.holes \ {h}) \cup Split(h, size, l.align) \in SUBSET Hole
    BY <1>5, <1>11, <2>1 DEF HeapValue
  <2>. QED BY <2>1, <2>3, <2>4, <2>5 DEF HeapValue
<1>13. Extent(b) = [addr |-> start, size |-> size]
  BY <1>1, <1>4 DEF Extent
<1>14. Extent(b).addr = start /\ Extent(b).size = size /\ b.addr = start /\ b.layout = l
  BY <1>4, <1>13
(* The three parts lie inside h and apart from each other.                 *)
<1>15. \A r : r.addr \in Nat /\ r.size \in Nat /\ Apart(r, h) =>
         Apart(r, front) /\ Apart(r, back) /\ Apart(r, Extent(b))
  BY <1>6, <1>7, <1>8, <1>9, <1>11, <1>14 DEF Apart, End
<1>16. /\ Apart(front, back) /\ Apart(back, front)
       /\ Apart(Extent(b), front) /\ Apart(Extent(b), back)
  BY <1>6, <1>7, <1>8, <1>11, <1>14 DEF Apart, End
<1>17. /\ front.size > 0 => HoleOK(hp, front)
       /\ back.size > 0 => HoleOK(hp, back)
       /\ BlockOK(hp, b)
  <2>1. (start + size) % HoleAlign = 0
    <3>1. start \in Int /\ size \in Int
      BY <1>7, <1>8
    <3>. QED BY <1>5, <1>7, <1>8, <3>1, AlignedSums
  <2>2. hp.bottom <= h.addr /\ h.addr + h.size <= hp.bottom + hp.size /\ h.addr % HoleAlign = 0
    BY <1>5 DEF HoleOK, End, top
  <2>3. front.size > 0 => HoleOK(hp, front)
    BY <1>5, <1>6, <1>7, <1>8, <1>9, <1>11, <2>2 DEF HoleOK, End, top
  <2>4. back.size > 0 => HoleOK(hp, back)
    <3>1. back.addr % HoleAlign = 0
      BY <1>11, <2>1, Zenon
    <3>2. hp.bottom <= back.addr
      BY <1>5, <1>6, <1>7, <1>8, <1>11, <2>2
    <3>3. End(back) <= top(hp)
      <4>1. back.addr + back.size = h.addr + h.size
        BY <1>6, <1>7, <1>8, <1>9, <1>11
      <4>. QED BY <2>2, <4>1 DEF End, top
    <3>4. back.size > 0 => back.size >= MinSize
      BY <1>5, <1>9, <1>11
    <3>. QED BY <3>1, <3>2, <3>3, <3>4 DEF HoleOK
  <2>5. BlockOK(hp, b)
    BY <1>5, <1>6, <1>7, <1>8, <1>9, <1>11, <1>14, <2>2 DEF BlockOK, End, top
  <2>. QED BY <2>3, <2>4, <2>5
<1>18. \A p \in new.holes : (p \in hp.holes /\ p # h) \/ (p \in {front, back} /\ p.size > 0)
  BY <1>12
<1>19. \A p \in hp.holes : p.addr \in Nat /\ p.size \in Nat
  BY <1>5 DEF HeapValue, Hole
<1>20. \A c \in blocks : Extent(c).addr \in Nat /\ Extent(c).size \in Nat
  BY SizeFacts, HeapAssumption DEF WellFormed, BlockOK, Extent
<1>21. \A q, r : Apart(q, r) => Apart(r, q)
  BY DEF Apart
<1>22. \A p \in new.holes : HoleOK(new, p)
  BY <1>12, <1>17, <1>18 DEF WellFormed, HoleOK, top
<1>23. \A c \in blocks \cup {b} : BlockOK(new, c)
  BY <1>12, <1>17 DEF WellFormed, BlockOK, top
<1>24. \A p, q \in new.holes : p # q => Apart(p, q)
  BY <1>15, <1>16, <1>18, <1>19, <1>21 DEF WellFormed
<1>25. \A c \in blocks \cup {b} : \A p \in new.holes : Apart(Extent(c), p)
  BY <1>15, <1>16, <1>18, <1>19, <1>20, <1>21 DEF WellFormed
<1>26. \A c, d \in blocks \cup {b} : c # d => Apart(Extent(c), Extent(d))
  BY <1>15, <1>20, <1>21 DEF WellFormed
<1>27. WellFormed(new, blocks \cup {b})
  BY <1>12, <1>22, <1>23, <1>24, <1>25, <1>26 DEF WellFormed
(* No other hole reaches into h, so nothing else loses a byte.             *)
<1>28. \A x \in Nat : InHole(new.holes, x) <=> InHole(hp.holes, x) /\ x \notin start .. (start + size - 1)
  <2>1. SUFFICES ASSUME NEW x \in Nat
                 PROVE  InHole(new.holes, x) <=> InHole(hp.holes, x) /\ ~(start <= x /\ x < start + size)
    BY <1>7, <1>8
  <2>2. ASSUME NEW p \in hp.holes, p # h, p.addr <= x, x < p.addr + p.size
        PROVE  ~(start <= x /\ x < start + size)
    <3>1. Apart(p, Extent(b)) /\ p.addr \in Nat /\ p.size \in Nat
      BY <1>15, <1>19, <2>2 DEF WellFormed
    <3>. QED BY <1>7, <1>8, <1>14, <2>2, <3>1 DEF Apart, End
  <2>3. h.addr <= x /\ x < h.addr + h.size /\ ~(start <= x /\ x < start + size)
        <=> \/ front.addr <= x /\ x < front.addr + front.size
            \/ back.addr <= x /\ x < back.addr + back.size
    BY <1>6, <1>7, <1>8, <1>9, <1>11
  <2>4. InHole(new.holes, x) <=> \/ \E p \in hp.holes : p # h /\ p.addr <= x /\ x < p.addr + p.size
                                 \/ front.addr <= x /\ x < front.addr + front.size
                                 \/ back.addr <= x /\ x < back.addr + back.size
    <3>1. front.addr <= x /\ x < front.addr + front.size => front \in new.holes
      BY <1>6, <1>11, <1>12
    <3>2. back.addr <= x /\ x < back.addr + back.size => back \in new.holes
      BY <1>7, <1>8, <1>11, <1>12
    <3>3. \A p \in hp.holes : p # h => p \in new.holes
      BY <1>12
    <3>. QED BY <1>18, <3>1, <3>2, <3>3 DEF InHole, End
  <2>5. InHole(hp.holes, x) <=> \/ \E p \in hp.holes : p # h /\ p.addr <= x /\ x < p.addr + p.size
                                \/ h.addr <= x /\ x < h.addr + h.size
    BY DEF InHole, End
  <2>. QED BY <2>2, <2>3, <2>4, <2>5
<1>29. new.used = hp.used + size
  <2>1. PICK x : x = [hp EXCEPT !.used = hp.used + size]
    OBVIOUS
  <2>2. PICK hs : hs = (hp.holes \ {h}) \cup Split(h, size, l.align)
    OBVIOUS
  <2>3. new = [x EXCEPT !.holes = hs]
    BY <1>3, <2>1, <2>2, Zenon DEF allocate_first_fit
  <2>4. x.used = hp.used + size /\ x \in HeapValue
    BY <1>5, <1>7, <2>1 DEF HeapValue
  <2>. QED BY <2>3, <2>4 DEF HeapValue
<1>30. CutOut(hp, new, start, size)
  BY <1>12, <1>28, <1>29 DEF CutOut
<1>. QED BY <1>1, <1>2, <1>3, <1>4, <1>27, <1>30

(* A range inside the heap that is apart from everything may be freed.     *)
LEMMA InsertKeeps ==
  ASSUME NEW hp, NEW blocks, WellFormed(hp, blocks), NEW addr \in Nat, NEW size \in Nat,
         size >= MinSize, addr % HoleAlign = 0, hp.bottom <= addr, addr + size <= top(hp),
         \A h \in hp.holes : Apart([addr |-> addr, size |-> size], h),
         \A b \in blocks : Apart(Extent(b), [addr |-> addr, size |-> size]),
         NEW used \in Int, NEW new,
         new = [bottom |-> hp.bottom, size |-> hp.size, used |-> used,
                holes |-> Insert(hp.holes, addr, size)]
  PROVE  WellFormed(new, blocks) /\ PutBack(hp.holes, new.holes, addr, size)
<1>. DEFINE left  == {h \in hp.holes : End(h) = addr}
            right == {h \in hp.holes : h.addr = addr + size}
            near  == left \cup right
<1>1. /\ hp \in HeapValue /\ HoleAlign \in Nat \ {0} /\ MinSize \in Nat \ {0}
      /\ hp.bottom \in Nat /\ hp.size \in Nat /\ addr + size <= hp.bottom + hp.size
  BY HeapAssumption DEF WellFormed, HeapValue, top
<1>2. \A h \in hp.holes :
        /\ h.addr \in Nat /\ h.size \in Nat /\ h.size >= MinSize /\ h.addr % HoleAlign = 0
        /\ hp.bottom <= h.addr /\ h.addr + h.size <= hp.bottom + hp.size
  BY <1>1 DEF WellFormed, HeapValue, Hole, HoleOK, End, top
<1>3. \A h \in hp.holes : h.addr + h.size <= addr \/ addr + size <= h.addr
  BY <1>1, <1>2 DEF Apart, End
<1>4. \A g, h \in hp.holes : g # h => g.addr + g.size <= h.addr \/ h.addr + h.size <= g.addr
  BY DEF WellFormed, Apart, End
(* At most one hole ends where the range starts.                           *)
<1>5. PICK from \in Nat :
        /\ from = Min({h.addr : h \in left} \cup {addr})
        /\ \/ left = {} /\ from = addr
           \/ \E g \in hp.holes : left = {g} /\ g.addr = from /\ g.addr + g.size = addr
  <2>1. CASE left = {}
    <3>1. {h.addr : h \in left} \cup {addr} = {addr, addr}
      BY <2>1
    <3>2. Min({addr, addr}) = addr
      <4>1. addr \in Int
        OBVIOUS
      <4>. QED BY <4>1, PairBounds, Zenon
    <3>. QED BY <2>1, <3>1, <3>2
  <2>2. CASE left # {}
    <3>1. PICK g \in hp.holes : g.addr + g.size = addr /\ g \in left
      BY <2>2 DEF End
    <3>2. left = {g}
      BY <1>1, <1>2, <1>4, <3>1 DEF End
    <3>3. {h.addr : h \in left} \cup {addr} = {g.addr, addr}
      BY <3>2
    <3>4. Min({g.addr, addr}) = g.addr
      <4>1. g.addr \in Int /\ addr \in Int /\ g.addr <= addr
        BY <1>2, <3>1
      <4>. QED BY <4>1, PairBounds, Zenon
    <3>. QED BY <1>2, <3>1, <3>2, <3>3, <3>4
  <2>. QED BY <2>1, <2>2
(* At most one hole starts where the range ends.                           *)
<1>6. PICK to \in Nat :
        /\ to = Max({End(h) : h \in right} \cup {addr + size})
        /\ \/ right = {} /\ to = addr + size
           \/ \E g \in hp.holes : right = {g} /\ g.addr = addr + size /\ g.addr + g.size = to
  <2>0. PICK e \in Nat : e = addr + size
    OBVIOUS
  <2>1. CASE right = {}
    <3>1. {End(h) : h \in right} \cup {addr + size} = {e, e}
      BY <2>0, <2>1
    <3>2. Max({e, e}) = e
      <4>1. e \in Int
        OBVIOUS
      <4>. QED BY <4>1, PairBounds, Zenon
    <3>3. e = Max({End(h) : h \in right} \cup {addr + size})
      BY <3>1, <3>2, Zenon
    <3>. QED BY <2>0, <2>1, <3>3
  <2>2. CASE right # {}
    <3>1. PICK g \in hp.holes : g.addr = addr + size /\ g \in right
      BY <2>2
    <3>2. right = {g}
      BY <1>1, <1>2, <1>4, <3>1
    <3>3. PICK f \in Nat : f = g.addr + g.size /\ f = End(g) /\ f >= e
      BY <1>1, <1>2, <2>0, <3>1 DEF End
    <3>4. {End(h) : h \in right} \cup {addr + size} = {f, e}
      BY <2>0, <3>2, <3>3
    <3>5. Max({f, e}) = f
      <4>1. f \in Int /\ e \in Int /\ f >= e
        BY <3>3
      <4>. QED BY <4>1, PairBounds, Zenon
    <3>6. f = Max({End(h) : h \in right} \cup {addr + size})
      BY <3>4, <3>5, Zenon
    <3>. QED BY <3>1, <3>2, <3>3, <3>6, Zenon
  <2>. QED BY <2>1, <2>2
<1>7. PICK m : m = [addr |-> from, size |-> to - from]
  OBVIOUS
<1>8. /\ from <= addr /\ addr + size <= to /\ from % HoleAlign = 0
      /\ hp.bottom <= from /\ to <= hp.bottom + hp.size
  BY <1>1, <1>2, <1>5, <1>6
<1>9. m.addr = from /\ m.size = to - from /\ m.size \in Nat /\ m.size >= MinSize
  BY <1>1, <1>7, <1>8
<1>10. new.holes = (hp.holes \ near) \cup {m}
  <2>1. Insert(hp.holes, addr, size) = (hp.holes \ near) \cup {m}
    BY <1>5, <1>6, <1>7, Zenon DEF Insert
  <2>. QED BY <2>1
(* What is apart from the range and from its neighbours is apart from the  *)
(* merged hole.                                                            *)
<1>11. ASSUME NEW r, r.addr \in Nat, r.size \in Nat, r.size > 0,
              r.addr + r.size <= addr \/ addr + size <= r.addr,
              \A g \in near : r.addr + r.size <= g.addr \/ g.addr + g.size <= r.addr
       PROVE  Apart(r, m) /\ Apart(m, r)
  <2>1. r.addr + r.size <= from \/ addr <= r.addr
    BY <1>2, <1>5, <1>11
  <2>2. r.addr + r.size <= addr + size \/ to <= r.addr
    BY <1>2, <1>6, <1>11
  <2>3. r.addr + r.size <= from \/ to <= r.addr
    BY <1>1, <1>8, <1>11, <2>1, <2>2
  <2>. QED BY <1>8, <1>9, <2>3 DEF Apart, End
<1>a. /\ new \in HeapValue /\ new.bottom = hp.bottom /\ new.size = hp.size
  <2>1. m \in Hole
    BY <1>7, <1>9 DEF Hole
  <2>2. new.holes \in SUBSET Hole
    BY <1>1, <1>10, <2>1 DEF HeapValue
  <2>. QED BY <1>1, <2>2 DEF HeapValue
<1>. HIDE DEF near
<1>12. \A h \in hp.holes \ near : Apart(h, m) /\ Apart(m, h)
  <2>1. near \subseteq hp.holes
    BY DEF near
  <2>2. \A h \in hp.holes \ near : \A g \in near :
          h.addr + h.size <= g.addr \/ g.addr + g.size <= h.addr
    BY <1>4, <2>1
  <2>3. \A h \in hp.holes : h.size > 0
    BY <1>1, <1>2
  <2>. QED BY <1>2, <1>3, <1>11, <2>2, <2>3
<1>13. \A b \in blocks : Apart(Extent(b), m)
  <2>1. SUFFICES ASSUME NEW b \in blocks PROVE Apart(Extent(b), m)
    OBVIOUS
  <2>2. Extent(b).addr \in Nat /\ Extent(b).size \in Nat /\ Extent(b).size >= MinSize
    BY SizeFacts, HeapAssumption DEF WellFormed, BlockOK, Extent
  <2>3. \A g \in hp.holes : Extent(b).addr + Extent(b).size <= g.addr
                              \/ g.addr + g.size <= Extent(b).addr
    BY DEF WellFormed, Apart, End
  <2>4. Extent(b).addr + Extent(b).size <= addr \/ addr + size <= Extent(b).addr
    BY DEF Apart, End
  <2>5. near \subseteq hp.holes /\ Extent(b).size > 0
    BY <1>1, <2>2 DEF near
  <2>. QED BY <1>11, <2>2, <2>3, <2>4, <2>5
<1>14. HoleOK(new, m)
  BY <1>a, <1>8, <1>9 DEF HoleOK, End, top
<1>15. \A h \in new.holes : HoleOK(new, h)
  BY <1>a, <1>10, <1>14 DEF WellFormed, HoleOK, top
<1>16. \A b \in blocks : BlockOK(new, b)
  BY <1>a DEF WellFormed, BlockOK, top
<1>17. \A g, h \in new.holes : g # h => Apart(g, h)
  BY <1>10, <1>12 DEF WellFormed
<1>18. \A b \in blocks : \A h \in new.holes : Apart(Extent(b), h)
  BY <1>10, <1>13 DEF WellFormed
<1>19. ASSUME NEW x \in Nat
       PROVE  InHole(new.holes, x) <=> InHole(hp.holes, x) \/ (addr <= x /\ x < addr + size)
  <2>1. m.addr <= x /\ x < m.addr + m.size
        <=> \/ addr <= x /\ x < addr + size
            \/ \E g \in near : g.addr <= x /\ x < g.addr + g.size
    <3>1. m.addr <= x /\ x < m.addr + m.size <=> from <= x /\ x < to
      BY <1>8, <1>9
    <3>2. (\E g \in near : g.addr <= x /\ x < g.addr + g.size)
          <=> (from <= x /\ x < addr) \/ (addr + size <= x /\ x < to)
      <4>1. (\E g \in left : g.addr <= x /\ x < g.addr + g.size) <=> from <= x /\ x < addr
        BY <1>5
      <4>2. (\E g \in right : g.addr <= x /\ x < g.addr + g.size) <=> addr + size <= x /\ x < to
        BY <1>6
      <4>. QED BY <4>1, <4>2, Zenon DEF near
    <3>. QED BY <1>8, <3>1, <3>2
  <2>2. near \subseteq hp.holes
    BY DEF near
  <2>3. InHole(new.holes, x) <=> \/ \E g \in hp.holes \ near : g.addr <= x /\ x < g.addr + g.size
                                 \/ m.addr <= x /\ x < m.addr + m.size
    BY <1>10 DEF InHole, End
  <2>4. InHole(hp.holes, x) <=> \/ \E g \in hp.holes \ near : g.addr <= x /\ x < g.addr + g.size
                                \/ \E g \in near : g.addr <= x /\ x < g.addr + g.size
    BY <2>2 DEF InHole, End
  <2>. QED BY <2>1, <2>3, <2>4, Zenon
<1>20. PutBack(hp.holes, new.holes, addr, size)
  BY <1>19 DEF PutBack
<1>. QED BY <1>a, <1>15, <1>16, <1>17, <1>18, <1>20 DEF WellFormed

-------------------------------------------------------------------------------
(* Initially nothing is free and nothing is handed out.                    *)
LEMMA IInvInit == Init => IInv
<1>. SUFFICES ASSUME Init PROVE IInv
  OBVIOUS
<1>1. current = empty /\ live = {} /\ DOMAIN ALLOCATOR = {"loader", "kernel"}
  BY DEF Init, current
<1>2. HoleAlign \in Nat \ {0}
  BY HeapAssumption
<1>3. WellFormed(empty, {})
  BY <1>2 DEF WellFormed, HeapValue, empty
<1>4. Counted(empty, {})
  <2>1. Taken({}) = {} /\ Bytes({}) = {}
    BY DEF Taken, Bytes
  <2>2. Arena(empty) = {} /\ empty.holes = {} /\ empty.used = 0
    BY DEF Arena, top, empty
  <2>. QED BY <2>1, <2>2, FS_EmptySet DEF Counted
<1>. QED BY <1>1, <1>3, <1>4 DEF Init, IInv

(* Whoever allocates works on the heap that owns the memory.               *)
LEMMA HeapIsCurrent ==
  ASSUME IInv, running # "boot"
  PROVE  /\ heap = current /\ Who \in {"loader", "kernel"}
         /\ \A new : ALLOCATOR' = [ALLOCATOR EXCEPT ![Who] = new] /\ UNCHANGED running
              => current' = new /\ DOMAIN ALLOCATOR' = {"loader", "kernel"}
BY DEF IInv, heap, current, Who

(* A live block never starts in a hole.                                    *)
LEMMA LiveNotFree ==
  ASSUME NEW hp, NEW blocks, WellFormed(hp, blocks), NEW b \in blocks
  PROVE  ~InHole(hp.holes, b.addr)
<1>1. /\ b.addr \in Nat /\ Extent(b).addr = b.addr
      /\ Extent(b).size \in Nat /\ Extent(b).size > 0
  <2>1. b.addr \in Nat /\ b.layout.size \in Nat /\ MinSize \in Nat \ {0}
    BY HeapAssumption DEF WellFormed, BlockOK
  <2>2. AlignedSize(b.layout.size) \in Nat /\ AlignedSize(b.layout.size) >= MinSize
    BY <2>1, SizeFacts
  <2>. QED BY <2>1, <2>2 DEF Extent
<1>2. \A h \in hp.holes : h.addr \in Nat /\ h.size \in Nat /\ Apart(Extent(b), h)
  BY DEF WellFormed, HeapValue, Hole
<1>. QED BY <1>1, <1>2 DEF InHole, Apart, End

(* What the release of a block and an extension change.                    *)
Released(hp, new, b) ==
  /\ new.bottom = hp.bottom /\ new.size = hp.size
  /\ new.used = hp.used - AlignedSize(b.layout.size)
  /\ PutBack(hp.holes, new.holes, b.addr, AlignedSize(b.layout.size))

Grown(hp, new, by) ==
  /\ new.bottom = hp.bottom /\ new.size = hp.size + by /\ new.used = hp.used
  /\ PutBack(hp.holes, new.holes, top(hp), by)

(* A freed block becomes a hole of a well formed heap.                     *)
LEMMA DeallocateKeeps ==
  ASSUME NEW hp, NEW blocks, WellFormed(hp, blocks), NEW b \in blocks
  PROVE  /\ WellFormed(deallocate(hp, b.addr, b.layout.size), blocks \ {b})
         /\ Released(hp, deallocate(hp, b.addr, b.layout.size), b)
<1>1. PICK size \in Nat : size = AlignedSize(b.layout.size) /\ size >= MinSize
  BY SizeFacts, HeapAssumption DEF WellFormed, BlockOK
<1>2. Extent(b) = [addr |-> b.addr, size |-> size]
  BY <1>1 DEF Extent
<1>3. /\ b.addr \in Nat /\ b.addr % HoleAlign = 0 /\ hp.bottom <= b.addr
      /\ b.addr + size <= top(hp)
  BY <1>2 DEF WellFormed, BlockOK, End
<1>4. WellFormed(hp, blocks \ {b})
  BY DEF WellFormed
<1>5. /\ \A h \in hp.holes : Apart([addr |-> b.addr, size |-> size], h)
      /\ \A c \in blocks \ {b} : Apart(Extent(c), [addr |-> b.addr, size |-> size])
  BY <1>2 DEF WellFormed
<1>6. hp.used - size \in Int /\ hp \in HeapValue
  BY <1>1 DEF WellFormed, HeapValue
<1>7. deallocate(hp, b.addr, b.layout.size)
        = [bottom |-> hp.bottom, size |-> hp.size, used |-> hp.used - size,
           holes |-> Insert(hp.holes, b.addr, size)]
  <2>1. PICK u, hs : u = hp.used - size /\ hs = Insert(hp.holes, b.addr, size)
    OBVIOUS
  <2>2. PICK x : x = [hp EXCEPT !.used = u]
    OBVIOUS
  <2>3. deallocate(hp, b.addr, b.layout.size) = [x EXCEPT !.holes = hs]
    BY <1>1, <2>1, <2>2, Zenon DEF deallocate
  <2>4. x = [bottom |-> hp.bottom, size |-> hp.size, used |-> u, holes |-> hp.holes]
    BY <1>6, <2>2 DEF HeapValue
  <2>5. [x EXCEPT !.holes = hs]
          = [bottom |-> hp.bottom, size |-> hp.size, used |-> u, holes |-> hs]
    BY <2>4
  <2>. QED BY <2>1, <2>3, <2>5, Zenon
<1>8. PICK new : new = [bottom |-> hp.bottom, size |-> hp.size, used |-> hp.used - size,
                        holes |-> Insert(hp.holes, b.addr, size)]
  OBVIOUS
<1>9. WellFormed(new, blocks \ {b}) /\ PutBack(hp.holes, new.holes, b.addr, size)
  BY <1>1, <1>3, <1>4, <1>5, <1>6, <1>8, InsertKeeps
<1>10. Released(hp, new, b)
  BY <1>1, <1>8, <1>9 DEF Released
<1>. QED BY <1>7, <1>8, <1>9, <1>10

(* The bytes added behind the heap become a hole of it.                    *)
LEMMA ExtendKeeps ==
  ASSUME NEW hp, NEW blocks, WellFormed(hp, blocks), NEW by \in Extensions
  PROVE  /\ ~InHole(hp.holes, top(hp))
         /\ WellFormed(Extended(hp, by), blocks)
         /\ Grown(hp, Extended(hp, by), by)
<1>1. /\ by \in Nat /\ by >= MinSize /\ by % HoleAlign = 0 /\ AlignedSize(by) = by
      /\ HoleAlign \in Nat \ {0} /\ MinSize \in Nat \ {0}
  BY HeapAssumption, AlignAssumption, SizeFacts
<1>2. PICK t : t = top(hp)
  OBVIOUS
<1>3. /\ hp \in HeapValue /\ hp.bottom \in Nat /\ hp.size \in Nat /\ hp.used \in Int
      /\ hp.bottom % HoleAlign = 0 /\ hp.size % HoleAlign = 0
      /\ t \in Nat /\ t = hp.bottom + hp.size
  BY <1>2 DEF WellFormed, HeapValue, top
<1>4. t % HoleAlign = 0 /\ (hp.size + by) % HoleAlign = 0
  <2>1. hp.bottom \in Int /\ hp.size \in Int /\ by \in Int
    BY <1>1, <1>3
  <2>2. (hp.bottom + hp.size) % HoleAlign = 0 /\ (hp.size + by) % HoleAlign = 0
    BY <1>1, <1>3, <2>1, AlignedSums
  <2>. QED BY <1>3, <2>2, Zenon
<1>5. \A h \in hp.holes : h.addr \in Nat /\ h.size \in Nat /\ h.addr + h.size <= t /\ HoleOK(hp, h)
  BY <1>2, <1>3 DEF WellFormed, HeapValue, Hole, HoleOK, End
<1>6. \A b \in blocks : /\ Extent(b).addr \in Nat /\ Extent(b).size \in Nat
                        /\ Extent(b).addr + Extent(b).size <= t /\ BlockOK(hp, b)
  BY <1>2, SizeFacts, HeapAssumption DEF WellFormed, BlockOK, End, Extent
(* The same heap over the larger range is well formed.                     *)
<1>7. PICK big : big = [bottom |-> hp.bottom, size |-> hp.size + by,
                        used |-> hp.used, holes |-> hp.holes]
  OBVIOUS
<1>8. /\ big \in HeapValue /\ big.bottom = hp.bottom /\ big.size = hp.size + by
      /\ big.holes = hp.holes /\ big.used = hp.used
  BY <1>1, <1>3, <1>7 DEF HeapValue
<1>9. top(big) = t + by /\ top(hp) <= top(big) /\ top(big) \in Nat /\ top(hp) \in Nat
  BY <1>1, <1>2, <1>3, <1>8 DEF top
<1>10. \A h \in big.holes : HoleOK(big, h)
  BY <1>2, <1>3, <1>5, <1>8, <1>9 DEF HoleOK, End
<1>11. \A b \in blocks : BlockOK(big, b)
  BY <1>2, <1>3, <1>6, <1>8, <1>9 DEF BlockOK, End
<1>12. WellFormed(big, blocks)
  BY <1>3, <1>4, <1>8, <1>10, <1>11 DEF WellFormed
<1>14. /\ \A h \in big.holes : Apart([addr |-> t, size |-> by], h)
       /\ \A b \in blocks : Apart(Extent(b), [addr |-> t, size |-> by])
  BY <1>1, <1>3, <1>5, <1>6, <1>8 DEF Apart, End
<1>15. PICK new : new = [bottom |-> big.bottom, size |-> big.size, used |-> big.used,
                         holes |-> Insert(big.holes, t, by)]
  OBVIOUS
<1>16. big.bottom <= t /\ t + by <= top(big) /\ big.used \in Int
  BY <1>1, <1>3, <1>8, <1>9
<1>17. WellFormed(new, blocks) /\ PutBack(big.holes, new.holes, t, by)
  BY <1>1, <1>3, <1>4, <1>12, <1>14, <1>15, <1>16, InsertKeeps
<1>18. Extended(hp, by) = new
  <2>1. PICK hs : hs = Insert(hp.holes, t, by)
    OBVIOUS
  <2>2. new = [bottom |-> hp.bottom, size |-> hp.size + by, used |-> hp.used, holes |-> hs]
    BY <1>8, <1>15, <2>1
  <2>3. PICK x : x = [hp EXCEPT !.holes = hs]
    OBVIOUS
  <2>4. x = [bottom |-> hp.bottom, size |-> hp.size, used |-> hp.used, holes |-> hs]
    BY <1>3, <2>3 DEF HeapValue
  <2>5. [x EXCEPT !.size = hp.size + by] = new
    BY <2>2, <2>4
  <2>6. Extended(hp, by) = [x EXCEPT !.size = hp.size + by]
    BY <1>1, <1>2, <2>1, <2>3, Zenon DEF Extended
  <2>. QED BY <2>5, <2>6
<1>19. ~InHole(hp.holes, top(hp))
  BY <1>2, <1>3, <1>5 DEF InHole, End
<1>20. Grown(hp, new, by)
  BY <1>2, <1>8, <1>15, <1>17 DEF Grown
<1>. QED BY <1>17, <1>18, <1>19, <1>20

(* A heap of no bytes has no live blocks.                                  *)
LEMMA EmptyHasNoBlocks ==
  ASSUME NEW blocks, WellFormed(empty, blocks)
  PROVE  blocks = {}
<1>1. ASSUME NEW b \in blocks PROVE FALSE
  <2>1. b.addr \in Nat /\ b.layout.size \in Nat /\ MinSize \in Nat \ {0}
    BY HeapAssumption DEF WellFormed, BlockOK
  <2>2. AlignedSize(b.layout.size) \in Nat /\ AlignedSize(b.layout.size) > 0
    BY <2>1, SizeFacts
  <2>3. b.addr + AlignedSize(b.layout.size) <= 0
    BY DEF WellFormed, BlockOK, Extent, End, top, empty
  <2>. QED BY <2>1, <2>2, <2>3
<1>. QED BY <1>1

-------------------------------------------------------------------------------
(* A byte of a hole list is a byte in one of its holes; a byte of blocks   *)
(* lies in the extent of one of them.                                      *)
LEMMA BytesFacts ==
  ASSUME NEW hp, NEW blocks, WellFormed(hp, blocks)
  PROVE  /\ Bytes(hp.holes) = {x \in Nat : InHole(hp.holes, x)}
         /\ Taken(blocks) = UNION {b.addr .. (b.addr + AlignedSize(b.layout.size) - 1) : b \in blocks}
         /\ Bytes(hp.holes) \subseteq Arena(hp) /\ Taken(blocks) \subseteq Arena(hp)
         /\ IsFiniteSet(Arena(hp)) /\ Cardinality(Arena(hp)) = hp.size
         /\ hp.size \in Nat /\ hp.used \in Int
<1>1. /\ hp \in HeapValue /\ hp.bottom \in Nat /\ hp.size \in Nat /\ hp.used \in Int
      /\ top(hp) = hp.bottom + hp.size /\ top(hp) \in Nat
  BY DEF WellFormed, HeapValue, top
<1>2. \A h \in hp.holes : /\ h.addr \in Nat /\ h.size \in Nat
                          /\ hp.bottom <= h.addr /\ h.addr + h.size <= top(hp)
  BY <1>1 DEF WellFormed, HeapValue, Hole, HoleOK, End
<1>3. Bytes(hp.holes) = {x \in Nat : InHole(hp.holes, x)}
  BY <1>2 DEF Bytes, InHole, End
<1>4. \A b \in blocks : /\ b.addr \in Nat /\ AlignedSize(b.layout.size) \in Nat
                        /\ hp.bottom <= b.addr
                        /\ b.addr + AlignedSize(b.layout.size) <= top(hp)
  BY SizeFacts, HeapAssumption DEF WellFormed, BlockOK, Extent, End
<1>5. Taken(blocks) = UNION {b.addr .. (b.addr + AlignedSize(b.layout.size) - 1) : b \in blocks}
  <2>1. \A b : End(Extent(b)) = b.addr + AlignedSize(b.layout.size) /\ Extent(b).addr = b.addr
    BY DEF Extent, End
  <2>2. \A x : x \in Taken(blocks) <=> \E b \in blocks : x \in Extent(b).addr .. (End(Extent(b)) - 1)
    BY Zenon DEF Taken, Bytes
  <2>3. \A b \in blocks : Extent(b).addr .. (End(Extent(b)) - 1)
                            = b.addr .. (b.addr + AlignedSize(b.layout.size) - 1)
    <3>1. SUFFICES ASSUME NEW b \in blocks
                   PROVE  Extent(b).addr .. (End(Extent(b)) - 1)
                            = b.addr .. (b.addr + AlignedSize(b.layout.size) - 1)
      OBVIOUS
    <3>2. PICK from, to : from = Extent(b).addr /\ to = End(Extent(b))
      OBVIOUS
    <3>3. from = b.addr /\ to = b.addr + AlignedSize(b.layout.size)
      BY <2>1, <3>2
    <3>4. from .. (to - 1) = b.addr .. (b.addr + AlignedSize(b.layout.size) - 1)
      BY <1>4, <3>3
    <3>. QED BY <3>2, <3>4, Zenon
  <2>. QED BY <2>2, <2>3, Zenon
<1>6. Bytes(hp.holes) \subseteq Arena(hp)
  BY <1>1, <1>2 DEF Bytes, Arena, End
<1>7. Taken(blocks) \subseteq Arena(hp)
  BY <1>1, <1>4, <1>5 DEF Arena
<1>8. IsFiniteSet(Arena(hp)) /\ Cardinality(Arena(hp)) = hp.size
  <2>1. hp.bottom \in Int /\ top(hp) - 1 \in Int
    BY <1>1
  <2>2. PICK z \in Int : z = top(hp) - 1
    BY <2>1
  <2>3. /\ IsFiniteSet(hp.bottom .. z)
        /\ Cardinality(hp.bottom .. z) = IF hp.bottom > z THEN 0 ELSE z - hp.bottom + 1
    BY <2>1, FS_Interval
  <2>4. (IF hp.bottom > z THEN 0 ELSE z - hp.bottom + 1) = hp.size
    BY <1>1, <2>2
  <2>5. Arena(hp) = hp.bottom .. z
    BY <2>2 DEF Arena
  <2>. QED BY <2>3, <2>4, <2>5
<1>. QED BY <1>1, <1>3, <1>5, <1>6, <1>7, <1>8

(* The bytes of one block or extension, and how many they are.             *)
LEMMA RunOfBytes ==
  ASSUME NEW a \in Nat, NEW n \in Nat
  PROVE  IsFiniteSet(a .. (a + n - 1)) /\ Cardinality(a .. (a + n - 1)) = n
<1>1. PICK z \in Int : z = a + n - 1
  OBVIOUS
<1>2. a \in Int /\ IsFiniteSet(a .. z) /\ Cardinality(a .. z) = IF a > z THEN 0 ELSE z - a + 1
  BY FS_Interval
<1>3. (IF a > z THEN 0 ELSE z - a + 1) = n
  BY <1>1
<1>. QED BY <1>1, <1>2, <1>3

(* A set and a run of bytes apart from it: their numbers add up.           *)
LEMMA ApartAdds ==
  ASSUME NEW S, IsFiniteSet(S), NEW T, IsFiniteSet(T), S \cap T = {}
  PROVE  /\ Cardinality(S \cup T) = Cardinality(S) + Cardinality(T)
         /\ Cardinality(S) \in Nat /\ Cardinality(T) \in Nat
<1>1. Cardinality(S \cup T) = Cardinality(S) + Cardinality(T) - Cardinality(S \cap T)
  BY FS_Union
<1>2. Cardinality(S \cap T) = 0
  BY FS_EmptySet
<1>3. Cardinality(S) \in Nat /\ Cardinality(T) \in Nat
  BY FS_CardinalityType
<1>. QED BY <1>1, <1>2, <1>3

(* An allocation moves its bytes from the holes to the account.            *)
LEMMA AllocateCounts ==
  ASSUME NEW hp, NEW blocks, WellFormed(hp, blocks), Counted(hp, blocks),
         NEW l \in Layouts, NEW h \in hp.holes, Fits(h, AlignedSize(l.size), l.align)
  PROVE  Counted(allocate_first_fit(hp, h, AlignedSize(l.size), l.align),
                 blocks \cup {[addr |-> StartIn(h, l.align), layout |-> l]})
<1>1. PICK size \in Nat : size = AlignedSize(l.size)
  BY SizeFacts, HeapAssumption
<1>2. PICK start \in Nat : start = StartIn(h, l.align)
  <2>1. h \in Hole /\ h.addr % HoleAlign = 0
    BY DEF WellFormed, HeapValue, HoleOK
  <2>. QED BY <2>1, StartFacts
<1>3. PICK new, b : /\ new = allocate_first_fit(hp, h, size, l.align)
                    /\ b = [addr |-> start, layout |-> l]
  OBVIOUS
<1>4. WellFormed(new, blocks \cup {b}) /\ CutOut(hp, new, start, size)
  BY <1>1, <1>2, <1>3, AllocateKeeps
<1>5. PICK run : run = start .. (start + size - 1)
  OBVIOUS
<1>6. Taken(blocks \cup {b}) = Taken(blocks) \cup run
  <2>1. b.addr = start /\ b.layout = l
    BY <1>3
  <2>2. b.addr .. (b.addr + AlignedSize(b.layout.size) - 1) = run
    BY <1>1, <1>5, <2>1, Zenon
  <2>3. Taken(blocks) = UNION {c.addr .. (c.addr + AlignedSize(c.layout.size) - 1) : c \in blocks}
    BY BytesFacts
  <2>4. Taken(blocks \cup {b})
          = UNION {c.addr .. (c.addr + AlignedSize(c.layout.size) - 1) : c \in blocks \cup {b}}
    BY <1>4, BytesFacts
  <2>. QED BY <2>2, <2>3, <2>4, Zenon
<1>7. run \subseteq Bytes(hp.holes) /\ Bytes(new.holes) = Bytes(hp.holes) \ run
  <2>1. Bytes(hp.holes) = {x \in Nat : InHole(hp.holes, x)}
    BY BytesFacts
  <2>2. Bytes(new.holes) = {x \in Nat : InHole(new.holes, x)}
    BY <1>4, BytesFacts
  <2>3. \A x \in Nat : InHole(new.holes, x) <=> InHole(hp.holes, x) /\ x \notin run
    BY <1>4, <1>5, Zenon DEF CutOut
  <2>4. Bytes(new.holes) = Bytes(hp.holes) \ run
    BY <2>1, <2>2, <2>3, Zenon
  <2>5. ASSUME NEW x \in run PROVE x \in Bytes(hp.holes)
    <3>1. x \in Nat /\ start <= x /\ x < start + size
      BY <1>5
    <3>2. /\ h.addr \in Nat /\ h.size \in Nat /\ h.addr % HoleAlign = 0
          /\ MinSize \in Nat \ {0}
      BY HeapAssumption DEF WellFormed, HeapValue, Hole, HoleOK
    <3>3. start = h.addr \/ start >= h.addr + MinSize
      <4>1. h \in Hole
        BY DEF WellFormed, HeapValue
      <4>. QED BY <1>2, <3>2, <4>1, StartFacts
    <3>4. h.addr + h.size - (start + size) = 0 \/ h.addr + h.size - (start + size) >= MinSize
      <4>1. Rest(h, size, l.align) = h.addr + h.size - (start + size)
        BY <1>2, <3>2 DEF Rest, End
      <4>. QED BY <1>1, <4>1 DEF Fits
    <3>5. h.addr <= x /\ x < h.addr + h.size
      BY <3>1, <3>2, <3>3, <3>4
    <3>. QED BY <2>1, <3>1, <3>5 DEF InHole, End
  <2>. QED BY <2>4, <2>5, Zenon
<1>8. /\ IsFiniteSet(Taken(blocks)) /\ IsFiniteSet(run) /\ Cardinality(run) = size
      /\ Taken(blocks) \cap run = {}
  <2>1. IsFiniteSet(Arena(hp)) /\ Taken(blocks) \subseteq Arena(hp)
    BY BytesFacts
  <2>2. IsFiniteSet(Taken(blocks))
    BY <2>1, FS_Subset
  <2>3. IsFiniteSet(run) /\ Cardinality(run) = size
    BY <1>5, RunOfBytes
  <2>. QED BY <1>7, <2>2, <2>3, Zenon DEF Counted
<1>9. Cardinality(Taken(blocks \cup {b})) = hp.used + size
  <2>1. Cardinality(Taken(blocks) \cup run) = Cardinality(Taken(blocks)) + Cardinality(run)
    BY <1>8, ApartAdds
  <2>. QED BY <1>6, <1>8, <2>1, Zenon DEF Counted
<1>10. Bytes(new.holes) = Arena(new) \ Taken(blocks \cup {b})
  <2>1. Arena(new) = Arena(hp)
    BY <1>4 DEF CutOut, Arena, top
  <2>. QED BY <1>6, <1>7, <2>1, Zenon DEF Counted
<1>11. Counted(new, blocks \cup {b})
  BY <1>4, <1>9, <1>10, Zenon DEF Counted, CutOut
<1>. QED BY <1>1, <1>2, <1>3, <1>11

(* A release moves them back.                                              *)
LEMMA DeallocateCounts ==
  ASSUME NEW hp, NEW blocks, WellFormed(hp, blocks), Counted(hp, blocks), NEW b \in blocks
  PROVE  Counted(deallocate(hp, b.addr, b.layout.size), blocks \ {b})
<1>1. PICK size \in Nat : size = AlignedSize(b.layout.size)
  BY SizeFacts, HeapAssumption DEF WellFormed, BlockOK
<1>2. PICK new : new = deallocate(hp, b.addr, b.layout.size)
  OBVIOUS
<1>3. WellFormed(new, blocks \ {b}) /\ Released(hp, new, b) /\ b.addr \in Nat
  BY <1>2, DeallocateKeeps DEF WellFormed, BlockOK
<1>4. PICK run : run = b.addr .. (b.addr + size - 1)
  OBVIOUS
<1>5. Taken(blocks) = Taken(blocks \ {b}) \cup run
  <2>1. Taken(blocks) = UNION {c.addr .. (c.addr + AlignedSize(c.layout.size) - 1) : c \in blocks}
    BY BytesFacts
  <2>2. Taken(blocks \ {b})
          = UNION {c.addr .. (c.addr + AlignedSize(c.layout.size) - 1) : c \in blocks \ {b}}
    BY <1>3, BytesFacts
  <2>. QED BY <1>1, <1>4, <2>1, <2>2, Zenon
<1>6. Taken(blocks \ {b}) \cap run = {}
  <2>1. ASSUME NEW c \in blocks \ {b}, NEW x \in c.addr .. (c.addr + AlignedSize(c.layout.size) - 1)
        PROVE  x \notin run
    <3>1. Apart(Extent(c), Extent(b))
      BY DEF WellFormed
    <3>2. /\ Extent(c).addr = c.addr /\ Extent(c).size = AlignedSize(c.layout.size)
          /\ Extent(b).addr = b.addr /\ Extent(b).size = size
      BY <1>1 DEF Extent
    <3>3. c.addr \in Nat /\ AlignedSize(c.layout.size) \in Nat
      BY SizeFacts, HeapAssumption DEF WellFormed, BlockOK
    <3>4. c.addr + AlignedSize(c.layout.size) <= b.addr \/ b.addr + size <= c.addr
      BY <3>1, <3>2 DEF Apart, End
    <3>. QED BY <1>3, <1>4, <2>1, <3>3, <3>4
  <2>2. Taken(blocks \ {b})
          = UNION {c.addr .. (c.addr + AlignedSize(c.layout.size) - 1) : c \in blocks \ {b}}
    BY <1>3, BytesFacts
  <2>. QED BY <2>1, <2>2, Zenon
<1>7. Bytes(new.holes) = Bytes(hp.holes) \cup run
  <2>1. Bytes(hp.holes) = {x \in Nat : InHole(hp.holes, x)}
    BY BytesFacts
  <2>2. Bytes(new.holes) = {x \in Nat : InHole(new.holes, x)}
    BY <1>3, BytesFacts
  <2>3. \A x \in Nat : InHole(new.holes, x) <=> InHole(hp.holes, x) \/ x \in run
    BY <1>1, <1>3, <1>4, Zenon DEF Released, PutBack
  <2>4. run \subseteq Nat
    BY <1>3, <1>4
  <2>. QED BY <2>1, <2>2, <2>3, <2>4, Zenon
<1>8. IsFiniteSet(Taken(blocks \ {b})) /\ IsFiniteSet(run) /\ Cardinality(run) = size
  <2>1. IsFiniteSet(Arena(new)) /\ Taken(blocks \ {b}) \subseteq Arena(new)
    BY <1>3, BytesFacts
  <2>2. IsFiniteSet(Taken(blocks \ {b}))
    BY <2>1, FS_Subset
  <2>. QED BY <1>3, <1>4, <2>2, RunOfBytes
<1>9. Cardinality(Taken(blocks \ {b})) = hp.used - size
  <2>1. /\ Cardinality(Taken(blocks \ {b}) \cup run) = Cardinality(Taken(blocks \ {b})) + Cardinality(run)
        /\ Cardinality(Taken(blocks \ {b})) \in Nat
    BY <1>6, <1>8, ApartAdds
  <2>2. hp.used = Cardinality(Taken(blocks \ {b})) + size
    BY <1>5, <1>8, <2>1, Zenon DEF Counted
  <2>. QED BY <2>1, <2>2
<1>10. Bytes(new.holes) = Arena(new) \ Taken(blocks \ {b})
  <2>1. Arena(new) = Arena(hp)
    BY <1>3 DEF Released, Arena, top
  <2>2. Taken(blocks) \subseteq Arena(hp)
    BY BytesFacts
  <2>. QED BY <1>5, <1>6, <1>7, <2>1, <2>2, Zenon DEF Counted
<1>11. Counted(new, blocks \ {b})
  BY <1>1, <1>3, <1>9, <1>10, Zenon DEF Counted, Released
<1>. QED BY <1>2, <1>11

(* An extension adds free bytes behind the others.                         *)
LEMMA ExtendCounts ==
  ASSUME NEW hp, NEW blocks, WellFormed(hp, blocks), Counted(hp, blocks), NEW by \in Extensions
  PROVE  Counted(Extended(hp, by), blocks)
<1>1. PICK new : new = Extended(hp, by)
  OBVIOUS
<1>2. WellFormed(new, blocks) /\ Grown(hp, new, by)
  BY <1>1, ExtendKeeps
<1>3. PICK t \in Nat : t = top(hp) /\ t = hp.bottom + hp.size
  BY DEF WellFormed, HeapValue, top
<1>4. PICK run : run = t .. (t + by - 1)
  OBVIOUS
<1>5. by \in Nat /\ hp.bottom \in Nat /\ hp.size \in Nat
  BY HeapAssumption DEF WellFormed, HeapValue
<1>6. Arena(new) = Arena(hp) \cup run /\ Arena(hp) \cap run = {} /\ run \subseteq Nat
  <2>1. top(new) = t + by /\ new.bottom = hp.bottom
    BY <1>2, <1>3, <1>5 DEF Grown, top
  <2>. QED BY <1>3, <1>4, <1>5, <2>1 DEF Arena
<1>7. Bytes(new.holes) = Bytes(hp.holes) \cup run
  <2>1. Bytes(hp.holes) = {x \in Nat : InHole(hp.holes, x)}
    BY BytesFacts
  <2>2. Bytes(new.holes) = {x \in Nat : InHole(new.holes, x)}
    BY <1>2, BytesFacts
  <2>3. \A x \in Nat : InHole(new.holes, x) <=> InHole(hp.holes, x) \/ x \in run
    BY <1>2, <1>3, <1>4, Zenon DEF Grown, PutBack
  <2>. QED BY <1>6, <2>1, <2>2, <2>3, Zenon
<1>8. Taken(blocks) \subseteq Arena(hp)
  BY BytesFacts
<1>9. Bytes(new.holes) = Arena(new) \ Taken(blocks)
  BY <1>6, <1>7, <1>8, Zenon DEF Counted
<1>. QED BY <1>1, <1>2, <1>9, Zenon DEF Counted, Grown

(* Every call keeps the heap well formed against the live blocks and their *)
(* bytes accounted for.                                                    *)
LEMMA IInvNext == IInv /\ [Next]_vars => IInv'
<1>. SUFFICES ASSUME IInv, [Next]_vars PROVE IInv'
  OBVIOUS
<1>. USE DEF IInv
<1>1. CASE init_heap_new
  <2>1. /\ current = empty /\ current' = init(Bottom, HeapSize)
        /\ DOMAIN ALLOCATOR' = {"loader", "kernel"}
    BY <1>1 DEF init_heap_new, current, heap, Who
  <2>2. live = {}
    BY <2>1, EmptyHasNoBlocks
  <2>3. PICK hp : hp = init(Bottom, HeapSize)
    OBVIOUS
  <2>4. /\ hp = [bottom |-> Bottom, size |-> HeapSize, used |-> 0,
                 holes |-> {[addr |-> Bottom, size |-> HeapSize]}]
        /\ Bottom \in Nat /\ HeapSize \in Nat
        /\ Bottom % HoleAlign = 0 /\ HeapSize % HoleAlign = 0 /\ HeapSize >= MinSize
    BY <2>3, HeapAssumption DEF init, NewHoles
  <2>5. hp \in HeapValue
    BY <2>4 DEF HeapValue, Hole
  <2>6. \A h \in hp.holes : HoleOK(hp, h)
    BY <2>4 DEF HoleOK, End, top
  <2>7. WellFormed(hp, {})
    BY <2>4, <2>5, <2>6 DEF WellFormed
  <2>8. Counted(hp, {})
    <3>1. Bytes(hp.holes) = Arena(hp)
      BY <2>4 DEF Bytes, Arena, top, End
    <3>2. Taken({}) = {} /\ hp.used = 0
      BY <2>4 DEF Taken, Bytes
    <3>. QED BY <3>1, <3>2, FS_EmptySet DEF Counted
  <2>. QED BY <1>1, <2>1, <2>2, <2>3, <2>7, <2>8 DEF init_heap_new
<1>2. ASSUME NEW l \in Layouts, alloc(l) PROVE IInv'
  <2>1. PICK size, h : /\ size = AlignedSize(l.size)
                       /\ h = FirstFit(heap.holes, size, l.align)
    OBVIOUS
  <2>2. heap = current /\ running # "boot" /\ panicked = "no"
        /\ UNCHANGED <<parameters, running>>
    BY <1>2, HeapIsCurrent DEF alloc, Allocating
  <2>3. CASE \E g \in heap.holes : Fits(g, size, l.align)
    <3>1. h \in current.holes /\ Fits(h, size, l.align)
      BY <2>1, <2>2, <2>3, FirstFitFound
    <3>2. PICK new, b : /\ new = allocate_first_fit(current, h, size, l.align)
                        /\ b = [addr |-> StartIn(h, l.align), layout |-> l]
      OBVIOUS
    <3>3. WellFormed(new, live \cup {b}) /\ Counted(new, live \cup {b})
      BY <2>1, <3>1, <3>2, AllocateKeeps, AllocateCounts
    <3>4. /\ ALLOCATOR' = [ALLOCATOR EXCEPT
               ![Who] = allocate_first_fit(ALLOCATOR[Who], h, size, l.align)]
          /\ live' = live \cup {b} /\ UNCHANGED panicked
      BY <1>2, <2>1, <2>3, <3>2 DEF alloc
    <3>5. ALLOCATOR' = [ALLOCATOR EXCEPT ![Who] = new]
      BY <2>2, <3>2, <3>4, Zenon DEF heap
    <3>6. current' = new /\ DOMAIN ALLOCATOR' = {"loader", "kernel"}
      BY <2>2, <3>5, HeapIsCurrent
    <3>. QED BY <2>2, <3>3, <3>4, <3>6
  <2>4. CASE ~ \E g \in heap.holes : Fits(g, size, l.align)
    <3>1. panicked' = "alloc_error" /\ UNCHANGED <<ALLOCATOR, live>>
      BY <1>2, <2>1, <2>4 DEF alloc
    <3>. QED BY <2>2, <3>1 DEF current
  <2>. QED BY <2>3, <2>4
<1>3. ASSUME NEW b \in live, dealloc(b) PROVE IInv'
  <2>1. heap = current /\ running # "boot" /\ panicked = "no"
        /\ UNCHANGED <<parameters, running>>
    BY <1>3, HeapIsCurrent DEF dealloc, Allocating
  <2>2. ~InHole(heap.holes, b.addr)
    BY <2>1, LiveNotFree
  <2>3. PICK new : new = deallocate(current, b.addr, b.layout.size)
    OBVIOUS
  <2>4. /\ ALLOCATOR' = [ALLOCATOR EXCEPT
             ![Who] = deallocate(ALLOCATOR[Who], b.addr, b.layout.size)]
        /\ live' = live \ {b} /\ UNCHANGED panicked
    BY <1>3, <2>2 DEF dealloc
  <2>5. ALLOCATOR' = [ALLOCATOR EXCEPT ![Who] = new]
    BY <2>1, <2>3, <2>4, Zenon DEF heap
  <2>6. current' = new /\ DOMAIN ALLOCATOR' = {"loader", "kernel"}
    BY <2>1, <2>5, HeapIsCurrent
  <2>7. WellFormed(new, live \ {b}) /\ Counted(new, live \ {b})
    BY <2>3, DeallocateKeeps, DeallocateCounts
  <2>. QED BY <2>1, <2>4, <2>6, <2>7
<1>4. ASSUME NEW by \in Extensions, extend(by) PROVE IInv'
  <2>1. heap = current /\ running # "boot" /\ panicked = "no"
        /\ UNCHANGED <<parameters, live, running>>
    BY <1>4, HeapIsCurrent DEF extend, Allocating
  <2>2. ~InHole(heap.holes, top(heap))
    BY <2>1, ExtendKeeps
  <2>3. PICK new : new = Extended(current, by)
    OBVIOUS
  <2>4. /\ ALLOCATOR' = [ALLOCATOR EXCEPT ![Who] = Extended(ALLOCATOR[Who], by)]
        /\ UNCHANGED panicked
    BY <1>4, <2>2 DEF extend
  <2>5. ALLOCATOR' = [ALLOCATOR EXCEPT ![Who] = new]
    BY <2>1, <2>3, <2>4, Zenon DEF heap
  <2>6. current' = new /\ DOMAIN ALLOCATOR' = {"loader", "kernel"}
    BY <2>1, <2>5, HeapIsCurrent
  <2>7. WellFormed(new, live) /\ Counted(new, live)
    BY <2>3, ExtendKeeps, ExtendCounts
  <2>. QED BY <2>1, <2>4, <2>6, <2>7
<1>5. CASE hand_over
  BY <1>5 DEF hand_over, Allocating, current, heap, Who
<1>6. CASE init_heap
  BY <1>6 DEF init_heap, current
<1>7. CASE panic_handler
  BY <1>7 DEF panic_handler, vars, current
<1>8. CASE UNCHANGED vars
  BY <1>8 DEF vars, current
<1>. QED BY <1>1, <1>2, <1>3, <1>4, <1>5, <1>6, <1>7, <1>8 DEF Next

(* The heap that owns the memory is always well formed: linked_list_       *)
(* allocator's hole list, the loader's blocks and the kernel's share the   *)
(* range, whatever is allocated, freed, extended and handed over.          *)
THEOREM Invariance == Spec => []IInv
BY IInvInit, IInvNext, PTL DEF Spec

(* Blocks and holes never overlap, from the loader's first allocation to   *)
(* the kernel's last, for every heap and every set of layouts.             *)
THEOREM BlocksDisjoint == Spec => []NothingOverlaps
<1>1. IInv => NothingOverlaps
  BY DEF IInv, WellFormed, NothingOverlaps
<1>. QED BY Invariance, <1>1, PTL

(* Every hole has room for the node the free list keeps in it, and stands  *)
(* where the node may stand.                                               *)
THEOREM NodesFit == Spec => []HolesHoldTheirNode
<1>1. IInv => HolesHoldTheirNode
  BY DEF IInv, WellFormed, HoleOK, HolesHoldTheirNode
<1>. QED BY Invariance, <1>1, PTL

(* used() and free() tell the truth for every heap and every sequence of   *)
(* calls: the bytes of the live blocks, and the bytes of the hole list,    *)
(* which are all the others.                                               *)
THEOREM AccountsTrue == Spec => []CountersTrue
<1>1. IInv => CountersTrue
  <2>. SUFFICES ASSUME IInv PROVE CountersTrue
    OBVIOUS
  <2>1. PICK hp : hp = current /\ WellFormed(hp, live) /\ Counted(hp, live)
    BY DEF IInv
  <2>2. /\ IsFiniteSet(Arena(hp)) /\ Cardinality(Arena(hp)) = hp.size
        /\ Taken(live) \subseteq Arena(hp) /\ hp.size \in Nat
    BY <2>1, BytesFacts
  <2>3. Arena(hp) \cap Taken(live) = Taken(live)
    BY <2>2
  <2>4. Cardinality(Arena(hp) \ Taken(live)) = Cardinality(Arena(hp)) - Cardinality(Arena(hp) \cap Taken(live))
    BY <2>2, FS_Difference
  <2>5. Cardinality(Bytes(hp.holes)) = hp.size - hp.used
    BY <2>1, <2>2, <2>3, <2>4, Zenon DEF Counted
  <2>6. hp.used = Cardinality(Bytes({Extent(b) : b \in live}))
    BY <2>1, Zenon DEF Counted, Taken
  <2>. QED BY <2>1, <2>5, <2>6, Zenon DEF CountersTrue
<1>. QED BY Invariance, <1>1, PTL

(* Freeing a held block or extending the heap never trips the hole list's  *)
(* double-free assertion.                                                  *)
THEOREM FreesAccepted == Spec => []NoFalseDoubleFree
<1>1. IInv => NoFalseDoubleFree
  BY DEF IInv, NoFalseDoubleFree
<1>. QED BY Invariance, <1>1, PTL
===============================================================================
