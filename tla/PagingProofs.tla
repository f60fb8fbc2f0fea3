----------------------------- MODULE PagingProofs -----------------------------
(***************************************************************************)
(* Proofs about the range mappings of mem.rs and their use for the boot    *)
(* image, for every page size, number of levels and supply of frames, and  *)
(* for every sequence of calls before the image is mapped.                 *)
(***************************************************************************)
EXTENDS BootImage, PageTableProofs

Calls ==
  [fn : {"none", "map_virt", "map_phys", "map_phys_table"}, level : 1 .. Levels,
   phys : Nat, virt : Nat, size : Nat, i : Nat, res : Results \cup {"running"}]

(* map_phys_table maps one page over and over, so only once successfully.  *)
CallOK(c) ==
  /\ c \in Calls
  /\ c.fn = "none" => c.i = 0 /\ c.res = "Ok"
  /\ c.fn \in {"map_phys", "map_phys_table"} => c.virt = c.phys
  /\ c.fn = "map_phys_table" => c.i <= 1

(* The pages a call has been through show their frames.                    *)
Prefix(t, c) ==
  \A i \in 0 .. (c.i - 1) : Shows(t, c.level, PageAt(c, i), FrameAt(c, i))

PagingInv ==
  /\ PtOK(pt) /\ fa \in Seq(Nat)
  /\ CallOK(call) /\ Prefix(pt, call)
  /\ call.res = "Ok" /\ call.fn # "none" => call.i >= Count(call)
  /\ \A c \in done : CallOK(c) /\ c.fn # "none" /\ c.i >= Count(c) /\ Prefix(pt, c)

-------------------------------------------------------------------------------

(* The page that contains an address grows with the address.               *)
LEMMA ContainingFacts ==
  ASSUME NEW l \in 1 .. Levels, NEW a \in Nat
  PROVE  /\ PageSize * Covered(l) \in Nat \ {0} /\ Containing(a, l) \in Nat
         /\ \A b \in Nat : a <= b => Containing(a, l) <= Containing(b, l)
<1>1. PICK c \in Nat \ {0} : c = Covered(l)
  BY CoveredFacts
<1>2. PICK s \in Nat \ {0} : s = PageSize * c
  <2>1. PageSize \in Nat \ {0} /\ c \in Nat \ {0}
    BY PagingAssumption
  <2>2. PageSize * c \in Nat /\ PageSize * c # 0
    BY <2>1
  <2>. QED BY <2>2
<1>3. \A b : Containing(b, l) = b \div s
  BY <1>1, <1>2 DEF Containing
<1>4. a \div s \in Nat
  OBVIOUS
<1>5. \A b \in Nat : a <= b => a \div s <= b \div s
  BY DivMonotone
<1>. QED BY <1>1, <1>2, <1>3, <1>4, <1>5

(* The pages and frames of a call, and how many there are.                 *)
LEMMA CallFacts ==
  ASSUME NEW c, CallOK(c)
  PROVE  /\ FrameCount(c) \in Nat \ {0} /\ PageCount(c) \in Nat \ {0}
         /\ Count(c) \in Nat \ {0} /\ Count(c) <= FrameCount(c)
         /\ c.fn = "map_virt" => Count(c) <= PageCount(c)
         /\ c.fn # "map_virt" => Count(c) = FrameCount(c)
         /\ c.fn # "none" => \A i \in Nat : PageAt(c, i) \in Nat /\ FrameAt(c, i) \in Nat
<1>1. /\ c.level \in 1 .. Levels /\ c.phys \in Nat /\ c.virt \in Nat /\ c.size \in Nat
      /\ c.phys + c.size \in Nat /\ c.virt + c.size \in Nat
      /\ c.phys <= c.phys + c.size /\ c.virt <= c.virt + c.size
      /\ c.fn \in {"none", "map_virt", "map_phys", "map_phys_table"}
  BY DEF CallOK, Calls
<1>2. /\ Containing(c.phys, c.level) \in Nat /\ Containing(c.virt, c.level) \in Nat
      /\ Containing(c.phys + c.size, c.level) \in Nat
      /\ Containing(c.virt + c.size, c.level) \in Nat
      /\ Containing(c.phys, c.level) <= Containing(c.phys + c.size, c.level)
      /\ Containing(c.virt, c.level) <= Containing(c.virt + c.size, c.level)
  BY <1>1, ContainingFacts
<1>3. FrameCount(c) \in Nat \ {0} /\ PageCount(c) \in Nat \ {0}
  BY <1>2 DEF FrameCount, PageCount
<1>4. /\ Min({FrameCount(c), PageCount(c)}) \in Nat \ {0}
      /\ Min({FrameCount(c), PageCount(c)}) <= FrameCount(c)
      /\ Min({FrameCount(c), PageCount(c)}) <= PageCount(c)
  <2>1. PICK x \in Nat \ {0}, y \in Nat \ {0} : x = FrameCount(c) /\ y = PageCount(c)
    BY <1>3
  <2>2. Min({x, y}) = IF x <= y THEN x ELSE y
    BY PairBounds
  <2>3. Min({x, y}) \in Nat \ {0} /\ Min({x, y}) <= x /\ Min({x, y}) <= y
    BY <2>2
  <2>. QED BY <2>1, <2>3
<1>5. c.fn # "none" => \A i \in Nat : PageAt(c, i) \in Nat /\ FrameAt(c, i) \in Nat
  BY <1>1, <1>2 DEF PageAt, FrameAt
<1>. QED BY <1>3, <1>4, <1>5 DEF Count

(* A call keeps its pages when only its progress changes.                  *)
LEMMA SameRange ==
  ASSUME NEW c, NEW d, d.fn = c.fn, d.level = c.level, d.phys = c.phys,
         d.virt = c.virt, d.size = c.size
  PROVE  /\ Count(d) = Count(c)
         /\ \A i : PageAt(d, i) = PageAt(c, i) /\ FrameAt(d, i) = FrameAt(c, i)
BY DEF Count, FrameCount, PageCount, PageAt, FrameAt

(* What is shown stays shown.                                              *)
LEMMA PrefixStays ==
  ASSUME NEW t, NEW u, NEW c, Grows(t, u), Prefix(t, c)
  PROVE  Prefix(u, c)
BY DEF Prefix, Shows, Grows

-------------------------------------------------------------------------------

(* Calls start on an empty table.                                          *)
LEMMA PagingInvInit == Init => PagingInv
<1>. SUFFICES ASSUME Init PROVE PagingInv
  OBVIOUS
<1>1. DOMAIN pt.map = {} /\ DOMAIN pt.tables = {}
  BY DEF Init, EmptyTable
<1>2. PtOK(pt)
  BY <1>1 DEF PtOK
<1>3. fa \in Seq(Nat)
  <2>1. PICK n \in 0 .. MaxFrames : fa = [i \in 1 .. n |-> FirstFrame + i - 1]
    BY DEF Init
  <2>2. \A i \in 1 .. n : FirstFrame + i - 1 \in Nat
    BY PagingAssumption
  <2>. QED BY <2>1, <2>2, PagingAssumption
<1>4. CallOK(call)
  BY TableAssumption DEF Init, NoCall, CallOK, Calls, Results
<1>5. call.i = 0 /\ call.fn = "none" /\ done = {}
  BY DEF Init, NoCall
<1>. QED BY <1>2, <1>3, <1>4, <1>5 DEF PagingInv, Prefix

(* A call starts with no pages done.                                       *)
LEMMA CallKeeps ==
  ASSUME PagingInv, NEW fn \in {"map_virt", "map_phys", "map_phys_table"},
         NEW level \in 1 .. Levels, NEW phys \in Nat, NEW virt \in Nat, NEW size \in Nat,
         fn # "map_virt" => virt = phys, Call(fn, level, phys, virt, size)
  PROVE  PagingInv'
<1>1. call' = [fn |-> fn, level |-> level, phys |-> phys, virt |-> virt, size |-> size,
               i |-> 0, res |-> "running"] /\ UNCHANGED <<pt, fa, done>>
  BY DEF Call
<1>2. CallOK(call') /\ call'.i = 0 /\ call'.res = "running"
  BY <1>1 DEF CallOK, Calls
<1>. QED BY <1>1, <1>2 DEF PagingInv, Prefix

(* A new call keeps the invariant.                                         *)
LEMMA CallAnyKeeps == PagingInv /\ call_any => PagingInv'
<1>. SUFFICES ASSUME PagingInv, call_any PROVE PagingInv'
  OBVIOUS
<1>1. Addresses \subseteq Nat /\ Sizes \subseteq Nat /\ 1 \in 1 .. Levels
  BY PagingAssumption, TableAssumption
<1>2. \/ \E l \in 1 .. Levels, p, v \in Addresses, z \in Sizes : map_virt(l, p, v, z)
      \/ \E p \in Addresses, z \in Sizes : map_phys(p, z) \/ map_phys_table(p, z)
  BY DEF call_any
<1>3. ASSUME NEW l \in 1 .. Levels, NEW p \in Addresses, NEW v \in Addresses, NEW z \in Sizes,
             map_virt(l, p, v, z)
      PROVE  PagingInv'
  BY <1>1, <1>3, CallKeeps DEF map_virt
<1>4. ASSUME NEW p \in Addresses, NEW z \in Sizes, map_phys(p, z) PROVE PagingInv'
  BY <1>1, <1>4, CallKeeps DEF map_phys
<1>5. ASSUME NEW p \in Addresses, NEW z \in Sizes, map_phys_table(p, z) PROVE PagingInv'
  BY <1>1, <1>5, CallKeeps DEF map_phys_table
<1>. QED BY <1>2, <1>3, <1>4, <1>5

(* What an iteration works on.                                             *)
LEMMA Iteration ==
  ASSUME PagingInv, map_page
  PROVE  \E page, frame, l, r :
           /\ page \in Nat /\ frame \in Nat /\ l \in 1 .. Levels
           /\ page = PageAt(call, call.i) /\ frame = FrameAt(call, call.i) /\ l = call.level
           /\ r = map_to_level(pt, fa, l, page, frame)
           /\ pt' = r.pt /\ fa' = r.fa /\ call.fn # "none"
           /\ call' = IF r.res = "Ok" THEN [call EXCEPT !.i = @ + 1]
                      ELSE [call EXCEPT !.res = r.res]
<1>1. call.fn # "none" /\ call.i \in Nat /\ call.level \in 1 .. Levels
  BY DEF PagingInv, CallOK, Calls, map_page
<1>2. PageAt(call, call.i) \in Nat /\ FrameAt(call, call.i) \in Nat
  BY <1>1, CallFacts DEF PagingInv
<1>. QED BY <1>1, <1>2 DEF map_page

(* One page of a range keeps it, and the table only grows.                 *)
LEMMA MapPageKeeps == PagingInv /\ map_page => PagingInv' /\ Grows(pt, pt')
<1>. SUFFICES ASSUME PagingInv, map_page PROVE PagingInv' /\ Grows(pt, pt')
  OBVIOUS
<1>1. PICK page, frame, l, r :
        /\ page \in Nat /\ frame \in Nat /\ l \in 1 .. Levels
        /\ page = PageAt(call, call.i) /\ frame = FrameAt(call, call.i) /\ l = call.level
        /\ r = map_to_level(pt, fa, l, page, frame)
        /\ pt' = r.pt /\ fa' = r.fa /\ call.fn # "none"
        /\ call' = IF r.res = "Ok" THEN [call EXCEPT !.i = @ + 1]
                   ELSE [call EXCEPT !.res = r.res]
  BY Iteration
<1>. page \in Nat /\ frame \in Nat /\ l \in 1 .. Levels
  BY <1>1
<1>2. PICK first : first = page * Covered(l)
  OBVIOUS
<1>3. /\ PtOK(pt') /\ Grows(pt, pt') /\ fa' \in Seq(Nat) /\ r.res \in Results
      /\ r.res = "Ok" => Shows(pt', l, page, frame) /\ first \notin Mapped(pt)
  <2>1. PtOK(pt) /\ fa \in Seq(Nat)
    BY DEF PagingInv
  <2>2. MapDone(pt, fa, l, page, frame, r)
    BY <1>1, <2>1, MapTo
  <2>. QED BY <1>1, <1>2, <2>2 DEF MapDone
<1>4. /\ call \in Calls /\ call.i \in Nat /\ call.i < Count(call) /\ call.res = "running"
      /\ CallOK(call) /\ Prefix(pt, call) /\ done' = done
  BY DEF PagingInv, CallOK, Calls, map_page
<1>5. Prefix(pt', call) /\ \A c \in done : Prefix(pt', c)
  BY <1>3, <1>4, PrefixStays DEF PagingInv
<1>6. CASE r.res = "Ok"
  <2>1. /\ call' \in Calls /\ call'.i = call.i + 1 /\ call'.fn = call.fn /\ call'.res = call.res
        /\ call'.level = call.level /\ call'.phys = call.phys /\ call'.virt = call.virt
        /\ call'.size = call.size
    BY <1>1, <1>4, <1>6 DEF Calls
  (* The table's one page cannot be mapped a second time.                  *)
  <2>2. ASSUME call.fn = "map_phys_table" PROVE call.i = 0
    <3>1. ASSUME call.i = 1 PROVE FALSE
      <4>1. PageAt(call, 0) = page
        BY <1>1, <2>2 DEF PageAt
      <4>2. Shows(pt, l, page, FrameAt(call, 0))
        BY <1>1, <1>4, <3>1, <4>1 DEF Prefix
      <4>3. first \in EntryOf(l, page)
        BY <1>2, EntryPages
      <4>. QED BY <1>3, <1>6, <4>2, <4>3 DEF Shows
    <3>. QED BY <1>4, <2>2, <3>1 DEF CallOK
  <2>3. CallOK(call')
    BY <1>1, <1>4, <2>1, <2>2 DEF CallOK
  <2>4. \A i \in 0 .. (call'.i - 1) : i \in 0 .. (call.i - 1) \/ i = call.i
    BY <1>4, <2>1
  <2>5. \A i : PageAt(call', i) = PageAt(call, i) /\ FrameAt(call', i) = FrameAt(call, i)
    BY <2>1, SameRange
  <2>6. Prefix(pt', call')
    BY <1>1, <1>3, <1>5, <1>6, <2>1, <2>4, <2>5 DEF Prefix
  <2>. QED BY <1>3, <1>4, <1>5, <2>1, <2>3, <2>6 DEF PagingInv
<1>7. CASE r.res # "Ok"
  <2>1. /\ call' \in Calls /\ call'.i = call.i /\ call'.fn = call.fn /\ call'.res = r.res
        /\ call'.level = call.level /\ call'.phys = call.phys /\ call'.virt = call.virt
        /\ call'.size = call.size
    BY <1>1, <1>3, <1>4, <1>7 DEF Calls
  <2>2. CallOK(call')
    BY <1>1, <1>4, <2>1 DEF CallOK
  <2>3. Prefix(pt', call')
    <3>1. \A i : PageAt(call', i) = PageAt(call, i) /\ FrameAt(call', i) = FrameAt(call, i)
      BY <2>1, SameRange, Zenon
    <3>. QED BY <1>5, <2>1, <3>1, Zenon DEF Prefix
  <2>. QED BY <1>3, <1>4, <1>5, <1>7, <2>1, <2>2, <2>3 DEF PagingInv
<1>. QED BY <1>3, <1>6, <1>7

(* The end of a range keeps it.                                            *)
LEMMA MapReturnKeeps == PagingInv /\ map_return => PagingInv'
<1>. SUFFICES ASSUME PagingInv, map_return PROVE PagingInv'
  OBVIOUS
<1>1. /\ CallOK(call) /\ call \in Calls /\ call.res = "running" /\ call.fn # "none"
      /\ call.i >= Count(call) /\ call' = [call EXCEPT !.res = "Ok"]
      /\ done' = done \cup {call} /\ UNCHANGED <<pt, fa>>
  BY DEF PagingInv, CallOK, map_return
<1>2. /\ call' \in Calls /\ call'.i = call.i /\ call'.fn = call.fn /\ call'.res = "Ok"
      /\ call'.level = call.level /\ call'.phys = call.phys /\ call'.virt = call.virt
      /\ call'.size = call.size
  BY <1>1 DEF Calls, Results
<1>3. CallOK(call') /\ Count(call') = Count(call) /\ Prefix(pt, call')
  <2>1. CallOK(call')
    BY <1>1, <1>2 DEF CallOK
  <2>2. /\ Count(call') = Count(call)
        /\ \A i : PageAt(call', i) = PageAt(call, i) /\ FrameAt(call', i) = FrameAt(call, i)
    BY <1>2, SameRange, Zenon
  <2>3. Prefix(pt, call)
    BY DEF PagingInv
  <2>4. Prefix(pt, call')
    BY <1>2, <2>2, <2>3, Zenon DEF Prefix
  <2>. QED BY <2>1, <2>2, <2>4
<1>. QED BY <1>1, <1>2, <1>3 DEF PagingInv

(* The offset of a byte in its range decides how many pages it is from the *)
(* range's first, for the virtual and the physical side alike.             *)
LEMMA BytesVisible == PagingInv => OkMeansVisible
<1>. SUFFICES ASSUME PagingInv, NEW c \in done,
                     c.phys % (PageSize * Covered(c.level)) = c.virt % (PageSize * Covered(c.level)),
                     NEW b \in 0 .. (c.size - 1)
              PROVE  ByteVisible(c, b)
  BY DEF OkMeansVisible
<1>1. /\ CallOK(c) /\ c.fn # "none" /\ c.i >= Count(c) /\ Prefix(pt, c)
      /\ c.level \in 1 .. Levels /\ c.phys \in Nat /\ c.virt \in Nat /\ c.size \in Nat
      /\ c.i \in Nat /\ c.fn \in {"map_virt", "map_phys", "map_phys_table"}
  BY DEF PagingInv, CallOK, Calls
<1>2. PICK k \in Nat \ {0}, s \in Nat \ {0} : k = Covered(c.level) /\ s = PageSize * k
  <2>1. PICK k \in Nat \ {0} : k = Covered(c.level)
    BY <1>1, CoveredFacts, Zenon
  <2>2. PageSize * k \in Nat \ {0}
    BY <1>1, <2>1, ContainingFacts, Zenon
  <2>. QED BY <2>1, <2>2, Zenon
<1>3. PICK f \in Nat, o \in 0 .. (s - 1) : c.phys = s * f + o /\ f = c.phys \div s /\ o = c.phys % s
  BY <1>1, Division
<1>4. PICK v \in Nat, o2 \in 0 .. (s - 1) : c.virt = s * v + o2 /\ v = c.virt \div s /\ o2 = c.virt % s
  BY <1>1, Division
<1>5. o2 = o
  BY <1>2, <1>3, <1>4
<1>6. PICK m \in Nat : m = o + b
  BY <1>1
<1>7. PICK n \in Nat, w \in 0 .. (PageSize - 1), i \in Nat, u \in 0 .. (k - 1) :
        m = PageSize * n + w /\ n = k * i + u
  <2>1. PageSize \in Nat \ {0}
    BY PagingAssumption
  <2>2. PICK n \in Nat, w \in 0 .. (PageSize - 1) : m = PageSize * n + w /\ n = m \div PageSize
    BY <2>1, Division
  <2>3. PICK i \in Nat, u \in 0 .. (k - 1) : n = k * i + u /\ i = n \div k
    BY Division
  <2>. QED BY <2>2, <2>3
<1>8. PICK x \in Nat, y \in Nat : x = c.virt + b /\ y = c.phys + b
  BY <1>1
<1>9. x = s * v + m /\ y = s * f + m
  <2>1. PICK sv \in Nat, sf \in Nat : sv = s * v /\ sf = s * f
    OBVIOUS
  <2>2. c.virt = sv + o /\ c.phys = sf + o
    BY <1>3, <1>4, <1>5, <2>1, Zenon
  <2>3. b \in Nat
    BY <1>1
  <2>4. x = sv + m /\ y = sf + m
    BY <1>6, <1>8, <2>2, <2>3
  <2>. QED BY <2>1, <2>4
<1>10. /\ x \div s = v + i /\ x \div PageSize = k * (v + i) + u
       /\ y \div s = f + i /\ y \div PageSize = k * (f + i) + u
  <2>1. PageSize \in Nat \ {0}
    BY PagingAssumption
  <2>2. /\ x = (PageSize * k) * v + (PageSize * n + w)
        /\ y = (PageSize * k) * f + (PageSize * n + w)
    BY <1>2, <1>7, <1>9, Zenon
  <2>3. x \div (PageSize * k) = v + i /\ x \div PageSize = k * (v + i) + u
    BY <1>7, <2>1, <2>2, PageOfByte
  <2>4. y \div (PageSize * k) = f + i /\ y \div PageSize = k * (f + i) + u
    BY <1>7, <2>1, <2>2, PageOfByte
  <2>. QED BY <1>2, <2>3, <2>4
<1>11. /\ Containing(x, c.level) = v + i /\ Containing(c.virt, c.level) = v
       /\ Containing(y, c.level) = f + i /\ Containing(c.phys, c.level) = f
  BY <1>2, <1>3, <1>4, <1>10 DEF Containing
<1>12. /\ Containing(x, 1) = k * (v + i) + u /\ Containing(y, 1) = k * (f + i) + u
  <2>1. Covered(1) = 1 /\ PageSize * 1 = PageSize
    BY <1>1, CoveredFacts, PagingAssumption
  <2>. QED BY <1>10, <2>1 DEF Containing
(* The call got as far as the byte's page.                                 *)
<1>13. i < FrameCount(c) /\ i < PageCount(c)
  <2>1. PICK xe \in Nat, ye \in Nat : xe = c.virt + c.size /\ ye = c.phys + c.size
    BY <1>1
  <2>2. x <= xe /\ y <= ye
    BY <1>1, <1>8, <2>1
  <2>3. /\ Containing(x, c.level) <= Containing(xe, c.level) /\ Containing(xe, c.level) \in Nat
        /\ Containing(y, c.level) <= Containing(ye, c.level) /\ Containing(ye, c.level) \in Nat
    BY <1>1, <2>2, ContainingFacts
  <2>. QED BY <1>11, <2>1, <2>3 DEF FrameCount, PageCount
<1>14. i < Count(c)
  <2>1. Count(c) = IF c.fn = "map_virt" THEN Min({FrameCount(c), PageCount(c)}) ELSE FrameCount(c)
    BY DEF Count
  <2>2. PICK fc \in Nat, pc \in Nat : fc = FrameCount(c) /\ pc = PageCount(c)
    BY <1>1, CallFacts
  <2>3. Min({fc, pc}) = IF fc <= pc THEN fc ELSE pc
    <3>1. fc \in Int /\ pc \in Int
      OBVIOUS
    <3>. QED BY <3>1, PairBounds, Zenon
  <2>. QED BY <1>13, <2>1, <2>2, <2>3
<1>15. i < c.i /\ (c.fn = "map_phys_table" => i = 0)
  BY <1>1, <1>14, CallFacts DEF CallOK
<1>16. PageAt(c, i) = v + i /\ FrameAt(c, i) = f + i
  <2>1. c.fn # "map_virt" => v = f
    BY <1>1, <1>11 DEF CallOK
  <2>. QED BY <1>1, <1>11, <1>15, <2>1 DEF PageAt, FrameAt
<1>17. Shows(pt, c.level, v + i, f + i)
  <2>1. i \in 0 .. (c.i - 1)
    BY <1>1, <1>15
  <2>. QED BY <1>1, <1>16, <2>1 DEF Prefix
<1>18. PICK p \in Nat, g \in Nat : /\ p = (v + i) * k /\ g = (f + i) * k
                                   /\ p = k * (v + i) /\ g = k * (f + i)
  OBVIOUS
<1>19. p + u \in EntryOf(c.level, v + i)
  BY <1>2, <1>18 DEF EntryOf
<1>20. p + u \in Mapped(pt) /\ pt.map[p + u] = g + (p + u - p)
  BY <1>2, <1>17, <1>18, <1>19 DEF Shows
<1>21. Containing(x, 1) = p + u /\ Containing(y, 1) = g + u
  BY <1>12, <1>18
<1>22. g + (p + u - p) = g + u
  OBVIOUS
<1>. QED BY <1>8, <1>20, <1>21, <1>22 DEF ByteVisible, translate_page

(* A failed call has mapped the pages before the failing one.              *)
LEMMA PrefixLeft == PagingInv => ErrLeavesPrefix
<1>. SUFFICES ASSUME PagingInv, NEW i \in 0 .. (call.i - 1)
              PROVE  LET page == PageAt(call, i) * Covered(call.level) IN
                     page \in Mapped(pt) /\ pt.map[page] = FrameAt(call, i) * Covered(call.level)
  BY DEF ErrLeavesPrefix
<1>1. CallOK(call) /\ Prefix(pt, call) /\ call.level \in 1 .. Levels /\ call.i \in Nat
  BY DEF PagingInv, CallOK, Calls
<1>2. i \in Nat /\ call.fn # "none"
  BY <1>1 DEF CallOK
<1>3. PICK page \in Nat, frame \in Nat : page = PageAt(call, i) /\ frame = FrameAt(call, i)
  BY <1>1, <1>2, CallFacts
<1>4. PICK k \in Nat : k = Covered(call.level)
  BY <1>1, CoveredFacts
<1>5. PICK first \in Nat : first = page * k /\ first \in EntryOf(call.level, page)
  BY <1>1, <1>4, EntryPages
<1>6. first \in Mapped(pt) /\ pt.map[first] = frame * k + (first - first)
  BY <1>1, <1>3, <1>4, <1>5 DEF Prefix, Shows
<1>7. frame * k \in Nat /\ frame * k + (first - first) = frame * k
  OBVIOUS
<1>. QED BY <1>3, <1>4, <1>5, <1>6, <1>7

-------------------------------------------------------------------------------
(* The small pages under the image's table.                                *)
InTable(p) == TableOf(p, 2) = ImageTable

(* No entry of the image's table points to a table of small pages.         *)
NoSmallPages == \A q \in Nat : InTable(q) => TableOf(q, 1) \notin DOMAIN pt.tables

(* Until the image is mapped the other callers stay out of its table.      *)
Low ==
  boot = "start" =>
    /\ call.fn # "none" =>
         call.phys \in Addresses /\ call.virt \in Addresses /\ call.size \in Sizes
    /\ \A p \in Mapped(pt) : ~InTable(p)
    /\ NoSmallPages

(* From then on whatever is mapped there shows the image, in large pages.  *)
High ==
  boot # "start" =>
    /\ boot_image.addr \in ImageAddresses /\ boot_image.len \in ImageSizes
    /\ call.fn = "map_virt" /\ call.level = 2 /\ call.virt = BOOT_IMAGE
    /\ call.phys = boot_image.addr /\ call.size = boot_image.len
    /\ NoSmallPages
    /\ \A p \in Mapped(pt) : InTable(p) =>
         pt.map[p] = FirstImageFrame * Entries + (p - ImageStart)

(* The second loop leaves no gap behind it.                                *)
Loop ==
  /\ boot \in {"start", "map_virt", "panicked", "loop", "read"}
  /\ j \in Nat /\ (boot \in {"start", "map_virt"} => j = 0)
  /\ boot \in {"loop", "read"} =>
       /\ call.res = "Ok" /\ ImageStart \in Mapped(pt)
       /\ \A p \in ImageStart .. (ImageStart + Entries * j - 1) : p \in Mapped(pt)
  /\ boot = "read" => FirstImageFrame + j > LastImageFrame

IInv == PagingInv /\ Low /\ High /\ Loop

(* BOOT_IMAGE stands at the border of a level-2 table.                     *)
LEMMA ImageBorder ==
  /\ BOOT_IMAGE \in Nat /\ ImageStart \in Nat /\ BOOT_IMAGE = PageSize * ImageStart
  /\ \E z \in Nat : ImageStart = (Entries * Entries) * z
  /\ Entries \in Nat \ {0} /\ Entries ^ 2 = Entries * Entries
  /\ 2 \in 1 .. Levels /\ Covered(2) = Entries
<1>1. /\ BOOT_IMAGE \in Nat /\ PageSize \in Nat \ {0} /\ Levels \in Nat /\ Levels >= 2
      /\ BOOT_IMAGE % (PageSize * Entries ^ 2) = 0 /\ Entries \in Nat \ {0}
  BY ImageAssumption, PagingAssumption, TableAssumption
<1>2. Covered(2) = Entries
  <2>1. 2 - 1 = 1
    OBVIOUS
  <2>2. Entries ^ (2 - 1) = Entries ^ 1
    BY <2>1
  <2>. QED BY <2>2, PowerAssumption DEF Covered
<1>3. PICK e \in Nat \ {0} : e = Entries ^ 2 /\ e = Entries * Entries
  <2>1. 1 \in 0 .. Levels /\ 1 \in 0 .. (Levels - 1) /\ 1 + 1 = 2 /\ 2 \in 0 .. Levels
    BY <1>1
  <2>2. Entries ^ (1 + 1) = Entries ^ 1 * Entries ^ 1
    BY <2>1, PowerAssumption
  <2>3. Entries ^ 2 = Entries * Entries /\ Entries ^ 2 \in Nat \ {0}
    BY <2>1, <2>2, PowerAssumption
  <2>. QED BY <2>3
<1>4. PICK m \in Nat \ {0} : m = PageSize * e
  <2>1. PageSize * e \in Nat /\ PageSize * e # 0
    BY <1>1
  <2>. QED BY <2>1
<1>5. PICK z \in Nat, r \in 0 .. (m - 1) :
        BOOT_IMAGE = m * z + r /\ z = BOOT_IMAGE \div m /\ r = BOOT_IMAGE % m
  BY <1>1, Division
<1>6. BOOT_IMAGE = PageSize * (e * z)
  <2>1. r = 0
    BY <1>1, <1>3, <1>4, <1>5
  <2>2. m * z = PageSize * (e * z)
    BY <1>1, <1>4
  <2>. QED BY <1>5, <2>1, <2>2
<1>7. e * z \in Nat /\ ImageStart = e * z
  <2>1. PICK y \in Nat : y = e * z
    OBVIOUS
  <2>2. BOOT_IMAGE = PageSize * y + 0 /\ 0 \in 0 .. (PageSize - 1)
    BY <1>1, <1>6, <2>1
  <2>3. BOOT_IMAGE \div PageSize = y
    BY <1>1, <2>2, DivUnique
  <2>4. Covered(1) = 1 /\ PageSize * 1 = PageSize
    BY <1>1, CoveredFacts
  <2>. QED BY <2>1, <2>3, <2>4 DEF ImageStart, Containing
<1>. QED BY <1>1, <1>2, <1>3, <1>6, <1>7

(* The large page that starts the image's range.                           *)
LEMMA ImageEntry ==
  \E y \in Nat : /\ Containing(BOOT_IMAGE, 2) = y /\ ImageStart = Entries * y
                 /\ BOOT_IMAGE = (PageSize * Entries) * y
<1>1. PICK z \in Nat : ImageStart = (Entries * Entries) * z
  BY ImageBorder
<1>2. PICK y \in Nat : y = Entries * z
  BY ImageBorder
<1>3. ImageStart = Entries * y
  BY <1>1, <1>2, ImageBorder
<1>4. PICK s \in Nat \ {0} : s = PageSize * Entries
  BY ImageBorder, ContainingFacts
<1>5. PageSize \in Nat \ {0} /\ BOOT_IMAGE \in Nat /\ BOOT_IMAGE = PageSize * (Entries * y)
  BY <1>3, ImageBorder, PagingAssumption
<1>6. PageSize * (Entries * y) = s * y
  BY <1>4, <1>5, ImageBorder
<1>7. BOOT_IMAGE = s * y + 0 /\ 0 \in 0 .. (s - 1)
  BY <1>5, <1>6
<1>8. BOOT_IMAGE \div s = y
  BY <1>5, <1>7, DivUnique
<1>9. Containing(BOOT_IMAGE, 2) = BOOT_IMAGE \div s
  BY <1>4, ImageBorder DEF Containing
<1>. QED BY <1>3, <1>4, <1>5, <1>6, <1>8, <1>9

(* Large page n of the image's range.                                      *)
LEMMA ImagePage ==
  ASSUME NEW n \in Nat
  PROVE  /\ Containing(BOOT_IMAGE, 2) \in Nat /\ 2 \in 1 .. Levels
         /\ Covered(2) = Entries /\ Entries \in Nat \ {0}
         /\ (Containing(BOOT_IMAGE, 2) + n) * Covered(2) = ImageStart + Entries * n
         /\ EntryOf(2, Containing(BOOT_IMAGE, 2) + n)
              = (ImageStart + Entries * n) .. (ImageStart + Entries * n + Entries - 1)
<1>1. 2 \in 1 .. Levels /\ Entries \in Nat \ {0}
  BY ImageBorder
<1>2. Covered(2) = Entries
  BY ImageBorder
<1>3. PICK y \in Nat : y = Containing(BOOT_IMAGE, 2) /\ ImageStart = Entries * y
  BY <1>1, <1>2, ImageEntry
<1>4. (y + n) * Entries = Entries * y + Entries * n
  BY <1>1
<1>. QED BY <1>1, <1>2, <1>3, <1>4 DEF EntryOf

(* The first Entries large pages are those of the image's table.           *)
LEMMA ImagePages ==
  ASSUME NEW n \in 0 .. (Entries - 1), NEW u \in 0 .. (Entries - 1), NEW p,
         p = ImageStart + Entries * n + u
  PROVE  p \in Nat /\ InTable(p)
<1>1. PICK e \in Nat \ {0} : e = Entries * Entries /\ e = Entries ^ 2
  <2>1. Entries * Entries \in Nat /\ Entries * Entries # 0
    BY ImageBorder
  <2>. QED BY <2>1, ImageBorder
<1>2. PICK z \in Nat : ImageStart = e * z
  BY <1>1, ImageBorder
<1>3. Entries * n + Entries <= Entries * Entries
  <2>1. n \in Nat /\ n < Entries /\ Entries \in Nat
    BY ImageBorder
  <2>. QED BY <2>1, NextMultiple
<1>4. PICK o \in 0 .. (e - 1) : o = Entries * n + u
  <2>1. Entries * n \in Nat /\ u \in Nat /\ u < Entries /\ Entries \in Nat
    BY ImageBorder
  <2>2. Entries * n + u \in Nat /\ Entries * n + u < Entries * Entries
    BY <1>3, <2>1
  <2>. QED BY <1>1, <2>2
<1>5. ImageStart + Entries * n + u = ImageStart + o /\ ImageStart \in Nat
  <2>1. Entries * n \in Nat /\ u \in Nat /\ ImageStart \in Nat
    BY ImageBorder
  <2>. QED BY <1>4, <2>1
<1>6. p \in Nat /\ p = e * z + o /\ ImageStart = e * z + 0 /\ 0 \in 0 .. (e - 1)
  BY <1>2, <1>5
<1>7. p \div e = z /\ ImageStart \div e = z
  BY <1>5, <1>6, DivUnique
<1>. QED BY <1>1, <1>6, <1>7 DEF InTable, ImageTable, TableOf

-------------------------------------------------------------------------------
(* The pages of other calls lie outside the image's table.                 *)
LEMMA LowStep ==
  ASSUME PagingInv, Low, boot = "start", map_page, UNCHANGED boot
  PROVE  Low'
<1>1. PICK page, frame, l, r :
        /\ page \in Nat /\ frame \in Nat /\ l \in 1 .. Levels
        /\ page = PageAt(call, call.i) /\ frame = FrameAt(call, call.i) /\ l = call.level
        /\ r = map_to_level(pt, fa, l, page, frame)
        /\ pt' = r.pt /\ fa' = r.fa /\ call.fn # "none"
        /\ call' = IF r.res = "Ok" THEN [call EXCEPT !.i = @ + 1]
                   ELSE [call EXCEPT !.res = r.res]
  BY Iteration
<1>. page \in Nat /\ frame \in Nat /\ l \in 1 .. Levels
  BY <1>1
<1>2. PICK first : first = page * Covered(l)
  OBVIOUS
<1>3. /\ PtOK(pt) /\ fa \in Seq(Nat) /\ CallOK(call) /\ call \in Calls /\ call.i \in Nat
      /\ call.i < Count(call) /\ call.phys \in Nat /\ call.virt \in Nat /\ call.size \in Nat
      /\ call.fn \in {"map_virt", "map_phys", "map_phys_table"}
      /\ call.phys \in Addresses /\ call.virt \in Addresses /\ call.size \in Sizes
  BY <1>1 DEF PagingInv, CallOK, Calls, Low, map_page
<1>4. /\ r.res = "Ok" => DOMAIN r.pt.map = DOMAIN pt.map \cup EntryOf(l, page)
      /\ r.res # "Ok" => r.pt.map = pt.map
      /\ \A x \in DOMAIN r.pt.tables :
           x \in DOMAIN pt.tables \/ \E i \in l .. Levels : x = TableOf(first, i)
  <2>1. PtOK(pt) /\ fa \in Seq(Nat) /\ r = map_to_level(pt, fa, l, page, frame)
    BY <1>1, <1>3
  <2>2. MapDone(pt, fa, l, page, frame, r)
    BY <2>1, MapTo
  <2>. QED BY <1>2, <2>2 DEF MapDone
<1>5. PICK a \in Addresses, z \in Sizes : page \in Containing(a, l) .. Containing(a + z, l)
  <2>0. call.phys \in Nat /\ call.virt \in Nat /\ call.size \in Nat
    BY <1>3
  <2>1. PICK p \in Nat, v \in Nat : p = call.phys + call.size /\ v = call.virt + call.size
    BY <2>0
  <2>2. /\ Containing(p, l) \in Nat /\ Containing(v, l) \in Nat
        /\ Containing(call.phys, l) \in Nat /\ Containing(call.virt, l) \in Nat
        /\ Containing(call.phys, l) <= Containing(p, l)
    <3>1. call.phys <= p
      BY <1>3, <2>1
    <3>. QED BY <1>3, <3>1, ContainingFacts
  <2>3. FrameCount(call) = Containing(p, l) - Containing(call.phys, l) + 1
    BY <1>1, <2>1 DEF FrameCount
  <2>4. PageCount(call) = Containing(v, l) - Containing(call.virt, l) + 1
    BY <1>1, <2>1 DEF PageCount
  <2>5. CASE call.fn = "map_virt"
    <3>1. page = Containing(call.virt, l) + call.i
      BY <1>1, <2>5 DEF PageAt
    <3>2. call.i < PageCount(call)
      BY <1>3, <2>5, CallFacts
    <3>3. page \in Containing(call.virt, l) .. Containing(v, l)
      BY <1>3, <2>2, <2>4, <3>1, <3>2
    <3>. QED BY <1>3, <2>1, <3>3
  <2>6. CASE call.fn # "map_virt"
    <3>1. page = Containing(call.phys, l) + call.i \/ page = Containing(call.phys, l)
      BY <1>1, <1>3, <2>6 DEF PageAt
    <3>2. call.i < FrameCount(call)
      BY <1>3, <2>6, CallFacts
    <3>3. page \in Containing(call.phys, l) .. Containing(p, l)
      BY <1>3, <2>2, <2>3, <3>1, <3>2
    <3>. QED BY <1>3, <2>1, <3>3
  <2>. QED BY <2>5, <2>6
<1>6. \A p \in EntryOf(l, page) : ~InTable(p)
  BY <1>5, ImageAssumption DEF EntryOf, InTable
<1>7. first \in Nat /\ ~InTable(first)
  BY <1>2, <1>6, EntryPages
<1>8. \A p \in Mapped(pt') : ~InTable(p)
  BY <1>1, <1>4, <1>6 DEF Low, Mapped
<1>9. ASSUME NEW q \in Nat, InTable(q), TableOf(q, 1) \in DOMAIN pt'.tables
      PROVE  FALSE
  <2>1. TableOf(q, 1) \notin DOMAIN pt.tables
    BY <1>9 DEF Low, NoSmallPages
  <2>2. PICK m \in l .. Levels : TableOf(q, 1) = TableOf(first, m)
    BY <1>1, <1>4, <1>9, <2>1
  <2>3. m = 1
    BY <2>2 DEF TableOf
  <2>4. 1 \in 0 .. Levels /\ 2 \in 1 .. Levels
    BY ImageBorder, TableAssumption
  <2>5. TableOf(q, 2) = TableOf(first, 2)
    BY <1>7, <2>2, <2>3, <2>4, SameAbove
  <2>. QED BY <1>7, <1>9, <2>5 DEF InTable
<1>10. call'.fn = call.fn /\ call'.phys = call.phys /\ call'.virt = call.virt /\ call'.size = call.size
  BY <1>1, <1>3 DEF Calls
<1>11. call'.phys \in Addresses /\ call'.virt \in Addresses /\ call'.size \in Sizes
  BY <1>3, <1>10
<1>. QED BY <1>8, <1>9, <1>11 DEF Low, NoSmallPages

(* A large page of the image, mapped by either loop, shows the image.      *)
LEMMA ImageMap ==
  ASSUME PagingInv, High, boot # "start", NEW n \in Nat, NEW r,
         r = map_to_level(pt, fa, 2, Containing(BOOT_IMAGE, 2) + n, FirstImageFrame + n)
  PROVE  /\ PtOK(r.pt) /\ Grows(pt, r.pt) /\ r.fa \in Seq(Nat)
         /\ \A q \in Nat : InTable(q) => TableOf(q, 1) \notin DOMAIN r.pt.tables
         /\ \A p \in Mapped(r.pt) : InTable(p) =>
              r.pt.map[p] = FirstImageFrame * Entries + (p - ImageStart)
<1>1. PICK page \in Nat, frame \in Nat, f \in Nat :
        /\ page = Containing(BOOT_IMAGE, 2) + n /\ frame = FirstImageFrame + n
        /\ f = FirstImageFrame
  <2>1. Containing(BOOT_IMAGE, 2) \in Nat /\ 2 \in 1 .. Levels
    BY ImagePage
  <2>2. boot_image.addr \in Nat
    BY ImageAssumption DEF High
  <2>3. FirstImageFrame \in Nat
    BY <2>1, <2>2, ContainingFacts DEF FirstImageFrame
  <2>. QED BY <2>1, <2>3
<1>2. /\ 2 \in 1 .. Levels /\ Covered(2) = Entries /\ Entries \in Nat \ {0}
      /\ page * Covered(2) = ImageStart + Entries * n
      /\ EntryOf(2, page) = (ImageStart + Entries * n) .. (ImageStart + Entries * n + Entries - 1)
  BY <1>1, ImagePage
<1>3. PICK first \in Nat : first = page * Covered(2) /\ first = ImageStart + Entries * n
  BY <1>1, <1>2
<1>4. PtOK(pt) /\ fa \in Seq(Nat) /\ r = map_to_level(pt, fa, 2, page, frame)
  BY <1>1 DEF PagingInv
<1>5. /\ PtOK(r.pt) /\ Grows(pt, r.pt) /\ r.fa \in Seq(Nat)
      /\ r.res = "Ok" => /\ Shows(r.pt, 2, page, frame)
                         /\ DOMAIN r.pt.map = DOMAIN pt.map \cup EntryOf(2, page)
      /\ r.res # "Ok" => r.pt.map = pt.map
      /\ \A x \in DOMAIN r.pt.tables :
           x \in DOMAIN pt.tables \/ \E i \in 2 .. Levels : x = TableOf(first, i)
  <2>1. MapDone(pt, fa, 2, page, frame, r)
    BY <1>2, <1>4, MapTo
  <2>. QED BY <1>3, <2>1 DEF MapDone
<1>6. \A q \in Nat : InTable(q) => TableOf(q, 1) \notin DOMAIN r.pt.tables
  <2>1. \A q \in Nat, i \in 2 .. Levels : TableOf(q, 1) # TableOf(first, i)
    BY DEF TableOf
  <2>. QED BY <1>5, <2>1 DEF High, NoSmallPages
<1>7. ASSUME NEW p \in Mapped(r.pt), InTable(p)
      PROVE  r.pt.map[p] = f * Entries + (p - ImageStart)
  <2>1. CASE p \in Mapped(pt)
    <3>1. r.pt.map[p] = pt.map[p]
      BY <1>5, <2>1 DEF Grows
    <3>2. pt.map[p] = FirstImageFrame * Entries + (p - ImageStart)
      BY <1>7, <2>1 DEF High
    <3>. QED BY <1>1, <3>1, <3>2
  <2>2. CASE p \notin Mapped(pt)
    <3>1. p \in EntryOf(2, page) /\ r.res = "Ok"
      BY <1>5, <1>7, <2>2 DEF Mapped
    <3>2. p \in Nat
      BY <1>1, <1>2, <3>1, EntryPages
    <3>3. r.pt.map[p] = frame * Covered(2) + (p - page * Covered(2))
      BY <1>5, <3>1 DEF Shows
    <3>4. r.pt.map[p] = frame * Entries + (p - first)
      BY <1>2, <1>3, <3>3, Zenon
    <3>5. PICK x \in Nat, y \in Nat : /\ x = f * Entries /\ y = Entries * n
                                      /\ frame * Entries = x + y /\ first = ImageStart + y
      <4>1. (f + n) * Entries = f * Entries + Entries * n
        BY <1>2
      <4>. QED BY <1>1, <1>2, <1>3, <4>1
    <3>6. x + y + (p - (ImageStart + y)) = x + (p - ImageStart)
      BY <3>2, ImageBorder
    <3>. QED BY <3>4, <3>5, <3>6
  <2>. QED BY <2>1, <2>2
<1>8. \A p \in Mapped(r.pt) : InTable(p) =>
        r.pt.map[p] = FirstImageFrame * Entries + (p - ImageStart)
  BY <1>1, <1>7
<1>. QED BY <1>5, <1>6, <1>8

(* An iteration of map_virt over the image.                                *)
LEMMA HighStep ==
  ASSUME PagingInv, High, boot # "start", map_page, UNCHANGED <<boot, boot_image>>
  PROVE  High'
<1>1. PICK page, frame, l, r :
        /\ page \in Nat /\ frame \in Nat /\ l \in 1 .. Levels
        /\ page = PageAt(call, call.i) /\ frame = FrameAt(call, call.i) /\ l = call.level
        /\ r = map_to_level(pt, fa, l, page, frame)
        /\ pt' = r.pt /\ fa' = r.fa /\ call.fn # "none"
        /\ call' = IF r.res = "Ok" THEN [call EXCEPT !.i = @ + 1]
                   ELSE [call EXCEPT !.res = r.res]
  BY Iteration
<1>. page \in Nat /\ frame \in Nat /\ l \in 1 .. Levels
  BY <1>1
<1>2. /\ call.fn = "map_virt" /\ call.level = 2 /\ call.virt = BOOT_IMAGE
      /\ call.phys = boot_image.addr /\ call \in Calls /\ call.i \in Nat
  BY DEF High, PagingInv, CallOK, Calls
<1>3. page = Containing(BOOT_IMAGE, 2) + call.i /\ frame = FirstImageFrame + call.i /\ l = 2
  BY <1>1, <1>2 DEF PageAt, FrameAt, FirstImageFrame
<1>4. /\ NoSmallPages'
      /\ \A p \in Mapped(pt') : InTable(p) =>
           pt'.map[p] = FirstImageFrame * Entries + (p - ImageStart)
  BY <1>1, <1>2, <1>3, ImageMap DEF NoSmallPages
<1>5. /\ call'.fn = call.fn /\ call'.level = call.level /\ call'.phys = call.phys
      /\ call'.virt = call.virt /\ call'.size = call.size
  BY <1>1, <1>2 DEF Calls
<1>. QED BY <1>4, <1>5 DEF High, FirstImageFrame

(* The frames of the image fit into one table.                             *)
LEMMA ImageFits ==
  ASSUME High, boot # "start", NEW n \in Nat, FirstImageFrame + n <= LastImageFrame
  PROVE  n < Entries
<1>1. PICK a \in Nat, z \in Nat : /\ a = boot_image.addr /\ z = boot_image.len
                                  /\ z \in ImageSizes
  BY ImageAssumption DEF High
<1>2. PICK s \in Nat \ {0} : s = PageSize * Covered(2)
  BY ImagePage, ContainingFacts
<1>3. /\ FirstImageFrame = a \div s /\ LastImageFrame = (a + z) \div s
      /\ z \div s + 1 < Entries
  BY <1>1, <1>2, ImageAssumption DEF FirstImageFrame, LastImageFrame, Containing
<1>4. (a + z) \div s <= a \div s + z \div s + 1
  BY DivSum
<1>5. a \div s \in Nat /\ z \div s \in Nat /\ (a + z) \div s \in Int /\ Entries \in Nat
  <2>1. PICK y \in Nat : y = a + z
    OBVIOUS
  <2>2. y \div s \in Int
    OBVIOUS
  <2>. QED BY <2>1, <2>2, TableAssumption
<1>. QED BY <1>3, <1>4, <1>5

(* An iteration of the second loop, whose result is dropped: its large     *)
(* page is mapped afterwards.  It was before, or its table is there from   *)
(* the first page on and its entry free.                                   *)
LEMMA LoopStep ==
  ASSUME IInv, map_image_frame
  PROVE  PagingInv' /\ High' /\ Loop' /\ Grows(pt, pt')
<1>1. PICK r : /\ r = map_to_level(pt, fa, 2,
                        Containing(LargePage * (FirstImageFrame + j)
                                     - LargePage * FirstImageFrame + BOOT_IMAGE, 2),
                        FirstImageFrame + j)
               /\ pt' = r.pt /\ fa' = r.fa
  BY DEF map_image_frame
<1>2. /\ boot = "loop" /\ FirstImageFrame + j <= LastImageFrame /\ j' = j + 1 /\ j \in Nat
      /\ UNCHANGED <<call, calls, done, boot_image, boot>>
      /\ PagingInv /\ High /\ call.res = "Ok" /\ ImageStart \in Mapped(pt)
      /\ \A p \in ImageStart .. (ImageStart + Entries * j - 1) : p \in Mapped(pt)
  BY DEF map_image_frame, IInv, Loop
<1>3. PICK page \in Nat, frame \in Nat : /\ page = Containing(BOOT_IMAGE, 2) + j
                                         /\ frame = FirstImageFrame + j
  <2>1. boot_image.addr \in Nat /\ 2 \in 1 .. Levels /\ Containing(BOOT_IMAGE, 2) \in Nat
    BY <1>2, ImagePage, ImageAssumption DEF High
  <2>2. FirstImageFrame \in Nat
    BY <2>1, ContainingFacts DEF FirstImageFrame
  <2>. QED BY <1>2, <2>1, <2>2
<1>4. Containing(LargePage * (FirstImageFrame + j) - LargePage * FirstImageFrame + BOOT_IMAGE, 2)
        = page
  <2>1. PICK s \in Nat \ {0} : s = PageSize * Covered(2) /\ s = LargePage
    BY ImagePage, ContainingFacts DEF LargePage
  <2>2. PICK y \in Nat : Containing(BOOT_IMAGE, 2) = y /\ BOOT_IMAGE = s * y
    BY <2>1, ImageBorder, ImageEntry
  <2>3. PICK f \in Nat : f = FirstImageFrame
    <3>1. boot_image.addr \in Nat /\ 2 \in 1 .. Levels
      BY <1>2, ImagePage, ImageAssumption DEF High
    <3>. QED BY <3>1, ContainingFacts DEF FirstImageFrame
  <2>4. PICK x \in Nat : x = s * (y + j)
    BY <1>2
  <2>5. s * (f + j) - s * f + s * y = x
    <3>1. s * (f + j) = s * f + s * j
      BY <1>2
    <3>2. s * (y + j) = s * y + s * j
      BY <1>2
    <3>3. s * f \in Nat /\ s * j \in Nat /\ s * y \in Nat
      BY <1>2
    <3>. QED BY <2>4, <3>1, <3>2, <3>3
  <2>6. x \div s = y + j
    <3>1. x = s * (y + j) + 0 /\ y + j \in Nat /\ 0 \in 0 .. (s - 1)
      BY <1>2, <2>4
    <3>. QED BY <3>1, DivUnique
  <2>7. \A a : Containing(a, 2) = a \div s
    BY <2>1 DEF Containing
  <2>8. LargePage * (FirstImageFrame + j) - LargePage * FirstImageFrame + BOOT_IMAGE = x
    BY <2>1, <2>2, <2>3, <2>5, Zenon
  <2>. QED BY <1>3, <2>2, <2>6, <2>7, <2>8
<1>5. r = map_to_level(pt, fa, 2, page, frame)
  BY <1>1, <1>3, <1>4, Zenon
<1>6. /\ PtOK(pt') /\ Grows(pt, pt') /\ fa' \in Seq(Nat)
      /\ NoSmallPages'
      /\ \A p \in Mapped(pt') : InTable(p) =>
           pt'.map[p] = FirstImageFrame * Entries + (p - ImageStart)
  BY <1>1, <1>2, <1>3, <1>5, ImageMap DEF NoSmallPages
<1>7. PagingInv'
  <2>1. Prefix(pt', call) /\ \A c \in done : Prefix(pt', c)
    BY <1>2, <1>6, PrefixStays DEF PagingInv
  <2>. QED BY <1>2, <1>6, <2>1 DEF PagingInv
<1>8. High'
  BY <1>2, <1>6 DEF High, FirstImageFrame
(* The whole large page is mapped now.                                     *)
<1>9. /\ 2 \in 1 .. Levels /\ Covered(2) = Entries /\ Entries \in Nat \ {0}
      /\ page * Covered(2) = ImageStart + Entries * j
      /\ EntryOf(2, page) = (ImageStart + Entries * j) .. (ImageStart + Entries * j + Entries - 1)
  BY <1>2, <1>3, ImagePage
<1>10. PICK first \in Nat : /\ first = page * Covered(2) /\ first = ImageStart + Entries * j
                            /\ InTable(first)
  <2>1. j \in 0 .. (Entries - 1) /\ 0 \in 0 .. (Entries - 1)
    BY <1>2, <1>9, ImageFits
  <2>2. Entries * j \in Nat /\ ImageStart \in Nat
    BY <1>2, <1>9, ImageBorder
  <2>3. ImageStart + Entries * j = ImageStart + Entries * j + 0
    BY <2>2
  <2>4. ImageStart + Entries * j \in Nat /\ InTable(ImageStart + Entries * j)
    BY <2>1, <2>3, ImagePages
  <2>. QED BY <1>9, <2>4
<1>11. MapDone(pt, fa, 2, page, frame, r) /\ PtOK(pt)
  BY <1>2, <1>5, <1>9, MapTo DEF PagingInv
<1>12. TableOf(first, 1) \notin DOMAIN pt.tables
  BY <1>2, <1>10 DEF High, NoSmallPages
<1>13. \A p \in EntryOf(2, page) : p \in Mapped(pt')
  <2>1. CASE first \in Mapped(pt)
    <3>1. 2 - 1 = 1 /\ 1 \in 1 .. Levels
      BY <1>9, TableAssumption
    <3>2. \A p \in Nat : p \in EntryOf(2, page) => TableOf(p, 1) = TableOf(first, 1)
      BY <1>9, <1>10, <3>1, EntryPages
    <3>3. EntryOf(2, page) \subseteq Nat
      BY <1>9, EntryPages
    <3>4. \A p \in EntryOf(2, page) : p \in Mapped(pt)
      BY <1>11, <1>12, <2>1, <3>1, <3>2, <3>3 DEF PtOK, Mapped
    <3>. QED BY <1>6, <3>4 DEF Grows
  <2>2. CASE first \notin Mapped(pt)
    <3>1. TableOf(first, 2) = TableOf(ImageStart, 2)
      BY <1>10 DEF InTable, ImageTable
    <3>2. TableOf(first, 2) \in DOMAIN pt.tables
      <4>1. \/ TableOf(ImageStart, 2) \in DOMAIN pt.tables
            \/ \A q \in Nat : TableOf(q, 2) = TableOf(ImageStart, 2) => q \in DOMAIN pt.map
        BY <1>2, <1>9, <1>11 DEF PtOK, Mapped
      <4>. QED BY <2>2, <3>1, <4>1 DEF Mapped
    <3>3. 2 > 1 => TableOf(first, 2 - 1) \notin DOMAIN pt.tables
      <4>1. 2 - 1 = 1
        OBVIOUS
      <4>. QED BY <1>12, <4>1
    <3>4. r.res = "Ok"
      BY <1>10, <1>11, <2>2, <3>2, <3>3 DEF MapDone
    <3>. QED BY <1>1, <1>11, <3>4 DEF MapDone, Shows
  <2>. QED BY <2>1, <2>2
<1>14. \A p \in ImageStart .. (ImageStart + Entries * (j + 1) - 1) : p \in Mapped(pt')
  <2>1. Entries * (j + 1) = Entries * j + Entries /\ Entries * j \in Nat /\ ImageStart \in Nat
    BY <1>2, <1>9, ImageBorder
  <2>2. \A p \in ImageStart .. (ImageStart + Entries * (j + 1) - 1) :
          p \in ImageStart .. (ImageStart + Entries * j - 1) \/ p \in EntryOf(2, page)
    BY <1>9, <2>1
  <2>. QED BY <1>2, <1>6, <1>13, <2>2 DEF Grows
<1>15. Loop'
  <2>1. ImageStart \in Mapped(pt') /\ j + 1 \in Nat
    BY <1>2, <1>6 DEF Grows
  <2>. QED BY <1>2, <1>14, <2>1 DEF Loop
<1>. QED BY <1>6, <1>7, <1>8, <1>15

-------------------------------------------------------------------------------

(* The boot image is mapped into an empty table.                           *)
LEMMA IInvInit == ImageInit => IInv
<1>. SUFFICES ASSUME ImageInit PROVE IInv
  OBVIOUS
<1>1. PagingInv
  BY PagingInvInit DEF ImageInit
<1>2. Mapped(pt) = {} /\ DOMAIN pt.tables = {} /\ call.fn = "none" /\ boot = "start" /\ j = 0
  BY DEF ImageInit, Init, EmptyTable, Mapped, NoCall
<1>. QED BY <1>1, <1>2 DEF IInv, Low, High, Loop, NoSmallPages

(* Every step keeps the mapping in order; with it goes that no page that   *)
(* is mapped changes.                                                      *)
LEMMA IInvNext == IInv /\ [ImageNext]_vars => IInv' /\ Grows(pt, pt')
<1>. SUFFICES ASSUME IInv, [ImageNext]_vars PROVE IInv' /\ Grows(pt, pt')
  OBVIOUS
<1>0. PagingInv /\ Low /\ High /\ Loop /\ (pt' = pt => Grows(pt, pt'))
  BY DEF IInv, Grows
<1>1. CASE boot = "start" /\ call_any /\ Stay
  <2>1. PagingInv'
    BY <1>0, <1>1, CallAnyKeeps
  <2>2. pt' = pt /\ UNCHANGED <<boot_image, boot, j>>
    BY <1>1 DEF call_any, map_virt, map_phys, map_phys_table, Call, Stay
  <2>3. call'.phys \in Addresses /\ call'.virt \in Addresses /\ call'.size \in Sizes
    BY <1>1 DEF call_any, map_virt, map_phys, map_phys_table, Call
  <2>4. Low'
    BY <1>0, <2>2, <2>3 DEF Low, NoSmallPages
  <2>5. High' /\ Loop'
    BY <1>0, <1>1, <2>2 DEF High, Loop
  <2>. QED BY <1>0, <2>1, <2>2, <2>4, <2>5 DEF IInv
<1>2. CASE map_image
  <2>1. /\ boot = "start" /\ boot' = "map_virt" /\ j' = j /\ pt' = pt
        /\ boot_image'.addr \in ImageAddresses /\ boot_image'.len \in ImageSizes
        /\ boot_image'.addr \in Nat /\ boot_image'.len \in Nat
        /\ Call("map_virt", 2, boot_image'.addr, BOOT_IMAGE, boot_image'.len)
    BY <1>2, ImageAssumption DEF map_image, map_virt, Call
  <2>2. 2 \in 1 .. Levels /\ BOOT_IMAGE \in Nat
    BY ImagePage, ImageBorder
  <2>3. PagingInv'
    BY <1>0, <2>1, <2>2, CallKeeps
  <2>4. /\ call'.fn = "map_virt" /\ call'.level = 2 /\ call'.phys = boot_image'.addr
        /\ call'.virt = BOOT_IMAGE /\ call'.size = boot_image'.len
    BY <2>1 DEF Call
  <2>5. 1 \in 1 .. Levels
    BY TableAssumption
  <2>6. NoSmallPages'
    BY <1>0, <2>1, <2>5 DEF Low, NoSmallPages
  <2>7. \A p \in Mapped(pt') : ~InTable(p)
    BY <1>0, <2>1 DEF Low
  <2>8. High'
    BY <2>1, <2>4, <2>6, <2>7 DEF High
  <2>9. Low' /\ Loop'
    BY <1>0, <2>1 DEF Low, Loop
  <2>. QED BY <1>0, <2>1, <2>3, <2>8, <2>9 DEF IInv
<1>3. CASE map_page /\ Stay
  <2>1. PagingInv' /\ Grows(pt, pt')
    BY <1>0, <1>3, MapPageKeeps
  <2>2. UNCHANGED <<boot_image, boot, j>> /\ call.res = "running"
    BY <1>3 DEF Stay, map_page
  <2>3. Low'
    BY <1>0, <1>3, <2>2, LowStep DEF Low
  <2>4. High'
    BY <1>0, <1>3, <2>2, HighStep DEF High
  <2>5. Loop'
    BY <1>0, <2>2 DEF Loop
  <2>. QED BY <2>1, <2>3, <2>4, <2>5 DEF IInv
<1>4. CASE map_return /\ Stay
  <2>1. PagingInv'
    BY <1>0, <1>4, MapReturnKeeps
  <2>2. /\ UNCHANGED <<boot_image, boot, j, pt>> /\ call.res = "running"
        /\ call' = [call EXCEPT !.res = "Ok"] /\ call \in Calls
    BY <1>0, <1>4 DEF Stay, map_return, PagingInv, CallOK
  <2>3. /\ call'.fn = call.fn /\ call'.level = call.level /\ call'.phys = call.phys
        /\ call'.virt = call.virt /\ call'.size = call.size
    BY <2>2 DEF Calls
  <2>4. Low'
    BY <1>0, <2>2, <2>3 DEF Low, NoSmallPages
  <2>5. High'
    BY <1>0, <2>2, <2>3 DEF High, NoSmallPages, FirstImageFrame
  <2>6. Loop'
    BY <1>0, <2>2 DEF Loop
  <2>. QED BY <1>0, <2>1, <2>2, <2>4, <2>5, <2>6 DEF IInv
<1>5. CASE unwrap
  <2>1. /\ boot = "map_virt" /\ UNCHANGED <<pt, fa, call, calls, done, boot_image, j>>
        /\ boot' = IF call.res = "Ok" THEN "loop" ELSE "panicked"
    BY <1>5 DEF unwrap
  <2>2. PagingInv' /\ Low' /\ High'
    BY <1>0, <2>1 DEF PagingInv, Low, High, NoSmallPages, FirstImageFrame
  <2>3. ASSUME call.res = "Ok" PROVE ImageStart \in Mapped(pt)
    <3>1. /\ CallOK(call) /\ call.fn = "map_virt" /\ call.level = 2 /\ call.virt = BOOT_IMAGE
          /\ call.i >= Count(call) /\ call.i \in Nat /\ Prefix(pt, call)
      BY <1>0, <2>1, <2>3 DEF High, PagingInv, CallOK, Calls
    <3>2. 0 \in 0 .. (call.i - 1)
      BY <3>1, CallFacts
    <3>3. PageAt(call, 0) = Containing(BOOT_IMAGE, 2) + 0
      BY <3>1 DEF PageAt
    <3>4. ImageStart \in EntryOf(2, Containing(BOOT_IMAGE, 2) + 0)
      <4>1. /\ EntryOf(2, Containing(BOOT_IMAGE, 2) + 0)
                 = (ImageStart + Entries * 0) .. (ImageStart + Entries * 0 + Entries - 1)
            /\ Entries \in Nat \ {0}
        BY ImagePage
      <4>. QED BY <4>1, ImageBorder
    <3>. QED BY <3>1, <3>2, <3>3, <3>4 DEF Prefix, Shows
  <2>4. \A p \in ImageStart .. (ImageStart + Entries * 0 - 1) : p \in Mapped(pt)
    BY ImageBorder, TableAssumption
  <2>5. Loop'
    BY <1>0, <2>1, <2>3, <2>4 DEF Loop
  <2>. QED BY <1>0, <2>1, <2>2, <2>5 DEF IInv
<1>6. CASE map_image_frame
  <2>1. PagingInv' /\ High' /\ Loop' /\ Grows(pt, pt')
    BY <1>6, LoopStep
  <2>2. Low'
    BY <1>6 DEF map_image_frame, Low
  <2>. QED BY <2>1, <2>2 DEF IInv
<1>7. CASE read_image
  BY <1>0, <1>7 DEF read_image, IInv, PagingInv, Low, High, Loop, NoSmallPages,
     FirstImageFrame, LastImageFrame
<1>8. CASE stop \/ UNCHANGED vars
  BY <1>0, <1>8 DEF stop, vars, IInv, PagingInv, Low, High, Loop, NoSmallPages,
     FirstImageFrame, LastImageFrame
<1>. QED BY <1>1, <1>2, <1>3, <1>4, <1>5, <1>6, <1>7, <1>8 DEF ImageNext

(* Byte b of the image, as the kernel reads it.                            *)
LEMMA ImageBytes == IInv => ImageReadable
<1>. SUFFICES ASSUME IInv, boot = "read", NEW b \in 0 .. (boot_image.len - 1)
              PROVE  LET page == Containing(ImagePointer + b, 1) IN
                     page \in Mapped(pt) /\ pt.map[page] = Containing(boot_image.addr + b, 1)
  BY DEF ImageReadable
<1>1. /\ PagingInv /\ High /\ j \in Nat /\ FirstImageFrame + j > LastImageFrame
      /\ \A p \in ImageStart .. (ImageStart + Entries * j - 1) : p \in Mapped(pt)
  BY DEF IInv, Loop
<1>2. PICK a \in Nat, z \in Nat : a = boot_image.addr /\ z = boot_image.len
  BY <1>1, ImageAssumption DEF High
<1>3. b \in Nat /\ b < z
  BY <1>2
<1>4. /\ 2 \in 1 .. Levels /\ Covered(2) = Entries /\ Entries \in Nat \ {0}
      /\ PageSize \in Nat \ {0} /\ ImageStart \in Nat
  BY ImagePage, ImageBorder, PagingAssumption
<1>5. PICK s \in Nat \ {0} : s = PageSize * Entries /\ s = LargePage
  <2>1. PageSize * Covered(2) \in Nat \ {0}
    BY <1>2, <1>4, ContainingFacts
  <2>. QED BY <1>4, <2>1 DEF LargePage
<1>6. PICK y \in Nat : ImageStart = Entries * y /\ BOOT_IMAGE = s * y
  BY <1>5, ImageEntry
<1>7. PICK f \in Nat, o \in 0 .. (s - 1) : a = s * f + o /\ f = a \div s
  BY Division
<1>8. f = FirstImageFrame
  BY <1>2, <1>4, <1>5, <1>7 DEF FirstImageFrame, Containing
<1>9. PICK m \in Nat : m = o + b
  BY <1>3
<1>10. PICK n \in Nat, w \in 0 .. (PageSize - 1) : m = PageSize * n + w /\ n = m \div PageSize
  BY <1>4, Division
<1>11. PICK i \in Nat, u \in 0 .. (Entries - 1) : n = Entries * i + u /\ i = n \div Entries
  BY <1>4, Division
<1>12. PICK x \in Nat, v \in Nat : /\ x = s * y + m /\ v = s * f + m
                                   /\ x = ImagePointer + b /\ v = boot_image.addr + b
  <2>1. PICK sy \in Nat, sf \in Nat : sy = s * y /\ sf = s * f
    OBVIOUS
  <2>2. ImagePointer = sy + a - sf
    BY <1>2, <1>5, <1>6, <1>8, <2>1 DEF ImagePointer
  <2>3. a = sf + o
    BY <1>7, <2>1, Zenon
  <2>4. sy + m = ImagePointer + b /\ sf + m = a + b
    BY <1>3, <1>9, <2>2, <2>3
  <2>5. sy + m \in Nat /\ sf + m \in Nat
    OBVIOUS
  <2>. QED BY <1>2, <2>1, <2>4, <2>5, Zenon
<1>13. /\ x \div PageSize = Entries * (y + i) + u
       /\ v \div PageSize = Entries * (f + i) + u /\ v \div s = f + i
  <2>1. PageSize \in Nat \ {0} /\ Entries \in Nat \ {0} /\ n = Entries * i + u
    BY <1>4, <1>11
  <2>2. x = (PageSize * Entries) * y + (PageSize * n + w)
    BY <1>5, <1>10, <1>12, Zenon
  <2>3. v = (PageSize * Entries) * f + (PageSize * n + w)
    BY <1>5, <1>10, <1>12, Zenon
  <2>4. x \div (PageSize * Entries) = y + i /\ x \div PageSize = Entries * (y + i) + u
    BY <2>1, <2>2, PageOfByte
  <2>5. v \div (PageSize * Entries) = f + i /\ v \div PageSize = Entries * (f + i) + u
    BY <2>1, <2>3, PageOfByte
  <2>. QED BY <1>5, <2>4, <2>5
(* The loop got as far as the byte's page.                                 *)
<1>14. i < j
  <2>1. PICK e \in Nat : e = a + z
    OBVIOUS
  <2>2. v <= e
    BY <1>2, <1>3, <1>12, <2>1
  <2>3. v \div s <= e \div s /\ e \div s \in Int
    BY <2>2, DivMonotone
  <2>4. LastImageFrame = e \div s
    BY <1>2, <1>4, <1>5, <2>1 DEF LastImageFrame, Containing
  <2>. QED BY <1>1, <1>8, <1>13, <2>3, <2>4
<1>15. PICK p \in Nat : p = ImageStart + Entries * i + u
  BY <1>4
<1>16. p = x \div PageSize /\ v \div PageSize = f * Entries + (p - ImageStart)
  <2>1. PICK ey \in Nat, ei \in Nat, ef \in Nat :
          ey = Entries * y /\ ei = Entries * i /\ ef = Entries * f
    BY <1>4
  <2>2. /\ Entries * (y + i) = ey + ei /\ Entries * (f + i) = ef + ei /\ f * Entries = ef
    BY <1>4, <2>1
  <2>3. p = ey + ei + u /\ ImageStart = ey
    BY <1>6, <1>15, <2>1
  <2>4. x \div PageSize = ey + ei + u /\ v \div PageSize = ef + ei + u
    BY <1>13, <2>2
  <2>5. ef + ei + u = ef + (ey + ei + u - ey)
    OBVIOUS
  <2>. QED BY <2>2, <2>3, <2>4, <2>5
<1>17. InTable(p) /\ p \in ImageStart .. (ImageStart + Entries * j - 1)
  <2>1. Entries * i + Entries <= Entries * j
    BY <1>1, <1>4, <1>14, NextMultiple
  <2>2. Entries * i \in Nat /\ Entries * j \in Nat
    BY <1>1, <1>4
  <2>3. LastImageFrame \in Int /\ LastImageFrame >= f + i
    <3>1. PICK e \in Nat : e = a + z
      OBVIOUS
    <3>2. v <= e
      BY <1>2, <1>3, <1>12, <3>1
    <3>3. v \div s <= e \div s /\ e \div s \in Int
      BY <3>2, DivMonotone
    <3>4. LastImageFrame = e \div s
      BY <1>2, <1>4, <1>5, <3>1 DEF LastImageFrame, Containing
    <3>. QED BY <1>13, <3>3, <3>4
  <2>4. i < Entries
    <3>1. FirstImageFrame + i <= LastImageFrame
      BY <1>8, <2>3
    <3>. QED BY <1>1, <3>1, ImageFits
  <2>5. InTable(p)
    <3>1. i \in 0 .. (Entries - 1)
      BY <1>4, <2>4
    <3>. QED BY <1>15, <3>1, ImagePages
  <2>. QED BY <1>4, <1>15, <2>1, <2>2, <2>5
<1>18. p \in Mapped(pt) /\ pt.map[p] = f * Entries + (p - ImageStart)
  BY <1>1, <1>8, <1>17 DEF High
<1>19. Containing(x, 1) = p /\ Containing(v, 1) = v \div PageSize
  <2>1. PageSize * Covered(1) = PageSize
    BY <1>4, CoveredFacts
  <2>. QED BY <1>16, <2>1 DEF Containing
<1>. QED BY <1>12, <1>16, <1>18, <1>19

-------------------------------------------------------------------------------
(* The invariant of the range mappings and of the image's two loops.       *)
THEOREM Invariance == ImageSpec => []IInv
<1>1. IInv /\ [ImageNext]_vars => IInv'
  BY IInvNext
<1>. QED BY IInvInit, <1>1, PTL DEF ImageSpec

(* A mapped page keeps its frame through every later call of map_virt,     *)
(* map_phys and map_phys_table and through the image loop, successful or   *)
(* not, whatever the sizes of the pages.                                   *)
THEOREM MappingsKept == ImageSpec => MappingsStay
<1>1. IInv /\ [ImageNext]_vars =>
        [\A p \in Mapped(pt) : p \in Mapped(pt') /\ pt'.map[p] = pt.map[p]]_<<pt, fa, call, calls, done>>
  BY IInvNext DEF Grows
<1>. QED BY Invariance, <1>1, PTL DEF ImageSpec, MappingsStay

(* A range mapping that returned Ok has made, and keeps, every byte of its *)
(* range visible, when both addresses lie at the same offset in a page.    *)
THEOREM RangesVisible == ImageSpec => []OkMeansVisible
<1>1. IInv => OkMeansVisible
  BY BytesVisible DEF IInv
<1>. QED BY Invariance, <1>1, PTL

(* A range mapping that failed leaves the pages before the failing one     *)
(* mapped to their frames.                                                 *)
THEOREM ErrorsLeavePrefix == ImageSpec => []ErrLeavesPrefix
<1>1. IInv => ErrLeavesPrefix
  BY PrefixLeft DEF IInv
<1>. QED BY Invariance, <1>1, PTL

(* When _start reads the boot image, every byte of it is mapped where the  *)
(* kernel looks, although the second loop of main.rs drops its errors.     *)
THEOREM ImageIsReadable == ImageSpec => []ImageReadable
<1>1. IInv => ImageReadable
  BY ImageBytes
<1>. QED BY Invariance, <1>1, PTL
===============================================================================
