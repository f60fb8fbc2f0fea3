---------------------------- MODULE MemmoveProofs ----------------------------
(***************************************************************************)
(* memmove and memset proved correct for every size of memory, every word  *)
(* size and every pair of ranges.  The argument: Todo is the part of the   *)
(* destination still to be written.  Memory is as it was before the call   *)
(* inside Todo and as it should be after the call everywhere else, and the *)
(* bytes about to be read lie in Todo or outside the destination.          *)
(***************************************************************************)
EXTENDS Memmove, TLAPS

Memory == 0 .. (Cells - 1)

Backward == {"align", "words", "tail", "blocks"}

(* The call, with both ranges inside memory.                               *)
CallOK ==
  /\ op.fn \in {"memmove", "memset"}
  /\ dst \in Nat /\ op.len \in Nat /\ dst + op.len <= Cells
  /\ op.fn = "memmove" => src \in Nat /\ src + op.len <= Cells
  /\ n \in 0 .. op.len
  /\ DOMAIN mem = Memory
  /\ pc \in {"memmove", "movsb", "block", "stosb", "done"} \cup Backward
  /\ pc \in {"memmove", "movsb", "block"} \cup Backward => op.fn = "memmove"
  /\ pc = "stosb" => op.fn = "memset"

(* The registers of the string instruction against n.                      *)
RegistersOK ==
  /\ pc = "memmove" => n = op.len
  /\ pc = "movsb" =>
       /\ rcx \in 0 .. n /\ rdi = dst + (n - rcx) /\ rsi = src + (n - rcx)
       /\ (dst <= src /\ n = op.len) \/ src + n <= dst
  /\ pc = "block" =>
       /\ rcx \in 0 .. overhang /\ n + overhang <= op.len
       /\ rdi = dst + n + (overhang - rcx) /\ rsi = src + n + (overhang - rcx)
  /\ pc = "stosb" => rcx \in 0 .. op.len /\ rdi = dst + (op.len - rcx)

(* Backward copies are made where the destination lies behind the source;  *)
(* words are written only to aligned addresses.                            *)
BackwardOK ==
  /\ pc \in Backward \cup {"block"} => src < dst
  /\ pc = "words" => n = 0 \/ ~Unaligned

(* The addresses of the destination still to be written.                   *)
Todo ==
  CASE pc \in {"memmove"} \cup Backward -> dst .. (dst + n - 1)
    [] pc = "block" -> (dst .. (dst + n - 1)) \cup (rdi .. (dst + n + overhang - 1))
    [] pc = "movsb" -> rdi .. (dst + n - 1)
    [] pc = "stosb" -> rdi .. (dst + op.len - 1)
    [] pc = "done"  -> {}

MemoryOK == \A a \in Memory : mem[a] = IF a \in Todo THEN before[a] ELSE Wanted(a)

IInv == CallOK /\ RegistersOK /\ BackwardOK /\ MemoryOK
-------------------------------------------------------------------------------
Range == dst .. (dst + op.len - 1)

(* A step that copies the bytes of W from the source is right if what it   *)
(* reads has not been written yet.                                         *)
LEMMA CopyStep ==
  ASSUME IInv, op.fn = "memmove", UNCHANGED <<before, op>>,
         NEW W \in SUBSET Range, Todo' = Todo \ W,
         \A a \in W : a - overhang \in Memory /\ (a - overhang \in Todo \/ a - overhang \notin Range),
         \A a \in Memory : mem'[a] = IF a \in W THEN mem[a - overhang] ELSE mem[a]
  PROVE  MemoryOK'
<1>1. dst \in Nat /\ src \in Nat /\ op.len \in Nat /\ dst + op.len <= Cells
  BY DEF IInv, CallOK
<1>2. SUFFICES ASSUME NEW a \in Memory
               PROVE  mem'[a] = IF a \in Todo' THEN before[a] ELSE Wanted(a)
  BY DEF MemoryOK, Wanted, dst, src
<1>3. CASE a \in W
  <2>1. mem[a - overhang] = before[a - overhang]
    BY <1>3 DEF IInv, MemoryOK, Wanted, Range
  <2>2. a - overhang = src + (a - dst)
    BY <1>1, <1>2 DEF overhang, Memory
  <2>3. Wanted(a) = before[src + (a - dst)]
    BY <1>3 DEF Wanted, Range
  <2>. QED BY <1>2, <1>3, <2>1, <2>2, <2>3
<1>4. CASE a \notin W
  BY <1>2, <1>4 DEF IInv, MemoryOK
<1>. QED BY <1>3, <1>4

(* A step that copies nothing and keeps Todo.                              *)
LEMMA IdleStep ==
  ASSUME IInv, UNCHANGED <<mem, before, op>>, Todo' = Todo
  PROVE  MemoryOK'
BY DEF IInv, MemoryOK, Wanted, dst, src

(* A word written below an aligned address is aligned.                     *)
LEMMA AlignedBelow ==
  ASSUME NEW x \in Nat, x >= Word, x % Word = 0
  PROVE  (x - Word) % Word = 0
<1>1. Word \in Nat \ {0}
  BY MemmoveAssumption
<1>2. x = Word * (x \div Word) + (x % Word) /\ x \div Word \in Int
  BY <1>1
<1>3. x - Word = Word * ((x \div Word) - 1)
  BY <1>1, <1>2
<1>4. \A q \in Int : (Word * q) % Word = 0
  BY <1>1
<1>. QED BY <1>2, <1>3, <1>4
-------------------------------------------------------------------------------
(* The choice between one forward copy and a copy from the end.            *)
LEMMA MemmovePreserves ==
  ASSUME IInv, memmove
  PROVE  IInv'
<1>. USE DEF Backward
<1>1. /\ pc = "memmove" /\ UNCHANGED <<mem, before, op, n>> /\ n = op.len /\ n \in Nat
      /\ dst \in Nat /\ src \in Nat /\ op.fn = "memmove" /\ UNCHANGED <<dst, src>>
  BY DEF IInv, memmove, CallOK, RegistersOK, dst, src
<1>2. Todo = dst .. (dst + n - 1)
  BY <1>1 DEF Todo
<1>3. CASE ~Overlaps
  <2>1. pc' = "movsb" /\ rdi' = dst /\ rsi' = src /\ rcx' = n
    BY <1>3 DEF memmove, Begin
  <2>2. CallOK' /\ BackwardOK'
    BY <1>1, <2>1 DEF IInv, CallOK, BackwardOK
  <2>3. RegistersOK'
    BY <1>1, <1>3, <2>1 DEF RegistersOK, Overlaps
  <2>4. Todo' = Todo
    BY <1>1, <1>2, <2>1 DEF Todo
  <2>. QED BY <1>1, <2>2, <2>3, <2>4, IdleStep DEF IInv
<1>4. CASE Overlaps
  <2>1. pc' \in {"align", "blocks"} /\ src < dst
    BY <1>1, <1>4 DEF memmove, Overlaps
  <2>2. CallOK' /\ RegistersOK' /\ BackwardOK'
    BY <1>1, <2>1 DEF IInv, CallOK, RegistersOK, BackwardOK
  <2>3. Todo' = Todo
    BY <1>1, <1>2, <2>1 DEF Todo
  <2>. QED BY <1>1, <2>2, <2>3, IdleStep DEF IInv
<1>. QED BY <1>3, <1>4

(* One byte from the end.                                                  *)
LEMMA ByteBackPreserves ==
  ASSUME IInv, pc \in {"align", "tail"}, n # 0, copy_byte_back, pc' = pc,
         UNCHANGED <<before, op>>
  PROVE  IInv'
<1>. USE DEF Backward
<1>1. /\ dst \in Nat /\ src \in Nat /\ src < dst /\ op.fn = "memmove" /\ op.len \in Nat
      /\ n \in 1 .. op.len /\ dst + op.len <= Cells /\ DOMAIN mem = Memory /\ Cells \in Nat
  BY MemmoveAssumption DEF IInv, CallOK, BackwardOK
<1>2. n' = n - 1 /\ mem' = [mem EXCEPT ![dst + n - 1] = mem[src + n - 1]] /\ UNCHANGED <<dst, src>>
  BY DEF copy_byte_back, dst, src
<1>3. CallOK' /\ RegistersOK' /\ BackwardOK'
  BY <1>1, <1>2 DEF IInv, CallOK, RegistersOK, BackwardOK
<1>4. Todo = dst .. (dst + n - 1) /\ Todo' = dst' .. (dst' + n' - 1)
  BY DEF Todo
<1>. DEFINE W == {dst + n - 1}
<1>5. W \subseteq Range /\ Todo' = Todo \ W
  BY <1>1, <1>2, <1>4 DEF Range
<1>6. \A a \in W : a - overhang \in Memory /\ (a - overhang \in Todo \/ a - overhang \notin Range)
  BY <1>1, <1>4 DEF overhang, Memory, Range
<1>7. \A a \in Memory : mem'[a] = IF a \in W THEN mem[a - overhang] ELSE mem[a]
  BY <1>1, <1>2 DEF overhang, Memory
<1>8. MemoryOK'
  <2>. HIDE DEF W
  <2>. QED BY <1>1, <1>5, <1>6, <1>7, CopyStep
<1>. QED BY <1>3, <1>8 DEF IInv

(* The loops over bytes and words.                                         *)
LEMMA BackwardPreserves ==
  ASSUME IInv, align \/ copy_words \/ copy_tail
  PROVE  IInv'
<1>. USE DEF Backward
<1>1. /\ pc \in {"align", "words", "tail"} /\ UNCHANGED <<before, op, dst, src>>
      /\ dst \in Nat /\ src \in Nat /\ src < dst /\ op.fn = "memmove" /\ op.len \in Nat
      /\ n \in 0 .. op.len /\ dst + op.len <= Cells /\ DOMAIN mem = Memory
      /\ Cells \in Nat /\ Word \in Nat \ {0}
  BY MemmoveAssumption
     DEF IInv, CallOK, BackwardOK, align, copy_words, copy_tail, dst, src
<1>2. Todo = dst .. (dst + n - 1)
  BY <1>1 DEF Todo
<1>3. CASE copy_byte_back /\ n # 0 /\ pc \in {"align", "tail"} /\ pc' = pc
  BY <1>1, <1>3, ByteBackPreserves
<1>4. CASE /\ UNCHANGED <<mem, n>> /\ pc' \in {"words", "tail", "done"}
           /\ pc' = "words" => n = 0 \/ ~Unaligned
           /\ pc' = "done" => n = 0
  <2>1. CallOK' /\ RegistersOK' /\ BackwardOK'
    BY <1>1, <1>4 DEF IInv, CallOK, RegistersOK, BackwardOK, Unaligned
  <2>2. Todo' = Todo
    BY <1>1, <1>2, <1>4 DEF Todo
  <2>. QED BY <1>1, <1>4, <2>1, <2>2, IdleStep DEF IInv
<1>5. CASE /\ pc = "words" /\ pc' = pc /\ n >= Word /\ ~Unaligned /\ n' = n - Word
           /\ mem' = [a \in DOMAIN mem |->
                        IF a \in (dst + n - Word) .. (dst + n - 1) THEN mem[a - overhang] ELSE mem[a]]
  <2>. DEFINE W == (dst + n - Word) .. (dst + n - 1)
  <2>1. (dst + n - Word) % Word = 0
    <3>1. PICK x \in Nat : x = dst + n /\ x >= Word
      BY <1>1, <1>5
    <3>2. x % Word = 0
      BY <1>5, <3>1 DEF Unaligned
    <3>3. (x - Word) % Word = 0
      BY <3>1, <3>2, AlignedBelow
    <3>4. dst + n - Word = x - Word
      BY <1>1, <3>1
    <3>. QED BY <3>3, <3>4, Zenon
  <2>2. dst' + n' = dst + n - Word
    BY <1>1, <1>5
  <2>3. CallOK' /\ RegistersOK' /\ BackwardOK'
    BY <1>1, <1>5, <2>1, <2>2 DEF IInv, CallOK, RegistersOK, BackwardOK, Unaligned
  <2>4. Todo' = dst .. (dst + n - Word - 1)
    BY <1>1, <1>5, <2>2 DEF Todo
  <2>5. W \subseteq Range /\ Todo' = Todo \ W
    BY <1>1, <1>2, <1>5, <2>4 DEF Range
  <2>6. \A a \in W : a - overhang \in Memory /\ (a - overhang \in Todo \/ a - overhang \notin Range)
    BY <1>1, <1>2, <1>5 DEF overhang, Memory, Range
  <2>7. \A a \in Memory : mem'[a] = IF a \in W THEN mem[a - overhang] ELSE mem[a]
    BY <1>1, <1>5
  <2>8. MemoryOK'
    <3>. HIDE DEF W
    <3>. QED BY <1>1, <2>5, <2>6, <2>7, CopyStep
  <2>. QED BY <2>3, <2>8 DEF IInv
<1>6. CASE pc = "words" /\ n >= Word /\ Unaligned
  BY <1>1, <1>6 DEF IInv, BackwardOK
<1>. QED BY <1>1, <1>3, <1>4, <1>5, <1>6 DEF align, copy_words, copy_tail

(* The loop over blocks starts a block, the final memcpy, or ends.         *)
LEMMA BlocksPreserves ==
  ASSUME IInv, copy_blocks
  PROVE  IInv'
<1>. USE DEF Backward
<1>1. /\ pc = "blocks" /\ UNCHANGED <<mem, before, op, dst, src>>
      /\ dst \in Nat /\ src \in Nat /\ src < dst /\ op.fn = "memmove" /\ op.len \in Nat
      /\ n \in 0 .. op.len /\ overhang = dst - src /\ overhang' = overhang
  BY DEF IInv, CallOK, BackwardOK, copy_blocks, dst, src, overhang
<1>2. Todo = dst .. (dst + n - 1)
  BY <1>1 DEF Todo
<1>3. CASE n >= overhang
  <2>1. /\ n' = n - overhang /\ pc' = "block" /\ rdi' = dst + n - overhang
        /\ rsi' = src + n - overhang /\ rcx' = overhang
    BY <1>1, <1>3 DEF copy_blocks, Begin
  <2>2. CallOK' /\ BackwardOK'
    BY <1>1, <1>3, <2>1 DEF IInv, CallOK, BackwardOK
  <2>3. RegistersOK'
    BY <1>1, <1>3, <2>1 DEF RegistersOK
  <2>4. Todo' = (dst .. (dst + n' - 1)) \cup (rdi' .. (dst + n' + overhang - 1))
    BY <1>1, <2>1 DEF Todo
  <2>5. Todo' = Todo
    BY <1>1, <1>2, <1>3, <2>1, <2>4
  <2>. QED BY <1>1, <2>2, <2>3, <2>5, IdleStep DEF IInv
<1>4. CASE n < overhang /\ n # 0
  <2>1. n' = n /\ pc' = "movsb" /\ rdi' = dst /\ rsi' = src /\ rcx' = n
    BY <1>1, <1>4 DEF copy_blocks, Begin
  <2>2. CallOK' /\ BackwardOK'
    BY <1>1, <2>1 DEF IInv, CallOK, BackwardOK
  <2>3. RegistersOK'
    BY <1>1, <1>4, <2>1 DEF RegistersOK
  <2>4. Todo' = Todo
    BY <1>1, <1>2, <2>1 DEF Todo
  <2>. QED BY <1>1, <2>2, <2>3, <2>4, IdleStep DEF IInv
<1>5. CASE n < overhang /\ n = 0
  <2>1. n' = n /\ pc' = "done"
    BY <1>1, <1>5 DEF copy_blocks
  <2>2. CallOK' /\ RegistersOK' /\ BackwardOK'
    BY <1>1, <2>1 DEF IInv, CallOK, RegistersOK, BackwardOK
  <2>3. Todo' = Todo
    BY <1>1, <1>2, <1>5, <2>1 DEF Todo
  <2>. QED BY <1>1, <2>2, <2>3, IdleStep DEF IInv
<1>. QED BY <1>1, <1>3, <1>4, <1>5
(* rep movsb, forward: the whole range or one block.                       *)
LEMMA MemcpyPreserves ==
  ASSUME IInv, memcpy
  PROVE  IInv'
<1>. USE DEF Backward
<1>1. /\ pc \in {"movsb", "block"} /\ UNCHANGED <<before, op, n, dst, src>>
      /\ dst \in Nat /\ src \in Nat /\ op.fn = "memmove" /\ op.len \in Nat
      /\ n \in 0 .. op.len /\ dst + op.len <= Cells /\ src + op.len <= Cells
      /\ DOMAIN mem = Memory /\ Cells \in Nat
      /\ overhang = dst - src /\ overhang' = overhang
  BY MemmoveAssumption DEF IInv, CallOK, memcpy, dst, src, overhang
<1>2. CASE pc = "movsb" /\ rcx > 0
  <2>1. /\ mem' = [mem EXCEPT ![rdi] = mem[rsi]] /\ pc' = "movsb"
        /\ rdi' = rdi + 1 /\ rsi' = rsi + 1 /\ rcx' = rcx - 1
    BY <1>2 DEF memcpy
  <2>2. /\ rcx \in 1 .. n /\ rdi = dst + (n - rcx) /\ rsi = src + (n - rcx)
        /\ (dst <= src /\ n = op.len) \/ src + n <= dst
    BY <1>1, <1>2 DEF IInv, RegistersOK
  <2>3. CallOK' /\ BackwardOK'
    BY <1>1, <2>1 DEF IInv, CallOK, BackwardOK
  <2>4. RegistersOK'
    BY <1>1, <2>1, <2>2 DEF RegistersOK
  <2>5. Todo = rdi .. (dst + n - 1) /\ Todo' = (rdi + 1) .. (dst + n - 1)
    BY <1>1, <1>2, <2>1 DEF Todo
  <2>. DEFINE W == {rdi}
  <2>6. W \subseteq Range /\ Todo' = Todo \ W
    BY <1>1, <2>2, <2>5 DEF Range
  <2>7. rdi - overhang = rsi /\ rsi \in Memory
    BY <1>1, <2>2 DEF Memory
  <2>8. rsi \in Todo \/ rsi \notin Range
    BY <1>1, <2>2, <2>5 DEF Range
  <2>9. \A a \in Memory : mem'[a] = IF a \in W THEN mem[a - overhang] ELSE mem[a]
    BY <1>1, <2>1, <2>7
  <2>10. MemoryOK'
    <3>1. \A a \in W : a - overhang \in Memory /\ (a - overhang \in Todo \/ a - overhang \notin Range)
      BY <2>7, <2>8
    <3>. HIDE DEF W
    <3>. QED BY <1>1, <2>6, <2>9, <3>1, CopyStep
  <2>. QED BY <2>3, <2>4, <2>10 DEF IInv
<1>3. CASE pc = "block" /\ rcx > 0
  <2>1. /\ mem' = [mem EXCEPT ![rdi] = mem[rsi]] /\ pc' = "block"
        /\ rdi' = rdi + 1 /\ rsi' = rsi + 1 /\ rcx' = rcx - 1
    BY <1>3 DEF memcpy
  <2>2. /\ rcx \in 1 .. overhang /\ n + overhang <= op.len /\ src < dst
        /\ rdi = dst + n + (overhang - rcx) /\ rsi = src + n + (overhang - rcx)
    BY <1>1, <1>3 DEF IInv, RegistersOK, BackwardOK
  <2>3. CallOK' /\ BackwardOK'
    BY <1>1, <2>1, <2>2 DEF IInv, CallOK, BackwardOK
  <2>4. RegistersOK'
    BY <1>1, <2>1, <2>2 DEF RegistersOK
  <2>5. /\ Todo = (dst .. (dst + n - 1)) \cup (rdi .. (dst + n + overhang - 1))
        /\ Todo' = (dst .. (dst + n - 1)) \cup ((rdi + 1) .. (dst + n + overhang - 1))
    BY <1>1, <1>3, <2>1 DEF Todo
  <2>. DEFINE W == {rdi}
  <2>6. W \subseteq Range /\ Todo' = Todo \ W
    BY <1>1, <2>2, <2>5 DEF Range
  <2>7. rdi - overhang = rsi /\ rsi \in Memory
    BY <1>1, <2>2 DEF Memory
  <2>8. rsi \in Todo \/ rsi \notin Range
    BY <1>1, <2>2, <2>5 DEF Range
  <2>9. \A a \in Memory : mem'[a] = IF a \in W THEN mem[a - overhang] ELSE mem[a]
    BY <1>1, <2>1, <2>7
  <2>10. MemoryOK'
    <3>1. \A a \in W : a - overhang \in Memory /\ (a - overhang \in Todo \/ a - overhang \notin Range)
      BY <2>7, <2>8
    <3>. HIDE DEF W
    <3>. QED BY <1>1, <2>6, <2>9, <3>1, CopyStep
  <2>. QED BY <2>3, <2>4, <2>10 DEF IInv
<1>4. CASE ~(rcx > 0)
  <2>1. UNCHANGED <<mem, rdi, rsi, rcx>> /\ pc' = IF pc = "block" THEN "blocks" ELSE "done"
    BY <1>4 DEF memcpy, NoString
  <2>2. rcx = 0 /\ rdi = IF pc = "block" THEN dst + n + overhang ELSE dst + n
    BY <1>1, <1>4 DEF IInv, RegistersOK
  <2>3. CallOK' /\ RegistersOK' /\ BackwardOK'
    BY <1>1, <2>1 DEF IInv, CallOK, RegistersOK, BackwardOK
  <2>4. CASE pc = "block"
    <3>1. Todo' = dst .. (dst + n - 1)
      BY <1>1, <2>1, <2>4 DEF Todo
    <3>2. Todo = (dst .. (dst + n - 1)) \cup (rdi .. (dst + n + overhang - 1))
      BY <2>4 DEF Todo
    <3>3. Todo' = Todo
      BY <1>1, <2>2, <2>4, <3>1, <3>2
    <3>. QED BY <1>1, <2>1, <2>3, <3>3, IdleStep DEF IInv
  <2>5. CASE pc = "movsb"
    <3>1. Todo' = {} /\ Todo = rdi .. (dst + n - 1)
      BY <1>1, <2>1, <2>5 DEF Todo
    <3>2. Todo' = Todo
      BY <1>1, <2>2, <2>5, <3>1
    <3>. QED BY <1>1, <2>1, <2>3, <3>2, IdleStep DEF IInv
  <2>. QED BY <1>1, <2>4, <2>5
<1>. QED BY <1>1, <1>2, <1>3, <1>4

(* rep stosb.                                                              *)
LEMMA MemsetPreserves ==
  ASSUME IInv, memset
  PROVE  IInv'
<1>. USE DEF Backward
<1>1. /\ pc = "stosb" /\ UNCHANGED <<before, op, n, dst>> /\ op.fn = "memset"
      /\ dst \in Nat /\ op.len \in Nat /\ dst + op.len <= Cells
      /\ DOMAIN mem = Memory /\ Cells \in Nat
      /\ rcx \in 0 .. op.len /\ rdi = dst + (op.len - rcx)
  BY MemmoveAssumption DEF IInv, CallOK, RegistersOK, memset, dst
<1>2. Todo = rdi .. (dst + op.len - 1)
  BY <1>1 DEF Todo
<1>3. CASE rcx > 0
  <2>1. mem' = [mem EXCEPT ![rdi] = op.value] /\ rdi' = rdi + 1 /\ rcx' = rcx - 1 /\ pc' = "stosb"
    BY <1>1, <1>3 DEF memset
  <2>2. CallOK' /\ BackwardOK'
    BY <1>1, <2>1 DEF IInv, CallOK, BackwardOK
  <2>3. RegistersOK'
    BY <1>1, <1>3, <2>1 DEF RegistersOK
  <2>4. Todo' = (rdi + 1) .. (dst + op.len - 1)
    BY <1>1, <2>1 DEF Todo
  <2>5. Todo' = Todo \ {rdi} /\ rdi \in Range
    <3>1. rdi \in Nat /\ dst <= rdi /\ rdi <= dst + op.len - 1
      BY <1>1, <1>3
    <3>2. rdi \in Range
      BY <1>1, <3>1 DEF Range
    <3>. QED BY <1>1, <1>2, <2>4, <3>1, <3>2
  <2>6. Wanted(rdi) = op.value
    BY <1>1, <2>5 DEF Wanted, Range
  <2>7. \A a \in Memory : mem'[a] = IF a = rdi THEN op.value ELSE mem[a]
    BY <1>1, <2>1
  <2>8. ASSUME NEW a \in Memory
        PROVE  mem'[a] = IF a \in Todo' THEN before[a] ELSE Wanted(a)
    BY <2>5, <2>6, <2>7 DEF IInv, MemoryOK
  <2>9. MemoryOK'
    BY <1>1, <2>8 DEF MemoryOK, Wanted, dst, src
  <2>. QED BY <2>2, <2>3, <2>9 DEF IInv
<1>4. CASE ~(rcx > 0)
  <2>1. UNCHANGED <<mem, rdi, rcx>> /\ pc' = "done" /\ rcx = 0
    BY <1>1, <1>4 DEF memset
  <2>2. CallOK' /\ RegistersOK' /\ BackwardOK'
    BY <1>1, <2>1 DEF IInv, CallOK, RegistersOK, BackwardOK
  <2>3. Todo' = {}
    BY <2>1 DEF Todo
  <2>4. Todo' = Todo
    BY <1>1, <1>2, <2>1, <2>3
  <2>. QED BY <1>1, <2>1, <2>2, <2>4, IdleStep DEF IInv
<1>. QED BY <1>1, <1>3, <1>4

-------------------------------------------------------------------------------
(* At the call the whole destination is to be written.                     *)
LEMMA IInvInit == Init => IInv
<1>1. SUFFICES ASSUME Init PROVE IInv
  OBVIOUS
<1>. USE DEF Backward
<1>2. before = mem /\ DOMAIN mem = Memory /\ Cells \in Nat
  BY <1>1, MemmoveAssumption DEF Init, Memory
<1>3. CallOK /\ RegistersOK /\ BackwardOK /\ n = op.len /\ pc \in {"memmove", "stosb"}
      /\ (pc = "stosb" => rdi = dst)
  BY <1>1, <1>2 DEF Init, CallOK, RegistersOK, BackwardOK, dst, src
<1>4. Todo = Range
  BY <1>3 DEF Todo, Range
<1>5. MemoryOK
  BY <1>2, <1>4 DEF MemoryOK, Wanted, Range
<1>. QED BY <1>3, <1>5 DEF IInv

(* Every step of every loop.                                               *)
LEMMA IInvNext == IInv /\ [Next]_vars => IInv'
<1>1. SUFFICES ASSUME IInv, [Next]_vars PROVE IInv'
  OBVIOUS
<1>2. CASE UNCHANGED vars
  BY <1>1, <1>2 DEF vars, IInv, CallOK, RegistersOK, BackwardOK, MemoryOK, Todo, Wanted,
                    Unaligned, overhang, dst, src
<1>3. CASE finished
  BY <1>2, <1>3 DEF finished
<1>. QED BY <1>1, <1>2, <1>3, MemmovePreserves, BackwardPreserves, BlocksPreserves,
            MemcpyPreserves, MemsetPreserves DEF Next

(* The invariant holds of every call.                                      *)
THEOREM Invariance == Spec => []IInv
BY IInvInit, IInvNext, PTL DEF Spec

(* memmove and memset deliver the bytes they promise and touch no others,  *)
(* for every memory, word size and pair of ranges, and memmove's word loop *)
(* writes to aligned addresses only.                                       *)
THEOREM CopiesAreExact == Spec => []BytesDelivered
<1>1. IInv => BytesDelivered
  <2>1. SUFFICES ASSUME IInv PROVE BytesDelivered
    OBVIOUS
  <2>2. pc # "undefined"
    BY <2>1 DEF IInv, CallOK, Backward
  <2>3. ASSUME pc = "done" PROVE \A a \in DOMAIN mem : mem[a] = Wanted(a)
    <3>1. Todo = {} /\ DOMAIN mem = Memory
      BY <2>1, <2>3 DEF Todo, IInv, CallOK, Backward
    <3>. QED BY <2>1, <3>1 DEF IInv, MemoryOK
  <2>. QED BY <2>2, <2>3 DEF BytesDelivered
<1>. QED BY <1>1, Invariance, PTL
===============================================================================
