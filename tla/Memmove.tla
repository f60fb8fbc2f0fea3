------------------------------- MODULE Memmove -------------------------------
(***************************************************************************)
(* memmove, memcpy and memset of kernel_api/common/src/util.rs, the        *)
(* routines the compiler calls for every copy of the kernel.  memmove      *)
(* copies backwards where the destination overlaps the end of the source:  *)
(* bytes and words where the overhang is small, blocks of the size of the  *)
(* overhang otherwise; all other cases are one forward memcpy.             *)
(*                                                                         *)
(* A behaviour is one call.  The string instructions move a byte a step.   *)
(* Both ranges lie in memory, and memory ends below the end of the address *)
(* space, so that no address wraps.                                        *)
(***************************************************************************)
EXTENDS Integers

CONSTANTS
  Cells,   (* bytes of memory                                              *)
  Word,    (* bytes of a word (8)                                          *)
  Near,    (* the overhang below which words are copied (64)               *)
  Values   (* values memset is called with, none of them in memory before  *)

ASSUME MemmoveAssumption ==
  /\ Cells \in Nat /\ Word \in Nat \ {0} /\ Near \in Nat
  /\ Values \cap (0 .. (Cells - 1)) = {}

VARIABLES
  mem,            (* memory                                                *)
  before,         (* history: memory at the call                           *)
  op,             (* the call                                              *)
  n,              (* memmove's n: bytes still to copy                      *)
  rdi, rsi, rcx,  (* registers of the string instruction                   *)
  pc

vars == <<mem, before, op, n, rdi, rsi, rcx, pc>>

dst == op.dst
src == op.src

(* Mutant: an overlap is only seen where the ranges share more than a byte.*)
OverlapsLate == dst > src /\ src + n > dst + 1

(* The condition of memmove's first if.                                    *)
Overlaps == dst > src /\ src + n > dst

overhang == dst - src

(* rep movsb or rep stosb with its registers, then go on at label.         *)
Begin(label, to, from, count) ==
  /\ pc' = label /\ rdi' = to /\ rsi' = from /\ rcx' = count

NoString == UNCHANGED <<rdi, rsi, rcx>>

memmove ==
  /\ pc = "memmove"
  /\ IF ~Overlaps THEN Begin("movsb", dst, src, n)
     ELSE pc' = (IF overhang < Near THEN "align" ELSE "blocks") /\ NoString
  /\ UNCHANGED <<mem, before, op, n>>

(* *dst.offset(n - 1) = *src.offset(n - 1), n -= 1                         *)
copy_byte_back ==
  /\ n' = n - 1
  /\ mem' = [mem EXCEPT ![dst + n - 1] = mem[src + n - 1]]

Unaligned == (dst + n) % Word # 0

(* The first loop: bytes until the end of the destination is aligned.      *)
align ==
  /\ pc = "align"
  /\ IF n # 0 /\ Unaligned THEN copy_byte_back /\ pc' = pc
     ELSE pc' = "words" /\ UNCHANGED <<mem, n>>
  /\ NoString /\ UNCHANGED <<before, op>>

(* The second loop: one word is read, then written.  ptr::write requires   *)
(* an aligned address, anything may happen otherwise.                      *)
copy_words ==
  /\ pc = "words"
  /\ IF n >= Word /\ Unaligned THEN pc' = "undefined" /\ UNCHANGED <<mem, n>>
     ELSE IF n >= Word
     THEN /\ n' = n - Word
          /\ mem' = [a \in DOMAIN mem |->
                       IF a \in (dst + n - Word) .. (dst + n - 1) THEN mem[a - overhang] ELSE mem[a]]
          /\ pc' = pc
     ELSE pc' = "tail" /\ UNCHANGED <<mem, n>>
  /\ NoString /\ UNCHANGED <<before, op>>

(* The third loop: the bytes that make no word.                            *)
copy_tail ==
  /\ pc = "tail"
  /\ IF n # 0 THEN copy_byte_back /\ pc' = pc
     ELSE pc' = "done" /\ UNCHANGED <<mem, n>>
  /\ NoString /\ UNCHANGED <<before, op>>

(* The loop over blocks, and what it leaves for the final memcpy.          *)
copy_blocks ==
  /\ pc = "blocks"
  /\ IF n >= overhang
     THEN n' = n - overhang /\ Begin("block", dst + n - overhang, src + n - overhang, overhang)
     ELSE /\ UNCHANGED n
          /\ IF n = 0 THEN pc' = "done" /\ NoString ELSE Begin("movsb", dst, src, n)
  /\ UNCHANGED <<mem, before, op>>

(* memcpy: one turn of rep movsb, and its end.                             *)
memcpy ==
  /\ pc \in {"movsb", "block"}
  /\ IF rcx > 0
     THEN /\ mem' = [mem EXCEPT ![rdi] = mem[rsi]]
          /\ rdi' = rdi + 1 /\ rsi' = rsi + 1 /\ rcx' = rcx - 1
          /\ pc' = pc
     ELSE /\ pc' = IF pc = "block" THEN "blocks" ELSE "done"
          /\ UNCHANGED mem /\ NoString
  /\ UNCHANGED <<before, op, n>>

(* memset: one turn of rep stosb, and its end.                             *)
memset ==
  /\ pc = "stosb"
  /\ IF rcx > 0
     THEN mem' = [mem EXCEPT ![rdi] = op.value] /\ rdi' = rdi + 1 /\ rcx' = rcx - 1 /\ pc' = pc
     ELSE pc' = "done" /\ UNCHANGED <<mem, rdi, rcx>>
  /\ UNCHANGED <<before, op, n, rsi>>

finished == pc \in {"done", "undefined"} /\ UNCHANGED vars

(* Every byte of memory is told apart.                                     *)
Init ==
  /\ mem = [a \in 0 .. (Cells - 1) |-> a]
  /\ before = mem
  /\ \E d, s, len \in 0 .. Cells :
       /\ d + len <= Cells /\ s + len <= Cells
       /\ n = len
       /\ \/ /\ op = [fn |-> "memmove", dst |-> d, src |-> s, len |-> len]
             /\ pc = "memmove" /\ rdi = 0 /\ rsi = 0 /\ rcx = 0
          \/ \E v \in Values :
               /\ s = 0
               /\ op = [fn |-> "memset", dst |-> d, value |-> v, len |-> len]
               /\ pc = "stosb" /\ rdi = d /\ rsi = 0 /\ rcx = len

Next ==
  \/ memmove \/ align \/ copy_words \/ copy_tail \/ copy_blocks
  \/ memcpy \/ memset \/ finished

Spec == Init /\ [][Next]_vars

-------------------------------------------------------------------------------
(* What memory is to hold after the call.                                  *)
Wanted(a) ==
  IF a \notin dst .. (dst + op.len - 1) THEN before[a]
  ELSE IF op.fn = "memset" THEN op.value ELSE before[src + (a - dst)]

(* memmove leaves in the destination the bytes the source held before the  *)
(* call, however the two overlap, memset leaves its value, and neither     *)
(* touches a byte outside the destination: no byte of the source is        *)
(* overwritten before it was copied, and no word is written to an address  *)
(* that is not aligned, whatever the alignment of the two ranges.          *)
BytesDelivered ==
  /\ pc # "undefined"
  /\ pc = "done" => \A a \in DOMAIN mem : mem[a] = Wanted(a)
==============================================================================
