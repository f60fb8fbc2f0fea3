--------------------------- MODULE InterruptsProofs ---------------------------
(***************************************************************************)
(* Proofs about Interrupts for every set of vectors and every number of    *)
(* interrupts and processes.  The argument: interrupts are on only in      *)
(* _start after enable, and in a stub between its sti and its iretq.       *)
(* Everything but the innermost interrupt function therefore waits at its  *)
(* iretq, so the globals, the acknowledgement and the lock belong to the   *)
(* innermost one alone.                                                    *)
(***************************************************************************)
EXTENDS Interrupts, SequenceTheorems, TLAPS

Mains ==
  {"disable", "apic", "apic_running", "ioapic", "stack", "process", "enable", "print",
   "loop", "astray"}

(* Where a stub stands before its vector is acknowledged.                  *)
BeforeEoi ==
  {"interrupt_begin", "switch_stack", "interrupt", "restore_stack", "send_eoi", "locked",
   "panicked"}

Labels == BeforeEoi \cup {"interrupt_end", "iretq"}

Frame == [vec : Vectors \cup {Spurious}, id : Nat, pc : Labels, hit : BOOLEAN]

Types ==
  /\ main \in Mains
  /\ act \in Seq(Frame)
  /\ entered \in Nat
  /\ ist \in [owner : Nat, to : Nat]
  /\ irr \subseteq Vectors

(* Interrupts were enabled by _start before the first one was delivered.   *)
Enabled == main \in {"print", "loop", "astray"}

(* How far _start has come, and what that says of the rest.                *)
StartOK ==
  /\ act # << >> => Enabled
  /\ irr # {} => main \notin {"disable", "apic"}
  /\ main \notin {"disable", "apic", "apic_running", "ioapic", "stack"} => syscall_sp

(* Where interrupts may be on.                                             *)
FlagOK ==
  IF_flag => IF act = << >> THEN Enabled \/ main = "disable"
             ELSE Inner.pc = "iretq" /\ Inner.vec # Spurious

(* The functions that were interrupted stood at their iretq and lost their *)
(* frame, but for the one a spurious interrupt came upon.                  *)
OuterOK ==
  \A n \in 1 .. (Len(act) - 1) :
    /\ act[n].pc = "iretq" /\ act[n].vec # Spurious
    /\ act[n].hit \/ (n = Len(act) - 1 /\ Inner.vec = Spurious)

(* Who owns the frame at the top of the interrupt stack, and where it goes.*)
IstOK ==
  /\ ist.to <= Len(act)
  /\ act # << >> /\ Inner.vec = Spurious => ist.to <= Len(act) - 1
  /\ \A n \in 1 .. Len(act) :
       /\ act[n].hit => act[n].pc = "iretq"
       /\ act[n].vec # Spurious /\ ~act[n].hit => ist.owner = act[n].id

(* What belongs to the innermost function.                                 *)
UspOK == act # << >> /\ Inner.pc \in {"interrupt", "restore_stack"} => usp = Inner.id

ServiceOK ==
  in_service = IF act # << >> /\ Inner.vec # Spurious /\ Inner.pc \in BeforeEoi
               THEN {Inner.vec} ELSE {}

LockOK ==
  apic_lock = IF main = "apic_running" THEN 0
              ELSE IF act # << >> /\ Inner.pc = "locked" THEN Len(act) ELSE Free

IInv ==
  /\ Types /\ StartOK /\ FlagOK /\ OuterOK /\ IstOK /\ UspOK /\ ServiceOK /\ LockOK
-------------------------------------------------------------------------------
(* A step of the innermost function changes its label and nothing else of  *)
(* the functions entered.                                                  *)
LEMMA GotoFacts ==
  ASSUME Types, act # << >>, NEW l \in Labels, Goto(l)
  PROVE  /\ act' \in Seq(Frame) /\ act' # << >>
         /\ Len(act) \in Nat \ {0} /\ Len(act') = Len(act)
         /\ \A n \in 1 .. (Len(act) - 1) : act'[n] = act[n]
         /\ Inner'.pc = l /\ Inner'.vec = Inner.vec /\ Inner'.id = Inner.id
         /\ Inner'.hit = Inner.hit
<1>. DEFINE f == [Inner EXCEPT !.pc = l]
<1>1. act \in Seq(Frame) /\ Len(act) \in Nat \ {0}
  BY DEF Types
<1>2. Inner \in Frame
  BY <1>1 DEF Inner
<1>3. f \in Frame /\ f.pc = l /\ f.vec = Inner.vec /\ f.id = Inner.id /\ f.hit = Inner.hit
  BY <1>2 DEF Frame
<1>4. act' = [act EXCEPT ![Len(act)] = f]
  BY DEF Goto, Inner
<1>. HIDE DEF f
<1>5. act' \in Seq(Frame) /\ Len(act') = Len(act)
  BY <1>1, <1>3, <1>4
<1>6. act'[Len(act)] = f /\ \A n \in 1 .. (Len(act) - 1) : act'[n] = act[n]
  BY <1>1, <1>4
<1>7. Inner' = f
  BY <1>5, <1>6 DEF Inner
<1>8. act' # << >>
  BY <1>1, <1>5
<1>. QED BY <1>1, <1>3, <1>5, <1>6, <1>7, <1>8

(* An interrupt puts a function on top, and marks the one below if it      *)
(* enters on the same stack.                                               *)
LEMMA EnterFacts ==
  ASSUME Types, NEW v \in Vectors \cup {Spurious}, NEW l \in Labels, Enter(v, l)
  PROVE  /\ act' \in Seq(Frame) /\ act' # << >>
         /\ Len(act) \in Nat /\ Len(act') = Len(act) + 1
         /\ Inner' = [vec |-> v, id |-> entered + 1, pc |-> l, hit |-> FALSE]
         /\ \A n \in 1 .. Len(act) :
              /\ act'[n].pc = act[n].pc /\ act'[n].vec = act[n].vec /\ act'[n].id = act[n].id
              /\ (v = Spurious \/ n # Len(act)) => act'[n].hit = act[n].hit
              /\ (v # Spurious /\ n = Len(act)) => act'[n].hit
<1>. DEFINE top == [vec |-> v, id |-> entered + 1, pc |-> l, hit |-> FALSE]
<1>1. act \in Seq(Frame) /\ Len(act) \in Nat /\ entered \in Nat
  BY DEF Types
<1>2. top \in Frame
  BY <1>1 DEF Frame
<1>3. PICK outer : /\ outer = IF act = << >> THEN act
                               ELSE [act EXCEPT ![Len(act)].hit = @ \/ v # Spurious]
                   /\ act' = Append(outer, top)
  BY DEF Enter
<1>4. /\ outer \in Seq(Frame) /\ Len(outer) = Len(act)
      /\ \A n \in 1 .. Len(act) :
           /\ outer[n].pc = act[n].pc /\ outer[n].vec = act[n].vec /\ outer[n].id = act[n].id
           /\ (v = Spurious \/ n # Len(act)) => outer[n].hit = act[n].hit
           /\ (v # Spurious /\ n = Len(act)) => outer[n].hit
  <2>1. CASE act = << >>
    BY <1>1, <1>3, <2>1
  <2>2. CASE act # << >>
    <3>1. Len(act) \in 1 .. Len(act) /\ Inner \in Frame
      BY <1>1, <2>2 DEF Inner
    <3>2. PICK h : h = (Inner.hit \/ v # Spurious)
      OBVIOUS
    <3>3. PICK f : f = [Inner EXCEPT !.hit = h]
      OBVIOUS
    <3>4. h \in BOOLEAN /\ (v = Spurious => h = Inner.hit) /\ (v # Spurious => h)
      BY <3>1, <3>2 DEF Frame
    <3>5. /\ f \in Frame /\ f.pc = Inner.pc /\ f.vec = Inner.vec /\ f.id = Inner.id
          /\ f.hit = h
      BY <3>1, <3>3, <3>4 DEF Frame
    <3>6. outer = [act EXCEPT ![Len(act)] = f]
      BY <1>3, <2>2, <3>2, <3>3 DEF Inner
    <3>7. outer \in Seq(Frame) /\ Len(outer) = Len(act)
      BY <1>1, <3>1, <3>5, <3>6
    <3>8. \A n \in 1 .. Len(act) : outer[n] = IF n = Len(act) THEN f ELSE act[n]
      BY <1>1, <3>6
    <3>. QED BY <3>1, <3>4, <3>5, <3>7, <3>8 DEF Inner
  <2>. QED BY <2>1, <2>2
<1>. HIDE DEF top
<1>5. /\ act' \in Seq(Frame) /\ Len(act') = Len(act) + 1 /\ act'[Len(act) + 1] = top
      /\ \A n \in 1 .. Len(act) : act'[n] = outer[n]
  <2>1. outer \in Seq(Frame) /\ Len(outer) = Len(act) /\ act' = Append(outer, top)
    BY <1>3, <1>4
  <2>. QED BY <1>2, <2>1, AppendProperties
<1>6. Inner' = top
  BY <1>5 DEF Inner
<1>7. act' # << >>
  BY <1>1, <1>5
<1>. QED BY <1>1, <1>4, <1>5, <1>6, <1>7 DEF top

(* A return leaves the functions below the place returned to as they were. *)
LEMMA ReturnFacts ==
  ASSUME Types, NEW k \in 0 .. Len(act), act' = SubSeq(act, 1, k)
  PROVE  /\ act' \in Seq(Frame) /\ Len(act) \in Nat /\ Len(act') = k
         /\ \A n \in 1 .. k : act'[n] = act[n]
         /\ act' # << >> <=> k # 0
<1>1. act \in Seq(Frame) /\ Len(act) \in Nat
  BY DEF Types
<1>2. act' \in Seq(Frame) /\ Len(act') = k /\ \A n \in 1 .. k : act'[n] = act[n]
  BY <1>1
<1>. QED BY <1>1, <1>2
-------------------------------------------------------------------------------
(* Steps of _start: no interrupt function is entered, so only what _start  *)
(* itself holds is at stake.                                               *)
LEMMA StartPreserves ==
  ASSUME IInv, Start \/ spawn
  PROVE  IInv'
<1>. USE DEF IInv, Types, StartOK, FlagOK, OuterOK, IstOK, UspOK, ServiceOK, LockOK, Enabled,
             Mains, Main, lapic, cpu, Free
<1>1. act = << >> /\ UNCHANGED <<act, entered, ist, irr, in_service, usp>>
  BY DEF Start, disable, apic_init, apic_init_done, ioapic_init, set_syscall_sp,
         register_handler, enable, print_done, spawn
<1>2. Len(act) = 0
  BY <1>1
<1>3. CASE disable
  BY <1>1, <1>2, <1>3 DEF disable
<1>4. CASE apic_init
  BY <1>1, <1>2, <1>4 DEF apic_init
<1>5. CASE apic_init_done
  BY <1>1, <1>2, <1>5 DEF apic_init_done
<1>6. CASE ioapic_init
  BY <1>1, <1>2, <1>6 DEF ioapic_init
<1>7. CASE set_syscall_sp
  BY <1>1, <1>2, <1>7 DEF set_syscall_sp
<1>8. CASE spawn
  BY <1>1, <1>2, <1>8 DEF spawn
<1>9. CASE register_handler
  BY <1>1, <1>2, <1>9 DEF register_handler
<1>10. CASE enable
  BY <1>1, <1>2, <1>10 DEF enable
<1>11. CASE print_done
  BY <1>1, <1>2, <1>11 DEF print_done
<1>. QED BY <1>3, <1>4, <1>5, <1>6, <1>7, <1>8, <1>9, <1>10, <1>11 DEF Start

(* A device raises its line once its source was set up.                    *)
LEMMA RaisePreserves ==
  ASSUME IInv, NEW v \in Vectors, raise(v)
  PROVE  IInv'
<1>1. /\ UNCHANGED <<main, syscall_sp, in_service, IF_flag, act, entered, ist, usp, apic_lock>>
      /\ irr' = irr \cup {v} /\ main \notin {"disable", "apic"}
  BY DEF raise, start, cpu, Armed
<1>2. Types'
  BY <1>1 DEF IInv, Types
<1>3. StartOK' /\ FlagOK'
  BY <1>1 DEF IInv, StartOK, FlagOK, Enabled, Inner
<1>4. OuterOK' /\ IstOK' /\ UspOK' /\ ServiceOK' /\ LockOK'
  BY <1>1 DEF IInv, OuterOK, IstOK, UspOK, ServiceOK, LockOK, Inner
<1>. QED BY <1>2, <1>3, <1>4 DEF IInv
(* An interrupt is taken only where interrupts are on: over _start, or     *)
(* over a stub at its iretq, with nothing in service and no lock held.     *)
LEMMA Interruptible ==
  ASSUME IInv, IF_flag, main \notin {"disable", "apic"}
  PROVE  /\ Enabled /\ in_service = {} /\ apic_lock = Free
         /\ \A n \in 1 .. Len(act) : act[n].pc = "iretq" /\ act[n].vec # Spurious
         /\ \A n \in 1 .. (Len(act) - 1) : act[n].hit
<1>1. act \in Seq(Frame) /\ Len(act) \in Nat
  BY DEF IInv, Types
<1>2. Enabled
  BY DEF IInv, StartOK, FlagOK
<1>3. main # "apic_running"
  BY <1>2 DEF Enabled
<1>4. CASE act = << >>
  BY <1>2, <1>3, <1>4 DEF IInv, ServiceOK, LockOK
<1>5. CASE act # << >>
  <2>1. Inner.pc = "iretq" /\ Inner.vec # Spurious
    BY <1>5 DEF IInv, FlagOK
  <2>2. in_service = {} /\ apic_lock = Free
    BY <1>3, <2>1 DEF IInv, ServiceOK, LockOK, BeforeEoi
  <2>3. \A n \in 1 .. (Len(act) - 1) : act[n].pc = "iretq" /\ act[n].vec # Spurious /\ act[n].hit
    BY <2>1 DEF IInv, OuterOK
  <2>4. \A n \in 1 .. Len(act) : n \in 1 .. (Len(act) - 1) \/ n = Len(act)
    BY <1>1
  <2>. QED BY <1>2, <2>1, <2>2, <2>3, <2>4 DEF Inner
<1>. QED BY <1>4, <1>5

(* A stub is entered at the top of the interrupt stack.                    *)
LEMMA DeliverPreserves ==
  ASSUME IInv, NEW v \in Vectors, deliver(v)
  PROVE  IInv'
<1>. DEFINE top == [vec |-> v, id |-> entered + 1, pc |-> "interrupt_begin", hit |-> FALSE]
<1>1. /\ IF_flag /\ v \in irr /\ irr' = irr \ {v} /\ in_service' = in_service \cup {v}
      /\ IF_flag' = FALSE /\ Enter(v, "interrupt_begin")
      /\ ist' = [owner |-> entered + 1, to |-> Len(act)]
      /\ UNCHANGED <<main, syscall_sp, usp, apic_lock>>
  BY DEF deliver, start, Deliverable
<1>2. Types /\ v # Spurious /\ main \notin {"disable", "apic"}
  BY <1>1, VectorAssumption DEF IInv, StartOK
<1>3. /\ Enabled /\ in_service = {} /\ apic_lock = Free
      /\ \A n \in 1 .. Len(act) : act[n].pc = "iretq" /\ act[n].vec # Spurious
      /\ \A n \in 1 .. (Len(act) - 1) : act[n].hit
  BY <1>1, <1>2, Interruptible
<1>4. /\ act' \in Seq(Frame) /\ act' # << >>
      /\ Len(act) \in Nat /\ Len(act') = Len(act) + 1 /\ Inner' = top
      /\ \A n \in 1 .. Len(act) :
           /\ act'[n].pc = act[n].pc /\ act'[n].vec = act[n].vec
           /\ n # Len(act) => act'[n].hit = act[n].hit
           /\ n = Len(act) => act'[n].hit
  BY <1>1, <1>2, EnterFacts DEF Labels, BeforeEoi
<1>5. /\ Inner'.vec = v /\ Inner'.id = entered + 1 /\ Inner'.pc = "interrupt_begin"
      /\ Inner'.hit = FALSE
  BY <1>4
<1>. HIDE DEF top
<1>6. \A n \in 1 .. Len(act) : act'[n].pc = "iretq" /\ act'[n].vec # Spurious /\ act'[n].hit
  <2>1. \A n \in 1 .. Len(act) : n \in 1 .. (Len(act) - 1) \/ n = Len(act)
    BY <1>4
  <2>. QED BY <1>3, <1>4, <2>1
<1>7. \A n \in 1 .. Len(act') : n \in 1 .. Len(act) \/ (n = Len(act) + 1 /\ act'[n] = Inner')
  BY <1>4 DEF Inner
<1>8. Types'
  BY <1>1, <1>2, <1>4 DEF Types, Enter
<1>9. StartOK' /\ FlagOK'
  BY <1>1, <1>2, <1>3 DEF IInv, StartOK, FlagOK, Enabled
<1>10. OuterOK'
  BY <1>4, <1>6 DEF OuterOK
<1>11. IstOK'
  <2>1. ist'.to = Len(act) /\ ist'.owner = entered + 1
    BY <1>1
  <2>. QED BY <1>2, <1>4, <1>5, <1>6, <1>7, <2>1 DEF IstOK
<1>12. UspOK' /\ ServiceOK'
  BY <1>1, <1>2, <1>3, <1>4, <1>5 DEF UspOK, ServiceOK, BeforeEoi
<1>13. LockOK'
  BY <1>1, <1>3, <1>5 DEF LockOK, Enabled
<1>. QED BY <1>8, <1>9, <1>10, <1>11, <1>12, <1>13 DEF IInv

(* lapic_spurious is entered on the current stack.                         *)
LEMMA SpuriousPreserves ==
  ASSUME IInv, deliver_spurious
  PROVE  IInv'
<1>. DEFINE top == [vec |-> Spurious, id |-> entered + 1, pc |-> "send_eoi", hit |-> FALSE]
<1>1. /\ IF_flag /\ main \notin {"disable", "apic"} /\ IF_flag' = FALSE
      /\ Enter(Spurious, "send_eoi")
      /\ UNCHANGED <<main, syscall_sp, irr, in_service, ist, usp, apic_lock>>
  BY DEF deliver_spurious, start
<1>2. Types
  BY DEF IInv
<1>3. /\ Enabled /\ in_service = {} /\ apic_lock = Free
      /\ \A n \in 1 .. Len(act) : act[n].pc = "iretq" /\ act[n].vec # Spurious
      /\ \A n \in 1 .. (Len(act) - 1) : act[n].hit
  BY <1>1, Interruptible
<1>4. /\ act' \in Seq(Frame) /\ act' # << >>
      /\ Len(act) \in Nat /\ Len(act') = Len(act) + 1 /\ Inner' = top
      /\ \A n \in 1 .. Len(act) :
           /\ act'[n].pc = act[n].pc /\ act'[n].vec = act[n].vec /\ act'[n].id = act[n].id
           /\ act'[n].hit = act[n].hit
  BY <1>1, <1>2, EnterFacts DEF Labels, BeforeEoi
<1>5. Inner'.vec = Spurious /\ Inner'.pc = "send_eoi" /\ Inner'.hit = FALSE
  BY <1>4
<1>. HIDE DEF top
<1>6. \A n \in 1 .. Len(act') : n \in 1 .. Len(act) \/ (n = Len(act) + 1 /\ act'[n] = Inner')
  BY <1>4 DEF Inner
<1>7. Types'
  BY <1>1, <1>2, <1>4 DEF Types, Enter
<1>8. StartOK' /\ FlagOK'
  BY <1>1, <1>3 DEF IInv, StartOK, FlagOK, Enabled
<1>9. OuterOK'
  <2>1. \A n \in 1 .. (Len(act') - 1) :
          n \in 1 .. Len(act) /\ (n \in 1 .. (Len(act) - 1) \/ n = Len(act') - 1)
    BY <1>4
  <2>. QED BY <1>3, <1>4, <1>5, <2>1 DEF OuterOK
<1>10. IstOK'
  <2>1. ist.to <= Len(act) /\ ist.to \in Nat
    BY <1>2 DEF IInv, IstOK, Types
  <2>2. \A n \in 1 .. Len(act) :
          /\ act'[n].hit => act'[n].pc = "iretq"
          /\ act'[n].vec # Spurious /\ ~act'[n].hit => ist.owner = act'[n].id
    BY <1>4 DEF IInv, IstOK
  <2>3. ist' = ist
    BY <1>1
  <2>4. ist.to <= Len(act') /\ ist.to <= Len(act') - 1
    BY <1>4, <2>1
  <2>. QED BY <1>5, <1>6, <2>2, <2>3, <2>4 DEF IstOK
<1>11. UspOK' /\ ServiceOK'
  BY <1>1, <1>3, <1>4, <1>5 DEF UspOK, ServiceOK
<1>12. LockOK'
  BY <1>1, <1>3, <1>5 DEF LockOK, Enabled
<1>. QED BY <1>7, <1>8, <1>9, <1>10, <1>11, <1>12 DEF IInv
(* The innermost function moves to l with interrupts off.                  *)
Moves(l) ==
  /\ Types' /\ StartOK' /\ OuterOK' /\ IstOK' /\ main # "apic_running"
  /\ act' # << >> /\ Len(act') = Len(act)
  /\ Inner'.pc = l /\ Inner'.vec = Inner.vec /\ Inner'.id = Inner.id
  /\ IF_flag = FALSE

(* What a step of the innermost function leaves alone, whichever it is.    *)
LEMMA GotoPreserves ==
  ASSUME IInv, act # << >>, Inner.pc # "iretq", NEW l \in Labels, Goto(l),
         UNCHANGED <<main, syscall_sp, irr, entered, ist>>
  PROVE  Moves(l)
<1>0. Types
  BY DEF IInv
<1>1. /\ act' \in Seq(Frame) /\ act' # << >>
      /\ Len(act) \in Nat \ {0} /\ Len(act') = Len(act)
      /\ \A n \in 1 .. (Len(act) - 1) : act'[n] = act[n]
      /\ Inner'.pc = l /\ Inner'.vec = Inner.vec /\ Inner'.id = Inner.id
      /\ Inner'.hit = Inner.hit
  BY <1>0, GotoFacts
<1>2. Types'
  BY <1>0, <1>1 DEF Types
<1>3. StartOK' /\ main # "apic_running"
  BY DEF IInv, StartOK, Enabled
<1>4. OuterOK'
  BY <1>1 DEF IInv, OuterOK
<1>5. IstOK'
  <2>1. ~Inner.hit
    BY <1>1 DEF IInv, IstOK, Inner
  <2>2. Inner.vec # Spurious => ist.owner = Inner.id
    BY <1>1, <2>1 DEF IInv, IstOK, Inner
  <2>3. \A n \in 1 .. Len(act') : n \in 1 .. (Len(act) - 1) \/ act'[n] = Inner'
    BY <1>1 DEF Inner
  <2>4. \A n \in 1 .. (Len(act) - 1) : n \in 1 .. Len(act)
    BY <1>1
  <2>. QED BY <1>1, <2>1, <2>2, <2>3, <2>4 DEF IInv, IstOK
<1>6. IF_flag = FALSE
  BY DEF IInv, FlagOK, Types
<1>. QED BY <1>1, <1>2, <1>3, <1>4, <1>5, <1>6 DEF Moves

(* The stub's steps up to and behind the acknowledgement.                  *)
LEMMA StubPreserves ==
  ASSUME IInv,
         \/ interrupt_begin \/ switch_stack \/ interrupt \/ restore_stack
         \/ lock_apic \/ send_eoi \/ interrupt_end
  PROVE  IInv'
<1>. USE DEF Labels, BeforeEoi, start, lapic, At
<1>1. CASE interrupt_begin
  <2>1. /\ act # << >> /\ Inner.pc = "interrupt_begin" /\ Goto("switch_stack") /\ IF_flag' = FALSE
        /\ UNCHANGED <<main, syscall_sp, irr, in_service, entered, ist, usp, apic_lock>>
    BY <1>1 DEF interrupt_begin
  <2>2. Moves("switch_stack")
    BY <2>1, GotoPreserves
  <2>. QED BY <2>1, <2>2 DEF IInv, Moves, FlagOK, UspOK, ServiceOK, LockOK
<1>2. CASE switch_stack
  <2>1. /\ act # << >> /\ Inner.pc = "switch_stack" /\ Goto("interrupt") /\ usp' = Inner.id
        /\ UNCHANGED <<main, syscall_sp, irr, in_service, IF_flag, entered, ist, apic_lock>>
    BY <1>2 DEF switch_stack
  <2>2. Moves("interrupt")
    BY <2>1, GotoPreserves
  <2>. QED BY <2>1, <2>2 DEF IInv, Moves, FlagOK, UspOK, ServiceOK, LockOK
<1>3. CASE interrupt
  <2>1. PICK l \in {"restore_stack", "panicked"} :
          /\ act # << >> /\ Inner.pc = "interrupt" /\ Goto(l)
          /\ UNCHANGED <<main, syscall_sp, irr, in_service, IF_flag, entered, ist, usp, apic_lock>>
    BY <1>3 DEF interrupt, schedular
  <2>2. l \in Labels
    OBVIOUS
  <2>3. Moves(l)
    BY <2>1, <2>2, GotoPreserves
  <2>. QED BY <2>1, <2>3 DEF IInv, Moves, FlagOK, UspOK, ServiceOK, LockOK
<1>4. CASE restore_stack
  <2>1. /\ act # << >> /\ Inner.pc = "restore_stack" /\ Goto("send_eoi")
        /\ UNCHANGED <<main, syscall_sp, irr, in_service, IF_flag, entered, ist, usp, apic_lock>>
    BY <1>4 DEF restore_stack
  <2>2. Moves("send_eoi")
    BY <2>1, GotoPreserves
  <2>. QED BY <2>1, <2>2 DEF IInv, Moves, FlagOK, UspOK, ServiceOK, LockOK
<1>5. CASE lock_apic
  <2>1. /\ act # << >> /\ Inner.pc = "send_eoi" /\ Goto("locked") /\ apic_lock' = Len(act)
        /\ UNCHANGED <<main, syscall_sp, irr, in_service, IF_flag, entered, ist, usp>>
    BY <1>5 DEF lock_apic
  <2>2. Moves("locked")
    BY <2>1, GotoPreserves
  <2>. QED BY <2>1, <2>2 DEF IInv, Moves, FlagOK, UspOK, ServiceOK, LockOK
<1>6. CASE send_eoi
  <2>1. /\ act # << >> /\ Inner.pc = "locked" /\ Goto("interrupt_end") /\ apic_lock' = Free
        /\ in_service' = in_service \ {Max(in_service \cup {0})}
        /\ UNCHANGED <<main, syscall_sp, irr, IF_flag, entered, ist, usp>>
    BY <1>6 DEF send_eoi
  <2>2. in_service' = {}
    <3>1. CASE in_service = {}
      BY <2>1, <3>1
    <3>2. CASE in_service # {}
      <4>1. in_service = {Inner.vec} /\ Inner.vec # Spurious
        BY <3>2 DEF IInv, ServiceOK
      <4>2. Inner \in Frame
        BY <2>1 DEF IInv, Types, Inner
      <4>3. Inner.vec \in Nat
        BY <4>1, <4>2, VectorAssumption DEF Frame
      <4>4. \A v \in Nat : Max({v} \cup {0}) = v
        BY DEF Max
      <4>5. Max(in_service \cup {0}) = Inner.vec
        BY <4>1, <4>3, <4>4
      <4>. QED BY <2>1, <4>1, <4>5
    <3>. QED BY <3>1, <3>2
  <2>3. Moves("interrupt_end")
    BY <2>1, GotoPreserves
  <2>. QED BY <2>1, <2>2, <2>3 DEF IInv, Moves, FlagOK, UspOK, ServiceOK, LockOK
<1>7. CASE interrupt_end
  <2>1. /\ act # << >> /\ Inner.pc = "interrupt_end" /\ Goto("iretq")
        /\ IF_flag' = (Inner.vec # Spurious)
        /\ UNCHANGED <<main, syscall_sp, irr, in_service, entered, ist, usp, apic_lock>>
    BY <1>7 DEF interrupt_end
  <2>2. Moves("iretq")
    BY <2>1, GotoPreserves
  <2>. QED BY <2>1, <2>2 DEF IInv, Moves, FlagOK, UspOK, ServiceOK, LockOK
<1>. QED BY <1>1, <1>2, <1>3, <1>4, <1>5, <1>6, <1>7

(* iretq returns into a function that waits at its own iretq, or _start.   *)
LEMMA IretqPreserves ==
  ASSUME IInv, iretq
  PROVE  IInv'
<1>1. /\ act # << >> /\ Inner.pc = "iretq" /\ IF_flag' = TRUE
      /\ act' = SubSeq(act, 1, IF Inner.vec = Spurious THEN Len(act) - 1 ELSE ist.to)
      /\ UNCHANGED <<main, syscall_sp, irr, in_service, entered, ist, usp, apic_lock>>
  BY DEF iretq, At, start, lapic
<1>2. Types /\ Len(act) \in Nat \ {0} /\ ist.to \in Nat
  BY <1>1 DEF IInv, Types
<1>3. PICK k \in 0 .. Len(act) :
        /\ act' = SubSeq(act, 1, k) /\ ist.to <= k
        /\ k = Len(act) => Inner.vec # Spurious
        /\ k = Len(act) - 1 \/ Inner.vec # Spurious
  <2>1. CASE Inner.vec = Spurious
    <3>1. ist.to <= Len(act) - 1
      BY <1>1, <2>1 DEF IInv, IstOK
    <3>2. Len(act) - 1 \in 0 .. Len(act) /\ Len(act) - 1 # Len(act)
      BY <1>2
    <3>. QED BY <1>1, <2>1, <3>1, <3>2
  <2>2. CASE Inner.vec # Spurious
    <3>1. ist.to \in 0 .. Len(act) /\ ist.to <= ist.to
      BY <1>2 DEF IInv, IstOK
    <3>. QED BY <1>1, <2>2, <3>1
  <2>. QED BY <2>1, <2>2
<1>4. /\ act' \in Seq(Frame) /\ Len(act') = k
      /\ \A n \in 1 .. k : act'[n] = act[n]
      /\ act' # << >> <=> k # 0
  BY <1>2, <1>3, ReturnFacts
<1>5. \A n \in 1 .. k : act'[n].pc = "iretq" /\ act'[n].vec # Spurious
  <2>1. \A n \in 1 .. k : n \in 1 .. (Len(act) - 1) \/ (n = Len(act) /\ k = Len(act))
    BY <1>2
  <2>. QED BY <1>1, <1>3, <1>4, <2>1 DEF IInv, OuterOK, Inner
<1>6. act' # << >> => Inner'.pc = "iretq" /\ Inner'.vec # Spurious
  BY <1>4, <1>5 DEF Inner
<1>7. Types'
  BY <1>1, <1>2, <1>4 DEF Types
<1>8. StartOK' /\ Enabled /\ Enabled'
  BY <1>1 DEF IInv, StartOK, Enabled
<1>9. FlagOK'
  BY <1>6, <1>8 DEF FlagOK
<1>10. OuterOK'
  <2>1. ASSUME NEW n \in 1 .. (k - 1) PROVE act[n].hit
    <3>1. n \in 1 .. (Len(act) - 1)
      BY <1>2
    <3>2. n # Len(act) - 1 \/ Inner.vec # Spurious
      BY <1>2, <1>3
    <3>. QED BY <3>1, <3>2 DEF IInv, OuterOK
  <2>2. \A n \in 1 .. (k - 1) : n \in 1 .. k
    BY <1>2
  <2>. QED BY <1>4, <1>5, <2>1, <2>2 DEF OuterOK
<1>11. IstOK'
  <2>1. \A n \in 1 .. k : n \in 1 .. Len(act)
    BY <1>2
  <2>2. ist' = ist /\ ist.to <= Len(act')
    BY <1>1, <1>3, <1>4
  <2>. QED BY <1>4, <1>6, <2>1, <2>2 DEF IInv, IstOK
<1>12. UspOK'
  BY <1>6 DEF UspOK
<1>13. ServiceOK'
  <2>1. in_service = {}
    BY <1>1 DEF IInv, ServiceOK, BeforeEoi
  <2>. QED BY <1>1, <1>6, <2>1 DEF ServiceOK, BeforeEoi
<1>14. LockOK'
  BY <1>1, <1>6, <1>8 DEF IInv, LockOK, Enabled
<1>. QED BY <1>7, <1>8, <1>9, <1>10, <1>11, <1>12, <1>13, <1>14 DEF IInv

-------------------------------------------------------------------------------
(* When the kernel starts, no function is entered and nothing is held.     *)
LEMMA IInvInit == Init => IInv
<1>1. SUFFICES ASSUME Init PROVE IInv
  OBVIOUS
<1>2. act = << >> /\ Len(act) = 0 /\ act \in Seq(Frame) /\ ist.to = 0
  BY <1>1 DEF Init
<1>. QED BY <1>1, <1>2 DEF Init, IInv, Types, Mains, StartOK, FlagOK, OuterOK, IstOK, UspOK,
                           ServiceOK, LockOK, Free

(* Every step of _start, of a device and of an interrupt function.         *)
LEMMA IInvNext == IInv /\ [Next]_vars => IInv'
<1>1. SUFFICES ASSUME IInv, [Next]_vars PROVE IInv'
  OBVIOUS
<1>2. CASE Start \/ spawn
  BY <1>1, <1>2, StartPreserves
<1>3. CASE \E v \in Vectors : raise(v) \/ deliver(v)
  BY <1>1, <1>3, RaisePreserves, DeliverPreserves
<1>4. CASE deliver_spurious
  BY <1>1, <1>4, SpuriousPreserves
<1>5. CASE Stub
  BY <1>1, <1>5, StubPreserves, IretqPreserves DEF Stub
<1>6. CASE UNCHANGED vars
  <2>1. UNCHANGED <<main, syscall_sp, irr, in_service, IF_flag, act, entered, ist, usp, apic_lock>>
    BY <1>6 DEF vars, start, lapic, cpu
  <2>. QED BY <1>1, <2>1 DEF IInv, Types, StartOK, FlagOK, OuterOK, IstOK, UspOK, ServiceOK,
                             LockOK, Enabled, Inner
<1>. QED BY <1>1, <1>2, <1>3, <1>4, <1>5, <1>6 DEF Next

(* The invariant holds of every behaviour, fair or not.                    *)
THEOREM Invariance == Spec => []IInv
BY IInvInit, IInvNext, PTL DEF Spec
(* A stub's frame is overwritten only between its sti and its iretq, and   *)
(* only by another stub, for any number of nested interrupts.              *)
THEOREM FramesKept == Spec => []FrameLostOnlyInWindow
<1>1. IInv => FrameLostOnlyInWindow
  <2>1. SUFFICES ASSUME IInv PROVE FrameLostOnlyInWindow
    OBVIOUS
  <2>2. act # << >> => Len(act) \in 1 .. Len(act)
    BY <2>1 DEF IInv, Types
  <2>. QED BY <2>1, <2>2 DEF IInv, IstOK, FrameLostOnlyInWindow, Inner
<1>. QED BY <1>1, Invariance, PTL

(* SYSCALL_USP and SYSCALL_UMAP are used by one stub at a time.            *)
THEOREM OwnStackRestored == Spec => []RestoresOwnStack
<1>1. IInv => RestoresOwnStack
  BY DEF IInv, UspOK, RestoresOwnStack, At
<1>. QED BY <1>1, Invariance, PTL

(* No handler runs before SYSCALL_SP points to a stack.                    *)
THEOREM StackBeforeHandlers == Spec => []StackReady
<1>1. IInv => StackReady
  BY DEF IInv, StartOK, Enabled, StackReady, At
<1>. QED BY <1>1, Invariance, PTL

(* The acknowledgement a stub sends retires its own vector, and the one    *)
(* lapic_spurious sends retires none.                                      *)
THEOREM EoiExact == Spec => []EoiRetiresOwn
<1>1. IInv => EoiRetiresOwn
  BY DEF IInv, ServiceOK, EoiRetiresOwn, At, BeforeEoi
<1>. QED BY <1>1, Invariance, PTL

(* No interrupt function is entered while the APIC mutex is held, so none  *)
(* spins on a lock its own CPU holds.                                      *)
THEOREM NoSpinOnOwnLock == Spec => []LockHolderNotInterrupted
<1>1. IInv => LockHolderNotInterrupted
  <2>1. act = << >> => Len(act) = 0
    OBVIOUS
  <2>. QED BY <2>1 DEF IInv, LockOK, StartOK, Enabled, LockHolderNotInterrupted
<1>. QED BY <1>1, Invariance, PTL
===============================================================================
