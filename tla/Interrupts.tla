------------------------------ MODULE Interrupts ------------------------------
(***************************************************************************)
(* Interrupt entry and exit on one CPU: the stubs _isr_* generated by      *)
(* kernel_api/macros/src/lib.rs, the dispatch and the local APIC of        *)
(* kernel/src/interrupts.rs, the schedular of kernel/src/process_manager.rs*)
(* and the part of _start (kernel/src/main.rs) that sets them up.          *)
(*                                                                         *)
(* All stubs enter on the one interrupt stack of the TSS, so a new entry   *)
(* writes over what an earlier one left at its top; the stub executes sti  *)
(* before the iretq, so there is a window in which this can happen.        *)
(* lapic_spurious has no stack of its own and stays on the current one.    *)
(***************************************************************************)
EXTENDS Integers, Sequences, FiniteSetsExt

CONSTANTS
  Vectors,        (* vectors of devices: the timer and the keyboard        *)
  TimerVector,    (* 60, the schedular's                                   *)
  Spurious,       (* 0xFF                                                  *)
  MaxInterrupts,  (* bound: interrupts raised, spurious ones included      *)
  MaxProcesses    (* bound: processes spawned                              *)

ASSUME VectorAssumption ==
  /\ Vectors \subseteq Nat /\ TimerVector \in Vectors
  /\ Spurious \in Nat \ Vectors
  /\ MaxInterrupts \in Nat /\ MaxProcesses \in Nat

VARIABLES
  main,        (* where _start stands                                      *)
  syscall_sp,  (* SYSCALL_SP has been set                                  *)
  handlers,    (* HANDLERS: vectors that have one                          *)
  processes,   (* length of PROCESSES                                      *)
  irr,         (* local APIC: interrupts raised and not yet delivered      *)
  in_service,  (* local APIC: delivered and not yet acknowledged           *)
  raised,      (* number of interrupts raised so far                       *)
  IF_flag,     (* the CPU's interrupt flag                                 *)
  act,         (* interrupt functions entered, innermost last              *)
  entered,     (* number of entries so far                                 *)
  ist,         (* top of the interrupt stack: whose frame, returning where *)
  usp,         (* SYSCALL_USP, SYSCALL_UMAP: whose stack and address space *)
  apic_lock,   (* APIC: who holds the mutex; 0 is _start, n is act[n]      *)
  next_process,  (* NEXT_PROCESS                                           *)
  clobbered    (* a handler has run over live frames of _start             *)

start == <<main, syscall_sp, handlers, processes>>
lapic == <<irr, in_service, raised>>
cpu   == <<IF_flag, act, entered, ist>>
vars  == <<start, lapic, cpu, usp, apic_lock, next_process, clobbered>>

Free == -1

Inner == act[Len(act)]

At(pc) == act # << >> /\ Inner.pc = pc

Goto(pc) == act' = [act EXCEPT ![Len(act)].pc = pc]

Init ==
  /\ main = "disable" /\ syscall_sp = FALSE /\ handlers = {} /\ processes = 0
  /\ irr = {} /\ in_service = {} /\ raised = 0
  /\ IF_flag \in BOOLEAN
  /\ act = << >> /\ entered = 0 /\ ist = [owner |-> 0, to |-> 0]
  /\ usp = 0 /\ apic_lock = Free /\ next_process = 0 /\ clobbered = FALSE

-------------------------------------------------------------------------------
(* _start, in its order.  It runs while no interrupt function does.        *)
Main(from, to) == act = << >> /\ main = from /\ main' = to

(* Mutant: the flag is left as the firmware had it.                        *)
disable_missing ==
  /\ Main("disable", "apic")
  /\ UNCHANGED <<syscall_sp, handlers, processes, lapic, cpu, usp, apic_lock,
                 next_process, clobbered>>

(* interrupts::init: disable(); IDT.load()                                 *)
disable ==
  /\ Main("disable", "apic")
  /\ IF_flag' = FALSE
  /\ UNCHANGED <<syscall_sp, handlers, processes, lapic, act, entered, ist, usp,
                 apic_lock, next_process, clobbered>>

(* APIC.lock().init() starts the timer ...                                 *)
apic_init ==
  /\ Main("apic", "apic_running")
  /\ apic_lock = Free /\ apic_lock' = 0
  /\ UNCHANGED <<syscall_sp, handlers, processes, lapic, cpu, usp, next_process, clobbered>>

(* Mutant: init leaves interrupts enabled.                                 *)
apic_init_done_enables ==
  /\ Main("apic_running", "ioapic")
  /\ apic_lock' = Free /\ IF_flag' = TRUE
  /\ UNCHANGED <<syscall_sp, handlers, processes, lapic, act, entered, ist, usp,
                 next_process, clobbered>>

(* ... and the guard is dropped.                                           *)
apic_init_done ==
  /\ Main("apic_running", "ioapic")
  /\ apic_lock' = Free
  /\ UNCHANGED <<syscall_sp, handlers, processes, lapic, cpu, usp, next_process, clobbered>>

(* IOAPIC.lock().init() routes the keyboard's line.                        *)
ioapic_init ==
  /\ Main("ioapic", "stack")
  /\ UNCHANGED <<syscall_sp, handlers, processes, lapic, cpu, usp, apic_lock,
                 next_process, clobbered>>

set_syscall_sp ==
  /\ Main("stack", "process")
  /\ syscall_sp' = TRUE
  /\ UNCHANGED <<handlers, processes, lapic, cpu, usp, apic_lock, next_process, clobbered>>

(* ManagedProcess::spawn (_start creates a process but does not spawn it). *)
spawn ==
  /\ Main("process", "process") /\ processes < MaxProcesses
  /\ processes' = processes + 1
  /\ UNCHANGED <<syscall_sp, handlers, lapic, cpu, usp, apic_lock, next_process, clobbered>>

(* process_manager::init registers the schedular.                          *)
register_handler ==
  /\ Main("process", "enable")
  /\ handlers' = handlers \cup {TimerVector}
  /\ UNCHANGED <<syscall_sp, processes, lapic, cpu, usp, apic_lock, next_process, clobbered>>

(* interrupts::enable()                                                    *)
enable ==
  /\ Main("enable", "print")
  /\ IF_flag' = TRUE
  /\ UNCHANGED <<syscall_sp, handlers, processes, lapic, act, entered, ist, usp,
                 apic_lock, next_process, clobbered>>

(* kprintln!("Done!") returns and the loop begins.  The frames of the call *)
(* lie below SYSCALL_SP: if a handler ran over them, _start goes astray    *)
(* unless it is lucky.                                                     *)
print_done ==
  /\ \E to \in IF clobbered THEN {"loop", "astray"} ELSE {"loop"} : Main("print", to)
  /\ UNCHANGED <<syscall_sp, handlers, processes, lapic, cpu, usp, apic_lock,
                 next_process, clobbered>>

-------------------------------------------------------------------------------
(* The local APIC and the CPU (external).                                  *)

(* LocalApic::init starts the timer, IOApic::init routes the other line.   *)
Armed(v) ==
  main \notin {"disable", "apic"} /\ (v = TimerVector \/ main \notin {"apic_running", "ioapic"})

raise(v) ==
  /\ raised < MaxInterrupts /\ Armed(v) /\ v \notin irr
  /\ irr' = irr \cup {v} /\ raised' = raised + 1
  /\ UNCHANGED <<start, in_service, cpu, usp, apic_lock, next_process, clobbered>>

(* The highest vector raised is delivered, if its class, v \div 16, is     *)
(* above those in service.                                                 *)
Deliverable(v) ==
  /\ v \in irr /\ v = Max(irr)
  /\ \A w \in in_service : v \div 16 > w \div 16

(* hit marks an interrupt function that is interrupted by one that enters  *)
(* at the top of the same stack.                                           *)
Enter(v, pc) ==
  LET outer == IF act = << >> THEN act
               ELSE [act EXCEPT ![Len(act)].hit = @ \/ v # Spurious]
  IN /\ act' = Append(outer, [vec |-> v, id |-> entered + 1, pc |-> pc, hit |-> FALSE])
     /\ entered' = entered + 1

(* Mutant: the descriptor is a trap gate, which leaves the flag alone.     *)
deliver_trap_gate(v) ==
  /\ IF_flag /\ Deliverable(v)
  /\ irr' = irr \ {v} /\ in_service' = in_service \cup {v}
  /\ Enter(v, "interrupt_begin")
  /\ ist' = [owner |-> entered + 1, to |-> Len(act)]
  /\ UNCHANGED <<start, raised, IF_flag, usp, apic_lock, next_process, clobbered>>

(* An interrupt gate with a stack index: set_isrs!                         *)
deliver(v) ==
  /\ IF_flag /\ Deliverable(v)
  /\ irr' = irr \ {v} /\ in_service' = in_service \cup {v}
  /\ IF_flag' = FALSE
  /\ Enter(v, "interrupt_begin")
  /\ ist' = [owner |-> entered + 1, to |-> Len(act)]
  /\ UNCHANGED <<start, raised, usp, apic_lock, next_process, clobbered>>

(* A spurious interrupt is not put in service; its gate has no stack index.*)
deliver_spurious ==
  /\ IF_flag /\ main \notin {"disable", "apic"} /\ raised < MaxInterrupts
  /\ raised' = raised + 1
  /\ IF_flag' = FALSE
  /\ Enter(Spurious, "send_eoi")
  /\ UNCHANGED <<start, irr, in_service, ist, usp, apic_lock, next_process, clobbered>>

-------------------------------------------------------------------------------
(* The stub _isr_v and lapic_spurious.                                     *)

(* Mutant: sti for cli.                                                    *)
interrupt_begin_sti ==
  /\ At("interrupt_begin")
  /\ IF_flag' = TRUE
  /\ Goto("switch_stack")
  /\ UNCHANGED <<start, lapic, entered, ist, usp, apic_lock, next_process, clobbered>>

(* interrupt_begin!: cli, and the registers onto the interrupt stack.      *)
interrupt_begin ==
  /\ At("interrupt_begin")
  /\ IF_flag' = FALSE
  /\ Goto("switch_stack")
  /\ UNCHANGED <<start, lapic, entered, ist, usp, apic_lock, next_process, clobbered>>

(* The switch to SYSCALL_SP; old stack and address space into the globals. *)
switch_stack ==
  /\ At("switch_stack")
  /\ usp' = Inner.id
  /\ Goto("interrupt")
  /\ UNCHANGED <<start, lapic, IF_flag, entered, ist, apic_lock, next_process, clobbered>>

(* The schedular indexes PROCESSES with NEXT_PROCESS, which only grows,    *)
(* and panics past the end.                                                *)
schedular ==
  IF processes > 0 /\ next_process >= processes
  THEN Goto("panicked") /\ UNCHANGED next_process
  ELSE /\ Goto("restore_stack")
       /\ next_process' = IF processes > 0 THEN next_process + 1 ELSE next_process

(* interrupt() calls the vector's handlers, on the stack of _start.        *)
interrupt ==
  /\ At("interrupt")
  /\ clobbered' = (clobbered \/ main = "print")
  /\ IF Inner.vec \in handlers THEN schedular
     ELSE Goto("restore_stack") /\ UNCHANGED next_process
  /\ UNCHANGED <<start, lapic, IF_flag, entered, ist, usp, apic_lock>>

(* Mutant: interrupts are allowed again before the acknowledgement.        *)
restore_stack_sti ==
  /\ At("restore_stack")
  /\ IF_flag' = TRUE
  /\ Goto("send_eoi")
  /\ UNCHANGED <<start, lapic, entered, ist, usp, apic_lock, next_process, clobbered>>

(* Address space and stack are taken back from the globals.                *)
restore_stack ==
  /\ At("restore_stack")
  /\ Goto("send_eoi")
  /\ UNCHANGED <<start, lapic, IF_flag, entered, ist, usp, apic_lock, next_process, clobbered>>

(* APIC.lock() ...                                                         *)
lock_apic ==
  /\ At("send_eoi") /\ apic_lock = Free
  /\ apic_lock' = Len(act)
  /\ Goto("locked")
  /\ UNCHANGED <<start, lapic, IF_flag, entered, ist, usp, next_process, clobbered>>

(* Mutant: the guard is never dropped.                                     *)
send_eoi_keeps_lock ==
  /\ At("locked")
  /\ in_service' = in_service \ {Max(in_service \cup {0})}
  /\ Goto("interrupt_end")
  /\ UNCHANGED <<start, irr, raised, IF_flag, entered, ist, usp, apic_lock,
                 next_process, clobbered>>

(* ... .send_eoi(): the highest vector in service, if any, is done.        *)
send_eoi ==
  /\ At("locked")
  /\ in_service' = in_service \ {Max(in_service \cup {0})}
  /\ apic_lock' = Free
  /\ Goto("interrupt_end")
  /\ UNCHANGED <<start, irr, raised, IF_flag, entered, ist, usp, next_process, clobbered>>

(* interrupt_end!(sti) in a stub; lapic_spurious goes straight on.         *)
interrupt_end ==
  /\ At("interrupt_end")
  /\ IF_flag' = (Inner.vec # Spurious)
  /\ Goto("iretq")
  /\ UNCHANGED <<start, lapic, entered, ist, usp, apic_lock, next_process, clobbered>>

(* iretq: a stub returns by the frame at the top of the interrupt stack,   *)
(* whoever that frame belongs to.  Interrupts were on wherever it returns. *)
iretq ==
  /\ At("iretq")
  /\ act' = SubSeq(act, 1, IF Inner.vec = Spurious THEN Len(act) - 1 ELSE ist.to)
  /\ IF_flag' = TRUE
  /\ UNCHANGED <<start, lapic, entered, ist, usp, apic_lock, next_process, clobbered>>

(* loop {} in _start, and after a panic.                                   *)
idle == (act = << >> /\ main \in {"loop", "astray"}) \/ At("panicked")

Stub ==
  \/ interrupt_begin \/ switch_stack \/ interrupt \/ restore_stack
  \/ lock_apic \/ send_eoi \/ interrupt_end \/ iretq

Start ==
  \/ disable \/ apic_init \/ apic_init_done \/ ioapic_init \/ set_syscall_sp
  \/ register_handler \/ enable \/ print_done

Next ==
  \/ Start
  \/ spawn
  \/ \E v \in Vectors : raise(v) \/ deliver(v)
  \/ deliver_spurious
  \/ Stub
  \/ idle /\ UNCHANGED vars

(* The CPU executes the code it stands in, and takes an interrupt that     *)
(* stays deliverable.                                                      *)
Spec ==
  /\ Init /\ [][Next]_vars
  /\ WF_vars(Start) /\ WF_vars(Stub) /\ \A v \in Vectors : WF_vars(deliver(v))

-------------------------------------------------------------------------------
(* The frame a stub returns by is its own, unless another stub was entered *)
(* in the window between its sti and its iretq; nothing else, and no       *)
(* spurious interrupt, writes over it.                                     *)
FrameLostOnlyInWindow ==
  /\ \A n \in 1 .. Len(act) : act[n].hit => act[n].pc = "iretq"
  /\ act # << >> /\ Inner.vec # Spurious /\ ~Inner.hit => ist.owner = Inner.id

(* The stack pointer and address space a stub takes back from SYSCALL_USP  *)
(* and SYSCALL_UMAP are those it put there: no other stub used the two     *)
(* globals meanwhile.                                                      *)
RestoresOwnStack == At("restore_stack") => usp = Inner.id

(* A handler never runs before _start has given SYSCALL_SP a stack.        *)
StackReady == At("interrupt") => syscall_sp

(* send_eoi acknowledges the sender's own vector and nothing else; the     *)
(* acknowledgement lapic_spurious should not send finds nothing in service.*)
EoiRetiresOwn ==
  At("locked") => in_service = IF Inner.vec = Spurious THEN {} ELSE {Inner.vec}

(* The code that holds the APIC mutex is never interrupted by code that    *)
(* would spin on it: there is one CPU, so that would be for ever.          *)
LockHolderNotInterrupted == apic_lock # Free => apic_lock = Len(act)

(* Each interrupt raised is delivered and acknowledged, whatever became of *)
(* the code it interrupted, unless _start has lost its stack or the        *)
(* schedular has panicked, which it does only at the tick after every      *)
(* process that was spawned has had its turn.                              *)
InterruptsServed ==
  \A v \in Vectors :
    v \in irr \cup in_service ~>
      \/ v \notin irr \cup in_service
      \/ At("panicked") /\ processes > 0 /\ next_process = processes
      \/ main = "astray"
===============================================================================
