------------------------------ MODULE FramePool ------------------------------
(***************************************************************************)
(* What a physical frame allocator promises its callers, without saying    *)
(* how it walks the memory map: a frame is handed out only while it is     *)
(* free, it stops being free at that moment, and no frame ever becomes     *)
(* free again (the kernel has no deallocate_frame).                        *)
(***************************************************************************)

CONSTANT Frame        (* physical frame numbers                            *)

VARIABLES free,       (* frames that may still be handed out               *)
          issued      (* frames that callers own                           *)

Init ==
  /\ free \in SUBSET Frame
  /\ issued = {}

(* One frame is handed out, and the pool may forget other free frames in   *)
(* the same step: the kernel does so when it swaps memory maps.            *)
Take ==
  \E f \in free :
    /\ issued' = issued \cup {f}
    /\ free' \in SUBSET (free \ {f})

Next == Take

Spec == Init /\ [][Next]_<<free, issued>>
==============================================================================
