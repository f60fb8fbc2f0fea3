--------------------------------- MODULE PCI ---------------------------------
(***************************************************************************)
(* The scan of PCI configuration space (kernel/src/drivers/pci.rs):        *)
(* gather_devices walks every segment, bus, device and function, maps the  *)
(* configuration page of each into the window at CONFIG_SPACE when it is   *)
(* first touched, sizes the base address registers and fills the device    *)
(* list of drivers/device.rs.  The kernel's main function has the call     *)
(* commented out at this commit.                                           *)
(*                                                                         *)
(* The functions behind the bus, the MCFG table and the AML interrupt      *)
(* routing are external.  Addresses count pages; a configuration page is a *)
(* header record.  The build checks overflow: arithmetic that leaves its   *)
(* type panics.                                                            *)
(***************************************************************************)
EXTENDS PageTable

CONSTANTS
  Tables,        (* MCFG tables: sequences of [address, bus_start]; empty  *)
                 (* where the XSDT has none                                *)
  Segments,      (* bound: segments of a table                             *)
  Buses, Devices, Functions,  (* per segment, bus, device (256, 32, 8)     *)
  CONFIG_SPACE,  (* first page of the window                               *)
  Space,         (* values of a 32-bit register                            *)
  Ports,         (* values of a 16-bit port                                *)
  LowBits,       (* values of the bits get_address masks (16)              *)
  Pools,         (* frames the allocator may have left: sequences          *)
  Configs,       (* what may sit behind the bus: Function -> header        *)
  Routed         (* interrupt pins the AML table routes                    *)

Function ==
  [seg : 1 .. Segments, bus : 0 .. (Buses - 1), dev : 0 .. (Devices - 1), fn : 0 .. (Functions - 1)]

(* The address part of a register and the size it decodes; a 64-bit        *)
(* register is followed by the "high" half of its address.  "bus" is a     *)
(* register of a bridge that is no BAR.                                    *)
Register ==
  [kind : {"none", "io", "mem", "mem64", "high", "bus"}, base : 0 .. (Space - 1), size : 0 .. Space]

Header ==
  [present : BOOLEAN, type : 0 .. 2, multi : BOOLEAN, pin : 0 .. 5, bars : [1 .. 6 -> Register]]

ASSUME PCIAssumption ==
  /\ \A m \in Tables : \A s, t \in 1 .. Len(m) :
       s < t => m[s].address + Buses * Devices * Functions <= m[t].address
  /\ Configs \subseteq [Function -> Header]
  /\ \A c \in Configs, f \in Function, b \in 1 .. 6 :
       c[f].bars[b].kind = "mem64" => b < 6 /\ c[f].bars[b + 1].kind = "high"

VARIABLES
  pt, fa,    (* page table and frames left                                 *)
  xsdt,      (* the MCFG table the firmware left                           *)
  mcfg,      (* GLOBAL_PCI.mcfg                                            *)
  config,    (* the configuration pages                                    *)
  at,        (* the function being looked at                               *)
  i,         (* the BAR get_bars is at                                     *)
  resources, (* what get_bars has collected                                *)
  fresh,     (* history: no BAR of the page was written before this visit  *)
  DEVICES,   (* the device list                                            *)
  pc, stop,  (* where the scan is; why it stopped for good                 *)
  boot       (* history: config when the scan began                        *)

vars == <<pt, fa, xsdt, mcfg, config, at, i, resources, fresh, DEVICES, pc, stop, boot>>

-------------------------------------------------------------------------------
(* form_address: the window is laid out by physical address, relative to   *)
(* the first segment.                                                      *)
Slot(f) ==
  mcfg[f.seg].address
    + ((f.bus - mcfg[f.seg].bus_start) * Devices + f.dev) * Functions + f.fn
    - mcfg[1].address + CONFIG_SPACE

(* The function whose configuration page a frame is (hardware).            *)
FunctionAt(frame) ==
  CHOOSE f \in Function :
    frame = mcfg[f.seg].address
              + ((f.bus - mcfg[f.seg].bus_start) * Devices + f.dev) * Functions + f.fn

(* Mutant: only the page of function 0 is mapped.                          *)
map_address_first(f) ==
  IF f.fn = 0 THEN map_to(pt, fa, Slot(f), mcfg[f.seg].address)
  ELSE [pt |-> pt, fa |-> fa, res |-> "Ok"]

(* map_address: maps the function's page of the window, to the first page  *)
(* of the segment; the result is dropped.                                  *)
map_address(f) == map_to(pt, fa, Slot(f), mcfg[f.seg].address)

Panic(why) ==
  /\ stop' = why
  /\ pc' = "stopped"
  /\ UNCHANGED <<xsdt, mcfg, config, at, i, resources, fresh, DEVICES, boot>>

(* read_u8 .. write_u32 of function f: forming the address, mapping it,    *)
(* then the access, which faults where the window has no page.             *)
Access(f) ==
  IF f.bus < mcfg[f.seg].bus_start THEN [pt |-> pt, fa |-> fa, fault |-> "overflow"]
  ELSE LET r == map_address(f) IN
       [pt |-> r.pt, fa |-> r.fa,
        fault |-> IF Slot(f) \in Mapped(r.pt) THEN "none" ELSE "page fault"]

(* The page an access of f reaches.                                        *)
Page(f) == FunctionAt(Access(f).pt.map[Slot(f)])

(* The access of the current function succeeds.                            *)
Reached ==
  /\ Access(at).fault = "none"
  /\ pt' = Access(at).pt /\ fa' = Access(at).fa

-------------------------------------------------------------------------------
(* pci::init                                                               *)
init ==
  /\ pc = "init"
  /\ UNCHANGED <<pt, fa>>
  /\ IF xsdt = << >> THEN Panic("no MCFG")
     ELSE /\ mcfg' = xsdt
          /\ pc' = "device"
          /\ UNCHANGED <<xsdt, config, at, i, resources, fresh, DEVICES, stop, boot>>

(* The next device of traverse_devices' three loops.                       *)
next_device ==
  /\ at' = IF at.dev < Devices - 1 THEN [at EXCEPT !.dev = @ + 1, !.fn = 0]
           ELSE IF at.bus < Buses - 1 THEN [at EXCEPT !.bus = @ + 1, !.dev = 0, !.fn = 0]
           ELSE [seg |-> at.seg + 1, bus |-> 0, dev |-> 0, fn |-> 0]
  /\ pc' = IF at'.seg > Len(mcfg) THEN "done" ELSE "device"
  /\ UNCHANGED <<config, i, resources, fresh, DEVICES, stop, xsdt, mcfg, boot>>

goto(label) ==
  /\ pc' = label
  /\ UNCHANGED <<config, i, resources, fresh, DEVICES, stop, xsdt, mcfg, boot>>

(* An access that does not come back.                                      *)
access_panics ==
  /\ pc \in {"device", "function", "multi", "callback", "bars"}
  /\ at.fn < Functions
  /\ Access(at).fault # "none"
  /\ pt' = Access(at).pt /\ fa' = Access(at).fa
  /\ Panic(Access(at).fault)

(* check_device, the vendor read of function 0.                            *)
check_device ==
  /\ pc = "device"
  /\ Reached
  /\ IF config[Page(at)].present THEN goto("callback") /\ UNCHANGED at ELSE next_device

(* check_device, the vendor read of a function of the inner loop.          *)
check_function ==
  /\ pc = "function"
  /\ at.fn < Functions
  /\ Reached
  /\ IF config[Page(at)].present THEN goto("callback") /\ UNCHANGED at
     ELSE goto("function") /\ at' = [at EXCEPT !.fn = @ + 1]

(* check_device returns from its inner loop.                               *)
functions_end ==
  /\ pc = "function"
  /\ at.fn = Functions
  /\ next_device
  /\ UNCHANGED <<pt, fa>>

(* check_device, the TYPE read after the callback of function 0.           *)
check_multi ==
  /\ pc = "multi"
  /\ Reached
  /\ IF config[Page(at)].multi THEN goto("function") /\ at' = [at EXCEPT !.fn = 1]
     ELSE next_device

(* gather_devices' callback up to get_bars: an unknown pin and a pin the   *)
(* AML table does not route panic.                                         *)
gather_devices ==
  /\ pc = "callback"
  /\ Reached
  /\ LET g   == Page(at)
         pin == config[g].pin
     IN IF pin > 0 /\ pin \notin Routed THEN Panic("interrupt")
        ELSE /\ pc' = "bars" /\ i' = 1
             /\ resources' = IF pin > 0 THEN << [kind |-> "irq", pin |-> pin] >> ELSE << >>
             /\ fresh' = (config[g].bars = boot[g].bars)
             /\ UNCHANGED <<config, at, DEVICES, stop, xsdt, mcfg, boot>>

(* Mutant: a bridge's registers are taken for six BARs.                    *)
BarsOfAny(h) == IF h.type \in {0, 1} THEN 6 ELSE 0

(* The match on the header type.                                           *)
Bars(h) == IF h.type = 0 THEN 6 ELSE IF h.type = 1 THEN 2 ELSE 0

(* What a register reads after u32::MAX was written: the bits below the    *)
(* size stay clear, and a register that is not there stays zero.           *)
Sized(r) ==
  CASE r.kind = "none" -> r
    [] r.kind \in {"io", "mem", "mem64"} -> [r EXCEPT !.base = Space - r.size]
    [] r.kind \in {"high", "bus"} -> [r EXCEPT !.base = Space - 1]

Masked(r) == r.base - (r.base % LowBits)

(* !(barl & mask) + 1                                                      *)
Length(barl) == Space - barl.base

(* The resource made of the register bar and, for 64 bits, of the next one.*)
(* The high half goes through get_address, too, and its length is computed *)
(* in 64 bits.                                                             *)
Resource(bar, nar) ==
  CASE bar.kind = "io" ->
         [kind |-> "io", base |-> bar.base, size |-> Length(Sized(bar))]
    [] bar.kind = "mem64" ->
         [kind |-> "mem64", base |-> Masked(bar) + Masked(nar) * Space,
          size |-> Length(Sized(bar)) + (Space * Space - Masked(Sized(nar)))]
    [] OTHER ->
         [kind |-> "mem", base |-> Masked(bar), size |-> Length(Sized(bar))]

(* BAR::used: a memory register that firmware left at address 0 is zero.   *)
used(bar) == bar.kind # "none" /\ (bar.kind = "mem" => bar.base # 0)

(* !(barl & mask) + 1 overflows when no address bit is left, at 4 GiB;     *)
(* bar.get_io() as u16 + length - 1 at the end of the port space.          *)
Overflows(bar) ==
  /\ used(bar)
  /\ \/ Sized(bar).base = 0
     \/ bar.kind = "io" /\ (bar.base % Ports) + Length(Sized(bar)) >= Ports

(* Mutant: the high half is not skipped.                                   *)
WidthSmall(bar) == 1

(* Registers the loop of get_bars goes on by.                              *)
Width(bar) == IF bar.kind = "mem64" THEN 2 ELSE 1

(* get_bars, one turn of the loop: the register and, for 64 bits, the next *)
(* one are read, overwritten with ones and read again.                     *)
get_bar ==
  /\ pc = "bars"
  /\ Reached
  /\ LET g    == Page(at)
         regs == config[g].bars
         bar  == regs[i]
     IN /\ i <= Bars(config[g])
        /\ config' = [config EXCEPT ![g].bars =
                        [k \in 1 .. 6 |-> IF k = i \/ (bar.kind = "mem64" /\ k = i + 1)
                                          THEN Sized(regs[k]) ELSE regs[k]]]
        /\ IF Overflows(bar)
           THEN stop' = "overflow" /\ pc' = "stopped" /\ UNCHANGED <<resources, i>>
           ELSE /\ resources' = IF used(bar) THEN Append(resources, Resource(bar, regs[i + 1]))
                                ELSE resources
                /\ i' = i + Width(bar)
                /\ UNCHANGED <<pc, stop>>
        /\ UNCHANGED <<at, fresh, DEVICES, xsdt, mcfg, boot>>

(* get_bars returns, and device::add_device.                               *)
add_device ==
  /\ pc = "bars"
  /\ Reached
  /\ i > Bars(config[Page(at)])
  /\ DEVICES' = Append(DEVICES, [function |-> at, from |-> Page(at), fresh |-> fresh,
                                 resource |-> resources])
  /\ IF at.fn = 0 THEN pc' = "multi" /\ UNCHANGED at
     ELSE pc' = "function" /\ at' = [at EXCEPT !.fn = @ + 1]
  /\ UNCHANGED <<config, i, resources, fresh, stop, xsdt, mcfg, boot>>

finished == pc \in {"done", "stopped"} /\ UNCHANGED vars

Init ==
  /\ pt = EmptyTable
  /\ fa \in Pools
  /\ xsdt \in Tables /\ mcfg = << >>
  /\ config \in Configs
  /\ at = [seg |-> 1, bus |-> 0, dev |-> 0, fn |-> 0]
  /\ i = 1 /\ resources = << >> /\ fresh = TRUE /\ DEVICES = << >>
  /\ pc = "init" /\ stop = "none"
  /\ boot = config

Next ==
  \/ init \/ access_panics \/ check_device \/ check_function \/ functions_end \/ check_multi
  \/ gather_devices \/ get_bar \/ add_device \/ finished

Spec == Init /\ [][Next]_vars

-------------------------------------------------------------------------------
(* map_address drops its result.  The only error that makes the access     *)
(* fault is that no frame was left for a table; the others mean that the   *)
(* page is there already.                                                  *)
FaultsOnlyWithoutFrames == stop = "page fault" => fa = << >>

(* A device's resources are the ranges its registers decoded when the scan *)
(* began: their number, kinds and sizes on every look at the registers,    *)
(* their bases on the first, for get_bars never writes the old value back. *)
(* The high half of a 64-bit address is never taken for a BAR of its own.  *)
(* From the second look on a BAR that firmware left unassigned counts,     *)
(* too.  A 64-bit range is compared by its base, and where the bits        *)
(* get_address masks are clear in the high half: its length is not the one *)
(* decoded.                                                                *)
ResourcesDecoded ==
  \A k \in 1 .. Len(DEVICES) :
    LET d    == DEVICES[k]
        h    == boot[d.from]
        real == {b \in 1 .. Bars(h) : /\ h.bars[b].kind \in {"io", "mem", "mem64"}
                                      /\ d.fresh => used(h.bars[b])}
        mem  == SelectSeq(d.resource, LAMBDA r : r.kind # "irq")
    IN /\ Len(mem) = Cardinality(real)
       /\ \A b \in real :
            LET r == mem[Cardinality({c \in real : c <= b})] IN
            /\ r.kind = h.bars[b].kind
            /\ r.kind # "mem64" => r.size = h.bars[b].size
            /\ d.fresh /\ r.kind # "mem64" => r.base = h.bars[b].base
            /\ d.fresh /\ r.kind = "mem64" /\ h.bars[b + 1].base % LowBits = 0
                 => r.base = h.bars[b].base + Space * h.bars[b + 1].base

(* Sizing the BARs of a bridge leaves its bus numbers and windows alone:   *)
(* the registers behind the two BARs keep the values they had.             *)
OnlyBarsOverwritten ==
  \A f \in Function, b \in 1 .. 6 :
    config[f].bars[b] # boot[f].bars[b] => boot[f].bars[b].kind # "bus"

(* Every device is described by its own configuration page.                *)
OwnConfigPage == \A k \in 1 .. Len(DEVICES) : DEVICES[k].from = DEVICES[k].function
==============================================================================
