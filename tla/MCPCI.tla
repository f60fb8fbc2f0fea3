-------------------------------- MODULE MCPCI --------------------------------
(* Bounded instance of PCI: two segments of two buses with two devices of   *)
(* two functions, tables of four entries on two levels.  The first function *)
(* of each segment is a device, a bridge or of an unknown type.             *)
EXTENDS PCI

MCTables ==
  { << >>,
    << [address |-> 16, bus_start |-> 0], [address |-> 24, bus_start |-> 0] >>,
    << [address |-> 16, bus_start |-> 0], [address |-> 40, bus_start |-> 1] >> }

None == [kind |-> "none", base |-> 0, size |-> 0]

Reg(kind, base, size) == [kind |-> kind, base |-> base, size |-> size]

BarLists ==
  { << None, None, None, None, None, None >>,
    << Reg("mem", 8, 4), None, Reg("io", 4, 2), None, None, Reg("mem", 4, 4) >>,
    << Reg("mem64", 8, 8), Reg("high", 4, 0), Reg("mem", 4, 4), None, None, None >>,
    << Reg("mem64", 8, 4), Reg("high", 3, 0), None, None, Reg("mem64", 4, 4), Reg("high", 0, 0) >>,
    << None, Reg("io", 6, 2), None, None, None, None >>,
    << Reg("mem", 0, 8), Reg("mem64", 0, 16), Reg("high", 4, 0), None, None, None >>,
    << Reg("mem", 0, 8), Reg("mem", 12, 4), None, None, None, None >> }

BridgeBars ==
  { << Reg("mem", 8, 8), None, Reg("bus", 1, 0), Reg("bus", 2, 0), Reg("bus", 3, 0), Reg("bus", 4, 0) >>,
    << Reg("mem64", 4, 4), Reg("high", 8, 0), Reg("bus", 1, 0), Reg("bus", 2, 0), Reg("bus", 3, 0), None >> }

HeaderOf(type, multi, pin, bars) ==
  [present |-> TRUE, type |-> type, multi |-> multi, pin |-> pin, bars |-> bars]

Absent == [HeaderOf(0, FALSE, 0, << None, None, None, None, None, None >>) EXCEPT !.present = FALSE]

Hosts ==
  {Absent} \cup {HeaderOf(0, m, p, b) : m \in BOOLEAN, p \in {0, 1, 3, 5}, b \in BarLists}
    \cup {HeaderOf(1, m, 0, b) : m \in BOOLEAN, b \in BridgeBars}
    \cup {HeaderOf(2, FALSE, 0, b) : b \in BridgeBars}

First(f) == f.bus = 0 /\ f.dev = 0 /\ f.fn = 0

MCConfigs ==
  {[f \in Function |-> IF ~First(f) THEN Absent ELSE IF f.seg = 1 THEN h ELSE g] :
     h \in Hosts, g \in {x \in Hosts : x.pin \in {0, 5} /\ x.multi = (x.type = 0)}}

MCPools == {[k \in 1 .. n |-> 70 + k] : n \in {0, 1, 3, 4, 8}}
==============================================================================
