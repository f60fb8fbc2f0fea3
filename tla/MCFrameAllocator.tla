--------------------------- MODULE MCFrameAllocator ---------------------------
(* Bounded instances of FrameAllocator: every ascending map of up to        *)
(* MaxRegions descriptors over the frames 0 .. MaxFrame.                    *)
EXTENDS FrameAllocator

CONSTANTS MaxRegions, MaxFrame

MCTypes == {"Conventional", "BootServicesCode", "LoaderData"}

MCDescriptor ==
  [type : MCTypes, start : 0 .. MaxFrame, size : 1 .. MaxFrame, runtime : {FALSE}]

MCFits(d) == d.start + d.size <= MaxFrame + 1

MCMaps ==
  {m \in UNION {[1 .. n -> {d \in MCDescriptor : MCFits(d)}] : n \in 1 .. MaxRegions} :
     \A i, j \in 1 .. Len(m) : i < j => m[i].start + m[i].size <= m[j].start}

===============================================================================
