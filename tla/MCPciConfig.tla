---------------------------- MODULE MCPciConfig ----------------------------
(***************************************************************************)
(* The configuration space instantiated for model checking: a memory BAR,  *)
(* an I/O BAR, four BARs without a region, two capabilities end to end     *)
(* after the header, and the accesses that hit each register, miss it by   *)
(* a byte, have the wrong size or run from one segment into the next.      *)
(***************************************************************************)
EXTENDS PciConfig

MCBarSize == [b \in Bars |-> CASE b = 0 -> 16 [] b = 1 -> 64 [] OTHER -> 0]
MCBarIsMem == [b \in Bars |-> b = 0]

MCCaps == { [off |-> 72, size |-> 8], [off |-> 80, size |-> 4] }

\* A callback that handles the segment, or the first half of it, or fails.
WholeHalfOrError(size) == {size, (size + 1) \div 2, -EINVAL}

Access(offset, count, is_write, val) ==
    [offset |-> offset, count |-> count, is_write |-> is_write, val |-> val]

Writes(offset, counts, vals) ==
    { Access(offset, c, TRUE, v) : c \in counts, v \in vals }

\* Reads of the header, of the rest and of the capability, reads that run
\* from one into the next, and a read of nothing.
Reads ==
    { Access(o, 12, FALSE, 0) : o \in {60, 62, 70, 72} }
    \cup { Access(o, 2, FALSE, 0) : o \in {0, 72} }
    \cup { Access(0, 0, FALSE, 0) }

MCAccesses ==
    Reads
    \cup Writes(PCI_COMMAND, {2}, {7, 64})
    \cup Writes(PCI_COMMAND, {4}, {7})
    \cup Writes(PCI_STATUS, {2}, {0})
    \cup Writes(PCI_LATENCY_TIMER, {1}, {7})
    \cup Writes(PCI_INTERRUPT_LINE, {1, 12}, {7})
    \cup Writes(PCI_INTERRUPT_PIN, {1}, {0})
    \cup Writes(PCI_BASE_ADDRESS_0, {1, 4}, {0, 2047})
    \cup Writes(PCI_BASE_ADDRESS_0, {8}, {2047})
    \cup Writes(PCI_BASE_ADDRESS_0 + 4, {4}, {2047})
    \cup Writes(PCI_BASE_ADDRESS_0 + 8, {4}, {2047})
    \cup Writes(PCI_ROM_ADDRESS, {4}, {0, 7, 1024, 2046})
    \cup Writes(PCI_ROM_ADDRESS, {2}, {0})
    \cup Writes(2, {2}, {0})
    \cup Writes(62, {12}, {0})
    \cup Writes(76, {4}, {0})

\* Accesses that start inside the first capability and end after it.
TailAccesses ==
    MCAccesses \cup { Access(76, 12, w, 0) : w \in BOOLEAN }

\* A 64-bit prefetchable memory BAR and an I/O BAR, with a ROM.
MCSetups ==
    { [flags |-> [b \in Bars |-> CASE b = 0 -> 12 [] b = 1 -> 1 [] OTHER -> 0],
       rom |-> 1024] }
=============================================================================
