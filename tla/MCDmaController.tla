-------------------------- MODULE MCDmaController --------------------------
(***************************************************************************)
(* The DMA controller instantiated for model checking: small address       *)
(* spaces in which regions are adjacent, apart or overlapping, and the     *)
(* requests that fall inside one region, across two, into a gap and at the *)
(* limits of the integer types.                                            *)
(***************************************************************************)
EXTENDS DmaController, TLC

\* Two adjacent regions, and a third that overlaps both.
AdjacentSpans ==
    { [base |-> 0, size |-> 4], [base |-> 4, size |-> 4],
      [base |-> 2, size |-> 4] }

\* Three regions in a row: a gap opens where one is not registered.
RowSpans ==
    { [base |-> 0, size |-> 4], [base |-> 4, size |-> 2],
      [base |-> 6, size |-> 4] }

\* The row, and a region that overlaps its first two.
MixedSpans == RowSpans \cup { [base |-> 2, size |-> 4] }

Request(addr, len, write, max_sg) ==
    [addr |-> addr, len |-> len, write |-> write, max_sg |-> max_sg]

\* Spans inside the first region, across the boundary, inside the second.
PinRequests ==
    { Request(s[1], s[2], w, 2) :
        s \in {<<2, 2>>, <<2, 4>>, <<4, 2>>}, w \in BOOLEAN }

\* Spans that start at, before, inside and after the regions, of no, one
\* and several bytes, with room for 0 to 3 entries.
AllRequests ==
    { Request(a, l, w, m) :
        a \in 0 .. 10, l \in {0, 1, 2, 3, 4, 6, 7, 10},
        w \in BOOLEAN, m \in 0 .. 3 }

\* The same, and writes that end inside a page.
DeviceRequests == PinRequests \cup { Request(0, l, TRUE, 2) : l \in {1, 3} }

\* A region as long as a uint32_t can count.
LongSpans == { [base |-> 0, size |-> 12], [base |-> 12, size |-> 4] }

\* Spans at the limits of the integer types: those that run over the end
\* of the address space, and those whose length needs more than 32 bits.
EdgeRequests ==
    { Request(a, l, w, 1) : a \in {28, 30}, l \in {2, 4, 6}, w \in BOOLEAN }
    \cup { Request(a, l, w, 2) : a \in {0, 4}, l \in {8, 10}, w \in BOOLEAN }

ThreadSymmetry == Permutations(Threads)
=============================================================================
