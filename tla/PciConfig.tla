----------------------------- MODULE PciConfig -----------------------------
(***************************************************************************)
(* The emulated PCI configuration space (pci.c): its setup by the device,  *)
(* and the accesses of the guest, which pci_config_space_access cuts into  *)
(* segments for the standard header, the capabilities and the rest, one    *)
(* round of its loop for each.                                             *)
(*                                                                         *)
(* Registers are numbers below RegLimit, which stands for 2^32; the values *)
(* tested for are placed as in the code (all ones, all ones but bit 0).    *)
(* Offsets are those of the PCI header.  The lookup of a capability and    *)
(* its access handler are not in pci.c: the lookup is written as the       *)
(* first capability that meets the span, the handler as a callback.        *)
(***************************************************************************)
EXTENDS Integers, FiniteSets, FiniteSetsExt

CONSTANTS
    RegLimit,      \* a uint32_t is modulo RegLimit
    SizeLimit,     \* a size_t is modulo SizeLimit
    BarSize,       \* reg_info[bar].size, 0 for a region that is not set up
    BarIsMem,      \* reg_info[bar].flags & VFU_REGION_FLAG_MEM
    Caps,          \* the [off, size] of the capabilities
    Callbacks,     \* the devices of the run: with (TRUE) or without (FALSE)
                   \* a reg_info[VFU_PCI_DEV_CFG_REGION_IDX].cb
    CbReturns(_),  \* what a callback may return for a segment of that size
    Accesses,      \* the [offset, count, is_write, val] of the guest
    Ids, Classes,  \* what vfu_pci_set_id and vfu_pci_set_class are given
    Setups,        \* the [flags, rom] the device writes by itself
    PciTypes,      \* the vfu_pci_type_t that vfu_pci_init is called with
    NULL

VARIABLES
    config_space,  \* vfu_ctx->pci.config_space, NULL before vfu_pci_init
    pci_type,      \* vfu_ctx->pci.type
    cfg_size,      \* reg_info[VFU_PCI_DEV_CFG_REGION_IDX].size
    has_cb,        \* reg_info[VFU_PCI_DEV_CFG_REGION_IDX].cb != NULL
    acc,           \* the access in the loop of pci_config_space_access;
                   \* its field `done' is history: the segments so far
    result,        \* what pci_config_space_access has returned, NULL in a call
    probed         \* history: BARs whose last write was all ones

vars == <<config_space, pci_type, cfg_size, has_cb, acc, result, probed>>

Bars == 0 .. 5
AllOnes == RegLimit - 1
EINVAL == 22

PCI_COMMAND == 4
PCI_STATUS == 6
PCI_LATENCY_TIMER == 13
PCI_BASE_ADDRESS_0 == 16
PCI_ROM_ADDRESS == 48
PCI_INTERRUPT_LINE == 60
PCI_INTERRUPT_PIN == 61
PCI_STD_HEADER_SIZEOF == 64

BarOffsets == { PCI_BASE_ADDRESS_0 + 4 * i : i \in Bars }
BAR_INDEX(offset) == (offset - PCI_BASE_ADDRESS_0) \div 4

\* IO, MEMORY, MASTER, INVALIDATE, SERR and INTX_DISABLE; VGA_PALETTE.
CmdBits == {1, 2, 4, 16, 256, 1024}
VgaPalette == 32
\* The bits set in v, and the | of two uint32_t.
BitsOf(v) == { b \in { 2 ^ k : k \in 0 .. 15 } : (v \div b) % 2 = 1 }
BitOr(a, b) == SumSet(BitsOf(a) \cup BitsOf(b))

\* PCI_ROM_ADDRESS_MASK and ~PCI_ROM_ADDRESS_ENABLE as uint32_t.
RomAddressMask == RegLimit - (RegLimit \div 2)
RomDisable == RegLimit - 2

\* ~PCI_BASE_ADDRESS_MEM_MASK and ~PCI_BASE_ADDRESS_IO_MASK.
FlagBits(bar) == IF BarIsMem[bar] THEN 15 ELSE 3

ASSUME /\ RegLimit \in 2048 .. 2 ^ 16 /\ SizeLimit \in Nat \ {0}
       /\ BarSize \in [Bars -> 0 .. (RegLimit - 1)]
       /\ BarIsMem \in [Bars -> BOOLEAN]
       /\ Callbacks \subseteq BOOLEAN
       /\ PciTypes \subseteq {"conventional", "pci_x_1", "pci_x_2", "express"}
       /\ \A s \in Setups : \A b \in Bars : s.flags[b] <= FlagBits(b)
       /\ \A a \in Accesses : a.val \in 0 .. AllOnes /\ a.count < SizeLimit

-----------------------------------------------------------------------------
(***************************************************************************)
(* Writes to the standard header.  Each operator gives [ret, pci]: what    *)
(* the function returns and the header it leaves.                          *)
(***************************************************************************)

\* Mistake: the mask of a BAR that is sized is ~size, without the + 1.
SizedBarNoCarry(bar) == (RegLimit - 1 - BarSize[bar]) % RegLimit

\* cfg_addr = ~(reg_info[bar_index].size) + 1, as a uint32_t.
SizedBar(bar) == (RegLimit - BarSize[bar]) % RegLimit

\* pci_hdr_write_bar: nothing for a region that is not set up; else what
\* was written, or the mask of the size for all ones, with the flag bits
\* the register has or-ed in.
WriteBar(pci, bar, cfg_addr) ==
    IF BarSize[bar] = 0
    THEN pci
    ELSE [pci EXCEPT !.bars[bar] =
            BitOr(IF cfg_addr = AllOnes THEN SizedBar(bar) ELSE cfg_addr,
                  @ % (FlagBits(bar) + 1))]

\* handle_command_write: every enable bit follows the value; a bit the
\* function does not know makes it fail after the bits have been set.
HandleCommandWrite(pci, v, count) ==
    IF count # 2
    THEN [ret |-> -EINVAL, pci |-> pci]
    ELSE [ret |-> IF BitsOf(v) \subseteq CmdBits \cup {VgaPalette}
                  THEN 0 ELSE -EINVAL,
          pci |-> [pci EXCEPT !.cmd = BitsOf(v) \cap CmdBits]]

\* Mistake: the register is cleared before the value is looked at.
HandleEromWriteClearsFirst(pci, v, count) ==
    [ret |-> IF count # 4 \/ v \notin {RomAddressMask, 0, RomDisable}
             THEN -EINVAL ELSE 0,
     pci |-> [pci EXCEPT !.erom = 0]]

\* handle_erom_write: zero clears the register, the two probes of the
\* guest are ignored, anything else is an error.
HandleEromWrite(pci, v, count) ==
    IF count # 4 \/ v \notin {RomAddressMask, 0, RomDisable}
    THEN [ret |-> -EINVAL, pci |-> pci]
    ELSE [ret |-> 0, pci |-> IF v = 0 THEN [pci EXCEPT !.erom = 0] ELSE pci]

\* pci_hdr_write: the switch on the offset of the write.
PciHdrWrite(pci, offset, count, v) ==
    CASE offset = PCI_COMMAND        -> HandleCommandWrite(pci, v, count)
      [] offset = PCI_STATUS         -> [ret |-> 0, pci |-> pci]
      [] offset = PCI_INTERRUPT_PIN  -> [ret |-> -EINVAL, pci |-> pci]
      [] offset = PCI_INTERRUPT_LINE ->
             [ret |-> 0, pci |-> [pci EXCEPT !.iline = v % 256]]
      [] offset = PCI_LATENCY_TIMER  ->
             [ret |-> 0, pci |-> [pci EXCEPT !.mlt = v % 256]]
      [] offset \in BarOffsets       ->
             [ret |-> 0, pci |-> WriteBar(pci, BAR_INDEX(offset), v)]
      [] offset = PCI_ROM_ADDRESS    -> HandleEromWrite(pci, v, count)
      [] OTHER                       -> [ret |-> -EINVAL, pci |-> pci]

\* pci_hdr_write_bar reads four bytes whatever the count: the bytes after
\* a shorter write are not the guest's.
Written(a, size) ==
    IF a.offset \in BarOffsets /\ size < 4
    THEN { v \in { b.val : b \in Accesses } : v % 256 = a.val % 256 }
    ELSE {a.val}

-----------------------------------------------------------------------------
(***************************************************************************)
(* The segments of an access.                                              *)
(***************************************************************************)

\* cap_find_by_offset: the first capability the span meets.
CapFindByOffset(offset, count) ==
    LET met == { c \in Caps :
                   offset + count > c.off /\ offset < c.off + c.size }
    IN  IF met = {} THEN NULL
        ELSE CHOOSE c \in met : \A d \in met : c.off <= d.off

\* Mistake: a segment of the header runs to the end of the access.
NextSegmentUncut(count, offset) ==
    [cb |-> IF offset < PCI_STD_HEADER_SIZEOF THEN "hdr" ELSE "nonstd",
     size |-> count]

\* pci_config_space_next_segment: the handler of the segment that starts at
\* offset, and the size of the segment.
NextSegment(count, offset) ==
    LET cap == CapFindByOffset(offset, count)
    IN  CASE offset < PCI_STD_HEADER_SIZEOF ->
                 [cb |-> "hdr",
                  size |-> Min({count, PCI_STD_HEADER_SIZEOF - offset})]
          [] offset >= PCI_STD_HEADER_SIZEOF /\ cap = NULL ->
                 [cb |-> "nonstd", size |-> count]
          [] OTHER ->
                 IF offset < cap.off
                 THEN [cb |-> "nonstd", size |-> cap.off - offset]
                 ELSE [cb |-> "cap", size |-> Min({count, cap.size})]

Segment == NextSegment(acc.count, acc.offset)

\* Mistake: the loop moves the buffer and neither the offset nor the count.
AdvanceBufferOnly(a, ret) == a

\* offset += ret; count -= ret; buf += ret
Advance(a, ret) ==
    [a EXCEPT !.offset = @ + ret, !.count = (@ - ret) % SizeLimit]

\* The rest of a round of the loop, for a handler that returned ret: the
\* access returns the error, or goes on, or returns the number of bytes it
\* has handled.
Returned(ret) ==
    LET next == Advance(acc, ret)
        seg  == [cb |-> Segment.cb, from |-> acc.offset, bytes |-> ret]
    IN  IF ret < 0 \/ next.count = 0
        THEN acc' = NULL
             /\ result' = IF ret < 0 THEN ret ELSE next.offset - acc.start
        ELSE acc' = [next EXCEPT !.done = @ \cup {seg}]
             /\ UNCHANGED result

-----------------------------------------------------------------------------
\* The context before vfu_pci_init; the region callback of the device is
\* set once, by the setup of the region, and stays.
Init ==
    /\ config_space = NULL
    /\ pci_type = NULL
    /\ cfg_size = 0
    /\ has_cb \in Callbacks
    /\ acc = NULL
    /\ result = NULL
    /\ probed = {}

\* Mistake: every type of device gets the configuration space of
\* conventional PCI.
VfuPciInitConventional(type) ==
    /\ config_space = NULL
    /\ config_space' = [id |-> 0, cc |-> 0, cmd |-> {}, mlt |-> 0,
                        iline |-> 0, erom |-> 0, bars |-> [b \in Bars |-> 0]]
    /\ pci_type' = type
    /\ cfg_size' = 256
    /\ UNCHANGED <<has_cb, acc, result, probed>>

\* vfu_pci_init with a type and a header type it accepts, the first time.
VfuPciInit(type) ==
    /\ config_space = NULL
    /\ config_space' = [id |-> 0, cc |-> 0, cmd |-> {}, mlt |-> 0,
                        iline |-> 0, erom |-> 0, bars |-> [b \in Bars |-> 0]]
    /\ pci_type' = type
    /\ cfg_size' = IF type \in {"conventional", "pci_x_1"} THEN 256 ELSE 4096
    /\ UNCHANGED <<has_cb, acc, result, probed>>

\* vfu_pci_set_id
VfuPciSetId(id) ==
    /\ config_space # NULL
    /\ config_space' = [config_space EXCEPT !.id = id]
    /\ UNCHANGED <<pci_type, cfg_size, has_cb, acc, result, probed>>

\* vfu_pci_set_class
VfuPciSetClass(class) ==
    /\ config_space # NULL
    /\ config_space' = [config_space EXCEPT !.cc = class]
    /\ UNCHANGED <<pci_type, cfg_size, has_cb, acc, result, probed>>

\* The device writes the type bits of its BARs and the address of the ROM
\* through the pointer vfu_pci_get_config_space gives it.
DeviceSetsHeader(flags, rom) ==
    /\ config_space # NULL
    /\ config_space' = [config_space EXCEPT !.bars = flags, !.erom = rom]
    /\ probed' = {}
    /\ UNCHANGED <<pci_type, cfg_size, has_cb, acc, result>>

\* pci_config_space_access is called: with a count of 0 the loop is not
\* entered and the call returns offset - start.  That the span lies in the
\* region, and that one access runs at a time, is the caller's to see to.
BeginAccess(a) ==
    /\ config_space # NULL /\ acc = NULL
    /\ a.offset + a.count <= cfg_size
    /\ IF a.count = 0
       THEN acc' = NULL /\ result' = 0
       ELSE /\ acc' = [offset |-> a.offset, count |-> a.count,
                       start |-> a.offset, wanted |-> a.count,
                       is_write |-> a.is_write, val |-> a.val, done |-> {}]
            /\ result' = NULL
    /\ UNCHANGED <<config_space, pci_type, cfg_size, has_cb, probed>>

\* A round of the loop in the standard header: pci_hdr_access.  A write
\* that fails returns the error, any other access its count.
HdrSegment ==
    /\ acc # NULL
    /\ Segment.cb = "hdr"
    /\ \E v \in Written(acc, Segment.size) :
          LET done == IF acc.is_write
                      THEN PciHdrWrite(config_space, acc.offset,
                                       Segment.size, v)
                      ELSE [ret |-> 0, pci |-> config_space]
              bar  == BAR_INDEX(acc.offset)
          IN  /\ config_space' = done.pci
              /\ Returned(IF done.ret < 0 THEN done.ret ELSE Segment.size)
              /\ probed' =
                    IF acc.is_write /\ acc.offset \in BarOffsets
                    THEN IF v = AllOnes /\ BarSize[bar] # 0
                         THEN probed \cup {bar} ELSE probed \ {bar}
                    ELSE probed
    /\ UNCHANGED <<pci_type, cfg_size, has_cb>>

\* A round of the loop outside the header and the capabilities:
\* pci_nonstd_access.  The callback of the device answers when there is
\* one; without it a read is a memcpy and a write an error.
NonstdSegment ==
    /\ acc # NULL
    /\ Segment.cb = "nonstd"
    /\ \E ret \in (IF has_cb THEN CbReturns(Segment.size)
                   ELSE IF acc.is_write THEN {-EINVAL}
                   ELSE {Segment.size}) :
          Returned(ret)
    /\ UNCHANGED <<config_space, pci_type, cfg_size, has_cb, probed>>

\* A round of the loop in a capability: pci_cap_access handles the whole
\* segment or fails.
CapSegment ==
    /\ acc # NULL
    /\ Segment.cb = "cap"
    /\ \E ret \in {Segment.size, -EINVAL} : Returned(ret)
    /\ UNCHANGED <<config_space, pci_type, cfg_size, has_cb, probed>>

Round == HdrSegment \/ NonstdSegment \/ CapSegment

Next ==
    \/ \E type \in PciTypes : VfuPciInit(type)
    \/ \E id \in Ids : VfuPciSetId(id)
    \/ \E class \in Classes : VfuPciSetClass(class)
    \/ \E s \in Setups : DeviceSetsHeader(s.flags, s.rom)
    \/ \E a \in Accesses : BeginAccess(a)
    \/ Round

Spec == Init /\ [][Next]_vars

\* The loop of an access runs on once it is entered: nothing in it waits.
FairSpec == Spec /\ WF_vars(Round)

-----------------------------------------------------------------------------
(***************************************************************************)
(* Properties.                                                             *)
(***************************************************************************)

Headers ==
    [id : Ids \cup {0}, cc : Classes \cup {0}, cmd : SUBSET CmdBits,
     mlt : 0 .. 255, iline : 0 .. 255, erom : 0 .. AllOnes,
     bars : [Bars -> 0 .. AllOnes]]

\* The variables hold values of the types of pci.c, and the size of the
\* region is that of the type of the device.
TypeOK ==
    /\ config_space \in Headers \cup {NULL}
    /\ pci_type \in PciTypes \cup {NULL}
    /\ cfg_size = IF config_space = NULL THEN 0
                  ELSE IF pci_type \in {"conventional", "pci_x_1"} THEN 256
                  ELSE 4096
    /\ acc # NULL => acc.offset \in 0 .. cfg_size /\ acc.is_write \in BOOLEAN
    /\ has_cb \in BOOLEAN
    /\ result \in {NULL, -EINVAL} \cup 0 .. cfg_size
    /\ probed \subseteq Bars

\* The area of the configuration space a byte lies in: the header, one of
\* the capabilities, or the rest.
AreaOf(byte) ==
    LET at == { c \in Caps : byte \in c.off .. (c.off + c.size - 1) }
    IN  CASE byte < PCI_STD_HEADER_SIZEOF -> [cb |-> "hdr", of |-> {}]
          [] at # {} -> [cb |-> "cap", of |-> at]
          [] OTHER -> [cb |-> "nonstd", of |-> {}]

\* The loop of pci_config_space_access hands every byte to the handler of
\* the area it lies in, in order and once: the segments so far lie end to
\* end from the start of the access, none crosses from the header, a
\* capability or the rest into another area or another capability, and
\* with the bytes left they are the bytes asked for.
SegmentsFollowAreas ==
    acc # NULL =>
        /\ acc.count \in 1 .. acc.wanted
        /\ acc.offset + acc.count = acc.start + acc.wanted
        /\ \A byte \in acc.start .. (acc.offset - 1) :
              \E seg \in acc.done :
                  /\ byte \in seg.from .. (seg.from + seg.bytes - 1)
                  /\ seg.cb = AreaOf(byte).cb
                  /\ AreaOf(seg.from) = AreaOf(byte)
        /\ \A seg \in acc.done :
              seg.from + seg.bytes <= acc.offset /\ seg.bytes > 0

\* pci_config_space_access returns: the loop over the segments of an
\* access comes to its end, whatever the segments are.
AccessReturns == (acc # NULL) ~> (acc = NULL)

\* What pci_config_space_access returns.  An access that succeeds returns
\* the count it was called with, however many segments it was cut into and
\* however little of a segment a callback handled at a time.  An access
\* that pci_hdr_write refuses leaves the header as it was, but for the
\* enable bits of the command register, which handle_command_write has set
\* before it finds a bit it does not know.
AccessTellsWhatItDid ==
    [][acc # NULL /\ acc' = NULL =>
         /\ result' >= 0 => result' = acc.wanted
         /\ result' < 0 /\ Segment.cb = "hdr" =>
                config_space' = [config_space EXCEPT !.cmd = config_space'.cmd]
      ]_vars

\* The sizing of a BAR: after the guest has written all ones to the BAR of
\* a region, the address bits of the register are the two's complement of
\* the size of the region, from which the guest computes the size.
ProbedBarTellsSize ==
    \A bar \in probed :
        LET address == config_space.bars[bar]
                           - (config_space.bars[bar] % (FlagBits(bar) + 1))
        IN  (RegLimit - address) % RegLimit = BarSize[bar]

=============================================================================
