------------------------------ MODULE Type2Tag ------------------------------
(***************************************************************************)
(* The memory of an NFC Forum Type 2 tag: how whoever writes the tag lays  *)
(* TLV blocks out in it (the reference), and how                           *)
(* St25r3916Driver::readType2Ndef reads block after block and walks the    *)
(* TLV blocks until the NDEF message.  The reading has no actions of its   *)
(* own: NfcAPoll makes one of each exchange with the tag.                  *)
(***************************************************************************)
EXTENDS Naturals, SequencesExt

CONSTANTS
    BlockBytes,    \* bytes one READ returns: 16
    PageBytes,     \* bytes of a page: 4
    FirstPage,     \* the page the data area starts at: 4
    LastPage,      \* the last page a READ can name: 0xFF
    CapacityUnit,  \* bytes per unit of the size in the capability container: 8
    MaxCapacity    \* kMaximumNdefSize

ASSUME Type2Assumption ==
    /\ {BlockBytes, PageBytes, CapacityUnit} \subseteq Nat \ {0}
    /\ BlockBytes % PageBytes = 0
    /\ LastPage \in Nat /\ FirstPage \in 0..LastPage /\ MaxCapacity \in Nat

VARIABLES
    memory,      \* the data area as far as it was read
    cursor,      \* "offset" of readType2Ndef
    message      \* tag.ndefMessage

NullTlv       == 0
NdefTlv       == 3
TerminatorTlv == 254
LongLength    == 255

(* What the first block tells of a tag that has one to tell.               *)
Capacity(cc) == cc.units * CapacityUnit

HasNdef(cc) == cc.magic /\ Capacity(cc) \in 1..MaxCapacity

-----------------------------------------------------------------------------
(* The writer: a list of TLV blocks, each with the long form of its length *)
(* or the short one, and something behind the last.                        *)
Laid(t) ==
    IF t.type \in {NullTlv, TerminatorTlv} THEN <<t.type>>
    ELSE IF t.long
         THEN <<t.type, LongLength, Len(t.value) \div 256,
                Len(t.value) % 256>> \o t.value
         ELSE <<t.type, Len(t.value)>> \o t.value

DataArea(tlvs, filler) == FlattenSeq([i \in DOMAIN tlvs |-> Laid(tlvs[i])]) \o filler

(* What one byte of a tag may hold.                                        *)
Cell == 0..255

(* The bytes of a tag are its TLV blocks, each with a length that its form *)
(* can say; what lies behind them, if anything does, a terminator hides.   *)
LaidOut(tag) ==
    LET area == DataArea(tag.tlvs, <<>>)
    IN  /\ tag.tlvs \in Seq([type: Cell, long: BOOLEAN, value: Seq(Cell)])
        /\ \A i \in DOMAIN tag.tlvs :
              Len(tag.tlvs[i].value) <
                 IF tag.tlvs[i].long THEN 256 * 256 ELSE LongLength
        /\ tag.bytes \in Seq(Cell) /\ Len(area) <= Len(tag.bytes)
        /\ \A i \in DOMAIN area : tag.bytes[i] = area[i]
        /\ Len(area) < Len(tag.bytes) => tag.bytes[Len(area) + 1] = TerminatorTlv

(* Without sector select, READ reaches the blocks that begin on a page up  *)
(* to LastPage.                                                            *)
Reach == BlockBytes * ((LastPage - FirstPage) \div (BlockBytes \div PageBytes) + 1)

(* The message a reader should find: the first NDEF TLV before any         *)
(* terminator, if it and all before it lie within the capacity and reach.  *)
Written(tag) ==
    LET ndef == {i \in DOMAIN tag.tlvs : tag.tlvs[i].type = NdefTlv}
        first == CHOOSE i \in ndef : \A j \in ndef : i <= j
        area == DataArea(SubSeq(tag.tlvs, 1, first), <<>>)
    IN  IF /\ HasNdef(tag.cc) /\ tag.cc.open /\ ndef # {}
           /\ \A i \in 1..first : tag.tlvs[i].type # TerminatorTlv
           /\ Len(area) <= Capacity(tag.cc) /\ Len(area) <= Reach
        THEN tag.tlvs[first].value
        ELSE <<>>

-----------------------------------------------------------------------------
(* The reader.                                                             *)

(* What READ answers; a tag fills up with zeros.                           *)
Block(tag, page) ==
    LET from == (page - FirstPage) * PageBytes
    IN  [i \in 1..BlockBytes |->
            IF from + i <= Len(tag.bytes) THEN tag.bytes[from + i] ELSE 0]

NextPage == FirstPage + Len(memory) \div PageBytes

Forget == memory' = <<>> /\ cursor' = 0 /\ message' = <<>>

(* The block, as far as the capacity goes.                                 *)
Appended(cc, block) ==
    memory \o SubSeq(block, 1, IF BlockBytes <= Capacity(cc) - Len(memory)
                               THEN BlockBytes ELSE Capacity(cc) - Len(memory))

Known(i) == cursor + i <= Len(memory)

TlvByte(i) == memory[cursor + i]

(* Bytes ensureBytes() is asked for at the cursor, with what is known: the *)
(* type, then the length, then the rest of a long one, then the value.     *)
Required ==
    cursor +
    IF ~Known(1) \/ TlvByte(1) \in {NullTlv, TerminatorTlv} THEN 1
    ELSE IF ~Known(2) THEN 2
    ELSE IF TlvByte(2) # LongLength THEN 2 + TlvByte(2)
    ELSE IF ~Known(4) THEN 4
    ELSE 4 + TlvByte(3) * 256 + TlvByte(4)

AtEnd(cc) == cursor >= Capacity(cc)

NearSectorEnd == NextPage >= LastPage  \* mutant: one page too early

PastSectorEnd == NextPage > LastPage

(* The bytes wanted lie beyond the capacity or the first sector.           *)
OutOfReach(cc) ==
    /\ ~AtEnd(cc)
    /\ \/ Required > Capacity(cc)
       \/ Required > Len(memory) /\ PastSectorEnd

WantsBlock(cc) ==
    ~AtEnd(cc) /\ ~OutOfReach(cc) /\ Required > Len(memory)

TlvComplete(cc) ==
    ~AtEnd(cc) /\ ~OutOfReach(cc) /\ Required <= Len(memory)

TlvValue ==
    SubSeq(memory,
           cursor + (IF TlvByte(2) = LongLength THEN 5 ELSE 3), Required)
=============================================================================
