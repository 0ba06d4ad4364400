----------------------------- MODULE NdefParser -----------------------------
(***************************************************************************)
(* parseNdefMessage (src/nfc/ndef_parser.cpp): the bytes read from a tag   *)
(* are cut into records, one step for each.  A step either takes a whole   *)
(* record and moves the cursor past it, or refuses the message; which of   *)
(* the code's error texts a refusal has is left out.                       *)
(*                                                                         *)
(* A byte is a number; its bits are read off with \div and %.  What the    *)
(* prefix of a URI is spelled like is left out: its code stands for it.    *)
(***************************************************************************)
EXTENDS NdefEncoding

CONSTANT Messages      \* the byte sequences given to the parser

ASSUME MessagesAssumption == Messages \subseteq Seq(Byte)

VARIABLES
    data,          \* the message
    offset,        \* Cursor::_offset
    messageEnd,    \* the last record had ME set
    records,       \* what was parsed so far; none yet: the next is the first
    result         \* "parsing", then "success" or "failure"

vars == <<data, offset, messageEnd, records, result>>

Init ==
    /\ data \in Messages
    /\ offset = 0
    /\ messageEnd = FALSE
    /\ records = <<>>
    /\ result = "parsing"

Remaining == Len(data) - offset

Ahead(i) == data[offset + i]       \* the i-th byte from the cursor

-----------------------------------------------------------------------------
(* The header and the lengths.                                             *)
Flag(weight) == (Ahead(1) \div weight) % 2 = 1

MessageBegin == Flag(128)
RecordEnd    == Flag(64)
Chunked      == Flag(32)
ShortRecord  == Flag(16)
HasIdLength  == Flag(8)
Tnf          == Ahead(1) % 8

LengthSize == IF ShortRecord THEN 1 ELSE 4

HeaderSize == 2 + LengthSize + (IF HasIdLength THEN 1 ELSE 0)

HeaderOK ==
    /\ records = <<>> <=> MessageBegin
    /\ ~Chunked
    /\ Tnf \in TnfEmpty..TnfUnknown

TypeLength == Ahead(2)

PayloadLength ==
    IF ShortRecord THEN Ahead(3)
    ELSE ((Ahead(3) * 256 + Ahead(4)) * 256 + Ahead(5)) * 256 + Ahead(6)

IdLength == IF HasIdLength THEN Ahead(HeaderSize) ELSE 0

LengthsOK ==
    /\ Tnf = TnfEmpty => TypeLength = 0 /\ IdLength = 0 /\ PayloadLength = 0
    /\ Tnf \in TnfWellKnown..TnfExternal => TypeLength # 0
    /\ Tnf = TnfUnknown => TypeLength = 0

(* Cursor::readBytes                                                       *)
CanRead(length, at) == length <= Len(data) - at

TypeAt    == offset + HeaderSize
IdAt      == TypeAt + TypeLength
PayloadAt == IdAt + IdLength
NextAt    == PayloadAt + PayloadLength

Fits ==
    /\ CanRead(TypeLength, TypeAt)
    /\ CanRead(IdLength, IdAt)
    /\ CanRead(PayloadLength, PayloadAt)

Type    == SubSeq(data, TypeAt + 1, IdAt)
Payload == SubSeq(data, PayloadAt + 1, NextAt)

-----------------------------------------------------------------------------
(* isValidUtf8                                                             *)
Continued(s, i, n) ==
    /\ i + n - 1 <= Len(s)
    /\ \A j \in (i + 1)..(i + n - 1) : s[j] \div 64 = 2

OverlongOnly(first, second) ==         \* mutant: surrogates pass
    /\ first = 224 => second >= 160
    /\ first = 240 => second >= 144

(* The second byte rules out longer forms than needed, surrogates and what *)
(* lies beyond the last code point.                                        *)
SecondByteOK(first, second) ==
    /\ first = 224 => second >= 160
    /\ first = 237 => second < 160
    /\ first = 240 => second >= 144
    /\ first = 244 => second < 144

IsValidUtf8(s) ==
    LET validFrom[i \in 1..(Len(s) + 1)] ==
            i <= Len(s) =>
                \/ s[i] <= 127 /\ validFrom[i + 1]
                \/ s[i] \in 194..223 /\ Continued(s, i, 2) /\ validFrom[i + 2]
                \/ /\ s[i] \in 224..239
                   /\ Continued(s, i, 3)
                   /\ SecondByteOK(s[i], s[i + 1])
                   /\ validFrom[i + 3]
                \/ /\ s[i] \in 240..244
                   /\ Continued(s, i, 4)
                   /\ SecondByteOK(s[i], s[i + 1])
                   /\ validFrom[i + 4]
    IN  validFrom[1]

-----------------------------------------------------------------------------
(* decodeRecord                                                            *)
IsText == Tnf = TnfWellKnown /\ Type = <<LetterT>>
IsUri  == Tnf = TnfWellKnown /\ Type = <<LetterU>>

Utf16 == Payload[1] \div 128 = 1

LanguageLength == Payload[1] % 64

Text == SubSeq(Payload, 2 + LanguageLength, Len(Payload))

TextOK ==
    /\ Payload # <<>>
    /\ (Payload[1] \div 64) % 2 = 0            \* the reserved bit
    /\ LanguageLength <= Len(Payload) - 1
    /\ ~Utf16 => IsValidUtf8(Text)

Decodable == (IsText => TextOK) /\ (IsUri => Payload # <<>>)

Prefix == IF Payload[1] < UriPrefixes THEN Payload[1] ELSE NoPrefix

Decoded ==
    IF IsText /\ ~Utf16 THEN TheRecord("Text", TextPlain, Payload, Text)
    ELSE IF IsUri
    THEN TheRecord("Uri", UriList, Payload, <<Prefix>> \o Tail(Payload))
    ELSE IF Tnf = TnfMime THEN TheRecord("Mime", Type, Payload, Payload)
    ELSE TheRecord("Unknown", Type, Payload, <<>>)

-----------------------------------------------------------------------------
(* One turn of the loop of parseNdefMessage, and the two ways out of it.   *)
RecordThere ==
    /\ ~messageEnd
    /\ HeaderSize <= Remaining
    /\ HeaderOK
    /\ LengthsOK
    /\ Fits
    /\ Decodable

ParseRecord ==
    /\ result = "parsing"
    /\ Remaining # 0
    /\ RecordThere
    /\ offset' = NextAt
    /\ messageEnd' = RecordEnd
    /\ records' = Append(records, Decoded)
    /\ UNCHANGED <<data, result>>

Refuse ==
    /\ result = "parsing"
    /\ IF Remaining # 0 THEN ~RecordThere ELSE ~messageEnd
    /\ result' = "failure"
    /\ records' = <<>>
    /\ UNCHANGED <<data, offset, messageEnd>>

Finish ==
    /\ result = "parsing"
    /\ Remaining = 0
    /\ messageEnd
    /\ result' = "success"
    /\ UNCHANGED <<data, offset, messageEnd, records>>

Next == ParseRecord \/ Refuse \/ Finish

Spec == Init /\ [][Next]_vars

-----------------------------------------------------------------------------
(* The cursor never leaves the message, whatever lengths the tag claims.   *)
CursorInside ==
    /\ data \in Seq(Byte)
    /\ offset \in 0..Len(data)

(* Every turn of the loop reads on, so that it ends.                       *)
ReadsOn == [][result' = "parsing" => offset' > offset]_vars

(* A message is accepted exactly if it is the encoding of some records,    *)
(* and these records are the ones the application gets: lengths, flags,    *)
(* the bounds of a language code and of UTF-8 are all checked, and nothing *)
(* valid is refused.                                                       *)
ParsesWhatWasWritten ==
    /\ result = "success" => MessagesOf(data) = {records}
    /\ result = "failure" => MessagesOf(data) = {}
=============================================================================
