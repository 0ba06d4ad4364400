---------------------------- MODULE NdefEncoding ----------------------------
(***************************************************************************)
(* What an NDEF message is, told from the side of whoever writes one: how  *)
(* records are laid out in bytes, and which bytes are UTF-8.  It says      *)
(* nothing of how a message is read, and is the reference NdefParser is    *)
(* judged by.                                                              *)
(***************************************************************************)
EXTENDS Integers, Sequences

Byte == 0..255

(* Values of the three TNF bits that have a meaning here.                  *)
TnfEmpty     == 0
TnfWellKnown == 1
TnfMime      == 2
TnfExternal  == 4
TnfUnknown   == 5

LetterT == 84
LetterU == 85
UriPrefixes == 36      \* identifier codes that stand for a prefix
NoPrefix == -1

(* The types an application sees in the place of T and U, as strings of    *)
(* their own.                                                              *)
TextPlain == <<-1>>    \* "text/plain"
UriList   == <<-2>>    \* "text/uri-list"

LanguageLengths == 0..63

(* A record as the application sees it.                                    *)
TheRecord(kind, type, payload, value) ==
    [kind |-> kind, type |-> type, payload |-> payload, value |-> value]

-----------------------------------------------------------------------------
(* UTF-8: a character is a code point in its shortest form.                *)
Low(b) == b % 64

CodePoint(c) ==
    CASE Len(c) = 1 -> c[1]
      [] Len(c) = 2 -> (c[1] % 32) * 64 + Low(c[2])
      [] Len(c) = 3 -> (c[1] % 16) * 4096 + Low(c[2]) * 64 + Low(c[3])
      [] Len(c) = 4 -> (c[1] % 8) * 262144 + Low(c[2]) * 4096
                         + Low(c[3]) * 64 + Low(c[4])

LeadBytes == <<0..127, 192..223, 224..239, 240..247>>

ShortestFrom == <<0, 128, 2048, 65536>>

LastPoint == 1114111

IsSurrogate(p) == 55296 <= p /\ p <= 57343

IsCharacter(c) ==
    /\ c[1] \in LeadBytes[Len(c)]
    /\ \A j \in 2..Len(c) : c[j] \in 128..191
    /\ ShortestFrom[Len(c)] <= CodePoint(c) /\ CodePoint(c) <= LastPoint
    /\ ~IsSurrogate(CodePoint(c))

IsUtf8(s) ==
    LET textFrom[i \in 1..(Len(s) + 1)] ==
            i <= Len(s) => \E j \in i..Len(s) :
                /\ j <= i + 3
                /\ IsCharacter(SubSeq(s, i, j))
                /\ textFrom[j + 1]
    IN  textFrom[1]

-----------------------------------------------------------------------------
(* A record with these parts, in bytes.                                    *)
Bit(b, weight) == IF b THEN weight ELSE 0

LengthField(short, n) ==
    IF short THEN <<n>>
    ELSE <<n \div 16777216, (n \div 65536) % 256, (n \div 256) % 256, n % 256>>

Encoding(first, last, short, hasId, tnf, type, id, payload) ==
    <<Bit(first, 128) + Bit(last, 64) + Bit(short, 16) + Bit(hasId, 8) + tnf,
      Len(type)>>
      \o LengthField(short, Len(payload))
      \o (IF hasId THEN <<Len(id)>> ELSE <<>>)
      \o type \o (IF hasId THEN id ELSE <<>>) \o payload

(* Its parts fit together.                                                 *)
PartsAgree(tnf, type, id, payload) ==
    \/ tnf = TnfEmpty /\ <<type, id, payload>> = <<<<>>, <<>>, <<>>>>
    \/ tnf \in TnfWellKnown..TnfExternal /\ type # <<>>
    \/ tnf = TnfUnknown /\ type = <<>>

(* What its payload says: a Text record holds a status byte, a language    *)
(* code and a text, a URI record an identifier code and the rest.  Records *)
(* in UTF-16, or of any other type, stay as they are.                      *)
TextMeanings(payload) ==
    {TheRecord("Text", TextPlain, payload,
               SubSeq(payload, n + 2, Len(payload))) :
       n \in {n \in LanguageLengths : /\ n < Len(payload)
                                     /\ payload[1] = n
                                     /\ IsUtf8(SubSeq(payload, n + 2, Len(payload)))}}
    \cup {TheRecord("Unknown", <<LetterT>>, payload, <<>>) :
             n \in {n \in LanguageLengths : n < Len(payload) /\ payload[1] = 128 + n}}

UriMeanings(payload) ==
    {TheRecord("Uri", UriList, payload,
               <<IF n < UriPrefixes THEN n ELSE NoPrefix>>
                 \o SubSeq(payload, 2, Len(payload))) :
       n \in {payload[i] : i \in {1} \cap DOMAIN payload}}

Meanings(tnf, type, payload) ==
    IF tnf = TnfWellKnown /\ type = <<LetterT>> THEN TextMeanings(payload)
    ELSE IF tnf = TnfWellKnown /\ type = <<LetterU>> THEN UriMeanings(payload)
    ELSE {TheRecord(IF tnf = TnfMime THEN "Mime" ELSE "Unknown", type, payload,
                    IF tnf = TnfMime THEN payload ELSE <<>>)}

(* The bytes b are such a record: its type starts at t and has b[2] bytes, *)
(* its payload is all from p on.                                           *)
TypeIn(b, t)    == SubSeq(b, t, t + b[2] - 1)
IdIn(b, t, p)   == SubSeq(b, t + b[2], p - 1)
PayloadIn(b, p) == SubSeq(b, p, Len(b))

TypeStart(short, hasId) == (IF short THEN 4 ELSE 7) + Bit(hasId, 1)

Encodes(b, first, last, short, hasId, p) ==
    LET t == TypeStart(short, hasId)
    IN  /\ t + b[2] <= p
        /\ b = Encoding(first, last, short, hasId, b[1] % 8, TypeIn(b, t),
                        IdIn(b, t, p), PayloadIn(b, p))
        /\ PartsAgree(b[1] % 8, TypeIn(b, t), IdIn(b, t, p), PayloadIn(b, p))

(* The records, at most one, of which these bytes are the encoding.        *)
RecordsOf(b, first, last) ==
    IF b[1] \div 64 # Bit(first, 2) + Bit(last, 1) THEN {}
    ELSE UNION {UNION {Meanings(b[1] % 8, TypeIn(b, t), PayloadIn(b, p)) :
                         t \in {t \in 4..8 : \E short, hasId \in BOOLEAN :
                                   /\ t = TypeStart(short, hasId)
                                   /\ Encodes(b, first, last, short, hasId, p)}} :
                  p \in 4..(Len(b) + 1)}

(* The sequences of records, at most one, of which s is the encoding: the  *)
(* first is marked as first, the last as last.                             *)
MessagesOf(s) ==
    LET from[i \in 1..(Len(s) + 1)] ==
            IF i = Len(s) + 1 THEN {<<>>}
            ELSE UNION {{<<r>> \o rest :
                           r \in RecordsOf(SubSeq(s, i, j), i = 1, j = Len(s)),
                           rest \in from[j + 1]} : j \in i..Len(s)}
    IN  from[1] \ {<<>>}
=============================================================================
