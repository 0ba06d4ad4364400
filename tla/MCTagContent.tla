---------------------------- MODULE MCTagContent ----------------------------
(* Disturbed fields: two tags that share the first level of their uid and  *)
(* hold different messages, and tags that break the standard.  Calm ones:  *)
(* one tag with a message of two bytes among TLV blocks of every kind,     *)
(* where blocks have four bytes and the capacity, or the last page, cuts   *)
(* the list anywhere.  And no tag, for the messages at the end of this     *)
(* module.                                                                 *)
EXTENDS TagContent

Level(cascade, bytes, more) ==
    [cascade |-> cascade, bytes |-> bytes, more |-> more]

Single == <<Level(FALSE, "q", FALSE)>>
DoubleQ == <<Level(TRUE, "p", TRUE), Level(FALSE, "q", FALSE)>>
DoubleR == <<Level(TRUE, "p", TRUE), Level(FALSE, "r", FALSE)>>
NoSecond == <<Level(TRUE, "s", FALSE), Level(FALSE, "q", FALSE)>>
NoEnd == <<Level(TRUE, "p", TRUE), Level(TRUE, "p", TRUE), Level(TRUE, "p", TRUE)>>

Tlv(type, long, value) == [type |-> type, long |-> long, value |-> value]

Tag(levels, type2, cc, tlvs) ==
    [levels |-> levels, type2 |-> type2, cc |-> cc, tlvs |-> tlvs,
     bytes |-> DataArea(tlvs, <<TerminatorTlv, 7>>)]

Container1(units) == [magic |-> TRUE, units |-> units, open |-> TRUE]

Holding(m) == <<Tlv(NdefTlv, FALSE, m)>>

Empty == <<208, 0, 0>>
Uri == <<209, 1, 1, 85, 0>>

Disturbing ==
    {[x |-> Tag(DoubleQ, TRUE, Container1(2), Holding(Empty)),
      y |-> Tag(DoubleR, TRUE, Container1(2), Holding(Uri))],
     [x |-> Tag(DoubleQ, FALSE, Container1(2), <<>>),
      y |-> Tag(NoSecond, FALSE, Container1(2), <<>>)],
     [x |-> Tag(Single, TRUE, Container1(2), Holding(Empty)),
      y |-> Tag(NoEnd, FALSE, Container1(2), <<>>)]}

Blocks == {Tlv(NullTlv, FALSE, <<>>), Tlv(1, FALSE, <<0, 3>>),
           Tlv(NdefTlv, FALSE, <<9, 9>>), Tlv(NdefTlv, TRUE, <<8, 8>>),
           Tlv(253, TRUE, <<3>>), Tlv(TerminatorTlv, FALSE, <<>>)}

Containers == {Container1(n) : n \in 0..5}
                \cup {[magic |-> FALSE, units |-> 2, open |-> TRUE],
                      [magic |-> TRUE, units |-> 2, open |-> FALSE]}

Calm ==
    {Tag(DoubleQ, TRUE, cc, tlvs) :
        cc \in Containers, tlvs \in UNION {[1..n -> Blocks] : n \in 0..3}}
      \cup {Tag(Single, TRUE, Container1(4), Holding(m)) : m \in {Empty, Uri}}

MCFields == {[calm |-> FALSE, tags |-> f] : f \in Disturbing}
              \cup {[calm |-> TRUE, tags |-> [x |-> t]] : t \in Calm}
              \cup {[calm |-> TRUE, tags |-> <<>>]}

-----------------------------------------------------------------------------
(* Short messages over the bytes that decide something: all of them up to  *)
(* four bytes; one and two records whose lengths may be wrong; and Text    *)
(* records with texts of up to four bytes at the bounds of UTF-8.           *)

(* MB ME SR, MB SR, ME SR, MB ME SR IL, MB ME, all well-known; MB ME SR    *)
(* with the other TNF values; a chunk; a record marked neither way.        *)
Headers == {209, 145, 81, 217, 193} \cup {208, 210, 212, 213, 214, 215}
             \cup {241, 17}

Strings(S, n) == UNION {[1..k -> S] : k \in 0..n}

Small == Strings({209, 145, 81, 193, 0, 1, 84, 85}, 4)

Lengths == 0..2

Bodies == Strings({0, 1, 84, 85}, 3)

OneRecord ==
    {<<h, t>> \o l \o b : h \in Headers, t \in Lengths,
        l \in {<<n>> : n \in Lengths}
                \cup {<<0, 0, x, n>> : x \in {0, 1}, n \in Lengths}
                \cup {<<127, 255, 255, 255>>},
        b \in Bodies}

TwoRecords ==
    {<<h, 1, n, u>> \o b \o <<g, 1, m, 84>> \o c :
        h \in {145, 209}, n \in Lengths, u \in {84, 85},
        g \in {81, 209, 17}, m \in Lengths,
        b \in Strings({0, 1}, 2), c \in Strings({0, 1}, 2)}

Bounds == {65, 127, 128, 143, 144, 159, 160, 191, 192, 193, 194, 223, 224,
           237, 239, 240, 244, 245}

Texts ==
    {<<209, 1, Len(s) + 1, 84, status>> \o s :
        status \in {0, 1, 64, 128, 130},
        s \in Strings({65, 128, 143, 144, 191}, 2)}
      \cup {<<209, 1, Len(s) + Len(u) + 1, 84, 0>> \o s \o u :
        s \in Strings(Bounds, 2), u \in Strings({65, 128, 191, 192}, 2)}

MCMessages == Small \cup OneRecord \cup TwoRecords \cup Texts
=============================================================================
