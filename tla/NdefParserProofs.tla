-------------------------- MODULE NdefParserProofs ---------------------------
(***************************************************************************)
(* parseNdefMessage takes every message apart into the records it was put  *)
(* together from, and refuses every other: for all bytes, of any number,   *)
(* NdefParser agrees with NdefEncoding.                                    *)
(*                                                                         *)
(* The reference says in which ways bytes may have come about, the parser  *)
(* computes one.  So most of what is here turns an "is there" into a       *)
(* computation: code points into the bounds of isValidUtf8, what a payload *)
(* says into decodeRecord, and a concatenation of header, type, id and     *)
(* payload into the fields of a header and the places they lead to.  Then  *)
(* the recursion of the reference meets the loop of the parser: what it    *)
(* finds from the start of the message is always what was parsed, followed *)
(* by what it finds from the cursor on.                                    *)
(*                                                                         *)
(* Recursive functions need induction.  The induction theorems of the      *)
(* library take operators as parameters; that a set of numbers has a least *)
(* element does not, and gives what is needed here.                        *)
(***************************************************************************)
EXTENDS NdefParser, WellFoundedInduction, SequenceTheorems, TLAPS

(* The cursor stays in the message, and moves on.                          *)

(* A header that is there has lengths that are numbers.                    *)
LEMMA LengthsAreNumbers ==
    ASSUME CursorInside, Remaining # 0, HeaderSize <= Remaining
    PROVE  /\ HeaderSize \in Nat \ {0}
           /\ TypeLength \in Nat /\ IdLength \in Nat /\ PayloadLength \in Nat
<1>1. /\ Len(data) \in Nat
      /\ offset \in Nat
      /\ HeaderSize \in 3..7
      /\ LengthSize \in {1, 4}
      /\ HeaderSize = 2 + LengthSize + (IF HasIdLength THEN 1 ELSE 0)
  BY DEF CursorInside, HeaderSize, LengthSize
<1>2. offset + HeaderSize <= Len(data)
  BY <1>1 DEF Remaining
<1>3. ASSUME NEW i \in 1..HeaderSize
      PROVE  Ahead(i) \in Nat
  <2>1. offset + i \in 1..Len(data)
    BY <1>1, <1>2, <1>3
  <2>2. data[offset + i] \in Byte
    BY <2>1 DEF CursorInside
  <2>3. QED
    BY <2>2 DEF Ahead, Byte
<1>4. TypeLength \in Nat
  BY <1>1, <1>3 DEF TypeLength
<1>5. IdLength \in Nat
  BY <1>1, <1>3 DEF IdLength
<1>6. CASE ShortRecord
  <2>1. PayloadLength \in Nat
    BY <1>1, <1>3, <1>6 DEF PayloadLength
  <2>2. QED
    BY <1>1, <1>4, <1>5, <2>1
<1>7. CASE ~ShortRecord
  <2>1. LengthSize = 4
    BY <1>7 DEF LengthSize
  <2>2. /\ Ahead(3) \in Nat /\ Ahead(4) \in Nat
        /\ Ahead(5) \in Nat /\ Ahead(6) \in Nat
    BY <1>1, <1>3, <2>1
  <2>3. PayloadLength \in Nat
    BY <2>2, <1>7 DEF PayloadLength
  <2>4. QED
    BY <1>1, <1>4, <1>5, <2>3
<1>8. QED
  BY <1>6, <1>7

(* A record that is there ends inside the message, and is not empty.       *)
LEMMA RecordInside ==
    ASSUME CursorInside, Remaining # 0, RecordThere
    PROVE  NextAt \in (offset + 1)..Len(data)
<1>1. HeaderSize <= Remaining
  BY DEF RecordThere
<1>2. /\ HeaderSize \in Nat \ {0}
      /\ TypeLength \in Nat /\ IdLength \in Nat /\ PayloadLength \in Nat
  BY <1>1, LengthsAreNumbers
<1>3. PayloadLength <= Len(data) - PayloadAt
  BY DEF RecordThere, Fits, CanRead
<1>4. Len(data) \in Nat /\ offset \in Nat
  BY DEF CursorInside
<1>5. QED
  BY <1>2, <1>3, <1>4 DEF NextAt, PayloadAt, IdAt, TypeAt

(* Every turn keeps the cursor inside.                                     *)
LEMMA StepInside == CursorInside /\ [Next]_vars => CursorInside'
<1> SUFFICES ASSUME CursorInside, [Next]_vars
             PROVE  CursorInside'
  OBVIOUS
<1>1. CASE ParseRecord
  <2>1. /\ offset' = NextAt
        /\ data' = data
        /\ Remaining # 0 /\ RecordThere
    BY <1>1 DEF ParseRecord
  <2>2. NextAt \in (offset + 1)..Len(data)
    BY <2>1, RecordInside
  <2>3. offset \in Nat /\ Len(data) \in Nat
    BY DEF CursorInside
  <2>4. QED
    BY <2>1, <2>2, <2>3 DEF CursorInside
<1>2. CASE Refuse
  BY <1>2 DEF Refuse, CursorInside
<1>3. CASE Finish
  BY <1>3 DEF Finish, CursorInside
<1>4. CASE UNCHANGED vars
  BY <1>4 DEF vars, CursorInside
<1>5. QED
  BY <1>1, <1>2, <1>3, <1>4 DEF Next

(* The cursor never passes the end of the message: every byte the loop     *)
(* reads, and every field it hands on, lies inside it.                     *)
THEOREM CursorStaysInside == Spec => []CursorInside
<1>1. Init => CursorInside
  BY MessagesAssumption DEF Init, CursorInside
<1>2. QED
  BY <1>1, StepInside, PTL DEF Spec

(* The loop ends: each turn that goes on has read at least one byte.       *)
THEOREM EveryTurnReadsOn == Spec => ReadsOn
<1>1. CursorInside /\ [Next]_vars
        => [result' = "parsing" => offset' > offset]_vars
  <2> SUFFICES ASSUME CursorInside, Next, result' = "parsing"
               PROVE  offset' > offset
    OBVIOUS
  <2>1. ParseRecord
    BY DEF Next, Refuse, Finish
  <2>2. offset' = NextAt /\ Remaining # 0 /\ RecordThere
    BY <2>1 DEF ParseRecord
  <2>3. NextAt \in (offset + 1)..Len(data)
    BY <2>2, RecordInside
  <2>4. offset \in Nat /\ Len(data) \in Nat
    BY DEF CursorInside
  <2>5. QED
    BY <2>2, <2>3, <2>4
<1>2. QED
  BY <1>1, CursorStaysInside, PTL DEF Spec, ReadsOn

-----------------------------------------------------------------------------
(* Induction over data, from the least counterexample.                     *)

(* Every non-empty set of numbers has a least one.                         *)
LEMMA LeastNumber ==
    ASSUME NEW T \in SUBSET Nat, T # {}
    PROVE  \E x \in T : \A y \in T : x <= y
<1> DEFINE R == OpToRel(<, Nat)
<1>1. IsWellFoundedOn(R, Nat)
  BY NatLessThanWellFounded
<1>2. \A x, y \in Nat : x < y => <<x, y>> \in R
  BY DEF OpToRel
<1> HIDE DEF R
<1>3. \E x \in T : \A y \in T : ~(<<y, x>> \in R)
  BY <1>1, WFMin, Zenon
<1>4. PICK x \in T : \A y \in T : ~(<<y, x>> \in R)
  BY <1>3, Zenon
<1>5. ASSUME NEW y \in T PROVE x <= y
  <2>1. x \in Nat /\ y \in Nat
    OBVIOUS
  <2>2. ~(y < x)
    BY <1>2, <1>4, <2>1
  <2>3. QED
    BY <2>1, <2>2
<1>6. QED
  BY <1>5

(* A set of numbers that holds 0, and with each number the next one up to  *)
(* n, holds all of them.                                                   *)
LEMMA Induction ==
    ASSUME NEW n \in Nat, NEW S, 0 \in S,
           \A k \in 0..(n - 1) : k \in S => k + 1 \in S
    PROVE  0..n \subseteq S
<1> DEFINE T == (0..n) \ S
<1>1. SUFFICES ASSUME T # {} PROVE FALSE
  OBVIOUS
<1>2. PICK x \in T : \A y \in T : x <= y
  <2>1. T \in SUBSET Nat
    OBVIOUS
  <2> HIDE DEF T
  <2>2. QED
    BY <1>1, <2>1, LeastNumber
<1>3. x # 0 /\ x - 1 \in 0..(n - 1) /\ x - 1 \notin T
  BY <1>2
<1>4. x \in S
  BY <1>3
<1>5. QED
  BY <1>2, <1>4

Recursive(D, S, n, m, F) ==
    /\ S # {} /\ n \in Nat /\ m \in [D -> 0..n]
    /\ F \in [D -> [[D -> S] -> S]]
    /\ \A d \in D : \A g, h \in [D -> S] :
           (\A c \in D : m[c] < m[d] => g[c] = h[c]) => F[d][g] = F[d][h]

Solvable(D, S, F) == \E f \in [D -> S] : \A d \in D : f[d] = F[d][f]

(* A function may be defined by recursion if its value at d rests on its   *)
(* values where the measure m is smaller.                                  *)
LEMMA Recursion ==
    ASSUME NEW D, NEW S, NEW n, NEW m, NEW F, Recursive(D, S, n, m, F)
    PROVE  Solvable(D, S, F)
<1> USE DEF Recursive, Solvable
<1> DEFINE Solves(g, k) == \A d \in D : m[d] < k => g[d] = F[d][g]
           K == {k \in 0..(n + 1) : \E g \in [D -> S] : Solves(g, k)}
<1>1. 0 \in K
  <2>1. PICK s \in S : TRUE
    OBVIOUS
  <2>2. [d \in D |-> s] \in [D -> S]
    OBVIOUS
  <2>3. Solves([d \in D |-> s], 0)
    OBVIOUS
  <2>4. QED
    BY <2>2, <2>3
<1>2. ASSUME NEW k \in 0..n, k \in K PROVE k + 1 \in K
  <2>1. PICK g \in [D -> S] : Solves(g, k)
    BY <1>2
  <2> DEFINE h == [d \in D |-> IF m[d] = k THEN F[d][g] ELSE g[d]]
  <2>2. h \in [D -> S]
    OBVIOUS
  <2>3. \A d \in D : h[d] = IF m[d] = k THEN F[d][g] ELSE g[d]
    OBVIOUS
  <2> HIDE DEF h
  <2>4. ASSUME NEW d \in D, m[d] < k + 1 PROVE h[d] = F[d][h]
    <3>1. m[d] \in Nat /\ k \in Nat /\ \A c \in D : m[c] \in Nat
      OBVIOUS
    <3>2. \A c \in D : m[c] < m[d] => g[c] = h[c]
      BY <2>3, <2>4, <3>1
    <3>3. F[d][g] = F[d][h]
      BY <2>2, <3>2
    <3>4. CASE m[d] = k
      BY <2>3, <3>3, <3>4
    <3>5. CASE m[d] # k
      <4>1. m[d] < k
        <5>1. m[d] \in Nat /\ m[d] < k + 1
          BY <2>4, <3>1
        <5>2. \A x, y \in Nat : x < y + 1 /\ x # y => x < y
          BY SMT
        <5>3. QED
          BY <3>1, <3>5, <5>1, <5>2, Zenon
      <4>2. g[d] = F[d][g]
        BY <2>1, <4>1
      <4>3. QED
        BY <2>3, <3>3, <3>5, <4>2
    <3>6. QED
      BY <3>4, <3>5
  <2>5. Solves(h, k + 1)
    BY <2>4
  <2> HIDE DEF Solves
  <2>6. QED
    BY <2>2, <2>5
<1> HIDE DEF K
<1>3. 0..(n + 1) \subseteq K
  BY <1>1, <1>2, Induction
<1>4. n + 1 \in K
  BY <1>3
<1>5. PICK f \in [D -> S] : Solves(f, n + 1)
  BY <1>4 DEF K
<1>6. QED
  BY <1>5

-----------------------------------------------------------------------------
(* UTF-8: isValidUtf8 and the shortest forms of code points.               *)

(* A byte is a number from 0 to 255.                                       *)
LEMMA ByteIs == \A b \in Byte : b \in Int /\ 0 <= b /\ b <= 255
BY DEF Byte

(* So is each element of a sequence of bytes.                              *)
LEMMA BytesAre ==
    ASSUME NEW c \in Seq(Byte), NEW i \in 1..Len(c)
    PROVE  c[i] \in Int /\ 0 <= c[i] /\ c[i] <= 255
<1>1. c[i] \in Byte
  OBVIOUS
<1>2. QED
  BY <1>1, ByteIs

(* The first byte of a character, by the length of the character.          *)
LEMMA LeadIs ==
    /\ \A b \in Int : b \in LeadBytes[1] <=> 0 <= b /\ b <= 127
    /\ \A b \in Int : b \in LeadBytes[2] <=> 192 <= b /\ b <= 223
    /\ \A b \in Int : b \in LeadBytes[3] <=> 224 <= b /\ b <= 239
    /\ \A b \in Int : b \in LeadBytes[4] <=> 240 <= b /\ b <= 247
BY DEF LeadBytes

(* The first code point that needs one, two, three, four bytes.            *)
LEMMA ShortestIs ==
    /\ ShortestFrom[1] = 0 /\ ShortestFrom[2] = 128
    /\ ShortestFrom[3] = 2048 /\ ShortestFrom[4] = 65536
BY DEF ShortestFrom

Follows(b) == 128 <= b /\ b <= 191

(* The interval of the bytes that follow, by its bounds.                   *)
LEMMA FollowIs == \A b \in Int : b \in 128..191 <=> Follows(b)
BY DEF Follows

(* The bits of a byte that carry the code point.                           *)
LEMMA ByteBits ==
    /\ \A b \in Int : 192 <= b /\ b <= 223 => b % 32 = b - 192
    /\ \A b \in Int : 224 <= b /\ b <= 239 => b % 16 = b - 224
    /\ \A b \in Int : 240 <= b /\ b <= 247 => b % 8 = b - 240
    /\ \A b \in Int : Follows(b) => Low(b) = b - 128
BY DEF Low, Follows

(* The characters of each length, by their bytes.                          *)
LEMMA CharacterIs ==
    ASSUME NEW c \in Seq(Byte), NEW n \in 1..4, Len(c) = n
    PROVE  IsCharacter(c) <=>
             /\ c[1] \in LeadBytes[n]
             /\ \A j \in 2..n : Follows(c[j])
             /\ ShortestFrom[n] <= CodePoint(c) /\ CodePoint(c) <= LastPoint
             /\ ~IsSurrogate(CodePoint(c))
<1>1. \A j \in 2..n : c[j] \in Int
  BY BytesAre
<1>2. \A j \in 2..n : c[j] \in 128..191 <=> Follows(c[j])
  BY <1>1, FollowIs, Zenon
<1>3. IsCharacter(c) <=>
             /\ c[1] \in LeadBytes[n]
             /\ \A j \in 2..n : c[j] \in 128..191
             /\ ShortestFrom[n] <= CodePoint(c) /\ CodePoint(c) <= LastPoint
             /\ ~IsSurrogate(CodePoint(c))
  BY Zenon DEF IsCharacter
<1>4. QED
  BY <1>2, <1>3, Zenon

(* A character of one byte is at most 127.                                 *)
LEMMA OneByte ==
    ASSUME NEW c \in Seq(Byte), Len(c) = 1
    PROVE  IsCharacter(c) <=> c[1] <= 127
<1>1. c[1] \in Int /\ 0 <= c[1]
  BY BytesAre
<1>2. CodePoint(c) = c[1]
  BY DEF CodePoint
<1>3. QED
  BY <1>1, <1>2, CharacterIs, LeadIs, ShortestIs DEF IsSurrogate, LastPoint

(* A character of two bytes starts with 194 or more: 192 and 193 would be  *)
(* longer than needed.                                                     *)
LEMMA TwoBytes ==
    ASSUME NEW c \in Seq(Byte), Len(c) = 2
    PROVE  IsCharacter(c) <=> /\ 194 <= c[1] /\ c[1] <= 223
                              /\ Follows(c[2])
<1>1. c[1] \in Int /\ c[2] \in Int
  BY BytesAre
<1>2. IsCharacter(c) <=> /\ 192 <= c[1] /\ c[1] <= 223
                         /\ Follows(c[2])
                         /\ 128 <= CodePoint(c) /\ CodePoint(c) <= LastPoint
                         /\ ~IsSurrogate(CodePoint(c))
  <2>1. (\A j \in 2..2 : Follows(c[j])) <=> Follows(c[2])
    OBVIOUS
  <2>2. QED
    BY <1>1, <2>1, CharacterIs, LeadIs, ShortestIs
<1>3. ASSUME 192 <= c[1], c[1] <= 223, Follows(c[2])
      PROVE  CodePoint(c) = (c[1] - 192) * 64 + (c[2] - 128)
  <2>1. CodePoint(c) = (c[1] % 32) * 64 + Low(c[2])
    BY DEF CodePoint
  <2>2. c[1] % 32 = c[1] - 192
    BY <1>1, <1>3, ByteBits
  <2>3. Low(c[2]) = c[2] - 128
    BY <1>1, <1>3, ByteBits
  <2>4. QED
    BY <1>1, <2>1, <2>2, <2>3, SMT
<1>4. QED
  BY <1>1, <1>2, <1>3 DEF Follows, IsSurrogate, LastPoint

(* Which three bytes lie in the range of three: the second byte decides,   *)
(* after 224 and 237.                                                      *)
LEMMA ThreePoint ==
    ASSUME NEW x \in Int, NEW y \in Int, NEW z \in Int, NEW p \in Int,
           224 <= x, x <= 239, Follows(y), Follows(z),
           p = (x - 224) * 4096 + (y - 128) * 64 + (z - 128)
    PROVE  2048 <= p /\ p <= LastPoint /\ ~IsSurrogate(p) <=> SecondByteOK(x, y)
<1>1. p <= LastPoint
  BY DEF Follows, LastPoint
<1>2. 2048 <= p <=> (x = 224 => y >= 160)
  BY DEF Follows
<1>3. ~IsSurrogate(p) <=> (x = 237 => y < 160)
  BY DEF Follows, IsSurrogate
<1>4. QED
  BY <1>1, <1>2, <1>3 DEF SecondByteOK

FourOf(x, y, z, w) ==
    (x - 240) * 262144 + (y - 128) * 4096 + (z - 128) * 64 + (w - 128)

FourBits(x, y, z, w) ==
    (x % 8) * 262144 + Low(y) * 4096 + Low(z) * 64 + Low(w)

(* Which four bytes lie in the range of four: the second byte decides,     *)
(* after 240 and 244.                                                      *)
LEMMA FourPoint ==
    ASSUME NEW x \in Int, NEW y \in Int, NEW z \in Int, NEW w \in Int,
           240 <= x, x <= 247, Follows(y), Follows(z), Follows(w)
    PROVE  65536 <= FourOf(x, y, z, w) /\ FourOf(x, y, z, w) <= LastPoint
             /\ ~IsSurrogate(FourOf(x, y, z, w))
             <=> x <= 244 /\ SecondByteOK(x, y)
<1> DEFINE p == FourOf(x, y, z, w)
<1>0. p \in Int
  BY SMT DEF FourOf
<1>1. 65536 <= p <=> (x = 240 => y >= 144)
  BY SMT DEF Follows, FourOf
<1>2. p <= LastPoint <=> x <= 244 /\ (x = 244 => y < 144)
  BY SMT DEF Follows, LastPoint, FourOf
<1>3. 65536 <= p => ~IsSurrogate(p)
  BY <1>0, SMT DEF IsSurrogate
<1>4. QED
  BY <1>1, <1>2, <1>3 DEF SecondByteOK

(* What follows in a character of four bytes.                              *)
LEMMA FourFollow ==
    ASSUME NEW x \in Int, NEW y \in Int, NEW z \in Int, NEW w \in Int,
           240 <= x, x <= 247, Follows(y), Follows(z), Follows(w)
    PROVE  FourBits(x, y, z, w) = FourOf(x, y, z, w)
<1>1. x % 8 = x - 240
  BY ByteBits
<1>2. Low(y) = y - 128 /\ Low(z) = z - 128 /\ Low(w) = w - 128
  BY ByteBits
<1>3. QED
  BY <1>1, <1>2, SMT DEF FourOf, FourBits

(* A character of three bytes, as isValidUtf8 checks it.                   *)
LEMMA ThreeBytes ==
    ASSUME NEW c \in Seq(Byte), Len(c) = 3
    PROVE  IsCharacter(c) <=> /\ 224 <= c[1] /\ c[1] <= 239
                              /\ Follows(c[2]) /\ Follows(c[3])
                              /\ SecondByteOK(c[1], c[2])
<1>1. c[1] \in Int /\ c[2] \in Int /\ c[3] \in Int
  BY BytesAre
<1>2. IsCharacter(c) <=> /\ 224 <= c[1] /\ c[1] <= 239
                         /\ Follows(c[2]) /\ Follows(c[3])
                         /\ 2048 <= CodePoint(c) /\ CodePoint(c) <= LastPoint
                         /\ ~IsSurrogate(CodePoint(c))
  <2>1. (\A j \in 2..3 : Follows(c[j])) <=> Follows(c[2]) /\ Follows(c[3])
    OBVIOUS
  <2>2. QED
    BY <1>1, <2>1, CharacterIs, LeadIs, ShortestIs
<1>3. ASSUME 224 <= c[1], c[1] <= 239, Follows(c[2]), Follows(c[3])
      PROVE  CodePoint(c) = (c[1] - 224) * 4096 + (c[2] - 128) * 64 + (c[3] - 128)
  <2>1. CodePoint(c) = (c[1] % 16) * 4096 + Low(c[2]) * 64 + Low(c[3])
    BY DEF CodePoint
  <2>2. c[1] % 16 = c[1] - 224
    BY <1>1, <1>3, ByteBits
  <2>3. Low(c[2]) = c[2] - 128 /\ Low(c[3]) = c[3] - 128
    BY <1>1, <1>3, ByteBits
  <2>4. QED
    BY <1>1, <2>1, <2>2, <2>3, SMT
<1>4. QED
  <2>1. CASE 224 <= c[1] /\ c[1] <= 239 /\ Follows(c[2]) /\ Follows(c[3])
    <3>1. CodePoint(c) \in Int
      BY <1>1, <1>3, <2>1
    <3>2. 2048 <= CodePoint(c) /\ CodePoint(c) <= LastPoint /\ ~IsSurrogate(CodePoint(c))
            <=> SecondByteOK(c[1], c[2])
      BY <1>1, <1>3, <2>1, <3>1, ThreePoint, SMT
    <3>3. QED
      BY <1>2, <2>1, <3>2
  <2>2. CASE ~(224 <= c[1] /\ c[1] <= 239 /\ Follows(c[2]) /\ Follows(c[3]))
    BY <1>2, <2>2
  <2>3. QED
    BY <2>1, <2>2

(* A character of four bytes, as isValidUtf8 checks it.                    *)
LEMMA FourBytes ==
    ASSUME NEW c \in Seq(Byte), Len(c) = 4
    PROVE  IsCharacter(c) <=> /\ 240 <= c[1] /\ c[1] <= 244
                              /\ Follows(c[2]) /\ Follows(c[3]) /\ Follows(c[4])
                              /\ SecondByteOK(c[1], c[2])
<1>0. \A i \in 1..4 : c[i] \in Int
  BY BytesAre
<1>1. c[1] \in Int /\ c[2] \in Int /\ c[3] \in Int /\ c[4] \in Int
  BY <1>0
<1>2. IsCharacter(c) <=> /\ 240 <= c[1] /\ c[1] <= 247
                         /\ Follows(c[2]) /\ Follows(c[3]) /\ Follows(c[4])
                         /\ 65536 <= CodePoint(c) /\ CodePoint(c) <= LastPoint
                         /\ ~IsSurrogate(CodePoint(c))
  <2>1. (\A j \in 2..4 : Follows(c[j])) <=> Follows(c[2]) /\ Follows(c[3]) /\ Follows(c[4])
    OBVIOUS
  <2>2. QED
    BY <1>1, <2>1, CharacterIs, LeadIs, ShortestIs
<1>3. CodePoint(c) = FourBits(c[1], c[2], c[3], c[4])
  BY SMT DEF CodePoint, FourBits
<1>4. QED
  <2>1. CASE 240 <= c[1] /\ c[1] <= 247 /\ Follows(c[2]) /\ Follows(c[3]) /\ Follows(c[4])
    <3>1. CodePoint(c) = FourOf(c[1], c[2], c[3], c[4])
      BY <1>1, <1>3, <2>1, FourFollow, Zenon
    <3>2. 65536 <= CodePoint(c) /\ CodePoint(c) <= LastPoint /\ ~IsSurrogate(CodePoint(c))
            <=> c[1] <= 244 /\ SecondByteOK(c[1], c[2])
      BY <1>1, <2>1, <3>1, FourPoint, SMT
    <3>3. c[1] <= 244 => c[1] <= 247
      BY <1>1
    <3>4. QED
      BY <1>2, <2>1, <3>2, <3>3
  <2>2. CASE ~(240 <= c[1] /\ c[1] <= 247 /\ Follows(c[2]) /\ Follows(c[3]) /\ Follows(c[4]))
    BY <1>1, <1>2, <2>2
  <2>3. QED
    BY <2>1, <2>2

(* What isValidUtf8 takes for a character of k bytes at i.                 *)
TakenAt(s, i, k) ==
    \/ k = 1 /\ s[i] <= 127
    \/ k = 2 /\ 194 <= s[i] /\ s[i] <= 223 /\ Continued(s, i, 2)
    \/ /\ k = 3 /\ 224 <= s[i] /\ s[i] <= 239 /\ Continued(s, i, 3)
       /\ SecondByteOK(s[i], s[i + 1])
    \/ /\ k = 4 /\ 240 <= s[i] /\ s[i] <= 244 /\ Continued(s, i, 4)
       /\ SecondByteOK(s[i], s[i + 1])

(* isValidUtf8 tells the bytes that follow by their two high bits.         *)
LEMMA FollowBits == \A b \in Int : b \div 64 = 2 <=> Follows(b)
BY DEF Follows

(* The ranges of isValidUtf8 by their bounds.                              *)
LEMMA LeadRange ==
    \A b \in Int : /\ b \in 194..223 <=> 194 <= b /\ b <= 223
                   /\ b \in 224..239 <=> 224 <= b /\ b <= 239
                   /\ b \in 240..244 <=> 240 <= b /\ b <= 244
OBVIOUS

(* The loop over the bytes that follow, seen from the character.           *)
LEMMA ContinuedIs ==
    ASSUME NEW s \in Seq(Byte), NEW i \in 1..Len(s), NEW k \in 1..4,
           i + k - 1 <= Len(s)
    PROVE  Continued(s, i, k) <=> \A j \in 2..k : Follows(s[i + j - 1])
<1>1. \A j \in (i + 1)..(i + k - 1) : s[j] \div 64 = 2 <=> Follows(s[j])
  <2>1. \A j \in (i + 1)..(i + k - 1) : s[j] \in Int
    BY BytesAre
  <2>2. QED
    BY <2>1, FollowBits
<1>2. Continued(s, i, k) <=> \A j \in (i + 1)..(i + k - 1) : Follows(s[j])
  BY <1>1 DEF Continued
<1>3. ASSUME \A j \in 2..k : Follows(s[i + j - 1]),
             NEW j \in (i + 1)..(i + k - 1)
      PROVE  Follows(s[j])
  <2>1. j - i + 1 \in 2..k /\ i + (j - i + 1) - 1 = j
    OBVIOUS
  <2>2. QED
    BY <1>3, <2>1
<1>4. ASSUME \A j \in (i + 1)..(i + k - 1) : Follows(s[j]), NEW j \in 2..k
      PROVE  Follows(s[i + j - 1])
  BY <1>4
<1>5. QED
  BY <1>2, <1>3, <1>4

(* At each place isValidUtf8 takes k bytes exactly if they are a           *)
(* character.                                                              *)
LEMMA CharacterAt ==
    ASSUME NEW s \in Seq(Byte), NEW i \in 1..Len(s), NEW k \in 1..4,
           i + k - 1 <= Len(s)
    PROVE  IsCharacter(SubSeq(s, i, i + k - 1)) <=> TakenAt(s, i, k)
<1> DEFINE c == SubSeq(s, i, i + k - 1)
<1>1. c \in Seq(Byte) /\ Len(c) = k
  OBVIOUS
<1>2. \A j \in 1..k : c[j] = s[i + j - 1]
  OBVIOUS
<1>3. \A j \in 1..k : s[i + j - 1] \in Int
  BY BytesAre
<1>4. c[1] = s[i] /\ s[i] \in Int
  BY <1>2, <1>3
<1>5. Continued(s, i, k) <=> \A j \in 2..k : Follows(s[i + j - 1])
  BY ContinuedIs
<1> HIDE DEF c
<1>6. CASE k = 1
  <2>1. IsCharacter(c) <=> c[1] <= 127
    BY <1>1, <1>6, OneByte
  <2>2. TakenAt(s, i, 1) <=> s[i] <= 127
    BY DEF TakenAt
  <2>3. QED
    BY <1>4, <1>6, <2>1, <2>2, Zenon DEF c
<1>7. CASE k = 2
  <2>1. c[2] = s[i + 1]
    BY <1>2, <1>7
  <2>2. (\A j \in 2..2 : Follows(s[i + j - 1])) <=> Follows(s[i + 1])
    OBVIOUS
  <2>3. IsCharacter(c) <=> 194 <= c[1] /\ c[1] <= 223 /\ Follows(c[2])
    BY <1>1, <1>7, TwoBytes
  <2>4. TakenAt(s, i, 2) <=> 194 <= s[i] /\ s[i] <= 223 /\ Continued(s, i, 2)
    BY DEF TakenAt
  <2>5. QED
    BY <1>4, <1>5, <1>7, <2>1, <2>2, <2>3, <2>4, Zenon DEF c
<1>8. CASE k = 3
  <2>1. c[2] = s[i + 1] /\ c[3] = s[i + 2]
    BY <1>2, <1>8
  <2>2. (\A j \in 2..3 : Follows(s[i + j - 1]))
           <=> Follows(s[i + 1]) /\ Follows(s[i + 2])
    OBVIOUS
  <2>3. IsCharacter(c) <=> /\ 224 <= c[1] /\ c[1] <= 239
                           /\ Follows(c[2]) /\ Follows(c[3])
                           /\ SecondByteOK(c[1], c[2])
    BY <1>1, <1>8, ThreeBytes
  <2>4. TakenAt(s, i, 3) <=> /\ 224 <= s[i] /\ s[i] <= 239 /\ Continued(s, i, 3)
                             /\ SecondByteOK(s[i], s[i + 1])
    BY DEF TakenAt
  <2>5. QED
    BY <1>4, <1>5, <1>8, <2>1, <2>2, <2>3, <2>4, Zenon DEF c
<1>9. CASE k = 4
  <2>1. c[2] = s[i + 1] /\ c[3] = s[i + 2] /\ c[4] = s[i + 3]
    BY <1>2, <1>9
  <2>2. (\A j \in 2..4 : Follows(s[i + j - 1]))
           <=> Follows(s[i + 1]) /\ Follows(s[i + 2]) /\ Follows(s[i + 3])
    OBVIOUS
  <2>3. IsCharacter(c) <=> /\ 240 <= c[1] /\ c[1] <= 244
                           /\ Follows(c[2]) /\ Follows(c[3]) /\ Follows(c[4])
                           /\ SecondByteOK(c[1], c[2])
    BY <1>1, <1>9, FourBytes
  <2>4. TakenAt(s, i, 4) <=> /\ 240 <= s[i] /\ s[i] <= 244 /\ Continued(s, i, 4)
                             /\ SecondByteOK(s[i], s[i + 1])
    BY DEF TakenAt
  <2>5. QED
    BY <1>4, <1>5, <1>9, <2>1, <2>2, <2>3, <2>4, Zenon DEF c
<1>10. QED
  BY <1>6, <1>7, <1>8, <1>9

(* One turn of isValidUtf8, and one of the reference.                      *)
ValidTurn(s, g, i) ==
    i <= Len(s) =>
        \/ s[i] <= 127 /\ g[i + 1]
        \/ s[i] \in 194..223 /\ Continued(s, i, 2) /\ g[i + 2]
        \/ /\ s[i] \in 224..239
           /\ Continued(s, i, 3)
           /\ SecondByteOK(s[i], s[i + 1])
           /\ g[i + 3]
        \/ /\ s[i] \in 240..244
           /\ Continued(s, i, 4)
           /\ SecondByteOK(s[i], s[i + 1])
           /\ g[i + 4]

TextTurn(s, g, i) ==
    i <= Len(s) => \E j \in i..Len(s) : /\ j <= i + 3
                                        /\ IsCharacter(SubSeq(s, i, j))
                                        /\ g[j + 1]

Turns(s) == [1..(Len(s) + 1) -> BOOLEAN]

(* Both recursions define a function.                                      *)
LEMMA ValidIs ==
    ASSUME NEW s \in Seq(Byte)
    PROVE  \E f \in Turns(s) :
              /\ \A i \in 1..(Len(s) + 1) : f[i] <=> ValidTurn(s, f, i)
              /\ IsValidUtf8(s) <=> f[1]
<1> DEFINE D == 1..(Len(s) + 1)
           m == [i \in D |-> Len(s) + 1 - i]
           F == [i \in D |-> [g \in [D -> BOOLEAN] |-> ValidTurn(s, g, i)]]
<1>0. Len(s) \in Nat
  OBVIOUS
<1>1. m \in [D -> 0..Len(s)]
  BY <1>0
<1>t. \A g, i : ValidTurn(s, g, i) \in BOOLEAN
  BY DEF ValidTurn
<1>2. F \in [D -> [[D -> BOOLEAN] -> BOOLEAN]]
  BY <1>t
<1>3. ASSUME NEW d \in D, NEW g \in [D -> BOOLEAN], NEW h \in [D -> BOOLEAN],
             \A c \in D : m[c] < m[d] => g[c] = h[c]
      PROVE  F[d][g] = F[d][h]
  <2>1. \A c \in D : c > d => g[c] = h[c]
    BY <1>0, <1>3
  <2>2. CASE d = Len(s) + 1
    <3>1. ValidTurn(s, g, d) /\ ValidTurn(s, h, d)
      BY <1>0, <2>2 DEF ValidTurn
    <3>2. QED
      BY <3>1
  <2>3. CASE d <= Len(s)
    <3>1. \A k \in 1..4 : Continued(s, d, k) => g[d + k] = h[d + k]
      <4>1. \A k \in 1..4 : Continued(s, d, k) => d + k \in D
        BY <1>0, <2>3 DEF Continued
      <4>2. QED
        BY <1>0, <2>1, <4>1
    <3>2. g[d + 1] = h[d + 1]
      BY <1>0, <2>1, <2>3
    <3>3. ValidTurn(s, g, d) <=> ValidTurn(s, h, d)
      BY <3>1, <3>2 DEF ValidTurn
    <3>4. ValidTurn(s, g, d) = ValidTurn(s, h, d)
      BY <1>t, <3>3
    <3>5. QED
      BY <3>4
  <2>4. QED
    BY <1>0, <2>2, <2>3
<1>r. Recursive(D, BOOLEAN, Len(s), m, F)
  BY <1>0, <1>1, <1>2, <1>3 DEF Recursive
<1> HIDE DEF m, F, D
<1>4. \E f \in [D -> BOOLEAN] : \A d \in D : f[d] = F[d][f]
  BY <1>r, Recursion DEF Solvable
<1>5. \E f : f = [i \in D |-> ValidTurn(s, f, i)]
  <2>1. PICK f \in [D -> BOOLEAN] : \A d \in D : f[d] = F[d][f]
    BY <1>4
  <2>2. \A d \in D : f[d] = ValidTurn(s, f, d)
    BY <2>1 DEF F
  <2>3. f = [i \in D |-> ValidTurn(s, f, i)]
    BY <2>2
  <2>4. QED
    BY <2>3
<1> DEFINE v == CHOOSE f : f = [i \in D |-> ValidTurn(s, f, i)]
<1>6. v = [i \in D |-> ValidTurn(s, v, i)]
  BY <1>5
<1>7. IsValidUtf8(s) <=> v[1]
  BY DEF IsValidUtf8, ValidTurn, D
<1> HIDE DEF v
<1>8. \A i \in D : v[i] = ValidTurn(s, v, i)
  BY <1>6
<1>9. v \in [D -> BOOLEAN]
  BY <1>6, <1>t
<1>10. QED
  BY <1>7, <1>8, <1>9 DEF Turns, D

(* The reference defines one, too.                                         *)
LEMMA TextIs ==
    ASSUME NEW s \in Seq(Byte)
    PROVE  \E f \in Turns(s) :
              /\ \A i \in 1..(Len(s) + 1) : f[i] <=> TextTurn(s, f, i)
              /\ IsUtf8(s) <=> f[1]
<1> DEFINE D == 1..(Len(s) + 1)
           m == [i \in D |-> Len(s) + 1 - i]
           F == [i \in D |-> [g \in [D -> BOOLEAN] |-> TextTurn(s, g, i)]]
<1>0. Len(s) \in Nat
  OBVIOUS
<1>1. m \in [D -> 0..Len(s)]
  BY <1>0
<1>t. \A g, i : TextTurn(s, g, i) \in BOOLEAN
  BY DEF TextTurn
<1>2. F \in [D -> [[D -> BOOLEAN] -> BOOLEAN]]
  BY <1>t
<1>3. ASSUME NEW d \in D, NEW g \in [D -> BOOLEAN], NEW h \in [D -> BOOLEAN],
             \A c \in D : m[c] < m[d] => g[c] = h[c]
      PROVE  F[d][g] = F[d][h]
  <2>1. \A c \in D : c > d => g[c] = h[c]
    BY <1>0, <1>3
  <2>2. CASE d = Len(s) + 1
    <3>1. TextTurn(s, g, d) /\ TextTurn(s, h, d)
      BY <1>0, <2>2 DEF TextTurn
    <3>2. QED
      BY <3>1
  <2>3. CASE d <= Len(s)
    <3>1. \A j \in d..Len(s) : g[j + 1] = h[j + 1]
      BY <1>0, <2>1, <2>3
    <3>3. TextTurn(s, g, d) <=> TextTurn(s, h, d)
      BY <2>3, <3>1, Zenon DEF TextTurn
    <3>4. TextTurn(s, g, d) = TextTurn(s, h, d)
      BY <1>t, <3>3
    <3>5. QED
      BY <3>4
  <2>4. QED
    BY <1>0, <2>2, <2>3
<1>r. Recursive(D, BOOLEAN, Len(s), m, F)
  BY <1>0, <1>1, <1>2, <1>3 DEF Recursive
<1> HIDE DEF m, F, D
<1>4. \E f \in [D -> BOOLEAN] : \A d \in D : f[d] = F[d][f]
  BY <1>r, Recursion DEF Solvable
<1>5. \E f : f = [i \in D |-> TextTurn(s, f, i)]
  <2>1. PICK f \in [D -> BOOLEAN] : \A d \in D : f[d] = F[d][f]
    BY <1>4
  <2>2. \A d \in D : f[d] = TextTurn(s, f, d)
    BY <2>1 DEF F
  <2>3. f = [i \in D |-> TextTurn(s, f, i)]
    BY <2>2
  <2>4. QED
    BY <2>3
<1> DEFINE v == CHOOSE f : f = [i \in D |-> TextTurn(s, f, i)]
<1>6. v = [i \in D |-> TextTurn(s, v, i)]
  BY <1>5
<1>7. IsUtf8(s) <=> v[1]
  BY DEF IsUtf8, TextTurn, D
<1> HIDE DEF v
<1>8. \A i \in D : v[i] = TextTurn(s, v, i)
  BY <1>6
<1>9. v \in [D -> BOOLEAN]
  BY <1>6, <1>t
<1>10. QED
  BY <1>7, <1>8, <1>9 DEF Turns, D

(* A turn of either takes a character of at most four bytes, the same one. *)
TakesOne(s, g, i) ==
    \E k \in 1..4 : i + k - 1 <= Len(s) /\ TakenAt(s, i, k) /\ g[i + k]

(* A turn of isValidUtf8 takes one character and goes on behind it.        *)
LEMMA ValidTakes ==
    ASSUME NEW s \in Seq(Byte), NEW g, NEW i \in 1..Len(s)
    PROVE  ValidTurn(s, g, i) <=> TakesOne(s, g, i)
<1>1. s[i] \in Int /\ i \in Int /\ Len(s) \in Int /\ i <= Len(s)
  BY BytesAre
<1>2. \A k \in 1..4 : Continued(s, i, k) => i + k - 1 <= Len(s)
  BY DEF Continued
<1>3. /\ TakenAt(s, i, 1) <=> s[i] <= 127
      /\ TakenAt(s, i, 2) <=> s[i] \in 194..223 /\ Continued(s, i, 2)
      /\ TakenAt(s, i, 3) <=> /\ s[i] \in 224..239 /\ Continued(s, i, 3)
                              /\ SecondByteOK(s[i], s[i + 1])
      /\ TakenAt(s, i, 4) <=> /\ s[i] \in 240..244 /\ Continued(s, i, 4)
                              /\ SecondByteOK(s[i], s[i + 1])
  <2>1. /\ s[i] \in 194..223 <=> 194 <= s[i] /\ s[i] <= 223
        /\ s[i] \in 224..239 <=> 224 <= s[i] /\ s[i] <= 239
        /\ s[i] \in 240..244 <=> 240 <= s[i] /\ s[i] <= 244
    BY <1>1, LeadRange, Zenon
  <2>2. TakenAt(s, i, 1) <=> s[i] <= 127
    BY DEF TakenAt
  <2>3. TakenAt(s, i, 2) <=> s[i] \in 194..223 /\ Continued(s, i, 2)
    <3>1. TakenAt(s, i, 2) <=> 194 <= s[i] /\ s[i] <= 223 /\ Continued(s, i, 2)
      BY DEF TakenAt
    <3>2. QED
      BY <2>1, <3>1, Zenon
  <2>4. TakenAt(s, i, 3) <=> /\ s[i] \in 224..239 /\ Continued(s, i, 3)
                             /\ SecondByteOK(s[i], s[i + 1])
    <3>1. TakenAt(s, i, 3) <=> /\ 224 <= s[i] /\ s[i] <= 239 /\ Continued(s, i, 3)
                               /\ SecondByteOK(s[i], s[i + 1])
      BY DEF TakenAt
    <3>2. QED
      BY <2>1, <3>1, Zenon
  <2>5. TakenAt(s, i, 4) <=> /\ s[i] \in 240..244 /\ Continued(s, i, 4)
                             /\ SecondByteOK(s[i], s[i + 1])
    <3>1. TakenAt(s, i, 4) <=> /\ 240 <= s[i] /\ s[i] <= 244 /\ Continued(s, i, 4)
                               /\ SecondByteOK(s[i], s[i + 1])
      BY DEF TakenAt
    <3>2. QED
      BY <2>1, <3>1, Zenon
  <2>6. QED
    BY <2>2, <2>3, <2>4, <2>5, Zenon
<1>4. ValidTurn(s, g, i) <=> \/ TakenAt(s, i, 1) /\ g[i + 1]
                             \/ TakenAt(s, i, 2) /\ g[i + 2]
                             \/ TakenAt(s, i, 3) /\ g[i + 3]
                             \/ TakenAt(s, i, 4) /\ g[i + 4]
  BY <1>1, <1>3 DEF ValidTurn
<1>5. /\ i + 1 - 1 <= Len(s)
      /\ TakenAt(s, i, 2) => i + 2 - 1 <= Len(s)
      /\ TakenAt(s, i, 3) => i + 3 - 1 <= Len(s)
      /\ TakenAt(s, i, 4) => i + 4 - 1 <= Len(s)
  <2>1. /\ Continued(s, i, 2) => i + 2 - 1 <= Len(s)
        /\ Continued(s, i, 3) => i + 3 - 1 <= Len(s)
        /\ Continued(s, i, 4) => i + 4 - 1 <= Len(s)
    BY <1>2
  <2>2. i + 1 - 1 <= Len(s)
    BY <1>1
  <2>3. QED
    BY <1>3, <2>1, <2>2, Zenon
<1>6. TakesOne(s, g, i) <=> \/ i + 1 - 1 <= Len(s) /\ TakenAt(s, i, 1) /\ g[i + 1]
                            \/ i + 2 - 1 <= Len(s) /\ TakenAt(s, i, 2) /\ g[i + 2]
                            \/ i + 3 - 1 <= Len(s) /\ TakenAt(s, i, 3) /\ g[i + 3]
                            \/ i + 4 - 1 <= Len(s) /\ TakenAt(s, i, 4) /\ g[i + 4]
  <2>1. \A k : k \in 1..4 <=> k = 1 \/ k = 2 \/ k = 3 \/ k = 4
    OBVIOUS
  <2>2. QED
    BY <2>1, Zenon DEF TakesOne
<1>7. QED
  BY <1>4, <1>5, <1>6, Zenon

(* A turn of the reference does the same.                                  *)
LEMMA TextTakes ==
    ASSUME NEW s \in Seq(Byte), NEW g, NEW i \in 1..Len(s)
    PROVE  TextTurn(s, g, i) <=> TakesOne(s, g, i)
<1>1. ASSUME NEW j \in i..Len(s), j <= i + 3, IsCharacter(SubSeq(s, i, j)),
             g[j + 1]
      PROVE  TakesOne(s, g, i)
  <2>1. /\ j - i + 1 \in 1..4 /\ i + (j - i + 1) - 1 = j
        /\ i + (j - i + 1) = j + 1 /\ j <= Len(s)
    BY <1>1
  <2>2. TakenAt(s, i, j - i + 1)
    BY <1>1, <2>1, CharacterAt
  <2>3. QED
    BY <1>1, <2>1, <2>2 DEF TakesOne
<1>2. ASSUME NEW k \in 1..4, i + k - 1 <= Len(s), TakenAt(s, i, k), g[i + k]
      PROVE  TextTurn(s, g, i)
  <2>1. i + k - 1 \in i..Len(s) /\ i + k - 1 <= i + 3 /\ (i + k - 1) + 1 = i + k
    BY <1>2
  <2>2. IsCharacter(SubSeq(s, i, i + k - 1))
    BY <1>2, CharacterAt
  <2>3. QED
    BY <1>2, <2>1, <2>2 DEF TextTurn
<1>3. i <= Len(s)
  OBVIOUS
<1>4. QED
  BY <1>1, <1>2, <1>3, Zenon DEF TextTurn, TakesOne

(* isValidUtf8 takes what is UTF-8 by its definition, and nothing else.    *)
THEOREM Utf8Agree ==
    ASSUME NEW s \in Seq(Byte)
    PROVE  IsValidUtf8(s) <=> IsUtf8(s)
<1>1. PICK g \in Turns(s) : /\ \A i \in 1..(Len(s) + 1) : g[i] <=> ValidTurn(s, g, i)
                            /\ IsValidUtf8(s) <=> g[1]
  BY ValidIs
<1>2. PICK h \in Turns(s) : /\ \A i \in 1..(Len(s) + 1) : h[i] <=> TextTurn(s, h, i)
                            /\ IsUtf8(s) <=> h[1]
  BY TextIs
<1> DEFINE n == Len(s)
           S == {k \in 0..n : \A i \in (n + 1 - k)..(n + 1) : g[i] <=> h[i]}
<1>0. n \in Nat
  OBVIOUS
<1>3. 0 \in S
  <2>1. g[n + 1] /\ h[n + 1]
    <3>1. ~(n + 1 <= Len(s)) /\ n + 1 \in 1..(Len(s) + 1)
      BY <1>0
    <3>2. ValidTurn(s, g, n + 1) /\ TextTurn(s, h, n + 1)
      BY <3>1, Zenon DEF ValidTurn, TextTurn
    <3>3. QED
      BY <1>1, <1>2, <3>1, <3>2
  <2>2. QED
    BY <1>0, <2>1
<1>4. ASSUME NEW k \in 0..(n - 1), k \in S PROVE k + 1 \in S
  <2> DEFINE i == n - k
  <2>1. i \in 1..Len(s) /\ i \in 1..(Len(s) + 1)
    BY <1>0
  <2>2. \A j \in (i + 1)..(n + 1) : g[j] <=> h[j]
    BY <1>0, <1>4
  <2>3. TakesOne(s, g, i) <=> TakesOne(s, h, i)
    <3>1. \A l \in 1..4 : i + l - 1 <= Len(s) => (g[i + l] <=> h[i + l])
      BY <1>0, <2>1, <2>2
    <3>2. QED
      BY <3>1, Zenon DEF TakesOne
  <2>4. g[i] <=> h[i]
    BY <1>1, <1>2, <2>1, <2>3, ValidTakes, TextTakes, Zenon
  <2>5. \A j \in (n + 1 - (k + 1))..(n + 1) : g[j] <=> h[j]
    BY <1>0, <2>2, <2>4
  <2>6. QED
    BY <1>0, <2>5
<1> HIDE DEF S
<1>5. 0..n \subseteq S
  BY <1>0, <1>3, <1>4, Induction
<1>6. n \in S
  BY <1>0, <1>5
<1>7. g[1] <=> h[1]
  BY <1>0, <1>6 DEF S
<1>8. QED
  BY <1>1, <1>2, <1>7

-----------------------------------------------------------------------------
(* decodeRecord and what a payload says.                                   *)

(* A language code has at most 63 bytes.                                   *)
LEMMA LanguageIs ==
    \A n : n \in LanguageLengths <=> n \in Int /\ 0 <= n /\ n <= 63
BY DEF LanguageLengths

(* The status byte of a Text record: encoding, reserved bit and length.    *)
LEMMA StatusBits ==
    \A x \in Int : 0 <= x /\ x <= 255 =>
       /\ x <= 63 <=> (x \div 64) % 2 = 0 /\ ~(x \div 128 = 1)
       /\ 128 <= x /\ x <= 191 <=> (x \div 64) % 2 = 0 /\ x \div 128 = 1
       /\ x <= 63 => x % 64 = x
       /\ 128 <= x /\ x <= 191 => x % 64 = x - 128
       /\ x % 64 \in Int /\ 0 <= x % 64 /\ x % 64 <= 63
OBVIOUS

(* decodeRecord makes of the payload of a Text record what it says: the    *)
(* bounds of the language code, the reserved bit and the text are all      *)
(* checked.                                                                *)
LEMMA TextMeaning ==
    ASSUME Payload \in Seq(Byte)
    PROVE  TextMeanings(Payload) =
             IF ~TextOK THEN {}
             ELSE IF Utf16
             THEN {TheRecord("Unknown", <<LetterT>>, Payload, <<>>)}
             ELSE {TheRecord("Text", TextPlain, Payload, Text)}
<1> DEFINE q == Payload
           x == q[1]
           Kept(n) == SubSeq(q, n + 2, Len(q))
<1>0. Len(q) \in Nat
  OBVIOUS
<1>1. CASE q = <<>>
  <2>1. Len(q) = 0
    BY <1>1
  <2>2. TextMeanings(q) = {}
    <3>1. \A n \in LanguageLengths : ~(n < Len(q))
      BY <2>1, LanguageIs
    <3>2. QED
      BY <3>1 DEF TextMeanings
  <2>3. ~TextOK
    BY <1>1 DEF TextOK
  <2>4. QED
    BY <2>2, <2>3
<1>2. CASE q # <<>>
  <2>1. x \in Int /\ 0 <= x /\ x <= 255 /\ Len(q) >= 1
    BY <1>2, BytesAre
  <2>2. /\ LanguageLength = x % 64 /\ LanguageLength \in Int
        /\ 0 <= LanguageLength /\ LanguageLength <= 63
    <3>1. LanguageLength = x % 64
      BY DEF LanguageLength
    <3>2. QED
      BY <2>1, <3>1
  <2>3. Kept(x % 64) \in Seq(Byte) /\ Text = Kept(x % 64)
    <3>1. 2 + LanguageLength = (x % 64) + 2
      BY <2>2
    <3>2. Text = Kept(x % 64)
      BY <3>1 DEF Text
    <3>3. (x % 64) + 2 \in 1..(Len(q) + 1) \/ (x % 64) + 2 > Len(q)
      BY <2>1, <2>2, <1>0
    <3>4. QED
      BY <2>1, <2>2, <3>2, <1>0
  <2>4. IsValidUtf8(Text) <=> IsUtf8(Kept(x % 64))
    BY <2>3, Utf8Agree
  <2> HIDE DEF Kept
  <2>5. TextOK <=> /\ (x \div 64) % 2 = 0
                   /\ x % 64 < Len(q)
                   /\ ~(x \div 128 = 1) => IsUtf8(Kept(x % 64))
    BY <1>2, <1>0, <2>1, <2>2, <2>4 DEF TextOK, Utf16
  <2>6. TextMeanings(q) =
          {TheRecord("Text", TextPlain, q, Kept(n)) :
             n \in {n \in LanguageLengths : n < Len(q) /\ x = n /\ IsUtf8(Kept(n))}}
          \cup {TheRecord("Unknown", <<LetterT>>, q, <<>>) :
             n \in {n \in LanguageLengths : n < Len(q) /\ x = 128 + n}}
    BY DEF TextMeanings, Kept
  <2>7. Utf16 <=> x \div 128 = 1
    BY DEF Utf16
  <2> HIDE DEF q
  <2>8. CASE x <= 63
    <3>1. x % 64 = x /\ (x \div 64) % 2 = 0 /\ ~(x \div 128 = 1) /\ x \in LanguageLengths
      BY <2>1, <2>8, StatusBits, LanguageIs
    <3> HIDE DEF x
    <3>2. {n \in LanguageLengths : n < Len(q) /\ x = 128 + n} = {}
      BY <2>1, <2>8, LanguageIs
    <3>3. {n \in LanguageLengths : n < Len(q) /\ x = n /\ IsUtf8(Kept(n))} =
            IF TextOK THEN {x} ELSE {}
      <4>1. TextOK <=> x < Len(q) /\ IsUtf8(Kept(x))
        BY <2>5, <3>1, Zenon
      <4>2. QED
        BY <3>1, <4>1
    <3>4. Text = Kept(x) /\ ~Utf16
      BY <2>3, <2>7, <3>1
    <3>5. TextMeanings(q) = {TheRecord("Text", TextPlain, q, Kept(n)) :
                               n \in IF TextOK THEN {x} ELSE {}}
      BY <2>6, <3>2, <3>3
    <3>6. QED
      BY <3>4, <3>5 DEF q
  <2>9. CASE 128 <= x /\ x <= 191
    <3>1. /\ x % 64 = x - 128 /\ (x \div 64) % 2 = 0 /\ x \div 128 = 1
          /\ x - 128 \in LanguageLengths /\ 128 + (x - 128) = x
      BY <2>1, <2>9, StatusBits, LanguageIs
    <3>2. {n \in LanguageLengths : n < Len(q) /\ x = n /\ IsUtf8(Kept(n))} = {}
      BY <2>1, <2>9, LanguageIs
    <3>3. {n \in LanguageLengths : n < Len(q) /\ x = 128 + n} =
            IF TextOK THEN {x - 128} ELSE {}
      <4>1. TextOK <=> x - 128 < Len(q)
        BY <2>5, <3>1
      <4>2. \A n \in LanguageLengths : x = 128 + n <=> n = x - 128
        BY <2>1, LanguageIs
      <4>3. QED
        BY <2>1, <3>1, <4>1, <4>2
    <3>4. Utf16
      BY <2>7, <3>1
    <3>5. TextMeanings(q) = {TheRecord("Unknown", <<LetterT>>, q, <<>>) :
                               n \in IF TextOK THEN {x - 128} ELSE {}}
      BY <2>6, <3>2, <3>3
    <3>6. QED
      BY <3>4, <3>5 DEF q
  <2>10. CASE ~(x <= 63) /\ ~(128 <= x /\ x <= 191)
    <3>1. ~((x \div 64) % 2 = 0)
      BY <2>1, <2>10, StatusBits
    <3>2. {n \in LanguageLengths : n < Len(q) /\ x = n /\ IsUtf8(Kept(n))} = {}
      BY <2>1, <2>10, LanguageIs
    <3>3. {n \in LanguageLengths : n < Len(q) /\ x = 128 + n} = {}
      BY <2>1, <2>10, LanguageIs
    <3>4. QED
      BY <2>5, <2>6, <3>1, <3>2, <3>3 DEF q
  <2>11. QED
    BY <2>8, <2>9, <2>10
<1>3. QED
  BY <1>1, <1>2

(* decodeRecord makes of type and payload what they say.                   *)
LEMMA MeaningIs ==
    ASSUME Payload \in Seq(Byte)
    PROVE  Meanings(Tnf, Type, Payload) = IF Decodable THEN {Decoded} ELSE {}
<1>1. CASE IsText
  <2>1. Tnf = TnfWellKnown /\ Type = <<LetterT>>
    BY <1>1 DEF IsText
  <2>2. Meanings(Tnf, Type, Payload) = TextMeanings(Payload)
    BY <2>1, Zenon DEF Meanings
  <2>3. ~IsUri
    <3>1. <<LetterT>> # <<LetterU>>
      BY DEF LetterT, LetterU
    <3>2. QED
      BY <2>1, <3>1 DEF IsUri
  <2>4. Decodable <=> TextOK
    BY <1>1, <2>3 DEF Decodable
  <2>5. Decoded = IF ~Utf16 THEN TheRecord("Text", TextPlain, Payload, Text)
                  ELSE TheRecord("Unknown", <<LetterT>>, Payload, <<>>)
    <3>1. TnfWellKnown # TnfMime
      BY DEF TnfWellKnown, TnfMime
    <3>2. QED
      BY <1>1, <2>1, <2>3, <3>1, Zenon DEF Decoded
  <2>6. QED
    BY <2>2, <2>4, <2>5, TextMeaning
<1>2. CASE IsUri
  <2>1. Tnf = TnfWellKnown /\ Type = <<LetterU>> /\ ~IsText /\ <<LetterT>> # <<LetterU>>
    <3>1. <<LetterT>> # <<LetterU>>
      BY DEF LetterT, LetterU
    <3>2. QED
      BY <1>2, <3>1 DEF IsUri, IsText
  <2> DEFINE q == Payload
  <2>2. Meanings(Tnf, Type, q) = UriMeanings(q)
    BY <2>1, Zenon DEF Meanings
  <2>3. Decodable <=> q # <<>>
    BY <1>2, <2>1 DEF Decodable
  <2>4. Decoded = TheRecord("Uri", UriList, q, <<Prefix>> \o Tail(q))
    BY <1>2, <2>1, Zenon DEF Decoded
  <2>5. CASE q = <<>>
    <3>1. {q[i] : i \in {1} \cap DOMAIN q} = {}
      BY <2>5
    <3>2. UriMeanings(q) = {}
      BY <3>1 DEF UriMeanings
    <3>3. QED
      BY <2>2, <2>3, <2>5, <3>2
  <2>6. CASE q # <<>>
    <3> HIDE DEF q
    <3>1. q \in Seq(Byte)
      BY DEF q
    <3>2. {1} \cap DOMAIN q = {1}
      BY <2>6, <3>1
    <3>3. {q[i] : i \in {1} \cap DOMAIN q} = {q[1]}
      BY <3>2
    <3>4. SubSeq(q, 2, Len(q)) = Tail(q)
      BY <2>6, <3>1
    <3>5. Prefix = IF q[1] < UriPrefixes THEN q[1] ELSE NoPrefix
      BY DEF Prefix, q
    <3>6. UriMeanings(q) = {TheRecord("Uri", UriList, q, <<Prefix>> \o Tail(q))}
      BY <3>3, <3>4, <3>5 DEF UriMeanings
    <3>7. QED
      BY <2>2, <2>3, <2>4, <2>6, <3>6 DEF q
  <2>7. QED
    BY <2>5, <2>6
<1>3. CASE ~IsText /\ ~IsUri
  <2>1. Meanings(Tnf, Type, Payload) =
          {TheRecord(IF Tnf = TnfMime THEN "Mime" ELSE "Unknown", Type, Payload,
                     IF Tnf = TnfMime THEN Payload ELSE <<>>)}
    BY <1>3 DEF Meanings, IsText, IsUri
  <2>2. Decodable
    BY <1>3 DEF Decodable
  <2>3. Decoded = TheRecord(IF Tnf = TnfMime THEN "Mime" ELSE "Unknown", Type,
                            Payload, IF Tnf = TnfMime THEN Payload ELSE <<>>)
    BY <1>3 DEF Decoded
  <2>4. QED
    BY <2>1, <2>2, <2>3
<1>4. QED
  BY <1>1, <1>2, <1>3

-----------------------------------------------------------------------------
(* Records: what is written and joined, and what is read from a header.    *)

(* Four bytes, most significant first, are a length.                       *)
BigEndian(x, y, z, w) == ((x * 256 + y) * 256 + z) * 256 + w

DigitsOf(n, x, y, z, w) ==
    /\ x = n \div 16777216
    /\ y = (n \div 65536) % 256
    /\ z = (n \div 256) % 256
    /\ w = n % 256

(* Reading four bytes as a length undoes writing it in four bytes.         *)
LEMMA DigitsAre ==
    ASSUME NEW x \in Int, NEW y \in Int, NEW z \in Int, NEW w \in Int, NEW n \in Nat,
           0 <= x, 0 <= y, y <= 255, 0 <= z, z <= 255, 0 <= w, w <= 255
    PROVE  BigEndian(x, y, z, w) = n <=> DigitsOf(n, x, y, z, w)
<1> DEFINE a == n \div 256
           c == a \div 256
           d == c \div 256
<1>1. /\ a \in Nat /\ n = a * 256 + (n % 256)
      /\ n % 256 \in Int /\ 0 <= n % 256 /\ n % 256 <= 255
  BY SMT
<1>2. /\ c \in Nat /\ a = c * 256 + (a % 256)
      /\ a % 256 \in Int /\ 0 <= a % 256 /\ a % 256 <= 255
  BY <1>1, SMT
<1>3. /\ d \in Nat /\ c = d * 256 + (c % 256)
      /\ c % 256 \in Int /\ 0 <= c % 256 /\ c % 256 <= 255
  BY <1>2, SMT
<1>4. n \div 65536 = c /\ n \div 16777216 = d
  BY <1>1, <1>2, <1>3, SMT
<1>5. x = d /\ y = c % 256 /\ z = a % 256 /\ w = n % 256
        <=> BigEndian(x, y, z, w) = n
  <2> HIDE DEF a, c, d
  <2>1. QED
    BY <1>1, <1>2, <1>3, SMT DEF BigEndian
<1>6. QED
  BY <1>4, <1>5, SMT DEF DigitsOf

HeaderOf(f, l, short, hasId, n, k) ==
    (<<f, l>> \o LengthField(short, n)) \o (IF hasId THEN <<k>> ELSE <<>>)

(* What stands where in two sequences joined.                              *)
LEMMA ConcatIs ==
    \A s, t \in Seq(Int) :
       /\ s \o t \in Seq(Int) /\ Len(s \o t) = Len(s) + Len(t)
       /\ \A i \in 1..Len(s) : (s \o t)[i] = s[i]
       /\ \A i \in 1..Len(t) : (s \o t)[Len(s) + i] = t[i]
OBVIOUS

HeaderFields(h, f, l, short, hasId, n, k) ==
    /\ h \in Seq(Int)
    /\ Len(h) = (IF short THEN 3 ELSE 6) + (IF hasId THEN 1 ELSE 0)
    /\ h[1] = f /\ h[2] = l
    /\ short => h[3] = n
    /\ ~short => DigitsOf(n, h[3], h[4], h[5], h[6])
    /\ hasId => h[Len(h)] = k

(* Each field of a header that was written stands where it belongs.        *)
LEMMA HeaderIs ==
    ASSUME NEW f \in Int, NEW l \in Int, NEW n \in Nat, NEW k \in Int,
           NEW short \in BOOLEAN, NEW hasId \in BOOLEAN
    PROVE  HeaderFields(HeaderOf(f, l, short, hasId, n, k), f, l, short, hasId, n, k)
<1> DEFINE a == <<f, l>>
           c == LengthField(short, n)
           d == IF hasId THEN <<k>> ELSE <<>>
<1>1. a \in Seq(Int) /\ Len(a) = 2 /\ a[1] = f /\ a[2] = l
  OBVIOUS
<1>2. c \in Seq(Int) /\ Len(c) = IF short THEN 1 ELSE 4
  BY DEF LengthField
<1>3. /\ short => c[1] = n
      /\ ~short => DigitsOf(n, c[1], c[2], c[3], c[4])
  BY SMT DEF LengthField, DigitsOf
<1>4. d \in Seq(Int) /\ Len(d) = (IF hasId THEN 1 ELSE 0) /\ (hasId => d[1] = k)
  OBVIOUS
<1> HIDE DEF a, c, d
<1>5. /\ a \o c \in Seq(Int) /\ Len(a \o c) = 2 + Len(c)
      /\ (a \o c)[1] = f /\ (a \o c)[2] = l
      /\ \A i \in 1..Len(c) : (a \o c)[2 + i] = c[i]
  <2>1. /\ a \o c \in Seq(Int) /\ Len(a \o c) = Len(a) + Len(c)
        /\ \A i \in 1..Len(a) : (a \o c)[i] = a[i]
        /\ \A i \in 1..Len(c) : (a \o c)[Len(a) + i] = c[i]
    BY <1>1, <1>2, ConcatIs, Zenon
  <2>2. QED
    BY <1>1, <2>1
<1> DEFINE g == a \o c
           h == g \o d
<1> HIDE DEF g
<1>6. g \in Seq(Int) /\ Len(g) = (IF short THEN 3 ELSE 6) /\ g[1] = f /\ g[2] = l
  BY <1>2, <1>5 DEF g
<1>7. /\ short => g[3] = n
      /\ ~short => DigitsOf(n, g[3], g[4], g[5], g[6])
  <2>1. CASE short
    <3>1. g[2 + 1] = c[1]
      BY <1>2, <1>5, <2>1 DEF g
    <3>2. QED
      BY <1>3, <2>1, <3>1
  <2>2. CASE ~short
    <3>1. g[2 + 1] = c[1] /\ g[2 + 2] = c[2] /\ g[2 + 3] = c[3] /\ g[2 + 4] = c[4]
      <4>1. \A i \in 1..4 : g[2 + i] = c[i]
        BY <1>2, <1>5, <2>2 DEF g
      <4>2. QED
        BY <4>1
    <3>2. QED
      BY <1>3, <2>2, <3>1, SMT
  <2>3. QED
    BY <2>1, <2>2, SMT
<1>8. /\ h \in Seq(Int) /\ Len(h) = Len(g) + Len(d)
      /\ \A i \in 1..Len(g) : h[i] = g[i]
      /\ \A i \in 1..Len(d) : h[Len(g) + i] = d[i]
  BY <1>4, <1>6, ConcatIs, Zenon
<1>9. HeaderOf(f, l, short, hasId, n, k) = h
  BY DEF HeaderOf, h, g, a, c, d
<1> HIDE DEF h
<1>10. Len(h) = (IF short THEN 3 ELSE 6) + (IF hasId THEN 1 ELSE 0)
  BY <1>4, <1>6, <1>8
<1>11. h[1] = f /\ h[2] = l
  BY <1>6, <1>8
<1>12. short => h[3] = n
  BY <1>6, <1>7, <1>8, SMT
<1>13. ~short => /\ h[3] = g[3] /\ h[4] = g[4] /\ h[5] = g[5] /\ h[6] = g[6]
  BY <1>6, <1>8
<1>14. hasId => h[Len(h)] = k
  <2>1. hasId => h[Len(g) + 1] = k
    BY <1>4, <1>8
  <2>2. hasId => Len(h) = Len(g) + 1
    BY <1>4, <1>8
  <2>3. QED
    BY <2>1, <2>2
<1>15. ~short => DigitsOf(n, h[3], h[4], h[5], h[6])
  BY <1>7, <1>13
<1>16. QED
  BY <1>8, <1>9, <1>10, <1>11, <1>12, <1>14, <1>15 DEF HeaderFields

(* The first m elements of b, the first of them replaced by h.             *)
Over(h, b, m) == [i \in 1..m |-> IF i <= Len(h) THEN h[i] ELSE b[i]]

(* It is a sequence of m numbers.                                          *)
LEMMA OverIs ==
    ASSUME NEW b \in Seq(Int), NEW h \in Seq(Int), NEW m \in Nat,
           Len(h) <= m, m <= Len(b)
    PROVE  Over(h, b, m) \in Seq(Int) /\ Len(Over(h, b, m)) = m
<1>1. \A i \in 1..m : (IF i <= Len(h) THEN h[i] ELSE b[i]) \in Int
  BY Len(h) \in Nat
<1>2. QED
  BY <1>1 DEF Over

(* The next elements of b, behind it, make it longer.                      *)
LEMMA OverStep ==
    ASSUME NEW b \in Seq(Int), NEW h \in Seq(Int), NEW m \in Nat, NEW k \in Nat,
           Len(h) <= m, m <= k, k <= Len(b)
    PROVE  Over(h, b, m) \o SubSeq(b, m + 1, k) = Over(h, b, k)
<1> DEFINE s == Over(h, b, m)
           t == SubSeq(b, m + 1, k)
           e == s \o t
           o == Over(h, b, k)
<1>0. Len(h) \in Nat /\ Len(b) \in Nat
  OBVIOUS
<1>1. s \in Seq(Int) /\ Len(s) = m /\ \A i \in 1..m : s[i] = o[i]
  <2>1. \A i \in 1..m : s[i] = o[i]
    BY DEF Over
  <2>2. QED
    BY <2>1, OverIs
<1>2. t \in Seq(Int) /\ Len(t) = k - m /\ \A i \in 1..(k - m) : t[i] = b[m + i]
  BY <1>0
<1>3. o \in Seq(Int) /\ Len(o) = k
  BY <1>0, OverIs
<1>4. \A i \in (m + 1)..k : o[i] = b[i]
  BY <1>0 DEF Over
<1> HIDE DEF s, t, o
<1>5. e \in Seq(Int) /\ Len(e) = k
  <2>1. e \in Seq(Int) /\ Len(e) = Len(s) + Len(t)
    BY <1>1, <1>2, ConcatIs, Zenon
  <2>2. QED
    BY <1>1, <1>2, <2>1
<1>6. /\ \A i \in 1..m : e[i] = s[i]
      /\ \A i \in 1..(k - m) : e[m + i] = t[i]
  <2>1. Len(s) = m /\ Len(t) = k - m
    BY <1>1, <1>2
  <2>2. /\ \A i \in 1..Len(s) : e[i] = s[i]
        /\ \A i \in 1..Len(t) : e[Len(s) + i] = t[i]
    BY <1>1, <1>2, ConcatIs
  <2>3. QED
    BY <2>1, <2>2
<1>7. \A i \in 1..k : e[i] = o[i]
  <2>1. ASSUME NEW i \in 1..k, i <= m PROVE e[i] = o[i]
    BY <1>1, <1>6, <2>1
  <2>2. ASSUME NEW i \in 1..k, ~(i <= m) PROVE e[i] = o[i]
    <3>1. i - m \in 1..(k - m) /\ m + (i - m) = i /\ i \in (m + 1)..k
      BY <2>2
    <3>2. t[i - m] = b[i]
      BY <1>2, <3>1
    <3>3. e[i] = t[i - m]
      BY <1>6, <3>1
    <3>4. QED
      BY <1>4, <3>1, <3>2, <3>3
  <2>3. QED
    BY <2>1, <2>2
<1> HIDE DEF e
<1>8. e = o
  BY <1>3, <1>5, <1>7, SeqEqual
<1>9. QED
  BY <1>8 DEF e, o, s, t

(* A header, the type behind it up to u, what follows it and the payload   *)
(* from p on.                                                              *)
Glued(b, h, u, y, p) ==
    ((h \o SubSeq(b, Len(h) + 1, u - 1)) \o y) \o SubSeq(b, p, Len(b))

StartsWith(b, h) == \A i \in 1..Len(h) : b[i] = h[i]

(* What is cut in three behind a header and joined again is b, if b starts *)
(* with that header.                                                       *)
LEMMA Joined ==
    ASSUME NEW b \in Seq(Int), NEW h \in Seq(Int), NEW u \in Int, NEW p \in Int,
           Len(h) + 1 <= u, u <= p, p <= Len(b) + 1
    PROVE  b = Glued(b, h, u, SubSeq(b, u, p - 1), p) <=> StartsWith(b, h)
<1> DEFINE l == Len(h)
           n == Len(b)
<1>0. l \in Nat /\ n \in Nat /\ u - 1 \in Nat /\ p - 1 \in Nat
  OBVIOUS
<1>1. h = Over(h, b, l)
  <2>1. Over(h, b, l) \in Seq(Int) /\ Len(Over(h, b, l)) = l
    BY <1>0, OverIs
  <2>2. \A i \in 1..l : Over(h, b, l)[i] = h[i]
    BY DEF Over
  <2>3. QED
    BY <2>1, <2>2, SeqEqual
<1>o. \A m, k \in Nat : l <= m /\ m <= k /\ k <= n =>
         Over(h, b, m) \o SubSeq(b, m + 1, k) = Over(h, b, k)
  BY OverStep
<1>a. /\ l <= u - 1 /\ u - 1 <= p - 1 /\ p - 1 <= n
      /\ (u - 1) + 1 = u /\ (p - 1) + 1 = p
  BY <1>0
<1>2. h \o SubSeq(b, l + 1, u - 1) = Over(h, b, u - 1)
  <2>1. l <= l /\ u - 1 <= n
    BY <1>0, <1>a
  <2>2. Over(h, b, l) \o SubSeq(b, l + 1, u - 1) = Over(h, b, u - 1)
    BY <1>0, <1>o, <1>a, <2>1, Zenon
  <2>3. QED
    BY <1>1, <2>2, Zenon
<1>3. Over(h, b, u - 1) \o SubSeq(b, u, p - 1) = Over(h, b, p - 1)
  BY <1>0, <1>o, <1>a, Zenon
<1>4. Over(h, b, p - 1) \o SubSeq(b, p, n) = Over(h, b, n)
  <2>1. l <= p - 1 /\ n <= n
    BY <1>0, <1>a
  <2>2. QED
    BY <1>0, <1>o, <1>a, <2>1, Zenon
<1>5. b = Over(h, b, n) <=> \A i \in 1..l : b[i] = h[i]
  <2>1. Over(h, b, n) \in Seq(Int) /\ Len(Over(h, b, n)) = n
    BY <1>0, OverIs
  <2>2. \A i \in 1..n : Over(h, b, n)[i] = IF i <= l THEN h[i] ELSE b[i]
    BY DEF Over
  <2>3. b = Over(h, b, n) <=> \A i \in 1..n : b[i] = Over(h, b, n)[i]
    BY <2>1, SeqEqual
  <2>4. 1..l \subseteq 1..n /\ \A i \in 1..n : i <= l <=> i \in 1..l
    BY <1>0, <1>a
  <2>5. QED
    BY <2>2, <2>3, <2>4, Zenon
<1>6. QED
  BY <1>2, <1>3, <1>4, <1>5 DEF Glued, StartsWith

(* The same when there is no id: then nothing may be between type and      *)
(* payload.                                                                *)
LEMMA Assembled ==
    ASSUME NEW b \in Seq(Int), NEW h \in Seq(Int), NEW u \in Int, NEW p \in Int,
           Len(h) + 1 <= u, u <= p, p <= Len(b) + 1, NEW hasId \in BOOLEAN
    PROVE  b = Glued(b, h, u, IF hasId THEN SubSeq(b, u, p - 1) ELSE <<>>, p)
             <=> StartsWith(b, h) /\ (hasId \/ p = u)
<1>0. b = Glued(b, h, u, SubSeq(b, u, p - 1), p) <=> StartsWith(b, h)
  BY Joined
<1>1. CASE hasId
  BY <1>0, <1>1
<1>2. CASE ~hasId /\ p = u
  <2>1. p - 1 < u
    BY <1>2
  <2>2. SubSeq(b, u, p - 1) = <<>>
    BY <2>1, SubSeqEmpty
  <2>3. QED
    BY <1>0, <1>2, <2>2
<1>3. CASE ~hasId /\ p # u
  <2> DEFINE x == SubSeq(b, Len(h) + 1, u - 1)
             z == SubSeq(b, p, Len(b))
             e == ((h \o x) \o <<>>) \o z
  <2>0. Len(h) \in Nat /\ Len(b) \in Nat
    OBVIOUS
  <2>1. x \in Seq(Int) /\ Len(x) = u - 1 - Len(h)
    BY <2>0
  <2>2. z \in Seq(Int) /\ Len(z) = Len(b) + 1 - p
    BY <2>0
  <2> HIDE DEF x, z
  <2>3. h \o x \in Seq(Int) /\ Len(h \o x) = u - 1
    BY <2>0, <2>1
  <2>4. (h \o x) \o <<>> = h \o x
    BY <2>3, ConcatEmptySeq
  <2> DEFINE g == h \o x
  <2> HIDE DEF g
  <2>5. Len(g \o z) = (u - 1) + (Len(b) + 1 - p)
    <3>1. g \in Seq(Int) /\ Len(g) = u - 1
      BY <2>3 DEF g
    <3>2. Len(g \o z) = Len(g) + Len(z)
      BY <2>2, <3>1, ConcatProperties
    <3>3. QED
      BY <2>2, <3>1, <3>2
  <2>6. e = g \o z
    BY <2>4 DEF g
  <2>7. b # e
    BY <1>3, <2>0, <2>5, <2>6
  <2>8. e = Glued(b, h, u, <<>>, p)
    BY DEF Glued, x, z
  <2>9. QED
    BY <1>3, <2>7, <2>8
<1>4. QED
  BY <1>1, <1>2, <1>3

(* Type, id and payload, when the type has q bytes from t on.              *)
TypePart(b, t, q)  == SubSeq(b, t, t + q - 1)
IdPart(b, t, q, p) == SubSeq(b, t + q, p - 1)
Rest(b, p)         == SubSeq(b, p, Len(b))

GluedParts(b, h, t, q, p, hasId) ==
    ((h \o TypePart(b, t, q)) \o (IF hasId THEN IdPart(b, t, q, p) ELSE <<>>))
       \o Rest(b, p)

PartsFit(b, t, q, p) ==
    /\ b \in Seq(Int) /\ t \in Int /\ t >= 1 /\ q \in Nat /\ p \in Int
    /\ t + q <= p /\ p <= Len(b) + 1

(* The same for type, id and payload.                                      *)
LEMMA GluedIs ==
    ASSUME NEW b, NEW t, NEW q, NEW p, PartsFit(b, t, q, p),
           NEW h \in Seq(Int), t = Len(h) + 1, NEW hasId \in BOOLEAN
    PROVE  b = GluedParts(b, h, t, q, p, hasId)
             <=> StartsWith(b, h) /\ (hasId \/ p = t + q)
<1> USE DEF PartsFit
<1>1. PICK u : u = t + q
  OBVIOUS
<1>2. u \in Int /\ Len(h) + 1 <= u /\ u <= p
  BY <1>1
<1>3. b = Glued(b, h, u, IF hasId THEN SubSeq(b, u, p - 1) ELSE <<>>, p)
             <=> StartsWith(b, h) /\ (hasId \/ p = u)
  BY <1>2, Assembled
<1>4. TypePart(b, t, q) = SubSeq(b, Len(h) + 1, u - 1)
  BY <1>1 DEF TypePart
<1>5. IdPart(b, t, q, p) = SubSeq(b, u, p - 1)
  BY <1>1 DEF IdPart
<1>6. GluedParts(b, h, t, q, p, hasId)
        = Glued(b, h, u, IF hasId THEN SubSeq(b, u, p - 1) ELSE <<>>, p)
  BY <1>4, <1>5 DEF Glued, GluedParts, Rest
<1>7. QED
  BY <1>1, <1>3, <1>6

PartsMeasure(b, t, q, p) ==
    /\ Len(TypePart(b, t, q)) = q
    /\ Len(IdPart(b, t, q, p)) = p - t - q
    /\ Len(Rest(b, p)) = Len(b) + 1 - p

(* How long the parts are.                                                 *)
LEMMA PartLengths ==
    ASSUME NEW b, NEW t, NEW q, NEW p, PartsFit(b, t, q, p)
    PROVE  PartsMeasure(b, t, q, p)
<1> USE DEF PartsFit
<1>0. Len(b) \in Nat
  OBVIOUS
<1>1. Len(TypePart(b, t, q)) = q
  BY <1>0 DEF TypePart
<1>2. Len(IdPart(b, t, q, p)) = p - t - q
  BY <1>0 DEF IdPart
<1>3. Len(Rest(b, p)) = Len(b) + 1 - p
  BY <1>0 DEF Rest
<1>4. QED
  BY <1>1, <1>2, <1>3 DEF PartsMeasure

(* The flags of a header byte, and the bits below them.                    *)
LEMMA FlagBits ==
    ASSUME NEW x \in Int, 0 <= x, x <= 255,
           NEW mb \in 0..1, NEW me \in 0..1, NEW sr \in 0..1, NEW il \in 0..1
    PROVE  x = 128 * mb + 64 * me + 16 * sr + 8 * il + (x % 8)
             <=> /\ (x \div 128) % 2 = mb /\ (x \div 64) % 2 = me
                 /\ (x \div 32) % 2 = 0
                 /\ (x \div 16) % 2 = sr /\ (x \div 8) % 2 = il
<1>1. x \div 128 \in 0..1 /\ (x \div 128) % 2 = x \div 128
  BY SMT
<1>2. /\ x \div 64 = 2 * (x \div 128) + ((x \div 64) % 2)
      /\ x \div 32 = 2 * (x \div 64) + ((x \div 32) % 2)
      /\ x \div 16 = 2 * (x \div 32) + ((x \div 16) % 2)
      /\ x \div 8 = 2 * (x \div 16) + ((x \div 8) % 2)
      /\ x = 8 * (x \div 8) + (x % 8)
  BY SMT
<1>3. /\ (x \div 64) % 2 \in 0..1 /\ (x \div 32) % 2 \in 0..1
      /\ (x \div 16) % 2 \in 0..1 /\ (x \div 8) % 2 \in 0..1
      /\ x \div 128 \in Int /\ x \div 64 \in Int /\ x \div 32 \in Int
      /\ x \div 16 \in Int /\ x \div 8 \in Int /\ x % 8 \in Int
  BY SMT
<1> DEFINE a == x \div 128
           b == (x \div 64) % 2
           c == (x \div 32) % 2
           d == (x \div 16) % 2
           e == (x \div 8) % 2
<1>4. x = 128 * a + 64 * b + 32 * c + 16 * d + 8 * e + (x % 8)
  BY <1>2, <1>3, SMT
<1>5. a \in 0..1 /\ b \in 0..1 /\ c \in 0..1 /\ d \in 0..1 /\ e \in 0..1
  BY <1>1, <1>3
<1> HIDE DEF a, b, c, d, e
<1>6. x = 128 * mb + 64 * me + 16 * sr + 8 * il + (x % 8)
        <=> a = mb /\ b = me /\ c = 0 /\ d = sr /\ e = il
  BY <1>3, <1>4, <1>5, SMT
<1>7. QED
  BY <1>1, <1>6 DEF a, b, c, d, e

(* Where the type starts, behind a header with these flags.                *)
HeadLength(short, hasId) == (IF short THEN 3 ELSE 6) + (IF hasId THEN 1 ELSE 0)

FirstByte(first, last, short, hasId, tnf) ==
    Bit(first, 128) + Bit(last, 64) + Bit(short, 16) + Bit(hasId, 8) + tnf

(* Bytes are numbers.                                                      *)
LEMMA BytesInt == Seq(Byte) \subseteq Seq(Int)
<1>1. Byte \subseteq Int
  BY ByteIs
<1>2. QED
  BY <1>1, SeqMonotonic

(* A length in four bytes of b, read as BigEndian.                         *)
LEMMA DigitsAt ==
    ASSUME NEW b \in Seq(Byte), 6 <= Len(b), NEW n \in Nat
    PROVE  BigEndian(b[3], b[4], b[5], b[6]) = n
             <=> DigitsOf(n, b[3], b[4], b[5], b[6])
<1>1. PICK x, y, z, w : x = b[3] /\ y = b[4] /\ z = b[5] /\ w = b[6]
  OBVIOUS
<1>2. 3 \in 1..Len(b) /\ 4 \in 1..Len(b) /\ 5 \in 1..Len(b) /\ 6 \in 1..Len(b)
  OBVIOUS
<1>3. /\ x \in Int /\ 0 <= x /\ y \in Int /\ 0 <= y /\ y <= 255
      /\ z \in Int /\ 0 <= z /\ z <= 255 /\ w \in Int /\ 0 <= w /\ w <= 255
  BY <1>1, <1>2, BytesAre
<1>4. BigEndian(x, y, z, w) = n <=> DigitsOf(n, x, y, z, w)
  BY <1>3, DigitsAre
<1>5. QED
  BY <1>1, <1>4

HeaderAt(b, f, short, hasId, n, k) ==
    /\ b[1] = f
    /\ IF short THEN b[3] = n ELSE BigEndian(b[3], b[4], b[5], b[6]) = n
    /\ hasId => b[HeadLength(short, hasId)] = k

(* A sequence starts with a header that was written, exactly if its bytes  *)
(* have the values of its fields.                                          *)
LEMMA HeaderMatches ==
    ASSUME NEW b \in Seq(Byte), NEW short \in BOOLEAN, NEW hasId \in BOOLEAN,
           NEW f \in Int, NEW n \in Nat, NEW k \in Int,
           HeadLength(short, hasId) <= Len(b), NEW h,
           HeaderFields(h, f, b[2], short, hasId, n, k)
    PROVE  /\ h \in Seq(Int) /\ Len(h) = HeadLength(short, hasId)
           /\ StartsWith(b, h) <=> HeaderAt(b, f, short, hasId, n, k)
<1> DEFINE m == HeadLength(short, hasId)
<1>0. Len(b) \in Nat /\ m \in Nat /\ 3 <= m /\ m <= 7 /\ (~short => 6 <= m)
  BY DEF HeadLength
<1>1. \A i \in 1..m : b[i] \in Int /\ 0 <= b[i] /\ b[i] <= 255
  BY <1>0, BytesAre
<1>3. /\ h \in Seq(Int) /\ Len(h) = m /\ h[1] = f /\ h[2] = b[2]
      /\ short => h[3] = n
      /\ ~short => DigitsOf(n, h[3], h[4], h[5], h[6])
      /\ hasId => h[m] = k
  BY DEF HeadLength, HeaderFields
<1>4. ~short => (BigEndian(b[3], b[4], b[5], b[6]) = n
                   <=> DigitsOf(n, b[3], b[4], b[5], b[6]))
  BY <1>0, DigitsAt
<1>5. CASE short
  <2>1. m = IF hasId THEN 4 ELSE 3
    BY <1>5 DEF HeadLength
  <2>2. (\A i \in 1..m : b[i] = h[i]) <=>
          b[1] = h[1] /\ b[2] = h[2] /\ b[3] = h[3] /\ (hasId => b[4] = h[4])
    <3>1. CASE hasId
      <4>1. (\A i \in 1..4 : b[i] = h[i]) <=>
              b[1] = h[1] /\ b[2] = h[2] /\ b[3] = h[3] /\ b[4] = h[4]
        OBVIOUS
      <4>2. QED
        BY <2>1, <3>1, <4>1
    <3>2. CASE ~hasId
      <4>1. (\A i \in 1..3 : b[i] = h[i]) <=>
              b[1] = h[1] /\ b[2] = h[2] /\ b[3] = h[3]
        OBVIOUS
      <4>2. QED
        BY <2>1, <3>2, <4>1
    <3>3. QED
      BY <3>1, <3>2
  <2>3. hasId => m = 4
    BY <2>1
  <2> HIDE DEF m
  <2>4. (\A i \in 1..Len(h) : b[i] = h[i]) <=>
          (b[1] = f /\ b[3] = n /\ (hasId => b[m] = k))
    BY <1>3, <1>5, <2>2, <2>3
  <2>5. HeaderAt(b, f, short, hasId, n, k) <=>
          (b[1] = f /\ b[3] = n /\ (hasId => b[m] = k))
    BY <1>5 DEF HeaderAt, m
  <2>6. QED
    BY <1>3, <2>4, <2>5 DEF m, StartsWith
<1>6. CASE ~short
  <2>1. m = IF hasId THEN 7 ELSE 6
    BY <1>6 DEF HeadLength
  <2>2. (\A i \in 1..m : b[i] = h[i]) <=>
          /\ b[1] = h[1] /\ b[2] = h[2]
          /\ b[3] = h[3] /\ b[4] = h[4] /\ b[5] = h[5] /\ b[6] = h[6]
          /\ (hasId => b[7] = h[7])
    <3>1. CASE hasId
      <4>1. (\A i \in 1..7 : b[i] = h[i]) <=>
              /\ b[1] = h[1] /\ b[2] = h[2] /\ b[3] = h[3] /\ b[4] = h[4]
              /\ b[5] = h[5] /\ b[6] = h[6] /\ b[7] = h[7]
        OBVIOUS
      <4>2. QED
        BY <2>1, <3>1, <4>1
    <3>2. CASE ~hasId
      <4>1. (\A i \in 1..6 : b[i] = h[i]) <=>
              /\ b[1] = h[1] /\ b[2] = h[2] /\ b[3] = h[3] /\ b[4] = h[4]
              /\ b[5] = h[5] /\ b[6] = h[6]
        OBVIOUS
      <4>2. QED
        BY <2>1, <3>2, <4>1
    <3>3. QED
      BY <3>1, <3>2
  <2>3. hasId => m = 7
    BY <2>1
  <2>4. b[3] = h[3] /\ b[4] = h[4] /\ b[5] = h[5] /\ b[6] = h[6]
          <=> DigitsOf(n, b[3], b[4], b[5], b[6])
    BY <1>3, <1>6, SMT DEF DigitsOf
  <2> HIDE DEF m
  <2>5. (\A i \in 1..Len(h) : b[i] = h[i]) <=>
          (/\ b[1] = f /\ BigEndian(b[3], b[4], b[5], b[6]) = n
           /\ (hasId => b[m] = k))
    BY <1>3, <1>4, <1>6, <2>2, <2>3, <2>4
  <2>6. HeaderAt(b, f, short, hasId, n, k) <=>
          (/\ b[1] = f /\ BigEndian(b[3], b[4], b[5], b[6]) = n
           /\ (hasId => b[m] = k))
    BY <1>6 DEF HeaderAt, m
  <2>7. QED
    BY <1>3, <2>5, <2>6 DEF m, StartsWith
<1>7. QED
  BY <1>5, <1>6

(* A header of this form fits in front of the parts.                       *)
HeadFits(b, short, hasId, p, t, q) ==
    /\ b \in Seq(Byte) /\ short \in BOOLEAN /\ hasId \in BOOLEAN
    /\ p \in Int /\ t \in Int /\ t = HeadLength(short, hasId) + 1
    /\ q \in Nat /\ b[2] = q /\ t + q <= p /\ p <= Len(b) + 1

EncodedBy(b, short, hasId, p, t, q, first, last, tnf) ==
    b = Encoding(first, last, short, hasId, tnf, TypePart(b, t, q),
                 IdPart(b, t, q, p), Rest(b, p))
      <=> /\ HeaderAt(b, FirstByte(first, last, short, hasId, tnf), short,
                      hasId, Len(b) + 1 - p, p - t - q)
          /\ hasId \/ p = t + q

(* Bytes are an encoding of these parts, exactly if header and lengths say *)
(* so.                                                                     *)
LEMMA EncodesIs ==
    ASSUME NEW b, NEW short, NEW hasId, NEW p, NEW t, NEW q,
           HeadFits(b, short, hasId, p, t, q),
           NEW first \in BOOLEAN, NEW last \in BOOLEAN, NEW tnf \in Int
    PROVE  EncodedBy(b, short, hasId, p, t, q, first, last, tnf)
<1>0. /\ b \in Seq(Byte) /\ short \in BOOLEAN /\ hasId \in BOOLEAN
      /\ p \in Int /\ t \in Int /\ t = HeadLength(short, hasId) + 1
      /\ q \in Nat /\ b[2] = q /\ t + q <= p /\ p <= Len(b) + 1
  BY DEF HeadFits
<1>f. PICK f : f = FirstByte(first, last, short, hasId, tnf)
  OBVIOUS
<1>1. PICK n : n = Len(b) + 1 - p
  OBVIOUS
<1>2. PICK k : k = p - t - q
  OBVIOUS
<1>3. /\ Len(b) \in Nat /\ n \in Nat /\ k \in Int /\ b \in Seq(Int)
      /\ t >= 1 /\ HeadLength(short, hasId) <= Len(b) /\ q \in Int
  BY <1>0, <1>1, <1>2, BytesInt DEF HeadLength
<1>4. f \in Int
  BY <1>0, <1>f DEF FirstByte, Bit
<1>5. PICK h : h = HeaderOf(f, q, short, hasId, n, k)
  OBVIOUS
<1>6. HeaderFields(h, f, q, short, hasId, n, k)
  BY <1>0, <1>3, <1>4, <1>5, HeaderIs
<1>7. /\ h \in Seq(Int) /\ Len(h) = HeadLength(short, hasId)
      /\ StartsWith(b, h) <=> HeaderAt(b, f, short, hasId, n, k)
  <2>1. HeaderFields(h, f, b[2], short, hasId, n, k)
    BY <1>0, <1>6, Zenon
  <2>2. QED
    BY <1>0, <1>3, <1>4, <2>1, HeaderMatches, Zenon
<1>8. t = Len(h) + 1
  BY <1>0, <1>7, Zenon
<1>p. PartsFit(b, t, q, p)
  BY <1>0, <1>3 DEF PartsFit
<1>9. b = GluedParts(b, h, t, q, p, hasId) <=> StartsWith(b, h) /\ (hasId \/ p = t + q)
  <2>1. hasId \in BOOLEAN /\ h \in Seq(Int)
    BY <1>0, <1>7, Zenon
  <2>2. QED
    BY <1>p, <1>8, <2>1, GluedIs
<1>10. /\ Len(TypePart(b, t, q)) = q
       /\ Len(IdPart(b, t, q, p)) = k
       /\ Len(Rest(b, p)) = n
  <2>1. /\ Len(TypePart(b, t, q)) = q
        /\ Len(IdPart(b, t, q, p)) = p - t - q
        /\ Len(Rest(b, p)) = Len(b) + 1 - p
    <3>1. PartsMeasure(b, t, q, p)
      BY <1>p, PartLengths, Zenon
    <3>2. QED
      BY <3>1, Zenon DEF PartsMeasure
  <2>2. QED
    BY <1>1, <1>2, <2>1, Zenon
<1>11. Encoding(first, last, short, hasId, tnf, TypePart(b, t, q),
                IdPart(b, t, q, p), Rest(b, p))
         = GluedParts(b, h, t, q, p, hasId)
  <2>1. PICK x, y, z : x = TypePart(b, t, q) /\ y = IdPart(b, t, q, p) /\ z = Rest(b, p)
    OBVIOUS
  <2>2. Encoding(first, last, short, hasId, tnf, x, y, z) =
             ((HeaderOf(f, Len(x), short, hasId, Len(z), Len(y)) \o x)
                \o (IF hasId THEN y ELSE <<>>)) \o z
    BY <1>f DEF Encoding, HeaderOf, FirstByte
  <2>3. Len(x) = q /\ Len(y) = k /\ Len(z) = n
    BY <1>10, <2>1, Zenon
  <2>4. QED
    BY <1>5, <2>1, <2>2, <2>3, Zenon DEF GluedParts
<1>12. QED
  BY <1>f, <1>1, <1>2, <1>7, <1>9, <1>11, Zenon DEF EncodedBy

(* The header of a record, as its bytes say it.                            *)
IsShort(b)   == (b[1] \div 16) % 2 = 1
HasId(b)     == (b[1] \div 8) % 2 = 1
StartOf(b)   == TypeStart(IsShort(b), HasId(b))
IdSize(b)    == IF HasId(b) THEN b[StartOf(b) - 1] ELSE 0
PayloadSize(b) == IF IsShort(b) THEN b[3] ELSE BigEndian(b[3], b[4], b[5], b[6])
PayloadOf(b) == StartOf(b) + b[2] + IdSize(b)

Marked(b, first, last) ==
    /\ (b[1] \div 128) % 2 = Bit(first, 1) /\ (b[1] \div 64) % 2 = Bit(last, 1)
    /\ (b[1] \div 32) % 2 = 0

(* The bytes b are one record, from end to end.                            *)
Filled(b) ==
    /\ StartOf(b) <= Len(b) + 1
    /\ PayloadOf(b) + PayloadSize(b) = Len(b) + 1

(* The type starts at one of five places.                                  *)
LEMMA StartIs ==
    ASSUME NEW short, NEW hasId
    PROVE  /\ TypeStart(short, hasId) = HeadLength(short, hasId) + 1
           /\ TypeStart(short, hasId) \in 4..8
           /\ ~short => TypeStart(short, hasId) \in 7..8
           /\ hasId => TypeStart(short, hasId) \in 5..8
BY DEF TypeStart, HeadLength, Bit

(* A byte is put together from five flags and three bits, if its bits are  *)
(* these flags.                                                            *)
LEMMA FirstIs ==
    ASSUME NEW x \in Int, 0 <= x, x <= 255, NEW first \in BOOLEAN, NEW last \in BOOLEAN,
           NEW short \in BOOLEAN, NEW hasId \in BOOLEAN
    PROVE  x = FirstByte(first, last, short, hasId, x % 8)
             <=> /\ (x \div 128) % 2 = Bit(first, 1) /\ (x \div 64) % 2 = Bit(last, 1)
                 /\ (x \div 32) % 2 = 0
                 /\ (x \div 16) % 2 = Bit(short, 1) /\ (x \div 8) % 2 = Bit(hasId, 1)
<1>1. /\ Bit(first, 1) \in 0..1 /\ Bit(first, 128) = 128 * Bit(first, 1)
      /\ Bit(last, 1) \in 0..1 /\ Bit(last, 64) = 64 * Bit(last, 1)
      /\ Bit(short, 1) \in 0..1 /\ Bit(short, 16) = 16 * Bit(short, 1)
      /\ Bit(hasId, 1) \in 0..1 /\ Bit(hasId, 8) = 8 * Bit(hasId, 1)
  BY DEF Bit
<1>2. PICK mb, me, sr, il : /\ mb = Bit(first, 1) /\ me = Bit(last, 1)
                            /\ sr = Bit(short, 1) /\ il = Bit(hasId, 1)
  OBVIOUS
<1>3. x = 128 * mb + 64 * me + 16 * sr + 8 * il + (x % 8)
             <=> /\ (x \div 128) % 2 = mb /\ (x \div 64) % 2 = me
                 /\ (x \div 32) % 2 = 0
                 /\ (x \div 16) % 2 = sr /\ (x \div 8) % 2 = il
  <2>1. mb \in 0..1 /\ me \in 0..1 /\ sr \in 0..1 /\ il \in 0..1
    BY <1>1, <1>2
  <2>2. QED
    BY <2>1, FlagBits
<1>4. FirstByte(first, last, short, hasId, x % 8)
        = 128 * mb + 64 * me + 16 * sr + 8 * il + (x % 8)
  BY <1>1, <1>2 DEF FirstByte
<1>5. QED
  BY <1>2, <1>3, <1>4

(* The first byte of a record says what was written, if its bits do.       *)
LEMMA FlagsIs ==
    ASSUME NEW b \in Seq(Byte), Len(b) >= 1, NEW first \in BOOLEAN, NEW last \in BOOLEAN,
           NEW short \in BOOLEAN, NEW hasId \in BOOLEAN
    PROVE  b[1] = FirstByte(first, last, short, hasId, b[1] % 8)
             <=> /\ Marked(b, first, last)
                 /\ short = IsShort(b) /\ hasId = HasId(b)
<1>1. PICK x : x = b[1]
  OBVIOUS
<1>2. x \in Int /\ 0 <= x /\ x <= 255
  BY <1>1, BytesAre
<1>3. x = FirstByte(first, last, short, hasId, x % 8)
             <=> /\ (x \div 128) % 2 = Bit(first, 1) /\ (x \div 64) % 2 = Bit(last, 1)
                 /\ (x \div 32) % 2 = 0
                 /\ (x \div 16) % 2 = Bit(short, 1) /\ (x \div 8) % 2 = Bit(hasId, 1)
  BY <1>2, FirstIs
<1>4. (x \div 16) % 2 \in 0..1 /\ (x \div 8) % 2 \in 0..1
  BY <1>2
<1>5. (x \div 16) % 2 = Bit(short, 1) <=> (short <=> (x \div 16) % 2 = 1)
  BY <1>4 DEF Bit
<1>6. (x \div 8) % 2 = Bit(hasId, 1) <=> (hasId <=> (x \div 8) % 2 = 1)
  BY <1>4 DEF Bit
<1>7. QED
  BY <1>1, <1>3, <1>5, <1>6 DEF Marked, IsShort, HasId

(* Its top two bits are the marks for first and last.                      *)
LEMMA MarkedTop ==
    ASSUME NEW b \in Seq(Byte), Len(b) >= 1, NEW first \in BOOLEAN, NEW last \in BOOLEAN,
           Marked(b, first, last)
    PROVE  b[1] \div 64 = Bit(first, 2) + Bit(last, 1)
<1>1. PICK x : x = b[1]
  OBVIOUS
<1>2. x \in Int /\ 0 <= x /\ x <= 255
  BY <1>1, BytesAre
<1>3. x \div 64 = 2 * ((x \div 128) % 2) + ((x \div 64) % 2)
  BY <1>2, SMT
<1>4. (x \div 128) % 2 = Bit(first, 1) /\ (x \div 64) % 2 = Bit(last, 1)
  BY <1>1 DEF Marked
<1>5. QED
  BY <1>1, <1>3, <1>4 DEF Bit

(* The fields of a header with the flags of b are those of b.              *)
LEMMA HeadIs ==
    ASSUME NEW b \in Seq(Byte), NEW short \in BOOLEAN, NEW hasId \in BOOLEAN,
           short = IsShort(b), hasId = HasId(b), NEW n, NEW k, NEW f
    PROVE  HeaderAt(b, f, short, hasId, n, k) <=>
             b[1] = f /\ PayloadSize(b) = n /\ (hasId => IdSize(b) = k)
<1>1. TypeStart(short, hasId) - 1 = HeadLength(short, hasId)
  BY DEF TypeStart, HeadLength, Bit
<1>2. hasId => IdSize(b) = b[HeadLength(short, hasId)]
  BY <1>1 DEF IdSize, StartOf
<1>3. PayloadSize(b) = IF short THEN b[3] ELSE BigEndian(b[3], b[4], b[5], b[6])
  BY DEF PayloadSize
<1>4. QED
  BY <1>2, <1>3 DEF HeaderAt

(* The parts of a record agree, when its payload starts at p.              *)
AgreeAt(b, p) ==
    PartsAgree(b[1] % 8, TypeIn(b, StartOf(b)), IdIn(b, StartOf(b), p), PayloadIn(b, p))

(* Lengths are numbers.                                                    *)
LEMMA SizesAre ==
    ASSUME NEW b \in Seq(Byte), StartOf(b) <= Len(b) + 1
    PROVE  /\ b[2] \in Nat /\ IdSize(b) \in Nat /\ StartOf(b) \in 4..8
           /\ b[1] \in Int /\ 0 <= b[1] /\ b[1] <= 255 /\ b[1] % 8 \in Int
           /\ PayloadSize(b) \in Nat
<1>1. StartOf(b) \in 4..8 /\ (~IsShort(b) => StartOf(b) >= 7)
  BY StartIs DEF StartOf
<1>2. 1 \in 1..Len(b) /\ 2 \in 1..Len(b) /\ StartOf(b) - 1 \in 1..Len(b) /\ 3 \in 1..Len(b)
  BY <1>1
<1>3. /\ b[2] \in Nat /\ b[StartOf(b) - 1] \in Nat /\ b[3] \in Nat
      /\ b[1] \in Int /\ 0 <= b[1] /\ b[1] <= 255
  BY <1>2, BytesAre
<1>4. IdSize(b) \in Nat
  BY <1>3 DEF IdSize
<1>5. PayloadSize(b) \in Nat
  <2>1. CASE IsShort(b)
    BY <1>3, <2>1 DEF PayloadSize
  <2>2. CASE ~IsShort(b)
    <3>1. 4 \in 1..Len(b) /\ 5 \in 1..Len(b) /\ 6 \in 1..Len(b)
      BY <1>1, <2>2
    <3>2. b[4] \in Nat /\ b[5] \in Nat /\ b[6] \in Nat
      BY <3>1, BytesAre
    <3>3. BigEndian(b[3], b[4], b[5], b[6]) \in Nat
      <4>1. PICK x, y, z, w : x = b[3] /\ y = b[4] /\ z = b[5] /\ w = b[6]
        OBVIOUS
      <4>2. x \in Nat /\ y \in Nat /\ z \in Nat /\ w \in Nat
        BY <1>3, <3>2, <4>1
      <4>3. BigEndian(x, y, z, w) \in Nat
        BY <4>2 DEF BigEndian
      <4>4. QED
        BY <4>1, <4>3
    <3>4. QED
      BY <2>2, <3>3 DEF PayloadSize
  <2>3. QED
    BY <2>1, <2>2
<1>6. QED
  BY <1>1, <1>3, <1>4, <1>5

(* Bytes are the encoding of some parts, exactly if these are the parts    *)
(* that their header says, from end to end.                                *)
LEMMA EncodedIs ==
    ASSUME NEW b \in Seq(Byte), Len(b) >= 3, NEW first \in BOOLEAN, NEW last \in BOOLEAN,
           NEW short \in BOOLEAN, NEW hasId \in BOOLEAN, NEW p \in Int, p <= Len(b) + 1
    PROVE  Encodes(b, first, last, short, hasId, p) <=>
             /\ Marked(b, first, last) /\ short = IsShort(b) /\ hasId = HasId(b)
             /\ Filled(b) /\ p = PayloadOf(b) /\ AgreeAt(b, p)
<1>1. PICK t : t = TypeStart(short, hasId)
  OBVIOUS
<1>2. t \in Int /\ t \in 4..8 /\ t = HeadLength(short, hasId) + 1
  BY <1>1, StartIs
<1>3. PICK q : q = b[2]
  OBVIOUS
<1>4. q \in Nat /\ b[1] \in Int /\ b[1] % 8 \in Int /\ Len(b) \in Nat
  BY <1>3, BytesAre
<1>5. PICK k, n : k = p - t - q /\ n = Len(b) + 1 - p
  OBVIOUS
<1>6. k \in Int /\ n \in Int
  BY <1>2, <1>4, <1>5
<1>7. /\ TypeIn(b, t) = TypePart(b, t, q) /\ IdIn(b, t, p) = IdPart(b, t, q, p)
      /\ PayloadIn(b, p) = Rest(b, p)
  BY <1>3 DEF TypeIn, TypePart, IdIn, IdPart, PayloadIn, Rest
<1>8. Encodes(b, first, last, short, hasId, p) <=>
        /\ t + q <= p
        /\ b = Encoding(first, last, short, hasId, b[1] % 8, TypePart(b, t, q),
                        IdPart(b, t, q, p), Rest(b, p))
        /\ PartsAgree(b[1] % 8, TypeIn(b, t), IdIn(b, t, p), PayloadIn(b, p))
  BY <1>1, <1>3, <1>7, Zenon DEF Encodes
<1>9. t + q <= p =>
      (b = Encoding(first, last, short, hasId, b[1] % 8, TypePart(b, t, q),
                        IdPart(b, t, q, p), Rest(b, p))
        <=> /\ HeaderAt(b, FirstByte(first, last, short, hasId, b[1] % 8), short,
                        hasId, n, k)
            /\ hasId \/ p = t + q)
  <2> DEFINE tnf == b[1] % 8
  <2>1. tnf \in Int
    BY <1>4
  <2> HIDE DEF tnf
  <2>2. ASSUME t + q <= p PROVE EncodedBy(b, short, hasId, p, t, q, first, last, tnf)
    <3>1. HeadFits(b, short, hasId, p, t, q)
      BY <1>2, <1>3, <1>4, <2>2, Zenon DEF HeadFits
    <3>2. QED
      BY <2>1, <3>1, EncodesIs, Zenon
  <2>3. QED
    BY <1>5, <2>2, Zenon DEF tnf, EncodedBy
<1>10. HeaderAt(b, FirstByte(first, last, short, hasId, b[1] % 8), short, hasId, n, k)
         <=> /\ Marked(b, first, last) /\ short = IsShort(b) /\ hasId = HasId(b)
             /\ PayloadSize(b) = n /\ (hasId => IdSize(b) = k)
  <2>1. b[1] = FirstByte(first, last, short, hasId, b[1] % 8)
             <=> /\ Marked(b, first, last)
                 /\ short = IsShort(b) /\ hasId = HasId(b)
    BY FlagsIs
  <2>2. HeaderAt(b, FirstByte(first, last, short, hasId, b[1] % 8), short, hasId, n, k)
          => b[1] = FirstByte(first, last, short, hasId, b[1] % 8)
    BY DEF HeaderAt
  <2>3. PICK f : f = FirstByte(first, last, short, hasId, b[1] % 8)
    OBVIOUS
  <2>4. ASSUME short = IsShort(b), hasId = HasId(b)
        PROVE  HeaderAt(b, f, short, hasId, n, k) <=>
             b[1] = f /\ PayloadSize(b) = n /\ (hasId => IdSize(b) = k)
    BY <2>4, HeadIs
  <2>5. QED
    BY <2>1, <2>2, <2>3, <2>4
<1>11. ASSUME short = IsShort(b), hasId = HasId(b)
       PROVE  /\ t = StartOf(b)
              /\ PayloadOf(b) = t + q + IdSize(b)
              /\ AgreeAt(b, p) <=> PartsAgree(b[1] % 8, TypeIn(b, t), IdIn(b, t, p),
                                              PayloadIn(b, p))
  BY <1>1, <1>3, <1>11 DEF StartOf, PayloadOf, AgreeAt
<1>12. ASSUME Encodes(b, first, last, short, hasId, p)
       PROVE  /\ Marked(b, first, last) /\ short = IsShort(b) /\ hasId = HasId(b)
              /\ Filled(b) /\ p = PayloadOf(b) /\ AgreeAt(b, p)
  <2>1. /\ t + q <= p /\ (hasId \/ p = t + q)
        /\ Marked(b, first, last) /\ short = IsShort(b) /\ hasId = HasId(b)
        /\ PayloadSize(b) = n /\ (hasId => IdSize(b) = k)
    BY <1>8, <1>9, <1>10, <1>12
  <2>2. /\ t = StartOf(b) /\ PayloadOf(b) = t + q + IdSize(b) /\ AgreeAt(b, p)
    BY <1>8, <1>11, <1>12, <2>1
  <2>3. IdSize(b) = k
    <3>1. ~hasId => IdSize(b) = 0 /\ k = 0
      BY <1>2, <1>4, <1>5, <2>1 DEF IdSize
    <3>2. QED
      BY <2>1, <3>1
  <2>4. p = PayloadOf(b)
    BY <1>2, <1>4, <1>5, <2>2, <2>3
  <2>5. Filled(b)
    <3>1. StartOf(b) <= Len(b) + 1
      BY <1>2, <1>4, <2>1, <2>2
    <3>2. PayloadOf(b) + PayloadSize(b) = Len(b) + 1
      BY <1>4, <1>5, <2>1, <2>4
    <3>3. QED
      BY <3>1, <3>2 DEF Filled
  <2>6. QED
    BY <2>1, <2>2, <2>4, <2>5
<1>13. ASSUME Marked(b, first, last), short = IsShort(b), hasId = HasId(b),
              Filled(b), p = PayloadOf(b), AgreeAt(b, p)
       PROVE  Encodes(b, first, last, short, hasId, p)
  <2>1. t = StartOf(b) /\ PayloadOf(b) = t + q + IdSize(b)
    BY <1>11, <1>13
  <2>2. IdSize(b) \in Nat
    BY <1>13, SizesAre DEF Filled
  <2>3. t + q <= p /\ IdSize(b) = k
    <3>1. PICK d : d = IdSize(b)
      OBVIOUS
    <3>2. p = t + q + d /\ d \in Nat
      BY <1>13, <2>1, <2>2, <3>1
    <3>3. t + q <= p /\ d = k
      <4>1. t \in Int /\ k = p - t - q
        BY <1>2, <1>5
      <4>2. QED
        BY <1>4, <3>2, <4>1
    <3>4. QED
      BY <3>1, <3>3
  <2>4. PayloadSize(b) = n
    <3>1. p + PayloadSize(b) = Len(b) + 1
      BY <1>13 DEF Filled
    <3>2. PayloadSize(b) \in Nat
      BY <1>13, SizesAre DEF Filled
    <3>3. QED
      BY <1>4, <1>5, <3>1, <3>2
  <2>5. hasId \/ p = t + q
    <3>1. ~hasId => IdSize(b) = 0
      BY <1>13 DEF IdSize
    <3>2. QED
      BY <1>2, <1>4, <1>13, <2>1, <3>1
  <2>6. QED
    BY <1>8, <1>9, <1>10, <1>11, <1>13, <2>3, <2>4, <2>5
<1>14. QED
  BY <1>12, <1>13

OneRecord(b, first, last) ==
    Len(b) >= 3 /\ Marked(b, first, last) /\ Filled(b) /\ AgreeAt(b, PayloadOf(b))

MeaningsOf(b) == Meanings(b[1] % 8, TypeIn(b, StartOf(b)), PayloadIn(b, PayloadOf(b)))

(* What it takes to be among the records of b.                             *)
LEMMA RecordIn ==
    ASSUME NEW b, NEW first, NEW last, NEW r
    PROVE  r \in RecordsOf(b, first, last) <=>
             /\ b[1] \div 64 = Bit(first, 2) + Bit(last, 1)
             /\ \E p \in 4..(Len(b) + 1), t \in 4..8, short, hasId \in BOOLEAN :
                  /\ t = TypeStart(short, hasId)
                  /\ Encodes(b, first, last, short, hasId, p)
                  /\ r \in Meanings(b[1] % 8, TypeIn(b, t), PayloadIn(b, p))
BY DEF RecordsOf

(* Bytes hold at most one record, the one their header describes.          *)
LEMMA RecordsIs ==
    ASSUME NEW b \in Seq(Byte), Len(b) >= 1, NEW first \in BOOLEAN, NEW last \in BOOLEAN
    PROVE  RecordsOf(b, first, last) =
             IF OneRecord(b, first, last) THEN MeaningsOf(b) ELSE {}
<1>0. Len(b) \in Nat
  OBVIOUS
<1>1. ASSUME NEW r, r \in RecordsOf(b, first, last)
      PROVE  OneRecord(b, first, last) /\ r \in MeaningsOf(b)
  <2>1. PICK p \in 4..(Len(b) + 1), t \in 4..8, short, hasId \in BOOLEAN :
                  /\ t = TypeStart(short, hasId)
                  /\ Encodes(b, first, last, short, hasId, p)
                  /\ r \in Meanings(b[1] % 8, TypeIn(b, t), PayloadIn(b, p))
    BY <1>1, RecordIn
  <2>2. Len(b) >= 3 /\ p \in Int /\ p <= Len(b) + 1
    BY <1>0
  <2>3. /\ Marked(b, first, last) /\ short = IsShort(b) /\ hasId = HasId(b)
        /\ Filled(b) /\ p = PayloadOf(b) /\ AgreeAt(b, p)
    BY <2>1, <2>2, EncodedIs
  <2>4. t = StartOf(b)
    BY <2>1, <2>3 DEF StartOf
  <2>5. QED
    BY <2>1, <2>2, <2>3, <2>4, Zenon DEF OneRecord, MeaningsOf
<1>2. ASSUME NEW r, OneRecord(b, first, last), r \in MeaningsOf(b)
      PROVE  r \in RecordsOf(b, first, last)
  <2>1. PICK p, t, short, hasId : /\ p = PayloadOf(b) /\ t = StartOf(b)
                                  /\ short = IsShort(b) /\ hasId = HasId(b)
    OBVIOUS
  <2>2. Len(b) >= 3 /\ Marked(b, first, last) /\ Filled(b) /\ AgreeAt(b, p)
    BY <1>2, <2>1 DEF OneRecord
  <2>3. short \in BOOLEAN /\ hasId \in BOOLEAN /\ t = TypeStart(short, hasId)
    BY <2>1 DEF IsShort, HasId, StartOf
  <2>4. p \in 4..(Len(b) + 1)
    <3>1. PICK q, d, z : q = b[2] /\ d = IdSize(b) /\ z = PayloadSize(b)
      OBVIOUS
    <3>2. q \in Nat /\ d \in Nat /\ t \in 4..8 /\ z \in Nat
      BY <2>1, <2>2, <3>1, SizesAre DEF Filled
    <3>3. p = t + q + d /\ p + z = Len(b) + 1
      BY <2>1, <2>2, <3>1 DEF PayloadOf, Filled
    <3>4. QED
      BY <1>0, <3>2, <3>3
  <2>5. t \in 4..8
    BY <2>3, StartIs
  <2>6. Encodes(b, first, last, short, hasId, p)
    <3>1. p \in Int /\ p <= Len(b) + 1
      BY <1>0, <2>4
    <3>2. QED
      BY <2>1, <2>2, <2>3, <3>1, EncodedIs
  <2>7. r \in Meanings(b[1] % 8, TypeIn(b, t), PayloadIn(b, p))
    BY <1>2, <2>1, Zenon DEF MeaningsOf
  <2>8. b[1] \div 64 = Bit(first, 2) + Bit(last, 1)
    BY <2>2, MarkedTop
  <2>9. QED
    <3>1. \E pp \in 4..(Len(b) + 1), tt \in 4..8, sr, il \in BOOLEAN :
             /\ tt = TypeStart(sr, il)
             /\ Encodes(b, first, last, sr, il, pp)
             /\ r \in Meanings(b[1] % 8, TypeIn(b, tt), PayloadIn(b, pp))
      <4>0. p \in 4..(Len(b) + 1) /\ t \in 4..8 /\ short \in BOOLEAN /\ hasId \in BOOLEAN
        BY <2>3, <2>4, <2>5, Zenon
      <4> USE <4>0
      <4> WITNESS p \in 4..(Len(b) + 1), t \in 4..8, short \in BOOLEAN, hasId \in BOOLEAN
      <4>1. QED
        BY <2>3, <2>6, <2>7, Zenon
    <3>2. QED
      BY <2>8, <3>1, RecordIn, Zenon
<1>3. QED
  BY <1>1, <1>2

-----------------------------------------------------------------------------
(* The record in front of the parser.                                      *)

(* The parser stands in front of b, which reaches up to j.                 *)
InFront(j, b) ==
    /\ data \in Seq(Byte) /\ Len(data) \in Nat /\ offset \in Nat /\ offset < Len(data)
    /\ j \in Int /\ offset + 1 <= j /\ j <= Len(data)
    /\ b = SubSeq(data, offset + 1, j)

(* b is the bytes the parser has ahead.                                    *)
LEMMA AheadIs ==
    ASSUME NEW j, NEW b, InFront(j, b)
    PROVE  /\ b \in Seq(Byte) /\ Len(b) = j - offset /\ Len(b) \in Nat /\ Len(b) >= 1
           /\ \A i \in 1..Len(b) : b[i] = Ahead(i)
<1>1. b \in Seq(Byte) /\ Len(b) = j - offset
  BY DEF InFront
<1>2. \A i \in 1..Len(b) : b[i] = data[offset + i]
  BY <1>1 DEF InFront
<1>3. QED
  BY <1>1, <1>2 DEF Ahead, InFront

(* The parser reads the flags of b.                                        *)
LEMMA AheadFlags ==
    ASSUME NEW j, NEW b, InFront(j, b)
    PROVE  /\ b[1] = Ahead(1) /\ b[1] % 8 = Tnf /\ Tnf \in 0..7
           /\ IsShort(b) = ShortRecord /\ HasId(b) = HasIdLength
           /\ StartOf(b) = HeaderSize + 1 /\ HeaderSize \in 3..7
           /\ \A first, last \in BOOLEAN :
                Marked(b, first, last) <=> /\ MessageBegin = first /\ RecordEnd = last
                                           /\ ~Chunked
<1>1. b \in Seq(Byte) /\ Len(b) \in Nat /\ Len(b) >= 1 /\ b[1] = Ahead(1)
  BY AheadIs
<1>2. PICK x : x = Ahead(1)
  OBVIOUS
<1>3. x \in Int /\ 0 <= x /\ x <= 255
  BY <1>1, <1>2, BytesAre
<1>4. IsShort(b) = ShortRecord /\ HasId(b) = HasIdLength
  BY <1>1 DEF IsShort, ShortRecord, HasId, HasIdLength, Flag
<1>5. StartOf(b) = HeaderSize + 1 /\ HeaderSize \in 3..7
  <2>1. ShortRecord \in BOOLEAN /\ HasIdLength \in BOOLEAN
    BY DEF ShortRecord, HasIdLength, Flag
  <2>2. StartOf(b) = TypeStart(ShortRecord, HasIdLength)
    BY <1>4 DEF StartOf
  <2>3. QED
    BY <2>1, <2>2 DEF TypeStart, HeaderSize, LengthSize, Bit
<1>6. ASSUME NEW first \in BOOLEAN, NEW last \in BOOLEAN
      PROVE  Marked(b, first, last) <=> /\ MessageBegin = first /\ RecordEnd = last
                                        /\ ~Chunked
  <2>1. (x \div 128) % 2 \in 0..1 /\ (x \div 64) % 2 \in 0..1 /\ (x \div 32) % 2 \in 0..1
    BY <1>3
  <2>2. /\ (x \div 128) % 2 = Bit(first, 1) <=> (((x \div 128) % 2 = 1) = first)
        /\ (x \div 64) % 2 = Bit(last, 1) <=> (((x \div 64) % 2 = 1) = last)
        /\ (x \div 32) % 2 = 0 <=> ~((x \div 32) % 2 = 1)
    BY <2>1 DEF Bit
  <2>3. QED
    BY <1>1, <1>2, <2>2, Zenon DEF Marked, MessageBegin, RecordEnd, Chunked, Flag
<1>7. b[1] % 8 = Tnf /\ Tnf \in 0..7
  BY <1>1, <1>2, <1>3 DEF Tnf
<1>8. QED
  BY <1>1, <1>4, <1>5, <1>6, <1>7

(* The parser reads the lengths of b.                                      *)
LEMMA AheadSizes ==
    ASSUME NEW j, NEW b, InFront(j, b), HeaderSize <= Len(b)
    PROVE  /\ b[2] = TypeLength /\ IdSize(b) = IdLength /\ PayloadSize(b) = PayloadLength
           /\ TypeLength \in Nat /\ IdLength \in Nat /\ PayloadLength \in Nat
<1>1. /\ b \in Seq(Byte) /\ Len(b) = j - offset /\ Len(b) \in Nat /\ Len(b) >= 1
      /\ \A i \in 1..Len(b) : b[i] = Ahead(i)
  BY AheadIs
<1>2. /\ IsShort(b) = ShortRecord /\ HasId(b) = HasIdLength
      /\ StartOf(b) = HeaderSize + 1 /\ HeaderSize \in 3..7
  BY AheadFlags
<1>3. b[2] \in Nat /\ IdSize(b) \in Nat /\ PayloadSize(b) \in Nat
  BY <1>1, <1>2, SizesAre
<1>4. ShortRecord \in BOOLEAN /\ HasIdLength \in BOOLEAN
  BY DEF ShortRecord, HasIdLength, Flag
<1>5. b[2] = TypeLength
  BY <1>1, <1>2 DEF TypeLength
<1>6. IdSize(b) = IdLength
  <2>1. b[HeaderSize] = Ahead(HeaderSize) /\ StartOf(b) - 1 = HeaderSize
    BY <1>1, <1>2
  <2>2. QED
    BY <1>2, <1>4, <2>1 DEF IdSize, IdLength
<1>7. PayloadSize(b) = PayloadLength
  <2>1. b[3] = Ahead(3)
    BY <1>1, <1>2
  <2>2. ~ShortRecord => b[4] = Ahead(4) /\ b[5] = Ahead(5) /\ b[6] = Ahead(6)
    <3>1. ~ShortRecord => HeaderSize >= 6
      BY <1>4 DEF HeaderSize, LengthSize
    <3>2. QED
      BY <1>1, <1>2, <3>1
  <2>3. QED
    BY <1>2, <1>4, <2>1, <2>2, Zenon DEF PayloadSize, PayloadLength, BigEndian
<1>8. QED
  BY <1>3, <1>5, <1>6, <1>7

(* A piece of a piece.                                                     *)
LEMMA SubSub ==
    ASSUME NEW X, NEW s \in Seq(X), NEW o \in Nat, NEW j \in Int, o <= j, j <= Len(s),
           NEW m \in Int, m >= 1, NEW n \in Int, n <= j - o
    PROVE  SubSeq(SubSeq(s, o + 1, j), m, n) = SubSeq(s, o + m, o + n)
OBVIOUS

(* The parser would move to the end of b, exactly if b is filled by its    *)
(* record.                                                                 *)
LEMMA AheadFilled ==
    ASSUME NEW j, NEW b, InFront(j, b), HeaderSize <= Len(b)
    PROVE  /\ Filled(b) <=> NextAt = j
           /\ PayloadOf(b) = PayloadAt - offset + 1
           /\ PayloadAt \in Int /\ NextAt \in Int /\ IdAt \in Int /\ TypeAt \in Int
           /\ TypeAt = offset + HeaderSize
           /\ TypeAt <= IdAt /\ IdAt <= PayloadAt /\ PayloadAt <= NextAt
<1>1. PICK o, h, t, i, n : /\ o = offset /\ h = HeaderSize /\ t = TypeLength
                           /\ i = IdLength /\ n = PayloadLength
  OBVIOUS
<1>2. /\ o \in Nat /\ h \in Int /\ t \in Nat /\ i \in Nat /\ n \in Nat /\ h \in 3..7
      /\ b[2] = t /\ IdSize(b) = i /\ PayloadSize(b) = n /\ StartOf(b) = h + 1
      /\ j \in Int /\ Len(b) = j - o
  <2>1. b \in Seq(Byte) /\ Len(b) = j - offset
    BY AheadIs
  <2>2. StartOf(b) = HeaderSize + 1 /\ HeaderSize \in 3..7
    BY AheadFlags
  <2>3. /\ b[2] = TypeLength /\ IdSize(b) = IdLength /\ PayloadSize(b) = PayloadLength
        /\ TypeLength \in Nat /\ IdLength \in Nat /\ PayloadLength \in Nat
    BY AheadSizes
  <2>4. /\ data \in Seq(Byte) /\ offset \in Nat /\ j \in Int /\ offset <= j /\ j <= Len(data)
        /\ b = SubSeq(data, offset + 1, j)
    BY DEF InFront
  <2>5. QED
    BY <1>1, <2>1, <2>2, <2>3, <2>4
<1>3. TypeAt = o + h /\ IdAt = o + h + t /\ PayloadAt = o + h + t + i
      /\ NextAt = o + h + t + i + n
  BY <1>1, <1>2 DEF TypeAt, IdAt, PayloadAt, NextAt
<1>4. PayloadOf(b) = h + 1 + t + i
  BY <1>2 DEF PayloadOf
<1>5. Filled(b) <=> NextAt = j
  <2>1. h + 1 <= Len(b) + 1
    BY <1>1, <1>2
  <2>2. Filled(b) <=> h + 1 + t + i + n = j - o + 1
    BY <1>2, <1>4, <2>1 DEF Filled
  <2>3. QED
    BY <1>2, <1>3, <2>2
<1>6. QED
  BY <1>1, <1>2, <1>3, <1>4, <1>5

(* Then it takes the type and the payload of b for those of the record.    *)
LEMMA AheadParts ==
    ASSUME NEW j, NEW b, InFront(j, b), HeaderSize <= Len(b), NextAt = j
    PROVE  /\ TypeIn(b, StartOf(b)) = Type
           /\ PayloadIn(b, PayloadOf(b)) = Payload
           /\ Type \in Seq(Byte) /\ Payload \in Seq(Byte)
           /\ Len(Type) = TypeLength /\ Len(Payload) = PayloadLength
           /\ IdIn(b, StartOf(b), PayloadOf(b)) \in Seq(Byte)
           /\ Len(IdIn(b, StartOf(b), PayloadOf(b))) = IdLength
<1>1. PICK o, h, t, i, n : /\ o = offset /\ h = HeaderSize /\ t = TypeLength
                           /\ i = IdLength /\ n = PayloadLength
  OBVIOUS
<1>2. /\ o \in Nat /\ h \in Int /\ t \in Nat /\ i \in Nat /\ n \in Nat /\ h \in 3..7
      /\ b[2] = t /\ IdSize(b) = i /\ PayloadSize(b) = n /\ StartOf(b) = h + 1
      /\ j \in Int /\ Len(b) = j - o /\ b \in Seq(Byte)
      /\ data \in Seq(Byte) /\ o <= j /\ j <= Len(data)
      /\ b = SubSeq(data, o + 1, j)
  <2>1. b \in Seq(Byte) /\ Len(b) = j - offset
    BY AheadIs
  <2>2. StartOf(b) = HeaderSize + 1 /\ HeaderSize \in 3..7
    BY AheadFlags
  <2>3. /\ b[2] = TypeLength /\ IdSize(b) = IdLength /\ PayloadSize(b) = PayloadLength
        /\ TypeLength \in Nat /\ IdLength \in Nat /\ PayloadLength \in Nat
    BY AheadSizes
  <2>4. /\ data \in Seq(Byte) /\ offset \in Nat /\ j \in Int /\ offset <= j /\ j <= Len(data)
        /\ b = SubSeq(data, offset + 1, j)
    BY DEF InFront
  <2>5. QED
    BY <1>1, <2>1, <2>2, <2>3, <2>4
<1>3. TypeAt = o + h /\ IdAt = o + h + t /\ PayloadAt = o + h + t + i
      /\ NextAt = o + h + t + i + n
  BY <1>1, <1>2 DEF TypeAt, IdAt, PayloadAt, NextAt
<1>4. PayloadOf(b) = h + 1 + t + i /\ j - o = h + t + i + n /\ j = o + h + t + i + n
  BY <1>2, <1>3 DEF PayloadOf
<1>5. TypeIn(b, StartOf(b)) = SubSeq(b, h + 1, h + t)
  <2>1. h + 1 + t - 1 = h + t
    BY <1>2
  <2>2. TypeIn(b, StartOf(b)) = SubSeq(b, h + 1, h + 1 + t - 1)
    BY <1>2, Zenon DEF TypeIn
  <2>3. QED
    BY <2>1, <2>2
<1>6. Type = SubSeq(data, o + (h + 1), o + (h + t))
  BY <1>2, <1>3 DEF Type
<1>7. SubSeq(b, h + 1, h + t) = SubSeq(data, o + (h + 1), o + (h + t))
  <2>1. PICK m, k : m = h + 1 /\ k = h + t
    OBVIOUS
  <2>2. m \in Int /\ m >= 1 /\ k \in Int /\ k <= j - o
    BY <1>2, <1>4, <2>1
  <2>3. QED
    BY <1>2, <2>1, <2>2, SubSub
<1>8. PayloadIn(b, PayloadOf(b)) = SubSeq(b, h + 1 + t + i, h + t + i + n)
  BY <1>2, <1>4 DEF PayloadIn
<1>9. Payload = SubSeq(data, o + (h + 1 + t + i), o + (h + t + i + n))
  BY <1>2, <1>3 DEF Payload
<1>10. SubSeq(b, h + 1 + t + i, h + t + i + n)
        = SubSeq(data, o + (h + 1 + t + i), o + (h + t + i + n))
  <2>1. PICK m, k : m = h + 1 + t + i /\ k = h + t + i + n
    OBVIOUS
  <2>2. m \in Int /\ m >= 1 /\ k \in Int /\ k <= j - o
    BY <1>2, <1>4, <2>1
  <2>3. QED
    BY <1>2, <2>1, <2>2, SubSub
<1>11. IdIn(b, StartOf(b), PayloadOf(b)) = SubSeq(b, h + 1 + t, h + t + i)
  BY <1>2, <1>4 DEF IdIn
<1>12. \A m, k \in Int : m >= 1 /\ k <= Len(b) /\ m <= k + 1
         => SubSeq(b, m, k) \in Seq(Byte) /\ Len(SubSeq(b, m, k)) = k - m + 1
  BY <1>2
<1>13. SubSeq(b, h + 1, h + t) \in Seq(Byte) /\ Len(SubSeq(b, h + 1, h + t)) = t
  <2>1. PICK m, k : m = h + 1 /\ k = h + t
    OBVIOUS
  <2>2. m \in Int /\ m >= 1 /\ k \in Int /\ k <= Len(b) /\ m <= k + 1 /\ k - m + 1 = t
    BY <1>2, <1>4, <2>1
  <2>3. QED
    BY <1>12, <2>1, <2>2
<1>14. /\ SubSeq(b, h + 1 + t, h + t + i) \in Seq(Byte)
       /\ Len(SubSeq(b, h + 1 + t, h + t + i)) = i
  <2>1. PICK m, k : m = h + 1 + t /\ k = h + t + i
    OBVIOUS
  <2>2. m \in Int /\ m >= 1 /\ k \in Int /\ k <= Len(b) /\ m <= k + 1 /\ k - m + 1 = i
    BY <1>2, <1>4, <2>1
  <2>3. QED
    BY <1>12, <2>1, <2>2
<1>15. /\ SubSeq(b, h + 1 + t + i, h + t + i + n) \in Seq(Byte)
       /\ Len(SubSeq(b, h + 1 + t + i, h + t + i + n)) = n
  <2>1. PICK m, k : m = h + 1 + t + i /\ k = h + t + i + n
    OBVIOUS
  <2>2. m \in Int /\ m >= 1 /\ k \in Int /\ k <= Len(b) /\ m <= k + 1 /\ k - m + 1 = n
    BY <1>2, <1>4, <2>1
  <2>3. QED
    BY <1>12, <2>1, <2>2
<1>16. TypeIn(b, StartOf(b)) = Type /\ Type \in Seq(Byte) /\ Len(Type) = TypeLength
  BY <1>1, <1>5, <1>6, <1>7, <1>13, Zenon
<1>17. /\ PayloadIn(b, PayloadOf(b)) = Payload /\ Payload \in Seq(Byte)
       /\ Len(Payload) = PayloadLength
  BY <1>1, <1>8, <1>9, <1>10, <1>15, Zenon
<1>18. /\ IdIn(b, StartOf(b), PayloadOf(b)) \in Seq(Byte)
       /\ Len(IdIn(b, StartOf(b), PayloadOf(b))) = IdLength
  BY <1>1, <1>11, <1>14, Zenon
<1>19. QED
  BY <1>16, <1>17, <1>18

(* It refuses lengths that do not go with the TNF, and nothing else.       *)
LEMMA AheadAgree ==
    ASSUME NEW j, NEW b, InFront(j, b), HeaderSize <= Len(b), NextAt = j
    PROVE  AgreeAt(b, PayloadOf(b)) <=> LengthsOK /\ Tnf \in TnfEmpty..TnfUnknown
<1>1. b[1] % 8 = Tnf /\ Tnf \in 0..7
  BY AheadFlags
<1>2. TypeLength \in Nat /\ IdLength \in Nat /\ PayloadLength \in Nat
  BY AheadSizes
<1>3. PICK t, i, n : /\ t = TypeIn(b, StartOf(b)) /\ n = PayloadIn(b, PayloadOf(b))
                     /\ i = IdIn(b, StartOf(b), PayloadOf(b))
  OBVIOUS
<1>4. /\ t \in Seq(Byte) /\ i \in Seq(Byte) /\ n \in Seq(Byte)
      /\ Len(t) = TypeLength /\ Len(i) = IdLength /\ Len(n) = PayloadLength
  BY <1>3, AheadParts, Zenon
<1>5. \A s \in Seq(Byte) : s = <<>> <=> Len(s) = 0
  OBVIOUS
<1>6. /\ t = <<>> <=> TypeLength = 0
      /\ i = <<>> <=> IdLength = 0
      /\ n = <<>> <=> PayloadLength = 0
  BY <1>4, <1>5, Zenon
<1>7. AgreeAt(b, PayloadOf(b)) <=> PartsAgree(Tnf, t, i, n)
  BY <1>1, <1>3, Zenon DEF AgreeAt
<1>8. <<t, i, n>> = <<<<>>, <<>>, <<>>>> <=> t = <<>> /\ i = <<>> /\ n = <<>>
  OBVIOUS
<1>9. PartsAgree(Tnf, t, i, n) <=>
        \/ Tnf = 0 /\ TypeLength = 0 /\ IdLength = 0 /\ PayloadLength = 0
        \/ Tnf \in 1..4 /\ TypeLength # 0
        \/ Tnf = 5 /\ TypeLength = 0
  BY <1>6, <1>8 DEF PartsAgree, TnfEmpty, TnfWellKnown, TnfExternal, TnfUnknown
<1>10. LengthsOK /\ Tnf \in TnfEmpty..TnfUnknown <=>
        \/ Tnf = 0 /\ TypeLength = 0 /\ IdLength = 0 /\ PayloadLength = 0
        \/ Tnf \in 1..4 /\ TypeLength # 0
        \/ Tnf = 5 /\ TypeLength = 0
  BY <1>1 DEF LengthsOK, TnfEmpty, TnfWellKnown, TnfExternal, TnfUnknown
<1>11. QED
  BY <1>7, <1>9, <1>10

(* What fits in b fits in the message.                                     *)
LEMMA AheadFits ==
    ASSUME NEW j, NEW b, InFront(j, b), HeaderSize <= Len(b), NextAt = j
    PROVE  Fits
<1>1. PICK o, h, t, i, n : /\ o = offset /\ h = HeaderSize /\ t = TypeLength
                           /\ i = IdLength /\ n = PayloadLength
  OBVIOUS
<1>2. o \in Nat /\ h \in Int /\ j \in Int /\ j <= Len(data) /\ Len(data) \in Nat
  <2>1. HeaderSize \in 3..7
    BY AheadFlags
  <2>2. offset \in Nat /\ j \in Int /\ j <= Len(data) /\ Len(data) \in Nat
    BY DEF InFront
  <2>3. QED
    BY <1>1, <2>1, <2>2
<1>3. t \in Nat /\ i \in Nat /\ n \in Nat
  BY <1>1, AheadSizes
<1>4. TypeAt = o + h /\ IdAt = o + h + t /\ PayloadAt = o + h + t + i
      /\ o + h + t + i + n = j
  BY <1>1, <1>2, <1>3 DEF TypeAt, IdAt, PayloadAt, NextAt
<1>5. QED
  BY <1>1, <1>2, <1>3, <1>4 DEF Fits, CanRead

(* The bytes up to j are a record of the message in this place, exactly if *)
(* the parser takes them for one and would move to j.                      *)
LEMMA RecordAhead ==
    ASSUME NEW j, NEW b, InFront(j, b), ~messageEnd, records = <<>> <=> offset = 0
    PROVE  RecordsOf(b, offset = 0, j = Len(data)) =
             IF RecordThere /\ j = NextAt /\ (RecordEnd <=> j = Len(data))
             THEN {Decoded} ELSE {}
<1> DEFINE first == offset = 0
           last == j = Len(data)
<1>1. b \in Seq(Byte) /\ Len(b) = j - offset /\ Len(b) >= 1 /\ Len(b) \in Nat
  BY AheadIs
<1>2. /\ b[1] % 8 = Tnf /\ StartOf(b) = HeaderSize + 1 /\ HeaderSize \in 3..7
      /\ Marked(b, first, last) <=> /\ MessageBegin = first /\ RecordEnd = last
                                    /\ ~Chunked
  BY AheadFlags
<1>3. RecordsOf(b, first, last) =
             IF OneRecord(b, first, last) THEN MeaningsOf(b) ELSE {}
  BY <1>1, RecordsIs
<1>4. MessageBegin \in BOOLEAN /\ RecordEnd \in BOOLEAN
  BY DEF MessageBegin, RecordEnd, Flag
<1> HIDE DEF first, last
<1>5. first \in BOOLEAN /\ last \in BOOLEAN /\ (records = <<>> <=> first)
  BY DEF first, last
<1>6. CASE HeaderSize <= Len(b)
  <2>1. Filled(b) <=> NextAt = j
    BY <1>6, AheadFilled
  <2>2. ASSUME NextAt = j
        PROVE  /\ OneRecord(b, first, last) <=>
                    /\ HeaderOK /\ LengthsOK /\ RecordEnd = last
               /\ MeaningsOf(b) = IF Decodable THEN {Decoded} ELSE {}
               /\ Fits
    <3>1. AgreeAt(b, PayloadOf(b)) <=> LengthsOK /\ Tnf \in TnfEmpty..TnfUnknown
      BY <1>6, <2>2, AheadAgree
    <3>2. Fits
      BY <1>6, <2>2, AheadFits
    <3>3. /\ TypeIn(b, StartOf(b)) = Type
          /\ PayloadIn(b, PayloadOf(b)) = Payload
          /\ Payload \in Seq(Byte)
      BY <1>6, <2>2, AheadParts, Zenon
    <3>4. MeaningsOf(b) = Meanings(Tnf, Type, Payload)
      BY <1>2, <3>3, Zenon DEF MeaningsOf
    <3>5. MeaningsOf(b) = IF Decodable THEN {Decoded} ELSE {}
      BY <3>3, <3>4, MeaningIs
    <3>6. Len(b) >= 3
      BY <1>1, <1>2, <1>6
    <3>7. OneRecord(b, first, last) <=> Marked(b, first, last) /\ AgreeAt(b, PayloadOf(b))
      BY <2>1, <2>2, <3>6 DEF OneRecord
    <3>8. HeaderOK <=> /\ MessageBegin = first /\ ~Chunked
                       /\ Tnf \in TnfEmpty..TnfUnknown
      BY <1>4, <1>5, Zenon DEF HeaderOK
    <3>9. QED
      BY <1>2, <3>1, <3>2, <3>5, <3>7, <3>8, Zenon
  <2>3. NextAt # j => ~OneRecord(b, first, last)
    BY <2>1 DEF OneRecord
  <2>4. HeaderSize <= Remaining
    BY <1>1, <1>2, <1>6 DEF Remaining, InFront
  <2>5. (RecordEnd <=> last) <=> RecordEnd = last
    BY <1>4, <1>5
  <2>6. NextAt = j => (RecordThere <=> HeaderOK /\ LengthsOK /\ Decodable)
    BY <2>2, <2>4 DEF RecordThere
  <2>7. CASE NextAt = j
    BY <1>3, <2>2, <2>5, <2>6, <2>7, Zenon DEF first, last
  <2>8. CASE NextAt # j
    BY <1>3, <2>3, <2>8, Zenon DEF first, last
  <2>9. QED
    BY <2>7, <2>8
<1>7. CASE ~(HeaderSize <= Len(b))
  <2>1. ~Filled(b)
    BY <1>1, <1>2, <1>7 DEF Filled
  <2>2. ~OneRecord(b, first, last)
    BY <2>1 DEF OneRecord
  <2>3. ASSUME RecordThere, j = NextAt PROVE FALSE
    <3>1. PICK jj, bb : jj = Len(data) /\ bb = SubSeq(data, offset + 1, Len(data))
      OBVIOUS
    <3>2. InFront(jj, bb)
      BY <3>1 DEF InFront
    <3>3. Len(bb) = Remaining
      BY <3>1, <3>2, AheadIs DEF Remaining
    <3>4. HeaderSize <= Len(bb)
      BY <2>3, <3>3, Zenon DEF RecordThere
    <3>5. /\ PayloadAt \in Int /\ NextAt \in Int /\ IdAt \in Int /\ TypeAt \in Int
          /\ TypeAt = offset + HeaderSize
          /\ TypeAt <= IdAt /\ IdAt <= PayloadAt /\ PayloadAt <= NextAt
      BY <3>2, <3>4, AheadFilled
    <3>6. offset \in Nat /\ j \in Int /\ HeaderSize \in Int
      BY <1>2 DEF InFront
    <3>7. QED
      BY <1>1, <1>7, <2>3, <3>5, <3>6
  <2>4. QED
    BY <1>3, <2>2, <2>3, Zenon DEF first, last
<1>8. QED
  BY <1>6, <1>7

-----------------------------------------------------------------------------
(* Messages: the recursion of MessagesOf and the loop of parseNdefMessage. *)

(* Every record that may be found anywhere in s.                           *)
Found(s) ==
    UNION {RecordsOf(SubSeq(s, i, j), i = 1, j = Len(s)) : i, j \in 1..Len(s)}

(* One turn of the recursion of MessagesOf.                                *)
Glue(s, g, i) ==
    IF i = Len(s) + 1 THEN {<<>>}
    ELSE UNION {{<<r>> \o rest :
                   r \in RecordsOf(SubSeq(s, i, j), i = 1, j = Len(s)),
                   rest \in g[j + 1]} : j \in i..Len(s)}

GlueTurns(s) == [1..(Len(s) + 1) -> SUBSET Seq(Found(s))]

(* f[i] are the sequences of records of which s is the encoding from i on. *)
IsFrom(f, s) ==
    /\ f \in GlueTurns(s)
    /\ \A i \in 1..(Len(s) + 1) : f[i] = Glue(s, f, i)
    /\ MessagesOf(s) = f[1] \ {<<>>}

(* x begins with a record that reaches from i to j.                        *)
Begins(s, g, i, j, x) ==
    \E r \in RecordsOf(SubSeq(s, i, j), i = 1, j = Len(s)) :
       \E rest \in g[j + 1] : x = <<r>> \o rest

(* What it takes to be among the results of a turn.                        *)
LEMMA GlueHas ==
    ASSUME NEW s, NEW g, NEW i, i # Len(s) + 1, NEW x
    PROVE  x \in Glue(s, g, i) <=> \E j \in i..Len(s) : Begins(s, g, i, j, x)
<1> DEFINE A(j) == {<<r>> \o rest :
                      r \in RecordsOf(SubSeq(s, i, j), i = 1, j = Len(s)),
                      rest \in g[j + 1]}
<1>1. Glue(s, g, i) = UNION {A(j) : j \in i..Len(s)}
  BY DEF Glue
<1>2. \A j : x \in A(j) <=> Begins(s, g, i, j, x)
  BY DEF Begins
<1> HIDE DEF A
<1>3. x \in UNION {A(j) : j \in i..Len(s)} <=> \E j \in i..Len(s) : x \in A(j)
  OBVIOUS
<1>4. QED
  BY <1>1, <1>2, <1>3

(* A turn yields sequences of records.                                     *)
LEMMA GlueType ==
    ASSUME NEW s \in Seq(Byte), NEW g, NEW i \in 1..(Len(s) + 1),
           \A c \in 1..(Len(s) + 1) : c > i => g[c] \in SUBSET Seq(Found(s))
    PROVE  Glue(s, g, i) \in SUBSET Seq(Found(s))
<1>0. Len(s) \in Nat
  OBVIOUS
<1>1. CASE i = Len(s) + 1
  BY <1>1 DEF Glue
<1>2. CASE i # Len(s) + 1
  <2>1. ASSUME NEW j \in i..Len(s),
               NEW r \in RecordsOf(SubSeq(s, i, j), i = 1, j = Len(s)),
               NEW rest \in g[j + 1]
        PROVE  <<r>> \o rest \in Seq(Found(s))
    <3>1. i \in 1..Len(s) /\ j \in 1..Len(s) /\ j + 1 \in 1..(Len(s) + 1)
      BY <1>0, <1>2
    <3>2. r \in Found(s)
      BY <3>1 DEF Found
    <3>3. rest \in Seq(Found(s))
      <4>1. j + 1 > i
        BY <1>0
      <4>2. g[j + 1] \in SUBSET Seq(Found(s))
        BY <3>1, <4>1
      <4>3. QED
        BY <4>2
    <3>4. <<r>> \in Seq(Found(s))
      BY <3>2
    <3>5. QED
      BY <3>3, <3>4
  <2>2. QED
    <3>1. \A x \in Glue(s, g, i) : x \in Seq(Found(s))
      <4>1. TAKE x \in Glue(s, g, i)
      <4>2. PICK j \in i..Len(s) : Begins(s, g, i, j, x)
        BY <1>2, <4>1, GlueHas
      <4>3. QED
        BY <2>1, <4>2 DEF Begins
    <3>2. QED
      BY <3>1
<1>3. QED
  BY <1>1, <1>2

(* The recursion of MessagesOf defines a function.                         *)
LEMMA FromIs ==
    ASSUME NEW s \in Seq(Byte)
    PROVE  \E f : IsFrom(f, s)
<1> DEFINE D == 1..(Len(s) + 1)
           S == SUBSET Seq(Found(s))
           m == [i \in D |-> Len(s) + 1 - i]
           F == [i \in D |-> [g \in [D -> S] |-> Glue(s, g, i)]]
<1>0. Len(s) \in Nat
  OBVIOUS
<1>1. m \in [D -> 0..Len(s)]
  BY <1>0
<1>t. \A g \in [D -> S], i \in D : Glue(s, g, i) \in S
  BY <1>0, GlueType
<1> HIDE DEF S
<1>2. F \in [D -> [[D -> S] -> S]]
  BY <1>t
<1>3. ASSUME NEW d \in D, NEW g \in [D -> S], NEW h \in [D -> S],
             \A c \in D : m[c] < m[d] => g[c] = h[c]
      PROVE  F[d][g] = F[d][h]
  <2>1. \A c \in D : c > d => g[c] = h[c]
    BY <1>0, <1>3
  <2>2. CASE d = Len(s) + 1
    <3>1. Glue(s, g, d) = Glue(s, h, d)
      BY <2>2 DEF Glue
    <3>2. QED
      BY <3>1
  <2>3. CASE d <= Len(s)
    <3>1. \A j \in d..Len(s) : g[j + 1] = h[j + 1]
      BY <1>0, <2>1, <2>3
    <3>2. d # Len(s) + 1
      BY <1>0, <2>3
    <3>4. Glue(s, g, d) = Glue(s, h, d)
      <4>1. \A x : x \in Glue(s, g, d) <=> x \in Glue(s, h, d)
        <5>1. TAKE x
        <5>2. x \in Glue(s, g, d) <=> \E j \in d..Len(s) : Begins(s, g, d, j, x)
          BY <3>2, GlueHas
        <5>3. x \in Glue(s, h, d) <=> \E j \in d..Len(s) : Begins(s, h, d, j, x)
          BY <3>2, GlueHas
        <5>4. QED
          <6>1. ASSUME NEW j \in d..Len(s)
                PROVE  Begins(s, g, d, j, x) <=> Begins(s, h, d, j, x)
            BY <3>1, Zenon DEF Begins
          <6>2. QED
            BY <5>2, <5>3, <6>1
      <4>2. QED
        BY <4>1
    <3>5. QED
      BY <3>4
  <2>4. QED
    BY <1>0, <2>2, <2>3
<1>s. S # {}
  BY DEF S
<1>r. Recursive(D, S, Len(s), m, F)
  BY <1>0, <1>1, <1>2, <1>3, <1>s DEF Recursive
<1> HIDE DEF m, F, D
<1>4. \E f \in [D -> S] : \A d \in D : f[d] = F[d][f]
  BY <1>r, Recursion DEF Solvable
<1>5. \E f : f = [i \in D |-> Glue(s, f, i)]
  <2>1. PICK f \in [D -> S] : \A d \in D : f[d] = F[d][f]
    BY <1>4
  <2>2. \A d \in D : f[d] = Glue(s, f, d)
    BY <2>1 DEF F
  <2>3. f = [i \in D |-> Glue(s, f, i)]
    BY <2>2
  <2>4. QED
    BY <2>3
<1> DEFINE v == CHOOSE f : f = [i \in D |-> Glue(s, f, i)]
<1>6. v = [i \in D |-> Glue(s, v, i)]
  BY <1>5
<1>7. MessagesOf(s) = v[1] \ {<<>>}
  BY DEF MessagesOf, Glue, D
<1> HIDE DEF v
<1>8. \A i \in D : v[i] = Glue(s, v, i)
  BY <1>6
<1>9. v \in [D -> S]
  <2> DEFINE K == {k \in 0..Len(s) : \A i \in D : i >= Len(s) + 1 - k => v[i] \in S}
  <2>1. ASSUME NEW i \in D, \A c \in D : c > i => v[c] \in S PROVE v[i] \in S
    BY <1>8, <2>1, GlueType DEF D, S
  <2>2. 0 \in K
    <3>1. \A i, c \in D : i >= Len(s) + 1 - 0 => ~(c > i)
      BY <1>0 DEF D
    <3>2. QED
      BY <1>0, <2>1, <3>1
  <2>3. ASSUME NEW k \in 0..(Len(s) - 1), k \in K PROVE k + 1 \in K
    <3>1. ASSUME NEW i \in D, i >= Len(s) + 1 - (k + 1) PROVE v[i] \in S
      <4>1. \A c \in D : c > i => c >= Len(s) + 1 - k
        BY <1>0, <3>1 DEF D
      <4>2. \A c \in D : c > i => v[c] \in S
        BY <2>3, <4>1
      <4>3. QED
        BY <2>1, <4>2
    <3>2. k + 1 \in 0..Len(s)
      BY <1>0
    <3>3. QED
      BY <3>1, <3>2
  <2> HIDE DEF K
  <2>4. 0..Len(s) \subseteq K
    BY <1>0, <2>2, <2>3, Induction
  <2>5. Len(s) \in K
    BY <1>0, <2>4
  <2>6. \A i \in D : v[i] \in S
    BY <1>0, <2>5 DEF K, D
  <2>7. QED
    BY <1>6, <2>6
<1>10. QED
  BY <1>7, <1>8, <1>9 DEF IsFrom, GlueTurns, D, S

From(s) == CHOOSE f : IsFrom(f, s)

(* So MessagesOf is this function at 1, without the empty message.         *)
LEMMA FromTyped == \A s \in Seq(Byte) : IsFrom(From(s), s)
BY FromIs DEF From

(* The sequences of F, each behind p.                                      *)
Behind(p, F) == {p \o q : q \in F}

(* What may follow: nothing, if a last record was not marked as last or    *)
(* the mark came too early.                                                *)
ToCome ==
    IF offset # 0 /\ (messageEnd <=> Remaining # 0) THEN {}
    ELSE Behind(records, From(data)[offset + 1])

(* A loop that is still going on has found out of which records the part   *)
(* of the message behind the cursor is made.                               *)
ReadSoFar ==
    result = "parsing" =>
        /\ records = <<>> <=> offset = 0
        /\ offset = 0 => ~messageEnd
        /\ \E X : records \in Seq(X)
        /\ From(data)[1] = ToCome

(* Nothing, and the empty sequence, behind p.                              *)
LEMMA BehindFew ==
    ASSUME NEW p
    PROVE  /\ Behind(p, {}) = {}
           /\ Behind(p, {<<>>}) = {p \o <<>>}
BY DEF Behind

(* At the end of the message nothing more is to be read.                   *)
LEMMA LastTurn ==
    ASSUME data \in Seq(Byte)
    PROVE  From(data)[Len(data) + 1] = {<<>>}
<1>1. IsFrom(From(data), data) /\ Len(data) \in Nat
  BY FromTyped
<1>2. From(data)[Len(data) + 1] = Glue(data, From(data), Len(data) + 1)
  BY <1>1 DEF IsFrom
<1>3. QED
  BY <1>2 DEF Glue

(* The next turn of the recursion takes the record the parser takes, and   *)
(* none where the parser refuses.                                          *)
LEMMA NextTurn ==
    ASSUME CursorInside, Remaining # 0, ~messageEnd, records = <<>> <=> offset = 0
    PROVE  From(data)[offset + 1] =
             IF RecordThere /\ (RecordEnd <=> NextAt = Len(data))
             THEN Behind(<<Decoded>>, From(data)[NextAt + 1]) ELSE {}
<1>1. /\ data \in Seq(Byte) /\ Len(data) \in Nat /\ offset \in Nat
      /\ offset < Len(data) /\ offset + 1 \in 1..(Len(data) + 1)
      /\ offset + 1 # Len(data) + 1
  BY DEF CursorInside, Remaining
<1>2. PICK i, g : i = offset + 1 /\ g = From(data)
  OBVIOUS
<1>3. g[i] = Glue(data, g, i)
  BY <1>1, <1>2, FromTyped DEF IsFrom
<1>4. ASSUME NEW j \in i..Len(data)
      PROVE  RecordsOf(SubSeq(data, i, j), i = 1, j = Len(data)) =
               IF RecordThere /\ j = NextAt /\ (RecordEnd <=> j = Len(data))
               THEN {Decoded} ELSE {}
  <2>1. PICK b : b = SubSeq(data, i, j)
    OBVIOUS
  <2>2. InFront(j, b)
    BY <1>1, <1>2, <2>1 DEF InFront
  <2>3. (i = 1) = (offset = 0)
    BY <1>1, <1>2
  <2>4. RecordsOf(b, offset = 0, j = Len(data)) =
               IF RecordThere /\ j = NextAt /\ (RecordEnd <=> j = Len(data))
               THEN {Decoded} ELSE {}
    BY <2>2, RecordAhead
  <2>5. QED
    BY <2>1, <2>3, <2>4, Zenon
<1>5. RecordThere => NextAt \in i..Len(data)
  BY <1>2, RecordInside
<1>6. ASSUME NEW x
      PROVE  x \in Glue(data, g, i) <=>
               /\ RecordThere /\ (RecordEnd <=> NextAt = Len(data))
               /\ \E rest \in g[NextAt + 1] : x = <<Decoded>> \o rest
  <2>1. x \in Glue(data, g, i) <=> \E j \in i..Len(data) : Begins(data, g, i, j, x)
    BY <1>1, <1>2, GlueHas
  <2>2. ASSUME NEW j \in i..Len(data)
        PROVE  Begins(data, g, i, j, x) <=>
                 /\ RecordThere /\ j = NextAt /\ (RecordEnd <=> j = Len(data))
                 /\ \E rest \in g[j + 1] : x = <<Decoded>> \o rest
    <3>1. PICK R : R = RecordsOf(SubSeq(data, i, j), i = 1, j = Len(data))
      OBVIOUS
    <3>2. Begins(data, g, i, j, x) <=> \E r \in R : \E rest \in g[j + 1] : x = <<r>> \o rest
      BY <3>1, Zenon DEF Begins
    <3>3. R = IF RecordThere /\ j = NextAt /\ (RecordEnd <=> j = Len(data))
              THEN {Decoded} ELSE {}
      BY <1>4, <3>1, Zenon
    <3>4. QED
      BY <3>2, <3>3, Zenon
  <2>3. QED
    BY <1>5, <2>1, <2>2, Zenon
<1>7. ASSUME NEW F, NEW x
      PROVE  x \in Behind(<<Decoded>>, F) <=> \E rest \in F : x = <<Decoded>> \o rest
  BY Zenon DEF Behind
<1>8. CASE RecordThere /\ (RecordEnd <=> NextAt = Len(data))
  <2>1. \A x : x \in Glue(data, g, i) <=> x \in Behind(<<Decoded>>, g[NextAt + 1])
    BY <1>6, <1>7, <1>8, Zenon
  <2>2. Glue(data, g, i) = Behind(<<Decoded>>, g[NextAt + 1])
    BY <2>1
  <2>3. QED
    BY <1>2, <1>3, <1>8, <2>2
<1>9. CASE ~(RecordThere /\ (RecordEnd <=> NextAt = Len(data)))
  <2>1. \A x : x \notin Glue(data, g, i)
    BY <1>6, <1>9, Zenon
  <2>2. Glue(data, g, i) = {}
    BY <2>1
  <2>3. QED
    BY <1>2, <1>3, <1>9, <2>2
<1>10. QED
  BY <1>8, <1>9

ReadInv ==
    /\ CursorInside /\ messageEnd \in BOOLEAN
    /\ ReadSoFar
    /\ ParsesWhatWasWritten

(* Taking the first of what is to come over to what was parsed.            *)
LEMMA TakenOver ==
    ASSUME NEW X, NEW p \in Seq(X), NEW r, NEW Y, NEW F \in SUBSET Seq(Y)
    PROVE  Behind(p, Behind(<<r>>, F)) = Behind(Append(p, r), F)
<1>1. ASSUME NEW rest \in F PROVE p \o (<<r>> \o rest) = Append(p, r) \o rest
  <2> DEFINE Z == X \cup Y \cup {r}
  <2>1. p \in Seq(Z) /\ rest \in Seq(Z) /\ <<r>> \in Seq(Z)
    OBVIOUS
  <2>2. Append(p, r) = p \o <<r>>
    BY <2>1
  <2> HIDE DEF Z
  <2>3. p \o (<<r>> \o rest) = (p \o <<r>>) \o rest
    BY <2>1, ConcatAssociative
  <2>4. QED
    BY <2>2, <2>3
<1>2. ASSUME NEW x
      PROVE  x \in Behind(p, Behind(<<r>>, F)) <=> \E q \in F : x = p \o (<<r>> \o q)
  <2>1. x \in Behind(p, Behind(<<r>>, F)) <=> \E q \in Behind(<<r>>, F) : x = p \o q
    BY Zenon DEF Behind
  <2>2. \A q : q \in Behind(<<r>>, F) <=> \E rest \in F : q = <<r>> \o rest
    BY Zenon DEF Behind
  <2>3. QED
    BY <2>1, <2>2, Zenon
<1>3. ASSUME NEW x
      PROVE  x \in Behind(Append(p, r), F) <=> \E q \in F : x = p \o (<<r>> \o q)
  <2>1. x \in Behind(Append(p, r), F) <=> \E q \in F : x = Append(p, r) \o q
    BY Zenon DEF Behind
  <2>2. QED
    BY <1>1, <2>1, Zenon
<1>4. QED
  BY <1>2, <1>3

(* The invariant holds before the first turn.                              *)
LEMMA StartIsRead ==
    ASSUME data \in Seq(Byte), offset = 0, messageEnd = FALSE, records = <<>>,
           result # "success", result # "failure"
    PROVE  ReadInv
<1>1. CursorInside /\ messageEnd \in BOOLEAN
  <2>1. Len(data) \in Nat
    OBVIOUS
  <2>2. messageEnd \in BOOLEAN
    BY Zenon
  <2>3. offset \in 0..Len(data)
    BY <2>1
  <2>4. QED
    BY <2>2, <2>3 DEF CursorInside
<1>2. ParsesWhatWasWritten
  BY DEF ParsesWhatWasWritten
<1>3. From(data)[1] = ToCome
  <2>1. From(data)[1] \in SUBSET Seq(Found(data))
    BY FromTyped DEF IsFrom, GlueTurns
  <2>2. \A q \in From(data)[1] : <<>> \o q = q
    BY <2>1
  <2>3. Behind(<<>>, From(data)[1]) = From(data)[1]
    BY <2>2 DEF Behind
  <2>4. ToCome = Behind(records, From(data)[0 + 1])
    BY DEF ToCome
  <2>5. QED
    BY <2>3, <2>4
<1>4. \E X : records \in Seq(X)
  <2>1. records \in Seq({})
    OBVIOUS
  <2>2. QED
    BY <2>1
<1>5. QED
  BY <1>1, <1>2, <1>3, <1>4 DEF ReadInv, ReadSoFar

(* A record taken goes from what is to come to what was parsed.            *)
LEMMA ParseStepReads ==
    ASSUME ReadInv, ParseRecord
    PROVE  ReadInv'
<1>1. /\ result = "parsing" /\ result' = "parsing" /\ data' = data
      /\ Remaining # 0 /\ RecordThere /\ ~messageEnd
      /\ offset' = NextAt /\ messageEnd' = RecordEnd
      /\ records' = Append(records, Decoded)
  BY DEF ParseRecord, RecordThere
<1>2. /\ CursorInside /\ data \in Seq(Byte) /\ Len(data) \in Nat
      /\ records = <<>> <=> offset = 0
      /\ From(data)[1] = ToCome
  BY <1>1 DEF ReadInv, ReadSoFar, CursorInside
<1>3. PICK X : records \in Seq(X)
  BY <1>1 DEF ReadInv, ReadSoFar
<1>4. NextAt \in (offset + 1)..Len(data) /\ offset \in Nat
  BY <1>1, <1>2, RecordInside DEF CursorInside
<1>5. CursorInside' /\ messageEnd' \in BOOLEAN
  BY <1>1, <1>2, <1>4 DEF CursorInside, RecordEnd, Flag
<1>6. ParsesWhatWasWritten'
  BY <1>1 DEF ParsesWhatWasWritten
<1>7. records' # <<>> /\ offset' # 0 /\ \E Y : records' \in Seq(Y)
  <2>1. records' \in Seq(X \cup {Decoded}) /\ records' # <<>>
    BY <1>1, <1>3
  <2>2. QED
    BY <1>1, <1>4, <2>1
<1>8. From(data)[1] = Behind(records, From(data)[offset + 1])
  BY <1>1, <1>2 DEF ToCome
<1>9. From(data)[offset + 1] =
        IF RecordEnd <=> NextAt = Len(data)
        THEN Behind(<<Decoded>>, From(data)[NextAt + 1]) ELSE {}
  BY <1>1, <1>2, NextTurn
<1>10. From(data)[NextAt + 1] \in SUBSET Seq(Found(data))
  <2>1. NextAt + 1 \in 1..(Len(data) + 1)
    BY <1>2, <1>4
  <2>2. QED
    BY <1>2, <2>1, FromTyped DEF IsFrom, GlueTurns
<1>11. ToCome' = IF RecordEnd <=> NextAt = Len(data)
                 THEN Behind(records', From(data)[NextAt + 1]) ELSE {}
  <2>1. Remaining' # 0 <=> NextAt # Len(data)
    BY <1>1, <1>2, <1>4 DEF Remaining
  <2>2. From(data)' = From(data)
    BY <1>1
  <2>3. ToCome' = IF RecordEnd <=> Remaining' # 0 THEN {}
                  ELSE Behind(records', From(data)[NextAt + 1])
    BY <1>1, <1>7, <2>2 DEF ToCome
  <2>4. QED
    BY <2>1, <2>3
<1>12. CASE RecordEnd <=> NextAt = Len(data)
  <2>1. From(data)[1] = Behind(records', From(data)[NextAt + 1])
    <3>1. PICK F : F = From(data)[NextAt + 1]
      OBVIOUS
    <3>2. From(data)[1] = Behind(records, Behind(<<Decoded>>, F))
      BY <1>8, <1>9, <1>12, <3>1, Zenon
    <3>3. F \in SUBSET Seq(Found(data))
      BY <1>10, <3>1, Zenon
    <3>4. From(data)[1] = Behind(records', F)
      <4>1. Behind(records, Behind(<<Decoded>>, F))
             = Behind(Append(records, Decoded), F)
        <5>1. PICK Y, p, r : Y = Found(data) /\ p = records /\ r = Decoded
          OBVIOUS
        <5>2. F \in SUBSET Seq(Y) /\ p \in Seq(X)
          BY <1>3, <3>3, <5>1, Zenon
        <5>3. Behind(p, Behind(<<r>>, F)) = Behind(Append(p, r), F)
          BY <5>2, TakenOver
        <5>4. QED
          BY <5>1, <5>3, Zenon
      <4>2. QED
        BY <1>1, <3>2, <4>1, Zenon
    <3>5. QED
      BY <3>1, <3>4, Zenon
  <2>2. From(data)'[1] = ToCome'
    BY <1>1, <1>11, <1>12, <2>1
  <2>3. QED
    BY <1>5, <1>6, <1>7, <2>2 DEF ReadInv, ReadSoFar
<1>13. CASE ~(RecordEnd <=> NextAt = Len(data))
  <2>1. From(data)[1] = {}
    BY <1>8, <1>9, <1>13, BehindFew
  <2>2. From(data)'[1] = ToCome'
    BY <1>1, <1>11, <1>13, <2>1
  <2>3. QED
    BY <1>5, <1>6, <1>7, <2>2 DEF ReadInv, ReadSoFar
<1>14. QED
  BY <1>12, <1>13

(* Where the loop gives up, no records have this encoding.                 *)
LEMMA RefuseReads ==
    ASSUME ReadInv, Refuse
    PROVE  ReadInv'
<1>1. /\ result = "parsing" /\ result' = "failure" /\ data' = data
      /\ offset' = offset /\ messageEnd' = messageEnd
      /\ IF Remaining # 0 THEN ~RecordThere ELSE ~messageEnd
  BY DEF Refuse
<1>2. /\ CursorInside /\ data \in Seq(Byte) /\ Len(data) \in Nat
      /\ records = <<>> <=> offset = 0
      /\ offset = 0 => ~messageEnd
      /\ From(data)[1] = ToCome /\ messageEnd \in BOOLEAN
  BY <1>1 DEF ReadInv, ReadSoFar, CursorInside
<1>3. MessagesOf(data) = From(data)[1] \ {<<>>}
  BY <1>2, FromTyped DEF IsFrom
<1>4. CASE Remaining # 0 /\ messageEnd
  <2>1. ToCome = {}
    BY <1>2, <1>4 DEF ToCome
  <2>2. QED
    BY <1>1, <1>2, <1>3, <2>1
    DEF ReadInv, ReadSoFar, CursorInside, ParsesWhatWasWritten
<1>5. CASE Remaining # 0 /\ ~messageEnd
  <2>1. From(data)[offset + 1] = {}
    BY <1>1, <1>2, <1>5, NextTurn
  <2>2. ToCome = {}
    BY <2>1, BehindFew DEF ToCome
  <2>3. QED
    BY <1>1, <1>2, <1>3, <2>2
    DEF ReadInv, ReadSoFar, CursorInside, ParsesWhatWasWritten
<1>6. CASE Remaining = 0
  <2>1. ToCome \subseteq {<<>>}
    <3>1. CASE offset # 0
      BY <1>1, <1>6, <3>1 DEF ToCome
    <3>2. CASE offset = 0
      <4>1. Len(data) = 0 /\ records = <<>>
        BY <1>2, <1>6, <3>2 DEF Remaining
      <4>2. From(data)[offset + 1] = {<<>>}
        BY <1>2, <3>2, <4>1, LastTurn
      <4>3. <<>> \o <<>> = <<>>
        OBVIOUS
      <4>4. QED
        BY <3>2, <4>1, <4>2, <4>3, BehindFew DEF ToCome
    <3>3. QED
      BY <3>1, <3>2
  <2>2. QED
    BY <1>1, <1>2, <1>3, <2>1
    DEF ReadInv, ReadSoFar, CursorInside, ParsesWhatWasWritten
<1>7. QED
  BY <1>4, <1>5, <1>6

(* Where it succeeds, there are no others than those parsed.               *)
LEMMA FinishReads ==
    ASSUME ReadInv, Finish
    PROVE  ReadInv'
<1>1. /\ result = "parsing" /\ result' = "success" /\ UNCHANGED <<data, records>>
      /\ offset' = offset /\ messageEnd' = messageEnd
      /\ Remaining = 0 /\ messageEnd
  BY DEF Finish
<1>2. /\ CursorInside /\ data \in Seq(Byte) /\ Len(data) \in Nat
      /\ records = <<>> <=> offset = 0
      /\ offset = 0 => ~messageEnd
      /\ From(data)[1] = ToCome /\ messageEnd \in BOOLEAN
  BY <1>1 DEF ReadInv, ReadSoFar, CursorInside
<1>3. PICK X : records \in Seq(X)
  BY <1>1 DEF ReadInv, ReadSoFar
<1>4. MessagesOf(data) = From(data)[1] \ {<<>>}
  BY <1>2, FromTyped DEF IsFrom
<1>5. offset # 0 /\ records # <<>> /\ offset + 1 = Len(data) + 1
  BY <1>1, <1>2 DEF Remaining, CursorInside
<1>6. From(data)[offset + 1] = {<<>>}
  BY <1>2, <1>5, LastTurn
<1>7. records \o <<>> = records
  BY <1>3
<1>8. ToCome = {records}
  BY <1>1, <1>5, <1>6, <1>7, BehindFew DEF ToCome
<1>9. MessagesOf(data) = {records}
  BY <1>2, <1>4, <1>5, <1>8
<1>10. QED
  BY <1>1, <1>2, <1>9
  DEF ReadInv, ReadSoFar, CursorInside, ParsesWhatWasWritten

(* parseNdefMessage accepts a message exactly if it is the encoding of     *)
(* some records, for every message, and hands on these records.            *)
THEOREM WhatWasWrittenIsParsed == Spec => []ParsesWhatWasWritten
<1>1. Init => ReadInv
  BY StartIsRead, MessagesAssumption DEF Init
<1>2. ReadInv /\ [Next]_vars => ReadInv'
  <2> SUFFICES ASSUME ReadInv, [Next]_vars PROVE ReadInv'
    OBVIOUS
  <2>1. CASE UNCHANGED vars
    BY <2>1 DEF vars, ReadInv, ReadSoFar, CursorInside, ParsesWhatWasWritten,
                ToCome, Remaining
  <2>2. QED
    BY <2>1, ParseStepReads, RefuseReads, FinishReads DEF Next
<1>3. ReadInv => ParsesWhatWasWritten
  BY DEF ReadInv
<1>4. QED
  BY <1>1, <1>2, <1>3, PTL DEF Spec
=============================================================================
