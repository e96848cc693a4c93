-------------------------- MODULE Encodings_proofs --------------------------
(***************************************************************************)
(* What the encodings compute, for frames, codes and scales of every size: *)
(* base64 is undone by its decoder, cut keeps what follows the prefix of   *)
(* zbarimg, and a code on paper has the squares of the code.               *)
(***************************************************************************)
EXTENDS Encodings, FiniteSetTheorems, TLAPS

(* Written with bounds: the provers list the elements of an interval of    *)
(* numerals.                                                               *)
Byte == {b \in Nat : b < 256}

-----------------------------------------------------------------------------
(* Max and Min are choices; these are the values they choose. *)

(* The element below or at all others is the minimum. *)
LEMMA MinIs ==
    ASSUME NEW S \in SUBSET Int, NEW m \in S, \A k \in S : m =< k
    PROVE  Min(S) = m
  <1>1. PICK c : c = Min(S)
    OBVIOUS
  <1>2. c \in S /\ \A k \in S : c =< k
    BY <1>1, Zenon DEF Min
  <1>3. c \in Int /\ m \in Int /\ c =< m /\ m =< c
    BY <1>2
  <1> QED
    BY <1>1, <1>3

(* The element above or at all others is the maximum. *)
LEMMA MaxIs ==
    ASSUME NEW S \in SUBSET Int, NEW m \in S, \A k \in S : m >= k
    PROVE  Max(S) = m
  <1>1. PICK c : c = Max(S)
    OBVIOUS
  <1>2. c \in S /\ \A k \in S : c >= k
    BY <1>1, Zenon DEF Max
  <1>3. c \in Int /\ m \in Int /\ c =< m /\ m =< c
    BY <1>2
  <1> QED
    BY <1>1, <1>3

(* The larger of two numbers is the maximum of their set. *)
LEMMA MaxOfTwo ==
    ASSUME NEW a \in Int, NEW b \in Int
    PROVE  Max({a, b}) = IF a >= b THEN a ELSE b
  <1>1. CASE a >= b
    BY <1>1, MaxIs
  <1>2. CASE ~(a >= b)
    BY <1>2, MaxIs
  <1> QED
    BY <1>1, <1>2

(* Every set of naturals that is not empty has a least element. *)
LEMMA LeastNatural ==
    ASSUME NEW T \in SUBSET Nat, T # {}
    PROVE  \E x \in T : \A y \in T : x =< y
  <1> DEFINE R == OpToRel(<, Nat)
  <1>1. \E x \in T : \A y \in T : ~(<<y, x>> \in R)
    BY WFMin, NatLessThanWellFounded
  <1>2. \A x, y \in T : y < x => <<y, x>> \in R
    BY DEF OpToRel
  <1> HIDE DEF R
  <1>3. PICK x \in T : \A y \in T : ~(<<y, x>> \in R)
    BY <1>1
  <1>4. \A y \in T : ~(y < x)
    BY <1>2, <1>3
  <1> QED
    BY <1>4

(* Min finds it. *)
LEMMA MinOfNaturals ==
    ASSUME NEW T \in SUBSET Nat, T # {}
    PROVE  Min(T) \in T /\ \A y \in T : Min(T) =< y
  BY LeastNatural, Zenon DEF Min

(* Max finds the largest of a set of naturals with a bound. *)
LEMMA MaxOfNaturals ==
    ASSUME NEW T \in SUBSET Nat, T # {}, NEW n \in Nat, \A x \in T : x =< n
    PROVE  Max(T) \in T /\ \A y \in T : Max(T) >= y
  <1> DEFINE D == {d \in Nat : n - d \in T}
  <1>1. D # {}
    <2>1. PICK x \in T : TRUE
      OBVIOUS
    <2>2. n - x \in Nat /\ n - (n - x) = x
      BY <2>1
    <2> QED
      BY <2>1, <2>2
  <1>2. PICK d \in D : \A e \in D : d =< e
    BY <1>1, LeastNatural
  <1>3. \A y \in T : n - y \in Nat /\ n - (n - y) = y
    OBVIOUS
  <1>4. \A y \in T : d =< n - y
    BY <1>2, <1>3
  <1>5. n - d \in T /\ \A y \in T : n - d >= y
    BY <1>4
  <1> QED
    BY <1>5, Zenon DEF Max

(* A function on 1 .. n is a sequence of length n. *)
LEMMA LengthIs ==
    ASSUME NEW f, NEW n \in Nat, f = [i \in 1 .. n |-> f[i]]
    PROVE  Len(f) = n
  BY SMT

-----------------------------------------------------------------------------
(* Base64, three bytes and four sextets at a time. *)

(* Two divisions by 64 are one by 4096, three one by 262144. *)
LEMMA NestedDivision ==
    ASSUME NEW t \in Nat
    PROVE  /\ (t \div 64) \div 64 = t \div 4096
           /\ (t \div 4096) \div 64 = t \div 262144
  BY SMT

(* A number is its quotient by 64 and its remainder. *)
LEMMA DivisionBy64 ==
    ASSUME NEW t \in Nat
    PROVE  t = (t \div 64) * 64 + (t % 64)
  BY SMT

(* The four sextets of a triple of bytes put together are the triple. *)
LEMMA SextetsOfTriple ==
    ASSUME NEW t \in Nat, t < 16777216
    PROVE  ((t \div 262144) % 64) * 262144 + ((t \div 4096) % 64) * 4096
              + ((t \div 64) % 64) * 64 + (t % 64) = t
  <1> DEFINE a == t \div 64
             b == t \div 4096
             c == t \div 262144
  <1>1. a \in Nat /\ b \in Nat /\ c \in Nat /\ c < 64
    BY SMT
  <1>2. t = a * 64 + (t % 64)
    BY DivisionBy64, SMT
  <1>3. a = b * 64 + (a % 64)
    BY NestedDivision, DivisionBy64, <1>1, SMT
  <1>4. b = c * 64 + (b % 64)
    BY NestedDivision, DivisionBy64, <1>1, SMT
  <1>5. c % 64 = c
    BY <1>1, SMT
  <1> HIDE DEF a, b, c
  <1>6. (c % 64) * 262144 + (b % 64) * 4096 + (a % 64) * 64 + (t % 64) = t
    BY <1>1, <1>2, <1>3, <1>4, <1>5, SMT
  <1> QED
    BY <1>6, SMT DEF a, b, c

(* The place values of the four sextets. *)
LEMMA SextetWeight ==
    ASSUME NEW r \in 0 .. 3
    PROVE  /\ r = 0 => 2^(6 * (3 - r)) = 262144
           /\ r = 1 => 2^(6 * (3 - r)) = 4096
           /\ r = 2 => 2^(6 * (3 - r)) = 64
           /\ r = 3 => 2^(6 * (3 - r)) = 1
  <1>1. r = 0 => 2^(6 * (3 - r)) = 262144
    BY SMT
  <1>2. r = 1 => 2^(6 * (3 - r)) = 4096
    BY SMT
  <1>3. r = 2 => 2^(6 * (3 - r)) = 64
    BY SMT
  <1>4. r = 3 => 2^(6 * (3 - r)) = 1
    BY SMT
  <1> QED
    BY <1>1, <1>2, <1>3, <1>4, SMT

(* The place values of the three bytes. *)
LEMMA OctetWeight ==
    ASSUME NEW r \in 0 .. 2
    PROVE  /\ r = 0 => 2^(8 * (2 - r)) = 65536
           /\ r = 1 => 2^(8 * (2 - r)) = 256
           /\ r = 2 => 2^(8 * (2 - r)) = 1
  <1>1. r = 0 => 2^(8 * (2 - r)) = 65536
    BY SMT
  <1>2. r = 1 => 2^(8 * (2 - r)) = 256
    BY SMT
  <1>3. r = 2 => 2^(8 * (2 - r)) = 1
    BY SMT
  <1> QED
    BY <1>1, <1>2, <1>3, SMT

(* The decoding table undoes the encoding table, which has no `=' and no   *)
(* newline.                                                                *)
LEMMA TableUndone ==
    ASSUME NEW s \in 0 .. 63
    PROVE  /\ encoding_table[s] \in Int /\ encoding_table[s] # EQUALS
           /\ encoding_table[s] # LF
           /\ decoding_table[encoding_table[s]] = s
  <1>1. \A r \in 0 .. 63 : encoding_table[r] \in Int /\ encoding_table[r] # 61
                           /\ encoding_table[r] # 10
    BY DEF encoding_table
  <1>2. \A r \in 0 .. 63 : encoding_table[r] = encoding_table[s] => r = s
    BY DEF encoding_table
  <1>3. decoding_table[encoding_table[s]]
          = CHOOSE r \in 0 .. 63 : encoding_table[r] = encoding_table[s]
    BY Zenon DEF decoding_table
  <1> QED
    BY <1>1, <1>2, <1>3, Zenon DEF EQUALS, LF

(* The parts of base64_encode: the bytes with zeros behind them, three of  *)
(* them as one number, and the four sextets of that number.                *)
Octet(data, i) == IF i =< Len(data) THEN data[i] ELSE 0
Triple(data, g) == Octet(data, 3 * g + 1) * 2^16 + Octet(data, 3 * g + 2) * 2^8
                   + Octet(data, 3 * g + 3)
Sextet(data, j) == (Triple(data, (j - 1) \div 4) \div 2^(6 * (3 - ((j - 1) % 4)))) % 64
EncodedLength(data) == 4 * ((Len(data) + 2) \div 3)

(* What the decoder makes of a character. *)
DecodedSextet(text, i) == IF text[i] = EQUALS THEN 0 ELSE decoding_table[text[i]]

(* The encoder's result, character by character. *)
LEMMA Encoded ==
    ASSUME NEW data \in Seq(Byte)
    PROVE  base64_encode(data) =
               [j \in 1 .. EncodedLength(data) |->
                   IF j > EncodedLength(data) - mod_table[Len(data) % 3]
                   THEN EQUALS
                   ELSE encoding_table[Sextet(data, j)]]
  BY Zenon DEF base64_encode, EncodedLength, Sextet, Triple, Octet

(* Three bytes, zeros included, are a number of 24 bits. *)
LEMMA OctetType ==
    ASSUME NEW data \in Seq(Byte), NEW i \in Nat \ {0}
    PROVE  Octet(data, i) \in Byte
  <1>1. 0 \in Byte
    BY DEF Byte
  <1> QED
    BY <1>1 DEF Octet

(* The triple of group g is the sum of its bytes in their places. *)
LEMMA TripleIsSum ==
    ASSUME NEW data \in Seq(Byte), NEW g \in Nat
    PROVE  /\ \A i \in 1 .. 3 : Octet(data, 3 * g + i) \in Byte
           /\ Triple(data, g) = Octet(data, 3 * g + 1) * 65536
                                + Octet(data, 3 * g + 2) * 256 + Octet(data, 3 * g + 3)
  <1>1. \A i \in 1 .. 3 : 3 * g + i \in Nat \ {0}
    BY SMT
  <1>2. \A i \in 1 .. 3 : Octet(data, 3 * g + i) \in Byte
    BY <1>1, OctetType, Zenon
  <1>3. 2^16 = 65536 /\ 2^8 = 256
    BY SMT
  <1>4. Triple(data, g) = Octet(data, 3 * g + 1) * 65536
                          + Octet(data, 3 * g + 2) * 256 + Octet(data, 3 * g + 3)
    BY <1>3, SMT DEF Triple
  <1> QED
    BY <1>2, <1>4, SMT

(* The triple is a number. *)
LEMMA TripleType ==
    ASSUME NEW data \in Seq(Byte), NEW g \in Nat
    PROVE  Triple(data, g) \in Nat
  <1>1. PICK a, b, c : /\ a = Octet(data, 3 * g + 1)
                       /\ b = Octet(data, 3 * g + 2)
                       /\ c = Octet(data, 3 * g + 3)
    OBVIOUS
  <1>2. a \in Byte /\ b \in Byte /\ c \in Byte
    BY <1>1, OctetType
  <1>3. Triple(data, g) = a * 65536 + b * 256 + c
    BY <1>1, TripleIsSum, SMT
  <1> QED
    BY <1>2, <1>3, SMT DEF Byte

(* The three bytes of group g are those of its triple, and where they are  *)
(* zero so are the sextets that stand for no other byte.                   *)
LEMMA TripleParts ==
    ASSUME NEW data \in Seq(Byte), NEW g \in Nat
    PROVE  /\ Triple(data, g) < 16777216
           /\ (Triple(data, g) \div 65536) % 256 = Octet(data, 3 * g + 1)
           /\ (Triple(data, g) \div 256) % 256 = Octet(data, 3 * g + 2)
           /\ Triple(data, g) % 256 = Octet(data, 3 * g + 3)
           /\ Octet(data, 3 * g + 3) = 0 => Triple(data, g) % 64 = 0
           /\ Octet(data, 3 * g + 2) = 0 /\ Octet(data, 3 * g + 3) = 0
                 => (Triple(data, g) \div 64) % 64 = 0
  <1>1. PICK a, b, c, t : /\ a = Octet(data, 3 * g + 1)
                          /\ b = Octet(data, 3 * g + 2)
                          /\ c = Octet(data, 3 * g + 3)
                          /\ t = Triple(data, g)
    OBVIOUS
  <1>2. a \in Byte /\ b \in Byte /\ c \in Byte /\ t \in Nat
    BY <1>1, TripleIsSum, TripleType, SMT
  <1>3. t = a * 65536 + b * 256 + c
    BY <1>1, TripleIsSum, SMT
  <1>4. /\ t < 16777216
        /\ (t \div 65536) % 256 = a
        /\ (t \div 256) % 256 = b
        /\ t % 256 = c
        /\ c = 0 => t % 64 = 0
        /\ b = 0 /\ c = 0 => (t \div 64) % 64 = 0
    BY <1>2, <1>3, SMT DEF Byte
  <1> QED
    BY <1>1, <1>4, SMT

(* The sextets of a group, by the place values. *)
LEMMA SextetIs ==
    ASSUME NEW data \in Seq(Byte), NEW g \in Nat, NEW k \in 1 .. 4
    PROVE  Sextet(data, 4 * g + k) = (Triple(data, g) \div 2^(6 * (3 - (k - 1)))) % 64
  <1>1. (4 * g + k - 1) \div 4 = g /\ (4 * g + k - 1) % 4 = k - 1
    BY SMT
  <1> QED
    BY <1>1, SMT DEF Sextet

(* A sextet is below 64. *)
LEMMA SextetType ==
    ASSUME NEW data \in Seq(Byte), NEW g \in Nat, NEW k \in 1 .. 4
    PROVE  Sextet(data, 4 * g + k) \in 0 .. 63
  <1>1. \A v \in Nat : v % 64 \in 0 .. 63
    BY SMT
  <1>2. PICK q \in Nat \ {0} : q = 2^(6 * (3 - (k - 1)))
    <2>1. CASE k = 1
      BY <2>1, SMT
    <2>2. CASE k = 2
      BY <2>2, SMT
    <2>3. CASE k = 3
      BY <2>3, SMT
    <2>4. CASE k = 4
      BY <2>4, SMT
    <2> QED
      BY <2>1, <2>2, <2>3, <2>4
  <1>3. Triple(data, g) \div q \in Nat
    <2>1. \A t \in Nat : t \div q \in Nat
      BY SMT
    <2> QED
      BY <2>1, TripleType
  <1>4. Sextet(data, 4 * g + k) = (Triple(data, g) \div q) % 64
    BY <1>2, SextetIs, Zenon
  <1> QED
    BY <1>1, <1>3, <1>4, Zenon

(* Sextet j is that of its place in its triple. *)
LEMMA SextetOfTriple ==
    ASSUME NEW data \in Seq(Byte), NEW g \in Nat
    PROVE  /\ Sextet(data, 4 * g + 1) = (Triple(data, g) \div 262144) % 64
           /\ Sextet(data, 4 * g + 2) = (Triple(data, g) \div 4096) % 64
           /\ Sextet(data, 4 * g + 3) = (Triple(data, g) \div 64) % 64
           /\ Sextet(data, 4 * g + 4) = Triple(data, g) % 64
  <1>2. \A k \in 1 .. 4 : Sextet(data, 4 * g + k)
                            = (Triple(data, g) \div 2^(6 * (3 - (k - 1)))) % 64
    BY SextetIs, Zenon
  <1>3. Triple(data, g) \in Nat
    BY TripleType
  <1>4. Sextet(data, 4 * g + 1) = (Triple(data, g) \div 262144) % 64
    BY <1>2, <1>3, SMT
  <1>5. Sextet(data, 4 * g + 2) = (Triple(data, g) \div 4096) % 64
    BY <1>2, <1>3, SMT
  <1>6. Sextet(data, 4 * g + 3) = (Triple(data, g) \div 64) % 64
    BY <1>2, <1>3, SMT
  <1>7. Sextet(data, 4 * g + 4) = Triple(data, g) % 64
    BY <1>2, <1>3, SMT
  <1> QED
    BY <1>4, <1>5, <1>6, <1>7, SMT


(* How many characters of the last four stand for no byte. *)
LEMMA PaddingOf ==
    mod_table[0] = 0 /\ mod_table[1] = 2 /\ mod_table[2] = 1
  BY DEF mod_table

(* The last group, by the remainder of the length. *)
LEMMA LastGroup ==
    ASSUME NEW n \in Nat \ {0}
    PROVE  \E q \in Nat : /\ 4 * ((n + 2) \div 3) = 4 * q + 4
                        /\ \/ n = 3 * q + 3 /\ mod_table[n % 3] = 0
                           \/ n = 3 * q + 1 /\ mod_table[n % 3] = 2
                           \/ n = 3 * q + 2 /\ mod_table[n % 3] = 1
  <1>1. CASE n % 3 = 0
    <2>1. PICK q \in Nat : n = 3 * q + 3
      BY <1>1, n = 3 * (n \div 3), n \div 3 \in Nat, n \div 3 # 0, (n \div 3) - 1 \in Nat, SMT
    <2>2. (n + 2) \div 3 = q + 1
      BY <2>1, SMT
    <2> QED
      BY <1>1, <2>1, <2>2, PaddingOf, SMT
  <1>2. CASE n % 3 = 1
    <2>1. PICK q \in Nat : n = 3 * q + 1
      BY <1>2, n = 3 * (n \div 3) + 1, n \div 3 \in Nat, SMT
    <2>2. (n + 2) \div 3 = q + 1
      BY <2>1, SMT
    <2> QED
      BY <1>2, <2>1, <2>2, PaddingOf, SMT
  <1>3. CASE n % 3 = 2
    <2>1. PICK q \in Nat : n = 3 * q + 2
      BY <1>3, n = 3 * (n \div 3) + 2, n \div 3 \in Nat, SMT
    <2>2. (n + 2) \div 3 = q + 1
      BY <2>1, SMT
    <2> QED
      BY <1>3, <2>1, <2>2, PaddingOf, SMT
  <1> QED
    BY <1>1, <1>2, <1>3, SMT

(* A character is decoded to the sextet it was made from, and `=' to zero, *)
(* which that sextet is.                                                   *)
LEMMA SextetUndone ==
    ASSUME NEW data \in Seq(Byte), data # <<>>,
           NEW g \in Nat, NEW k \in 1 .. 4, 4 * g + k =< EncodedLength(data)
    PROVE  DecodedSextet(base64_encode(data), 4 * g + k) = Sextet(data, 4 * g + k)
  <1> DEFINE text == base64_encode(data)
  <1>1. PICK n, L, j, m : /\ n = Len(data) /\ L = EncodedLength(data)
                          /\ j = 4 * g + k /\ m = mod_table[n % 3]
    OBVIOUS
  <1>2. PICK q \in Nat : /\ L = 4 * q + 4
                         /\ \/ n = 3 * q + 3 /\ m = 0
                            \/ n = 3 * q + 1 /\ m = 2
                            \/ n = 3 * q + 2 /\ m = 1
    <2>1. n \in Nat \ {0} /\ L = 4 * ((n + 2) \div 3)
      BY <1>1 DEF EncodedLength
    <2> QED
      BY <1>1, <2>1, LastGroup, Zenon
  <1>3. j \in 1 .. L /\ g =< q
    BY <1>1, <1>2
  <1>4. text[j] = IF j > L - m THEN EQUALS ELSE encoding_table[Sextet(data, j)]
    BY <1>1, <1>3, Encoded, Zenon
  <1>5. Sextet(data, j) \in 0 .. 63
    BY <1>1, SextetType
  <1>6. CASE ~(j > L - m)
    <2>1. text[j] = encoding_table[Sextet(data, j)]
      BY <1>4, <1>6
    <2> HIDE DEF text
    <2>2. text[j] # EQUALS /\ decoding_table[text[j]] = Sextet(data, j)
      BY <2>1, <1>5, TableUndone, Zenon
    <2> QED
      BY <1>1, <2>2, Zenon DEF DecodedSextet, text
  <1>7. CASE j > L - m
    <2>1. DecodedSextet(text, j) = 0
      BY <1>4, <1>7, Zenon DEF DecodedSextet
    <2>2. g = q /\ (k = 4 \/ k = 3) /\ n < 3 * q + 3 /\ (k = 3 => n < 3 * q + 2)
      BY <1>1, <1>2, <1>3, <1>7
    <2>3. Octet(data, 3 * g + 3) = 0
      BY <1>1, <1>2, <2>2 DEF Octet
    <2>4. k = 3 => Octet(data, 3 * g + 2) = 0
      BY <1>1, <1>2, <2>2 DEF Octet
    <2>5. CASE k = 4
      <3>1. Sextet(data, j) = Triple(data, g) % 64
        BY <1>1, <2>5, SextetOfTriple, SMT
      <3> QED
        BY <1>1, <2>1, <2>3, <3>1, TripleParts, SMT
    <2>6. CASE k = 3
      <3>1. Sextet(data, j) = (Triple(data, g) \div 64) % 64
        BY <1>1, <2>6, SextetOfTriple, SMT
      <3> QED
        BY <1>1, <2>1, <2>3, <2>4, <2>6, <3>1, TripleParts, SMT
    <2> QED
      BY <2>2, <2>5, <2>6
  <1> QED
    BY <1>6, <1>7

(* The triple the decoder puts together for group g. *)
DecodedTriple(text, g) ==
    DecodedSextet(text, 4 * g + 1) * 2^18 + DecodedSextet(text, 4 * g + 2) * 2^12
    + DecodedSextet(text, 4 * g + 3) * 2^6 + DecodedSextet(text, 4 * g + 4)

(* It is the triple of the encoder. *)
LEMMA TripleUndone ==
    ASSUME NEW data \in Seq(Byte), data # <<>>,
           NEW g \in Nat, 4 * g + 4 =< EncodedLength(data)
    PROVE  DecodedTriple(base64_encode(data), g) = Triple(data, g)
  <1> DEFINE text == base64_encode(data)
  <1>1. PICK t \in Nat : t = Triple(data, g)
    BY TripleType
  <1>2. EncodedLength(data) \in Nat
    BY DEF EncodedLength
  <1>3. \A k \in 1 .. 4 : DecodedSextet(text, 4 * g + k) = Sextet(data, 4 * g + k)
    BY <1>2, SextetUndone
  <1>4. PICK a, b, c, d : /\ a = DecodedSextet(text, 4 * g + 1)
                          /\ b = DecodedSextet(text, 4 * g + 2)
                          /\ c = DecodedSextet(text, 4 * g + 3)
                          /\ d = DecodedSextet(text, 4 * g + 4)
    OBVIOUS
  <1>5. /\ a = Sextet(data, 4 * g + 1) /\ b = Sextet(data, 4 * g + 2)
        /\ c = Sextet(data, 4 * g + 3) /\ d = Sextet(data, 4 * g + 4)
    BY <1>3, <1>4
  <1>6. /\ a = (t \div 262144) % 64 /\ b = (t \div 4096) % 64
        /\ c = (t \div 64) % 64 /\ d = t % 64
    BY <1>1, <1>5, SextetOfTriple, SMT
  <1>7. t < 16777216
    BY <1>1, TripleParts, SMT
  <1>8. a * 262144 + b * 4096 + c * 64 + d = t
    BY <1>6, <1>7, SextetsOfTriple, SMT
  <1>9. 2^18 = 262144 /\ 2^12 = 4096 /\ 2^6 = 64
    BY SMT
  <1>10. DecodedTriple(text, g) = a * 262144 + b * 4096 + c * 64 + d
    BY <1>4, <1>9, SMT DEF DecodedTriple
  <1> QED
    BY <1>1, <1>8, <1>10, SMT

(* The decoder counts as many `=' as the encoder wrote. *)
LEMMA PaddingCounted ==
    ASSUME NEW data \in Seq(Byte), data # <<>>,
           NEW L, L = EncodedLength(data), NEW text, text = base64_encode(data)
    PROVE  Cardinality({i \in {L - 1, L} : text[i] = EQUALS}) = mod_table[Len(data) % 3]
  <1>1. PICK n, m : n = Len(data) /\ m = mod_table[n % 3]
    OBVIOUS
  <1>2. PICK q \in Nat : /\ L = 4 * q + 4
                         /\ \/ n = 3 * q + 3 /\ m = 0
                            \/ n = 3 * q + 1 /\ m = 2
                            \/ n = 3 * q + 2 /\ m = 1
    <2>1. n \in Nat \ {0} /\ L = 4 * ((n + 2) \div 3)
      BY <1>1 DEF EncodedLength
    <2> QED
      BY <1>1, <2>1, LastGroup, Zenon
  <1>3. ASSUME NEW i \in {L - 1, L}
        PROVE  text[i] = EQUALS <=> i > L - m
    <2>1. i \in 1 .. L
      BY <1>2
    <2>2. text[i] = IF i > L - m THEN EQUALS ELSE encoding_table[Sextet(data, i)]
      BY <1>1, <2>1, Encoded, Zenon
    <2>3. PICK k \in 1 .. 4 : i = 4 * q + k
      BY <1>2
    <2>4. encoding_table[Sextet(data, i)] # EQUALS
      BY <2>3, SextetType, TableUndone
    <2> QED
      BY <2>2, <2>4
  <1>4. {i \in {L - 1, L} : text[i] = EQUALS} = {i \in {L - 1, L} : i > L - m}
    BY <1>3
  <1>5. CASE m = 0
    <2>1. {i \in {L - 1, L} : i > L - m} = {}
      BY <1>2, <1>5
    <2> QED
      BY <1>1, <1>4, <1>5, <2>1, FS_EmptySet
  <1>6. CASE m = 1
    <2>1. {i \in {L - 1, L} : i > L - m} = {L}
      BY <1>2, <1>6
    <2> QED
      BY <1>1, <1>4, <1>6, <2>1, FS_Singleton
  <1>7. CASE m = 2
    <2>1. {i \in {L - 1, L} : i > L - m} = {L - 1} \cup {L}
      BY <1>2, <1>7
    <2>2. Cardinality({L - 1} \cup {L}) = Cardinality({L - 1}) + 1
      BY <1>2, FS_Singleton, FS_AddElement, L \notin {L - 1}
    <2>3. Cardinality({L - 1}) = 1
      BY FS_Singleton
    <2>4. Cardinality({L - 1} \cup {L}) = 2
      BY <2>2, <2>3
    <2> QED
      BY <1>1, <1>4, <1>7, <2>1, <2>4
  <1> QED
    BY <1>2, <1>5, <1>6, <1>7

(* Decoding undoes encoding, for frames of every length. *)
THEOREM Base64Undone ==
    ASSUME NEW data \in Seq(Byte), data # <<>>
    PROVE  base64_decode(base64_encode(data)) = data
  <1>1. PICK text : text = base64_encode(data)
    OBVIOUS
  <1>2. PICK n, L, m : n = Len(data) /\ L = EncodedLength(data) /\ m = mod_table[n % 3]
    OBVIOUS
  <1>3. PICK q \in Nat : /\ L = 4 * q + 4
                         /\ \/ n = 3 * q + 3 /\ m = 0
                            \/ n = 3 * q + 1 /\ m = 2
                            \/ n = 3 * q + 2 /\ m = 1
    <2>1. n \in Nat \ {0} /\ L = 4 * ((n + 2) \div 3)
      BY <1>2 DEF EncodedLength
    <2> QED
      BY <1>2, <2>1, LastGroup, Zenon
  <1>4. Len(text) = L
    <2>1. text = [j \in 1 .. L |-> text[j]]
      BY <1>1, <1>2, Encoded, Zenon
    <2> QED
      BY <1>3, <2>1, LengthIs
  <1>5. L % 4 = 0 /\ (L \div 4) * 3 - m = n
    BY <1>3
  <1>6. base64_decode(text) =
          [j \in 1 .. n |->
              (DecodedTriple(text, (j - 1) \div 3) \div 2^(8 * (2 - ((j - 1) % 3)))) % 256]
    <2>1. Cardinality({i \in {L - 1, L} : text[i] = EQUALS}) = m
      BY <1>1, <1>2, PaddingCounted
    <2>2. base64_decode(text) =
            [j \in 1 .. (L \div 4) * 3 - m |->
              (DecodedTriple(text, (j - 1) \div 3) \div 2^(8 * (2 - ((j - 1) % 3)))) % 256]
      BY <1>4, <1>5, <2>1, Zenon DEF base64_decode, DecodedTriple, DecodedSextet
    <2> QED
      BY <1>5, <2>2
  <1>7. ASSUME NEW j \in 1 .. n
        PROVE  (DecodedTriple(text, (j - 1) \div 3) \div 2^(8 * (2 - ((j - 1) % 3)))) % 256
                 = data[j]
    <2>1. PICK g, r : g = (j - 1) \div 3 /\ r = (j - 1) % 3
      OBVIOUS
    <2>2. g \in Nat /\ r \in 0 .. 2 /\ j = 3 * g + r + 1
      BY <1>2, <2>1
    <2>3. 4 * g + 4 =< L
      BY <1>3, <2>2
    <2>4. PICK t \in Nat : t = Triple(data, g)
      BY <2>2, TripleType
    <2>5. DecodedTriple(text, g) = t
      BY <1>1, <1>2, <2>2, <2>3, <2>4, TripleUndone, Zenon
    <2>6. PICK w : w = 2^(8 * (2 - r))
      OBVIOUS
    <2>7. (t \div w) % 256 = Octet(data, j)
      <3>1. CASE r = 0
        <4>1. (t \div 65536) % 256 = Octet(data, 3 * g + 1)
          BY <2>2, <2>4, TripleParts, SMT
        <4> QED
          BY <2>2, <2>6, <3>1, <4>1, OctetWeight, SMT
      <3>2. CASE r = 1
        <4>1. (t \div 256) % 256 = Octet(data, 3 * g + 2)
          BY <2>2, <2>4, TripleParts, SMT
        <4> QED
          BY <2>2, <2>6, <3>2, <4>1, OctetWeight, SMT
      <3>3. CASE r = 2
        <4>1. t % 256 = Octet(data, 3 * g + 3)
          BY <2>2, <2>4, TripleParts, SMT
        <4>2. w = 1
          BY <2>2, <2>6, <3>3, SMT
        <4> QED
          BY <2>2, <2>4, <3>3, <4>1, <4>2, SMT
      <3> QED
        BY <2>2, <3>1, <3>2, <3>3
    <2>8. Octet(data, j) = data[j]
      BY <1>2 DEF Octet
    <2> QED
      BY <2>1, <2>5, <2>6, <2>7, <2>8, Zenon
  <1>8. data = [j \in 1 .. n |-> data[j]]
    BY <1>2
  <1> QED
    BY <1>1, <1>6, <1>7, <1>8, Zenon

-----------------------------------------------------------------------------
(* The frames file. *)

(* A frame is a sequence of bytes, at least ETHER_MIN_LEN and at most      *)
(* ETHER_MAX_LEN of them, or NULL for more bytes than that.                *)
LEMMA FrameIs ==
    ASSUME NEW bytes \in Seq(Byte), NEW beyond \in Byte,
           NEW sent, sent = pigeon_frame_new(bytes, beyond), sent # NULL
    PROVE  /\ sent \in Seq(Byte) /\ sent # <<>>
           /\ ETHER_MIN_LEN =< Len(sent) /\ Len(sent) =< ETHER_MAX_LEN
  <1>1. PICK n : n = Max({Len(bytes), ETHER_MIN_LEN})
    OBVIOUS
  <1>2. /\ n \in Nat \ {0} /\ ETHER_MIN_LEN =< n
        /\ Len(bytes) =< ETHER_MAX_LEN => n =< ETHER_MAX_LEN
    BY <1>1, MaxOfTwo, FrameLengthsAssumption
  <1>3. ~(Len(bytes) > ETHER_MAX_LEN)
    BY Zenon DEF pigeon_frame_new
  <1>4. sent = [i \in 1 .. n |-> IF i =< Len(bytes) THEN bytes[i] ELSE beyond]
    BY <1>1, <1>3, Zenon DEF pigeon_frame_new
  <1>5. sent \in [1 .. n -> Byte]
    BY <1>2, <1>4
  <1>6. sent \in Seq(Byte) /\ Len(sent) = n
    BY <1>2, <1>5
  <1> QED
    BY <1>2, <1>3, <1>6, FrameLengthsAssumption

(* Nothing is added to a frame that was padded already. *)
LEMMA PaddedOnce ==
    ASSUME NEW sent \in Seq(Byte), NEW later,
           ETHER_MIN_LEN =< Len(sent), Len(sent) =< ETHER_MAX_LEN
    PROVE  pigeon_frame_new(sent, later) = sent
  <1>1. Max({Len(sent), ETHER_MIN_LEN}) = Len(sent)
    BY MaxOfTwo, FrameLengthsAssumption
  <1>2. ~(Len(sent) > ETHER_MAX_LEN)
    BY FrameLengthsAssumption
  <1>3. pigeon_frame_new(sent, later)
          = [i \in 1 .. Len(sent) |-> IF i =< Len(sent) THEN sent[i] ELSE later]
    BY <1>1, <1>2, Zenon DEF pigeon_frame_new
  <1> QED
    BY <1>3

(* The text of a frame: four characters for every three bytes begun, none  *)
(* of them a newline.                                                      *)
LEMMA TextIs ==
    ASSUME NEW sent \in Seq(Byte), NEW text, text = base64_encode(sent)
    PROVE  /\ text \in Seq(Int) /\ Len(text) = 4 * ((Len(sent) + 2) \div 3)
           /\ \A j \in 1 .. Len(text) : text[j] # LF
  <1>1. PICK L : L = EncodedLength(sent)
    OBVIOUS
  <1>2. L \in Nat /\ L = 4 * ((Len(sent) + 2) \div 3)
    BY <1>1 DEF EncodedLength
  <1>3. ASSUME NEW j \in 1 .. L
        PROVE  text[j] \in Int /\ text[j] # LF
    <2>1. PICK g \in Nat, k \in 1 .. 4 : j = 4 * g + k
      BY <1>2, (j - 1) \div 4 \in Nat, ((j - 1) % 4) + 1 \in 1 .. 4,
         j = 4 * ((j - 1) \div 4) + (((j - 1) % 4) + 1)
    <2>2. PICK x : x = Sextet(sent, j)
      OBVIOUS
    <2>3. x \in 0 .. 63
      BY <2>1, <2>2, SextetType
    <2>4. encoding_table[x] \in Int /\ encoding_table[x] # LF
      BY <2>3, TableUndone
    <2>5. EQUALS \in Int /\ EQUALS # LF
      BY DEF EQUALS, LF
    <2>6. text[j] = EQUALS \/ text[j] = encoding_table[x]
      BY <1>1, <2>2, Encoded, Zenon
    <2> QED
      BY <2>4, <2>5, <2>6
  <1>4. text = [j \in 1 .. L |-> text[j]]
    BY <1>1, Encoded, Zenon
  <1>5. text \in Seq(Int) /\ Len(text) = L
    BY <1>2, <1>3, <1>4
  <1> QED
    BY <1>2, <1>3, <1>5

(* A frame written as a line of the frames file is read back from it, if   *)
(* the line and a NUL fit the buffer; of a longer line the part that is    *)
(* read has no newline, and no frame is made of it.                        *)
THEOREM FileUndone ==
    ASSUME NEW bytes \in Seq(Byte), NEW beyond \in Byte, NEW later,
           NEW sent, sent = pigeon_frame_new(bytes, beyond), sent # NULL
    PROVE  line_to_frame(pigeon_frame_to_file(sent), later)
             = IF 4 * ((Len(sent) + 2) \div 3) + 2 =< READ_BUFFER_SIZE THEN sent ELSE NULL
  <1>1. /\ sent \in Seq(Byte) /\ sent # <<>>
        /\ ETHER_MIN_LEN =< Len(sent) /\ Len(sent) =< ETHER_MAX_LEN
    BY FrameIs
  <1>2. PICK text, line, L :
           /\ text = base64_encode(sent) /\ line = Append(text, LF)
           /\ L = 4 * ((Len(sent) + 2) \div 3)
    OBVIOUS
  <1>3. text \in Seq(Int) /\ Len(text) = L /\ \A j \in 1 .. L : text[j] # LF
    BY <1>1, <1>2, TextIs
  <1>4. pigeon_frame_to_file(sent) = line
    BY <1>2, Zenon DEF pigeon_frame_to_file
  <1>5. line \in Seq(Int) /\ Len(line) = L + 1 /\ LF \in Int /\ L \in Nat
    BY <1>2, <1>3 DEF LF
  <1>6. CASE L + 2 =< READ_BUFFER_SIZE
    <2>1. Len(line) < READ_BUFFER_SIZE
      BY <1>5, <1>6, FrameLengthsAssumption
    <2>2. fgets(line) = line
      BY <2>1, Zenon DEF fgets
    <2>3. Last(line) = LF /\ Front(line) = text
      BY <1>2, <1>3, <1>5 DEF Last, Front
    <2>4. base64_decode(text) = sent
      BY <1>1, <1>2, Base64Undone
    <2>5. line_to_frame(line, later)
            = IF sent = NULL THEN NULL ELSE pigeon_frame_new(sent, later)
      BY <2>2, <2>3, <2>4, Zenon DEF line_to_frame
    <2>6. pigeon_frame_new(sent, later) = sent
      BY <1>1, PaddedOnce
    <2> QED
      BY <1>2, <1>4, <1>6, <2>5, <2>6
  <1>7. CASE ~(L + 2 =< READ_BUFFER_SIZE)
    <2>1. PICK R : R = READ_BUFFER_SIZE - 1
      OBVIOUS
    <2>2. R \in Nat /\ R >= 1 /\ R =< L /\ ~(Len(line) < READ_BUFFER_SIZE)
      BY <1>5, <1>7, <2>1, FrameLengthsAssumption
    <2>3. fgets(line) = SubSeq(line, 1, R)
      BY <2>1, <2>2, Zenon DEF fgets
    <2>4. Len(SubSeq(line, 1, R)) = R /\ SubSeq(line, 1, R)[R] = line[R]
      BY <1>5, <2>2
    <2>5. line[R] = text[R]
      BY <1>2, <1>3, <2>2
    <2>6. Last(SubSeq(line, 1, R)) = text[R]
      BY <2>4, <2>5, Zenon DEF Last
    <2>7. Last(fgets(line)) # LF
      BY <1>3, <1>5, <2>2, <2>3, <2>6
    <2>8. line_to_frame(line, later) = NULL
      BY <2>7, Zenon DEF line_to_frame
    <2> QED
      BY <1>2, <1>4, <1>7, <2>8
  <1> QED
    BY <1>6, <1>7

-----------------------------------------------------------------------------
(* The camera. *)

(* A line starts at the first character or behind a newline, and has no    *)
(* newline before i.                                                       *)
LEMMA LineStartIs ==
    ASSUME NEW text \in Seq(Int), NEW i \in 1 .. Len(text),
           NEW s, s = LineStart(text, i)
    PROVE  /\ s \in 1 .. i
           /\ s > 1 => text[s - 1] = LF
  <1>1. PICK T : T = {0} \cup {k \in 1 .. i - 1 : text[k] = LF}
    OBVIOUS
  <1>2. T \in SUBSET Nat /\ T # {} /\ i - 1 \in Nat /\ \A x \in T : x =< i - 1
    BY <1>1
  <1>3. PICK m : m = Max(T)
    OBVIOUS
  <1>4. m \in T
    BY <1>2, <1>3, MaxOfNaturals
  <1>5. s = m + 1
    BY <1>1, <1>3, Zenon DEF LineStart
  <1> QED
    BY <1>1, <1>2, <1>4, <1>5

(* A line that is closed by a newline ends at or behind i. *)
LEMMA LineEndIs ==
    ASSUME NEW text \in Seq(Int), NEW i \in 1 .. Len(text), text[Len(text)] = LF,
           NEW e, e = LineEnd(text, i)
    PROVE  e \in i .. Len(text)
  <1>1. PICK T : T = {k \in i .. Len(text) : text[k] = LF}
    OBVIOUS
  <1>2. T \in SUBSET Nat /\ T # {}
    BY <1>1
  <1>3. Min(T) \in T
    BY <1>2, MinOfNaturals
  <1> QED
    BY <1>1, <1>3, Zenon DEF LineEnd

(* The characters cut keeps, when all but the first one are. *)
LEMMA AllButFirst ==
    ASSUME NEW N \in Nat \ {0}, NEW K, K = 2 .. N
    PROVE  /\ Cardinality(K) = N - 1
           /\ \A n \in 1 .. N - 1 :
                 (CHOOSE i \in K : Cardinality({k \in K : k =< i}) = n) = n + 1
  <1>1. ASSUME NEW a \in 1 .. N
        PROVE  Cardinality(2 .. a) = a - 1
    <2>1. Cardinality(2 .. a) = IF 2 > a THEN 0 ELSE a - 2 + 1
      BY FS_Interval
    <2> QED
      BY <2>1
  <1>2. ASSUME NEW i \in K
        PROVE  Cardinality({k \in K : k =< i}) = i - 1
    <2>1. {k \in K : k =< i} = 2 .. i
      OBVIOUS
    <2>2. i \in 1 .. N
      OBVIOUS
    <2> QED
      BY <1>1, <2>1, <2>2
  <1>3. ASSUME NEW n \in 1 .. N - 1
        PROVE  (CHOOSE i \in K : Cardinality({k \in K : k =< i}) = n) = n + 1
    <2>1. n + 1 \in K /\ Cardinality({k \in K : k =< n + 1}) = n
      BY <1>2
    <2>2. \A i \in K : Cardinality({k \in K : k =< i}) = n => i = n + 1
      BY <1>2
    <2> QED
      BY <2>1, <2>2, Zenon
  <1>4. Cardinality(K) = N - 1
    BY <1>1, N \in 1 .. N
  <1> QED
    BY <1>3, <1>4, Zenon

(* cut removes the prefix up to the colon zbarimg wrote and nothing else,  *)
(* from a payload without a colon behind a newline.                        *)
THEOREM CutUndone ==
    ASSUME NEW payload \in Seq(Byte),
           ~\E i \in DOMAIN payload, k \in DOMAIN payload :
               i < k /\ payload[i] = LF /\ payload[k] = COLON
    PROVE  bar_code_read(payload) = Append(payload, LF)
  <1>1. PICK text : text = zbarimg(payload)
    OBVIOUS
  <1>2. PICK N : N = Len(payload) + 2
    OBVIOUS
  <1>3. /\ text \in Seq(Int) /\ Len(text) = N /\ N \in Nat /\ N >= 2
        /\ text[1] = COLON /\ text[N] = LF
        /\ \A k \in 2 .. N - 1 : text[k] = payload[k - 1]
    BY <1>1, <1>2 DEF zbarimg, COLON, LF, Byte
  <1> DEFINE first(i) == {k \in LineStart(text, i) .. LineEnd(text, i) : text[k] = COLON}
             kept == {i \in 1 .. Len(text) : first(i) = {} \/ i > Min(first(i))}
  <1>4. bar_code_read(payload) =
          [n \in 1 .. Cardinality(kept) |->
              text[CHOOSE i \in kept : Cardinality({k \in kept : k =< i}) = n]]
    <2>1. bar_code_read(payload) = cut_fields(text)
      BY <1>1, Zenon DEF bar_code_read
    <2>2. cut_fields(text) =
            [n \in 1 .. Cardinality(kept) |->
                text[CHOOSE i \in kept : Cardinality({k \in kept : k =< i}) = n]]
      BY Zenon DEF cut_fields
    <2> QED
      BY <2>1, <2>2, Zenon
  <1>5. \A i \in 1 .. N : i \in kept <=> first(i) = {} \/ i > Min(first(i))
    BY <1>3, Zenon
  <1> HIDE DEF kept
  <1>6. ASSUME NEW i \in 1 .. N
        PROVE  i \in kept <=> i # 1
    <2>1. PICK s, e : s = LineStart(text, i) /\ e = LineEnd(text, i)
      OBVIOUS
    <2>2. s \in 1 .. i /\ (s > 1 => text[s - 1] = LF)
      BY <1>3, <2>1, LineStartIs
    <2>3. e \in i .. N
      BY <1>3, <2>1, LineEndIs
    <2>4. first(i) = {k \in s .. e : text[k] = COLON}
      BY <2>1
    <2> HIDE DEF first
    <2>5. CASE s = 1
      <3>1. 1 \in first(i) /\ first(i) \in SUBSET Int /\ \A k \in first(i) : 1 =< k
        BY <1>3, <2>2, <2>3, <2>4, <2>5
      <3>2. Min(first(i)) = 1
        BY <3>1, MinIs
      <3> QED
        BY <1>5, <3>1, <3>2
    <2>6. CASE s > 1
      <3>1. LF # COLON
        BY DEF LF, COLON
      <3>2. s - 1 \in 2 .. N - 1
        <4>1. N \in Nat /\ text[1] = COLON
          BY <1>3, Zenon
        <4>2. text[s - 1] = LF
          BY <2>2, <2>6, Zenon
        <4>3. s - 1 # 1
          BY <3>1, <4>1, <4>2, Zenon
        <4>4. s \in 1 .. i
          BY <2>2, Zenon
        <4> QED
          BY <2>6, <4>1, <4>3, <4>4
      <3>3. payload[s - 2] = LF /\ s - 2 \in DOMAIN payload
        <4>1. text[s - 1] = payload[(s - 1) - 1]
          BY <1>3, <3>2, Zenon
        <4>2. (s - 1) - 1 = s - 2 /\ s - 2 \in 1 .. N - 2
          BY <1>3, <2>2, <2>6, <3>2
        <4> QED
          BY <1>2, <2>2, <2>6, <4>1, <4>2
      <3>4. ASSUME NEW k \in first(i)
            PROVE  FALSE
        <4>1. k \in s .. N /\ text[k] = COLON
          <5>1. k \in s .. e /\ text[k] = COLON
            BY <2>4, Zenon
          <5> QED
            BY <1>3, <2>2, <2>3, <5>1
        <4>2. k \in 2 .. N - 1
          <5>1. N \in Nat /\ text[N] = LF
            BY <1>3, Zenon
          <5>2. k # N
            BY <3>1, <4>1, <5>1, Zenon
          <5>3. s \in 1 .. i
            BY <2>2, Zenon
          <5> QED
            BY <2>6, <4>1, <5>1, <5>2, <5>3
        <4>3. payload[k - 1] = COLON
          BY <1>3, <4>1, <4>2, Zenon
        <4>4. k - 1 \in DOMAIN payload /\ s - 2 < k - 1
          BY <1>2, <1>3, <2>2, <4>1, <4>2
        <4> QED
          BY <3>3, <4>3, <4>4
      <3>5. first(i) = {}
        BY <3>4
      <3> QED
        BY <1>5, <2>2, <2>6, <3>5
    <2> QED
      BY <2>2, <2>5, <2>6
  <1>7. kept = 2 .. N
    <2>1. kept \subseteq 1 .. N
      BY <1>3 DEF kept
    <2>2. \A i : i \in 2 .. N <=> i \in 1 .. N /\ i # 1
      BY <1>3
    <2> QED
      BY <1>6, <2>1, <2>2, Zenon
  <1>8. /\ Cardinality(kept) = N - 1
        /\ \A n \in 1 .. N - 1 :
              (CHOOSE i \in kept : Cardinality({k \in kept : k =< i}) = n) = n + 1
    <2>1. N \in Nat \ {0}
      BY <1>3
    <2>2. \A K : K = 2 .. N =>
             /\ Cardinality(K) = N - 1
             /\ \A n \in 1 .. N - 1 :
                   (CHOOSE i \in K : Cardinality({k \in K : k =< i}) = n) = n + 1
      BY <2>1, AllButFirst, Zenon
    <2>3. kept = 2 .. N =>
             /\ Cardinality(kept) = N - 1
             /\ \A n \in 1 .. N - 1 :
                   (CHOOSE i \in kept : Cardinality({k \in kept : k =< i}) = n) = n + 1
      BY <2>2
    <2> QED
      BY <1>7, <2>3
  <1>9. bar_code_read(payload) = [n \in 1 .. N - 1 |-> text[n + 1]]
    BY <1>4, <1>8, Zenon
  <1>10. Append(payload, LF) = [n \in 1 .. N - 1 |-> text[n + 1]]
    <2>1. PICK a : a = Append(payload, LF)
      OBVIOUS
    <2>2. /\ a = [n \in 1 .. N - 1 |-> a[n]]
          /\ a[N - 1] = LF
          /\ \A n \in 1 .. N - 2 : a[n] = payload[n]
      <3>1. LF \in Int /\ payload \in Seq(Int)
        BY DEF LF, Byte
      <3>2. a \in Seq(Int) /\ Len(a) = N - 1
        BY <1>2, <2>1, <3>1
      <3>3. a[N - 1] = LF /\ \A n \in 1 .. N - 2 : a[n] = payload[n]
        BY <1>2, <2>1, <3>1
      <3> QED
        BY <1>3, <3>2, <3>3
    <2>3. ASSUME NEW n \in 1 .. N - 1
          PROVE  a[n] = text[n + 1]
      <3>1. CASE n = N - 1
        BY <1>3, <2>2, <3>1
      <3>2. CASE n # N - 1
        <4>1. n + 1 \in 2 .. N - 1 /\ (n + 1) - 1 = n /\ n \in 1 .. N - 2
          BY <1>3, <3>2
        <4>2. text[n + 1] = payload[(n + 1) - 1]
          BY <1>3, <4>1, Zenon
        <4> QED
          BY <2>2, <4>1, <4>2
      <3> QED
        BY <3>1, <3>2
    <2> QED
      BY <2>1, <2>2, <2>3
  <1> QED
    BY <1>9, <1>10

-----------------------------------------------------------------------------
(* The printer. *)

(* Quotient and remainder are unique. *)
LEMMA DivisionIs ==
    ASSUME NEW d \in Nat \ {0}, NEW q \in Int, NEW r \in 0 .. d - 1,
           NEW n \in Int, n = d * q + r
    PROVE  n \div d = q /\ n % d = r
  <1>1. PICK a, b : a = n \div d /\ b = n % d
    OBVIOUS
  <1>2. a \in Int /\ b \in 0 .. d - 1 /\ n = d * a + b
    BY <1>1, SMT
  <1>3. d * (a - q) = r - b /\ r - b < d /\ b - r < d
    BY <1>2, SMT
  <1>4. ~(a - q >= 1) /\ ~(a - q =< -1)
    <2>1. ASSUME a - q >= 1
          PROVE  FALSE
      <3>1. d * (a - q) >= d
        BY <1>2, <2>1, SMT
      <3> QED
        BY <1>2, <1>3, <3>1, SMT
    <2>2. ASSUME a - q =< -1
          PROVE  FALSE
      <3>1. d * (a - q) =< -d
        BY <1>2, <2>2, SMT
      <3> QED
        BY <1>2, <1>3, <3>1, SMT
    <2> QED
      BY <2>1, <2>2
  <1>5. a = q
    BY <1>2, <1>4, SMT
  <1>6. b = r
    BY <1>2, <1>5, SMT
  <1> QED
    BY <1>1, <1>5, <1>6

(* The same, as a formula. *)
LEMMA Place ==
    \A d \in Nat \ {0}, q \in Int, n \in Int : \A r \in 0 .. d - 1 :
       n = d * q + r => n \div d = q /\ n % d = r
  BY DivisionIs

(* A natural is its quotient and its remainder. *)
LEMMA DivisionOf ==
    ASSUME NEW n \in Nat, NEW d \in Nat \ {0}
    PROVE  /\ n \div d \in Nat /\ n % d \in 0 .. d - 1
           /\ n = d * (n \div d) + (n % d)
  BY SMT

(* The bits of ByteOf are those it is given. *)
LEMMA BitOfByte ==
    ASSUME NEW bits, NEW i \in 0 .. 7
    PROVE  Bit(ByteOf(bits), i) = 1 <=> i \in bits
  <1> DEFINE b(k) == IF k \in bits THEN 1 ELSE 0
             v == ByteOf(bits)
  <1>1. \A k : b(k) \in {0, 1} /\ (b(k) = 1 <=> k \in bits)
    OBVIOUS
  <1>2. v = b(0) + 2 * b(1) + 4 * b(2) + 8 * b(3) + 16 * b(4) + 32 * b(5) + 64 * b(6)
            + 128 * b(7)
    BY SMT DEF ByteOf
  <1> HIDE DEF b, v
  <1>3. /\ (v \div 1) % 2 = b(0) /\ (v \div 2) % 2 = b(1)
        /\ (v \div 4) % 2 = b(2) /\ (v \div 8) % 2 = b(3)
        /\ (v \div 16) % 2 = b(4) /\ (v \div 32) % 2 = b(5)
        /\ (v \div 64) % 2 = b(6) /\ (v \div 128) % 2 = b(7)
    <2>1. PICK b0, b1, b2, b3, b4, b5, b6, b7 :
              /\ b0 = b(0) /\ b1 = b(1) /\ b2 = b(2) /\ b3 = b(3)
              /\ b4 = b(4) /\ b5 = b(5) /\ b6 = b(6) /\ b7 = b(7)
      OBVIOUS
    <2>2. /\ b0 \in {0, 1} /\ b1 \in {0, 1} /\ b2 \in {0, 1} /\ b3 \in {0, 1}
          /\ b4 \in {0, 1} /\ b5 \in {0, 1} /\ b6 \in {0, 1} /\ b7 \in {0, 1}
      BY <1>1, <2>1
    <2>3. v = b0 + 2 * b1 + 4 * b2 + 8 * b3 + 16 * b4 + 32 * b5 + 64 * b6 + 128 * b7
      BY <1>2, <2>1
    <2>4. /\ (v \div 1) % 2 = b0 /\ (v \div 2) % 2 = b1
          /\ (v \div 4) % 2 = b2 /\ (v \div 8) % 2 = b3
          /\ (v \div 16) % 2 = b4 /\ (v \div 32) % 2 = b5
          /\ (v \div 64) % 2 = b6 /\ (v \div 128) % 2 = b7
      BY <2>2, <2>3, SMT
    <2> QED
      BY <2>1, <2>4, Zenon
  <1>4. /\ 2^0 = 1 /\ 2^1 = 2 /\ 2^2 = 4 /\ 2^3 = 8
        /\ 2^4 = 16 /\ 2^5 = 32 /\ 2^6 = 64 /\ 2^7 = 128
    BY SMT
  <1>5. (v \div 2^i) % 2 = b(i)
    <2>1. \/ i = 0 \/ i = 1 \/ i = 2 \/ i = 3 \/ i = 4 \/ i = 5 \/ i = 6 \/ i = 7
      BY SMT
    <2>2. CASE i = 0
      BY <1>3, <1>4, <2>2, Zenon
    <2>3. CASE i = 1
      BY <1>3, <1>4, <2>3, Zenon
    <2>4. CASE i = 2
      BY <1>3, <1>4, <2>4, Zenon
    <2>5. CASE i = 3
      BY <1>3, <1>4, <2>5, Zenon
    <2>6. CASE i = 4
      BY <1>3, <1>4, <2>6, Zenon
    <2>7. CASE i = 5
      BY <1>3, <1>4, <2>7, Zenon
    <2>8. CASE i = 6
      BY <1>3, <1>4, <2>8, Zenon
    <2>9. CASE i = 7
      BY <1>3, <1>4, <2>9, Zenon
    <2> QED
      BY <2>1, <2>2, <2>3, <2>4, <2>5, <2>6, <2>7, <2>8, <2>9, Zenon
  <1> QED
    BY <1>1, <1>5 DEF Bit, v

(* Counted from the other end, a place is in the mirrored eighth. *)
LEMMA MirroredEighth ==
    ASSUME NEW s \in Nat \ {0}, NEW r \in Nat, r < 8 * s
    PROVE  r \div s \in 0 .. 7 /\ (8 * s - 1 - r) \div s = 7 - (r \div s)
  <1>1. PICK q, t : q = r \div s /\ t = r % s
    OBVIOUS
  <1>2. q \in Nat /\ t \in 0 .. s - 1 /\ r = s * q + t
    BY <1>1, DivisionOf
  <1>3. q =< 7
    <2>1. ASSUME q >= 8
          PROVE  FALSE
      <3>1. s * q >= s * 8
        BY <1>2, <2>1, SMT
      <3> QED
        BY <1>2, <3>1, SMT
    <2> QED
      BY <1>2, <2>1
  <1>4. s - 1 - t \in 0 .. s - 1 /\ 7 - q \in Int /\ 8 * s - 1 - r \in Int
    BY <1>2
  <1>5. 8 * s - 1 - r = s * (7 - q) + (s - 1 - t)
    BY <1>2, SMT
  <1>6. (8 * s - 1 - r) \div s = 7 - q
    <2>1. PICK n, p, u : n = 8 * s - 1 - r /\ p = 7 - q /\ u = s - 1 - t
      OBVIOUS
    <2>2. n \in Int /\ p \in Int /\ u \in 0 .. s - 1 /\ n = s * p + u
      BY <1>4, <1>5, <2>1
    <2>3. n \div s = p
      BY <2>2, DivisionIs, Zenon
    <2> QED
      BY <2>1, <2>3
  <1> QED
    BY <1>1, <1>2, <1>3, <1>6

(* Whether row i of a code of width w has a black module in column j,      *)
(* counted from 0.                                                         *)
Black(code, w, i, j) == j < w /\ code[i][j + 1]

(* A row and a column of bytes name a byte of the bitmap. *)
LEMMA BytePlace ==
    ASSUME NEW w \in Nat \ {0}, NEW R \in Nat \ {0}, NEW p \in 0 .. w - 1,
           NEW k \in 0 .. R - 1
    PROVE  p * R + k + 1 \in 1 .. w * R
  <1>1. R * p >= 0 /\ R * p =< R * (w - 1)
    BY SMT
  <1>2. R * (w - 1) = w * R - R /\ R * p = p * R
    BY SMT
  <1> QED
    BY <1>1, <1>2, SMT

(* Bits of a byte of the bitmap are modules of its row. *)
LEMMA BitmapBit ==
    ASSUME NEW code, Len(code) \in Nat \ {0},
           NEW i \in 1 .. Len(code), NEW k \in 0 .. RoundedColumns(Len(code)) - 1,
           NEW bit \in 0 .. 7
    PROVE  Bit(make1bitBitmap(code)[(i - 1) * RoundedColumns(Len(code)) + k + 1], bit) = 1
              <=> Black(code, Len(code), i, 8 * k + 7 - bit)
  <1>1. PICK w, R : w = Len(code) /\ R = RoundedColumns(w)
    OBVIOUS
  <1>2. w \in Nat \ {0} /\ R \in Nat \ {0} /\ i \in 1 .. w /\ k \in 0 .. R - 1
    BY <1>1 DEF RoundedColumns
  <1>3. PICK p, b : p = i - 1 /\ b = p * R + k + 1
    OBVIOUS
  <1>4. p \in 0 .. w - 1 /\ i = p + 1
    BY <1>2, <1>3
  <1>5. b \in 1 .. w * R
    BY <1>2, <1>3, <1>4, BytePlace
  <1>6. (b - 1) \div R = p /\ (b - 1) % R = k
    <2>1. PICK n : n = b - 1
      OBVIOUS
    <2>2. n \in Int /\ p \in Int /\ n = R * p + k
      BY <1>2, <1>3, <1>4, <2>1, SMT
    <2>3. n \div R = p /\ n % R = k
      BY <1>2, <2>2, Place, Zenon
    <2> QED
      BY <2>1, <2>3
  <1> DEFINE black == {c \in 0 .. 7 :
                         /\ 8 * ((b - 1) % R) + 7 - c < w
                         /\ code[(b - 1) \div R + 1][8 * ((b - 1) % R) + 7 - c + 1]}
  <1>7. make1bitBitmap(code)[b] = ByteOf(black)
    BY <1>1, <1>5, Zenon DEF make1bitBitmap
  <1>8. Bit(ByteOf(black), bit) = 1 <=> bit \in black
    BY BitOfByte
  <1>9. bit \in black <=> 8 * k + 7 - bit < w /\ code[p + 1][8 * k + 7 - bit + 1]
    BY <1>6
  <1>10. Bit(make1bitBitmap(code)[b], bit) = 1 <=> Black(code, w, i, 8 * k + 7 - bit)
    BY <1>4, <1>7, <1>8, <1>9, Zenon DEF Black
  <1> QED
    BY <1>1, <1>3, <1>10, Zenon

(* Bits of a scaled byte are bits of the old one. *)
LEMMA ScaledBit ==
    ASSUME NEW old, NEW s \in Nat \ {0}, NEW m \in 1 .. s, NEW bit \in 0 .. 7
    PROVE  Bit(scaleByte(old, s)[m], bit) = 1
              <=> Bit(old, (8 * (s - m) + bit) \div s) = 1
  <1> DEFINE set == {p \in 0 .. 7 : Bit(old, (8 * (s - m) + p) \div s) = 1}
  <1>1. scaleByte(old, s)[m] = ByteOf(set)
    BY Zenon DEF scaleByte
  <1>2. Bit(ByteOf(set), bit) = 1 <=> bit \in set
    BY BitOfByte
  <1> QED
    BY <1>1, <1>2, Zenon

(* What a row of paper shows: the modules of one row of the code, each as  *)
(* wide as the scale, and white behind them.                               *)
LEMMA RowAsDrawn ==
    ASSUME NEW w \in Nat \ {0}, NEW s \in Nat \ {0}, NEW code, Len(code) = w,
           NEW i \in 1 .. w, NEW x \in 1 .. 8 * ROW_BYTES
    PROVE  Bit(PrintedRow(make1bitBitmap(code), i, w, s)[((x - 1) \div 8) + 1],
               7 - ((x - 1) % 8)) = 1
              <=> x =< w * s /\ code[i][(x - 1) \div s + 1]
  <1> DEFINE bitmap == make1bitBitmap(code)
  <1>1. PICK R : R = RoundedColumns(w)
    OBVIOUS
  <1>2. R \in Nat \ {0} /\ 8 * R >= w
    BY <1>1 DEF RoundedColumns
  <1>3. PICK a, e : a = (x - 1) \div 8 /\ e = (x - 1) % 8
    OBVIOUS
  <1>4. a \in 0 .. ROW_BYTES - 1 /\ e \in 0 .. 7 /\ x - 1 = 8 * a + e
    BY <1>3, FrameLengthsAssumption
  <1>5. PICK k, l : k = a \div s /\ l = a % s
    OBVIOUS
  <1>6. k \in Nat /\ l \in 0 .. s - 1 /\ a = s * k + l
    <2>1. a \in Nat
      BY <1>4, FrameLengthsAssumption
    <2> QED
      BY <1>5, <2>1, DivisionOf, Zenon
  <1>7. PICK r : r = 8 * l + e
    OBVIOUS
  <1>8. r \in Nat /\ r < 8 * s /\ x - 1 = s * (8 * k) + r
    <2>1. r \in Nat /\ r < 8 * s
      BY <1>4, <1>6, <1>7
    <2>2. 8 * (s * k) = s * (8 * k)
      BY <1>6, SMT
    <2>3. x - 1 = 8 * (s * k) + 8 * l + e
      BY <1>4, <1>6, SMT
    <2> QED
      BY <1>4, <1>6, <1>7, <2>1, <2>2, <2>3, SMT
  <1>9. PICK q, t : q = r \div s /\ t = r % s
    OBVIOUS
  <1>10. q \in 0 .. 7 /\ t \in 0 .. s - 1 /\ r = s * q + t
    BY <1>8, <1>9, MirroredEighth, DivisionOf
  <1>11. (x - 1) \div s = 8 * k + q
    <2>1. PICK n, p : n = x - 1 /\ p = 8 * k + q
      OBVIOUS
    <2>2. n \in Int /\ p \in Int
      BY <1>6, <1>10, <2>1
    <2>3. n = s * p + t
      BY <1>6, <1>8, <1>10, <2>1, SMT
    <2>4. n \div s = p
      BY <1>10, <2>2, <2>3, DivisionIs, Zenon
    <2> QED
      BY <2>1, <2>4
  <1>12. x =< w * s <=> 8 * k + q < w
    <2>1. x - 1 = s * (8 * k + q) + t
      BY <1>6, <1>8, <1>10, SMT
    <2>2. PICK c : c = 8 * k + q
      OBVIOUS
    <2>3. c \in Nat /\ x - 1 = s * c + t
      BY <1>6, <1>10, <2>1, <2>2
    <2>4. ASSUME c < w
          PROVE  x =< w * s
      <3>1. s * c + s =< s * w
        BY <2>3, <2>4, SMT
      <3> QED
        BY <1>10, <2>3, <3>1, SMT
    <2>5. ASSUME ~(c < w)
          PROVE  ~(x =< w * s)
      <3>1. s * c >= s * w
        BY <2>3, <2>5, SMT
      <3> QED
        BY <1>10, <2>3, <3>1, SMT
    <2> QED
      BY <2>2, <2>4, <2>5
  <1>13. PrintedRow(bitmap, i, w, s)[a + 1]
           = IF k >= R THEN 0 ELSE scaleByte(bitmap[(i - 1) * R + k + 1], s)[l + 1]
    <2>1. a + 1 \in 1 .. ROW_BYTES /\ (a + 1) - 1 = a
      BY <1>4, FrameLengthsAssumption
    <2>2. a + 1 \in 1 .. ROW_BYTES * s
      <3>1. ROW_BYTES =< ROW_BYTES * s
        BY FrameLengthsAssumption, SMT
      <3> QED
        BY <2>1, <3>1, FrameLengthsAssumption, SMT
    <2> HIDE DEF bitmap
    <2>3. SentRow(bitmap, i, w, s)[a + 1]
            = IF k >= R THEN 0 ELSE scaleByte(bitmap[(i - 1) * R + k + 1], s)[l + 1]
      BY <1>1, <1>5, <2>1, <2>2, Zenon DEF SentRow
    <2> QED
      BY <2>1, <2>3, Zenon DEF PrintedRow
  <1>14. CASE k >= R
    <2>1. Bit(0, 7 - e) # 1
      <3>1. ByteOf({}) = 0
        BY SMT DEF ByteOf
      <3>2. PICK d : d = 7 - e
        OBVIOUS
      <3>3. d \in 0 .. 7
        BY <1>4, <3>2
      <3>4. PICK none : none = {}
        OBVIOUS
      <3>5. Bit(ByteOf(none), d) = 1 <=> d \in none
        BY <3>3, BitOfByte
      <3>6. d \notin none
        BY <3>4
      <3> QED
        BY <3>1, <3>2, <3>4, <3>5, <3>6, Zenon
    <2>2. ~(8 * k + q < w)
      BY <1>2, <1>6, <1>10, <1>14
    <2> QED
      BY <1>3, <1>12, <1>13, <1>14, <2>1, <2>2
  <1>15. CASE ~(k >= R)
    <2>1. k \in 0 .. R - 1
      BY <1>2, <1>6, <1>15
    <2>2. PICK b, old : b = (i - 1) * R + k + 1 /\ old = make1bitBitmap(code)[b]
      OBVIOUS
    <2>3. PICK m, bit : m = l + 1 /\ bit = 7 - e
      OBVIOUS
    <2>4. m \in 1 .. s /\ bit \in 0 .. 7
      BY <1>4, <1>6, <2>3
    <2>5. Bit(scaleByte(old, s)[m], bit) = 1 <=> Bit(old, (8 * (s - m) + bit) \div s) = 1
      BY <2>4, ScaledBit
    <2>6. (8 * (s - m) + bit) \div s = 7 - q
      <3>1. 8 * (s - m) + bit = 8 * s - 1 - r
        BY <1>4, <1>6, <1>7, <2>3
      <3> QED
        BY <1>8, <1>9, <3>1, MirroredEighth
    <2>7. PICK o : o = 7 - q
      OBVIOUS
    <2>8. o \in 0 .. 7 /\ 8 * k + 7 - o = 8 * k + q
      BY <1>6, <1>10, <2>7
    <2>9. PICK j : j = 8 * k + 7 - o
      OBVIOUS
    <2>10. Bit(make1bitBitmap(code)[b], o) = 1 <=> Black(code, w, i, j)
      <3>1. /\ Len(code) \in Nat \ {0} /\ i \in 1 .. Len(code) /\ o \in 0 .. 7
            /\ k \in 0 .. RoundedColumns(Len(code)) - 1
        BY <1>1, <2>1, <2>8
      <3>2. Bit(make1bitBitmap(code)[(i - 1) * RoundedColumns(Len(code)) + k + 1], o) = 1
              <=> Black(code, Len(code), i, 8 * k + 7 - o)
        BY <3>1, BitmapBit, Zenon
      <3> QED
        BY <1>1, <2>2, <2>9, <3>2
    <2>11. Bit(old, o) = 1 <=> 8 * k + q < w /\ code[i][8 * k + q + 1]
      BY <2>2, <2>8, <2>9, <2>10 DEF Black
    <2>12. PrintedRow(bitmap, i, w, s)[a + 1] = scaleByte(old, s)[m]
      BY <1>13, <1>15, <2>2, <2>3
    <2> QED
      BY <1>3, <1>11, <1>12, <2>3, <2>5, <2>6, <2>7, <2>11, <2>12
  <1> QED
    BY <1>14, <1>15

(* Every module of the code is a square of s by s dots in its place, and   *)
(* the rest of the width is white.                                         *)
Shows(printed, code, w, s) ==
    /\ Len(printed) = w * s
    /\ \A y \in 1 .. Len(printed), x \in 1 .. 8 * ROW_BYTES :
          Bit(printed[y][((x - 1) \div 8) + 1], 7 - ((x - 1) % 8)) = 1
             <=> x =< w * s /\ code[(y - 1) \div s + 1][(x - 1) \div s + 1]

(* The paper shows the code, whatever its modules are, at every scale at   *)
(* which it fits.                                                          *)
THEOREM PrintedAsDrawn ==
    ASSUME NEW w \in Nat \ {0}, NEW s \in Nat \ {0}, NEW code, Len(code) = w,
           FitsPaper(w, s),
           NEW printed, printed = printer_printQRCode(code, s)
    PROVE  Shows(printed, code, w, s)
  <1> DEFINE bitmap == make1bitBitmap(code)
             n == w * s
             rows == [i \in 1 .. w |-> PrintedRow(bitmap, i, w, s)]
  <1>1. n \in Nat
    BY SMT
  <1>2. printed = [r \in 1 .. n |-> rows[(r - 1) \div s + 1]]
    <2>1. printed = printBitmap(make1bitBitmap(code), w, w, s)
      BY Zenon DEF printer_printQRCode
    <2>2. printBitmap(make1bitBitmap(code), w, w, s)
            = [r \in 1 .. n |-> rows[(r - 1) \div s + 1]]
      BY Zenon DEF printBitmap
    <2> QED
      BY <2>1, <2>2, Zenon
  <1> HIDE DEF n
  <1>3. Len(printed) = n
    <2> HIDE DEF rows
    <2> QED
      BY <1>1, <1>2
  <1>4. ASSUME NEW y \in 1 .. n, NEW x \in 1 .. 8 * ROW_BYTES
        PROVE  Bit(printed[y][((x - 1) \div 8) + 1], 7 - ((x - 1) % 8)) = 1
                  <=> x =< w * s /\ code[(y - 1) \div s + 1][(x - 1) \div s + 1]
    <2>1. PICK i : i = (y - 1) \div s + 1
      OBVIOUS
    <2>2. i \in 1 .. w
      <3>1. PICK a, q, t : a = y - 1 /\ q = a \div s /\ t = a % s
        OBVIOUS
      <3>2. a \in Nat /\ a < w * s
        BY <1>1, <3>1, SMT DEF n
      <3>3. q \in Nat /\ t \in 0 .. s - 1 /\ a = s * q + t
        BY <3>1, <3>2, DivisionOf, Zenon
      <3>4. q < w
        <4>1. ASSUME q >= w
              PROVE  FALSE
          <5>1. s * q >= s * w /\ s * w = w * s
            BY <3>3, <4>1, SMT
          <5> QED
            BY <3>2, <3>3, <5>1, SMT
        <4> QED
          BY <3>3, <4>1
      <3> QED
        BY <2>1, <3>1, <3>3, <3>4
    <2>3. printed[y] = PrintedRow(make1bitBitmap(code), i, w, s)
      <3>1. printed[y] = rows[i]
        <4> HIDE DEF rows
        <4> QED
          BY <1>2, <2>1, Zenon
      <3> QED
        BY <2>2, <3>1, Zenon
    <2>4. Bit(PrintedRow(make1bitBitmap(code), i, w, s)[((x - 1) \div 8) + 1],
              7 - ((x - 1) % 8)) = 1
             <=> x =< w * s /\ code[i][(x - 1) \div s + 1]
      BY <2>2, RowAsDrawn, Zenon
    <2> QED
      BY <2>1, <2>3, <2>4, Zenon
  <1> QED
    BY <1>3, <1>4, Zenon DEF n, Shows

(* A frame that some code holds is drawn in 61 modules or fewer, the 8     *)
(* bytes of the widest code the printer is given.                          *)
LEMMA WidestCode ==
    ASSUME NEW size \in Nat, size =< 321
    PROVE  QRcode_width(size) \in 1 .. 61 /\ RoundedColumns(QRcode_width(size)) =< 8
  <1> DEFINE V == {v \in DOMAIN QR_CAPACITY : QR_CAPACITY[v] >= size}
  <1>1. DOMAIN QR_CAPACITY = 1 .. 11 /\ QR_CAPACITY[11] = 321
    BY DEF QR_CAPACITY
  <1>2. 11 \in V /\ V \in SUBSET Nat /\ V \subseteq 1 .. 11
    BY <1>1
  <1>3. PICK m : m = Min(V)
    OBVIOUS
  <1>4. m \in V /\ \A y \in V : m =< y
    BY <1>2, <1>3, MinOfNaturals
  <1>5. m \in 1 .. 11
    BY <1>2, <1>4
  <1>6. QRcode_width(size) = 17 + 4 * m
    BY <1>3, Zenon DEF QRcode_width
  <1> QED
    BY <1>5, <1>6 DEF RoundedColumns

(* The bitmap's bytes fit the memory allocated for it, although the        *)
(* formula given to malloc multiplies before it divides.                   *)
THEOREM BitmapFitsBuffer ==
    ASSUME NEW code, Len(code) \in Nat \ {0}
    PROVE  Len(make1bitBitmap(code)) =< BitmapRoom(Len(code))
  <1>1. PICK w, R : w = Len(code) /\ R = RoundedColumns(w)
    OBVIOUS
  <1>2. w \in Nat /\ R \in Nat /\ 8 * R =< w + 7
    BY <1>1 DEF RoundedColumns
  <1>3. w * (8 * R) =< w * (w + 7) /\ w * (8 * R) = 8 * (w * R)
    BY <1>2, SMT
  <1>4. PICK a, b : a = w * R /\ b = w * (w + 7)
    OBVIOUS
  <1>5. a \in Nat /\ b \in Nat /\ 8 * a =< b
    BY <1>2, <1>3, <1>4, SMT
  <1>6. a =< b \div 8
    BY <1>5, SMT
  <1>7. Len(make1bitBitmap(code)) = a
    <2>1. PICK bitmap : bitmap = make1bitBitmap(code)
      OBVIOUS
    <2>2. DOMAIN bitmap = 1 .. a /\ bitmap = [k \in 1 .. a |-> bitmap[k]]
      BY <1>1, <1>4, <2>1, Zenon DEF make1bitBitmap
    <2>3. Len(bitmap) = a
      BY <1>5, <2>2, LengthIs, Zenon
    <2> QED
      BY <2>1, <2>3
  <1> QED
    BY <1>1, <1>4, <1>6, <1>7 DEF BitmapRoom
=============================================================================
