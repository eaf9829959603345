------------------------- MODULE HeaderCodesProofs -------------------------
(***************************************************************************)
(* Theorems about HeaderCodes, for every job, nonce and version.           *)
(***************************************************************************)
EXTENDS HeaderCodes, SequenceTheorems, TLAPS

-----------------------------------------------------------------------------
(* Bytes and words *)

LEMMA ReversedLength ==
  ASSUME NEW n \in Nat, NEW b \in [1 .. n -> Byte]
  PROVE  /\ Len(b) = n
         /\ ReverseBytes(b) = [i \in 1 .. n |-> b[n + 1 - i]]
         /\ ReverseBytes(b) \in [1 .. n -> Byte]
<1>1. b \in Seq(Byte) /\ Len(b) = n
  OBVIOUS
<1>2. ReverseBytes(b) = [i \in 1 .. n |-> b[n + 1 - i]]
  BY <1>1 DEF ReverseBytes
<1>3. \A i \in 1 .. n : n + 1 - i \in 1 .. n
  BY SMT
<1>4. QED
  BY <1>1, <1>2, <1>3

LEMMA WordsSwapped ==
  ASSUME NEW h \in Hash
  PROVE  ReverseWord32(h) \in Hash
<1>1. \A i \in 1 .. 32 : 4 * ((i - 1) \div 4) + 4 - ((i - 1) % 4) \in 1 .. 32
  OBVIOUS
<1>2. QED
  BY <1>1 DEF ReverseWord32, Hash

(* Two sequences of bytes one after the other *)
IsJoin(c, a, b, m, k) ==
  /\ c \in [1 .. k -> Byte]
  /\ \A i \in 1 .. k : c[i] = IF i <= m THEN a[i] ELSE b[i - m]

LEMMA Joined ==
  ASSUME NEW m \in Nat, NEW n \in Nat, NEW k \in Nat, k = m + n,
         NEW a \in [1 .. m -> Byte], NEW b \in [1 .. n -> Byte]
  PROVE  IsJoin(a \o b, a, b, m, k)
<1>1. /\ a \in Seq(Byte) /\ Len(a) = m
      /\ b \in Seq(Byte) /\ Len(b) = n
  OBVIOUS
<1>2. a \o b \in Seq(Byte) /\ Len(a \o b) = k
  BY <1>1
<1>3. a \o b \in [1 .. k -> Byte]
  BY <1>2, LenProperties
<1>4. \A i \in 1 .. k : (a \o b)[i] = IF i <= m THEN a[i] ELSE b[i - m]
  BY <1>1
<1>5. QED
  BY <1>3, <1>4 DEF IsJoin

(* Division with remainder, and that there is only one *)
LEMMA Divided ==
  ASSUME NEW d \in Nat \ {0}, NEW s \in Nat
  PROVE  /\ s \div d \in Nat
         /\ s % d \in 0 .. d - 1
         /\ s = (s % d) + d * (s \div d)
  BY SMT

LEMMA OneQuotient ==
  ASSUME NEW d \in Nat \ {0}, NEW p \in Nat, NEW q \in Nat,
         NEW r \in 0 .. d - 1
  PROVE  (r + d * q) \div d = q /\ (r + d * q) % d = r
<1> DEFINE s == r + d * q
<1>1. s \in Nat
  BY SMT
<1>2. /\ s \div d \in Nat
      /\ s % d \in 0 .. d - 1
      /\ s = (s % d) + d * (s \div d)
  BY <1>1, Divided
<1> DEFINE t == s % d
           u == s \div d
<1>3. u \in Nat /\ t \in 0 .. d - 1 /\ r + d * q = t + d * u
  BY <1>2
<1> HIDE DEF t, u
<1>4. u = q
  <2>1. CASE u < q
    <3>1. d * q >= d * (u + 1)
      BY <2>1, <1>3, SMT
    <3>2. QED
      BY <3>1, <1>3, SMT
  <2>2. CASE u > q
    <3>1. d * u >= d * (q + 1)
      BY <2>2, <1>3, SMT
    <3>2. QED
      BY <3>1, <1>3, SMT
  <2>3. QED
    BY <2>1, <2>2, <1>3, SMT
<1>5. t = r
  BY <1>3, <1>4, SMT
<1>6. QED
  BY <1>4, <1>5 DEF t, u

OfBytes(w, x, y, z) == w + 256 * (x + 256 * (y + 256 * z))

(* The bytes of a number below 256^4 *)
LEMMA BytesOfSum ==
  ASSUME NEW w \in Byte, NEW x \in Byte, NEW y \in Byte, NEW z \in Byte
  PROVE  /\ OfBytes(w, x, y, z) \in Nat
         /\ ByteOf(OfBytes(w, x, y, z), 0) = w
         /\ ByteOf(OfBytes(w, x, y, z), 1) = x
         /\ ByteOf(OfBytes(w, x, y, z), 2) = y
         /\ ByteOf(OfBytes(w, x, y, z), 3) = z
<1> USE DEF Byte
<1> DEFINE q1 == x + 256 * (y + 256 * z)
           q2 == y + 256 * z
           v == w + 256 * q1
<1>1. v \in Nat /\ q1 \in Nat /\ q2 \in Nat
  BY SMT
<1>2. 256 \in Nat \ {0} /\ 0 .. 255 = 0 .. 256 - 1
  BY SMT
<1>3. v \div 256 = q1 /\ v % 256 = w
  BY <1>1, <1>2, OneQuotient
<1>4. q1 \div 256 = q2 /\ q1 % 256 = x
  BY <1>1, <1>2, OneQuotient
<1>5. q2 \div 256 = z /\ q2 % 256 = y
  BY <1>2, OneQuotient
<1>6. z % 256 = z
  BY SMT
<1> HIDE DEF v, q1, q2
<1>7. /\ ByteOf(v, 0) = w /\ ByteOf(v, 1) = x
       /\ ByteOf(v, 2) = y /\ ByteOf(v, 3) = z
  BY <1>3, <1>4, <1>5, <1>6 DEF ByteOf
<1>8. QED
  BY <1>1, <1>7 DEF v, q1, q2, OfBytes

(* The bytes of a uint32 give it back. *)
LEMMA BytesOfWord ==
  ASSUME NEW b \in Word
  PROVE  PadLeft(BigEndian(b), 4) = b
<1> DEFINE v == OfBytes(b[4], b[3], b[2], b[1])
<1>1. /\ Len(b) = 4
      /\ b[1] \in Byte /\ b[2] \in Byte /\ b[3] \in Byte /\ b[4] \in Byte
  BY DEF Word
<1>2. BigEndian(b) = v
  BY <1>1 DEF BigEndian, OfBytes, Byte
<1>3. /\ ByteOf(v, 0) = b[4] /\ ByteOf(v, 1) = b[3]
      /\ ByteOf(v, 2) = b[2] /\ ByteOf(v, 3) = b[1]
  BY <1>1, BytesOfSum
<1> HIDE DEF v
<1>4. \A i \in 1 .. 4 : ByteOf(v, 4 - i) = b[i]
  BY <1>3, SMT
<1>5. PadLeft(v, 4) = [i \in 1 .. 4 |-> b[i]]
  BY <1>4 DEF PadLeft
<1>6. QED
  BY <1>2, <1>5 DEF Word
-----------------------------------------------------------------------------
(* The header *)

LEMMA FieldTypes ==
  ASSUME NEW job \in HeaderFields
  PROVE  /\ job.version \in Word /\ job.blockTimestamp \in Word
         /\ job.networkTarget \in Word
         /\ job.prevBlockHash \in Hash /\ job.merkleRoot \in Hash
  BY DEF HeaderFields

LEMMA ReversedWord ==
  ASSUME NEW w \in Word
  PROVE  /\ ReverseBytes(w) \in Word
         /\ \A i \in 1 .. 4 : ReverseBytes(w)[i] = w[5 - i]
<1>1. w \in [1 .. 4 -> Byte]
  BY DEF Word
<1>2. /\ ReverseBytes(w) = [i \in 1 .. 4 |-> w[4 + 1 - i]]
      /\ ReverseBytes(w) \in [1 .. 4 -> Byte]
  BY <1>1, ReversedLength
<1>3. QED
  BY <1>2 DEF Word

LEMMA ReversedHash ==
  ASSUME NEW h \in Hash
  PROVE  /\ ReverseBytes(h) \in Hash
         /\ \A i \in 1 .. 32 : ReverseBytes(h)[i] = h[33 - i]
<1>1. h \in [1 .. 32 -> Byte]
  BY DEF Hash
<1>2. /\ ReverseBytes(h) = [i \in 1 .. 32 |-> h[32 + 1 - i]]
      /\ ReverseBytes(h) \in [1 .. 32 -> Byte]
  BY <1>1, ReversedLength
<1>3. QED
  BY <1>2 DEF Hash

(* Where the fields are in the payload *)
IsPayload(all, t, s, r, p, v) ==
  /\ all \in [1 .. 76 -> Byte]
  /\ \A i \in 1 .. 4 : all[i] = t[i] /\ all[4 + i] = s[i] /\ all[72 + i] = v[i]
  /\ \A i \in 1 .. 32 : all[8 + i] = r[i] /\ all[40 + i] = p[i]

LEMMA PayloadParts ==
  ASSUME NEW t \in Word, NEW s \in Word, NEW r \in Hash, NEW p \in Hash,
         NEW v \in Word
  PROVE  IsPayload(t \o s \o r \o p \o v, t, s, r, p, v)
<1> DEFINE a == t \o s
           b == a \o r
           c == b \o p
           d == c \o v
<1>0. /\ t \in [1 .. 4 -> Byte] /\ s \in [1 .. 4 -> Byte]
      /\ v \in [1 .. 4 -> Byte]
      /\ r \in [1 .. 32 -> Byte] /\ p \in [1 .. 32 -> Byte]
  BY DEF Word, Hash
<1>1. IsJoin(a, t, s, 4, 8)
  BY <1>0, Joined, 4 \in Nat, 8 \in Nat, 8 = 4 + 4
<1> HIDE DEF a
<1>2. IsJoin(b, a, r, 8, 40)
  <2>1. a \in [1 .. 8 -> Byte]
    BY <1>1 DEF IsJoin
  <2>2. QED
    BY <1>0, <2>1, Joined, 8 \in Nat, 32 \in Nat, 40 \in Nat, 40 = 8 + 32
<1> HIDE DEF b
<1>3. IsJoin(c, b, p, 40, 72)
  <2>1. b \in [1 .. 40 -> Byte]
    BY <1>2 DEF IsJoin
  <2>2. QED
    BY <1>0, <2>1, Joined, 40 \in Nat, 32 \in Nat, 72 \in Nat, 72 = 40 + 32
<1> HIDE DEF c
<1>4. IsJoin(d, c, v, 72, 76)
  <2>1. c \in [1 .. 72 -> Byte]
    BY <1>3 DEF IsJoin
  <2>2. QED
    BY <1>0, <2>1, Joined, 72 \in Nat, 4 \in Nat, 76 \in Nat, 76 = 72 + 4
<1> HIDE DEF d
<1>5. \A i \in 1 .. 4 : d[i] = t[i] /\ d[4 + i] = s[i] /\ d[72 + i] = v[i]
  BY <1>1, <1>2, <1>3, <1>4, SMT DEF IsJoin
<1>6. \A i \in 1 .. 32 : d[8 + i] = r[i] /\ d[40 + i] = p[i]
  BY <1>2, <1>3, <1>4, SMT DEF IsJoin
<1>7. QED
  BY <1>4, <1>5, <1>6 DEF a, b, c, d, IsJoin, IsPayload
(* Where the fields are in the header *)
IsHeader(all, v, p, r, t, s, n) ==
  /\ \A i \in 1 .. 4 : /\ all[i] = v[i] /\ all[68 + i] = t[i]
                       /\ all[72 + i] = s[i] /\ all[76 + i] = n[i]
  /\ \A i \in 1 .. 32 : all[4 + i] = p[i] /\ all[36 + i] = r[i]

LEMMA HeaderParts ==
  ASSUME NEW v \in Word, NEW p \in Hash, NEW r \in Hash, NEW t \in Word,
         NEW s \in Word, NEW n \in Word
  PROVE  IsHeader(v \o p \o r \o t \o s \o n, v, p, r, t, s, n)
<1> DEFINE a == v \o p
           b == a \o r
           c == b \o t
           d == c \o s
           e == d \o n
<1>0. /\ v \in [1 .. 4 -> Byte] /\ t \in [1 .. 4 -> Byte]
      /\ s \in [1 .. 4 -> Byte] /\ n \in [1 .. 4 -> Byte]
      /\ p \in [1 .. 32 -> Byte] /\ r \in [1 .. 32 -> Byte]
  BY DEF Word, Hash
<1>1. IsJoin(a, v, p, 4, 36)
  BY <1>0, Joined, 4 \in Nat, 32 \in Nat, 36 \in Nat, 36 = 4 + 32
<1> HIDE DEF a
<1>2. IsJoin(b, a, r, 36, 68)
  <2>1. a \in [1 .. 36 -> Byte]
    BY <1>1 DEF IsJoin
  <2>2. QED
    BY <1>0, <2>1, Joined,
       36 \in Nat, 32 \in Nat, 68 \in Nat, 68 = 36 + 32
<1> HIDE DEF b
<1>3. IsJoin(c, b, t, 68, 72)
  <2>1. b \in [1 .. 68 -> Byte]
    BY <1>2 DEF IsJoin
  <2>2. QED
    BY <1>0, <2>1, Joined,
       68 \in Nat, 4 \in Nat, 72 \in Nat, 72 = 68 + 4
<1> HIDE DEF c
<1>4. IsJoin(d, c, s, 72, 76)
  <2>1. c \in [1 .. 72 -> Byte]
    BY <1>3 DEF IsJoin
  <2>2. QED
    BY <1>0, <2>1, Joined,
       72 \in Nat, 4 \in Nat, 76 \in Nat, 76 = 72 + 4
<1> HIDE DEF d
<1>5. IsJoin(e, d, n, 76, 80)
  <2>1. d \in [1 .. 76 -> Byte]
    BY <1>4 DEF IsJoin
  <2>2. QED
    BY <1>0, <2>1, Joined,
       76 \in Nat, 4 \in Nat, 80 \in Nat, 80 = 76 + 4
<1> HIDE DEF e
<1>6. \A i \in 1 .. 4 : /\ e[i] = v[i]
                       /\ e[68 + i] = t[i]
                       /\ e[72 + i] = s[i]
                       /\ e[76 + i] = n[i]
  BY <1>1, <1>2, <1>3, <1>4, <1>5, SMT DEF IsJoin
<1>7. \A i \in 1 .. 32 : e[4 + i] = p[i] /\ e[36 + i] = r[i]
  BY <1>1, <1>2, <1>3, <1>4, <1>5, SMT DEF IsJoin
<1>8. QED
  BY <1>6, <1>7 DEF a, b, c, d, e, IsHeader

(* A place in 19 words *)
LEMMA WordAndByte ==
  ASSUME NEW i \in 1 .. 76
  PROVE  \E w \in 0 .. 18, j \in 1 .. 4 :
           /\ i = 4 * w + j
           /\ (i - 1) \div 4 = w
           /\ (i - 1) % 4 = j - 1
<1>1. /\ (i - 1) \div 4 \in Nat
      /\ (i - 1) % 4 \in 0 .. 4 - 1
      /\ i - 1 = ((i - 1) % 4) + 4 * ((i - 1) \div 4)
  BY Divided, i - 1 \in Nat, 4 \in Nat \ {0}
<1>2. PICK w \in Nat, j \in 0 .. 3 :
        i - 1 = j + 4 * w /\ (i - 1) \div 4 = w /\ (i - 1) % 4 = j
  BY <1>1
<1>3. w \in 0 .. 18 /\ j + 1 \in 1 .. 4
  BY <1>2
<1>4. i = 4 * w + (j + 1) /\ (i - 1) % 4 = (j + 1) - 1
  BY <1>2, <1>3
<1>5. QED
  BY <1>2, <1>3, <1>4

(* What the two reversals of the merkle root do to one of its bytes *)
LEMMA RootTurned ==
  ASSUME NEW h \in Hash, NEW w \in 0 .. 7, NEW j \in 1 .. 4
  PROVE  ReverseBytes(ReverseWord32(h))[4 * w + j] = h[4 * (7 - w) + j]
<1>1. 4 * w + j \in 1 .. 32 /\ 33 - (4 * w + j) \in 1 .. 32
  OBVIOUS
<1>2. ReverseBytes(ReverseWord32(h))[4 * w + j]
        = ReverseWord32(h)[33 - (4 * w + j)]
  BY <1>1, WordsSwapped, ReversedHash
<1>3. /\ (33 - (4 * w + j) - 1) \div 4 = 7 - w
      /\ (33 - (4 * w + j) - 1) % 4 = 4 - j
  <2>1. 33 - (4 * w + j) - 1 = (4 - j) + 4 * (7 - w)
    BY SMT
  <2>2. 7 - w \in Nat /\ 4 - j \in 0 .. 4 - 1
    BY SMT
  <2>3. QED
    BY <2>1, <2>2, OneQuotient, 4 \in Nat \ {0}
<1>4. ReverseWord32(h)[33 - (4 * w + j)]
        = h[4 * (7 - w) + 4 - (4 - j)]
  BY <1>1, <1>3 DEF ReverseWord32
<1>5. 4 * (7 - w) + 4 - (4 - j) = 4 * (7 - w) + j
  BY SMT
<1>6. QED
  BY <1>2, <1>4, <1>5

(* What ReverseWord32 does to a byte of the previous block *)
LEMMA PrevTurned ==
  ASSUME NEW h \in Hash, NEW w \in 0 .. 7, NEW j \in 1 .. 4
  PROVE  ReverseBytes(h)[4 * w + j] = ReverseWord32(h)[4 * (7 - w) + j]
<1>1. /\ 4 * w + j \in 1 .. 32
      /\ 4 * (7 - w) + j \in 1 .. 32
  OBVIOUS
<1>2. ReverseBytes(h)[4 * w + j] = h[33 - (4 * w + j)]
  BY <1>1, ReversedHash
<1>3. /\ (4 * (7 - w) + j - 1) \div 4 = 7 - w
      /\ (4 * (7 - w) + j - 1) % 4 = j - 1
  <2>1. 4 * (7 - w) + j - 1 = (j - 1) + 4 * (7 - w)
    BY SMT
  <2>2. 7 - w \in Nat /\ j - 1 \in 0 .. 4 - 1
    BY SMT
  <2>3. QED
    BY <2>1, <2>2, OneQuotient, 4 \in Nat \ {0}
<1>4. ReverseWord32(h)[4 * (7 - w) + j] = h[4 * (7 - w) + 4 - (j - 1)]
  BY <1>1, <1>3 DEF ReverseWord32
<1>5. 4 * (7 - w) + 4 - (j - 1) = 33 - (4 * w + j)
  BY SMT
<1>6. QED
  BY <1>2, <1>4, <1>5
(* The chip is given the header that SHA256dValidator hashes, word by word *)
(* from the end: whatever the job and the nonce (aonminer.go:492-504,      *)
(* general.go:207-214).                                                    *)
THEOREM ChipHashesHeader ==
  ASSUME NEW job \in HeaderFields, NEW nonce \in Word
  PROVE  ChipHashesHeaderOf(job, nonce)
<1> DEFINE t == ReverseBytes(job.networkTarget)
           s == ReverseBytes(job.blockTimestamp)
           v == ReverseBytes(job.version)
           n == ReverseBytes(nonce)
           r == ReverseBytes(ReverseWord32(job.merkleRoot))
           p == ReverseBytes(job.prevBlockHash)
           q == ReverseWord32(job.prevBlockHash)
           payload == Payload(job)
           header  == ValidatorHeader(job, nonce, job.version)
<1>1. /\ t \in Word /\ s \in Word /\ v \in Word /\ n \in Word
      /\ r \in Hash /\ p \in Hash /\ q \in Hash /\ job.merkleRoot \in Hash
  BY FieldTypes, ReversedWord, ReversedHash, WordsSwapped
<1>2. /\ payload = t \o s \o r \o p \o v
      /\ header = v \o q \o job.merkleRoot \o s \o t \o n
  BY DEF Payload, BmConstructJob, ValidatorHeader
<1>3. \A w \in 0 .. 7, j \in 1 .. 4 :
        /\ r[4 * w + j] = job.merkleRoot[4 * (7 - w) + j]
        /\ p[4 * w + j] = q[4 * (7 - w) + j]
  BY <1>1, FieldTypes, RootTurned, PrevTurned
<1> HIDE DEF t, s, v, n, r, p, q, payload, header
<1>4. IsPayload(payload, t, s, r, p, v)
  BY <1>1, <1>2, PayloadParts
<1>5. IsHeader(header, v, q, job.merkleRoot, s, t, n)
  BY <1>1, <1>2, HeaderParts
<1>6. ASSUME NEW w \in 0 .. 18, NEW j \in 1 .. 4
      PROVE  payload[4 * w + j] = header[4 * (18 - w) + j]
  <2>1. CASE w \in 0 .. 1 \/ w = 18
    BY <2>1, <1>4, <1>5, SMT DEF IsPayload, IsHeader
  <2>2. CASE w \in 2 .. 9
    <3> DEFINE u == w - 2
    <3>1. u \in 0 .. 7 /\ 4 * w + j = 8 + (4 * u + j)
          /\ 4 * (18 - w) + j = 36 + (4 * (7 - u) + j)
          /\ 4 * u + j \in 1 .. 32 /\ 4 * (7 - u) + j \in 1 .. 32
      BY <2>2, SMT
    <3>2. QED
      BY <3>1, <1>3, <1>4, <1>5 DEF IsPayload, IsHeader
  <2>3. CASE w \in 10 .. 17
    <3> DEFINE u == w - 10
    <3>1. u \in 0 .. 7 /\ 4 * w + j = 40 + (4 * u + j)
          /\ 4 * (18 - w) + j = 4 + (4 * (7 - u) + j)
          /\ 4 * u + j \in 1 .. 32 /\ 4 * (7 - u) + j \in 1 .. 32
      BY <2>3, SMT
    <3>2. QED
      BY <3>1, <1>3, <1>4, <1>5 DEF IsPayload, IsHeader
  <2>4. QED
    BY <2>1, <2>2, <2>3, SMT
<1>7. ASSUME NEW i \in 1 .. 76
      PROVE  payload[i] = header[4 * (18 - ((i - 1) \div 4)) + ((i - 1) % 4) + 1]
  <2>1. PICK w \in 0 .. 18, j \in 1 .. 4 :
          i = 4 * w + j /\ (i - 1) \div 4 = w /\ (i - 1) % 4 = j - 1
    BY WordAndByte
  <2>2. 4 * (18 - w) + (j - 1) + 1 = 4 * (18 - w) + j
    BY SMT
  <2>3. QED
    BY <2>1, <2>2, <1>6
<1>8. payload = WordsReversed(header)
  BY <1>4, <1>7 DEF WordsReversed, IsPayload
<1>9. QED
  BY <1>8 DEF ChipHashesHeaderOf, payload, header

(* The validator hashes the nonce that the chip has found, although        *)
(* bmDecodeWork pads and reverses it and the validator reverses it again   *)
(* (aonminer.go:526, general.go:213).                                      *)
THEOREM ValidatorHashesAnswer ==
  ASSUME NEW job \in HeaderFields, NEW nonceBytes \in Word,
         NEW version \in Word
  PROVE  NonceIsAsAnswered(job, nonceBytes, version)
<1> DEFINE nonce == AnswerNonce(nonceBytes)
           header == ValidatorHeader(job, nonce, version)
<1>1. nonce = ReverseBytes(nonceBytes)
  BY BytesOfWord DEF AnswerNonce
<1>2. /\ nonce \in Word
      /\ ReverseBytes(nonce) \in Word
      /\ \A i \in 1 .. 4 : nonce[i] = nonceBytes[5 - i]
      /\ \A i \in 1 .. 4 : ReverseBytes(nonce)[i] = nonce[5 - i]
  BY <1>1, ReversedWord
<1>3. \A i \in 1 .. 4 : ReverseBytes(nonce)[i] = nonceBytes[i]
  <2>1. \A i \in 1 .. 4 : 5 - i \in 1 .. 4 /\ 5 - (5 - i) = i
    BY SMT
  <2>2. QED
    BY <1>2, <2>1
<1> HIDE DEF nonce
<1>4. \A i \in 1 .. 4 : header[76 + i] = ReverseBytes(nonce)[i]
  <2>1. /\ ReverseBytes(version) \in Word
        /\ ReverseBytes(job.blockTimestamp) \in Word
        /\ ReverseBytes(job.networkTarget) \in Word
        /\ ReverseWord32(job.prevBlockHash) \in Hash
        /\ job.merkleRoot \in Hash
    BY FieldTypes, ReversedWord, WordsSwapped
  <2>2. IsHeader(header, ReverseBytes(version),
                 ReverseWord32(job.prevBlockHash), job.merkleRoot,
                 ReverseBytes(job.blockTimestamp),
                 ReverseBytes(job.networkTarget), ReverseBytes(nonce))
    BY <2>1, <1>2, HeaderParts DEF ValidatorHeader
  <2>3. QED
    BY <2>2 DEF IsHeader
<1>5. [i \in 1 .. 4 |-> header[76 + i]] = nonceBytes
  BY <1>3, <1>4 DEF Word
<1>6. QED
  BY <1>5 DEF NonceIsAsAnswered, nonce
-----------------------------------------------------------------------------
(* ExtraNonce2 *)

(* Remainders add up. *)
LEMMA RemaindersAdd ==
  ASSUME NEW d \in Nat \ {0}, NEW s \in Nat, NEW n \in Nat
  PROVE  ((s % d) + n) % d = (s + n) % d
<1>1. PICK q \in Nat, r \in 0 .. d - 1 : s % d = r /\ s = r + d * q
  BY Divided
<1>2. r + n \in Nat
  BY SMT
<1>3. PICK p \in Nat, t \in 0 .. d - 1 : (r + n) % d = t /\ r + n = t + d * p
  BY <1>2, Divided
<1>4. PICK u \in Nat : u = q + p
  OBVIOUS
<1>5. s + n = t + d * u
  BY <1>1, <1>3, <1>4, SMT
<1>6. (s + n) % d = t
  BY <1>5, OneQuotient
<1>7. QED
  BY <1>1, <1>3, <1>6

(* The remainder of the lowest byte, and of the rest *)
LEMMA LowByteFirst ==
  ASSUME NEW d \in Nat \ {0}, NEW s \in Nat
  PROVE  s % (256 * d) = (s % 256) + 256 * ((s \div 256) % d)
<1>1. PICK q \in Nat, r \in 0 .. 255 :
        s % 256 = r /\ s \div 256 = q /\ s = r + 256 * q
  BY Divided, 256 \in Nat \ {0}, 0 .. 255 = 0 .. 256 - 1
<1>2. PICK p \in Nat, t \in 0 .. d - 1 : q % d = t /\ q = t + d * p
  BY Divided
<1>3. s = (r + 256 * t) + (256 * d) * p
  BY <1>1, <1>2, SMT
<1>4. 256 * d \in Nat \ {0} /\ r + 256 * t \in 0 .. (256 * d) - 1
  BY SMT
<1>5. s % (256 * d) = r + 256 * t
  BY <1>3, <1>4, OneQuotient
<1>6. QED
  BY <1>1, <1>2, <1>5

(* What PadLeft leaves of a number *)
LEMMA PaddedValue ==
  ASSUME NEW s \in Nat, NEW length \in Nat \ {0}
  PROVE  BigEndian(PadLeft(s, length)) = s % Space(length)
<1> DEFINE b == PadLeft(s, length)
           at(k) == IF k < length THEN ByteOf(s, k) ELSE 0
           s1 == s \div 256
           s2 == s1 \div 256
           s3 == s2 \div 256
<1>1. Len(b) = length
  BY DEF PadLeft
<1>2. \A k \in 0 .. 3 : k < length => b[length - k] = ByteOf(s, k)
  <2>1. ASSUME NEW k \in 0 .. 3, k < length
        PROVE  length - k \in 1 .. length /\ length - (length - k) = k
    BY <2>1, SMT
  <2>2. QED
    BY <2>1 DEF PadLeft
<1>3. BigEndian(b) = at(0) + 256 * (at(1) + 256 * (at(2) + 256 * at(3)))
  BY <1>1, <1>2, SMT DEF BigEndian
<1>4. s1 \in Nat /\ s2 \in Nat /\ s3 \in Nat
  <2>1. 256 \in Nat \ {0}
    OBVIOUS
  <2>2. s1 \in Nat
    BY <2>1, Divided
  <2>3. s2 \in Nat
    BY <2>1, <2>2, Divided
  <2>4. QED
    BY <2>1, <2>2, <2>3, Divided
<1>5. /\ ByteOf(s, 0) = s % 256 /\ ByteOf(s, 1) = s1 % 256
      /\ ByteOf(s, 2) = s2 % 256 /\ ByteOf(s, 3) = s3 % 256
  BY DEF ByteOf
<1> HIDE DEF b, s1, s2, s3
<1>6. /\ s % (256 * 256) = (s % 256) + 256 * (s1 % 256)
      /\ s1 % (256 * 256) = (s1 % 256) + 256 * (s2 % 256)
      /\ s2 % (256 * 256) = (s2 % 256) + 256 * (s3 % 256)
  BY <1>4, LowByteFirst, 256 \in Nat \ {0} DEF s1, s2, s3
<1>7. /\ s % (256 * (256 * 256)) = (s % 256) + 256 * (s1 % (256 * 256))
      /\ s1 % (256 * (256 * 256)) = (s1 % 256) + 256 * (s2 % (256 * 256))
  BY <1>4, LowByteFirst, 256 * 256 \in Nat \ {0} DEF s1, s2
<1>8. s % (256 * (256 * (256 * 256)))
        = (s % 256) + 256 * (s1 % (256 * (256 * 256)))
  BY <1>4, LowByteFirst, 256 * (256 * 256) \in Nat \ {0} DEF s1
<1>9. CASE length = 1
  BY <1>3, <1>5, <1>9 DEF Space, b
<1>10. CASE length = 2
  <2>1. Space(length) = 256 * 256
    BY <1>10 DEF Space
  <2>2. BigEndian(b) = ByteOf(s, 0) + 256 * ByteOf(s, 1)
    BY <1>3, <1>4, <1>5, <1>10, SMT
  <2>3. QED
    BY <2>1, <2>2, <1>5, <1>6 DEF b
<1>11. CASE length = 3
  <2>1. Space(length) = 256 * (256 * 256)
    BY <1>11 DEF Space
  <2>2. BigEndian(b)
          = ByteOf(s, 0) + 256 * (ByteOf(s, 1) + 256 * ByteOf(s, 2))
    BY <1>3, <1>4, <1>5, <1>11, SMT
  <2>3. QED
    BY <2>1, <2>2, <1>5, <1>6, <1>7 DEF b
<1>12. CASE length \notin 1 .. 3
  BY <1>3, <1>5, <1>6, <1>7, <1>8, <1>12 DEF Space, b
<1>13. QED
  BY <1>9, <1>10, <1>11, <1>12
(* A round adds to ExtraNonce2 modulo 256^length, or 2^32 for four bytes   *)
(* and more, whatever the length: what JobDispatch takes it for            *)
(* (miner.go:191-197).                                                     *)
THEOREM ExtraNonce2RollsModulo ==
  ASSUME NEW value \in Nat, NEW n \in Nat, NEW length \in Nat \ {0}
  PROVE  RollsModulo(value, n, length)
<1> DEFINE d == Space(length)
           old == BigEndian(PadLeft(value, length))
<1>1. d \in Nat \ {0}
  BY DEF Space
<1>2. old = value % d
  BY PaddedValue
<1> HIDE DEF d, old
<1>3. old \in Nat
  BY <1>1, <1>2, Divided
<1>4. Len(PadLeft(value, length)) = length
  BY DEF PadLeft
<1>5. BigEndian(PadLeft(old + n, length)) = (old + n) % d
  <2>1. old + n \in Nat
    BY <1>3
  <2>2. QED
    BY <2>1, PaddedValue DEF d
<1>6. (old + n) % d = (value + n) % d
  BY <1>1, <1>2, RemaindersAdd
<1>7. QED
  BY <1>4, <1>5, <1>6 DEF RollsModulo, RollExtraNonce2, old, d

-----------------------------------------------------------------------------
(* JobIDs *)

(* An answer gives back the JobID that AsicSendJob has sent, whatever core *)
(* has found it (aonminer.go:403).                                         *)
THEOREM AnswersTellTheJobID ==
  ASSUME NEW jobID \in JobIDs16, NEW core \in 0 .. 15
  PROVE  JobIDIsTold(jobID, core)
<1>1. PICK k \in 0 .. 15 : jobID = 8 * k
  BY DEF JobIDs16
<1>2. jobID \div 8 = k
  BY <1>1, SMT
<1>3. (core + 16 * k) \div 16 = k
  BY OneQuotient, 16 \in Nat \ {0}, 0 .. 15 = 0 .. 16 - 1, k \in Nat
<1>4. 16 * k + core = core + 16 * k
  BY SMT
<1>5. QED
  BY <1>1, <1>2, <1>3, <1>4 DEF JobIDIsTold, AnswerJobID, AnswerByte

(* Steps of 24 visit all sixteen JobIDs before one comes again             *)
(* (aonminer.go:485), so the 14 pending jobs of a device have different    *)
(* ones as long as no two goroutines meet at the counter.                  *)
THEOREM JobIDsComeRound ==
  ASSUME NEW jobID \in JobIDs16
  PROVE  NextJobIDsDiffer(jobID)
<1>1. PICK m \in 0 .. 15 : jobID = 8 * m
  BY DEF JobIDs16
<1>2. JobIDAfter(jobID, 0) = jobID
  <2>1. jobID + 24 * 0 = jobID + 128 * 0 /\ jobID \in 0 .. 128 - 1
    BY <1>1, SMT
  <2>2. QED
    BY <2>1, <1>1, SMT DEF JobIDAfter
<1>3. ASSUME NEW k \in 0 .. 15
      PROVE  /\ JobIDAfter(jobID, k + 1) = RingJobID(JobIDAfter(jobID, k))
             /\ JobIDAfter(jobID, k + 1) \in JobIDs16
             /\ JobIDAfter(jobID, k + 1) = jobID <=> k + 1 = 16
  <2>1. (((jobID + 24 * k) % 128) + 24) % 128 = (jobID + 24 * k + 24) % 128
    <3>1. jobID + 24 * k \in Nat
      BY <1>1, SMT
    <3>2. QED
      BY <3>1, RemaindersAdd, 128 \in Nat \ {0}, 24 \in Nat
  <2>2. jobID + 24 * k + 24 = jobID + 24 * (k + 1)
    BY <1>1, SMT
  <2>3. PICK q \in Nat, t \in 0 .. 15 : m + 3 * (k + 1) = t + 16 * q
    <3>1. m + 3 * (k + 1) \in Nat
      BY SMT
    <3>2. QED
      BY <3>1, Divided, 16 \in Nat \ {0}, 0 .. 15 = 0 .. 16 - 1
  <2>4. jobID + 24 * (k + 1) = 8 * t + 128 * q /\ 8 * t \in 0 .. 128 - 1
    BY <1>1, <2>3, SMT
  <2>5. JobIDAfter(jobID, k + 1) = 8 * t
    BY <2>4, OneQuotient, 128 \in Nat \ {0} DEF JobIDAfter
  <2>6. 8 * t = 8 * m <=> k + 1 = 16
    BY <2>3, SMT
  <2>7. QED
    BY <1>1, <2>1, <2>2, <2>5, <2>6 DEF JobIDAfter, RingJobID, JobIDs16
<1>4. QED
  BY <1>2, <1>3 DEF NextJobIDsDiffer

-----------------------------------------------------------------------------
(* Versions *)

(* The pool can rebuild the version that was hashed, for every version of  *)
(* a job and every answer (aonminer.go:418-420, 520-524).                  *)
THEOREM SharesTellTheVersion ==
  ASSUME NEW base \in SUBSET (0 .. 31), NEW answer \in SUBSET (0 .. 15)
  PROVE  VersionIsAsHashed(base, answer)
<1> DEFINE full  == FullVersion(base, answer)
           share == ShareVersion(base, answer)
<1>1. \A b \in 0 .. 15 : b + 13 \in VersionMask
  BY SMT DEF VersionMask
<1>2. \A b \in 0 .. 15 : b \in answer <=> b + 13 \in full
  BY <1>1, SMT DEF FullVersion
<1>3. share = Xor(base, full)
  BY DEF ShareVersion
<1>4. share \subseteq VersionMask
  BY DEF ShareVersion, FullVersion, Xor
<1>5. Xor(base, Xor(base, full)) = full
  BY DEF Xor
<1>6. QED
  BY <1>2, <1>3, <1>4, <1>5 DEF VersionIsAsHashed
=============================================================================
