-------------------------- MODULE RangeWordsProofs ---------------------------
(***************************************************************************)
(* Machine-checked properties of the height arithmetic for every width of  *)
(* a word, every range size and delay that fit one, and every hash size.   *)
(***************************************************************************)
EXTENDS RangeWords, TLAPS

-----------------------------------------------------------------------------
(* The inductive invariant.                                                *)

Inputs ==
  /\ rangeSize \in RangeSizes /\ stableDelay \in StableDelays
  /\ from \in Words /\ tip \in Words \ {MaxWord} /\ to \in 0..tip

Aligned(s) == \E q \in Nat : s = q * rangeSize

(* The ranges the run is to index.                                         *)
Complete(s) ==
  /\ Aligned(s)
  /\ s + rangeSize > from
  /\ s + rangeSize - 1 <= to
  /\ s + rangeSize - 1 + stableDelay <= tip

(* All below the range of the loop is done, and nothing above it.          *)
Looping ==
  /\ start \in Words /\ Aligned(start)
  /\ StartHeight(from) <= start /\ start <= to /\ from <= to
  /\ uploaded = StartHeight(from)..(start - 1)
  /\ DOMAIN index = {s \in Words : Complete(s) /\ s < start}

Finished ==
  IF from <= to
  THEN /\ uploaded = StartHeight(from)..to
       /\ DOMAIN index = {s \in Words : Complete(s)}
  ELSE uploaded = {} /\ DOMAIN index = {}

(* No indexed range ends beyond the words.                                 *)
Indexes ==
  \A s \in DOMAIN index :
    /\ s \in Words /\ s + rangeSize <= MaxWord
    /\ index[s] = RangeIndexBytes(s)

WordsInv ==
  /\ Inputs
  /\ pc \in {"range", "done"}
  /\ pc = "range" => Looping
  /\ pc = "done" => Finished
  /\ Indexes

-----------------------------------------------------------------------------
(* Words and multiples.                                                    *)

LEMMA Numbers ==
  ASSUME Inputs
  PROVE  /\ MaxWord \in Nat /\ MaxWord >= 1
         /\ rangeSize \in 1..MaxWord /\ stableDelay \in 0..MaxWord
         /\ from \in 0..MaxWord /\ tip \in 0..(MaxWord - 1) /\ to \in 0..tip
BY WordAssumption DEF Inputs, Words

(* Quotients are unique.                                                   *)
LEMMA Quotients ==
  ASSUME NEW n \in Nat \ {0}, NEW d \in Int, NEW q \in Int, NEW x \in Int,
         n * d <= x, x <= n * d + n - 1, n * q <= x, x <= n * q + n - 1
  PROVE  d = q
<1>1. ASSUME NEW a \in Int, NEW c \in Int, a > c
      PROVE  n * a >= n * c + n
  <2>1. n * (a - c - 1) >= 0
    BY <1>1
  <2>2. n * (a - c - 1) = n * a - n * c - n
    OBVIOUS
  <2> QED BY <2>1, <2>2
<1>2. n * d \in Int /\ n * q \in Int
  OBVIOUS
<1>3. CASE d > q
  <2>1. n * d >= n * q + n
    BY <1>1, <1>3
  <2> QED BY <2>1, <1>2
<1>4. CASE q > d
  <2>1. n * q >= n * d + n
    BY <1>1, <1>4
  <2> QED BY <2>1, <1>2
<1> QED BY <1>3, <1>4

(* Division by n of q times n and a remainder.                             *)
LEMMA Division ==
  ASSUME NEW n \in Nat \ {0}, NEW q \in Nat, NEW r \in 0..(n - 1)
  PROVE  (q * n + r) \div n = q /\ (q * n + r) % n = r
<1> DEFINE x == q * n + r
           d == x \div n
           m == x % n
<1>1. n * q = q * n /\ n * q \in Nat
  OBVIOUS
<1>8. x \in Nat
  OBVIOUS
<1> HIDE DEF x
<1>2. d \in Nat /\ m \in 0..(n - 1) /\ x = n * d + m
  BY <1>8
<1> HIDE DEF d, m
<1>7. n * d \in Int
  BY <1>2
<1>3. x = n * q + r
  BY <1>1 DEF x
<1>4. n * d <= x /\ x <= n * d + n - 1 /\ n * q <= x /\ x <= n * q + n - 1
  BY <1>1, <1>2, <1>3, <1>7
<1>5. d = q
  BY <1>1, <1>2, <1>4, Quotients
<1>6. m = r
  BY <1>1, <1>2, <1>3, <1>5
<1> QED BY <1>5, <1>6 DEF d, m, x

LEMMA WordOf ==
  ASSUME MaxWord \in Nat, NEW n \in 0..MaxWord
  PROVE  Word(n) = n
<1> DEFINE m == MaxWord + 1
<1>1. m \in Nat \ {0} /\ n \in 0..(m - 1) /\ 0 * m + n = n
  OBVIOUS
<1> HIDE DEF m
<1>2. (0 * m + n) % m = n
  BY <1>1, Division
<1> QED BY <1>1, <1>2 DEF Word, m

LEMMA MultiplesOf ==
  ASSUME Inputs, NEW s \in Nat
  PROVE  s % rangeSize = 0 <=> Aligned(s)
<1>1. rangeSize \in Nat \ {0}
  BY Numbers
<1>2. ASSUME NEW q \in Nat, s = q * rangeSize
      PROVE  s % rangeSize = 0
  BY <1>1, <1>2, Division, q * rangeSize + 0 = q * rangeSize, 0 \in 0..(rangeSize - 1)
<1>3. s \div rangeSize \in Nat /\ s = rangeSize * (s \div rangeSize) + (s % rangeSize)
  BY <1>1
<1>4. ASSUME s % rangeSize = 0
      PROVE  s = (s \div rangeSize) * rangeSize
  BY <1>1, <1>3, <1>4
<1> QED BY <1>2, <1>3, <1>4 DEF Aligned

LEMMA AlignedApart ==
  ASSUME Inputs, NEW s, NEW t, Aligned(s), Aligned(t)
  PROVE  /\ s \in Nat /\ t \in Nat
         /\ s < t => s + rangeSize <= t
         /\ Aligned(s + rangeSize)
<1> DEFINE n == rangeSize
<1>1. n \in Nat \ {0}
  BY Numbers
<1> HIDE DEF n
<1>2. PICK p \in Nat : s = p * n
  BY DEF Aligned, n
<1>3. PICK q \in Nat : t = q * n
  BY DEF Aligned, n
<1>4. p * n \in Nat /\ q * n \in Nat
  BY <1>1
<1>5. p >= q => (p - q) * n >= 0
  BY <1>1
<1>6. (p - q) * n = p * n - q * n
  BY <1>1
<1>7. p < q => (q - p - 1) * n >= 0
  BY <1>1
<1>8. (q - p - 1) * n = q * n - p * n - n
  BY <1>1
<1>9. (p + 1) * n = p * n + n
  BY <1>1
<1>10. p < q => p * n + n <= q * n
  BY <1>1, <1>4, <1>7, <1>8
<1>11. p >= q => p * n >= q * n
  BY <1>1, <1>4, <1>5, <1>6
<1>12. s < t => s + n <= t
  BY <1>1, <1>2, <1>3, <1>4, <1>10, <1>11
<1> QED BY <1>2, <1>3, <1>4, <1>9, <1>12, p + 1 \in Nat DEF Aligned, n

LEMMA StartHeightBounds ==
  ASSUME Inputs
  PROVE  /\ Aligned(StartHeight(from)) /\ StartHeight(from) \in Nat
         /\ StartHeight(from) <= from /\ from < StartHeight(from) + rangeSize
<1> DEFINE n == rangeSize
           d == from \div n
<1>1. n \in Nat \ {0} /\ from \in Nat
  BY Numbers
<1> HIDE DEF n
<1>2. d \in Nat /\ n * d <= from /\ from < n * d + n /\ n * d = d * n /\ d * n \in Nat
  BY <1>1
<1> HIDE DEF d
<1>3. StartHeight(from) = d * n
  BY DEF StartHeight, d, n
<1> QED BY <1>1, <1>2, <1>3 DEF Aligned, n

(* What the helpers answer, in natural numbers.                            *)
LEMMA Helpers ==
  ASSUME Inputs, NEW s \in Words
  PROVE  /\ EndOfRange(s) = IF s + rangeSize - 1 > MaxWord THEN MaxWord ELSE s + rangeSize - 1
         /\ LastRange(s) <=> s + rangeSize > MaxWord
         /\ ~LastRange(s) => Word(s + rangeSize) = s + rangeSize
<1>1. MaxWord - rangeSize \in 0..MaxWord /\ MaxWord - rangeSize + 1 \in 0..MaxWord
      /\ s \in 0..MaxWord /\ rangeSize \in 1..MaxWord
  BY Numbers DEF Words
<1>2. Word(MaxWord - rangeSize) = MaxWord - rangeSize
      /\ Word(MaxWord - rangeSize + 1) = MaxWord - rangeSize + 1
  BY <1>1, Numbers, WordOf
<1>3. s + rangeSize - 1 <= MaxWord => Word(s + rangeSize - 1) = s + rangeSize - 1
  BY <1>1, Numbers, WordOf
<1>4. s + rangeSize <= MaxWord => Word(s + rangeSize) = s + rangeSize
  BY <1>1, Numbers, WordOf
<1> QED BY <1>1, <1>2, <1>3, <1>4, Numbers DEF EndOfRange, LastRange

LEMMA PublishableIff ==
  ASSUME Inputs, NEW s \in Words, EndOfRange(s) <= to, Stable(EndOfRange(s))
  PROVE  /\ EndOfRange(s) = s + rangeSize - 1 /\ s + rangeSize <= MaxWord
         /\ s + rangeSize - 1 + stableDelay <= tip
BY Helpers, Numbers DEF Stable, Words

LEMMA CompleteIff ==
  ASSUME Inputs, NEW s \in Words, Aligned(s), s + rangeSize > from
  PROVE  Complete(s) <=> EndOfRange(s) <= to /\ Stable(EndOfRange(s))
BY Helpers, PublishableIff, Numbers DEF Stable, Words, Complete

-----------------------------------------------------------------------------
(* The bytes of an index.                                                  *)

(* The concatenated hashes of a range.                                     *)
LEMMA IndexBytes ==
  ASSUME Inputs, NEW s \in Words, s + rangeSize <= MaxWord
  PROVE  /\ RangeIndexBytes(s) =
              [i \in 1..(rangeSize * HashSize) |->
                 HashBytes(s + (i - 1) \div HashSize)[((i - 1) % HashSize) + 1]]
         /\ RangeIndexBytes(s) # Error
<1> DEFINE size == rangeSize * HashSize
           hashes == [i \in 1..rangeSize |-> HashBytes(s + i - 1)]
           bytes == [i \in 1..size |-> hashes[((i - 1) \div HashSize) + 1][((i - 1) % HashSize) + 1]]
           flat == [i \in 1..size |-> HashBytes(s + (i - 1) \div HashSize)[((i - 1) % HashSize) + 1]]
<1>1. rangeSize \in 1..MaxWord /\ s \in 0..MaxWord /\ HashSize \in Nat \ {0} /\ size \in Nat /\ size >= 1
  <2>1. rangeSize \in Nat \ {0} /\ HashSize \in Nat \ {0}
    BY Numbers, WordAssumption
  <2>2. rangeSize * HashSize \in Nat /\ rangeSize * HashSize >= 1
    <3>1. (rangeSize - 1) * HashSize >= 0
      BY <2>1
    <3> QED BY <3>1, <2>1
  <2> QED BY <2>1, <2>2, Numbers DEF Words
<1>2. Word(s + rangeSize) = s + rangeSize
  BY <1>1, Numbers, WordOf
<1>3. s \in IndexedHeights(s)
  BY <1>1, <1>2 DEF IndexedHeights
<1>4. Len(hashes) = rangeSize
  BY <1>1
<1>5. RangeIndexBytes(s) = bytes
  <2>1. RangeIndexBytes(s) = Encode(hashes)
    BY <1>3 DEF RangeIndexBytes
  <2> HIDE DEF hashes
  <2> QED BY <2>1, <1>4 DEF Encode
<1>6. ASSUME NEW i \in 1..size
      PROVE  hashes[((i - 1) \div HashSize) + 1] = HashBytes(s + (i - 1) \div HashSize)
  <2> DEFINE j == (i - 1) \div HashSize
  <2>1. i - 1 \in Nat
    BY <1>1
  <2>2. j \in Nat /\ HashSize * j <= i - 1
    BY <2>1, <1>1
  <2> HIDE DEF j
  <2>3. j < rangeSize
    <3>1. j >= rangeSize => HashSize * (j - rangeSize) >= 0
      BY <2>2, <1>1
    <3>2. HashSize * (j - rangeSize) = HashSize * j - rangeSize * HashSize
      BY <2>2, <1>1
    <3>3. HashSize * j \in Int
      BY <2>2, <1>1
    <3> QED BY <3>1, <3>2, <3>3, <2>2, <1>1
  <2>4. j + 1 \in 1..rangeSize /\ s + (j + 1) - 1 = s + j
    BY <2>2, <2>3, <1>1
  <2>5. hashes[j + 1] = HashBytes(s + j)
    BY <2>4
  <2> QED BY <2>5 DEF j
<1> HIDE DEF hashes
<1>7. bytes = flat
  BY <1>6
<1>8. flat # Error
  <2>1. 1 \in DOMAIN flat
    BY <1>1
  <2>2. DOMAIN Error = {}
    BY DEF Error
  <2> QED BY <2>1, <2>2
<1> QED BY <1>5, <1>7, <1>8

(* A hash is read back from the index of its range, and from no other.     *)
LEMMA HashesReadBack ==
  ASSUME Inputs, NEW s \in Words, s + rangeSize <= MaxWord, NEW h \in Words
  PROVE  HashAt(RangeIndexBytes(s), s, h) =
           IF s <= h /\ h < s + rangeSize THEN HashBytes(h) ELSE Error
<1> DEFINE size == rangeSize * HashSize
           bin == RangeIndexBytes(s)
           off == (h - s) * HashSize
<1>1. rangeSize \in 1..MaxWord /\ s \in 0..MaxWord /\ h \in 0..MaxWord /\ HashSize \in Nat \ {0}
  BY Numbers, WordAssumption DEF Words
<1>2. h >= s => Word(h - s) = h - s
  BY <1>1, Numbers, WordOf
<1>3. CASE h < s \/ h >= s + rangeSize
  BY <1>1, <1>2, <1>3 DEF HashAt
<1>4. CASE s <= h /\ h < s + rangeSize
  <2>1. size \in Nat /\ off \in Nat /\ off + HashSize <= size
    <3>1. h - s \in Nat /\ rangeSize - 1 - (h - s) \in Nat
      BY <1>1, <1>4
    <3>2. (rangeSize - 1 - (h - s)) * HashSize >= 0 /\ (h - s) * HashSize \in Nat
          /\ rangeSize * HashSize \in Nat
      BY <3>1, <1>1
    <3>3. (rangeSize - 1 - (h - s)) * HashSize = rangeSize * HashSize - HashSize - (h - s) * HashSize
      BY <3>1, <1>1
    <3> QED BY <3>2, <3>3, <1>1
  <2>2. bin = [i \in 1..size |-> HashBytes(s + (i - 1) \div HashSize)[((i - 1) % HashSize) + 1]]
    BY IndexBytes
  <2> HIDE DEF bin
  <2>3. Len(bin) = size
    BY <2>1, <2>2
  <2>4. HashAt(bin, s, h) = SubSeq(bin, off + 1, off + HashSize)
    BY <2>3, <1>1, <1>2, <1>4 DEF HashAt, Offset
  <2>5. ASSUME NEW i \in 1..HashSize
        PROVE  bin[off + i] = HashBytes(h)[i]
    <3>1. off + i \in 1..size /\ h - s \in Nat /\ i - 1 \in 0..(HashSize - 1)
      BY <2>1, <1>1, <1>4
    <3>2. off + i - 1 = (h - s) * HashSize + (i - 1)
      BY <2>1, <1>1
    <3>3. (off + i - 1) \div HashSize = h - s /\ (off + i - 1) % HashSize = i - 1
      BY <3>1, <3>2, <1>1, Division
    <3> DEFINE k == off + i
    <3>4. bin[k] = HashBytes(s + (h - s))[(i - 1) + 1]
      <4>1. k \in 1..size /\ (k - 1) \div HashSize = h - s /\ (k - 1) % HashSize = i - 1
        BY <3>1, <3>3, <2>1, <1>1, (off + i) - 1 = off + i - 1
      <4> HIDE DEF k, size
      <4>2. bin[k] = HashBytes(s + (k - 1) \div HashSize)[((k - 1) % HashSize) + 1]
        BY <4>1, <2>2
      <4> QED BY <4>1, <4>2
    <3> HIDE DEF off
    <3> QED BY <3>4, <1>1, s + (h - s) = h, (i - 1) + 1 = i
  <2> HIDE DEF off, size
  <2>6. SubSeq(bin, off + 1, off + HashSize) = HashBytes(h)
    <3>4. off + 1 \in Int /\ off + HashSize \in Int /\ off + 1 <= off + HashSize
          /\ (off + HashSize) - (off + 1) + 1 = HashSize
      BY <2>1, <1>1
    <3> DEFINE sub == SubSeq(bin, off + 1, off + HashSize)
    <3>5. sub = [i \in 1..HashSize |-> bin[(off + 1) + i - 1]]
      BY <3>4
    <3> HIDE DEF sub
    <3>6. ASSUME NEW i \in 1..HashSize
          PROVE  sub[i] = h + i
      <4>1. (off + 1) + i - 1 = off + i
        BY <2>1, <1>1
      <4> QED BY <3>5, <4>1, <2>5 DEF HashBytes
    <3>8. sub = [i \in 1..HashSize |-> h + i]
      BY <3>5, <3>6
    <3> QED BY <3>8 DEF HashBytes, sub
  <2> QED BY <2>4, <2>6, <1>4 DEF bin
<1> QED BY <1>1, <1>3, <1>4

-----------------------------------------------------------------------------
(* The invariant is inductive.                                             *)

LEMMA InitInv ==
  ASSUME Init
  PROVE  WordsInv
<1>1. Inputs
  BY DEF Init, Inputs
<1>2. uploaded = {} /\ DOMAIN index = {} /\ Indexes
  BY DEF Init, Indexes
<1>3. CASE from > to
  BY <1>1, <1>2, <1>3, Numbers DEF Init, WordsInv, Finished
<1>4. CASE ~(from > to)
  <2>1. pc = "range" /\ start = StartHeight(from)
    BY <1>4 DEF Init
  <2>2. /\ Aligned(start) /\ start \in Nat /\ start <= from /\ from < start + rangeSize
    BY <2>1, <1>1, StartHeightBounds
  <2>3. start \in Words /\ start <= to /\ from <= to
    BY <1>1, <1>4, <2>2, Numbers DEF Words
  <2>4. StartHeight(from)..(start - 1) = {}
    BY <2>1, <2>2
  <2>5. ASSUME NEW s \in Words, Complete(s), s < start
        PROVE  FALSE
    BY <2>2, <2>5, <1>1, AlignedApart, Numbers DEF Complete
  <2>6. {s \in Words : Complete(s) /\ s < start} = {}
    BY <2>5
  <2>7. Looping
    BY <2>1, <2>2, <2>3, <2>4, <2>6, <1>2 DEF Looping
  <2> QED BY <2>1, <2>7, <1>1, <1>2 DEF WordsInv
<1> QED BY <1>3, <1>4

(* A round does not change what the run was asked for.                     *)
LEMMA InputsStay ==
  ASSUME UNCHANGED inputVars
  PROVE  /\ Inputs' <=> Inputs
         /\ StartHeight(from)' = StartHeight(from)
         /\ \A s : (Complete(s)' <=> Complete(s)) /\ (Aligned(s)' <=> Aligned(s))
         /\ \A s : RangeIndexBytes(s)' = RangeIndexBytes(s)
BY DEF inputVars, Inputs, StartHeight, Complete, Aligned, RangeIndexBytes, Encode, IndexedHeights

LEMMA RangeInv ==
  ASSUME WordsInv, Range
  PROVE  WordsInv'
<1> DEFINE S == StartHeight(from)
<1>1. Inputs /\ Looping /\ Indexes /\ pc = "range"
  BY DEF WordsInv, Range
<1>2. UNCHANGED inputVars /\ uploaded' = uploaded \cup (start..UploadEnd)
  BY DEF Range
<1>3. /\ start \in Words /\ start \in 0..MaxWord /\ Aligned(start)
      /\ S \in Nat /\ S <= start /\ start <= to /\ from <= to /\ S <= from /\ from < S + rangeSize
      /\ start + rangeSize > from /\ MaxWord \in Nat /\ to < MaxWord /\ to \in Nat
      /\ rangeSize \in 1..MaxWord
  BY <1>1, StartHeightBounds, Numbers DEF Looping, Words
<1>4. Inputs' /\ S' = S
  BY <1>1, <1>2, InputsStay
(* The index of the range is written when the range is complete.           *)
<1>5. /\ Publishable <=> Complete(start)
      /\ Publishable => start + rangeSize <= MaxWord
  BY <1>1, <1>3, CompleteIff, PublishableIff DEF Publishable
<1>6. DOMAIN index' = {s \in Words : Complete(s) /\ s <= start} /\ Indexes' /\ NextRange
  <2>0. \A s \in Words : s <= start <=> s < start \/ s = start
    BY <1>3 DEF Words
  <2>1. CASE Publishable
    <3>1. RangeIndexBytes(start) # Error
      BY <2>1, <1>1, <1>3, <1>5, IndexBytes
    <3>2. index' = [s \in DOMAIN index \cup {start} |->
                      IF s = start THEN RangeIndexBytes(start) ELSE index[s]]
          /\ NextRange
      BY <2>1, <3>1 DEF Range
    <3>3. DOMAIN index' = DOMAIN index \cup {start}
      BY <3>2
    <3>4. DOMAIN index' = {s \in Words : Complete(s) /\ s <= start}
      BY <3>3, <2>0, <2>1, <1>1, <1>3, <1>5 DEF Looping
    <3>5. ASSUME NEW s \in DOMAIN index'
          PROVE  s \in Words /\ s + rangeSize <= MaxWord /\ index'[s] = RangeIndexBytes(s)
      BY <3>2, <3>3, <1>1, <1>3, <1>5, <2>1 DEF Indexes
    <3> QED BY <3>2, <3>4, <3>5, <1>2, InputsStay DEF Indexes, inputVars
  <2>2. CASE ~Publishable
    <3>1. index' = index /\ NextRange
      BY <2>2 DEF Range
    <3>2. DOMAIN index = {s \in Words : Complete(s) /\ s <= start}
      BY <2>0, <2>2, <1>1, <1>3, <1>5 DEF Looping
    <3> QED BY <3>1, <3>2, <1>1, <1>2, InputsStay DEF Indexes, inputVars
  <2> QED BY <2>1, <2>2
<1>7. /\ EndOfRange(start) = IF start + rangeSize - 1 > MaxWord THEN MaxWord ELSE start + rangeSize - 1
      /\ LastRange(start) <=> start + rangeSize > MaxWord
      /\ ~LastRange(start) => Word(start + rangeSize) = start + rangeSize
  BY <1>1, <1>3, Helpers
<1>8. uploaded = S..(start - 1)
  BY <1>1 DEF Looping
<1>9. CASE start + rangeSize > to
  <2>1. UploadEnd = to
    BY <1>3, <1>7, <1>9 DEF UploadEnd
  <2>2. uploaded' = S..to
    BY <2>1, <1>2, <1>3, <1>8
  <2>3. pc' = "done"
    BY <1>3, <1>6, <1>7, <1>9 DEF NextRange
  <2>4. ASSUME NEW s \in Words, Complete(s)
        PROVE  s <= start
    <3>1. s \in Nat /\ Aligned(s) /\ s + rangeSize - 1 <= to
      BY <2>4, <1>1, AlignedApart DEF Complete, Words
    <3>2. start < s => start + rangeSize <= s
      BY <3>1, <1>1, <1>3, AlignedApart
    <3> QED BY <3>1, <3>2, <1>3, <1>9
  <2>5. DOMAIN index' = {s \in Words : Complete(s)}
    BY <2>4, <1>6
  <2>6. Finished'
    BY <2>2, <2>5, <1>2, <1>3, <1>4, InputsStay DEF Finished, inputVars
  <2> QED BY <2>3, <2>6, <1>4, <1>6 DEF WordsInv
<1>10. CASE ~(start + rangeSize > to)
  <2>1. UploadEnd = start + rangeSize - 1
    BY <1>3, <1>7, <1>10 DEF UploadEnd
  <2>2. pc' = "range" /\ start' = start + rangeSize
    BY <1>3, <1>6, <1>7, <1>10, <1>1 DEF NextRange
  <2>3. uploaded' = S..(start' - 1)
    BY <2>1, <2>2, <1>2, <1>3, <1>8
  <2>4. start' \in Words /\ Aligned(start') /\ S <= start' /\ start' <= to
    BY <2>2, <1>1, <1>3, <1>10, AlignedApart DEF Words
  <2>5. ASSUME NEW s \in Words, Complete(s)
        PROVE  s <= start <=> s < start'
    <3>1. s \in Nat /\ Aligned(s)
      BY <2>5, <1>1, AlignedApart DEF Complete, Words
    <3>2. start < s => start + rangeSize <= s
      BY <3>1, <1>1, <1>3, AlignedApart
    <3> QED BY <3>1, <3>2, <2>2, <1>3
  <2>6. DOMAIN index' = {s \in Words : Complete(s) /\ s < start'}
    BY <2>5, <1>6
  <2>7. Looping'
    BY <2>3, <2>4, <2>6, <1>2, <1>3, <1>4, InputsStay DEF Looping, inputVars
  <2> QED BY <2>2, <2>7, <1>4, <1>6 DEF WordsInv
<1> QED BY <1>3, <1>9, <1>10

LEMMA StutterInv ==
  ASSUME WordsInv, UNCHANGED vars
  PROVE  WordsInv'
<1>1. UNCHANGED inputVars /\ pc' = pc /\ start' = start /\ uploaded' = uploaded /\ index' = index
  BY DEF vars
<1> QED BY <1>1, InputsStay DEF WordsInv, Looping, Finished, Indexes, inputVars

-----------------------------------------------------------------------------
(* For every word, range size, delay and hash size: a round of the loop    *)
(* leaves everything below the next range done and nothing above it, and   *)
(* no addition it relies on wraps.                                         *)
THEOREM WordsInvariant == Spec => []WordsInv
<1>1. Init => WordsInv
  BY InitInv
<1>2. WordsInv /\ [Next]_vars => WordsInv'
  BY RangeInv, StutterInv DEF Next
<1> QED BY <1>1, <1>2, PTL DEF Spec

(* UploadOnce enters no range twice, uploads exactly the heights from the  *)
(* start of the first range on and indexes exactly the complete and stable *)
(* ranges, up to the greatest word.                                        *)
THEOREM RequestsAreCovered == Spec => []CoversRequest
<1>1. ASSUME WordsInv
      PROVE  CoversRequest
  <2>1. Inputs
    BY <1>1 DEF WordsInv
  <2>2. ASSUME pc = "range", NEW h \in uploaded
        PROVE  h < start
    <3>1. h \in StartHeight(from)..(start - 1) /\ start \in Nat /\ StartHeight(from) \in Nat
      BY <1>1, <2>1, <2>2, StartHeightBounds DEF WordsInv, Looping, Words
    <3> QED BY <3>1
  <2>3. ASSUME pc = "done", from <= to
        PROVE  /\ uploaded = ((from \div rangeSize) * rangeSize)..to
               /\ DOMAIN index = {s \in Words : /\ s % rangeSize = 0
                                                /\ s + rangeSize > from
                                                /\ s + rangeSize - 1 <= to
                                                /\ s + rangeSize - 1 + stableDelay <= tip}
    <3>1. uploaded = StartHeight(from)..to /\ DOMAIN index = {s \in Words : Complete(s)}
      BY <1>1, <2>3 DEF WordsInv, Finished
    <3>2. \A s \in Words : s % rangeSize = 0 <=> Aligned(s)
      BY <2>1, MultiplesOf, Numbers DEF Words
    <3>3. uploaded = ((from \div rangeSize) * rangeSize)..to
      BY <3>1 DEF StartHeight
    <3>4. DOMAIN index = {s \in Words : /\ s % rangeSize = 0
                                        /\ s + rangeSize > from
                                        /\ s + rangeSize - 1 <= to
                                        /\ s + rangeSize - 1 + stableDelay <= tip}
      BY <3>1, <3>2, Zenon DEF Complete
    <3> QED BY <3>3, <3>4
  <2> QED BY <2>2, <2>3 DEF CoversRequest
<1> QED BY <1>1, WordsInvariant, PTL

(* An index that UploadOnce wrote answers HashAt with the hash of each of  *)
(* its heights, and with an error for any other height.                    *)
THEOREM IndexesReadBack == Spec => []IndexReadsBack
<1>1. ASSUME WordsInv
      PROVE  IndexReadsBack
  BY <1>1, HashesReadBack DEF WordsInv, Indexes, IndexReadsBack
<1> QED BY <1>1, WordsInvariant, PTL
=============================================================================
