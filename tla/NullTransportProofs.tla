------------------------- MODULE NullTransportProofs -------------------------
(***************************************************************************)
(* Theorems about the packet format, the checksum, the file layer and the  *)
(* transport that uses them: for every buffer of bytes, every file, every  *)
(* chunk size and every number of packets.                                 *)
(***************************************************************************)
EXTENDS NullTransport, TLAPS, SequenceTheorems, WellFoundedInduction

-----------------------------------------------------------------------------
(* Induction, by the least counterexample.                                 *)

LEMMA Least ==
  ASSUME NEW T \in SUBSET Nat, T # {}
  PROVE  \E n \in T : \A m \in T : n <= m
<1> DEFINE R == OpToRel(<, Nat)
<1>1. IsWellFoundedOn(R, Nat)
  BY NatLessThanWellFounded
<1>2. \A x \in Nat, y \in Nat : x < y => <<x, y>> \in R
  BY DEF OpToRel
<1> HIDE DEF R
<1>3. PICK n \in T : \A m \in T : ~ (<<m, n>> \in R)
  BY <1>1, WFMin
<1>4. ASSUME NEW m \in T PROVE n <= m
  <2>1. n \in Nat /\ m \in Nat
    OBVIOUS
  <2>2. ~(m < n)
    BY <1>2, <1>3, <2>1
  <2> QED BY <2>1, <2>2
<1> QED BY <1>4

\* A set of the numbers up to n that has 0 and with each number the next one.
LEMMA UpTo ==
  ASSUME NEW n \in Nat, NEW G,
         0 \in G, \A i \in 1 .. n : i - 1 \in G => i \in G
  PROVE  0 .. n \subseteq G
<1> DEFINE T == {i \in 0 .. n : i \notin G}
<1> SUFFICES ASSUME T # {} PROVE FALSE
  OBVIOUS
<1>1. T \subseteq Nat
  OBVIOUS
<1>2. PICK i \in T : \A j \in T : i <= j
  <2> HIDE DEF T
  <2> QED BY <1>1, Least
<1>3. i \in 1 .. n /\ i - 1 \in 0 .. n /\ ~(i <= i - 1)
  BY <1>2
<1>4. i - 1 \notin T
  BY <1>2, <1>3
<1> QED BY <1>2, <1>3, <1>4

\* The values f of a loop of n rounds that begins with a.
Loop(f, a, n, step) ==
    f = [i \in 0 .. n |-> IF i = 0 THEN a ELSE step[<<i, f[i - 1]>>]]

\* A loop has its values: what a recursive function over its rounds says of
\* itself is true.
LEMMA LoopValues ==
  ASSUME NEW V, NEW a \in V, NEW n \in Nat, NEW step \in [(1 .. n) \X V -> V]
  PROVE  \E f \in [0 .. n -> V] : Loop(f, a, n, step)
<1> DEFINE Good(k, f) == f[0] = a /\ \A i \in 1 .. k : f[i] = step[<<i, f[i - 1]>>]
           G == {k \in 0 .. n : \E f \in [0 .. k -> V] : Good(k, f)}
<1>1. 0 \in G
  <2>1. [i \in 0 .. 0 |-> a] \in [0 .. 0 -> V] /\ Good(0, [i \in 0 .. 0 |-> a])
    OBVIOUS
  <2> HIDE DEF Good
  <2> QED BY <2>1
<1>2. ASSUME NEW k \in 1 .. n, k - 1 \in G PROVE k \in G
  <2>1. PICK f \in [0 .. k - 1 -> V] : Good(k - 1, f)
    BY <1>2
  <2> DEFINE g == [i \in 0 .. k |-> IF i = k THEN step[<<k, f[k - 1]>>] ELSE f[i]]
  <2>2. f[k - 1] \in V
    BY <2>1
  <2>3. step[<<k, f[k - 1]>>] \in V
    BY <2>2
  <2>4. g \in [0 .. k -> V] /\ g[0] = a
    BY <2>1, <2>3
  <2>5. ASSUME NEW i \in 1 .. k PROVE g[i] = step[<<i, g[i - 1]>>]
    <3>1. CASE i = k
      <4>1. k - 1 \in 0 .. k /\ k - 1 # k /\ k \in 0 .. k
        OBVIOUS
      <4>2. g[k] = step[<<k, f[k - 1]>>] /\ g[k - 1] = f[k - 1]
        BY <4>1
      <4> QED BY <3>1, <4>2
    <3>2. CASE i # k
      <4>1. i \in 1 .. k - 1 /\ i \in 0 .. k /\ i - 1 \in 0 .. k /\ i - 1 # k
        BY <3>2
      <4>2. g[i] = f[i] /\ g[i - 1] = f[i - 1]
        BY <3>2, <4>1
      <4> QED BY <2>1, <4>1, <4>2
    <3> QED BY <3>1, <3>2
  <2>6. Good(k, g)
    BY <2>4, <2>5
  <2> HIDE DEF Good, g
  <2> QED BY <2>4, <2>6
<1>3. n \in G
  <2> HIDE DEF G
  <2> QED BY <1>1, <1>2, UpTo
<1>4. PICK f \in [0 .. n -> V] : Good(n, f)
  BY <1>3
<1>5. Loop(f, a, n, step)
  BY <1>4 DEF Loop
<1> QED BY <1>5

-----------------------------------------------------------------------------
(* The checksum.                                                           *)

LEMMA ByteIs == \A b : b \in Byte <=> b \in Nat /\ b <= 255
<1>1. MaxByte \in Nat
  BY DEF MaxByte
<1>2. \A b : b \in Byte <=> b \in Nat /\ b <= MaxByte
  BY <1>1 DEF Byte
<1> QED BY <1>2 DEF MaxByte

LEMMA WordIs == \A w : w \in Word <=> w \in Nat /\ w <= 65535
<1>1. MaxWord \in Nat
  BY DEF MaxWord
<1>2. \A w : w \in Word <=> w \in Nat /\ w <= MaxWord
  BY <1>1 DEF Word
<1> QED BY <1>2 DEF MaxWord

\* Two bytes are a word, and a word is its two bytes.
LEMMA BytesOfWord ==
  /\ \A a \in Byte, b \in Byte :
        256 * a + b \in Word /\ High(256 * a + b) = a /\ Low(256 * a + b) = b
  /\ \A w \in Word : High(w) \in Byte /\ Low(w) \in Byte /\ 256 * High(w) + Low(w) = w
<1>1. ASSUME NEW a \in Byte, NEW b \in Byte
      PROVE  256 * a + b \in Word /\ High(256 * a + b) = a /\ Low(256 * a + b) = b
  <2>1. a \in Nat /\ b \in Nat /\ a <= 255 /\ b <= 255
    BY ByteIs
  <2>2. 256 * a + b \in Word
    BY <2>1, WordIs
  <2>3. High(256 * a + b) = a /\ Low(256 * a + b) = b
    BY <2>1 DEF High, Low
  <2> QED BY <2>2, <2>3
<1>2. ASSUME NEW w \in Word
      PROVE  High(w) \in Byte /\ Low(w) \in Byte /\ 256 * High(w) + Low(w) = w
  <2>1. w \in Nat /\ w <= 65535
    BY WordIs
  <2>2. /\ High(w) \in Nat /\ High(w) <= 255 /\ Low(w) \in Nat /\ Low(w) <= 255
        /\ 256 * High(w) + Low(w) = w
    BY <2>1 DEF High, Low
  <2> QED BY <2>2, ByteIs
<1> QED BY <1>1, <1>2

\* One round is all the fold can take of the sum of two words.
LEMMA FoldOfTwo ==
  ASSUME NEW t \in Word, NEW w \in Word
  PROVE  /\ FoldCarry(t + w) \in Word
         /\ FoldCarry(t + w) = IF t + w < 65536 THEN t + w ELSE t + w - 65535
<1>1. t \in Nat /\ w \in Nat /\ t <= 65535 /\ w <= 65535
  BY WordIs
<1>2. CASE t + w < 65536
  BY <1>1, <1>2, WordIs DEF FoldCarry
<1>3. CASE t + w >= 65536
  BY <1>1, <1>3, WordIs DEF FoldCarry
<1> QED BY <1>1, <1>2, <1>3

\* The loop of the checksum.
LEMMA TotalsLoop ==
  ASSUME NEW words \in Seq(Word)
  PROVE  /\ Totals(words)[0] = 0
         /\ \A i \in 0 .. Len(words) : Totals(words)[i] \in Word
         /\ \A i \in 1 .. Len(words) :
               Totals(words)[i] = FoldCarry(Totals(words)[i - 1] + words[i])
<1> DEFINE n == Len(words)
           Is(f) == f = [i \in 0 .. n |->
                            IF i = 0 THEN 0 ELSE FoldCarry(f[i - 1] + words[i])]
<1>1. n \in Nat /\ \A i \in 1 .. n : words[i] \in Word
  OBVIOUS
<1>2. ASSUME NEW t \in Word, NEW w \in Word PROVE FoldCarry(t + w) \in Word
  BY FoldOfTwo
<1> DEFINE step == [p \in (1 .. n) \X Word |-> FoldCarry(p[2] + words[p[1]])]
<1>3. step \in [(1 .. n) \X Word -> Word]
  BY <1>1, <1>2
<1>4. 0 \in Word
  BY WordIs
<1>5. \E f \in [0 .. n -> Word] : Loop(f, 0, n, step)
  <2> HIDE DEF n, step
  <2> QED BY <1>1, <1>3, <1>4, LoopValues
<1>6. PICK f \in [0 .. n -> Word] : Loop(f, 0, n, step)
  BY <1>5
<1>7. ASSUME NEW i \in 1 .. n PROVE step[<<i, f[i - 1]>>] = FoldCarry(f[i - 1] + words[i])
  <2>1. i - 1 \in 0 .. n
    BY <1>1
  <2>2. f[i - 1] \in Word
    BY <1>6, <2>1
  <2> QED BY <2>2
<1>8. Is(f)
  <2> HIDE DEF step, n
  <2>1. \A i \in 0 .. n : i = 0 \/ i \in 1 .. n
    BY <1>1
  <2>2. f = [i \in 0 .. n |-> IF i = 0 THEN 0 ELSE step[<<i, f[i - 1]>>]]
    BY <1>6 DEF Loop
  <2>3. f = [i \in 0 .. n |-> IF i = 0 THEN 0 ELSE FoldCarry(f[i - 1] + words[i])]
    BY <1>7, <2>1, <2>2
  <2> QED BY <2>3 DEF n
<1>9. Totals(words) = CHOOSE g : Is(g)
  BY DEF Totals
<1>10. Is(Totals(words))
  <2> HIDE DEF Is
  <2> QED BY <1>8, <1>9
<1>11. ASSUME NEW i \in 0 .. n PROVE Totals(words)[i] \in Word
  <2> DEFINE G == {j \in 0 .. n : Totals(words)[j] \in Word}
  <2>1. 0 \in G
    BY <1>1, <1>4, <1>10
  <2>2. ASSUME NEW j \in 1 .. n, j - 1 \in G PROVE j \in G
    BY <1>1, <1>2, <1>10, <2>2
  <2> HIDE DEF G
  <2>3. 0 .. n \subseteq G
    BY <1>1, <2>1, <2>2, UpTo
  <2> QED BY <2>3 DEF G
<1> QED BY <1>1, <1>10, <1>11
\* The sum of the reference definition.
LEMMA SumsLoop ==
  ASSUME NEW words \in Seq(Word)
  PROVE  /\ Sums(words)[0] = 0
         /\ \A i \in 0 .. Len(words) : Sums(words)[i] \in Nat
         /\ \A i \in 1 .. Len(words) : Sums(words)[i] = Sums(words)[i - 1] + words[i]
<1> DEFINE n == Len(words)
           Is(f) == f = [i \in 0 .. n |-> IF i = 0 THEN 0 ELSE f[i - 1] + words[i]]
<1>1. n \in Nat /\ \A i \in 1 .. n : words[i] \in Word
  OBVIOUS
<1>2. \A i \in 1 .. n : words[i] \in Nat
  <2>1. Word \subseteq Nat
    BY WordIs
  <2> HIDE DEF n
  <2> QED BY <1>1, <2>1
<1> DEFINE step == [p \in (1 .. n) \X Nat |-> p[2] + words[p[1]]]
<1>3. step \in [(1 .. n) \X Nat -> Nat]
  <2>1. ASSUME NEW p \in (1 .. n) \X Nat PROVE p[2] + words[p[1]] \in Nat
    <3>1. p[1] \in 1 .. n /\ p[2] \in Nat
      OBVIOUS
    <3>2. words[p[1]] \in Nat
      BY <1>2, <3>1
    <3> QED BY <3>1, <3>2
  <2> QED BY <2>1
<1>5. \E f \in [0 .. n -> Nat] : Loop(f, 0, n, step)
  <2> HIDE DEF n, step
  <2> QED BY <1>1, <1>3, LoopValues
<1>6. PICK f \in [0 .. n -> Nat] : Loop(f, 0, n, step)
  BY <1>5
<1>7. ASSUME NEW i \in 1 .. n PROVE step[<<i, f[i - 1]>>] = f[i - 1] + words[i]
  <2>1. i - 1 \in 0 .. n
    BY <1>1
  <2>2. f[i - 1] \in Nat
    BY <1>6, <2>1
  <2> QED BY <2>2
<1>8. Is(f)
  <2> HIDE DEF step, n
  <2>1. \A i \in 0 .. n : i = 0 \/ i \in 1 .. n
    BY <1>1
  <2>2. f = [i \in 0 .. n |-> IF i = 0 THEN 0 ELSE step[<<i, f[i - 1]>>]]
    BY <1>6 DEF Loop
  <2>3. f = [i \in 0 .. n |-> IF i = 0 THEN 0 ELSE f[i - 1] + words[i]]
    BY <1>7, <2>1, <2>2
  <2> QED BY <2>3 DEF n
<1>9. Sums(words) = CHOOSE g : Is(g)
  BY DEF Sums
<1>10. Is(Sums(words))
  <2> HIDE DEF Is
  <2> QED BY <1>8, <1>9
<1>11. ASSUME NEW i \in 0 .. n PROVE Sums(words)[i] \in Nat
  <2> DEFINE G == {j \in 0 .. n : Sums(words)[j] \in Nat}
  <2>1. 0 \in G
    BY <1>1, <1>10
  <2>2. ASSUME NEW j \in 1 .. n, j - 1 \in G PROVE j \in G
    <3>1. Sums(words)[j - 1] \in Nat /\ j \in 0 .. n /\ j # 0
      BY <1>1, <2>2
    <3>3. words[j] \in Nat
      BY <1>2
    <3>2. Sums(words)[j] = Sums(words)[j - 1] + words[j]
      BY <1>10, <3>1
    <3> QED BY <3>1, <3>2, <3>3
  <2> HIDE DEF G
  <2>3. 0 .. n \subseteq G
    BY <1>1, <2>1, <2>2, UpTo
  <2> QED BY <2>3 DEF G
<1> QED BY <1>1, <1>10, <1>11

\* The ones' complement sum whose plain sum is s.
Complement(s) == IF s = 0 THEN 0 ELSE ((s - 1) % 65535) + 1

LEMMA ComplementOfNext ==
  ASSUME NEW s \in Nat, NEW w \in Word
  PROVE  /\ Complement(s) \in Word
         /\ FoldCarry(Complement(s) + w) = Complement(s + w)
<1>1. w \in Nat /\ w <= 65535 /\ Complement(s) \in Nat /\ Complement(s) <= 65535
  BY WordIs DEF Complement
<1>2. Complement(s) \in Word
  BY <1>1, WordIs
<1>3. FoldCarry(Complement(s) + w)
        = IF Complement(s) + w < 65536 THEN Complement(s) + w ELSE Complement(s) + w - 65535
  BY <1>2, FoldOfTwo
<1>4. (IF Complement(s) + w < 65536 THEN Complement(s) + w ELSE Complement(s) + w - 65535)
        = Complement(s + w)
  BY <1>1 DEF Complement
<1> QED BY <1>2, <1>3, <1>4

\* At each word the total of the loop is the sum modulo 65535, with 0 written
\* 65535 unless all words were 0.
LEMMA TotalsAreSums ==
  ASSUME NEW words \in Seq(Word), NEW i \in 0 .. Len(words)
  PROVE  Totals(words)[i] = Complement(Sums(words)[i])
<1> DEFINE n == Len(words)
           G == {j \in 0 .. n : Totals(words)[j] = Complement(Sums(words)[j])}
<1>1. n \in Nat /\ \A j \in 1 .. n : words[j] \in Word
  OBVIOUS
<1>2. 0 \in G
  BY <1>1, TotalsLoop, SumsLoop DEF Complement
<1>3. ASSUME NEW j \in 1 .. n, j - 1 \in G PROVE j \in G
  <2>1. /\ Totals(words)[j] = FoldCarry(Totals(words)[j - 1] + words[j])
        /\ Sums(words)[j] = Sums(words)[j - 1] + words[j]
    BY TotalsLoop, SumsLoop
  <2>2. j - 1 \in 0 .. n /\ j \in 0 .. n
    BY <1>1
  <2>3. Sums(words)[j - 1] \in Nat
    BY <2>2, SumsLoop
  <2>4. Totals(words)[j - 1] = Complement(Sums(words)[j - 1])
    BY <1>3
  <2> QED BY <1>1, <2>1, <2>2, <2>3, <2>4, ComplementOfNext
<1> HIDE DEF G
<1>4. 0 .. n \subseteq G
  BY <1>1, <1>2, <1>3, UpTo
<1> QED BY <1>4 DEF G

\* Padding gives bytes, an even number of them, and they are words.
LEMMA WordsOfBytes ==
  ASSUME NEW buf \in Seq(Byte)
  PROVE  /\ Padded(buf) \in Seq(Byte)
         /\ Words(Padded(buf)) \in Seq(Word)
         /\ Len(Words(Padded(buf))) = (Len(buf) + 1) \div 2
         /\ \A i \in 1 .. (Len(buf) + 1) \div 2 :
               /\ 2 * i - 1 \in 1 .. Len(buf)
               /\ Words(Padded(buf))[i] = 256 * buf[2 * i - 1]
                      + (IF 2 * i <= Len(buf) THEN buf[2 * i] ELSE 0)
<1> DEFINE p == Padded(buf)
           k == (Len(buf) + 1) \div 2
<1>1. Len(buf) \in Nat /\ \A i \in 1 .. Len(buf) : buf[i] \in Byte
  OBVIOUS
<1>2. p \in Seq(Byte) /\ Len(p) = 2 * k
      /\ \A i \in 1 .. 2 * k : p[i] = IF i <= Len(buf) THEN buf[i] ELSE 0
  <2>1. CASE Len(buf) % 2 = 1
    <3>1. 0 \in Byte /\ p = Append(buf, 0)
      BY <2>1, ByteIs DEF Padded
    <3>2. 2 * k = Len(buf) + 1
      BY <1>1, <2>1
    <3> QED BY <1>1, <3>1, <3>2
  <2>2. CASE Len(buf) % 2 = 0
    <3>1. 2 * k = Len(buf) /\ p = buf
      BY <1>1, <2>2 DEF Padded
    <3> QED BY <1>1, <3>1
  <2> QED BY <1>1, <2>1, <2>2
<1>3. k \in Nat /\ Len(p) \div 2 = k
  BY <1>1, <1>2
<1> HIDE DEF p
<1>4. ASSUME NEW i \in 1 .. k
      PROVE  /\ 2 * i - 1 \in 1 .. Len(buf)
             /\ WordAt(p, 2 * i - 1) \in Word
             /\ WordAt(p, 2 * i - 1) = 256 * buf[2 * i - 1]
                      + (IF 2 * i <= Len(buf) THEN buf[2 * i] ELSE 0)
  <2>1. 2 * i - 1 \in 1 .. Len(buf) /\ 2 * i - 1 \in 1 .. 2 * k /\ 2 * i \in 1 .. 2 * k
        /\ (2 * i - 1) + 1 = 2 * i
    BY <1>1
  <2>2. p[2 * i - 1] = buf[2 * i - 1]
        /\ p[2 * i] = IF 2 * i <= Len(buf) THEN buf[2 * i] ELSE 0
    BY <1>1, <1>2, <2>1
  <2>3. p[2 * i - 1] \in Byte /\ p[2 * i] \in Byte
    BY <1>2, <2>1
  <2>4. WordAt(p, 2 * i - 1) = 256 * p[2 * i - 1] + p[2 * i]
    BY <2>1 DEF WordAt
  <2>5. WordAt(p, 2 * i - 1) \in Word
    BY <2>3, <2>4, BytesOfWord
  <2> QED BY <2>1, <2>2, <2>4, <2>5
<1> HIDE DEF k
<1>5. Words(p) = [i \in 1 .. k |-> WordAt(p, 2 * i - 1)]
  BY <1>3 DEF Words
<1>6. Words(p) \in Seq(Word) /\ Len(Words(p)) = k
  BY <1>3, <1>4, <1>5
<1> QED BY <1>2, <1>4, <1>5, <1>6 DEF p, k

\* The checksum that folds its carry at each word is the one of RFC 1071, for
\* every buffer.
THEOREM ChecksumAgrees ==
  ASSUME NEW buf \in Seq(Byte)
  PROVE  checksum(buf) \in Word /\ checksum(buf) = RFC1071(buf)
<1> DEFINE words == Words(Padded(buf))
           n == Len(words)
           s == Sums(words)[n]
<1>1. words \in Seq(Word) /\ n \in 0 .. n
  BY WordsOfBytes
<1>2. s \in Nat /\ Totals(words)[n] = Complement(s)
  <2> HIDE DEF words
  <2> QED BY <1>1, SumsLoop, TotalsAreSums
<1>3. checksum(buf) = 65535 - FoldCarry(Complement(s))
  BY <1>2 DEF checksum
<1>4. RFC1071(buf) = IF s = 0 THEN 65535 ELSE 65534 - ((s - 1) % 65535)
  BY DEF RFC1071
<1> HIDE DEF s
<1>5. FoldCarry(Complement(s)) = Complement(s) /\ Complement(s) \in Word
  BY <1>2, WordIs DEF Complement, FoldCarry
<1>6. 65535 - Complement(s) = IF s = 0 THEN 65535 ELSE 65534 - ((s - 1) % 65535)
  BY <1>2 DEF Complement
<1>7. 65535 - Complement(s) \in Word
  BY <1>5, WordIs
<1> QED BY <1>3, <1>4, <1>5, <1>6, <1>7

-----------------------------------------------------------------------------
(* The packet format.                                                      *)

LEMMA AfterFirst ==
  ASSUME NEW S, NEW s \in Seq(S), NEW t \in Seq(S),
         NEW i \in Nat, i > Len(s), i <= Len(s) + Len(t)
  PROVE  (s \o t)[i] = t[i - Len(s)]
OBVIOUS

LEMMA Concatenated ==
  ASSUME NEW S, NEW s \in Seq(S), NEW t \in Seq(S), NEW u \in Seq(S),
         Len(u) = Len(s) + Len(t),
         \A i \in 1 .. Len(s) : u[i] = s[i],
         \A i \in 1 .. Len(t) : u[Len(s) + i] = t[i]
  PROVE  s \o t = u
<1>1. s \o t \in Seq(S) /\ Len(s \o t) = Len(u)
  OBVIOUS
<1>2. ASSUME NEW i \in 1 .. Len(u) PROVE (s \o t)[i] = u[i]
  <2>1. CASE i <= Len(s)
    BY <2>1
  <2>2. CASE i > Len(s)
    <3>1. i - Len(s) \in 1 .. Len(t) /\ Len(s) + (i - Len(s)) = i
      BY <2>2
    <3>2. u[i] = t[i - Len(s)]
      BY <3>1
    <3>3. (s \o t)[i] = t[i - Len(s)]
      BY <2>2
    <3> QED BY <3>2, <3>3
  <2> QED BY <2>1, <2>2
<1> QED BY <1>1, <1>2

LEMMA WordsInBuffer ==
  ASSUME NEW buf \in Seq(Byte), NEW i \in 1 .. Len(buf), i < Len(buf)
  PROVE  WordAt(buf, i) \in Word /\ High(WordAt(buf, i)) = buf[i]
            /\ Low(WordAt(buf, i)) = buf[i + 1]
<1>1. i + 1 \in 1 .. Len(buf)
  OBVIOUS
<1>2. buf[i] \in Byte /\ buf[i + 1] \in Byte
  BY <1>1
<1> QED BY <1>2, BytesOfWord DEF WordAt

\* The sixteen bytes of a header.
LEMMA PackIsSixteenBytes ==
  ASSUME NEW h \in Header
  PROVE  Pack(h) \in Seq(Byte) /\ Len(Pack(h)) = HEADER_SIZE
<1>1. \A w \in Word : High(w) \in Byte /\ Low(w) \in Byte
  BY BytesOfWord
<1>2. MAGIC \in Word
  BY WordIs DEF MAGIC
<1>3. /\ h.checksum \in Word /\ h.seq[1] \in Word /\ h.seq[2] \in Word
      /\ h.ack[1] \in Word /\ h.ack[2] \in Word /\ h.payload_len \in Word
      /\ h.flags \in Byte /\ h.version \in Byte
  BY DEF Header
<1> QED BY <1>1, <1>2, <1>3 DEF Pack, HEADER_SIZE

\* Bytes before the payload, then the payload.
LEMMA EncodePositions ==
  ASSUME NEW h \in Header, NEW c \in Seq(Byte)
  PROVE  /\ encode(h, c) \in Seq(Byte)
         /\ Len(encode(h, c)) = HEADER_SIZE + Len(c)
         /\ \A i \in 1 .. HEADER_SIZE : encode(h, c)[i] = Pack(h)[i]
         /\ SubSeq(encode(h, c), HEADER_SIZE + 1, HEADER_SIZE + Len(c)) = c
<1> DEFINE t == Pack(h)
<1>1. t \in Seq(Byte) /\ Len(t) = HEADER_SIZE /\ HEADER_SIZE \in Nat
  BY PackIsSixteenBytes DEF HEADER_SIZE
<1>2. encode(h, c) = t \o c
  BY DEF encode
<1> HIDE DEF t
<1>3. /\ t \o c \in Seq(Byte)
      /\ Len(t \o c) = HEADER_SIZE + Len(c)
      /\ \A i \in 1 .. HEADER_SIZE : (t \o c)[i] = t[i]
      /\ \A i \in 1 .. Len(c) : (t \o c)[HEADER_SIZE + i] = c[i]
  BY <1>1
<1>4. SubSeq(t \o c, HEADER_SIZE + 1, HEADER_SIZE + Len(c)) = c
  BY <1>1, <1>3
<1> QED BY <1>2, <1>3, <1>4 DEF t

\* What a buffer says in the places of the header's fields.
LEMMA EncodeFields ==
  ASSUME NEW h \in Header, NEW c \in Seq(Byte)
  PROVE  LET buf == encode(h, c)
         IN  /\ WordAt(buf, 1) = h.checksum
             /\ buf[11] = h.flags /\ buf[12] = h.version
             /\ WordAt(buf, 13) = h.payload_len /\ WordAt(buf, 15) = MAGIC
<1> DEFINE buf == encode(h, c)
<1>1. \A i \in 1 .. 16 : buf[i] = Pack(h)[i]
  BY EncodePositions DEF HEADER_SIZE
<1> HIDE DEF buf
<1>2. /\ buf[1] = High(h.checksum) /\ buf[2] = Low(h.checksum)
      /\ buf[11] = h.flags /\ buf[12] = h.version
      /\ buf[13] = High(h.payload_len) /\ buf[14] = Low(h.payload_len)
      /\ buf[15] = High(MAGIC) /\ buf[16] = Low(MAGIC)
  BY <1>1 DEF Pack
<1>3. h.checksum \in Word /\ h.payload_len \in Word /\ MAGIC \in Word
  BY WordIs DEF Header, MAGIC
<1>4. /\ 256 * buf[1] + buf[2] = h.checksum
      /\ 256 * buf[13] + buf[14] = h.payload_len
      /\ 256 * buf[15] + buf[16] = MAGIC
  BY <1>2, <1>3, BytesOfWord
<1>5. /\ WordAt(buf, 1) = 256 * buf[1] + buf[2]
      /\ WordAt(buf, 13) = 256 * buf[13] + buf[14]
      /\ WordAt(buf, 15) = 256 * buf[15] + buf[16]
  BY DEF WordAt
<1> QED BY <1>2, <1>4, <1>5 DEF buf

\* There is one packet for each buffer that decode() accepts: what it returns
\* is a header that encode() takes, and gives the same bytes.
THEOREM DecodeThenEncode ==
  ASSUME NEW buf \in Seq(Byte), Decodable(buf)
  PROVE  LET d == decode(buf)
         IN  /\ d.header \in Header /\ Encodable(d.header, d.payload)
             /\ encode(d.header, d.payload) = buf
<1> DEFINE d == decode(buf)
           h == d.header
           n == Len(buf)
           t == <<buf[1], buf[2], buf[3], buf[4], buf[5], buf[6], buf[7], buf[8], buf[9],
                  buf[10], buf[11], buf[12], buf[13], buf[14], buf[15], buf[16]>>
<1>1. n \in Nat /\ n >= 16 /\ \A i \in 1 .. n : buf[i] \in Byte
  BY DEF Decodable, HEADER_SIZE
<1>2. ASSUME NEW i \in 1 .. 15
      PROVE  WordAt(buf, i) \in Word /\ High(WordAt(buf, i)) = buf[i]
                /\ Low(WordAt(buf, i)) = buf[i + 1]
  BY <1>1, WordsInBuffer
<1>3. /\ d.payload = SubSeq(buf, 17, n)
      /\ h = [checksum |-> WordAt(buf, 1), seq |-> PairAt(buf, 3), ack |-> PairAt(buf, 7),
              flags |-> buf[11], version |-> buf[12], payload_len |-> WordAt(buf, 13)]
  BY DEF decode, HEADER_SIZE
<1>4. PairAt(buf, 3) = <<WordAt(buf, 3), WordAt(buf, 5)>>
      /\ PairAt(buf, 7) = <<WordAt(buf, 7), WordAt(buf, 9)>>
  BY DEF PairAt
<1>5. d.payload \in Seq(Byte) /\ Len(d.payload) = n - 16
      /\ \A i \in 1 .. n - 16 : d.payload[i] = buf[16 + i]
  <2> HIDE DEF d, n
  <2> QED BY <1>1, <1>3
<1> HIDE DEF d
<1>6. h \in Header
  <2>1. buf[11] \in Byte /\ buf[12] \in Byte
    BY <1>1
  <2>2. \A i \in {1, 3, 5, 7, 9, 13} : WordAt(buf, i) \in Word
    BY <1>2
  <2> QED BY <1>3, <1>4, <2>1, <2>2 DEF Header
<1>7. Encodable(h, d.payload)
  BY <1>3, <1>5 DEF Encodable, Validates, Decodable, HEADER_SIZE
<1>8. Pack(h) = t
  <2>1. High(MAGIC) = buf[15] /\ Low(MAGIC) = buf[16]
    BY <1>2 DEF Decodable
  <2>2. /\ High(WordAt(buf, 1)) = buf[1] /\ Low(WordAt(buf, 1)) = buf[2]
        /\ High(WordAt(buf, 3)) = buf[3] /\ Low(WordAt(buf, 3)) = buf[4]
        /\ High(WordAt(buf, 5)) = buf[5] /\ Low(WordAt(buf, 5)) = buf[6]
        /\ High(WordAt(buf, 7)) = buf[7] /\ Low(WordAt(buf, 7)) = buf[8]
        /\ High(WordAt(buf, 9)) = buf[9] /\ Low(WordAt(buf, 9)) = buf[10]
        /\ High(WordAt(buf, 13)) = buf[13] /\ Low(WordAt(buf, 13)) = buf[14]
    BY <1>2
  <2>3. /\ h.checksum = WordAt(buf, 1)
        /\ h.seq[1] = WordAt(buf, 3) /\ h.seq[2] = WordAt(buf, 5)
        /\ h.ack[1] = WordAt(buf, 7) /\ h.ack[2] = WordAt(buf, 9)
        /\ h.flags = buf[11] /\ h.version = buf[12] /\ h.payload_len = WordAt(buf, 13)
    BY <1>3, <1>4
  <2> HIDE DEF h
  <2> QED BY <2>1, <2>2, <2>3 DEF Pack
<1>9. encode(h, d.payload) = t \o d.payload
  BY <1>8 DEF encode
<1>10. t \in Seq(Byte) /\ Len(t) = 16 /\ \A i \in 1 .. 16 : t[i] = buf[i]
  <2>1. /\ buf[1] \in Byte /\ buf[2] \in Byte /\ buf[3] \in Byte /\ buf[4] \in Byte
        /\ buf[5] \in Byte /\ buf[6] \in Byte /\ buf[7] \in Byte /\ buf[8] \in Byte
        /\ buf[9] \in Byte /\ buf[10] \in Byte /\ buf[11] \in Byte /\ buf[12] \in Byte
        /\ buf[13] \in Byte /\ buf[14] \in Byte /\ buf[15] \in Byte /\ buf[16] \in Byte
    BY <1>1
  <2>2. t \in Seq(Byte) /\ Len(t) = 16
    BY <2>1
  <2>3. ASSUME NEW i \in 1 .. 16 PROVE t[i] = buf[i]
    OBVIOUS
  <2> QED BY <2>2, <2>3
<1> HIDE DEF t, n
<1>11. t \o d.payload = buf
  <2>1. /\ Len(buf) = Len(t) + Len(d.payload)
        /\ \A i \in 1 .. Len(t) : buf[i] = t[i]
        /\ \A i \in 1 .. Len(d.payload) : buf[Len(t) + i] = d.payload[i]
    <3>1. Len(buf) = 16 + Len(d.payload)
      BY <1>1, <1>5 DEF n
    <3>2. \A i \in 1 .. Len(d.payload) : d.payload[i] = buf[16 + i]
      BY <1>5
    <3> QED BY <1>10, <3>1, <3>2
  <2>2. t \in Seq(Byte) /\ d.payload \in Seq(Byte) /\ buf \in Seq(Byte)
    BY <1>5, <1>10
  <2> QED BY <2>1, <2>2, Concatenated, Zenon
<1> QED BY <1>6, <1>7, <1>9, <1>11 DEF d

-----------------------------------------------------------------------------
(* A byte that changes.                                                    *)

\* One word that changes changes the sum by as much.
LEMMA SumOfChange ==
  ASSUME NEW u \in Seq(Word), NEW v \in Seq(Word), Len(u) = Len(v),
         NEW k \in 1 .. Len(u), \A j \in 1 .. Len(u) : j # k => u[j] = v[j]
  PROVE  Sums(v)[Len(u)] = Sums(u)[Len(u)] + v[k] - u[k]
<1> DEFINE n == Len(u)
           x == Sums(u)
           y == Sums(v)
           G == {j \in 0 .. n : y[j] = IF j < k THEN x[j] ELSE x[j] + v[k] - u[k]}
<1>1. n \in Nat /\ k \in 1 .. n /\ \A j \in 1 .. n : j # k => u[j] = v[j]
  OBVIOUS
<1>2. \A j \in 1 .. n : u[j] \in Nat /\ v[j] \in Nat
  <2>1. \A j \in 1 .. n : u[j] \in Word /\ v[j] \in Word
    OBVIOUS
  <2> HIDE DEF n
  <2> QED BY <2>1, WordIs
<1>3. /\ x[0] = 0 /\ y[0] = 0
      /\ \A j \in 0 .. n : x[j] \in Nat /\ y[j] \in Nat
      /\ \A j \in 1 .. n : x[j] = x[j - 1] + u[j] /\ y[j] = y[j - 1] + v[j]
  <2>1. /\ x[0] = 0 /\ \A j \in 0 .. n : x[j] \in Nat
        /\ \A j \in 1 .. n : x[j] = x[j - 1] + u[j]
    BY SumsLoop
  <2>2. /\ y[0] = 0 /\ \A j \in 0 .. n : y[j] \in Nat
        /\ \A j \in 1 .. n : y[j] = y[j - 1] + v[j]
    <3> DEFINE l == Len(v)
    <3>1. /\ y[0] = 0 /\ \A j \in 0 .. l : y[j] \in Nat
          /\ \A j \in 1 .. l : y[j] = y[j - 1] + v[j]
      BY SumsLoop
    <3>2. l = n
      OBVIOUS
    <3> HIDE DEF l, n, y
    <3> QED BY <3>1, <3>2
  <2> QED BY <2>1, <2>2
<1> HIDE DEF n, x, y
<1>4. 0 \in G
  BY <1>1, <1>3
<1>5. ASSUME NEW j \in 1 .. n, j - 1 \in G PROVE j \in G
  <2>1. /\ x[j] = x[j - 1] + u[j] /\ y[j] = y[j - 1] + v[j]
        /\ x[j - 1] \in Nat /\ y[j - 1] \in Nat /\ u[j] \in Nat /\ v[j] \in Nat
        /\ u[k] \in Nat /\ v[k] \in Nat /\ j \in 0 .. n
        /\ y[j - 1] = IF j - 1 < k THEN x[j - 1] ELSE x[j - 1] + v[k] - u[k]
    BY <1>1, <1>2, <1>3, <1>5
  <2>2. CASE j = k
    BY <1>1, <2>1, <2>2
  <2>3. CASE j # k
    <3>1. u[j] = v[j] /\ (j < k <=> j - 1 < k)
      BY <1>1, <2>3
    <3> QED BY <2>1, <3>1
  <2> QED BY <2>2, <2>3
<1> HIDE DEF G
<1>6. 0 .. n \subseteq G
  BY <1>1, <1>4, <1>5, UpTo
<1>7. n \in G /\ ~(n < k)
  BY <1>1, <1>6
<1> QED BY <1>7 DEF G, n, x, y

\* Sums that differ by less than 65535 have different checksums.
LEMMA ComplementOfChange ==
  ASSUME NEW s \in Nat, NEW r \in Nat, s < r, r - s < 65535
  PROVE  Complement(s) # Complement(r)
<1>1. CASE s = 0
  BY <1>1 DEF Complement
<1>2. CASE s > 0
  BY <1>2 DEF Complement
<1> QED BY <1>1, <1>2

LEMMA ChecksumIsComplement ==
  ASSUME NEW buf \in Seq(Byte)
  PROVE  LET words == Words(Padded(buf))
         IN  /\ Sums(words)[Len(words)] \in Nat
             /\ checksum(buf) = 65535 - Complement(Sums(words)[Len(words)])
<1> DEFINE words == Words(Padded(buf))
           s == Sums(words)[Len(words)]
<1>1. s \in Nat
  <2>1. words \in Seq(Word) /\ Len(words) \in 0 .. Len(words)
    BY WordsOfBytes
  <2> HIDE DEF words
  <2> QED BY <2>1, SumsLoop
<1>2. checksum(buf) = IF s = 0 THEN 65535 ELSE 65534 - ((s - 1) % 65535)
  BY ChecksumAgrees DEF RFC1071
<1> HIDE DEF s
<1>3. checksum(buf) = 65535 - Complement(s)
  BY <1>1, <1>2 DEF Complement
<1> QED BY <1>1, <1>3 DEF s

\* words are the words of buf, the last one padded.
AreWords(words, buf) ==
    /\ words \in Seq(Word) /\ Len(words) = (Len(buf) + 1) \div 2
    /\ \A i \in 1 .. (Len(buf) + 1) \div 2 :
          /\ 2 * i - 1 \in 1 .. Len(buf)
          /\ words[i] = 256 * buf[2 * i - 1]
                           + (IF 2 * i <= Len(buf) THEN buf[2 * i] ELSE 0)

LEMMA WordsAre ==
  ASSUME NEW buf \in Seq(Byte)
  PROVE  AreWords(Words(Padded(buf)), buf)
  BY WordsOfBytes DEF AreWords

\* One byte that changes changes the checksum.
LEMMA ChecksumOfChange ==
  ASSUME NEW u \in Seq(Byte), NEW v \in Seq(Byte), Len(u) = Len(v),
         NEW i \in 1 .. Len(u), u[i] # v[i],
         \A j \in 1 .. Len(u) : j # i => u[j] = v[j]
  PROVE  checksum(u) # checksum(v)
<1> DEFINE n == Len(u)
           a == Words(Padded(u))
           b == Words(Padded(v))
           m == (n + 1) \div 2
           k == (i + 1) \div 2
           s == Sums(a)[m]
           r == Sums(b)[m]
<1>1. /\ n \in Nat /\ Len(v) = n /\ i \in 1 .. n
      /\ \A j \in 1 .. n : j # i => u[j] = v[j]
      /\ \A j \in 1 .. n : u[j] \in Byte /\ v[j] \in Byte
  OBVIOUS
<1> HIDE DEF n, a, b, m, k, s, r
<1>2. /\ a \in Seq(Word) /\ Len(a) = m
      /\ \A j \in 1 .. m : /\ 2 * j - 1 \in 1 .. n
                           /\ a[j] = 256 * u[2 * j - 1] + (IF 2 * j <= n THEN u[2 * j] ELSE 0)
  <2>1. AreWords(a, u)
    BY WordsAre DEF a
  <2> QED BY <2>1 DEF AreWords, n, m
<1>3. /\ b \in Seq(Word) /\ Len(b) = m
      /\ \A j \in 1 .. m : b[j] = 256 * v[2 * j - 1] + (IF 2 * j <= n THEN v[2 * j] ELSE 0)
  <2>1. AreWords(b, v)
    BY WordsAre DEF b
  <2>2. AreWords(b, v) => /\ b \in Seq(Word) /\ Len(b) = (n + 1) \div 2
                          /\ \A j \in 1 .. (n + 1) \div 2 :
                                b[j] = 256 * v[2 * j - 1]
                                         + (IF 2 * j <= n THEN v[2 * j] ELSE 0)
    BY <1>1 DEF AreWords
  <2> QED BY <2>1, <2>2 DEF m
<1> USE DEF n, a, b, m, k, s, r
<1>4. checksum(u) = 65535 - Complement(s) /\ s \in Nat
  BY <1>2, ChecksumIsComplement
<1>5. checksum(v) = 65535 - Complement(r) /\ r \in Nat
  <2>1. checksum(v) = 65535 - Complement(Sums(b)[Len(b)]) /\ Sums(b)[Len(b)] \in Nat
    BY ChecksumIsComplement
  <2>2. Len(b) = m
    BY <1>3
  <2> HIDE DEF b, m
  <2> QED BY <2>1, <2>2
<1> HIDE DEF n, a, b, s, r
<1>6. k \in 1 .. m /\ m \in Nat /\ (i = 2 * k - 1 \/ i = 2 * k)
  BY <1>1
<1>7. \A j \in 1 .. m : j # k => 2 * j - 1 # i /\ 2 * j # i
  BY <1>1, <1>6
<1> HIDE DEF m, k
<1>8. ASSUME NEW j \in 1 .. m, j # k PROVE a[j] = b[j]
  <2>1. 2 * j - 1 \in 1 .. n /\ 2 * j - 1 # i /\ 2 * j # i
    BY <1>2, <1>7, <1>8
  <2>2. u[2 * j - 1] = v[2 * j - 1]
    BY <1>1, <2>1
  <2>3. 2 * j <= n => u[2 * j] = v[2 * j]
    BY <1>1, <1>6, <2>1
  <2> QED BY <1>2, <1>3, <2>2, <2>3
<1>9. r = s + b[k] - a[k]
  <2>1. a \in Seq(Word) /\ b \in Seq(Word) /\ Len(a) = Len(b) /\ k \in 1 .. Len(a)
        /\ \A j \in 1 .. Len(a) : j # k => a[j] = b[j]
    BY <1>2, <1>3, <1>6, <1>8
  <2>2. Sums(b)[Len(a)] = Sums(a)[Len(a)] + b[k] - a[k]
    BY <2>1, SumOfChange, Zenon
  <2> QED BY <1>2, <2>2 DEF s, r
<1>10. u[i] \in Nat /\ u[i] <= 255 /\ v[i] \in Nat /\ v[i] <= 255 /\ u[i] # v[i]
  BY <1>1, ByteIs
<1>11. b[k] - a[k] = 256 * (v[i] - u[i]) \/ b[k] - a[k] = v[i] - u[i]
  <2>1. /\ 2 * k - 1 \in 1 .. n
        /\ a[k] = 256 * u[2 * k - 1] + (IF 2 * k <= n THEN u[2 * k] ELSE 0)
        /\ b[k] = 256 * v[2 * k - 1] + (IF 2 * k <= n THEN v[2 * k] ELSE 0)
    BY <1>2, <1>3, <1>6
  <2>2. CASE i = 2 * k - 1
    <3>1. 2 * k <= n => u[2 * k] = v[2 * k] /\ u[2 * k] \in Nat
      BY <1>1, <1>6, <2>2, ByteIs
    <3> QED BY <1>10, <2>1, <2>2, <3>1
  <2>3. CASE i = 2 * k
    <3>1. u[2 * k - 1] = v[2 * k - 1] /\ u[2 * k - 1] \in Nat
      BY <1>1, <1>6, <2>1, <2>3, ByteIs
    <3> QED BY <1>1, <1>10, <2>1, <2>3, <3>1
  <2> QED BY <1>6, <2>2, <2>3
<1>12. s # r /\ r - s < 65535 /\ s - r < 65535
  BY <1>4, <1>5, <1>9, <1>10, <1>11
<1>13. Complement(s) # Complement(r)
  BY <1>4, <1>5, <1>12, ComplementOfChange
<1>14. Complement(s) \in Nat /\ Complement(r) \in Nat
  BY <1>4, <1>5 DEF Complement
<1> QED BY <1>4, <1>5, <1>13, <1>14

Zeroed(buf) == [buf EXCEPT ![1] = 0, ![2] = 0]

LEMMA ZeroedBytes ==
  ASSUME NEW buf \in Seq(Byte), Len(buf) >= 2
  PROVE  /\ Zeroed(buf) \in Seq(Byte) /\ Len(Zeroed(buf)) = Len(buf)
         /\ Zeroed(buf)[1] = 0 /\ Zeroed(buf)[2] = 0
         /\ \A i \in 3 .. Len(buf) : Zeroed(buf)[i] = buf[i]
<1>1. 0 \in Byte
  BY ByteIs
<1> QED BY <1>1 DEF Zeroed

\* A packet with one byte changed, whatever byte and to whatever value, does
\* not verify.
THEOREM ChangedByteIsCaught ==
  ASSUME NEW buf \in Seq(Byte), verify(buf),
         NEW i \in 1 .. Len(buf), NEW b \in Byte, b # buf[i]
  PROVE  ~verify([buf EXCEPT ![i] = b])
<1> DEFINE new == [buf EXCEPT ![i] = b]
<1>1. /\ new \in Seq(Byte) /\ Len(new) = Len(buf)
      /\ new[i] = b /\ \A j \in 1 .. Len(buf) : j # i => new[j] = buf[j]
  OBVIOUS
<1>2. Len(buf) >= 2 /\ checksum(Zeroed(buf)) = WordAt(buf, 1)
  BY DEF verify, Zeroed
<1> HIDE DEF new
<1>3. SUFFICES checksum(Zeroed(new)) # WordAt(new, 1)
  BY DEF verify, Zeroed, new
<1>4. buf[1] \in Byte /\ buf[2] \in Byte /\ new[1] \in Byte /\ new[2] \in Byte
  BY <1>1, <1>2
<1>5. CASE i = 1 \/ i = 2
  <2>1. Zeroed(new) = Zeroed(buf)
    <3>1. /\ Zeroed(new) \in Seq(Byte) /\ Zeroed(buf) \in Seq(Byte)
          /\ Len(Zeroed(new)) = Len(Zeroed(buf)) /\ Len(Zeroed(buf)) = Len(buf)
      BY <1>1, <1>2, ZeroedBytes
    <3>2. ASSUME NEW j \in 1 .. Len(buf) PROVE Zeroed(new)[j] = Zeroed(buf)[j]
      <4>1. j = 1 \/ j = 2 \/ j \in 3 .. Len(buf)
        OBVIOUS
      <4>2. /\ Zeroed(new)[1] = 0 /\ Zeroed(new)[2] = 0
            /\ Zeroed(buf)[1] = 0 /\ Zeroed(buf)[2] = 0
            /\ \A l \in 3 .. Len(buf) : Zeroed(buf)[l] = buf[l] /\ Zeroed(new)[l] = new[l]
        BY <1>1, <1>2, ZeroedBytes
      <4>3. j \in 3 .. Len(buf) => new[j] = buf[j]
        BY <1>1, <1>5
      <4> QED BY <4>1, <4>2, <4>3
    <3> QED BY <3>1, <3>2
  <2>2. WordAt(new, 1) # WordAt(buf, 1)
    <3>1. WordAt(new, 1) = 256 * new[1] + new[2] /\ WordAt(buf, 1) = 256 * buf[1] + buf[2]
      BY DEF WordAt
    <3>2. /\ High(256 * new[1] + new[2]) = new[1] /\ Low(256 * new[1] + new[2]) = new[2]
          /\ High(256 * buf[1] + buf[2]) = buf[1] /\ Low(256 * buf[1] + buf[2]) = buf[2]
      BY <1>4, BytesOfWord
    <3>3. new[1] # buf[1] \/ new[2] # buf[2]
      BY <1>1, <1>5
    <3> QED BY <3>1, <3>2, <3>3
  <2> QED BY <1>2, <2>1, <2>2
<1>6. CASE i \in 3 .. Len(buf)
  <2>1. WordAt(new, 1) = WordAt(buf, 1)
    <3>1. new[1] = buf[1] /\ new[2] = buf[2]
      BY <1>1, <1>2, <1>6
    <3> QED BY <3>1 DEF WordAt
  <2>2. checksum(Zeroed(buf)) # checksum(Zeroed(new))
    <3> DEFINE u == Zeroed(buf)
               v == Zeroed(new)
    <3>1. u \in Seq(Byte) /\ v \in Seq(Byte) /\ Len(u) = Len(buf) /\ Len(v) = Len(buf)
      BY <1>1, <1>2, ZeroedBytes
    <3>2. /\ v[1] = 0 /\ v[2] = 0 /\ u[1] = 0 /\ u[2] = 0
          /\ \A l \in 3 .. Len(buf) : u[l] = buf[l] /\ v[l] = new[l]
      BY <1>1, <1>2, ZeroedBytes
    <3> HIDE DEF u, v
    <3>3. u[i] # v[i]
      BY <1>1, <1>6, <3>2
    <3>4. ASSUME NEW j \in 1 .. Len(u), j # i PROVE u[j] = v[j]
      <4>1. j = 1 \/ j = 2 \/ j \in 3 .. Len(buf)
        BY <3>1
      <4>2. j \in 3 .. Len(buf) => new[j] = buf[j]
        BY <1>1, <3>4
      <4> QED BY <3>2, <4>1, <4>2
    <3>5. i \in 1 .. Len(u) /\ Len(u) = Len(v)
      BY <3>1
    <3>6. checksum(u) # checksum(v)
      BY <3>1, <3>3, <3>4, <3>5, ChecksumOfChange
    <3> QED BY <3>6 DEF u, v
  <2> QED BY <1>2, <2>1, <2>2
<1>7. i = 1 \/ i = 2 \/ i \in 3 .. Len(buf)
  OBVIOUS
<1> QED BY <1>5, <1>6, <1>7

\* Flipping a bit gives another byte.
LEMMA FlipChangesByte ==
  ASSUME NEW buf \in Seq(Byte), NEW i \in 1 .. Len(buf), NEW bit \in Bits
  PROVE  \E b \in Byte : b # buf[i] /\ Flip(buf, i, bit) = [buf EXCEPT ![i] = b]
<1> DEFINE x == buf[i]
           b == IF (x \div bit) % 2 = 1 THEN x - bit ELSE x + bit
<1>1. x \in Nat /\ x <= 255
  <2>1. buf[i] \in Byte
    OBVIOUS
  <2> QED BY <2>1, ByteIs
<1>2. Flip(buf, i, bit) = [buf EXCEPT ![i] = b]
  BY DEF Flip
<1> HIDE DEF x
<1>3. b \in Nat /\ b <= 255 /\ b # x
  <2>1. CASE bit = 1
    BY <1>1, <2>1
  <2>2. CASE bit = 2
    BY <1>1, <2>2
  <2>3. CASE bit = 4
    BY <1>1, <2>3
  <2>4. CASE bit = 8
    BY <1>1, <2>4
  <2>5. CASE bit = 16
    BY <1>1, <2>5
  <2>6. CASE bit = 32
    BY <1>1, <2>6
  <2>7. CASE bit = 64
    BY <1>1, <2>7
  <2>8. CASE bit = 128
    BY <1>1, <2>8
  <2> QED BY <2>1, <2>2, <2>3, <2>4, <2>5, <2>6, <2>7, <2>8 DEF Bits
<1>4. b \in Byte
  BY <1>3, ByteIs
<1> HIDE DEF b
<1> QED BY <1>2, <1>3, <1>4 DEF x

LEMMA FlipIsCaught ==
  ASSUME NEW buf \in Seq(Byte), verify(buf), NEW bad \in Corrupted(buf)
  PROVE  bad \in Seq(Byte) /\ Len(bad) = Len(buf) /\ ~Accepts(bad)
<1>1. PICK i \in 1 .. Len(buf), bit \in Bits : bad = Flip(buf, i, bit)
  BY DEF Corrupted
<1>2. PICK b \in Byte : b # buf[i] /\ Flip(buf, i, bit) = [buf EXCEPT ![i] = b]
  BY FlipChangesByte
<1>3. bad = [buf EXCEPT ![i] = b]
  BY <1>1, <1>2
<1>4. bad \in Seq(Byte) /\ Len(bad) = Len(buf)
  BY <1>3
<1>5. ~verify(bad)
  BY <1>2, <1>3, ChangedByteIsCaught
<1> QED BY <1>4, <1>5 DEF Accepts

-----------------------------------------------------------------------------
(* The packets of the transport.                                           *)

\* The checksum of the packet with 0 in the field is what the field is for.
LEMMA SealedVerifies ==
  ASSUME NEW h \in Header, h.checksum = 0, NEW c \in Seq(Byte)
  PROVE  /\ Sealed(h, c) \in Seq(Byte) /\ verify(Sealed(h, c))
         /\ \E g \in Header : Sealed(h, c) = encode(g, c) /\ g.flags = h.flags
               /\ g.version = h.version /\ g.payload_len = h.payload_len
<1> DEFINE sum == checksum(encode(h, c))
           g == [h EXCEPT !.checksum = sum]
           p == encode(h, c)
           q == encode(g, c)
<1>1. p \in Seq(Byte) /\ Len(p) = 16 + Len(c) /\ Len(c) \in Nat
      /\ \A i \in 1 .. 16 : p[i] = Pack(h)[i]
  BY EncodePositions DEF HEADER_SIZE
<1>2. sum \in Word
  BY <1>1, ChecksumAgrees
<1>3. g \in Header /\ g.checksum = sum /\ g.flags = h.flags /\ g.version = h.version
      /\ g.payload_len = h.payload_len /\ g.seq = h.seq /\ g.ack = h.ack
  BY <1>2 DEF Header
<1> HIDE DEF g
<1>4. q \in Seq(Byte) /\ Len(q) = 16 + Len(c) /\ \A i \in 1 .. 16 : q[i] = Pack(g)[i]
  BY <1>3, EncodePositions DEF HEADER_SIZE
<1>5. p[1] = 0 /\ p[2] = 0
  <2>1. Pack(h)[1] = High(0) /\ Pack(h)[2] = Low(0)
    BY DEF Pack
  <2>2. High(0) = 0 /\ Low(0) = 0
    BY DEF High, Low
  <2> QED BY <1>1, <2>1, <2>2
<1>6. \A i \in 3 .. 16 : Pack(g)[i] = Pack(h)[i]
  BY <1>3 DEF Pack
<1>7. ASSUME NEW i \in 17 .. Len(p) PROVE q[i] = p[i]
  <2>1. Len(Pack(g)) = 16 /\ Len(Pack(h)) = 16 /\ Pack(g) \in Seq(Byte) /\ Pack(h) \in Seq(Byte)
    BY <1>3, PackIsSixteenBytes DEF HEADER_SIZE
  <2>2. i > 16 /\ i <= 16 + Len(c) /\ i \in Nat
    BY <1>1
  <2>3. p = Pack(h) \o c /\ q = Pack(g) \o c
    BY DEF encode
  <2>4. ASSUME NEW t \in Seq(Byte), Len(t) = 16 PROVE (t \o c)[i] = c[i - 16]
    <3>1. i \in Nat /\ i > Len(t) /\ i <= Len(t) + Len(c)
      BY <2>2, <2>4
    <3>2. (t \o c)[i] = c[i - Len(t)]
      BY <3>1, AfterFirst
    <3> QED BY <2>4, <3>2
  <2>5. q[i] = c[i - 16] /\ p[i] = c[i - 16]
    <3> HIDE DEF p, q
    <3> QED BY <2>1, <2>3, <2>4
  <2> QED BY <2>5
<1>8. WordAt(q, 1) = sum
  <2>1. WordAt(q, 1) = g.checksum
    BY <1>3, EncodeFields
  <2> QED BY <1>3, <2>1
<1>9. Sealed(h, c) = q
  BY DEF Sealed, g
<1> HIDE DEF sum, p, q
<1>10. Zeroed(q) = p
  <2>1. /\ Zeroed(q) \in Seq(Byte) /\ Len(Zeroed(q)) = Len(p)
        /\ Zeroed(q)[1] = 0 /\ Zeroed(q)[2] = 0
        /\ \A i \in 3 .. Len(q) : Zeroed(q)[i] = q[i]
    BY <1>1, <1>4, ZeroedBytes
  <2>2. ASSUME NEW i \in 1 .. Len(p) PROVE Zeroed(q)[i] = p[i]
    <3>1. i = 1 \/ i = 2 \/ i \in 3 .. 16 \/ i \in 17 .. Len(p)
      BY <1>1
    <3>2. i \in 3 .. 16 => q[i] = p[i]
      BY <1>1, <1>4, <1>6
    <3>3. i \in 3 .. 16 \/ i \in 17 .. Len(p) => i \in 3 .. Len(q)
      BY <1>1, <1>4
    <3> QED BY <1>5, <1>7, <2>1, <3>1, <3>2, <3>3
  <2> QED BY <1>1, <2>1, <2>2
<1>11. checksum(Zeroed(q)) = WordAt(q, 1)
  BY <1>8, <1>10 DEF sum, p
<1>12. verify(q)
  BY <1>1, <1>4, <1>11 DEF verify, Zeroed
<1> QED BY <1>3, <1>4, <1>9, <1>12 DEF q

\* A chunk's packet is accepted and has the chunk for its payload.
LEMMA FrameIsPacket ==
  ASSUME NEW c \in Seq(Byte), Len(c) <= MAX_PAYLOAD
  PROVE  /\ Frame(c) \in Seq(Byte) /\ Len(Frame(c)) = HEADER_SIZE + Len(c)
         /\ verify(Frame(c)) /\ Accepts(Frame(c)) /\ decode(Frame(c)).payload = c
<1> DEFINE h == [checksum |-> 0, seq |-> <<0, 0>>, ack |-> <<0, 0>>, flags |-> FLAG_DATA,
                 version |-> PROTOCOL_VERSION, payload_len |-> Len(c)]
<1>1. Len(c) \in Nat /\ Len(c) <= 65491
  BY DEF MAX_PAYLOAD, HEADER_SIZE
<1>2. h \in Header
  <2>1. 0 \in Word /\ FLAG_DATA \in Byte /\ PROTOCOL_VERSION \in Byte /\ Len(c) \in Word
    BY <1>1, WordIs, ByteIs DEF FLAG_DATA, PROTOCOL_VERSION
  <2> QED BY <2>1 DEF Header
<1>3. h.checksum = 0 /\ h.flags = 1 /\ h.version = 1 /\ h.payload_len = Len(c)
  BY DEF FLAG_DATA, PROTOCOL_VERSION
<1>4. Frame(c) = Sealed(h, c)
  BY DEF Frame
<1> HIDE DEF h
<1>5. Frame(c) \in Seq(Byte) /\ verify(Frame(c))
  BY <1>2, <1>3, <1>4, SealedVerifies
<1>6. PICK g \in Header : Frame(c) = encode(g, c) /\ g.flags = 1 /\ g.version = 1
                             /\ g.payload_len = Len(c)
  BY <1>2, <1>3, <1>4, SealedVerifies
<1> DEFINE buf == encode(g, c)
<1>7. /\ Len(buf) = HEADER_SIZE + Len(c)
      /\ SubSeq(buf, HEADER_SIZE + 1, HEADER_SIZE + Len(c)) = c
  BY EncodePositions
<1>8. /\ buf[11] = 1 /\ buf[12] = 1 /\ WordAt(buf, 13) = Len(c) /\ WordAt(buf, 15) = MAGIC
  BY <1>6, EncodeFields
<1> HIDE DEF buf
<1>9. Decodable(buf)
  <2>1. Len(buf) >= HEADER_SIZE /\ Len(buf) - HEADER_SIZE = Len(c)
    BY <1>1, <1>7 DEF HEADER_SIZE
  <2> QED BY <1>8, <2>1 DEF Decodable, PROTOCOL_VERSION, KNOWN_FLAGS
<1>10. decode(buf).payload = c
  BY <1>7 DEF decode
<1>11. Frame(c) = buf
  BY <1>6 DEF buf
<1> QED BY <1>5, <1>7, <1>9, <1>10, <1>11 DEF Accepts

-----------------------------------------------------------------------------
(* The file layer.                                                         *)

LEMMA DivByChunk ==
  ASSUME NEW k \in Nat, NEW m \in Nat, m > 0
  PROVE  /\ k \div m \in Nat /\ m * (k \div m) <= k /\ k < m * (k \div m) + m
         /\ (k + m) \div m = (k \div m) + 1
         /\ k < m => k \div m = 0
OBVIOUS

LEMMA Multiples ==
  ASSUME NEW i \in Nat, NEW j \in Nat, NEW m \in Nat, i <= j
  PROVE  i * m <= j * m /\ i * m \in Nat /\ (i + 1) * m = i * m + m
OBVIOUS

\* How many chunks a rest of k bytes gives.
LEMMA ChunksOfRest ==
  ASSUME NEW k \in Nat, k > 0, NEW m \in Nat, m > 0
  PROVE  /\ (k + m - 1) \div m \in Nat \ {0}
         /\ k <= m => (k + m - 1) \div m = 1
         /\ k > m => (k + m - 1) \div m = ((k - m + m - 1) \div m) + 1
<1> DEFINE j == k - 1
<1>1. j \in Nat /\ k + m - 1 = j + m
  OBVIOUS
<1>2. (j + m) \div m = (j \div m) + 1 /\ j \div m \in Nat
  BY <1>1, DivByChunk
<1>3. k <= m => j \div m = 0
  BY <1>1, DivByChunk
<1>4. k > m => k - m + m - 1 = j
  OBVIOUS
<1> HIDE DEF j
<1> QED BY <1>1, <1>2, <1>3, <1>4

\* The chunks joined are, after each chunk, bytes.
LEMMA JoinedLoop ==
  ASSUME NEW cs \in Seq(Seq(Byte))
  PROVE  /\ Joined(cs)[0] = <<>>
         /\ \A i \in 1 .. Len(cs) : Joined(cs)[i] = Joined(cs)[i - 1] \o cs[i]
<1> DEFINE n == Len(cs)
           V == Seq(Byte)
           Is(f) == f = [i \in 0 .. n |-> IF i = 0 THEN <<>> ELSE f[i - 1] \o cs[i]]
<1>1. n \in Nat /\ \A i \in 1 .. n : cs[i] \in V
  OBVIOUS
<1>2. <<>> \in V /\ \A a \in V, b \in V : a \o b \in V
  OBVIOUS
<1> DEFINE step == [p \in (1 .. n) \X V |-> p[2] \o cs[p[1]]]
<1> HIDE DEF V
<1>3. step \in [(1 .. n) \X V -> V]
  <2>1. ASSUME NEW p \in (1 .. n) \X V PROVE p[2] \o cs[p[1]] \in V
    <3>1. p[1] \in 1 .. n /\ p[2] \in V
      OBVIOUS
    <3>2. cs[p[1]] \in V
      BY <1>1, <3>1
    <3> QED BY <1>2, <3>1, <3>2
  <2> QED BY <2>1
<1>4. \E f \in [0 .. n -> V] : Loop(f, <<>>, n, step)
  <2> HIDE DEF n, step
  <2> QED BY <1>1, <1>2, <1>3, LoopValues
<1>5. PICK f \in [0 .. n -> V] : Loop(f, <<>>, n, step)
  BY <1>4
<1>6. ASSUME NEW i \in 1 .. n PROVE step[<<i, f[i - 1]>>] = f[i - 1] \o cs[i]
  <2>1. i - 1 \in 0 .. n
    BY <1>1
  <2>2. f[i - 1] \in V
    BY <1>5, <2>1
  <2> QED BY <2>2
<1>7. Is(f)
  <2> HIDE DEF step, n
  <2>1. \A i \in 0 .. n : i = 0 \/ i \in 1 .. n
    BY <1>1
  <2>2. f = [i \in 0 .. n |-> IF i = 0 THEN <<>> ELSE step[<<i, f[i - 1]>>]]
    BY <1>5 DEF Loop
  <2>3. f = [i \in 0 .. n |-> IF i = 0 THEN <<>> ELSE f[i - 1] \o cs[i]]
    BY <1>6, <2>1, <2>2
  <2> QED BY <2>3 DEF n
<1>8. Joined(cs) = CHOOSE g : Is(g)
  BY DEF Joined
<1>9. Is(Joined(cs))
  <2> HIDE DEF Is
  <2> QED BY <1>7, <1>8
<1>10. Joined(cs) = [i \in 0 .. n |-> IF i = 0 THEN <<>> ELSE Joined(cs)[i - 1] \o cs[i]]
  BY <1>9
<1> HIDE DEF Is
<1>11. \A i \in 1 .. n : i \in 0 .. n /\ i # 0
  BY <1>1
<1> HIDE DEF n
<1>12. \A i \in 1 .. n : Joined(cs)[i] = Joined(cs)[i - 1] \o cs[i]
  BY <1>10, <1>11
<1>13. Joined(cs)[0] = <<>>
  BY <1>1, <1>10
<1> QED BY <1>12, <1>13 DEF n

\* A slice, and the next one.
LEMMA Slices ==
  ASSUME NEW file \in Seq(Byte), NEW a \in Nat, NEW m \in Nat, a < Len(file), m > 0
  PROVE  LET b == IF a + m < Len(file) THEN a + m ELSE Len(file)
         IN  /\ Slice(file, a, m) \in Seq(Byte)
             /\ Len(Slice(file, a, m)) \in 1 .. m
             /\ SubSeq(file, 1, a) \o Slice(file, a, m) = SubSeq(file, 1, b)
<1> DEFINE b == IF a + m < Len(file) THEN a + m ELSE Len(file)
           s == SubSeq(file, 1, a)
           t == SubSeq(file, a + 1, b)
           u == SubSeq(file, 1, b)
<1>1. b \in Nat /\ a < b /\ b <= Len(file) /\ b - a <= m /\ Len(file) \in Nat
  OBVIOUS
<1>2. Slice(file, a, m) = t
  BY DEF Slice
<1> HIDE DEF b
<1>3. /\ s \in Seq(Byte) /\ Len(s) = a /\ \A i \in 1 .. a : s[i] = file[i]
      /\ u \in Seq(Byte) /\ Len(u) = b /\ \A i \in 1 .. b : u[i] = file[i]
  BY <1>1
<1>4. t \in Seq(Byte) /\ Len(t) = b - a /\ \A i \in 1 .. b - a : t[i] = file[a + i]
  BY <1>1
<1> HIDE DEF s, t, u
<1>5. /\ Len(u) = Len(s) + Len(t)
      /\ \A i \in 1 .. Len(s) : u[i] = s[i]
      /\ \A i \in 1 .. Len(t) : u[Len(s) + i] = t[i]
  <2>1. Len(u) = Len(s) + Len(t)
    BY <1>1, <1>3, <1>4
  <2>2. ASSUME NEW i \in 1 .. Len(s) PROVE u[i] = s[i]
    BY <1>1, <1>3
  <2>3. ASSUME NEW i \in 1 .. Len(t) PROVE u[Len(s) + i] = t[i]
    <3>1. i \in 1 .. b - a /\ a + i \in 1 .. b
      BY <1>1, <1>4
    <3>2. u[a + i] = file[a + i] /\ t[i] = file[a + i]
      BY <1>3, <1>4, <3>1
    <3> QED BY <1>3, <3>2
  <2> QED BY <2>1, <2>2, <2>3
<1>6. s \o t = u
  BY <1>3, <1>4, <1>5, Concatenated
<1>7. Len(t) \in 1 .. m
  BY <1>1, <1>4
<1> QED BY <1>2, <1>4, <1>6, <1>7 DEF b, s, u

\* The chunks of a file: how many there are, and what they are.
LEMMA ChunkBounds ==
  ASSUME NEW file \in Seq(Byte), NEW m \in Nat, m > 0
  PROVE  LET n == (Len(file) + m - 1) \div m
         IN  /\ n \in Nat /\ Len(file) <= n * m
             /\ \A i \in 1 .. n : (i - 1) * m \in Nat /\ (i - 1) * m < Len(file)
                                    /\ (i - 1) * m + m = i * m
<1> DEFINE k == Len(file) + m - 1
           n == k \div m
<1>1. k \in Nat /\ Len(file) \in Nat
  OBVIOUS
<1>2. n \in Nat /\ m * n <= k /\ k < m * n + m
  <2> HIDE DEF k
  <2> QED BY <1>1, DivByChunk
<1> HIDE DEF n
<1>3. m * n = n * m /\ n * m \in Nat
  BY <1>2
<1>4. Len(file) <= n * m /\ n * m < Len(file) + m
  BY <1>1, <1>2, <1>3
<1>5. ASSUME NEW i \in 1 .. n
      PROVE  (i - 1) * m \in Nat /\ (i - 1) * m < Len(file) /\ (i - 1) * m + m = i * m
  <2> DEFINE h == i - 1
  <2>1. h \in Nat /\ h <= n /\ h + 1 = i /\ i \in Nat /\ i <= n
    BY <1>2
  <2> HIDE DEF h
  <2>2. h * m \in Nat /\ (h + 1) * m = h * m + m
    BY <2>1, Multiples
  <2>3. i * m <= n * m
    BY <1>2, <2>1, Multiples
  <2>4. h * m < Len(file)
    BY <1>1, <1>3, <1>4, <2>1, <2>2, <2>3
  <2> QED BY <2>1, <2>2, <2>4 DEF h
<1> QED BY <1>2, <1>4, <1>5 DEF n

\* The chunks are not empty and not too long, and joined they are the file.
THEOREM ChunksJoined ==
  ASSUME NEW file \in Seq(Byte), NEW m \in Nat, m > 0
  PROVE  /\ chunk(file, m) \in Seq(Seq(Byte))
         /\ \A i \in 1 .. Len(chunk(file, m)) : Len(chunk(file, m)[i]) \in 1 .. m
         /\ reassemble(chunk(file, m)) = file
<1> DEFINE n == (Len(file) + m - 1) \div m
           cs == chunk(file, m)
           upto(i) == SubSeq(file, 1, IF i * m < Len(file) THEN i * m ELSE Len(file))
           G == {i \in 0 .. n : Joined(cs)[i] = upto(i)}
<1>1. /\ n \in Nat /\ Len(file) <= n * m
      /\ \A i \in 1 .. n : (i - 1) * m \in Nat /\ (i - 1) * m < Len(file)
                                /\ (i - 1) * m + m = i * m
  BY ChunkBounds
<1>2. cs = [i \in 1 .. n |-> Slice(file, (i - 1) * m, m)]
  BY DEF chunk
<1> HIDE DEF n
<1>3. ASSUME NEW i \in 1 .. n
      PROVE  /\ cs[i] \in Seq(Byte) /\ Len(cs[i]) \in 1 .. m
             /\ upto(i - 1) \o cs[i] = upto(i)
  <2> DEFINE a == (i - 1) * m
  <2>1. a \in Nat /\ a < Len(file) /\ a + m = i * m
    BY <1>1
  <2>2. cs[i] = Slice(file, a, m)
    BY <1>2
  <2>3. upto(i - 1) = SubSeq(file, 1, a)
    BY <2>1
  <2>4. upto(i) = SubSeq(file, 1, IF a + m < Len(file) THEN a + m ELSE Len(file))
    BY <2>1
  <2> HIDE DEF a, cs, upto
  <2>5. /\ Slice(file, a, m) \in Seq(Byte) /\ Len(Slice(file, a, m)) \in 1 .. m
        /\ SubSeq(file, 1, a) \o Slice(file, a, m)
             = SubSeq(file, 1, IF a + m < Len(file) THEN a + m ELSE Len(file))
    BY <2>1, Slices
  <2> QED BY <2>2, <2>3, <2>4, <2>5
<1>4. cs \in Seq(Seq(Byte)) /\ Len(cs) = n
  <2> DEFINE V == Seq(Byte)
  <2>1. \A i \in 1 .. n : Slice(file, (i - 1) * m, m) \in V
    BY <1>2, <1>3
  <2> HIDE DEF V
  <2>2. cs \in Seq(V) /\ Len(cs) = n
    BY <1>1, <1>2, <2>1
  <2> QED BY <2>2 DEF V
<1> HIDE DEF cs
<1>5. 0 \in G
  <2>1. Joined(cs)[0] = <<>>
    BY <1>4, JoinedLoop
  <2>2. upto(0) = <<>>
    <3>1. 0 * m = 0 /\ Len(file) \in Nat
      OBVIOUS
    <3>2. (IF 0 * m < Len(file) THEN 0 * m ELSE Len(file)) = 0
      BY <3>1
    <3>3. SubSeq(file, 1, 0) = <<>>
      OBVIOUS
    <3> QED BY <3>2, <3>3
  <2> HIDE DEF upto
  <2> QED BY <1>1, <2>1, <2>2
<1>6. ASSUME NEW i \in 1 .. n, i - 1 \in G PROVE i \in G
  <2>1. Joined(cs)[i] = Joined(cs)[i - 1] \o cs[i]
    BY <1>4, JoinedLoop
  <2>2. Joined(cs)[i - 1] = upto(i - 1)
    BY <1>6
  <2>3. Joined(cs)[i] = upto(i)
    BY <1>3, <2>1, <2>2
  <2>4. i \in 0 .. n
    BY <1>1
  <2> QED BY <2>3, <2>4
<1>7. n \in G
  <2> HIDE DEF G
  <2>1. 0 .. n \subseteq G
    BY <1>1, <1>5, <1>6, UpTo
  <2> QED BY <1>1, <2>1
<1>8. upto(n) = file
  <2>1. (IF n * m < Len(file) THEN n * m ELSE Len(file)) = Len(file)
    <3>1. n * m \in Nat /\ Len(file) \in Nat
      BY <1>1
    <3> QED BY <1>1, <3>1
  <2>2. SubSeq(file, 1, Len(file)) = file
    OBVIOUS
  <2> QED BY <2>1, <2>2
<1>9. reassemble(cs) = file
  BY <1>4, <1>7, <1>8 DEF reassemble
<1> QED BY <1>3, <1>4, <1>9 DEF cs

\* The chunks of what is left of a file from a position on.
Rest(file, start, m) ==
    IF start >= Len(file) THEN <<>>
    ELSE [j \in 1 .. (Len(file) - start + m - 1) \div m |-> Slice(file, start + (j - 1) * m, m)]

LEMMA RestIsNextAndRest ==
  ASSUME NEW file \in Seq(Byte), NEW m \in Nat, m > 0, NEW start \in Nat, start < Len(file)
  PROVE  Rest(file, start, m) = <<Slice(file, start, m)>> \o Rest(file, start + m, m)
<1> DEFINE k == Len(file) - start
           n == (k + m - 1) \div m
           l == IF k > m THEN (k - m + m - 1) \div m ELSE 0
           s == [j \in 1 .. n |-> Slice(file, start + (j - 1) * m, m)]
           t == [j \in 1 .. l |-> Slice(file, start + m + (j - 1) * m, m)]
           V == {Slice(file, i, m) : i \in Nat}
<1>1. k \in Nat /\ k > 0 /\ Len(file) \in Nat
  OBVIOUS
<1>2. n \in Nat /\ l \in Nat /\ n = l + 1
  <2> HIDE DEF k
  <2>1. /\ n \in Nat \ {0} /\ (k <= m => n = 1)
        /\ k > m => n = ((k - m + m - 1) \div m) + 1
    BY <1>1, ChunksOfRest
  <2>2. k > m => (k - m + m - 1) \div m \in Nat
    <3>1. ASSUME k > m PROVE (k - m + m - 1) \div m \in Nat \ {0}
      <4>1. k - m \in Nat /\ k - m > 0
        BY <1>1, <3>1
      <4> QED BY <4>1, ChunksOfRest
    <3> QED BY <3>1
  <2> HIDE DEF n
  <2> QED BY <1>1, <2>1, <2>2
<1>3. Rest(file, start, m) = s
  BY DEF Rest
<1>4. Rest(file, start + m, m) = t
  <2>1. CASE k > m
    <3>1. ~(start + m >= Len(file)) /\ Len(file) - (start + m) + m - 1 = k - m + m - 1
      BY <1>1, <2>1
    <3>2. Rest(file, start + m, m)
            = [j \in 1 .. (Len(file) - (start + m) + m - 1) \div m |->
                  Slice(file, start + m + (j - 1) * m, m)]
      BY <3>1 DEF Rest
    <3>3. l = (Len(file) - (start + m) + m - 1) \div m
      BY <2>1, <3>1
    <3> HIDE DEF l
    <3> QED BY <3>2, <3>3
  <2>2. CASE ~(k > m)
    <3>1. start + m >= Len(file) /\ l = 0
      BY <1>1, <2>2
    <3> HIDE DEF l
    <3>2. t = <<>>
      BY <3>1
    <3> QED BY <3>1, <3>2 DEF Rest
  <2> QED BY <2>1, <2>2
<1> HIDE DEF n, l, k
<1>5. ASSUME NEW j \in Nat PROVE j * m \in Nat /\ (j + 1) * m = j * m + m
  BY <1>5, Multiples
<1>6. ASSUME NEW j \in 1 .. n
      PROVE  Slice(file, start + (j - 1) * m, m) \in V
  <2>1. j - 1 \in Nat
    OBVIOUS
  <2>2. start + (j - 1) * m \in Nat
    BY <1>5, <2>1
  <2> QED BY <2>2
<1>7. ASSUME NEW j \in 1 .. l
      PROVE  /\ Slice(file, start + m + (j - 1) * m, m) \in V
             /\ start + ((j + 1) - 1) * m = start + m + (j - 1) * m
  <2>1. j - 1 \in Nat /\ (j - 1) + 1 = j /\ (j + 1) - 1 = j
    OBVIOUS
  <2>2. (j - 1) * m \in Nat /\ j * m = (j - 1) * m + m
    BY <1>5, <2>1
  <2>3. start + m + (j - 1) * m \in Nat
    BY <2>2
  <2>4. start + ((j + 1) - 1) * m = start + m + (j - 1) * m
    BY <2>1, <2>2
  <2> QED BY <2>3, <2>4
<1>8. Slice(file, start, m) \in V
  OBVIOUS
<1>9. start + (1 - 1) * m = start
  OBVIOUS
<1> DEFINE a == <<Slice(file, start, m)>>
<1>10. s \in Seq(V) /\ Len(s) = n /\ s[1] = Slice(file, start, m)
  <2> HIDE DEF V
  <2>1. s \in Seq(V) /\ Len(s) = n
    BY <1>2, <1>6
  <2>2. s[1] = Slice(file, start + (1 - 1) * m, m)
    BY <1>2
  <2> QED BY <1>9, <2>1, <2>2
<1>11. t \in Seq(V) /\ Len(t) = l
  <2> HIDE DEF V
  <2> QED BY <1>2, <1>7
<1>12. ASSUME NEW j \in 1 .. l PROVE s[1 + j] = t[j]
  <2>1. s[j + 1] = Slice(file, start + ((j + 1) - 1) * m, m)
    BY <1>2
  <2>2. t[j] = Slice(file, start + m + (j - 1) * m, m)
    OBVIOUS
  <2> QED BY <1>7, <2>1, <2>2
<1>13. a \in Seq(V) /\ Len(a) = 1 /\ a[1] = Slice(file, start, m)
  <2> HIDE DEF V
  <2> QED BY <1>8
<1> HIDE DEF a, s, t, V
<1>14. /\ Len(s) = Len(a) + Len(t)
       /\ \A i \in 1 .. Len(a) : s[i] = a[i]
       /\ \A i \in 1 .. Len(t) : s[Len(a) + i] = t[i]
  BY <1>2, <1>10, <1>11, <1>12, <1>13
<1>15. a \o t = s
  BY <1>10, <1>11, <1>13, <1>14, Concatenated
<1> QED BY <1>3, <1>4, <1>15 DEF a

\* Reading on from each position until nothing is left gives the same chunks.
THEOREM ReaderIsChunk ==
  ASSUME NEW file \in Seq(Byte), NEW m \in Nat, m > 0
  PROVE  read_file_chunks(file, m) = chunk(file, m)
<1> DEFINE Is(f) == f = [start \in Nat |-> IF start >= Len(file) THEN <<>>
                                           ELSE <<Slice(file, start, m)>> \o f[start + m]]
           rest == [start \in Nat |-> Rest(file, start, m)]
           from == CHOOSE f : Is(f)
<1>1. Is(rest)
  <2>1. ASSUME NEW start \in Nat
        PROVE  rest[start] = IF start >= Len(file) THEN <<>>
                             ELSE <<Slice(file, start, m)>> \o rest[start + m]
    <3>1. rest[start] = Rest(file, start, m) /\ rest[start + m] = Rest(file, start + m, m)
      OBVIOUS
    <3>2. CASE start >= Len(file)
      BY <3>1, <3>2 DEF Rest
    <3>3. CASE start < Len(file)
      <4>1. ~(start >= Len(file))
        BY <3>3
      <4> HIDE DEF rest
      <4> QED BY <3>1, <3>3, <4>1, RestIsNextAndRest
    <3> QED BY <3>2, <3>3
  <2> QED BY <2>1
<1>2. Is(from)
  <2> HIDE DEF Is
  <2> QED BY <1>1
<1>3. read_file_chunks(file, m) = from[0]
  BY DEF read_file_chunks
<1>4. ASSUME NEW start \in Nat
      PROVE  from[start] = IF start >= Len(file) THEN <<>>
                           ELSE <<Slice(file, start, m)>> \o from[start + m]
  <2> HIDE DEF from
  <2> QED BY <1>2
<1> HIDE DEF Is, from
<1> DEFINE n == Len(file)
           G == {k \in 0 .. n : \A start \in Nat :
                                    start + k >= n => from[start] = Rest(file, start, m)}
<1>5. n \in Nat
  OBVIOUS
<1>6. 0 \in G
  <2>1. ASSUME NEW start \in Nat, start + 0 >= n PROVE from[start] = Rest(file, start, m)
    <3>1. start >= Len(file)
      BY <1>5, <2>1
    <3>2. from[start] = <<>>
      BY <1>4, <3>1
    <3> QED BY <3>1, <3>2 DEF Rest
  <2> QED BY <1>5, <2>1
<1>7. ASSUME NEW k \in 1 .. n, k - 1 \in G PROVE k \in G
  <2>1. ASSUME NEW start \in Nat, start + k >= n PROVE from[start] = Rest(file, start, m)
    <3>1. CASE start >= n
      BY <1>4, <3>1 DEF Rest
    <3>2. CASE start < n
      <4>1. start + m \in Nat /\ (start + m) + (k - 1) >= n
        BY <1>5, <2>1
      <4>2. from[start + m] = Rest(file, start + m, m)
        BY <1>7, <4>1
      <4>3. from[start] = <<Slice(file, start, m)>> \o from[start + m]
        <5>1. ~(start >= Len(file))
          BY <1>5, <3>2
        <5> QED BY <1>4, <5>1
      <4> QED BY <3>2, <4>2, <4>3, RestIsNextAndRest
    <3> QED BY <1>5, <3>1, <3>2
  <2>2. k \in 0 .. n
    BY <1>5
  <2> HIDE DEF n
  <2> QED BY <2>1, <2>2
<1>8. n \in G
  <2> HIDE DEF G, n
  <2>1. 0 .. n \subseteq G
    BY <1>5, <1>6, <1>7, UpTo
  <2> QED BY <1>5, <2>1
<1>9. from[0] = Rest(file, 0, m)
  BY <1>5, <1>8
<1>10. Rest(file, 0, m) = chunk(file, m)
  <2>1. CASE n = 0
    <3>1. Rest(file, 0, m) = <<>>
      BY <2>1 DEF Rest
    <3>2. (0 + m - 1) \div m = 0
      BY DivByChunk
    <3>3. chunk(file, m) = [i \in 1 .. 0 |-> Slice(file, (i - 1) * m, m)]
      BY <2>1, <3>2 DEF chunk
    <3> QED BY <3>1, <3>3
  <2>2. CASE n > 0
    <3>1. Rest(file, 0, m) = [j \in 1 .. (n - 0 + m - 1) \div m |-> Slice(file, 0 + (j - 1) * m, m)]
      BY <2>2 DEF Rest
    <3>2. n - 0 = n
      BY <1>5
    <3>3. \A j \in 1 .. (n + m - 1) \div m : 0 + (j - 1) * m = (j - 1) * m
      OBVIOUS
    <3> HIDE DEF n
    <3>4. Rest(file, 0, m) = [j \in 1 .. (n + m - 1) \div m |-> Slice(file, (j - 1) * m, m)]
      BY <3>1, <3>2, <3>3
    <3> QED BY <3>4 DEF chunk, n
  <2> QED BY <1>5, <2>1, <2>2
<1> QED BY <1>3, <1>9, <1>10

-----------------------------------------------------------------------------
(* The transport.                                                          *)

\* What the constants say of the file that is sent.
LEMMA FileFacts ==
  ASSUME data \in Files, mss \in Mss
  PROVE  /\ data \in Seq(Byte) /\ mss \in Nat /\ mss > 0 /\ mss <= MAX_PAYLOAD
         /\ chunks \in Seq(Seq(Byte))
         /\ \A i \in 1 .. Len(chunks) : Len(chunks[i]) \in 1 .. mss
         /\ reassemble(chunks) = data
<1>1. data \in Seq(Byte) /\ mss \in 1 .. MAX_PAYLOAD
  BY FilesAssumption
<1>2. MAX_PAYLOAD \in Nat
  BY DEF MAX_PAYLOAD, HEADER_SIZE
<1>3. mss \in Nat /\ mss > 0 /\ mss <= MAX_PAYLOAD
  BY <1>1, <1>2
<1> QED BY <1>1, <1>3, ChunksJoined DEF chunks

\* The packet of a chunk.
LEMMA ChunkFrame ==
  ASSUME data \in Files, mss \in Mss, NEW i \in 1 .. Len(chunks)
  PROVE  /\ Frame(chunks[i]) \in Seq(Byte)
         /\ Len(Frame(chunks[i])) \in HEADER_SIZE .. HEADER_SIZE + mss
         /\ verify(Frame(chunks[i])) /\ Accepts(Frame(chunks[i]))
         /\ decode(Frame(chunks[i])).payload = chunks[i]
<1> DEFINE c == chunks[i]
<1>1. /\ mss \in Nat /\ mss <= MAX_PAYLOAD /\ c \in Seq(Byte) /\ Len(c) \in 1 .. mss
      /\ MAX_PAYLOAD \in Nat /\ HEADER_SIZE \in Nat
  BY FileFacts DEF MAX_PAYLOAD, HEADER_SIZE
<1> HIDE DEF c
<1>2. Len(c) <= MAX_PAYLOAD
  BY <1>1
<1>3. /\ Frame(c) \in Seq(Byte) /\ Len(Frame(c)) = HEADER_SIZE + Len(c)
      /\ verify(Frame(c)) /\ Accepts(Frame(c)) /\ decode(Frame(c)).payload = c
  BY <1>1, <1>2, FrameIsPacket
<1>4. Len(Frame(c)) \in HEADER_SIZE .. HEADER_SIZE + mss
  BY <1>1, <1>3
<1> QED BY <1>3, <1>4 DEF c

LEMMA Removed ==
  ASSUME NEW S, NEW s \in Seq(S), NEW i \in 1 .. Len(s)
  PROVE  /\ RemoveAt(s, i) \in Seq(S) /\ Len(RemoveAt(s, i)) = Len(s) - 1
         /\ \A j \in 1 .. Len(s) - 1 : RemoveAt(s, i)[j] = IF j < i THEN s[j] ELSE s[j + 1]
<1> DEFINE a == SubSeq(s, 1, i - 1)
           b == SubSeq(s, i + 1, Len(s))
           n == Len(s)
<1>1. n \in Nat /\ i \in 1 .. n /\ RemoveAt(s, i) = a \o b
  BY DEF RemoveAt
<1>2. a \in Seq(S) /\ Len(a) = i - 1 /\ \A j \in 1 .. i - 1 : a[j] = s[j]
  OBVIOUS
<1>3. b \in Seq(S) /\ Len(b) = n - i /\ \A j \in 1 .. n - i : b[j] = s[i + j]
  OBVIOUS
<1> HIDE DEF a, b, n
<1>4. a \o b \in Seq(S) /\ Len(a \o b) = n - 1
  <2>1. a \o b \in Seq(S) /\ Len(a \o b) = Len(a) + Len(b)
    <3>1. a \in Seq(S) /\ b \in Seq(S)
      BY <1>2, <1>3, Zenon
    <3> QED BY <3>1
  <2>2. (i - 1) + (n - i) = n - 1
    BY <1>1
  <2>3. Len(a) + Len(b) = n - 1
    BY <1>2, <1>3, <2>2, Zenon
  <2> QED BY <2>1, <2>3, Zenon
<1>5. ASSUME NEW j \in 1 .. n - 1 PROVE (a \o b)[j] = IF j < i THEN s[j] ELSE s[j + 1]
  <2>1. CASE j < i
    <3>1. j \in 1 .. i - 1
      BY <1>1, <2>1
    <3>2. (a \o b)[j] = a[j]
      BY <1>1, <1>2, <1>3, <3>1
    <3> QED BY <1>2, <2>1, <3>1, <3>2
  <2>2. CASE ~(j < i)
    <3>1. j \in Nat /\ j > Len(a) /\ j <= Len(a) + Len(b) /\ j - (i - 1) \in 1 .. n - i
          /\ i + (j - (i - 1)) = j + 1
      BY <1>1, <1>2, <1>3, <2>2
    <3>2. (a \o b)[j] = b[j - Len(a)]
      BY <1>2, <1>3, <3>1, AfterFirst
    <3>3. b[j - (i - 1)] = s[j + 1]
      BY <1>3, <3>1
    <3> QED BY <1>2, <2>2, <3>2, <3>3
  <2> QED BY <2>1, <2>2
<1> QED BY <1>1, <1>4, <1>5 DEF n

LEMMA NullInit == Init => NullInv
<1> SUFFICES ASSUME Init PROVE NullInv
  OBVIOUS
<1>1. Len(chunks) \in Nat
  BY FileFacts DEF Init
<1>2. TypeOK
  BY <1>1, FilesAssumption DEF Init, TypeOK
<1>3. Carried /\ ReceivedWasSent
  BY DEF Init, Carried, ReceivedWasSent
<1>4. InOrder /\ CleanRunPasses
  BY DEF Init, InOrder, CleanRunPasses
<1> QED BY <1>2, <1>3, <1>4 DEF NullInv

LEMMA Repeated ==
  ASSUME NEW S, NEW s \in Seq(S), NEW b \in S, NEW k \in 1 .. 2
  PROVE  LET t == s \o [i \in 1 .. k |-> b]
         IN  /\ t \in Seq(S) /\ Len(t) = Len(s) + k
             /\ \A j \in 1 .. Len(s) : t[j] = s[j]
             /\ \A j \in 1 .. Len(s) + k : j > Len(s) => t[j] = b
<1> DEFINE r == [i \in 1 .. k |-> b]
<1>1. r \in Seq(S) /\ Len(r) = k /\ \A i \in 1 .. k : r[i] = b
  OBVIOUS
<1> HIDE DEF r
<1>2. s \o r \in Seq(S) /\ Len(s \o r) = Len(s) + k /\ \A j \in 1 .. Len(s) : (s \o r)[j] = s[j]
  BY <1>1
<1>3. ASSUME NEW j \in 1 .. Len(s) + k, j > Len(s) PROVE (s \o r)[j] = b
  <2>1. j \in Nat /\ j <= Len(s) + Len(r) /\ j - Len(s) \in 1 .. k
    BY <1>1, <1>3
  <2>2. (s \o r)[j] = r[j - Len(s)]
    BY <1>1, <1>3, <2>1, AfterFirst
  <2> QED BY <1>1, <2>1, <2>2
<1> QED BY <1>2, <1>3 DEF r

\* What the invariant says of the state, spelled out.
LEMMA NullFacts ==
  ASSUME NullInv
  PROVE  /\ data \in Files /\ mss \in Mss /\ Len(chunks) \in Nat
         /\ posted \in Nat /\ posted <= Len(chunks)
         /\ line \in Seq(Seq(Byte)) /\ received \in Seq(Seq(Byte))
         /\ \A i \in 1 .. Len(line) : /\ Len(line[i]) \in HEADER_SIZE .. HEADER_SIZE + mss
                                      /\ \E c \in Sent : line[i] = Frame(c)
                                                            \/ line[i] \in Corrupted(Frame(c))
         /\ \A i \in 1 .. Len(received) : received[i] \in Sent
         /\ \A c \in Sent : \E i \in 1 .. posted : i \in 1 .. Len(chunks) /\ c = chunks[i]
<1>1. TypeOK /\ Carried /\ ReceivedWasSent
  BY DEF NullInv
<1>2. Len(chunks) \in Nat /\ posted \in 0 .. Len(chunks) /\ data \in Files /\ mss \in Mss
  BY <1>1, FileFacts DEF TypeOK
<1>3. DOMAIN line = 1 .. Len(line) /\ DOMAIN received = 1 .. Len(received)
      /\ line \in Seq(Seq(Byte)) /\ received \in Seq(Seq(Byte))
  BY <1>1 DEF TypeOK
<1>4. ASSUME NEW c \in Sent PROVE \E i \in 1 .. posted : i \in 1 .. Len(chunks) /\ c = chunks[i]
  BY <1>2 DEF Sent
<1>5. ASSUME NEW i \in 1 .. Len(line)
      PROVE  /\ Len(line[i]) \in HEADER_SIZE .. HEADER_SIZE + mss
             /\ \E c \in Sent : line[i] = Frame(c) \/ line[i] \in Corrupted(Frame(c))
  BY <1>1, <1>3, Zenon DEF TypeOK, Carried
<1>6. ASSUME NEW i \in 1 .. Len(received) PROVE received[i] \in Sent
  BY <1>1, <1>3, Zenon DEF ReceivedWasSent
<1> QED BY <1>2, <1>3, <1>4, <1>5, <1>6

\* A datagram on the way that is accepted is the packet of a chunk sent.
LEMMA AcceptedWasSent ==
  ASSUME NullInv, NEW i \in 1 .. Len(line), Accepts(line[i])
  PROVE  decode(line[i]).payload \in Sent /\ decode(line[i]).payload \in Seq(Byte)
<1>1. PICK c \in Sent : line[i] = Frame(c) \/ line[i] \in Corrupted(Frame(c))
  BY NullFacts
<1>2. PICK j \in 1 .. Len(chunks) : c = chunks[j]
  BY <1>1, NullFacts
<1>3. /\ Frame(c) \in Seq(Byte) /\ verify(Frame(c)) /\ decode(Frame(c)).payload = c
      /\ c \in Seq(Byte)
  BY <1>2, NullFacts, ChunkFrame, FileFacts
<1>4. line[i] = Frame(c)
  BY <1>1, <1>3, FlipIsCaught
<1> QED BY <1>1, <1>3, <1>4

LEMMA SentGrows ==
  ASSUME NullInv, chunks' = chunks, posted' \in Nat, posted <= posted'
  PROVE  Sent \subseteq Sent'
<1> SUFFICES ASSUME NEW c \in Sent PROVE c \in Sent'
  OBVIOUS
<1>1. PICK i \in 1 .. posted : c = chunks[i]
  BY NullFacts
<1>2. i \in 1 .. posted'
  BY NullFacts
<1>3. c = chunks'[i]
  BY <1>1
<1> QED BY <1>2, <1>3 DEF Sent

\* A datagram more or less on the way, with the chunks sent.
LEMMA CarriedNext ==
  ASSUME NullInv, Sent \subseteq Sent', line' \in Seq(Seq(Byte)),
         \A j \in 1 .. Len(line') :
            \/ \E i \in 1 .. Len(line) : line'[j] = line[i]
            \/ \E c \in Sent' : line'[j] = Frame(c) \/ line'[j] \in Corrupted(Frame(c))
  PROVE  Carried'
<1>1. DOMAIN line' = 1 .. Len(line')
  OBVIOUS
<1>2. ASSUME NEW j \in 1 .. Len(line')
      PROVE  \E c \in Sent' : line'[j] = Frame(c) \/ line'[j] \in Corrupted(Frame(c))
  <2>1. CASE \E i \in 1 .. Len(line) : line'[j] = line[i]
    <3>1. PICK i \in 1 .. Len(line) : line'[j] = line[i]
      BY <2>1
    <3>2. PICK c \in Sent : line[i] = Frame(c) \/ line[i] \in Corrupted(Frame(c))
      BY NullFacts
    <3>3. c \in Sent'
      BY <3>2
    <3> QED BY <3>1, <3>2, <3>3, Zenon
  <2> QED BY <2>1
<1> QED BY <1>1, <1>2, Zenon DEF Carried

LEMMA NullSendLost == NullInv /\ SendLost => NullInv'
<1> SUFFICES ASSUME NullInv, SendLost PROVE NullInv'
  OBVIOUS
<1>1. /\ posted < Len(chunks) /\ posted' = posted + 1 /\ data' = data /\ mss' = mss
      /\ received' = received /\ collector' = collector /\ verdict' = verdict
      /\ clean' = FALSE /\ line' = line /\ flips' = flips
  BY DEF SendLost, SendTo
<1>2. chunks' = chunks
  BY <1>1, Zenon DEF chunks
<1>3. TypeOK /\ posted \in Nat /\ Len(chunks) \in Nat
  BY NullFacts DEF NullInv
<1>4. posted' \in 0 .. Len(chunks')
  BY <1>1, <1>2, <1>3
<1>5. TypeOK'
  BY <1>1, <1>3, <1>4, Zenon DEF TypeOK
<1>6. Sent \subseteq Sent'
  BY <1>1, <1>2, <1>3, SentGrows
<1>7. Carried'
  <2>1. line' \in Seq(Seq(Byte))
    BY <1>1, NullFacts
  <2> QED BY <1>1, <1>6, <2>1, CarriedNext
<1>8. ReceivedWasSent'
  BY <1>1, <1>6, Zenon DEF NullInv, ReceivedWasSent
<1>9. InOrder' /\ CleanRunPasses'
  BY <1>1, Zenon DEF InOrder, CleanRunPasses
<1> QED BY <1>5, <1>7, <1>8, <1>9 DEF NullInv

LEMMA NullSendCopies == NullInv /\ SendCopies => NullInv'
<1> SUFFICES ASSUME NullInv, SendCopies PROVE NullInv'
  OBVIOUS
<1> DEFINE c == chunks[posted + 1]
<1>1. /\ posted < Len(chunks) /\ posted' = posted + 1 /\ data' = data /\ mss' = mss
      /\ received' = received /\ collector' = collector /\ verdict' = verdict
  BY DEF SendCopies, SendTo
<1>2. chunks' = chunks
  BY <1>1, Zenon DEF chunks
<1>3. TypeOK /\ posted \in Nat /\ Len(chunks) \in Nat /\ line \in Seq(Seq(Byte))
      /\ data \in Files /\ mss \in Mss
  BY NullFacts DEF NullInv
<1>4. posted' \in 0 .. Len(chunks') /\ posted + 1 \in 1 .. Len(chunks)
  BY <1>1, <1>2, <1>3
<1>5. Sent \subseteq Sent'
  BY <1>1, <1>2, <1>3, SentGrows
<1>6. c \in Sent'
  <2>1. posted + 1 \in 1 .. posted' /\ c = chunks'[posted + 1]
    BY <1>1, <1>2, <1>3
  <2> HIDE DEF c
  <2> QED BY <2>1 DEF Sent
<1>7. /\ Frame(c) \in Seq(Byte) /\ verify(Frame(c))
      /\ Len(Frame(c)) \in HEADER_SIZE .. HEADER_SIZE + mss
  BY <1>3, <1>4, ChunkFrame
<1> HIDE DEF c
<1>8. PICK k \in 1 .. 2 :
         /\ Len(line) + k <= MaxInFlight
         /\ \/ /\ line' = line \o [i \in 1 .. k |-> Frame(c)]
               /\ flips' = flips
               /\ clean' = (clean /\ k = 1)
            \/ /\ flips < MaxFlips
               /\ \E buf \in Corrupted(Frame(c)) : line' = line \o [i \in 1 .. k |-> buf]
               /\ flips' = flips + 1
               /\ clean' = FALSE
  BY Zenon DEF SendCopies, c
<1>9. PICK buf \in {Frame(c)} \cup Corrupted(Frame(c)) :
         /\ line' = line \o [i \in 1 .. k |-> buf]
         /\ \/ flips' = flips
            \/ flips < MaxFlips /\ flips' = flips + 1
         /\ \/ clean' = FALSE
            \/ buf = Frame(c) /\ clean' = (clean /\ k = 1)
  BY <1>8, Zenon
<1>10. /\ buf \in Seq(Byte) /\ Len(buf) \in HEADER_SIZE .. HEADER_SIZE + mss
  <2>1. CASE buf = Frame(c)
    BY <1>7, <2>1
  <2>2. CASE buf \in Corrupted(Frame(c))
    <3>1. buf \in Seq(Byte) /\ Len(buf) = Len(Frame(c))
      BY <1>7, <2>2, FlipIsCaught
    <3> QED BY <1>7, <3>1
  <2> QED BY <1>9, <2>1, <2>2
<1>11. /\ line' \in Seq(Seq(Byte)) /\ Len(line') = Len(line) + k
       /\ \A j \in 1 .. Len(line) : line'[j] = line[j]
       /\ \A j \in 1 .. Len(line) + k : j > Len(line) => line'[j] = buf
  <2> DEFINE V == Seq(Byte)
  <2> HIDE DEF V
  <2>1. line \in Seq(V) /\ buf \in V
    BY <1>3, <1>10 DEF V
  <2>2. /\ line' \in Seq(V) /\ Len(line') = Len(line) + k
        /\ \A j \in 1 .. Len(line) : line'[j] = line[j]
        /\ \A j \in 1 .. Len(line) + k : j > Len(line) => line'[j] = buf
    BY <1>9, <2>1, Repeated
  <2> QED BY <2>2 DEF V
<1>12. Len(line) \in Nat /\ Len(line') \in Nat /\ DOMAIN line' = 1 .. Len(line')
  BY <1>3, <1>11
<1>13. TypeOK'
  <2>1. flips' \in 0 .. MaxFlips
    BY <1>3, <1>9, FilesAssumption DEF TypeOK
  <2>2. ASSUME NEW j \in DOMAIN line' PROVE Len(line'[j]) \in HEADER_SIZE .. HEADER_SIZE + mss
    <3>1. CASE j \in 1 .. Len(line)
      BY <1>11, <3>1, NullFacts
    <3>2. CASE ~(j \in 1 .. Len(line))
      <4>1. j \in 1 .. Len(line) + k /\ j > Len(line)
        BY <1>11, <1>12, <3>2
      <4> QED BY <1>10, <1>11, <4>1
    <3> QED BY <3>1, <3>2
  <2>3. clean' \in BOOLEAN
    BY <1>3, <1>9, Zenon DEF TypeOK
  <2>4. Len(line') <= MaxInFlight
    BY <1>8, <1>11
  <2> QED BY <1>1, <1>3, <1>4, <1>11, <2>1, <2>2, <2>3, <2>4, Zenon DEF TypeOK
<1>14. Carried'
  <2>1. ASSUME NEW j \in 1 .. Len(line')
        PROVE  \/ \E i \in 1 .. Len(line) : line'[j] = line[i]
               \/ \E d \in Sent' : line'[j] = Frame(d) \/ line'[j] \in Corrupted(Frame(d))
    <3>1. CASE j \in 1 .. Len(line)
      BY <1>11, <3>1
    <3>2. CASE ~(j \in 1 .. Len(line))
      <4>1. j \in 1 .. Len(line) + k /\ j > Len(line)
        BY <1>11, <1>12, <3>2
      <4>2. line'[j] = buf
        BY <1>11, <4>1
      <4> QED BY <1>6, <1>9, <4>2, Zenon
    <3> QED BY <3>1, <3>2
  <2> QED BY <1>5, <1>11, <2>1, CarriedNext
<1>15. ReceivedWasSent'
  BY <1>1, <1>5, Zenon DEF NullInv, ReceivedWasSent
<1>16. InOrder'
  <2> SUFFICES ASSUME clean'
               PROVE  /\ posted' = Len(received') + Len(line')
                      /\ \A i \in DOMAIN received' : received'[i] = chunks'[i]
                      /\ \A i \in DOMAIN line' : line'[i] = Frame(chunks'[Len(received') + i])
                      /\ collector' = "ended" => Len(received') = Len(chunks')
    BY Zenon DEF InOrder
  <2>1. clean /\ k = 1 /\ buf = Frame(c)
    BY <1>9, Zenon
  <2>2. /\ posted = Len(received) + Len(line)
        /\ \A i \in DOMAIN received : received[i] = chunks[i]
        /\ \A i \in DOMAIN line : line[i] = Frame(chunks[Len(received) + i])
        /\ collector = "ended" => Len(received) = Len(chunks)
    BY <2>1, Zenon DEF NullInv, InOrder
  <2>3. Len(received) \in Nat /\ DOMAIN line = 1 .. Len(line)
    BY <1>3, NullFacts
  <2>4. posted' = Len(received') + Len(line')
    BY <1>1, <1>11, <1>12, <2>1, <2>2, <2>3
  <2>5. ASSUME NEW i \in DOMAIN line' PROVE line'[i] = Frame(chunks'[Len(received') + i])
    <3>1. i \in 1 .. Len(line) \/ (i = Len(line) + 1 /\ i \in 1 .. Len(line) + k /\ i > Len(line))
      BY <1>11, <1>12, <2>1
    <3>2. CASE i \in 1 .. Len(line)
      BY <1>1, <1>2, <1>11, <2>2, <2>3, <3>2, Zenon
    <3>3. CASE i = Len(line) + 1 /\ i \in 1 .. Len(line) + k /\ i > Len(line)
      <4>1. Len(received) + i = posted + 1
        BY <1>12, <2>2, <2>3, <3>3
      <4>2. line'[i] = Frame(c)
        BY <1>11, <2>1, <3>3
      <4> QED BY <1>1, <1>2, <4>1, <4>2, Zenon DEF c
    <3> QED BY <3>1, <3>2, <3>3
  <2> QED BY <1>1, <1>2, <2>2, <2>4, <2>5, Zenon
<1>17. CleanRunPasses'
  <2>1. clean' => clean
    BY <1>9, Zenon
  <2> QED BY <1>1, <2>1, Zenon DEF NullInv, CleanRunPasses
<1> QED BY <1>13, <1>14, <1>15, <1>16, <1>17 DEF NullInv

LEMMA NullReceive == NullInv /\ Receive => NullInv'
<1> SUFFICES ASSUME NullInv, Receive PROVE NullInv'
  OBVIOUS
<1>1. /\ TypeOK /\ data \in Files /\ mss \in Mss /\ Len(chunks) \in Nat
      /\ posted \in Nat /\ posted <= Len(chunks)
      /\ line \in Seq(Seq(Byte)) /\ received \in Seq(Seq(Byte))
      /\ DOMAIN line = 1 .. Len(line) /\ Len(line) \in Nat
      /\ DOMAIN received = 1 .. Len(received) /\ Len(received) \in Nat
  BY NullFacts DEF NullInv
<1>2. PICK i \in 1 .. Len(line) : /\ Collects(line[i])
                                  /\ line' = RemoveAt(line, i)
                                  /\ clean' = (clean /\ i = 1)
  BY <1>1, Zenon DEF Receive
<1> DEFINE c == decode(line[i]).payload
<1>3. /\ collector = "collecting" /\ Len(received) < Len(chunks)
      /\ received' = IF Accepts(line[i]) THEN Append(received, c) ELSE received
      /\ collector' = IF Len(received') = Len(chunks) THEN "ended" ELSE "collecting"
      /\ data' = data /\ mss' = mss /\ posted' = posted /\ flips' = flips /\ verdict' = verdict
  BY <1>2 DEF Collects
<1>4. chunks' = chunks
  BY <1>3, Zenon DEF chunks
<1>5. Sent' = Sent
  BY <1>3, <1>4, Zenon DEF Sent
<1>6. Accepts(line[i]) => c \in Sent /\ c \in Seq(Byte)
  BY AcceptedWasSent
<1> HIDE DEF c
<1>7. /\ line' \in Seq(Seq(Byte)) /\ Len(line') = Len(line) - 1
      /\ \A j \in 1 .. Len(line) - 1 : line'[j] = IF j < i THEN line[j] ELSE line[j + 1]
  <2> DEFINE V == Seq(Byte)
  <2> HIDE DEF V
  <2>1. line \in Seq(V)
    BY <1>1 DEF V
  <2>2. /\ line' \in Seq(V) /\ Len(line') = Len(line) - 1
        /\ \A j \in 1 .. Len(line) - 1 : line'[j] = IF j < i THEN line[j] ELSE line[j + 1]
    BY <1>2, <2>1, Removed
  <2> QED BY <2>2 DEF V
<1>8. DOMAIN line' = 1 .. Len(line) - 1 /\ Len(line') \in Nat
  BY <1>7
<1>9. ASSUME NEW j \in 1 .. Len(line') PROVE \E l \in 1 .. Len(line) : line'[j] = line[l]
  <2>1. j \in 1 .. Len(line) - 1 /\ j \in 1 .. Len(line) /\ j + 1 \in 1 .. Len(line)
    BY <1>1, <1>7
  <2> QED BY <1>7, <2>1, Zenon
<1>10. /\ received' \in Seq(Seq(Byte))
       /\ \A j \in DOMAIN received' : received'[j] \in Sent
       /\ \A j \in DOMAIN received : j \in DOMAIN received' /\ received'[j] = received[j]
       /\ DOMAIN received' = 1 .. Len(received')
       /\ Accepts(line[i]) => Len(received') = Len(received) + 1
                                 /\ received'[Len(received) + 1] = c
       /\ ~Accepts(line[i]) => received' = received
  <2>1. \A j \in DOMAIN received : received[j] \in Sent
    BY <1>1, NullFacts
  <2>2. CASE Accepts(line[i])
    <3> DEFINE V == Seq(Byte)
    <3>1. c \in V /\ received \in Seq(V) /\ c \in Sent
      BY <1>1, <1>6, <2>2
    <3> HIDE DEF V
    <3>2. received' = Append(received, c)
      BY <1>3, <2>2
    <3>3. /\ received' \in Seq(V) /\ Len(received') = Len(received) + 1
          /\ DOMAIN received' = 1 .. Len(received) + 1
          /\ \A j \in 1 .. Len(received) : received'[j] = received[j]
          /\ received'[Len(received) + 1] = c
      BY <3>1, <3>2
    <3>4. \A n \in Nat : \A j \in 1 .. n + 1 : j \in 1 .. n \/ j = n + 1
      OBVIOUS
    <3>5. \A n \in Nat : \A j \in 1 .. n : j \in 1 .. n + 1
      OBVIOUS
    <3> QED BY <1>1, <2>1, <2>2, <3>1, <3>3, <3>4, <3>5, Zenon DEF V
  <2>3. CASE ~Accepts(line[i])
    BY <1>1, <1>3, <2>1, <2>3, Zenon
  <2> QED BY <2>2, <2>3
<1>11. TypeOK'
  <2>1. ASSUME NEW j \in DOMAIN line' PROVE Len(line'[j]) \in HEADER_SIZE .. HEADER_SIZE + mss
    <3>1. PICK l \in 1 .. Len(line) : line'[j] = line[l]
      BY <1>7, <1>8, <1>9
    <3> QED BY <3>1, NullFacts, Zenon
  <2>2. clean' \in BOOLEAN
    BY <1>1, <1>2, Zenon DEF TypeOK
  <2>3. Len(line') <= MaxInFlight
    <3>1. Len(line) <= MaxInFlight /\ MaxInFlight \in Nat
      BY <1>1, FilesAssumption DEF TypeOK
    <3> QED BY <1>1, <1>7, <3>1
  <2>4. collector' \in {"collecting", "ended"}
    BY <1>3, Zenon
  <2> QED BY <1>1, <1>3, <1>4, <1>7, <1>10, <2>1, <2>2, <2>3, <2>4, Zenon DEF TypeOK
<1>12. Carried'
  <2>1. Sent \subseteq Sent'
    BY <1>5
  <2> QED BY <1>7, <1>9, <2>1, CarriedNext
<1>13. ReceivedWasSent'
  BY <1>5, <1>10, Zenon DEF ReceivedWasSent
<1>14. InOrder'
  <2> SUFFICES ASSUME clean'
               PROVE  /\ posted' = Len(received') + Len(line')
                      /\ \A j \in DOMAIN received' : received'[j] = chunks'[j]
                      /\ \A j \in DOMAIN line' : line'[j] = Frame(chunks'[Len(received') + j])
                      /\ collector' = "ended" => Len(received') = Len(chunks')
    BY Zenon DEF InOrder
  <2>1. clean /\ i = 1
    BY <1>2, Zenon
  <2>2. /\ posted = Len(received) + Len(line)
        /\ \A j \in DOMAIN received : received[j] = chunks[j]
        /\ \A j \in DOMAIN line : line[j] = Frame(chunks[Len(received) + j])
    BY <2>1, Zenon DEF NullInv, InOrder
  <2>3. Len(received) + 1 \in 1 .. Len(chunks) /\ 1 \in DOMAIN line
    BY <1>1, <1>2, <2>1, <2>2
  <2>4. line[i] = Frame(chunks[Len(received) + 1])
    BY <2>1, <2>2, <2>3, Zenon
  <2>5. Accepts(line[i]) /\ c = chunks[Len(received) + 1]
    BY <1>1, <2>3, <2>4, ChunkFrame DEF c
  <2>6. Len(received') = Len(received) + 1 /\ received'[Len(received) + 1] = c
    BY <1>10, <2>5
  <2>7. posted' = Len(received') + Len(line')
    BY <1>1, <1>3, <1>7, <2>2, <2>6
  <2>8. ASSUME NEW j \in DOMAIN received' PROVE received'[j] = chunks'[j]
    <3>1. j \in 1 .. Len(received) \/ j = Len(received) + 1
      BY <1>1, <1>10, <2>6
    <3> QED BY <1>1, <1>4, <1>10, <2>2, <2>5, <2>6, <3>1, Zenon
  <2>9. ASSUME NEW j \in DOMAIN line' PROVE line'[j] = Frame(chunks'[Len(received') + j])
    <3> DEFINE n == Len(line)
               r == Len(received)
    <3>1. j \in 1 .. n - 1 /\ n \in Nat /\ r \in Nat /\ DOMAIN line = 1 .. n
      BY <1>1, <1>8
    <3> HIDE DEF n, r
    <3>2. j + 1 \in 1 .. n /\ ~(j < 1) /\ r + (j + 1) = (r + 1) + j
      BY <3>1
    <3>3. /\ j \in 1 .. Len(line) - 1 /\ j + 1 \in DOMAIN line /\ ~(j < i)
          /\ Len(received) + (j + 1) = Len(received') + j
      BY <2>1, <2>6, <3>1, <3>2, Zenon DEF n, r
    <3>4. line'[j] = line[j + 1]
      BY <1>7, <3>3
    <3> QED BY <1>4, <2>2, <3>3, <3>4, Zenon
  <2>10. collector' = "ended" => Len(received') = Len(chunks')
    BY <1>3, <1>4
  <2> QED BY <2>7, <2>8, <2>9, <2>10
<1>15. CleanRunPasses'
  <2>1. clean' => clean
    BY <1>2, Zenon
  <2> QED BY <1>3, <2>1, Zenon DEF NullInv, CleanRunPasses
<1> QED BY <1>11, <1>12, <1>13, <1>14, <1>15 DEF NullInv

LEMMA NullReceiveStray == NullInv /\ ReceiveStray => NullInv'
<1> SUFFICES ASSUME NullInv, ReceiveStray PROVE NullInv'
  OBVIOUS
<1>1. PICK buf \in Stray : Collects(buf)
  BY DEF ReceiveStray
<1>2. ~Accepts(buf)
  BY FilesAssumption
<1>3. /\ Len(received) < Len(chunks) /\ received' = received
      /\ collector' = IF Len(received') = Len(chunks) THEN "ended" ELSE "collecting"
      /\ data' = data /\ mss' = mss /\ posted' = posted /\ flips' = flips /\ verdict' = verdict
      /\ line' = line /\ clean' = clean
  BY <1>1, <1>2 DEF Collects, ReceiveStray
<1>4. collector' = "collecting"
  <2>1. Len(received) \in Nat /\ Len(chunks) \in Nat
    BY NullFacts
  <2> QED BY <1>3, <2>1
<1>5. chunks' = chunks
  BY <1>3, Zenon DEF chunks
<1>6. Sent' = Sent
  BY <1>3, <1>5, Zenon DEF Sent
<1>7. TypeOK'
  BY <1>3, <1>4, <1>5, Zenon DEF NullInv, TypeOK
<1>8. Carried' /\ ReceivedWasSent'
  BY <1>3, <1>6, Zenon DEF NullInv, Carried, ReceivedWasSent
<1>9. InOrder'
  BY <1>3, <1>4, <1>5, Zenon DEF NullInv, InOrder
<1>10. CleanRunPasses'
  BY <1>3, Zenon DEF NullInv, CleanRunPasses
<1> QED BY <1>7, <1>8, <1>9, <1>10 DEF NullInv

LEMMA NullCollectorEnds == NullInv /\ CollectorEnds => NullInv'
<1> SUFFICES ASSUME NullInv, CollectorEnds PROVE NullInv'
  OBVIOUS
<1>1. /\ collector' = "ended" /\ clean' = (clean /\ chunks = <<>>)
      /\ data' = data /\ mss' = mss /\ posted' = posted /\ line' = line /\ flips' = flips
      /\ received' = received /\ verdict' = verdict
  BY DEF CollectorEnds
<1>2. chunks' = chunks
  BY <1>1, Zenon DEF chunks
<1>3. Sent' = Sent
  BY <1>1, <1>2, Zenon DEF Sent
<1>4. TypeOK'
  BY <1>1, <1>2, Zenon DEF NullInv, TypeOK
<1>5. Carried' /\ ReceivedWasSent'
  BY <1>1, <1>3, Zenon DEF NullInv, Carried, ReceivedWasSent
<1>6. InOrder'
  <2> SUFFICES ASSUME clean'
               PROVE  /\ posted' = Len(received') + Len(line')
                      /\ \A j \in DOMAIN received' : received'[j] = chunks'[j]
                      /\ \A j \in DOMAIN line' : line'[j] = Frame(chunks'[Len(received') + j])
                      /\ Len(received') = Len(chunks')
    BY Zenon DEF InOrder
  <2>1. clean /\ chunks = <<>>
    BY <1>1, Zenon
  <2>2. /\ posted = Len(received) + Len(line)
        /\ \A j \in DOMAIN received : received[j] = chunks[j]
        /\ \A j \in DOMAIN line : line[j] = Frame(chunks[Len(received) + j])
    BY <2>1, Zenon DEF NullInv, InOrder
  <2>3. Len(chunks) = 0
    BY <2>1
  <2>4. Len(received) = Len(chunks)
    BY <2>2, <2>3, NullFacts
  <2> QED BY <1>1, <1>2, <2>2, <2>4, Zenon
<1>7. CleanRunPasses'
  <2>1. clean' => clean
    BY <1>1, Zenon
  <2> QED BY <1>1, <2>1, Zenon DEF NullInv, CleanRunPasses
<1> QED BY <1>4, <1>5, <1>6, <1>7 DEF NullInv

LEMMA NullVerdict == NullInv /\ Verdict => NullInv'
<1> SUFFICES ASSUME NullInv, Verdict PROVE NullInv'
  OBVIOUS
<1>1. /\ verdict' = IF Len(received) = Len(chunks)
                          /\ sha256(reassemble(received)) = sha256(data)
                       THEN "PASS" ELSE "FAIL"
      /\ clean' = (clean /\ collector = "ended")
      /\ data' = data /\ mss' = mss /\ posted' = posted /\ line' = line /\ flips' = flips
      /\ received' = received /\ collector' = collector
  BY DEF Verdict
<1>2. chunks' = chunks
  BY <1>1, Zenon DEF chunks
<1>3. Sent' = Sent
  BY <1>1, <1>2, Zenon DEF Sent
<1>4. TypeOK'
  BY <1>1, <1>2, Zenon DEF NullInv, TypeOK
<1>5. Carried' /\ ReceivedWasSent'
  BY <1>1, <1>3, Zenon DEF NullInv, Carried, ReceivedWasSent
<1>6. clean' => clean /\ collector = "ended"
  BY <1>1, Zenon
<1>7. InOrder'
  BY <1>1, <1>2, <1>6, Zenon DEF NullInv, InOrder
<1>8. CleanRunPasses'
  <2> SUFFICES ASSUME clean' PROVE verdict' = "PASS"
    BY Zenon DEF CleanRunPasses
  <2>1. /\ Len(received) = Len(chunks)
        /\ \A j \in DOMAIN received : received[j] = chunks[j]
    BY <1>6, Zenon DEF NullInv, InOrder
  <2>2. /\ received \in Seq(Seq(Byte)) /\ chunks \in Seq(Seq(Byte)) /\ reassemble(chunks) = data
    BY NullFacts, FileFacts
  <2>3. received = chunks
    <3> DEFINE V == Seq(Byte)
    <3>1. received \in Seq(V) /\ chunks \in Seq(V) /\ DOMAIN received = 1 .. Len(received)
      BY <2>2
    <3> HIDE DEF V
    <3> QED BY <2>1, <3>1
  <2> QED BY <1>1, <2>1, <2>2, <2>3, Zenon
<1> QED BY <1>4, <1>5, <1>7, <1>8 DEF NullInv

LEMMA NullInductive == NullInv /\ [Next]_vars => NullInv'
<1>1. CASE Next
  BY <1>1, NullSendLost, NullSendCopies, NullReceive, NullReceiveStray, NullCollectorEnds,
     NullVerdict DEF Next
<1>2. ASSUME NullInv, UNCHANGED vars PROVE NullInv'
  <2>1. /\ data' = data /\ mss' = mss /\ posted' = posted /\ line' = line /\ flips' = flips
        /\ received' = received /\ collector' = collector /\ verdict' = verdict /\ clean' = clean
    BY <1>2 DEF vars
  <2>2. chunks' = chunks
    BY <2>1, Zenon DEF chunks
  <2>3. Sent' = Sent
    BY <2>1, <2>2, Zenon DEF Sent
  <2> QED BY <1>2, <2>1, <2>2, <2>3, Zenon
          DEF NullInv, TypeOK, Carried, ReceivedWasSent, InOrder, CleanRunPasses
<1> QED BY <1>1, <1>2

THEOREM NullInvariance == Spec => []NullInv
<1> QED BY NullInit, NullInductive, PTL DEF Spec

\* recvfrom() never returns a payload that was not sent, whichever bits the
\* channel flips: the checksum and decode() refuse all else.
THEOREM OnlyWhatWasSent == Spec => []ReceivedWasSent
<1>1. NullInv => ReceivedWasSent
  BY DEF NullInv
<1> QED BY <1>1, NullInvariance, PTL

\* Without loss, repetition, overtaking or corruption run_null() says PASS.
THEOREM CleanRunsPass == Spec => []CleanRunPasses
<1>1. NullInv => CleanRunPasses
  BY DEF NullInv
<1> QED BY <1>1, NullInvariance, PTL

\* decode() and encode() are inverse on whatever is on the way.
THEOREM DecodingIsInverse == Spec => []DecodeIsInverse
<1>1. NullInv => DecodeIsInverse
  <2> SUFFICES ASSUME NullInv, NEW i \in DOMAIN line, Decodable(line[i])
               PROVE  LET d == decode(line[i])
                      IN  d.header \in Header /\ Encodable(d.header, d.payload)
                             /\ encode(d.header, d.payload) = line[i]
    BY Zenon DEF DecodeIsInverse
  <2>1. line[i] \in Seq(Byte)
    BY NullFacts
  <2> QED BY <2>1, DecodeThenEncode
<1> QED BY <1>1, NullInvariance, PTL

\* The checksum of whatever is on the way is the one of RFC 1071.
THEOREM ChecksumsAreRFC1071 == Spec => []ChecksumIsRFC1071
<1>1. NullInv => ChecksumIsRFC1071
  <2> SUFFICES ASSUME NullInv, NEW i \in DOMAIN line
               PROVE  checksum(line[i]) = RFC1071(line[i])
    BY Zenon DEF ChecksumIsRFC1071
  <2>1. line[i] \in Seq(Byte)
    BY NullFacts
  <2> QED BY <2>1, ChecksumAgrees
<1> QED BY <1>1, NullInvariance, PTL

\* The chunks are the file, for every file and every chunk size.
THEOREM ChunksAreTheFile == Spec => []ChunksAreFile
<1>1. NullInv => ChunksAreFile
  <2> SUFFICES ASSUME NullInv PROVE ChunksAreFile
    OBVIOUS
  <2>1. /\ data \in Seq(Byte) /\ mss \in Nat /\ mss > 0
        /\ chunks \in Seq(Seq(Byte)) /\ reassemble(chunks) = data
        /\ \A i \in 1 .. Len(chunks) : Len(chunks[i]) \in 1 .. mss
    BY NullFacts, FileFacts
  <2>2. DOMAIN chunks = 1 .. Len(chunks)
    BY <2>1
  <2>3. read_file_chunks(data, mss) = chunks
    BY <2>1, ReaderIsChunk DEF chunks
  <2>4. sha256_file(data, mss) = sha256(data)
    BY <2>1, <2>3, Zenon DEF sha256_file
  <2> QED BY <2>1, <2>2, <2>3, <2>4, Zenon DEF ChunksAreFile
<1> QED BY <1>1, NullInvariance, PTL
=============================================================================
