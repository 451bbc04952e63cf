--------------------------- MODULE ExampleProofs ----------------------------
(***************************************************************************)
(* The safety properties of two things the examples are made of: the       *)
(* buffered stream they read their requests from, for every request, size  *)
(* of the pieces and size of the buffer; and the postgres programs, for    *)
(* any number of requests: the limit, and whose results a request reads.   *)
(***************************************************************************)
EXTENDS DemoStream, Postgres, SequenceTheorems, TLAPS
INSTANCE DataLemmas WITH Handles <- {}   \* its lemmas on lists and numbers

-----------------------------------------------------------------------------
(* The buffered stream                                                       *)

(* The invariant has two witnesses the specification does not name: the      *)
(* fields up to each of them, and for every place in the field being read a  *)
(* byte that shows that its end does not begin there.                        *)
StreamTypeOK ==
  /\ input \in Seq(Bytes) /\ data \in Seq(Bytes) /\ chunk \in Nat \ {0}
  /\ to \in Seq(Bytes) /\ held \in Seq(Bytes) /\ fields \in Seq(Seq(Bytes))
  /\ it \in Nat /\ registered \in BOOLEAN
  /\ reader \in {"reading", "receiving", "done"}

(* The bytes are in the buffer, and the reader that receives has room.       *)
RoomInv ==
  /\ it + Len(held) <= BufferSize
  /\ registered => reader = "receiving" /\ it + Len(held) < BufferSize

(* Byte j of the field being read and the buffer behind it.                  *)
Byte(j) == IF j <= Len(to) THEN to[j] ELSE held[j - Len(to)]

(* The sentinel does not begin in the field being read: where it could, the  *)
(* buffer has the bytes that decide it.                                      *)
Scanned ==
  \A i \in 1..Len(to) :
    /\ i + Len(Current) - 1 <= Len(to) + Len(held)
    /\ \E m \in 1..Len(Current) : Byte(i + m - 1) # Current[m]

(* Every field that was read has its end behind it and nowhere before.       *)
FieldsEnd == \A k \in 1..Len(fields) : Hits(Sent(k), Sentinel(k)) = {Len(fields[k]) + 1}

(* The fields that were read with their ends, up to each of them.            *)
Flat(f) ==
  /\ f \in [1..Len(fields) -> Seq(Bytes)]
  /\ \A k \in 1..Len(fields) : f[k] = IF k = 1 THEN Sent(1) ELSE f[k - 1] \o Sent(k)

Total(f) == IF Len(fields) = 0 THEN <<>> ELSE f[Len(fields)]

Accounted == \E f : Flat(f) /\ ((Total(f) \o to) \o held) \o data = input

StreamInv == StreamTypeOK /\ RoomInv /\ Scanned /\ FieldsEnd /\ Accounted

-----------------------------------------------------------------------------
(* Sentinels and where they are *)

LEMMA SentinelFacts ==
  ASSUME NEW k \in Nat
  PROVE  /\ Sentinel(k) \in Seq(Bytes) /\ Len(Sentinel(k)) \in {1, 2}
         /\ Sentinel(k) # <<>>
<1>1. <<"s">> \in Seq(Bytes) /\ Len(<<"s">>) = 1
  BY DEF Bytes
<1>2. <<"r", "n">> \in Seq(Bytes) /\ Len(<<"r", "n">>) = 2
  BY DEF Bytes
<1>3. Len(<<>>) = 0
  OBVIOUS
<1> QED BY <1>1, <1>2, <1>3 DEF Sentinel

LEMMA CurrentFacts ==
  ASSUME StreamTypeOK
  PROVE  Current \in Seq(Bytes) /\ Len(Current) \in {1, 2} /\ Len(Current) \in Nat
<1>1. Len(fields) + 1 \in Nat
  BY DEF StreamTypeOK
<1> QED BY <1>1, SentinelFacts DEF Current

(* An occurrence, byte by byte.                                              *)
LEMMA HitsAt ==
  ASSUME NEW s \in Seq(Bytes), NEW t \in Seq(Bytes)
  PROVE  \A i : i \in Hits(s, t) <=> /\ i \in 1..(Len(s) - Len(t) + 1)
                                     /\ \A m \in 1..Len(t) : s[i + m - 1] = t[m]
<1>1. Len(s) \in Nat /\ Len(t) \in Nat
  OBVIOUS
<1> SUFFICES ASSUME NEW i \in 1..(Len(s) - Len(t) + 1)
             PROVE  SubSeq(s, i, i + Len(t) - 1) = t <=> \A m \in 1..Len(t) : s[i + m - 1] = t[m]
  BY DEF Hits
<1>2. i \in Int /\ i + Len(t) - 1 \in Int
  BY <1>1
<1>3. \A j \in i..(i + Len(t) - 1) : s[j] \in Bytes
  <2>1. \A j \in i..(i + Len(t) - 1) : j \in 1..Len(s)
    BY <1>1
  <2> QED BY <2>1
<1>4. PICK u : u = SubSeq(s, i, i + Len(t) - 1)
  OBVIOUS
<1>5. /\ u \in Seq(Bytes)
      /\ Len(u) = IF i <= i + Len(t) - 1 THEN (i + Len(t) - 1) - i + 1 ELSE 0
      /\ \A m \in 1..((i + Len(t) - 1) - i + 1) : u[m] = s[i + m - 1]
  BY <1>2, <1>3, <1>4, SubSeqProperties
<1>6. Len(u) = Len(t) /\ \A m \in 1..Len(t) : u[m] = s[i + m - 1]
  BY <1>1, <1>2, <1>5
<1>7. u = t <=> \A m \in 1..Len(t) : u[m] = t[m]
  BY <1>5, <1>6, SeqEqual
<1> QED BY <1>4, <1>6, <1>7

(* The least of the numbers the model takes the minimum of.                  *)
LEMMA LeastOfTwo ==
  ASSUME NEW a \in Int, NEW b \in Int
  PROVE  Min({a, b}) \in Int /\ Min({a, b}) = IF a <= b THEN a ELSE b
<1>1. PICK n : n = IF a <= b THEN a ELSE b
  OBVIOUS
<1>2. n \in {a, b} /\ \A y \in {a, b} : n <= y
  BY <1>1
<1>3. \A x \in {a, b} : (\A y \in {a, b} : x <= y) => x = n
  BY <1>1
<1>4. Min({a, b}) = n
  BY <1>2, <1>3 DEF Min
<1> QED BY <1>1, <1>2, <1>4

LEMMA LeastOfThree ==
  ASSUME NEW a \in Int, NEW b \in Int, NEW c \in Int
  PROVE  LET n == Min({a, b, c}) IN n \in Int /\ n <= a /\ n <= b /\ n <= c
<1>1. \E x \in {a, b, c} : \A y \in {a, b, c} : x <= y
  <2>1. CASE a <= b /\ a <= c
    BY <2>1
  <2>2. CASE b <= a /\ b <= c
    BY <2>2
  <2>3. CASE c <= a /\ c <= b
    BY <2>3
  <2> QED BY <2>1, <2>2, <2>3
<1>2. Min({a, b, c}) \in {a, b, c} /\ \A y \in {a, b, c} : Min({a, b, c}) <= y
  BY <1>1 DEF Min
<1> QED BY <1>2

LEMMA FirstHit ==
  ASSUME NEW s \in Seq(Bytes), NEW t \in Seq(Bytes), Hits(s, t) # {}
  PROVE  Min(Hits(s, t)) \in Hits(s, t) /\ \A y \in Hits(s, t) : Min(Hits(s, t)) <= y
<1>1. Hits(s, t) \in SUBSET Nat
  BY DEF Hits
<1>2. \E x \in Hits(s, t) : \A y \in Hits(s, t) : x <= y
  BY <1>1, LeastElement
<1> QED BY <1>2 DEF Min

(* A sequence cut in two.                                                    *)
LEMMA Cut ==
  ASSUME NEW s \in Seq(Bytes), NEW n \in 0..Len(s)
  PROVE  LET a == SubSeq(s, 1, n)
             b == SubSeq(s, n + 1, Len(s)) IN
         /\ a \in Seq(Bytes) /\ Len(a) = n /\ \A j \in 1..n : a[j] = s[j]
         /\ b \in Seq(Bytes) /\ Len(b) = Len(s) - n /\ \A j \in 1..Len(b) : b[j] = s[n + j]
         /\ a \o b = s
<1>1. Len(s) \in Nat /\ n \in Int /\ n + 1 \in Int /\ 1 \in Int /\ 0 <= n /\ n <= Len(s)
  OBVIOUS
<1>2. \A j \in 1..Len(s) : s[j] \in Bytes
  OBVIOUS
<1>3. PICK a : a = SubSeq(s, 1, n)
  OBVIOUS
<1>4. PICK b : b = SubSeq(s, n + 1, Len(s))
  OBVIOUS
<1>5. /\ a \in Seq(Bytes) /\ Len(a) = (IF 1 <= n THEN n - 1 + 1 ELSE 0)
      /\ \A j \in 1..(n - 1 + 1) : a[j] = s[1 + j - 1]
  <2>1. \A j \in 1..n : s[j] \in Bytes
    BY <1>1, <1>2
  <2> QED BY <1>1, <1>3, <2>1, SubSeqProperties
<1>6. /\ b \in Seq(Bytes) /\ Len(b) = (IF n + 1 <= Len(s) THEN Len(s) - (n + 1) + 1 ELSE 0)
      /\ \A j \in 1..(Len(s) - (n + 1) + 1) : b[j] = s[(n + 1) + j - 1]
  <2>1. \A j \in n + 1..Len(s) : s[j] \in Bytes
    BY <1>1, <1>2
  <2> QED BY <1>1, <1>4, <2>1, SubSeqProperties
<1>7. Len(a) = n /\ \A j \in 1..n : a[j] = s[j]
  BY <1>1, <1>5
<1>8. Len(b) = Len(s) - n /\ \A j \in 1..Len(b) : b[j] = s[n + j]
  <2>1. Len(b) = Len(s) - n
    BY <1>1, <1>6
  <2>2. \A j \in 1..Len(b) : j \in 1..(Len(s) - (n + 1) + 1) /\ (n + 1) + j - 1 = n + j
    BY <1>1, <2>1
  <2> QED BY <1>6, <2>1, <2>2
<1>9. a \o b = s
  <2>0. /\ a \o b \in Seq(Bytes) /\ Len(a \o b) = Len(a) + Len(b)
        /\ \A j \in 1..(Len(a) + Len(b)) :
             (a \o b)[j] = IF j <= Len(a) THEN a[j] ELSE b[j - Len(a)]
    BY <1>5, <1>6, ConcatProperties
  <2>1. /\ a \o b \in Seq(Bytes) /\ Len(a \o b) = Len(s)
        /\ \A j \in 1..Len(s) : (a \o b)[j] = IF j <= n THEN a[j] ELSE b[j - n]
    <3>1. Len(a) + Len(b) = Len(s)
      BY <1>1, <1>7, <1>8
    <3> QED BY <1>7, <2>0, <3>1
  <2>2. ASSUME NEW j \in 1..Len(s) PROVE (a \o b)[j] = s[j]
    <3>1. CASE j <= n
      BY <1>1, <1>7, <2>1, <3>1
    <3>2. CASE ~(j <= n)
      <4>1. j - n \in 1..Len(b) /\ n + (j - n) = j
        BY <1>1, <1>8, <3>2
      <4> QED BY <1>8, <2>1, <3>2, <4>1
    <3> QED BY <3>1, <3>2
  <2> QED BY <2>1, <2>2, SeqEqual
<1> QED BY <1>3, <1>4, <1>5, <1>6, <1>7, <1>8, <1>9

(* The bytes of the field being read and of the buffer are one sequence.     *)
LEMMA BytesOfConcat ==
  ASSUME StreamTypeOK
  PROVE  /\ to \o held \in Seq(Bytes) /\ Len(to \o held) = Len(to) + Len(held)
         /\ \A j \in 1..(Len(to) + Len(held)) : (to \o held)[j] = Byte(j)
<1>1. to \in Seq(Bytes) /\ held \in Seq(Bytes)
  BY DEF StreamTypeOK
<1>2. PICK w : w = to \o held
  OBVIOUS
<1>3. /\ w \in Seq(Bytes) /\ Len(w) = Len(to) + Len(held)
      /\ \A j \in 1..(Len(to) + Len(held)) :
           w[j] = IF j <= Len(to) THEN to[j] ELSE held[j - Len(to)]
  BY <1>1, <1>2, ConcatProperties
<1> QED BY <1>2, <1>3 DEF Byte

-----------------------------------------------------------------------------
(* The fields, one after the other *)

(* FlattenSeq goes through a sequence as Flat does: the function it is       *)
(* defined by exists, for f is one, and a first place where two differed     *)
(* would not be the first.                                                   *)
LEMMA FlattenIs ==
  ASSUME NEW n \in Nat, n # 0, NEW seqs, Len(seqs) = n, NEW S, NEW f \in [1..n -> S],
         \A k \in 1..n : f[k] = IF k = 1 THEN seqs[k] ELSE f[k - 1] \o seqs[k]
  PROVE  FlattenSeq(seqs) = f[n]
<1> DEFINE Step(h) == [k \in 1..n |-> IF k = 1 THEN seqs[k] ELSE h[k - 1] \o seqs[k]]
           g == CHOOSE h : h = Step(h)
<1>1. FlattenSeq(seqs) = g[n]
  BY DEF FlattenSeq
<1>2. g = Step(g)
  <2>1. f = Step(f)
    <3>1. f = [k \in 1..n |-> f[k]]
      OBVIOUS
    <3>2. [k \in 1..n |-> f[k]] = Step(f)
      OBVIOUS
    <3> QED BY <3>1, <3>2
  <2> HIDE DEF Step
  <2> QED BY <2>1
<1>3. \A k \in 1..n : g[k] = f[k]
  <2> HIDE DEF g
  <2> DEFINE C == {k \in 1..n : g[k] # f[k]}
  <2> SUFFICES ASSUME C # {} PROVE FALSE
    OBVIOUS
  <2>1. C \in SUBSET Nat
    OBVIOUS
  <2>2. PICK k \in C : \A m \in C : k <= m
    <3> HIDE DEF C
    <3> QED BY <2>1, LeastElement
  <2>3. k \in 1..n /\ g[k] # f[k] /\ k \in Int
    OBVIOUS
  <2>4. k = 1 \/ g[k - 1] = f[k - 1]
    <3>1. ~(k <= k - 1)
      BY <2>3
    <3>2. k - 1 \notin C
      BY <2>2, <3>1
    <3>3. k # 1 => k - 1 \in 1..n
      BY <2>3
    <3> QED BY <3>2, <3>3
  <2> HIDE DEF C
  <2>5. g[k] = IF k = 1 THEN seqs[k] ELSE g[k - 1] \o seqs[k]
    BY <1>2, <2>3
  <2>6. f[k] = IF k = 1 THEN seqs[k] ELSE f[k - 1] \o seqs[k]
    BY <2>3
  <2> QED BY <2>3, <2>4, <2>5, <2>6
<1>4. n \in 1..n
  OBVIOUS
<1> QED BY <1>1, <1>3, <1>4

LEMMA SentFacts ==
  ASSUME StreamTypeOK, NEW k \in 1..Len(fields)
  PROVE  /\ fields[k] \in Seq(Bytes)
         /\ Sent(k) = fields[k] \o Sentinel(k) /\ Sent(k) \in Seq(Bytes)
<1>1. fields \in Seq(Seq(Bytes))
  BY DEF StreamTypeOK
<1>2. Len(fields) \in Nat /\ k \in Nat /\ k # 0 /\ fields[k] \in Seq(Bytes)
  BY <1>1
<1>3. Sentinel(k) \in Seq(Bytes)
  BY <1>2, SentinelFacts
<1>4. fields[k] \o Sentinel(k) \in Seq(Bytes)
  BY <1>2, <1>3, ConcatProperties
<1> QED BY <1>2, <1>4 DEF Sent

LEMMA TotalFacts ==
  ASSUME StreamTypeOK, NEW f, Flat(f)
  PROVE  /\ Total(f) \in Seq(Bytes)
         /\ FlattenSeq([k \in 1..Len(fields) |-> Sent(k)]) = Total(f)
<1>1. PICK n \in Nat : n = Len(fields)
  BY DEF StreamTypeOK
<1>2. PICK seqs : seqs = [k \in 1..n |-> Sent(k)]
  OBVIOUS
<1>3. \A k \in 1..n : seqs[k] = Sent(k) /\ Sent(k) \in Seq(Bytes)
  BY <1>1, <1>2, SentFacts
<1>4. seqs \in Seq(Seq(Bytes)) /\ Len(seqs) = n
  BY <1>2, <1>3
<1>5. CASE n = 0
  <2>1. Len(seqs) = 0 /\ Total(f) = <<>> /\ <<>> \in Seq(Bytes)
    BY <1>1, <1>4, <1>5 DEF Total
  <2>2. seqs = <<>>
    BY <1>4, <2>1, EmptySeq
  <2>3. FlattenSeq(seqs) = seqs
    BY <2>1 DEF FlattenSeq
  <2> QED BY <1>1, <1>2, <2>1, <2>2, <2>3
<1>6. CASE n # 0
  <2>1. f \in [1..n -> Seq(Bytes)]
    BY <1>1 DEF Flat
  <2>2. \A k \in 1..n : f[k] = IF k = 1 THEN seqs[k] ELSE f[k - 1] \o seqs[k]
    BY <1>1, <1>3 DEF Flat
  <2>3. FlattenSeq(seqs) = f[n]
    <3>1. Len(seqs) = n /\ n \in Nat /\ n # 0
      BY <1>1, <1>4, <1>6
    <3> QED BY ONLY <2>1, <2>2, <3>1, FlattenIs, ZenonT(60)
  <2>4. n \in 1..n
    BY <1>6
  <2> QED BY <1>1, <1>2, <1>6, <2>1, <2>3, <2>4 DEF Total
<1> QED BY <1>5, <1>6

-----------------------------------------------------------------------------
(* consume() has found the end of the field *)

(* What FindField does to the sequences.                                     *)
LEMMA FindFieldEffect ==
  ASSUME StreamTypeOK, FindField
  PROVE  \E i, before, field, rest :
           /\ Len(held) \in Nat /\ Len(to) \in Nat /\ Len(fields) \in Nat
           /\ i \in 1..(Len(held) - Len(Current) + 1)
           /\ \A m \in 1..Len(Current) : held[i + m - 1] = Current[m]
           /\ \A y \in Hits(held, Current) : i <= y
           /\ before \in Seq(Bytes) /\ Len(before) = i - 1
           /\ \A j \in 1..(i - 1) : before[j] = held[j]
           /\ field = to \o before /\ field \in Seq(Bytes)
           /\ rest \in Seq(Bytes) /\ Len(rest) = Len(held) - (i + Len(Current) - 1)
           /\ held = (before \o Current) \o rest
           /\ fields' = Append(fields, field)
           /\ held' = rest /\ to' = <<>>
           /\ it' = it + i + Len(Current) - 1
           /\ reader' \in {"reading", "done"} /\ reader = "reading"
           /\ UNCHANGED <<feed, registered>>
<1>1. /\ held \in Seq(Bytes) /\ to \in Seq(Bytes) /\ it \in Nat
      /\ Len(held) \in Nat /\ Len(to) \in Nat /\ Len(fields) \in Nat
  BY DEF StreamTypeOK
<1>2. Current \in Seq(Bytes) /\ Len(Current) \in {1, 2} /\ Len(Current) \in Nat
  BY CurrentFacts
<1>3. PICK i : i = Min(Hits(held, Current))
  OBVIOUS
<1>4. i \in Hits(held, Current) /\ \A y \in Hits(held, Current) : i <= y
  BY <1>1, <1>2, <1>3, FirstHit DEF FindField
<1>5. /\ i \in 1..(Len(held) - Len(Current) + 1)
      /\ \A m \in 1..Len(Current) : held[i + m - 1] = Current[m]
      /\ SubSeq(held, i, i + Len(Current) - 1) = Current
  <2>1. /\ i \in 1..(Len(held) - Len(Current) + 1)
        /\ \A m \in 1..Len(Current) : held[i + m - 1] = Current[m]
    BY <1>1, <1>2, <1>4, HitsAt
  <2>2. SubSeq(held, i, i + Len(Current) - 1) = Current
    BY <1>4 DEF Hits
  <2> QED BY <2>1, <2>2
<1>6. PICK before : before = SubSeq(held, 1, i - 1)
  OBVIOUS
<1>7. i - 1 \in 0..Len(held) /\ i \in Int
  BY <1>1, <1>2, <1>5
<1>8. before \in Seq(Bytes) /\ Len(before) = i - 1 /\ \A j \in 1..(i - 1) : before[j] = held[j]
  BY <1>1, <1>6, <1>7, Cut
<1>9. PICK e : e = i + Len(Current) - 1
  OBVIOUS
<1>10. e \in 0..Len(held) /\ e + 1 = i + Len(Current) /\ e \in Int
  BY <1>1, <1>2, <1>5, <1>7, <1>9
<1>11. PICK rest : rest = SubSeq(held, e + 1, Len(held))
  OBVIOUS
<1>12. rest \in Seq(Bytes) /\ Len(rest) = Len(held) - e /\ SubSeq(held, 1, e) \o rest = held
  BY <1>1, <1>10, <1>11, Cut
<1>13. before \o Current = SubSeq(held, 1, e)
  <2>1. PICK k : k = i - 1
    OBVIOUS
  <2>2. 1 \in 1..Len(held) + 1 /\ k \in 1 - 1..Len(held) /\ e \in k..Len(held) /\ k + 1 = i
    BY <1>1, <1>2, <1>5, <1>7, <1>9, <1>10, <2>1
  <2>3. SubSeq(held, 1, k) \o SubSeq(held, k + 1, e) = SubSeq(held, 1, e)
    BY <1>1, <2>2, ConcatAdjacentSubSeq
  <2> QED BY <1>5, <1>6, <1>9, <2>1, <2>2, <2>3
<1>14. PICK field : field = to \o before
  OBVIOUS
<1>15. field \in Seq(Bytes)
  BY <1>1, <1>8, <1>14, ConcatProperties
<1>16. fields' = Append(fields, field) /\ held' = rest
  BY <1>3, <1>6, <1>10, <1>11, <1>14 DEF FindField
<1>17. it' = it + i + Len(Current) - 1
  BY <1>1, <1>2, <1>3, <1>7 DEF FindField
<1>18. /\ to' = <<>> /\ reader' \in {"reading", "done"} /\ reader = "reading"
       /\ UNCHANGED <<feed, registered>>
  BY DEF FindField
<1>19. Len(rest) = Len(held) - (i + Len(Current) - 1) /\ held = (before \o Current) \o rest
  BY <1>9, <1>12, <1>13
<1> QED BY <1>1, <1>4, <1>5, <1>8, <1>14, <1>15, <1>12, <1>16, <1>17, <1>18, <1>19

(* The field and the end that was found are the bytes that were there.       *)
LEMMA EndBytes ==
  ASSUME StreamTypeOK, NEW i \in Nat, i # 0, NEW C \in Seq(Bytes), NEW before \in Seq(Bytes),
         Len(before) = i - 1, \A j \in 1..(i - 1) : before[j] = held[j],
         \A m \in 1..Len(C) : held[i + m - 1] = C[m]
  PROVE  LET w == (to \o before) \o C IN
         /\ w \in Seq(Bytes) /\ Len(w) = Len(to) + (i - 1) + Len(C)
         /\ \A j \in 1..(Len(to) + (i - 1) + Len(C)) : w[j] = Byte(j)
<1>1. to \in Seq(Bytes) /\ Len(to) \in Nat /\ Len(C) \in Nat
  BY DEF StreamTypeOK
<1>2. PICK field : field = to \o before
  OBVIOUS
<1>3. /\ field \in Seq(Bytes) /\ Len(field) = Len(to) + Len(before)
      /\ \A j \in 1..(Len(to) + Len(before)) :
           field[j] = IF j <= Len(to) THEN to[j] ELSE before[j - Len(to)]
  BY <1>1, <1>2, ConcatProperties
<1>4. PICK w : w = field \o C
  OBVIOUS
<1>5. /\ w \in Seq(Bytes) /\ Len(w) = Len(field) + Len(C)
      /\ \A j \in 1..(Len(field) + Len(C)) :
           w[j] = IF j <= Len(field) THEN field[j] ELSE C[j - Len(field)]
  BY <1>3, <1>4, ConcatProperties
<1>6. Len(field) = Len(to) + (i - 1)
  BY <1>3
<1>7. ASSUME NEW j \in 1..(Len(to) + (i - 1) + Len(C)) PROVE w[j] = Byte(j)
  <2>1. CASE j <= Len(to)
    <3>1. j \in 1..(Len(field) + Len(C)) /\ j <= Len(field) /\ j \in 1..(Len(to) + Len(before))
      BY <1>1, <1>6, <2>1
    <3>2. w[j] = field[j] /\ field[j] = to[j]
      BY <1>3, <1>5, <2>1, <3>1
    <3> QED BY <2>1, <3>2 DEF Byte
  <2>2. CASE ~(j <= Len(to)) /\ j <= Len(field)
    <3>1. /\ j \in 1..(Len(field) + Len(C)) /\ j \in 1..(Len(to) + Len(before))
          /\ j - Len(to) \in 1..(i - 1)
      BY <1>1, <1>6, <2>2
    <3>2. w[j] = field[j] /\ field[j] = before[j - Len(to)]
      BY <1>3, <1>5, <2>2, <3>1
    <3> QED BY <2>2, <3>1, <3>2 DEF Byte
  <2>3. CASE ~(j <= Len(field))
    <3>1. PICK m : m = j - Len(field)
      OBVIOUS
    <3>2. /\ m \in 1..Len(C) /\ i + m - 1 = j - Len(to) /\ ~(j <= Len(to))
          /\ j \in 1..(Len(field) + Len(C))
      BY <1>1, <1>6, <2>3, <3>1
    <3>3. w[j] = C[m]
      BY <1>5, <2>3, <3>1, <3>2
    <3>4. C[m] = held[j - Len(to)]
      BY <3>2
    <3> QED BY <3>2, <3>3, <3>4 DEF Byte
  <2> QED BY <2>1, <2>2, <2>3
<1>8. Len(w) = Len(to) + (i - 1) + Len(C)
  BY <1>5, <1>6
<1> QED BY <1>2, <1>4, <1>5, <1>7, <1>8

(* The end is the first place in the field and behind it that looks like it: *)
(* not in what was taken before, and not in the buffer before it.            *)
LEMMA FirstEnd ==
  ASSUME StreamTypeOK, Scanned, NEW i \in 1..(Len(held) - Len(Current) + 1),
         NEW before \in Seq(Bytes),
         Len(before) = i - 1, \A j \in 1..(i - 1) : before[j] = held[j],
         \A m \in 1..Len(Current) : held[i + m - 1] = Current[m],
         \A y \in Hits(held, Current) : i <= y
  PROVE  Hits((to \o before) \o Current, Current) = {Len(to \o before) + 1}
<1>1. /\ to \in Seq(Bytes) /\ held \in Seq(Bytes) /\ Len(to) \in Nat /\ Len(held) \in Nat
      /\ i \in Nat /\ i # 0
  BY CurrentFacts DEF StreamTypeOK
<1>2. PICK C \in Seq(Bytes) : C = Current /\ Len(C) \in Nat
  BY CurrentFacts
<1>3. PICK w : w = (to \o before) \o C
  OBVIOUS
<1>4. /\ w \in Seq(Bytes) /\ Len(w) = Len(to) + (i - 1) + Len(C)
      /\ \A j \in 1..(Len(to) + (i - 1) + Len(C)) : w[j] = Byte(j)
  <2>1. \A m \in 1..Len(C) : held[i + m - 1] = C[m]
    BY <1>2
  <2>2. LET v == (to \o before) \o C IN
        /\ v \in Seq(Bytes) /\ Len(v) = Len(to) + (i - 1) + Len(C)
        /\ \A j \in 1..(Len(to) + (i - 1) + Len(C)) : v[j] = Byte(j)
    BY <1>1, <2>1, EndBytes
  <2> QED BY <1>3, <2>2
<1>5. Len(to \o before) + 1 = Len(to) + i
  <2>1. Len(to \o before) = Len(to) + Len(before)
    BY <1>1, ConcatProperties
  <2> QED BY <1>1, <2>1
<1>6. \A y : y \in Hits(w, C) <=> /\ y \in 1..(Len(w) - Len(C) + 1)
                                  /\ \A m \in 1..Len(C) : w[y + m - 1] = C[m]
  BY <1>2, <1>4, HitsAt
<1>7. Len(w) - Len(C) + 1 = Len(to) + i
  BY SMTT(30), <1>1, <1>2, <1>4
<1>8. Len(to) + i \in Hits(w, C)
  <2>1. ASSUME NEW m \in 1..Len(C) PROVE w[(Len(to) + i) + m - 1] = C[m]
    <3>1. PICK j : j = (Len(to) + i) + m - 1
      OBVIOUS
    <3>2. j \in 1..(Len(to) + (i - 1) + Len(C)) /\ ~(j <= Len(to)) /\ j - Len(to) = i + m - 1
      BY <1>1, <1>2, <3>1
    <3>3. w[j] = held[i + m - 1]
      BY <1>4, <3>2 DEF Byte
    <3> QED BY <1>2, <3>1, <3>3
  <2>2. Len(to) + i \in 1..(Len(w) - Len(C) + 1)
    BY <1>1, <1>7
  <2> QED BY <1>6, <2>1, <2>2
<1>9. ASSUME NEW y \in Hits(w, C), y # Len(to) + i PROVE FALSE
  <2>1. y \in 1..(Len(to) + i - 1) /\ \A m \in 1..Len(C) : w[y + m - 1] = C[m]
    <3>1. y \in 1..(Len(w) - Len(C) + 1) /\ \A m \in 1..Len(C) : w[y + m - 1] = C[m]
      BY <1>6
    <3>2. y \in 1..(Len(to) + i)
      BY <1>7, <3>1
    <3>3. y \in 1..(Len(to) + i - 1)
      BY <1>1, <1>9, <3>2
    <3> QED BY <3>1, <3>3
  <2>2. \A m \in 1..Len(C) : Byte(y + m - 1) = C[m]
    <3> TAKE m \in 1..Len(C)
    <3>1. y + m - 1 \in 1..(Len(to) + (i - 1) + Len(C))
      BY <1>1, <1>2, <2>1
    <3> QED BY <1>4, <2>1, <3>1
  <2>3. CASE y <= Len(to)
    <3>1. y \in 1..Len(to)
      BY <1>1, <2>1, <2>3
    <3> QED BY <1>2, <2>2, <3>1 DEF Scanned
  <2>4. CASE ~(y <= Len(to))
    <3>1. PICK z : z = y - Len(to)
      OBVIOUS
    <3>2. z \in 1..(Len(held) - Len(C) + 1) /\ ~(i <= z)
      BY <1>1, <1>2, <2>1, <2>4, <3>1
    <3>3. \A m \in 1..Len(C) : held[z + m - 1] = C[m]
      <4> TAKE m \in 1..Len(C)
      <4>1. PICK j : j = y + m - 1
        OBVIOUS
      <4>2. ~(j <= Len(to)) /\ j - Len(to) = z + m - 1
        <5>1. Len(to) \in Nat /\ z \in Nat /\ z >= 1 /\ y = Len(to) + z
          BY <1>1, <2>1, <2>4, <3>1, <3>2
        <5>2. m \in Nat /\ m >= 1
          BY <1>2
        <5>3. j = Len(to) + (z + m - 1)
          BY <4>1, <5>1, <5>2
        <5> QED BY <5>1, <5>2, <5>3
      <4>3. Byte(j) = held[z + m - 1]
        BY <4>2 DEF Byte
      <4> QED BY <2>2, <4>1, <4>3
    <3>4. z \in Hits(held, C)
      BY <1>1, <1>2, <3>2, <3>3, HitsAt
    <3> QED BY <1>2, <3>2, <3>4
  <2> QED BY <2>3, <2>4
<1> QED BY <1>2, <1>3, <1>5, <1>8, <1>9

LEMMA Associative ==
  ASSUME NEW a, NEW b, NEW c, a \in Seq(Bytes), b \in Seq(Bytes), c \in Seq(Bytes)
  PROVE  (a \o b) \o c = a \o (b \o c) /\ a \o b \in Seq(Bytes) /\ b \o c \in Seq(Bytes)
BY ConcatAssociative, ConcatProperties

LEMMA FindFieldTypeOK ==
  ASSUME StreamTypeOK, FindField
  PROVE  StreamTypeOK'
<1>1. PICK i, before, field, rest :
        /\ Len(held) \in Nat
        /\ i \in 1..(Len(held) - Len(Current) + 1)
        /\ field \in Seq(Bytes)
        /\ rest \in Seq(Bytes)
        /\ fields' = Append(fields, field)
        /\ held' = rest /\ to' = <<>>
        /\ it' = it + i + Len(Current) - 1
        /\ reader' \in {"reading", "done"}
        /\ UNCHANGED <<feed, registered>>
  BY SMTT(30), FindFieldEffect
<1>2. it' \in Nat
  <2>1. it \in Nat /\ i \in Nat /\ i # 0 /\ Len(Current) \in Nat
    BY <1>1, CurrentFacts DEF StreamTypeOK
  <2> QED BY <1>1, <2>1
<1>3. fields' \in Seq(Seq(Bytes))
  BY <1>1, AppendProperties DEF StreamTypeOK
<1>4. to' \in Seq(Bytes)
  BY <1>1
<1> QED BY <1>1, <1>2, <1>3, <1>4 DEF StreamTypeOK, feed

LEMMA FindFieldRoom ==
  ASSUME StreamTypeOK, RoomInv, FindField
  PROVE  RoomInv'
<1>1. PICK i, rest :
        /\ Len(held) \in Nat
        /\ i \in 1..(Len(held) - Len(Current) + 1)
        /\ Len(rest) = Len(held) - (i + Len(Current) - 1)
        /\ held' = rest
        /\ it' = it + i + Len(Current) - 1
        /\ reader = "reading"
        /\ UNCHANGED registered
  BY FindFieldEffect
<1>2. it' + Len(held') = it + Len(held)
  <2>1. it \in Nat /\ Len(Current) \in Nat
    BY CurrentFacts DEF StreamTypeOK
  <2> QED BY <1>1, <2>1
<1> QED BY <1>1, <1>2 DEF RoomInv

LEMMA FindFieldScanned ==
  ASSUME FindField
  PROVE  Scanned'
<1>1. to' = <<>>
  BY DEF FindField
<1>2. Len(to') = 0 /\ ~(\E i : i \in 1..0)
  BY <1>1
<1> QED BY <1>2 DEF Scanned

(* The field that was read ends like those before it.                        *)
LEMMA FindFieldEnd ==
  ASSUME StreamTypeOK, Scanned, FieldsEnd, FindField
  PROVE  FieldsEnd'
<1>1. PICK i, before, field, rest :
        /\ Len(fields) \in Nat
        /\ i \in 1..(Len(held) - Len(Current) + 1)
        /\ \A m \in 1..Len(Current) : held[i + m - 1] = Current[m]
        /\ \A y \in Hits(held, Current) : i <= y
        /\ before \in Seq(Bytes) /\ Len(before) = i - 1
        /\ \A j \in 1..(i - 1) : before[j] = held[j]
        /\ field = to \o before /\ field \in Seq(Bytes)
        /\ fields' = Append(fields, field)
  BY ZenonT(60), FindFieldEffect
<1>2. PICK n \in Nat : n = Len(fields)
  BY <1>1
<1>3. Hits(field \o Current, Current) = {Len(field) + 1}
  BY <1>1, FirstEnd
<1>4. /\ Len(fields') = n + 1 /\ fields'[n + 1] = field
      /\ \A k \in 1..n : fields'[k] = fields[k]
  <2>1. fields \in Seq(Seq(Bytes))
    BY DEF StreamTypeOK
  <2> QED BY <1>1, <1>2, <2>1, AppendProperties
<1>5. \A k \in 1..n + 1 : k # 0 /\ (k = n + 1 \/ k \in 1..n)
  BY <1>2
<1>6. ASSUME NEW k \in 1..n PROVE Hits(fields'[k] \o Sentinel(k), Sentinel(k)) = {Len(fields'[k]) + 1}
  <2>1. Hits(fields[k] \o Sentinel(k), Sentinel(k)) = {Len(fields[k]) + 1}
    BY <1>2, SentFacts DEF FieldsEnd
  <2> QED BY <1>4, <2>1
<1>7. Hits(fields'[n + 1] \o Sentinel(n + 1), Sentinel(n + 1)) = {Len(fields'[n + 1]) + 1}
  BY <1>2, <1>3, <1>4 DEF Current
<1>8. \A k \in 1..n + 1 : Hits(fields'[k] \o Sentinel(k), Sentinel(k)) = {Len(fields'[k]) + 1}
  BY <1>5, <1>6, <1>7
<1>9. \A k \in 1..n + 1 : Sent(k)' = fields'[k] \o Sentinel(k)
  BY <1>5 DEF Sent
<1> QED BY <1>4, <1>8, <1>9 DEF FieldsEnd

(* Nothing is lost or repeated: the bytes go from the buffer to the fields.  *)
LEMMA FindFieldAccounted ==
  ASSUME StreamTypeOK, Accounted, FindField
  PROVE  Accounted'
<1>1. PICK before, field, rest :
        /\ Len(fields) \in Nat
        /\ before \in Seq(Bytes)
        /\ field = to \o before /\ field \in Seq(Bytes)
        /\ rest \in Seq(Bytes)
        /\ held = (before \o Current) \o rest
        /\ fields' = Append(fields, field)
        /\ held' = rest /\ to' = <<>>
        /\ UNCHANGED feed
  BY ZenonT(60), FindFieldEffect
<1>2. PICK n \in Nat : n = Len(fields)
  BY <1>1
<1>3. PICK f : Flat(f) /\ ((Total(f) \o to) \o held) \o data = input
  BY DEF Accounted
<1>4. /\ Total(f) \in Seq(Bytes) /\ Current \in Seq(Bytes) /\ Current = Sentinel(n + 1)
      /\ to \in Seq(Bytes) /\ data \in Seq(Bytes)
  BY <1>2, <1>3, TotalFacts, CurrentFacts DEF StreamTypeOK, Current
<1>5. /\ Len(fields') = n + 1 /\ fields'[n + 1] = field
      /\ \A k \in 1..n : fields'[k] = fields[k]
  <2>1. fields \in Seq(Seq(Bytes))
    BY DEF StreamTypeOK
  <2> QED BY <1>1, <1>2, <2>1, AppendProperties
<1>6. PICK last : last = Total(f) \o (field \o Current)
  OBVIOUS
<1>7. field \o Current \in Seq(Bytes) /\ last \in Seq(Bytes)
  BY <1>1, <1>4, <1>6, ConcatProperties
<1>8. PICK h : h = [k \in 1..n + 1 |-> IF k <= n THEN f[k] ELSE last]
  OBVIOUS
<1>9. f \in [1..n -> Seq(Bytes)]
      /\ \A k \in 1..n : f[k] = IF k = 1 THEN Sent(1) ELSE f[k - 1] \o Sent(k)
  BY <1>2, <1>3 DEF Flat
<1>10. \A k \in 1..n + 1 : k \in Nat /\ k # 0 /\ (k = n + 1 \/ k \in 1..n) /\ (k <= n <=> k \in 1..n)
  BY <1>2
<1>11. h \in [1..n + 1 -> Seq(Bytes)] /\ h[n + 1] = last /\ \A k \in 1..n : h[k] = f[k]
  <2>1. \A k \in 1..n + 1 : (IF k <= n THEN f[k] ELSE last) \in Seq(Bytes)
    BY <1>7, <1>9, <1>10
  <2>2. h \in [1..n + 1 -> Seq(Bytes)]
    BY <1>8, <2>1
  <2>3. n + 1 \in 1..n + 1 /\ ~(n + 1 <= n) /\ \A k \in 1..n : k \in 1..n + 1 /\ k <= n
    BY <1>2
  <2> QED BY <1>8, <2>2, <2>3
<1>12. \A k \in 1..n : Sent(k)' = Sent(k)
  BY <1>5, <1>10 DEF Sent
<1>13. Sent(n + 1)' = field \o Current
  BY <1>2, <1>4, <1>5 DEF Sent
<1>14. ASSUME NEW k \in 1..n + 1
       PROVE  h[k] = IF k = 1 THEN Sent(1)' ELSE h[k - 1] \o Sent(k)'
  <2>1. CASE k \in 1..n
    <3>1. k # 1 => k - 1 \in 1..n
      BY <1>2, <2>1
    <3>2. h[k] = f[k] /\ (k # 1 => h[k - 1] = f[k - 1])
      BY <1>11, <2>1, <3>1
    <3>3. Sent(k)' = Sent(k)
      BY <1>12, <2>1
    <3>4. k = 1 => Sent(1)' = Sent(1)
      BY <3>3
    <3> QED BY <1>9, <2>1, <3>2, <3>3, <3>4
  <2>2. CASE k = n + 1 /\ n = 0
    <3>1. Total(f) = <<>> /\ k = 1
      BY <1>2, <2>2 DEF Total
    <3>2. last = field \o Current
      BY <1>6, <1>7, <3>1, ConcatEmptySeq
    <3> QED BY <1>11, <1>13, <2>2, <3>1, <3>2
  <2>3. CASE k = n + 1 /\ n # 0
    <3>1. k # 1 /\ k - 1 = n /\ n \in 1..n
      BY <1>2, <2>3
    <3>2. Total(f) = h[n]
      BY <1>2, <1>11, <2>3, <3>1 DEF Total
    <3>3. h[k] = h[k - 1] \o (field \o Current)
      BY <1>6, <1>11, <2>3, <3>1, <3>2
    <3> QED BY <1>13, <2>3, <3>1, <3>3
  <2> QED BY <1>10, <2>1, <2>2, <2>3
<1>15. Flat(h)'
  BY <1>5, <1>11, <1>14 DEF Flat
<1>16. Total(h)' = last
  <2>1. n + 1 # 0
    BY <1>2
  <2> QED BY <1>5, <1>11, <2>1 DEF Total
<1>17. ((last \o <<>>) \o rest) \o data = input
  <2>1. last \o <<>> = last
    BY <1>7, ConcatEmptySeq
  <2>2. (Total(f) \o ((to \o before) \o Current)) \o rest
          = (Total(f) \o to) \o ((before \o Current) \o rest)
    <3>1. PICK total : total = Total(f)
      OBVIOUS
    <3>2. PICK C : C = Current
      OBVIOUS
    <3>3. total \in Seq(Bytes) /\ to \in Seq(Bytes)
      BY <1>4, <3>1
    <3>4. to \in Seq(Bytes) /\ before \in Seq(Bytes) /\ C \in Seq(Bytes)
      BY <1>1, <1>4, <3>2
    <3>5. (to \o before) \o C = to \o (before \o C) /\ before \o C \in Seq(Bytes)
      BY ONLY <3>4, Associative
    <3>6. PICK p : p = before \o C
      OBVIOUS
    <3>7. p \in Seq(Bytes) /\ rest \in Seq(Bytes)
      BY <1>1, <3>5, <3>6
    <3>8. (total \o to) \o p = total \o (to \o p) /\ total \o to \in Seq(Bytes)
      BY ONLY <3>3, <3>7, Associative
    <3>9. PICK q : q = total \o to
      OBVIOUS
    <3>10. q \in Seq(Bytes)
      BY ONLY <3>8, <3>9
    <3>11. (q \o p) \o rest = q \o (p \o rest)
      BY ONLY SMTT(30), <3>7, <3>10, Associative
    <3>12. (total \o ((to \o before) \o C)) \o rest = (total \o to) \o ((before \o C) \o rest)
      BY ONLY <3>5, <3>6, <3>8, <3>9, <3>11
    <3> QED BY <3>1, <3>2, <3>12
  <2>3. last \o rest = (Total(f) \o to) \o held
    BY <1>1, <1>6, <2>2
  <2> QED BY <1>3, <2>1, <2>3
<1>18. ((Total(h)' \o to') \o held') \o data' = input'
  BY <1>1, <1>16, <1>17 DEF feed
<1> QED BY <1>15, <1>18 DEF Accounted

-----------------------------------------------------------------------------
(* Bytes that move between the field, the buffer and the rest *)

LEMMA FieldsFrame ==
  ASSUME UNCHANGED fields
  PROVE  /\ FieldsEnd => FieldsEnd'
         /\ Current' = Current
         /\ \A f : (Flat(f) => Flat(f)') /\ Total(f)' = Total(f)
<1>1. \A k : Sent(k)' = Sent(k)
  BY DEF Sent
<1>2. FieldsEnd => FieldsEnd'
  BY <1>1 DEF FieldsEnd
<1>3. \A f : (Flat(f) => Flat(f)') /\ Total(f)' = Total(f)
  BY <1>1 DEF Flat, Total
<1> QED BY <1>2, <1>3 DEF Current

LEMMA AccountedMove ==
  ASSUME StreamTypeOK, StreamTypeOK', Accounted, UNCHANGED <<fields, input>>,
         (to' \o held') \o data' = (to \o held) \o data
  PROVE  Accounted'
<1>1. PICK f : Flat(f) /\ ((Total(f) \o to) \o held) \o data = input
  BY DEF Accounted
<1>2. PICK total : total = Total(f)
  OBVIOUS
<1>3. total \in Seq(Bytes)
  BY <1>1, <1>2, TotalFacts
<1>4. to \in Seq(Bytes) /\ held \in Seq(Bytes) /\ data \in Seq(Bytes)
  BY DEF StreamTypeOK
<1>5. to' \in Seq(Bytes) /\ held' \in Seq(Bytes) /\ data' \in Seq(Bytes)
  BY DEF StreamTypeOK
<1>6. ((total \o to) \o held) \o data = total \o ((to \o held) \o data)
  <2>1. total \in Seq(Bytes) /\ to \in Seq(Bytes) /\ held \in Seq(Bytes)
    BY <1>3, <1>4
  <2>2. (total \o to) \o held = total \o (to \o held) /\ to \o held \in Seq(Bytes)
    BY ONLY <2>1, Associative
  <2>3. PICK p : p = to \o held
    OBVIOUS
  <2>4. total \in Seq(Bytes) /\ p \in Seq(Bytes) /\ data \in Seq(Bytes)
    BY <1>3, <1>4, <2>2, <2>3
  <2>5. (total \o p) \o data = total \o (p \o data)
    BY ONLY <2>4, Associative
  <2> QED BY ONLY <2>2, <2>3, <2>5
<1>7. ((total \o to') \o held') \o data' = total \o ((to' \o held') \o data')
  <2>1. total \in Seq(Bytes) /\ to' \in Seq(Bytes) /\ held' \in Seq(Bytes)
    BY <1>3, <1>5
  <2>2. (total \o to') \o held' = total \o (to' \o held') /\ to' \o held' \in Seq(Bytes)
    BY ONLY <2>1, Associative
  <2>3. PICK p : p = to' \o held'
    OBVIOUS
  <2>4. total \in Seq(Bytes) /\ p \in Seq(Bytes) /\ data' \in Seq(Bytes)
    BY <1>3, <1>5, <2>2, <2>3
  <2>5. (total \o p) \o data' = total \o (p \o data')
    BY ONLY <2>4, Associative
  <2> QED BY ONLY <2>2, <2>3, <2>5
<1>8. ((total \o to') \o held') \o data' = input
  BY <1>1, <1>2, <1>6, <1>7
<1>9. Flat(f)' /\ Total(f)' = total
  BY <1>1, <1>2, FieldsFrame
<1>10. ((Total(f)' \o to') \o held') \o data' = input'
  BY <1>8, <1>9
<1> QED BY <1>9, <1>10 DEF Accounted

(* The reader takes what cannot be the beginning of the end, and waits.      *)
LEMMA StartReceiveEffect ==
  ASSUME StreamTypeOK, StartReceive
  PROVE  \E t \in Nat, front \in Seq(Bytes), back \in Seq(Bytes) :
           /\ t <= Len(held) /\ Len(held) - t <= 3
           /\ t # 0 => t + Len(Current) - 1 <= Len(held)
           /\ Len(front) = t /\ \A j \in 1..t : front[j] = held[j]
           /\ Len(back) = Len(held) - t /\ \A j \in 1..Len(back) : back[j] = held[t + j]
           /\ front \o back = held
           /\ to' = to \o front /\ held' = back
           /\ it' = IF BufferSize - (it + Len(held)) < BufferSize \div 2 THEN 0 ELSE it + t
<1>1. held \in Seq(Bytes) /\ Len(held) \in Nat
  BY DEF StreamTypeOK
<1>2. Len(Current) \in {1, 2}
  BY CurrentFacts
<1>3. PICK kept : kept = Kept
  OBVIOUS
<1>4. kept \in Nat /\ kept <= Len(held) /\ kept <= 3
      /\ (kept # Len(held) => kept >= Len(Current) - 1)
  <2>1. CASE Len(Current) = 1
    BY <1>1, <1>3, <2>1 DEF Kept
  <2>2. CASE Len(Current) = 2
    <3>1. kept = Min({Len(held), 3})
      BY <1>3, <2>2 DEF Kept
    <3>2. Min({Len(held), 3}) = IF Len(held) <= 3 THEN Len(held) ELSE 3
      BY <1>1, LeastOfTwo
    <3> QED BY <1>1, <2>2, <3>1, <3>2
  <2> QED BY <1>2, <2>1, <2>2
<1>5. PICK t : t = Len(held) - kept
  OBVIOUS
<1>6. /\ t \in Nat /\ t \in 0..Len(held) /\ t <= Len(held) /\ Len(held) - t <= 3
      /\ t # 0 => t + Len(Current) - 1 <= Len(held)
  BY <1>1, <1>2, <1>4, <1>5
<1>7. PICK front : front = SubSeq(held, 1, t)
  OBVIOUS
<1>8. PICK back : back = SubSeq(held, t + 1, Len(held))
  OBVIOUS
<1>9. /\ front \in Seq(Bytes) /\ Len(front) = t /\ \A j \in 1..t : front[j] = held[j]
      /\ back \in Seq(Bytes) /\ Len(back) = Len(held) - t
      /\ \A j \in 1..Len(back) : back[j] = held[t + j]
      /\ front \o back = held
  BY <1>1, <1>6, <1>7, <1>8, Cut
<1>10. /\ to' = to \o front /\ held' = back
       /\ it' = IF BufferSize - (it + Len(held)) < BufferSize \div 2 THEN 0 ELSE it + t
  BY <1>3, <1>5, <1>7, <1>8 DEF StartReceive, Compacts
<1> QED BY <1>6, <1>9, <1>10

LEMMA StartReceiveTypeOK ==
  ASSUME StreamTypeOK, StartReceive
  PROVE  StreamTypeOK'
<1>1. PICK t \in Nat, front \in Seq(Bytes), back \in Seq(Bytes) :
        /\ to' = to \o front /\ held' = back
        /\ it' = IF BufferSize - (it + Len(held)) < BufferSize \div 2 THEN 0 ELSE it + t
  BY StartReceiveEffect
<1>2. to' \in Seq(Bytes) /\ held' \in Seq(Bytes)
  BY <1>1, ConcatProperties DEF StreamTypeOK
<1>3. it' \in Nat
  BY <1>1 DEF StreamTypeOK
<1>4. /\ reader' = "receiving" /\ registered' = TRUE
      /\ UNCHANGED <<input, chunk, data, fields>>
  BY DEF StartReceive, feed
<1> QED BY <1>2, <1>3, <1>4 DEF StreamTypeOK

(* When little room is left, what is kept moves to the front of the buffer.  *)
LEMMA StartReceiveRoom ==
  ASSUME StreamTypeOK, RoomInv, StartReceive
  PROVE  RoomInv'
<1>1. PICK t \in Nat, back \in Seq(Bytes) :
        /\ t <= Len(held) /\ Len(held) - t <= 3
        /\ Len(back) = Len(held) - t /\ held' = back
        /\ it' = IF BufferSize - (it + Len(held)) < BufferSize \div 2 THEN 0 ELSE it + t
  BY StartReceiveEffect
<1>2. it \in Nat /\ Len(held) \in Nat /\ BufferSize \in Nat /\ BufferSize > 3
  BY BufferAssumption DEF StreamTypeOK
<1>3. it' + Len(held') < BufferSize
  <2>1. CASE BufferSize - (it + Len(held)) < BufferSize \div 2
    BY <1>1, <1>2, <2>1
  <2>2. CASE ~(BufferSize - (it + Len(held)) < BufferSize \div 2)
    <3>1. BufferSize \div 2 >= 1
      BY <1>2
    <3> QED BY <1>1, <1>2, <2>2, <3>1
  <2> QED BY <2>1, <2>2
<1>4. it' + Len(held') <= BufferSize
  <2>1. it' \in Nat /\ Len(held') \in Nat
    BY StartReceiveTypeOK DEF StreamTypeOK
  <2> QED BY <1>2, <1>3, <2>1
<1>5. reader' = "receiving"
  BY DEF StartReceive
<1> QED BY <1>3, <1>4, <1>5 DEF RoomInv

LEMMA StartReceiveScanned ==
  ASSUME StreamTypeOK, Scanned, StartReceive
  PROVE  Scanned'
<1>1. PICK t \in Nat, front \in Seq(Bytes), back \in Seq(Bytes) :
        /\ t <= Len(held)
        /\ t # 0 => t + Len(Current) - 1 <= Len(held)
        /\ Len(front) = t /\ \A j \in 1..t : front[j] = held[j]
        /\ Len(back) = Len(held) - t /\ \A j \in 1..Len(back) : back[j] = held[t + j]
        /\ to' = to \o front /\ held' = back
  BY StartReceiveEffect
<1>2. /\ to \in Seq(Bytes) /\ held \in Seq(Bytes) /\ Len(to) \in Nat /\ Len(held) \in Nat
  BY DEF StreamTypeOK
<1>0. PICK C : C = Current
  OBVIOUS
<1>3. C = Current /\ C \in Seq(Bytes) /\ Len(C) \in Nat /\ Len(C) # 0
  <2>1. C \in Seq(Bytes) /\ Len(C) \in Nat
    BY <1>0, CurrentFacts
  <2>2. Len(C) \in {1, 2}
    BY <1>0, CurrentFacts
  <2>3. Len(C) # 0
    <3>1. PICK n : n = Len(C)
      OBVIOUS
    <3>2. n = 1 \/ n = 2
      BY <2>2, <3>1
    <3>3. n # 0
      BY ONLY <3>2
    <3> QED BY <3>1, <3>3
  <2> QED BY <1>0, <2>1, <2>3
<1>4. /\ Len(to') = Len(to) + t
      /\ \A j \in 1..(Len(to) + t) : to'[j] = IF j <= Len(to) THEN to[j] ELSE front[j - Len(to)]
  <2>1. /\ Len(to \o front) = Len(to) + Len(front)
        /\ \A j \in 1..(Len(to) + Len(front)) :
             (to \o front)[j] = IF j <= Len(to) THEN to[j] ELSE front[j - Len(to)]
    BY <1>2, ConcatProperties
  <2> QED BY <1>1, <2>1
<1>5. ASSUME NEW j \in 1..(Len(to) + Len(held)) PROVE Byte(j)' = Byte(j)
  <2>1. CASE j <= Len(to)
    <3>1. j <= Len(to') /\ j \in 1..(Len(to) + t)
      BY <1>1, <1>2, <1>4, <2>1
    <3>2. Byte(j)' = to'[j] /\ to'[j] = to[j]
      BY <1>4, <2>1, <3>1 DEF Byte
    <3> QED BY <2>1, <3>2 DEF Byte
  <2>2. CASE ~(j <= Len(to)) /\ j <= Len(to) + t
    <3>1. j <= Len(to') /\ j \in 1..(Len(to) + t) /\ j - Len(to) \in 1..t
      BY <1>1, <1>2, <1>4, <2>2
    <3>2. Byte(j)' = to'[j] /\ to'[j] = front[j - Len(to)]
      BY <1>4, <2>2, <3>1 DEF Byte
    <3> QED BY <1>1, <2>2, <3>1, <3>2 DEF Byte
  <2>3. CASE ~(j <= Len(to) + t)
    <3>1. PICK k : k = j - (Len(to) + t)
      OBVIOUS
    <3>2. k \in 1..Len(back) /\ t + k = j - Len(to) /\ ~(j <= Len(to)) /\ ~(j <= Len(to'))
          /\ j - Len(to') = k
      BY <1>1, <1>2, <1>4, <2>3, <3>1
    <3>3. Byte(j)' = held'[k]
      BY <3>2 DEF Byte
    <3>4. held'[k] = held[j - Len(to)]
      BY <1>1, <3>2
    <3> QED BY <3>2, <3>3, <3>4 DEF Byte
  <2> QED BY <2>1, <2>2, <2>3
<1>6. Current' = C /\ Len(to') + Len(held') = Len(to) + Len(held)
  <2>1. UNCHANGED fields
    BY DEF StartReceive
  <2>2. Current' = C
    BY <1>3, <2>1, FieldsFrame
  <2>3. Len(held') = Len(held) - t
    BY <1>1
  <2>4. Len(to') + Len(held') = Len(to) + Len(held)
    <3>1. PICK a : a = Len(to)
      OBVIOUS
    <3>2. PICK b : b = Len(held)
      OBVIOUS
    <3>3. a \in Nat /\ b \in Nat /\ Len(to') = a + t /\ Len(held') = b - t
      BY <1>2, <1>4, <2>3, <3>1, <3>2
    <3>4. Len(to') + Len(held') = a + b
      BY ONLY <3>3
    <3> QED BY <3>1, <3>2, <3>4
  <2> QED BY <2>2, <2>4
<1>7. ASSUME NEW i \in 1..(Len(to) + t)
      PROVE  /\ i + Len(C) - 1 <= Len(to) + Len(held)
             /\ \E m \in 1..Len(C) : Byte(i + m - 1) # C[m]
  <2>1. CASE i <= Len(to)
    <3>1. i \in 1..Len(to)
      BY <1>2, <2>1
    <3> QED BY <1>3, <3>1 DEF Scanned
  <2>2. CASE ~(i <= Len(to))
    <3>1. PICK z : z = i - Len(to)
      OBVIOUS
    <3>2. z \in 1..t /\ i = Len(to) + z
      BY <1>1, <1>2, <2>2, <3>1
    <3>3. t + Len(C) - 1 <= Len(held)
      BY <1>1, <1>3, <3>2
    <3>4. z \in 1..(Len(held) - Len(C) + 1)
      BY <1>1, <1>2, <1>3, <3>2, <3>3
    <3>5. z \notin Hits(held, C)
      BY <1>3 DEF StartReceive
    <3>6. PICK m \in 1..Len(C) : held[z + m - 1] # C[m]
      BY <1>2, <1>3, <3>4, <3>5, HitsAt
    <3>7. PICK j : j = i + m - 1
      OBVIOUS
    <3>8. ~(j <= Len(to)) /\ j - Len(to) = z + m - 1
      BY <1>2, <1>3, <3>2, <3>7
    <3>9. Byte(j) # C[m]
      BY <3>6, <3>8 DEF Byte
    <3>10. i + Len(C) - 1 <= Len(to) + Len(held)
      BY <1>1, <1>2, <1>3, <3>2, <3>3
    <3> QED BY <3>7, <3>9, <3>10
  <2> QED BY <2>1, <2>2
<1>8. ASSUME NEW i \in 1..Len(to')
      PROVE  /\ i + Len(Current') - 1 <= Len(to') + Len(held')
             /\ \E m \in 1..Len(Current') : Byte(i + m - 1)' # Current'[m]
  <2>1. i \in 1..(Len(to) + t)
    BY <1>4
  <2>2. i + Len(C) - 1 <= Len(to) + Len(held)
    BY <1>7, <2>1
  <2>3. PICK m \in 1..Len(C) : Byte(i + m - 1) # C[m]
    BY <1>7, <2>1
  <2>4. PICK j : j = i + m - 1
    OBVIOUS
  <2>5. j \in 1..(Len(to) + Len(held))
    BY <1>1, <1>2, <1>3, <2>1, <2>2, <2>4
  <2>6. Byte(j)' # C[m]
    BY <1>5, <2>3, <2>4, <2>5
  <2> QED BY <1>6, <2>2, <2>4, <2>6
<1> QED BY <1>8 DEF Scanned

(* A piece of the rest goes to the end of the buffer, as much as fits.       *)
LEMMA FeedEffect ==
  ASSUME StreamTypeOK, RoomInv, Feed
  PROVE  \E n \in Nat, piece \in Seq(Bytes), rest \in Seq(Bytes) :
           /\ it + Len(held) + n <= BufferSize
           /\ Len(piece) = n /\ piece \o rest = data
           /\ held' = held \o piece /\ data' = rest
<1>1. /\ data \in Seq(Bytes) /\ Len(data) \in Nat /\ chunk \in Nat /\ it \in Nat
      /\ Len(held) \in Nat /\ BufferSize \in Nat
  BY BufferAssumption DEF StreamTypeOK
<1>2. PICK n : n = Min({chunk, Len(data), Room})
  OBVIOUS
<1>3. n > 0 /\ held' = held \o SubSeq(data, 1, n) /\ data' = SubSeq(data, n + 1, Len(data))
  BY <1>2 DEF Feed
<1>4. n \in Int /\ n <= Len(data) /\ n <= Room
  <2>1. chunk \in Int /\ Len(data) \in Int /\ Room \in Int
    BY <1>1 DEF Room
  <2> QED BY <1>2, <2>1, LeastOfThree
<1>5. n \in Nat /\ n \in 0..Len(data) /\ it + Len(held) + n <= BufferSize
  BY <1>1, <1>3, <1>4 DEF Room
<1>6. PICK piece : piece = SubSeq(data, 1, n)
  OBVIOUS
<1>7. PICK rest : rest = SubSeq(data, n + 1, Len(data))
  OBVIOUS
<1>8. /\ piece \in Seq(Bytes) /\ Len(piece) = n
      /\ rest \in Seq(Bytes) /\ piece \o rest = data
  BY <1>1, <1>5, <1>6, <1>7, Cut
<1> QED BY <1>3, <1>5, <1>6, <1>7, <1>8

LEMMA FeedTypeOK ==
  ASSUME StreamTypeOK, RoomInv, Feed
  PROVE  StreamTypeOK'
<1>1. PICK piece \in Seq(Bytes), rest \in Seq(Bytes) : held' = held \o piece /\ data' = rest
  BY FeedEffect
<1>2. held' \in Seq(Bytes) /\ data' \in Seq(Bytes)
  BY <1>1, ConcatProperties DEF StreamTypeOK
<1>3. reader' = "reading" /\ registered' = FALSE /\ UNCHANGED <<input, chunk, it, to, fields>>
  BY DEF Feed
<1> QED BY <1>2, <1>3 DEF StreamTypeOK

LEMMA FeedRoom ==
  ASSUME StreamTypeOK, RoomInv, Feed
  PROVE  RoomInv'
<1>1. PICK n \in Nat, piece \in Seq(Bytes) :
        it + Len(held) + n <= BufferSize /\ Len(piece) = n /\ held' = held \o piece
  BY FeedEffect
<1>2. held \in Seq(Bytes) /\ it \in Nat
  BY DEF StreamTypeOK
<1>3. Len(held') = Len(held) + Len(piece)
  BY <1>1, <1>2, ConcatProperties
<1>4. it' = it /\ registered' = FALSE
  BY DEF Feed
<1>5. it' + Len(held') <= BufferSize
  <2>1. Len(held) \in Nat
    BY <1>2
  <2>2. Len(held') = Len(held) + n
    BY <1>1, <1>3
  <2>3. it + (Len(held) + n) <= BufferSize
    BY <1>1, <1>2, <2>1
  <2> QED BY <1>4, <2>2, <2>3
<1> QED BY <1>4, <1>5 DEF RoomInv

LEMMA FeedScanned ==
  ASSUME StreamTypeOK, RoomInv, Scanned, Feed
  PROVE  Scanned'
<1>1. PICK piece \in Seq(Bytes) : held' = held \o piece
  BY FeedEffect
<1>2. /\ held \in Seq(Bytes) /\ Len(held) \in Nat /\ Len(to) \in Nat /\ Len(piece) \in Nat
      /\ Len(Current) \in Nat
  BY CurrentFacts DEF StreamTypeOK
<1>3. /\ Len(held') = Len(held) + Len(piece)
      /\ \A k \in 1..(Len(held) + Len(piece)) :
           held'[k] = IF k <= Len(held) THEN held[k] ELSE piece[k - Len(held)]
  BY <1>1, <1>2, ConcatProperties
<1>4. to' = to /\ Current' = Current
  <2>1. to' = to /\ UNCHANGED fields
    BY DEF Feed
  <2> QED BY <2>1, FieldsFrame
<1>5. ASSUME NEW j \in 1..(Len(to) + Len(held)) PROVE Byte(j)' = Byte(j)
  <2>1. CASE j <= Len(to)
    BY <1>4, <2>1 DEF Byte
  <2>2. CASE ~(j <= Len(to))
    <3>1. PICK k : k = j - Len(to)
      OBVIOUS
    <3>2. k \in 1..(Len(held) + Len(piece)) /\ k <= Len(held)
      BY <1>2, <2>2, <3>1
    <3>3. held'[k] = held[k]
      BY <1>3, <3>2
    <3> QED BY <1>4, <2>2, <3>1, <3>3 DEF Byte
  <2> QED BY <2>1, <2>2
<1>6. ASSUME NEW i \in 1..Len(to)
      PROVE  /\ i + Len(Current) - 1 <= Len(to) + Len(held')
             /\ \E m \in 1..Len(Current) : Byte(i + m - 1)' # Current[m]
  <2>1. i + Len(Current) - 1 <= Len(to) + Len(held)
    BY DEF Scanned
  <2>2. PICK m \in 1..Len(Current) : Byte(i + m - 1) # Current[m]
    BY DEF Scanned
  <2>3. PICK j : j = i + m - 1
    OBVIOUS
  <2>4. j \in 1..(Len(to) + Len(held))
    BY <1>2, <2>1, <2>3
  <2>5. Byte(j)' # Current[m]
    BY <1>5, <2>2, <2>3, <2>4
  <2>6. i + Len(Current) - 1 <= Len(to) + Len(held')
    BY <1>2, <1>3, <2>1
  <2> QED BY <2>3, <2>5, <2>6
<1> QED BY <1>4, <1>6 DEF Scanned

-----------------------------------------------------------------------------
(* The invariant *)

LEMMA InitStreamInv ==
  StreamInit => StreamInv
<1> SUFFICES ASSUME StreamInit PROVE StreamInv
  OBVIOUS
<1>1. /\ input \in Inputs /\ chunk \in Chunks /\ data = input /\ registered = FALSE
      /\ it = 0 /\ held = <<>> /\ reader = "reading" /\ to = <<>> /\ fields = <<>>
  BY DEF StreamInit
<1>2. /\ input \in Seq(Bytes) /\ chunk \in Nat \ {0}
      /\ <<>> \in Seq(Bytes) /\ <<>> \in Seq(Seq(Bytes)) /\ Len(<<>>) = 0
  <2>1. input \in Seq(Bytes)
    BY <1>1, BufferAssumption
  <2>2. chunk \in Nat \ {0}
    BY <1>1, BufferAssumption
  <2> QED BY <2>1, <2>2
<1>3. StreamTypeOK
  BY <1>1, <1>2 DEF StreamTypeOK
<1>4. RoomInv
  BY <1>1, <1>2, BufferAssumption DEF RoomInv
<1>5. Len(to) = 0 /\ Len(fields) = 0 /\ ~(\E k : k \in 1..0)
  BY <1>1, <1>2
<1>6. Scanned /\ FieldsEnd
  BY <1>5 DEF Scanned, FieldsEnd
<1>7. PICK f : f = [k \in 1..0 |-> <<>>]
  OBVIOUS
<1>8. Flat(f) /\ Total(f) = <<>>
  BY <1>5, <1>7 DEF Flat, Total
<1>9. ((<<>> \o <<>>) \o <<>>) \o input = input
  BY <1>2, ConcatEmptySeq
<1>10. Accounted
  BY <1>1, <1>8, <1>9 DEF Accounted
<1> QED BY <1>3, <1>4, <1>6, <1>10 DEF StreamInv

LEMMA NextStreamInv ==
  StreamInv /\ [StreamNext]_streamVars => StreamInv'
<1> SUFFICES ASSUME StreamInv, [StreamNext]_streamVars PROVE StreamInv'
  OBVIOUS
<1> USE DEF StreamInv
<1>1. CASE FindField
  BY <1>1, FindFieldTypeOK, FindFieldRoom, FindFieldEnd, FindFieldAccounted, FindFieldScanned
<1>2. CASE StartReceive
  <2>1. StreamTypeOK' /\ RoomInv' /\ Scanned'
    BY <1>2, StartReceiveTypeOK, StartReceiveRoom, StartReceiveScanned
  <2>2. UNCHANGED <<fields, input, data>>
    BY <1>2 DEF StartReceive, feed
  <2>3. PICK front \in Seq(Bytes), back \in Seq(Bytes) :
          front \o back = held /\ to' = to \o front /\ held' = back
    BY <1>2, StartReceiveEffect
  <2>4. to \in Seq(Bytes) /\ front \in Seq(Bytes) /\ back \in Seq(Bytes)
    BY DEF StreamTypeOK
  <2>5. (to \o front) \o back = to \o (front \o back)
    BY ONLY <2>4, Associative
  <2>6. (to' \o held') \o data' = (to \o held) \o data
    BY <2>2, <2>3, <2>5
  <2> QED BY <2>1, <2>2, <2>6, AccountedMove, FieldsFrame
<1>3. CASE Feed
  <2>1. StreamTypeOK' /\ RoomInv' /\ Scanned'
    BY <1>3, FeedTypeOK, FeedRoom, FeedScanned
  <2>2. UNCHANGED <<fields, input, to>>
    BY <1>3 DEF Feed
  <2>3. PICK piece \in Seq(Bytes), rest \in Seq(Bytes) :
          piece \o rest = data /\ held' = held \o piece /\ data' = rest
    BY <1>3, FeedEffect
  <2>4. to \in Seq(Bytes) /\ held \in Seq(Bytes) /\ piece \in Seq(Bytes)
    BY DEF StreamTypeOK
  <2>5. (to \o held) \o piece = to \o (held \o piece) /\ to \o held \in Seq(Bytes)
    BY ONLY <2>4, Associative
  <2>6. PICK p : p = to \o held
    OBVIOUS
  <2>7. p \in Seq(Bytes) /\ piece \in Seq(Bytes) /\ rest \in Seq(Bytes)
    BY <2>5, <2>6
  <2>8. (p \o piece) \o rest = p \o (piece \o rest)
    BY ONLY <2>7, Associative
  <2>9. (to' \o held') \o data' = (to \o held) \o data
    BY <2>2, <2>3, <2>5, <2>6, <2>8
  <2> QED BY <2>1, <2>2, <2>9, AccountedMove, FieldsFrame
<1>4. CASE FeedNothing \/ DropUpdate \/ UNCHANGED streamVars
  <2>1. UNCHANGED <<input, chunk, data, it, held, to, fields>>
    BY <1>4 DEF FeedNothing, DropUpdate, streamVars
  <2>2. reader' \in {"reading", "receiving", "done"} /\ registered' \in BOOLEAN
    BY <1>4 DEF FeedNothing, DropUpdate, streamVars, StreamTypeOK
  <2>3. registered' => registered /\ reader' = reader
    BY <1>4 DEF FeedNothing, DropUpdate, streamVars
  <2>4. StreamTypeOK'
    BY <2>1, <2>2 DEF StreamTypeOK
  <2>5. RoomInv'
    BY <2>1, <2>3 DEF RoomInv
  <2>6. Scanned'
    <3>1. Current' = Current
      BY <2>1, FieldsFrame
    <3> QED BY <2>1, <3>1 DEF Scanned, Byte
  <2> QED BY <2>1, <2>4, <2>5, <2>6, AccountedMove, FieldsFrame
<1> QED BY <1>1, <1>2, <1>3, <1>4 DEF StreamNext

LEMMA StreamInvHolds ==
  StreamSpec => []StreamInv
<1> QED BY InitStreamInv, NextStreamInv, PTL DEF StreamSpec

-----------------------------------------------------------------------------
(* For every request, every size of the pieces and every size of the buffer: *)
(* consume() ends each field at the first occurrence of its sentinel, also   *)
(* when that was received in two pieces or moved with the buffer, and no     *)
(* byte of the request is lost or taken twice.                               *)
THEOREM FieldsCorrect ==
  StreamSpec => []FieldsExact
<1>1. ASSUME StreamInv PROVE FieldsExact
  <2> USE <1>1 DEF StreamInv
  <2>1. PICK f : Flat(f) /\ ((Total(f) \o to) \o held) \o data = input
    BY DEF Accounted
  <2>2. BytesAccounted
    <3>1. FlattenSeq([k \in 1..Len(fields) |-> Sent(k)]) = Total(f)
      BY <2>1, TotalFacts
    <3> QED BY <2>1, <3>1 DEF BytesAccounted
  <2>3. Hits(to, Current) = {}
    <3> SUFFICES ASSUME NEW i \in Hits(to, Current) PROVE FALSE
      OBVIOUS
    <3>1. to \in Seq(Bytes) /\ Len(to) \in Nat
      BY DEF StreamTypeOK
    <3>2. PICK C : C = Current
      OBVIOUS
    <3>3. C \in Seq(Bytes) /\ Len(C) \in Nat
      BY <3>2, CurrentFacts
    <3>4. Len(C) \in {1, 2}
      BY <3>2, CurrentFacts
    <3>5. i \in 1..(Len(to) - Len(C) + 1) /\ \A m \in 1..Len(C) : to[i + m - 1] = C[m]
      BY <3>1, <3>2, <3>3, HitsAt
    <3>6. i \in 1..Len(to) /\ i + Len(C) - 1 <= Len(to)
      <4>1. CASE Len(C) = 1
        BY <3>1, <3>5, <4>1
      <4>2. CASE Len(C) = 2
        BY <3>1, <3>5, <4>2
      <4> QED BY <3>4, <4>1, <4>2
    <3>7. PICK m \in 1..Len(C) : Byte(i + m - 1) # C[m]
      BY <3>2, <3>6 DEF Scanned
    <3>8. PICK j : j = i + m - 1
      OBVIOUS
    <3>9. j <= Len(to)
      BY <3>1, <3>3, <3>6, <3>8
    <3>10. to[j] # C[m]
      BY <3>7, <3>8, <3>9 DEF Byte
    <3> QED BY <3>5, <3>8, <3>10
  <2> QED BY <2>2, <2>3 DEF FieldsExact, FieldsEnd
<1> QED BY <1>1, StreamInvHolds, PTL

(* A receive is never given an empty buffer, which the reader would take for *)
(* the end of the stream, and what it receives fits.                         *)
THEOREM RoomCorrect ==
  StreamSpec => []RoomToReceive
<1>1. ASSUME StreamInv PROVE RoomToReceive
  <2>1. it \in Nat /\ Len(held) \in Nat /\ BufferSize \in Nat
    BY <1>1, BufferAssumption DEF StreamInv, StreamTypeOK
  <2> QED BY <1>1, <2>1 DEF StreamInv, RoomInv, RoomToReceive, Room
<1> QED BY <1>1, StreamInvHolds, PTL

-----------------------------------------------------------------------------
(* The postgres programs                                                     *)
(*                                                                           *)
(* A request that completes starts the next one inside its own completion,   *)
(* so completions nest; what makes the limit sound is that a request has     *)
(* left it for good when its completion is still to be passed on: LInv.      *)

Phases == {"new", "waiting", "holding", "out", "in", "done", "pause", "over"}

(* The limit and the completions under way. *)
LInv ==
  /\ phase \in [Requests -> Phases]
  /\ head \in Seq(Requests) /\ in_use \in BOOLEAN
  /\ delivering \in Seq(Requests) /\ NoDuplicates(delivering)
  /\ \A q \in Requests : OnList(delivering, q) => phase[q] = "done"
  /\ LimitSound

(* The steps of the request that has the connection: it awaits the socket, *)
(* or its query is complete.                                               *)
Awaits(q) ==
  /\ \E io \in {"out", "in"} : phase' = [phase EXCEPT ![q] = io]
  /\ UNCHANGED <<outcome, limit, delivering>>

Completes(q) == \E s : Finish(q, s)

UserSteps(q) == q \in Users /\ (Awaits(q) \/ Completes(q))

------------------------------------------------------------------------------
(* The limit *)

LEMMA UsersOf ==
  \A q \in Requests : q \in Users <=> phase[q] \in {"holding", "out", "in"}
BY DEF Users, Holding

LEMMA AwaitsKeep ==
  ASSUME LInv, NEW q \in Requests, q \in Users, Awaits(q)
  PROVE  /\ LInv'
         /\ \A p \in Requests \ {q} : phase'[p] = phase[p]
         /\ phase'[q] \in {"out", "in"}
<1>1. PICK io \in {"out", "in"} : phase' = [phase EXCEPT ![q] = io]
  BY DEF Awaits
<1>2. /\ UNCHANGED <<in_use, head, delivering>>
      /\ phase' \in [Requests -> Phases] /\ phase'[q] = io
      /\ \A p \in Requests \ {q} : phase'[p] = phase[p]
      /\ phase[q] \in {"holding", "out", "in"}
  BY <1>1, UsersOf DEF LInv, Awaits, limit, Phases
<1>3. Users' = Users
  BY <1>2 DEF Users, Holding
<1>4. LimitSound'
  BY <1>2, <1>3 DEF LInv, LimitSound
<1>5. \A p \in Requests : OnList(delivering, p)' => phase'[p] = "done"
  BY <1>2 DEF LInv, OnList
<1> QED BY <1>2, <1>4, <1>5 DEF LInv, NoDuplicates

(* state::complete(): the connection goes to the first of those who wait.  *)
LEMMA FinishKeeps ==
  ASSUME LInv, NEW q \in Requests, q \in Users, NEW s, Finish(q, s)
  PROVE  /\ LInv'
         /\ phase'[q] = "done" /\ ~OnList(delivering, q)
         /\ \A p \in Requests \ {q} :
              phase'[p] = phase[p] \/ (phase[p] = "waiting" /\ phase'[p] = "holding")
         /\ \A p \in Requests : phase'[p] \notin {"out", "in"}
<1>1. /\ phase \in [Requests -> Phases] /\ head \in Seq(Requests)
      /\ delivering \in Seq(Requests) /\ NoDuplicates(delivering)
      /\ \A p \in Requests : OnList(delivering, p) => phase[p] = "done"
  BY DEF LInv
<1>2. /\ in_use <=> Users # {}
      /\ \A p \in Users : p = q
      /\ \A p \in Requests : phase[p] = "waiting" <=> OnList(head, p)
      /\ NoDuplicates(head)
  BY <1>1 DEF LInv, LimitSound, OnList, NoDuplicates
<1>3. phase[q] \in {"holding", "out", "in"} /\ ~OnList(delivering, q) /\ ~OnList(head, q)
  BY <1>1, <1>2, UsersOf
<1>4. /\ delivering' \in Seq(Requests) /\ NoDuplicates(delivering)'
      /\ \A p : OnList(delivering, p)' <=> OnList(delivering, p) \/ p = q
  <2>1. delivering' = <<q>> \o delivering
    BY DEF Finish
  <2>2. /\ <<q>> \o delivering \in Seq(Requests) /\ NoDuplicates(<<q>> \o delivering)
        /\ \A p : OnList(<<q>> \o delivering, p) <=> OnList(delivering, p) \/ p = q
    BY <1>1, <1>3, PushEffect
  <2> QED BY <2>1, <2>2 DEF NoDuplicates, OnList
<1>5. CASE head = << >>
  <2>1. /\ phase' = [phase EXCEPT ![q] = "done"] /\ head' = head /\ in_use' = FALSE
    BY <1>5 DEF Finish, HandOver
  <2>2. /\ phase' \in [Requests -> Phases] /\ phase'[q] = "done"
        /\ \A p \in Requests \ {q} : phase'[p] = phase[p]
    BY <1>1, <2>1 DEF Phases
  <2>3. \A p \in Requests : phase'[p] \notin {"holding", "out", "in"}
    BY <1>2, <2>2, UsersOf
  <2>4. Users' = {}
    BY <2>3 DEF Users, Holding
  <2>5. LimitSound'
    <3>1. \A p \in Requests : phase'[p] = "waiting" <=> \E i \in DOMAIN head' : head'[i] = p
      BY <1>2, <1>3, <2>1, <2>2, <1>1 DEF OnList
    <3>2. \A i, j \in DOMAIN head' : head'[i] = head'[j] => i = j
      BY <1>1, <1>5, <2>1
    <3> QED BY <1>5, <2>1, <2>4, <3>1, <3>2 DEF LimitSound
  <2>6. \A p \in Requests : OnList(delivering, p)' => phase'[p] = "done"
    BY <1>1, <1>4, <2>2
  <2> QED BY <1>3, <1>4, <2>1, <2>2, <2>3, <2>5, <2>6, <1>1 DEF LInv
<1>6. CASE head # << >>
  <2>1. PICK n : n = head[1]
    OBVIOUS
  <2>2. /\ n \in Requests /\ OnList(head, n)
        /\ Tail(head) \in Seq(Requests) /\ NoDuplicates(Tail(head))
        /\ \A p : OnList(Tail(head), p) <=> OnList(head, p) /\ p # n
    BY <1>1, <1>2, <1>6, <2>1, TailEffect
  <2>3. n # q /\ phase[n] = "waiting"
    BY <1>2, <1>3, <2>2
  <2>4. /\ phase' = [phase EXCEPT ![q] = "done", ![n] = "holding"]
        /\ head' = Tail(head) /\ in_use' = in_use
    BY <1>6, <2>1 DEF Finish, HandOver
  <2>5. /\ phase' \in [Requests -> Phases] /\ phase'[q] = "done" /\ phase'[n] = "holding"
        /\ \A p \in Requests \ {q, n} : phase'[p] = phase[p]
    BY <1>1, <2>2, <2>3, <2>4 DEF Phases
  <2>6. Users' = {n}
    <3>1. \A p \in Requests \ {q} : phase[p] \notin {"holding", "out", "in"}
      BY <1>2, UsersOf
    <3>2. \A p \in Requests : phase'[p] \in {"holding", "out", "in"} <=> p = n
      BY <2>2, <2>3, <2>5, <3>1
    <3> QED BY <2>2, <3>2 DEF Users, Holding
  <2>7. LimitSound'
    <3>1. in_use'
      BY <1>2, <2>4
    <3>2. \A p \in Requests : phase'[p] = "waiting" <=> OnList(Tail(head), p)
      BY <1>2, <1>3, <2>2, <2>3, <2>5
    <3>3. \A p \in Requests : phase'[p] = "waiting" <=> \E i \in DOMAIN head' : head'[i] = p
      <4>1. PICK t \in Seq(Requests) :
              /\ t = Tail(head)
              /\ \A p \in Requests : phase'[p] = "waiting" <=> OnList(t, p)
        BY <2>2, <3>2
      <4>2. head' = t
        BY <2>4, <4>1
      <4>3. DOMAIN t = 1 .. Len(t)
        BY <4>1
      <4> QED BY <4>1, <4>2, <4>3 DEF OnList
    <3>4. \A i, j \in DOMAIN head' : head'[i] = head'[j] => i = j
      BY <2>2, <2>4 DEF NoDuplicates
    <3> QED BY <2>6, <3>1, <3>3, <3>4 DEF LimitSound
  <2>8. \A p \in Requests : OnList(delivering, p)' => phase'[p] = "done"
    BY <1>1, <1>4, <2>3, <2>5
  <2>9. \A p \in Requests : phase'[p] \notin {"out", "in"}
    BY <1>2, <2>3, <2>5, UsersOf
  <2>10. in_use' \in BOOLEAN /\ head' \in Seq(Requests)
    BY <2>2, <2>4 DEF LInv
  <2> QED BY <1>3, <1>4, <2>3, <2>5, <2>7, <2>8, <2>9, <2>10 DEF LInv
<1> QED BY <1>5, <1>6

(* A request that is neither waiting nor a user moves on. *)
LEMMA OutsideKeeps ==
  ASSUME LInv, NEW q \in Requests, phase[q] \in {"done", "pause"},
         NEW ph \in {"pause", "over"}, phase' = [phase EXCEPT ![q] = ph], UNCHANGED limit,
         delivering' \in Seq(Requests), NoDuplicates(delivering)',
         \A p \in Requests : OnList(delivering, p)' => OnList(delivering, p) /\ p # q
  PROVE  /\ LInv' /\ phase'[q] = ph
         /\ \A p \in Requests \ {q} : phase'[p] = phase[p]
<1>1. /\ phase' \in [Requests -> Phases] /\ phase'[q] = ph
      /\ \A p \in Requests \ {q} : phase'[p] = phase[p]
  BY DEF LInv, Phases
<1>2. Users' = Users
  BY <1>1 DEF Users, Holding
<1>3. UNCHANGED <<in_use, head>>
  BY DEF limit
<1>4. LimitSound'
  BY <1>1, <1>2, <1>3 DEF LInv, LimitSound
<1>5. \A p \in Requests : OnList(delivering, p)' => phase'[p] = "done"
  BY <1>1 DEF LInv
<1> QED BY <1>1, <1>3, <1>4, <1>5 DEF LInv

LEMMA StartKeeps ==
  ASSUME LInv, NEW q \in Requests, Start(q)
  PROVE  /\ LInv'
         /\ phase'[q] \in {"waiting", "holding"}
         /\ \A p \in Requests \ {q} : phase'[p] = phase[p]
<1>1. /\ phase[q] = "new" /\ in_use' = TRUE /\ delivering' = delivering
      /\ phase \in [Requests -> Phases] /\ head \in Seq(Requests)
  BY DEF Start, LInv
<1>2. /\ in_use <=> Users # {}
      /\ Users = {} => head = << >>
      /\ \A p \in Requests : phase[p] = "waiting" <=> OnList(head, p)
      /\ NoDuplicates(head)
  BY <1>1 DEF LInv, LimitSound, OnList, NoDuplicates
<1>3. ~OnList(head, q)
  BY <1>1, <1>2
<1>4. CASE in_use
  <2>1. head' = <<q>> \o head /\ phase' = [phase EXCEPT ![q] = "waiting"]
    BY <1>4 DEF Start
  <2>2. /\ head' \in Seq(Requests) /\ NoDuplicates(head)'
        /\ \A p : OnList(head, p)' <=> OnList(head, p) \/ p = q
    <3>1. /\ <<q>> \o head \in Seq(Requests) /\ NoDuplicates(<<q>> \o head)
          /\ \A p : OnList(<<q>> \o head, p) <=> OnList(head, p) \/ p = q
      BY <1>1, <1>2, <1>3, PushEffect
    <3> QED BY <2>1, <3>1 DEF NoDuplicates, OnList
  <2>3. /\ phase' \in [Requests -> Phases] /\ phase'[q] = "waiting"
        /\ \A p \in Requests \ {q} : phase'[p] = phase[p]
    BY <1>1, <2>1 DEF Phases
  <2>4. Users' = Users
    BY <1>1, <2>3 DEF Users, Holding
  <2>5. LimitSound'
    <3>1. \A p \in Requests : phase'[p] = "waiting" <=> OnList(head, p)'
      BY <1>2, <2>2, <2>3
    <3>2. \A p \in Requests : phase'[p] = "waiting" <=> \E i \in DOMAIN head' : head'[i] = p
      BY <2>2, <3>1 DEF OnList
    <3>3. \A i, j \in DOMAIN head' : head'[i] = head'[j] => i = j
      BY <2>2 DEF NoDuplicates
    <3>4. /\ in_use' <=> Users' # {}
          /\ \A p, r \in Users' : p = r
          /\ Users' = {} => head' = << >>
      BY <1>1, <1>2, <1>4, <2>4 DEF LInv, LimitSound
    <3> QED BY <3>2, <3>3, <3>4 DEF LimitSound
  <2> QED BY <1>1, <2>2, <2>3, <2>5 DEF LInv, NoDuplicates, OnList
<1>5. CASE ~in_use
  <2>1. head' = head /\ phase' = [phase EXCEPT ![q] = "holding"]
    BY <1>5 DEF Start
  <2>2. /\ phase' \in [Requests -> Phases] /\ phase'[q] = "holding"
        /\ \A p \in Requests \ {q} : phase'[p] = phase[p]
    BY <1>1, <2>1 DEF Phases
  <2>3. Users' = {q}
    <3>1. \A p \in Requests : phase[p] \notin {"holding", "out", "in"}
      BY <1>2, <1>5, UsersOf
    <3> QED BY <2>2, <3>1 DEF Users, Holding
  <2>4. LimitSound'
    <3>1. \A p \in Requests : phase'[p] = "waiting" <=> OnList(head, p)
      BY <1>2, <1>3, <2>2
    <3>2. \A p \in Requests : phase'[p] = "waiting" <=> \E i \in DOMAIN head' : head'[i] = p
      BY <1>1, <2>1, <3>1 DEF OnList
    <3>3. \A i, j \in DOMAIN head' : head'[i] = head'[j] => i = j
      BY <1>1, <1>2, <2>1 DEF NoDuplicates
    <3> QED BY <1>1, <2>3, <3>2, <3>3 DEF LimitSound
  <2>5. \A p \in Requests : OnList(delivering, p)' => phase'[p] = "done"
    BY <1>1, <2>2 DEF LInv, OnList
  <2> QED BY <1>1, <2>1, <2>2, <2>4, <2>5 DEF LInv, NoDuplicates
<1> QED BY <1>4, <1>5 DEF LInv

(* What the step of a request that has the connection is. *)
LEMMA AwaitSteps ==
  ASSUME NEW q \in Requests, NEW io \in {"out", "in"}, AwaitSocket(q, io)
  PROVE  Awaits(q) /\ UNCHANGED got
BY DEF AwaitSocket, Await, Awaits

LEMMA GoOnSteps ==
  ASSUME NEW q \in Requests, NEW o, GoOn(q, o)
  PROVE  \/ Awaits(q) /\ owner' = o /\ UNCHANGED got
         \/ ReadResults(q, o)
<1>1. CASE ReadResults(q, o)
  BY <1>1
<1>2. CASE (AwaitSocket(q, "out") \/ AwaitSocket(q, "in")) /\ owner' = o
  BY <1>2, AwaitSteps
<1> QED BY <1>1, <1>2 DEF GoOn

LEMMA UserStepsOf ==
  ASSUME NEW q \in Requests,
         \/ Send(q) \/ OutReady(q) \/ FlushFails(q) \/ InReady(q)
         \/ PollFails(q) \/ ConsumeFails(q) \/ PollStops(q)
  PROVE  UserSteps(q)
<1>1. q \in Users
  BY UsersOf DEF Send, OutReady, FlushFails, InReady, PollFails, ConsumeFails, PollStops
<1>2. ASSUME NEW o, GoOn(q, o)
      PROVE  Awaits(q) \/ Completes(q)
  BY <1>2, GoOnSteps DEF ReadResults, Completes
<1>3. CASE Send(q)
  BY <1>1, <1>2, <1>3 DEF Send, UserSteps, Completes
<1>4. CASE OutReady(q)
  BY <1>1, <1>2, <1>4 DEF OutReady, UserSteps
<1>5. CASE InReady(q)
  <2>1. AwaitSocket(q, "in") \/ ReadResults(q, owner)
    BY <1>5 DEF InReady
  <2> QED BY <1>1, <2>1, AwaitSteps DEF ReadResults, UserSteps, Completes
<1>6. CASE PollFails(q)
  BY <1>1, <1>6 DEF PollFails, UserSteps, Completes
<1>7. CASE ConsumeFails(q)
  BY <1>1, <1>7 DEF ConsumeFails, UserSteps, Completes
<1>8. CASE FlushFails(q)
  <2>1. AwaitSocket(q, "out") /\ "out" \in {"out", "in"}
    BY <1>8 DEF FlushFails
  <2> QED BY <1>1, <2>1, AwaitSteps DEF UserSteps
<1>9. CASE PollStops(q)
  BY <1>1, <1>9 DEF PollStops, UserSteps, Completes
<1> QED BY <1>3, <1>4, <1>5, <1>6, <1>7, <1>8, <1>9

(* The completion passed on is the innermost; its request is outside the   *)
(* limit, and so is one that sleeps.                                       *)
LEMMA DeliverKeeps ==
  ASSUME LInv, Deliver
  PROVE  LET q == Head(delivering) IN
         /\ q \in Requests /\ phase[q] = "done" /\ LInv'
         /\ \A p \in Requests \ {q} : phase'[p] = phase[p]
         /\ phase'[q] \in {"pause", "over"}
<1>1. PICK q : q = Head(delivering)
  OBVIOUS
<1>2. /\ delivering # << >> /\ delivering \in Seq(Requests) /\ NoDuplicates(delivering)
      /\ delivering' = Tail(delivering) /\ UNCHANGED limit
  BY DEF Deliver, LInv
<1>3. q = delivering[1]
  BY <1>1, <1>2
<1>4. /\ q \in Requests /\ OnList(delivering, q)
      /\ Tail(delivering) \in Seq(Requests) /\ NoDuplicates(Tail(delivering))
      /\ \A p : OnList(Tail(delivering), p) <=> OnList(delivering, p) /\ p # q
  BY <1>2, <1>3, TailEffect
<1>5. /\ delivering' \in Seq(Requests) /\ NoDuplicates(delivering)'
      /\ \A p \in Requests : OnList(delivering, p)' => OnList(delivering, p) /\ p # q
  BY <1>2, <1>4 DEF NoDuplicates, OnList
<1>6. phase[q] = "done"
  BY <1>4 DEF LInv
<1>7. PICK ph \in {"pause", "over"} : phase' = [phase EXCEPT ![q] = ph]
  BY <1>1 DEF Deliver, Await, Over
<1> QED BY <1>1, <1>2, <1>4, <1>5, <1>6, <1>7, OutsideKeeps

LEMMA PauseKeeps ==
  ASSUME LInv, NEW q \in Requests, PauseEnds(q) \/ PauseStops(q)
  PROVE  /\ phase[q] = "pause" /\ LInv' /\ phase'[q] = "over"
         /\ \A p \in Requests \ {q} : phase'[p] = phase[p]
<1>1. /\ phase[q] = "pause" /\ Over(q) /\ UNCHANGED <<limit, delivering>>
  BY DEF PauseEnds, PauseStops
<1>2. /\ phase' = [phase EXCEPT ![q] = "over"]
      /\ phase[q] \in {"done", "pause"} /\ UNCHANGED limit
      /\ "over" \in {"pause", "over"}
  BY <1>1 DEF Over
<1>3. /\ delivering' \in Seq(Requests) /\ NoDuplicates(delivering)'
      /\ \A p \in Requests : OnList(delivering, p)' => OnList(delivering, p) /\ p # q
  BY <1>1 DEF LInv, NoDuplicates, OnList
<1>4. LInv' /\ phase'[q] = "over" /\ \A p \in Requests \ {q} : phase'[p] = phase[p]
  BY <1>2, <1>3, OutsideKeeps
<1> QED BY <1>1, <1>4

LEMMA StutterKeeps ==
  ASSUME LInv, UNCHANGED <<phase, limit, delivering>>
  PROVE  LInv'
<1>1. UNCHANGED <<phase, in_use, head, delivering>>
  BY DEF limit
<1>2. Users' = Users
  BY <1>1 DEF Users
<1>3. LimitSound'
  BY <1>1, <1>2 DEF LInv, LimitSound
<1> QED BY <1>1, <1>3 DEF LInv, OnList, NoDuplicates

LEMMA InitLInv == Init => LInv
<1> SUFFICES ASSUME Init PROVE LInv
  OBVIOUS
<1>1. /\ phase = [q \in Requests |-> "new"] /\ head = << >> /\ in_use = FALSE
      /\ delivering = << >>
  BY DEF Init
<1>2. Users = {}
  BY <1>1 DEF Users, Holding
<1>3. Len(delivering) = 0 /\ DOMAIN head = {}
  BY <1>1
<1>4. LimitSound
  BY <1>1, <1>2, <1>3 DEF LimitSound
<1>5. delivering \in Seq(Requests) /\ head \in Seq(Requests)
  BY <1>1
<1>6. NoDuplicates(delivering) /\ \A q : ~OnList(delivering, q)
  BY <1>3 DEF NoDuplicates, OnList
<1> QED BY <1>1, <1>4, <1>5, <1>6 DEF LInv, Phases

LEMMA NextLInv == LInv /\ [Next]_vars => LInv'
<1> SUFFICES ASSUME LInv, [Next]_vars PROVE LInv'
  OBVIOUS
<1>1. ASSUME NEW q \in Requests, Start(q) PROVE LInv'
  BY <1>1, StartKeeps
<1>2. ASSUME NEW q \in Requests, UserSteps(q) PROVE LInv'
  BY <1>2, AwaitsKeep, FinishKeeps DEF UserSteps, Completes
<1>3. CASE Deliver
  BY <1>3, DeliverKeeps
<1>4. ASSUME NEW q \in Requests, PauseEnds(q) \/ PauseStops(q) PROVE LInv'
  BY <1>4, PauseKeeps
<1>5. CASE ClockTicks \/ RunOneEmpty \/ RunOneFails \/ RunNext \/ UNCHANGED vars
  <2>1. UNCHANGED <<phase, limit, delivering>>
    BY <1>5 DEF ClockTicks, RunOneEmpty, RunOneFails, RunNext, vars, limit
  <2> QED BY <2>1, StutterKeeps
<1> QED BY <1>1, <1>2, <1>3, <1>4, <1>5, UserStepsOf DEF Next, Request

(* pg::limit: one request at a time uses the connection, its flag and its  *)
(* list say so, and nobody waits for a connection that is free.            *)
THEOREM LimitCorrect == Spec => []LimitSound
<1>1. LInv => LimitSound
  BY DEF LInv
<1> QED BY <1>1, InitLInv, NextLInv, PTL DEF Spec

------------------------------------------------------------------------------
(* Whose results a request reads *)

Before == {"new", "waiting", "holding", "out", "in"}

(* The query of p was stopped and has left the limit. *)
GivenUp(p) == phase[p] \notin Before /\ outcome[p] = "stopped"

(* What the program of q may find under way on the connection when it      *)
(* awaits the socket.                                                      *)
Readable(q, o) ==
  \/ o \in {q, None}
  \/ o \in Requests /\ "send" \notin program.fatal /\ GivenUp(o)

(* The query under way on the connection is the one of the request that    *)
(* awaits the socket, if any, or one that was stopped; in a program that   *)
(* ignores that a query could not be sent, a query leaves nothing else on  *)
(* the connection.                                                         *)
OInv ==
  /\ LInv
  /\ program \in AllPrograms
  /\ got \in [Requests -> SUBSET Requests]
  /\ outcome \in [Requests -> {None, "value", "stopped", "error"}]
  /\ \A q \in Requests : phase[q] \in {"out", "in"} => Readable(q, owner)
  /\ \A q \in Requests : phase[q] \in Before => got[q] = {}
  /\ \A q \in Requests : \A p \in got[q] : Readable(q, p)
  /\ "send" \notin program.fatal /\ owner # None =>
       owner \in Requests /\ (GivenUp(owner) \/ phase[owner] \in {"out", "in"})

(* A program that gives up a query in the middle also gives up one that    *)
(* could not be sent.                                                      *)
LEMMA FatalPrograms ==
  ASSUME program \in AllPrograms, "poll" \in program.fatal \/ "consume" \in program.fatal
  PROVE  "send" \in program.fatal
BY DEF AllPrograms, exec1, postgres_talk, postgres_talk_accuonsea, postgres_talk_cppnow

(* What was readable stays so: a query that was given up does not come     *)
(* back.                                                                   *)
LEMMA ReadableKeeps ==
  ASSUME NEW q, NEW o, Readable(q, o), program' = program,
         \A p \in Requests : GivenUp(p) => GivenUp(p)'
  PROVE  Readable(q, o)'
BY DEF Readable

LEMMA OwnAwaits ==
  ASSUME OInv, NEW q \in Requests, q \in Users, Awaits(q),
         Readable(q, owner'), UNCHANGED <<program, got>>
  PROVE  OInv'
<1>1. /\ LInv'
      /\ \A p \in Requests \ {q} : phase'[p] = phase[p]
      /\ phase'[q] \in {"out", "in"}
  BY AwaitsKeep DEF OInv
<1>2. /\ phase[q] \in {"holding", "out", "in"}
      /\ \A p \in Requests \ {q} : phase[p] \notin {"holding", "out", "in"}
  BY UsersOf DEF OInv, LInv, LimitSound
<1>3. UNCHANGED outcome
  BY DEF Awaits
<1>4. \A p \in Requests : GivenUp(p) => GivenUp(p)'
  BY <1>1, <1>2, <1>3 DEF GivenUp, Before
<1>5. \A p \in Requests : phase'[p] \in {"out", "in"} => Readable(p, owner)'
  <2>1. Readable(q, owner)'
    BY <1>4 DEF Readable
  <2> QED BY <1>1, <1>2, <2>1
<1>6. \A p \in Requests : phase'[p] \in Before => got'[p] = {}
  BY <1>1, <1>2 DEF OInv, Before
<1>7. \A p \in Requests : \A o \in got'[p] : Readable(p, o)'
  BY <1>4, ReadableKeeps DEF OInv
<1>8. "send" \notin program'.fatal /\ owner' # None =>
        owner' \in Requests /\ (GivenUp(owner)' \/ phase'[owner'] \in {"out", "in"})
  BY <1>1, <1>4 DEF Readable, GivenUp
<1> QED BY <1>1, <1>3, <1>5, <1>6, <1>7, <1>8 DEF OInv

LEMMA OwnFinishes ==
  ASSUME OInv, NEW q \in Requests, q \in Users,
         NEW s \in {"value", "stopped", "error"}, Finish(q, s),
         NEW g \in SUBSET Requests, got' = [got EXCEPT ![q] = g],
         \A o \in g : Readable(q, o),
         "send" \notin program.fatal => owner' = None \/ (s = "stopped" /\ owner' = owner),
         UNCHANGED program
  PROVE  OInv'
<1>1. /\ LInv'
      /\ phase'[q] = "done"
      /\ \A p \in Requests \ {q} :
           phase'[p] = phase[p] \/ (phase[p] = "waiting" /\ phase'[p] = "holding")
      /\ \A p \in Requests : phase'[p] \notin {"out", "in"}
  BY FinishKeeps DEF OInv
<1>2. outcome' = [outcome EXCEPT ![q] = s]
  BY DEF Finish
<1>3. /\ outcome' \in [Requests -> {None, "value", "stopped", "error"}]
      /\ outcome'[q] = s /\ \A p \in Requests \ {q} : outcome'[p] = outcome[p]
  BY <1>2 DEF OInv
<1>4. /\ got' \in [Requests -> SUBSET Requests]
      /\ got'[q] = g /\ \A p \in Requests \ {q} : got'[p] = got[p]
  BY DEF OInv
<1>5. /\ phase[q] \in {"holding", "out", "in"}
      /\ \A p \in Requests \ {q} : phase[p] \notin {"holding", "out", "in"}
  BY UsersOf DEF OInv, LInv, LimitSound
<1>6. \A p \in Requests : GivenUp(p) => GivenUp(p)'
  BY <1>1, <1>3, <1>5 DEF GivenUp, Before
<1>7. \A p \in Requests : phase'[p] \in Before => got'[p] = {}
  BY <1>1, <1>4 DEF OInv, Before
<1>8. \A p \in Requests : \A o \in got'[p] : Readable(p, o)'
  BY <1>4, <1>6, ReadableKeeps DEF OInv
<1>9. ASSUME "send" \notin program'.fatal, owner' # None
      PROVE  owner' \in Requests /\ GivenUp(owner)'
  <2>1. /\ s = "stopped" /\ owner' = owner /\ owner \in Requests
        /\ GivenUp(owner) \/ phase[owner] \in {"out", "in"}
    BY <1>9 DEF OInv
  <2>2. CASE GivenUp(owner)
    BY <1>6, <2>1, <2>2 DEF GivenUp
  <2>3. CASE phase[owner] \in {"out", "in"}
    <3>1. owner = q
      BY <1>5, <2>1, <2>3
    <3> QED BY <1>1, <1>3, <2>1, <3>1 DEF GivenUp, Before
  <2> QED BY <2>1, <2>2, <2>3
<1> QED BY <1>1, <1>3, <1>4, <1>7, <1>8, <1>9 DEF OInv

LEMMA OwnReads ==
  ASSUME OInv, NEW q \in Requests, q \in Users, NEW o, Readable(q, o), ReadResults(q, o),
         UNCHANGED program
  PROVE  OInv'
<1>1. got[q] = {} /\ got \in [Requests -> SUBSET Requests]
  BY UsersOf DEF OInv, Before
<1>2. PICK g \in SUBSET Requests : g = {o} \ {None}
  BY DEF Readable
<1>3. got' = [got EXCEPT ![q] = g] /\ Finish(q, "value") /\ owner' = None
  BY <1>1, <1>2 DEF ReadResults
<1>4. \A p \in g : Readable(q, p)
  BY <1>2
<1> QED BY <1>3, <1>4, OwnFinishes

LEMMA OwnGoesOn ==
  ASSUME OInv, NEW q \in Requests, q \in Users, NEW o, Readable(q, o), GoOn(q, o),
         UNCHANGED program
  PROVE  OInv'
<1>1. CASE Awaits(q) /\ owner' = o /\ UNCHANGED got
  BY <1>1, OwnAwaits
<1>2. CASE ReadResults(q, o)
  BY <1>2, OwnReads
<1> QED BY <1>1, <1>2, GoOnSteps

(* A request that did not await the socket before or after its step. *)
LEMMA OutsideOwn ==
  ASSUME OInv, LInv', NEW q \in Requests,
         \A p \in Requests \ {q} : phase'[p] = phase[p],
         \/ phase[q] = "new" /\ phase'[q] \in {"waiting", "holding"}
         \/ phase[q] \in {"done", "pause"} /\ phase'[q] \in {"pause", "over"},
         UNCHANGED <<program, outcome, got, owner>>
  PROVE  OInv'
<1>1. \A p \in Requests : phase'[p] \in {"out", "in"} <=> phase[p] \in {"out", "in"}
  OBVIOUS
<1>2. \A p \in Requests : phase'[p] \in Before <=> phase[p] \in Before
  BY DEF Before
<1>3. \A p \in Requests : GivenUp(p)' <=> GivenUp(p)
  BY <1>2 DEF GivenUp
<1>4. \A p, o : Readable(p, o) => Readable(p, o)'
  BY <1>3, ReadableKeeps
<1>5. \A p \in Requests : phase'[p] \in {"out", "in"} => Readable(p, owner)'
  BY <1>1, <1>4 DEF OInv
<1>6. \A p \in Requests : phase'[p] \in Before => got'[p] = {}
  BY <1>2 DEF OInv
<1>7. \A p \in Requests : \A o \in got'[p] : Readable(p, o)'
  BY <1>4 DEF OInv
<1>8. "send" \notin program'.fatal /\ owner' # None =>
        owner' \in Requests /\ (GivenUp(owner)' \/ phase'[owner'] \in {"out", "in"})
  BY <1>1, <1>3 DEF OInv, GivenUp
<1> QED BY <1>5, <1>6, <1>7, <1>8 DEF OInv

LEMMA NextOInv == OInv /\ [Next]_vars => OInv'
<1> SUFFICES ASSUME OInv, [Next]_vars PROVE OInv'
  OBVIOUS
<1> USE DEF conn
<1>1. LInv /\ LInv'
  BY NextLInv DEF OInv
<1>2. ASSUME NEW q \in Requests, Start(q) PROVE OInv'
  <2>1. /\ phase[q] = "new" /\ phase'[q] \in {"waiting", "holding"}
        /\ \A p \in Requests \ {q} : phase'[p] = phase[p]
        /\ UNCHANGED <<program, outcome, got, owner>>
    BY <1>1, <1>2, StartKeeps DEF Start
  <2> QED BY <1>1, <2>1, OutsideOwn
<1>3. ASSUME NEW q \in Requests, Send(q) PROVE OInv'
  <2>1. /\ phase[q] = "holding" /\ q \in Users /\ got[q] = {} /\ UNCHANGED program
    BY <1>3, UsersOf DEF Send, OInv, Before
  <2>2. CASE owner = None /\ ~bad
    BY <1>3, <2>1, <2>2, OwnGoesOn DEF Send, Readable
  <2>3. CASE ~(owner = None /\ ~bad) /\ "send" \in program.fatal
    <3>1. Finish(q, "error") /\ UNCHANGED got
      BY <1>3, <2>3 DEF Send
    <3>2. got' = [got EXCEPT ![q] = {}]
      BY <2>1, <3>1 DEF OInv
    <3> QED BY <2>1, <2>3, <3>1, <3>2, OwnFinishes
  <2>4. CASE ~(owner = None /\ ~bad) /\ "send" \notin program.fatal
    <3>1. Readable(q, owner)
      <4>1. \A p \in Requests : phase[p] \notin {"out", "in"}
        BY <1>1, <2>1, UsersOf DEF LInv, LimitSound
      <4> QED BY <2>4, <4>1 DEF OInv, Readable
    <3>2. GoOn(q, owner)
      BY <1>3, <2>4 DEF Send
    <3> QED BY <2>1, <3>1, <3>2, OwnGoesOn
  <2> QED BY <2>2, <2>3, <2>4
<1>4. ASSUME NEW q \in Requests, OutReady(q) PROVE OInv'
  <2>1. q \in Users /\ Readable(q, owner) /\ GoOn(q, owner) /\ UNCHANGED program
    BY <1>4, UsersOf DEF OutReady, OInv
  <2> QED BY <2>1, OwnGoesOn
<1>5. ASSUME NEW q \in Requests, FlushFails(q) PROVE OInv'
  <2>1. q \in Users /\ Awaits(q) /\ owner' = None /\ UNCHANGED <<program, got>>
    BY <1>5, UsersOf, AwaitSteps DEF FlushFails
  <2> QED BY <2>1, OwnAwaits DEF Readable
<1>6. ASSUME NEW q \in Requests, InReady(q) PROVE OInv'
  <2>1. q \in Users /\ Readable(q, owner) /\ UNCHANGED program
    BY <1>6, UsersOf DEF InReady, OInv
  <2>2. CASE AwaitSocket(q, "in") /\ UNCHANGED owner
    <3>1. AwaitSocket(q, "in") /\ "in" \in {"out", "in"}
      BY <2>2
    <3>2. Awaits(q) /\ UNCHANGED got
      BY <3>1, AwaitSteps
    <3> QED BY <2>1, <2>2, <3>2, OwnAwaits
  <2>3. CASE ReadResults(q, owner)
    BY <2>1, <2>3, OwnReads
  <2> QED BY <1>6, <2>2, <2>3 DEF InReady
<1>7. ASSUME NEW q \in Requests, PollFails(q) \/ ConsumeFails(q) \/ PollStops(q) PROVE OInv'
  <2>1. /\ q \in Users /\ got[q] = {} /\ got \in [Requests -> SUBSET Requests]
        /\ UNCHANGED <<program, got>>
    BY <1>7, UsersOf DEF PollFails, ConsumeFails, PollStops, OInv, Before
  <2>2. got' = [got EXCEPT ![q] = {}]
    BY <2>1
  <2>3. PICK s \in {"value", "stopped", "error"} :
          /\ Finish(q, s)
          /\ "send" \notin program.fatal => owner' = None \/ (s = "stopped" /\ owner' = owner)
    <3>1. program \in AllPrograms
      BY DEF OInv
    <3>2. CASE PollFails(q)
      BY <3>1, <3>2, FatalPrograms DEF PollFails
    <3>3. CASE ConsumeFails(q)
      BY <3>3 DEF ConsumeFails
    <3>4. CASE PollStops(q)
      BY <3>4 DEF PollStops
    <3> QED BY <1>7, <3>2, <3>3, <3>4
  <2>4. PICK g \in SUBSET Requests : g = {} /\ got' = [got EXCEPT ![q] = g]
    BY <2>2
  <2>5. \A o \in g : Readable(q, o)
    BY <2>4
  <2> QED BY <2>1, <2>3, <2>4, <2>5, OwnFinishes
<1>8. CASE Deliver
  <2>1. PICK q \in Requests :
          /\ phase[q] = "done" /\ phase'[q] \in {"pause", "over"}
          /\ \A p \in Requests \ {q} : phase'[p] = phase[p]
    BY <1>1, <1>8, DeliverKeeps
  <2>2. UNCHANGED <<program, outcome, got, owner>>
    BY <1>8 DEF Deliver
  <2> QED BY <1>1, <2>1, <2>2, OutsideOwn
<1>9. ASSUME NEW q \in Requests, PauseEnds(q) \/ PauseStops(q) PROVE OInv'
  <2>1. /\ phase[q] = "pause" /\ phase'[q] = "over"
        /\ \A p \in Requests \ {q} : phase'[p] = phase[p]
    BY <1>1, <1>9, PauseKeeps
  <2>2. UNCHANGED <<program, outcome, got, owner>>
    BY <1>9 DEF PauseEnds, PauseStops
  <2> QED BY <1>1, <2>1, <2>2, OutsideOwn
<1>10. CASE ClockTicks \/ RunOneEmpty \/ RunOneFails \/ RunNext \/ UNCHANGED vars
  <2>1. UNCHANGED <<program, phase, outcome, got, owner>>
    BY <1>10 DEF ClockTicks, RunOneEmpty, RunOneFails, RunNext, vars
  <2> QED BY <1>1, <2>1 DEF OInv, Readable, GivenUp
<1> QED BY <1>2, <1>3, <1>4, <1>5, <1>6, <1>7, <1>8, <1>9, <1>10 DEF Next, Request

(* A request that completes with a value has read none but its own         *)
(* results, in every one of the programs; but a program that ignores that  *)
(* its query could not be sent reads those of a query that was stopped.    *)
THEOREM OwnResultsCorrect ==
  ASSUME Programs \subseteq AllPrograms
  PROVE  Spec => []OwnResults
<1>1. Init => OInv
  <2> SUFFICES ASSUME Init PROVE OInv
    OBVIOUS
  <2>1. /\ program \in AllPrograms /\ owner = None
        /\ phase = [q \in Requests |-> "new"]
        /\ outcome = [q \in Requests |-> None]
        /\ got = [q \in Requests |-> {}]
    BY DEF Init
  <2>2. LInv
    BY InitLInv
  <2>3. \A q \in Requests : phase[q] = "new" /\ got[q] = {}
    BY <2>1
  <2> QED BY <2>1, <2>2, <2>3 DEF OInv
<1>2. OInv => OwnResults
  BY RequestsAssumption DEF OInv, OwnResults, Readable, GivenUp
<1> QED BY <1>1, <1>2, NextOInv, PTL DEF Spec

=============================================================================
