---------------------------- MODULE OutputProofs ----------------------------
(***************************************************************************)
(* Theorems about Output, for any commands, timestamps and number of       *)
(* chunks.                                                                 *)
(***************************************************************************)
EXTENDS Output, FiniteSetTheorems, SequenceTheorems, TLAPS

Entries == [part : {"header", "body"}, by : Threads, serial : Nat]

Other(g) == IF g = "player" THEN "reader" ELSE "player"

-----------------------------------------------------------------------------
(***************************************************************************)
(* Places in a row of chunks: headers at the odd ones, bodies after them.  *)
(***************************************************************************)

LEMMA EvenSum ==
  ASSUME NEW k \in Nat, k % 2 = 0, NEW l \in Nat, l % 2 = 0
  PROVE  (k + l) % 2 = 0
OBVIOUS

LEMMA Beyond ==
  ASSUME NEW k \in Nat, NEW l \in Nat, NEW i \in 1..k + l, i \notin 1..k
  PROVE  \E j \in 1..l : i = k + j
<1>1. i - k \in 1..l /\ i = k + (i - k)
  OBVIOUS
<1>. QED
  BY <1>1

LEMMA Above ==
  ASSUME NEW f \in Nat, NEW n \in Nat, ~(n < f)
  PROVE  \E c \in Nat : n = f + c
<1>1. n - f \in Nat /\ n = f + (n - f)
  OBVIOUS
<1>. QED
  BY <1>1

LEMMA OddPlace ==
  ASSUME NEW i \in Nat, i % 2 = 1
  PROVE  \E d \in Nat : i = 2 * d + 1 /\ (i - 1) \div 2 = d
<1>1. (i - 1) \div 2 \in Nat /\ i = 2 * ((i - 1) \div 2) + 1
  OBVIOUS
<1>. QED
  BY <1>1

LEMMA HalfOfDouble ==
  ASSUME NEW c \in Nat
  PROVE  (2 * c) \div 2 = c
OBVIOUS

LEMMA PlaceOfHeader ==
  ASSUME NEW d \in Nat
  PROVE  /\ (2 * d + 1) % 2 = 1 /\ (2 * d + 1 - 1) \div 2 = d
         /\ (2 * d + 2) % 2 # 1 /\ (2 * d + 2 - 1) \div 2 = d
OBVIOUS

LEMMA OddRest ==
  ASSUME NEW k \in Nat, k % 2 = 0, NEW j \in Nat, (k + j) % 2 = 1
  PROVE  j % 2 = 1
OBVIOUS

LEMMA BodyFollows ==
  ASSUME NEW k \in Nat, k % 2 = 0, NEW i \in 1..k, i % 2 = 1
  PROVE  i + 1 \in 1..k
OBVIOUS

-----------------------------------------------------------------------------
(***************************************************************************)
(* Chunks in a row.                                                        *)
(***************************************************************************)

(* The i-th entry of the chunks that g has sent from chunk f on.           *)
Nth(g, f, i) ==
  [part |-> IF i % 2 = 1 THEN "header" ELSE "body", by |-> g,
   serial |-> f + ((i - 1) \div 2)]

Run(entries, g, f) ==
  /\ entries \in Seq(Entries)
  /\ \A i \in 1..Len(entries) : entries[i] = Nth(g, f, i)

(* The entries are those of n chunks.                                      *)
Whole(entries, n) == Len(entries) = 2 * n

(* What WireWhole says of the wire.                                        *)
Paired(w) ==
  /\ Len(w) % 2 = 0
  /\ \A i \in DOMAIN w : i % 2 = 1 =>
       /\ w[i].part = "header" /\ w[i + 1].part = "body"
       /\ w[i].by = w[i + 1].by /\ w[i].serial = w[i + 1].serial

InOrder(w) ==
  \A i \in DOMAIN w : IsHeader(w[i]) =>
    /\ \A j \in 1..i - 1 :
         w[j].part = "header" /\ w[j].by = w[i].by => w[j].serial < w[i].serial
    /\ \A n \in 0..w[i].serial - 1 :
         \E j \in 1..i - 1 : w[j] = [w[i] EXCEPT !.serial = n]

(* What WireWhole says of the wire, whether the socket is broken or not.   *)
Begun(w) ==
  /\ w \in Seq(Entries)
  /\ \A i \in DOMAIN w : i % 2 = 1 =>
       /\ w[i].part = "header"
       /\ i < Len(w) => /\ w[i + 1].part = "body" /\ w[i].by = w[i + 1].by
                        /\ w[i].serial = w[i + 1].serial
  /\ InOrder(w)

(* w has the first n chunks of g and no later one.                         *)
HasFirst(w, g, n) ==
  /\ \A i \in DOMAIN w : IsHeader(w[i]) /\ w[i].by = g => w[i].serial < n
  /\ \A m \in 0..n - 1 :
       \E i \in DOMAIN w : w[i] = [part |-> "header", by |-> g, serial |-> m]

LEMMA NthIsEntry ==
  ASSUME NEW g \in Threads, NEW f \in Nat, NEW i \in Nat \ {0}
  PROVE  Nth(g, f, i) \in Entries /\ Nth(g, f, i) # Nil
<1>1. (i - 1) \div 2 \in Nat
  OBVIOUS
<1>2. Nth(g, f, i) \in Entries
  BY <1>1 DEF Nth, Entries
<1>. QED
  BY <1>2, OutputAssumption DEF Entries, Threads

LEMMA NthOfChunk ==
  ASSUME NEW g, NEW f \in Nat, NEW d \in Nat
  PROVE  /\ Nth(g, f, 2 * d + 1) = [part |-> "header", by |-> g, serial |-> f + d]
         /\ Nth(g, f, 2 * d + 2) = [part |-> "body", by |-> g, serial |-> f + d]
<1>1. Nth(g, f, 2 * d + 1) = [part |-> "header", by |-> g, serial |-> f + d]
  <2>1. (2 * d + 1) % 2 = 1 /\ (2 * d + 1 - 1) \div 2 = d
    BY PlaceOfHeader
  <2>. QED
    BY <2>1 DEF Nth
<1>2. Nth(g, f, 2 * d + 2) = [part |-> "body", by |-> g, serial |-> f + d]
  <2>1. (2 * d + 2) % 2 # 1 /\ (2 * d + 2 - 1) \div 2 = d
    BY PlaceOfHeader
  <2>. QED
    BY <2>1 DEF Nth
<1>. QED
  BY <1>1, <1>2

(* Only a header stands at an odd place.                                   *)
LEMMA HeaderOdd ==
  ASSUME NEW g, NEW f, NEW i, IsHeader(Nth(g, f, i))
  PROVE  i % 2 = 1
BY DEF Nth, IsHeader

LEMMA RunAppend ==
  ASSUME NEW g \in Threads, NEW f \in Nat, NEW w, Run(w, g, f),
         NEW e, e = Nth(g, f, Len(w) + 1)
  PROVE  Run(Append(w, e), g, f)
<1>1. w \in Seq(Entries) /\ Len(w) \in Nat
  BY LenProperties DEF Run
<1>2. e \in Entries
  BY <1>1, NthIsEntry
<1>3. ASSUME NEW i \in 1..Len(Append(w, e))
      PROVE  Append(w, e)[i] = Nth(g, f, i)
  <2>1. i \in 1..Len(w) \/ i = Len(w) + 1
    BY <1>1, <1>2, AppendProperties
  <2>. QED
    BY <1>1, <1>2, <2>1, AppendProperties DEF Run
<1>. QED
  BY <1>1, <1>2, <1>3, AppendProperties DEF Run

(* Nothing in a run of chunks was set to nil.                              *)
LEMMA RunBytes ==
  ASSUME NEW g \in Threads, NEW f \in Nat, NEW w, Run(w, g, f)
  PROVE  BytesOf(w) = Len(w)
<1>1. w \in Seq(Entries) /\ Len(w) \in Nat /\ DOMAIN w = 1..Len(w)
  BY LenProperties DEF Run
<1>2. \A i \in 1..Len(w) : w[i] # Nil
  BY NthIsEntry DEF Run
<1>3. {i \in DOMAIN w : w[i] # Nil} = 1..Len(w)
  BY <1>1, <1>2
<1>4. Cardinality(1..Len(w)) = Len(w)
  <2>1. CASE Len(w) = 0
    BY <2>1, FS_Interval
  <2>2. CASE Len(w) > 0
    BY <1>1, <2>2, FS_Interval
  <2>. QED
    BY <1>1, <2>1, <2>2
<1>. QED
  BY <1>3, <1>4 DEF BytesOf

(* The wire stays whole when the next chunks of a goroutine are added.     *)
LEMMA WireGrows ==
  ASSUME NEW g \in Threads, NEW f \in Nat, NEW w \in Seq(Entries), NEW b, NEW l \in Nat,
         Paired(w), InOrder(w), HasFirst(w, g, f), Run(b, g, f), Whole(b, l)
  PROVE  /\ w \o b \in Seq(Entries)
         /\ Paired(w \o b) /\ InOrder(w \o b)
         /\ HasFirst(w \o b, g, f + l)
         /\ \A h \in Threads \ {g}, n \in Nat : HasFirst(w, h, n) => HasFirst(w \o b, h, n)
         /\ \A i \in DOMAIN b : \E j \in DOMAIN(w \o b) : (w \o b)[j] = b[i]
<1> DEFINE v == w \o b
           k == Len(w)
<1>. Len(b) = 2 * l
  BY DEF Whole
<1>0. k % 2 = 0
  BY DEF Paired
<1>1. b \in Seq(Entries) /\ Len(b) \in Nat /\ k \in Nat
  BY LenProperties DEF Run
<1>2. /\ v \in Seq(Entries)
      /\ Len(v) = k + Len(b)
      /\ DOMAIN v = 1..k + Len(b) /\ DOMAIN w = 1..k /\ DOMAIN b = 1..Len(b)
      /\ \A i \in 1..k : v[i] = w[i]
      /\ \A i \in 1..Len(b) : v[k + i] = b[i]
  <2>1. /\ v \in Seq(Entries) /\ Len(v) = k + Len(b)
        /\ \A i \in 1..k + Len(b) : v[i] = IF i <= k THEN w[i] ELSE b[i - k]
    BY <1>1, ConcatProperties
  <2>2. DOMAIN v = 1..Len(v) /\ DOMAIN w = 1..k /\ DOMAIN b = 1..Len(b)
    BY <1>1, <2>1, LenProperties
  <2>3. \A i \in 1..k : v[i] = w[i]
    BY <1>1, <2>1
  <2>4. ASSUME NEW i \in 1..Len(b)
        PROVE  v[k + i] = b[i]
    <3>1. k + i \in 1..k + Len(b) /\ ~(k + i <= k) /\ (k + i) - k = i
      BY <1>1
    <3>. QED
      BY <2>1, <3>1
  <2>. QED
    BY <2>1, <2>2, <2>3, <2>4
<1> HIDE DEF v, k
<1>3. ASSUME NEW i \in DOMAIN v, i \notin 1..k
      PROVE  \E j \in 1..Len(b) : i = k + j /\ v[i] = Nth(g, f, j)
  <2>1. i \in 1..k + Len(b)
    BY <1>2, <1>3
  <2>2. PICK j \in 1..Len(b) : i = k + j
    BY <1>1, <1>3, <2>1, Beyond
  <2>3. v[i] = b[j] /\ b[j] = Nth(g, f, j)
    BY <1>2, <2>2 DEF Run
  <2>. QED
    BY <2>2, <2>3
<1>4. ASSUME NEW d \in Nat, d < l
      PROVE  /\ k + (2 * d + 1) \in DOMAIN v /\ k + (2 * d + 2) \in DOMAIN v
             /\ v[k + (2 * d + 1)] = [part |-> "header", by |-> g, serial |-> f + d]
             /\ v[k + (2 * d + 2)] = [part |-> "body", by |-> g, serial |-> f + d]
  <2>1. 2 * d + 1 \in 1..Len(b) /\ 2 * d + 2 \in 1..Len(b)
    BY <1>4
  <2>2. k + (2 * d + 1) \in DOMAIN v /\ k + (2 * d + 2) \in DOMAIN v
    BY <1>1, <1>2, <2>1
  <2>3. /\ b[2 * d + 1] = Nth(g, f, 2 * d + 1)
        /\ b[2 * d + 2] = Nth(g, f, 2 * d + 2)
    BY <2>1 DEF Run
  <2>. QED
    BY <1>2, <2>1, <2>2, <2>3, NthOfChunk
<1>5. ASSUME NEW i \in DOMAIN v, i \notin 1..k, i % 2 = 1 \/ IsHeader(v[i])
      PROVE  \E d \in Nat : /\ d < l /\ i = k + (2 * d + 1)
                            /\ v[i] = [part |-> "header", by |-> g, serial |-> f + d]
  <2>1. PICK j \in 1..Len(b) : i = k + j /\ v[i] = Nth(g, f, j)
    BY <1>3, <1>5
  <2>2. j % 2 = 1
    <3>1. j \in Nat
      OBVIOUS
    <3>2. CASE i % 2 = 1
      <4>1. (k + j) % 2 = 1
        BY <2>1, <3>2
      <4>. QED
        BY <1>0, <1>1, <3>1, <4>1, OddRest
    <3>3. CASE IsHeader(v[i])
      BY <2>1, <3>3, HeaderOdd
    <3>. QED
      BY <1>5, <3>2, <3>3
  <2>3. PICK d \in Nat : j = 2 * d + 1
    <3>1. j \in Nat
      OBVIOUS
    <3>. QED
      BY <2>2, <3>1, OddPlace
  <2>4. d < l
    BY <2>3
  <2>. QED
    BY <1>4, <2>1, <2>3, <2>4
<1>6. Paired(v)
  <2>1. Len(v) % 2 = 0
    <3>1. (2 * l) % 2 = 0 /\ 2 * l \in Nat
      OBVIOUS
    <3>. QED
      BY <1>0, <1>1, <1>2, <3>1, EvenSum
  <2>2. ASSUME NEW i \in DOMAIN v, i % 2 = 1
        PROVE  /\ v[i].part = "header" /\ v[i + 1].part = "body"
               /\ v[i].by = v[i + 1].by /\ v[i].serial = v[i + 1].serial
    <3>1. CASE i \in 1..k
      <4>1. i + 1 \in 1..k
        BY <1>0, <1>1, <2>2, <3>1, BodyFollows
      <4>. QED
        BY <1>2, <2>2, <3>1, <4>1 DEF Paired
    <3>2. CASE i \notin 1..k
      <4>1. PICK d \in Nat : /\ d < l /\ i = k + (2 * d + 1)
                             /\ v[i] = [part |-> "header", by |-> g, serial |-> f + d]
        BY <1>5, <2>2, <3>2
      <4>2. i + 1 = k + (2 * d + 2)
        BY <1>1, <4>1
      <4>3. v[k + (2 * d + 2)] = [part |-> "body", by |-> g, serial |-> f + d]
        BY <1>4, <4>1
      <4>. QED
        BY <4>1, <4>2, <4>3
    <3>. QED
      BY <3>1, <3>2
  <2>. QED
    BY <2>1, <2>2 DEF Paired
<1>7. InOrder(v)
  <2> SUFFICES ASSUME NEW i \in DOMAIN v, IsHeader(v[i])
               PROVE  /\ \A j \in 1..i - 1 :
                           v[j].part = "header" /\ v[j].by = v[i].by =>
                             v[j].serial < v[i].serial
                      /\ \A n \in 0..v[i].serial - 1 :
                           \E j \in 1..i - 1 : v[j] = [v[i] EXCEPT !.serial = n]
    BY DEF InOrder
  <2>1. CASE i \in 1..k
    <3>1. i \in DOMAIN w /\ v[i] = w[i] /\ \A j \in 1..i - 1 : v[j] = w[j]
      BY <1>1, <1>2, <2>1
    <3>2. /\ \A j \in 1..i - 1 :
               w[j].part = "header" /\ w[j].by = w[i].by => w[j].serial < w[i].serial
          /\ \A n \in 0..w[i].serial - 1 :
               \E j \in 1..i - 1 : w[j] = [w[i] EXCEPT !.serial = n]
      BY <3>1 DEF InOrder
    <3>3. \A n \in 0..v[i].serial - 1 :
            \E j \in 1..i - 1 : v[j] = [v[i] EXCEPT !.serial = n]
      <4>1. SUFFICES ASSUME NEW n \in 0..v[i].serial - 1
                     PROVE  \E j \in 1..i - 1 : v[j] = [v[i] EXCEPT !.serial = n]
        OBVIOUS
      <4>2. PICK j \in 1..i - 1 : w[j] = [w[i] EXCEPT !.serial = n]
        BY <3>1, <3>2
      <4>. QED
        BY <3>1, <4>2
    <3>. QED
      BY <3>1, <3>2, <3>3
  <2>2. CASE i \notin 1..k
    <3>1. PICK d \in Nat : /\ d < l /\ i = k + (2 * d + 1)
                           /\ v[i] = [part |-> "header", by |-> g, serial |-> f + d]
      BY <1>5, <2>2
    <3>2. ASSUME NEW j \in 1..i - 1, v[j].part = "header", v[j].by = g
          PROVE  v[j].serial < f + d
      <4>1. CASE j \in 1..k
        <5>1. v[j] = w[j] /\ j \in DOMAIN w /\ w[j] \in Entries
          BY <1>2, <4>1
        <5>2. w[j].serial < f /\ w[j].serial \in Nat
          BY <3>2, <5>1 DEF HasFirst, IsHeader, Entries
        <5>. QED
          BY <5>1, <5>2
      <4>2. CASE j \notin 1..k
        <5>1. i \in 1..k + Len(b) /\ i \in Nat
          BY <1>1, <1>2
        <5>2. j \in DOMAIN v
          BY <1>1, <1>2, <5>1
        <5>3. PICK c \in Nat : /\ c < l /\ j = k + (2 * c + 1)
                               /\ v[j] = [part |-> "header", by |-> g, serial |-> f + c]
          BY <1>5, <3>2, <4>2, <5>2 DEF IsHeader
        <5>4. c < d
          BY <1>1, <3>1, <5>1, <5>3
        <5>. QED
          BY <5>3, <5>4
      <4>. QED
        BY <4>1, <4>2
    <3>3. ASSUME NEW n \in 0..f + d - 1
          PROVE  \E j \in 1..i - 1 : v[j] = [part |-> "header", by |-> g, serial |-> n]
      <4>1. CASE n < f
        <5>1. n \in 0..f - 1
          BY <4>1
        <5>2. PICK j \in DOMAIN w : w[j] = [part |-> "header", by |-> g, serial |-> n]
          BY <5>1 DEF HasFirst
        <5>3. j \in 1..k /\ v[j] = w[j]
          BY <1>2
        <5>4. j \in 1..i - 1
          BY <1>1, <3>1, <5>3
        <5>. QED
          BY <5>2, <5>3, <5>4
      <4>2. CASE ~(n < f)
        <5>1. PICK c \in Nat : n = f + c
          BY <3>1, <4>2, Above
        <5>2. c < l /\ c < d
          BY <3>1, <5>1
        <5>3. k + (2 * c + 1) \in 1..i - 1
          BY <1>1, <3>1, <5>2
        <5>. QED
          BY <1>4, <5>1, <5>2, <5>3
      <4>. QED
        BY <4>1, <4>2
    <3>4. v[i].by = g /\ v[i].serial = f + d
      BY <3>1
    <3>. QED
      <4>1. \A n \in 0..v[i].serial - 1 :
              \E j \in 1..i - 1 : v[j] = [v[i] EXCEPT !.serial = n]
        <5>1. SUFFICES ASSUME NEW n \in 0..v[i].serial - 1
                       PROVE  \E j \in 1..i - 1 : v[j] = [v[i] EXCEPT !.serial = n]
          OBVIOUS
        <5>2. PICK j \in 1..i - 1 : v[j] = [part |-> "header", by |-> g, serial |-> n]
          BY <3>3, <3>4
        <5>3. [v[i] EXCEPT !.serial = n] = [part |-> "header", by |-> g, serial |-> n]
          BY <3>1
        <5>. QED
          BY <5>2, <5>3
      <4>. QED
        BY <3>2, <3>4, <4>1
  <2>. QED
    BY <2>1, <2>2
<1>8. HasFirst(v, g, f + l)
  <2>1. ASSUME NEW i \in DOMAIN v, IsHeader(v[i]), v[i].by = g
        PROVE  v[i].serial < f + l
    <3>1. CASE i \in 1..k
      <4>1. v[i] = w[i] /\ i \in DOMAIN w /\ w[i] \in Entries
        BY <1>2, <3>1
      <4>2. w[i].serial < f /\ w[i].serial \in Nat
        BY <2>1, <4>1 DEF HasFirst, Entries
      <4>. QED
        BY <4>1, <4>2
    <3>2. CASE i \notin 1..k
      BY <1>5, <2>1, <3>2
    <3>. QED
      BY <3>1, <3>2
  <2>2. ASSUME NEW m \in 0..f + l - 1
        PROVE  \E i \in DOMAIN v : v[i] = [part |-> "header", by |-> g, serial |-> m]
    <3>1. CASE m < f
      <4>1. m \in 0..f - 1
        BY <3>1
      <4>2. PICK j \in DOMAIN w : w[j] = [part |-> "header", by |-> g, serial |-> m]
        BY <4>1 DEF HasFirst
      <4>3. j \in DOMAIN v /\ v[j] = w[j]
        BY <1>1, <1>2, j \in 1..k
      <4>. QED
        BY <4>2, <4>3
    <3>2. CASE ~(m < f)
      <4>1. PICK c \in Nat : m = f + c
        BY <3>2, Above
      <4>2. c < l
        BY <4>1
      <4>. QED
        BY <1>4, <4>1, <4>2
    <3>. QED
      BY <3>1, <3>2
  <2>. QED
    BY <2>1, <2>2 DEF HasFirst
<1>9. ASSUME NEW h \in Threads \ {g}, NEW n \in Nat, HasFirst(w, h, n)
       PROVE  HasFirst(v, h, n)
  <2>1. ASSUME NEW i \in DOMAIN v, IsHeader(v[i]), v[i].by = h
        PROVE  v[i].serial < n
    <3>1. i \in 1..k
      <4>1. SUFFICES ASSUME i \notin 1..k
                     PROVE  FALSE
        OBVIOUS
      <4>2. PICK d \in Nat : v[i] = [part |-> "header", by |-> g, serial |-> f + d]
        BY <1>5, <2>1, <4>1
      <4>. QED
        BY <2>1, <4>2
    <3>2. v[i] = w[i] /\ i \in DOMAIN w
      BY <1>2, <3>1
    <3>. QED
      BY <1>9, <2>1, <3>2 DEF HasFirst
  <2>2. ASSUME NEW m \in 0..n - 1
        PROVE  \E i \in DOMAIN v : v[i] = [part |-> "header", by |-> h, serial |-> m]
    <3>1. PICK j \in DOMAIN w : w[j] = [part |-> "header", by |-> h, serial |-> m]
      BY <1>9 DEF HasFirst
    <3>2. j \in DOMAIN v /\ v[j] = w[j]
      BY <1>1, <1>2, j \in 1..k
    <3>. QED
      BY <3>1, <3>2
  <2>. QED
    BY <2>1, <2>2 DEF HasFirst
<1>10. \A i \in DOMAIN b : \E j \in DOMAIN v : v[j] = b[i]
  <2> SUFFICES ASSUME NEW i \in DOMAIN b
               PROVE  \E j \in DOMAIN v : v[j] = b[i]
    OBVIOUS
  <2>1. i \in 1..Len(b)
    BY <1>2
  <2>2. k + i \in DOMAIN v /\ v[k + i] = b[i]
    BY <1>1, <1>2, <2>1
  <2>. QED
    BY <2>2
<1>. QED
  BY <1>2, <1>6, <1>7, <1>8, <1>9, <1>10 DEF v

-----------------------------------------------------------------------------
(***************************************************************************)
(* The inductive invariant.  As long as the goroutines have not met and    *)
(* the socket is not broken, writeBuf belongs to the one that is busy, and *)
(* holds the chunks it has sent since its last flush.                      *)
(***************************************************************************)

(* The entries of g that are in writeBuf.                                  *)
InBuf(g) ==
  IF pc[g] \in {"return", "check"} THEN 0
  ELSE IF pc[g] \in {"body", "putBody"} THEN count[g] + 1 ELSE count[g]

(* The chunks of g that an earlier flush, or this one, has written.        *)
Flushed(g) == serial[g] - (count[g] \div 2)
Sent(g) == IF pc[g] \in {"return", "check"} THEN serial[g] ELSE Flushed(g)

(* Those whose header buffers are back in the pool.                        *)
Returned(g) == IF pc[g] = "check" THEN serial[g] ELSE Flushed(g)

Pcs == {"off", "join", "loop", "wait", "read", "report", "done", "header", "putHeader",
        "body", "putBody", "note", "write", "return", "check"}

Counters ==
  /\ pc \in [Threads -> Pcs]
  /\ count \in [Threads -> Nat] /\ serial \in [Threads -> Nat]
  /\ \A g \in Threads : \E c \in 0..serial[g] : count[g] = 2 * c
  /\ DOMAIN slice = Threads
  /\ flush \in [Threads -> [noted : SUBSET Entries, bytes : Nat]]

(* What g relies on while the other goroutine is not busy.                 *)
Owns(g) ==
  /\ Len(writeBuf) = InBuf(g)
  /\ Run(writeBuf, g, Flushed(g))
  /\ pc[g] \in {"putHeader", "putBody"} => slice[g] = writeBuf
  /\ pc[g] = "write" => flush[g].noted = EvenPlaces(writeBuf)
  /\ pc[g] = "return" =>
       \A e \in flush[g].noted :
         /\ IsHeader(e) /\ e.by = g /\ e.serial \in Flushed(g)..serial[g] - 1
         /\ \E i \in DOMAIN wire : wire[i] = e
  /\ pc[g] \in {"return", "check"} => flush[g].bytes = count[g]

WireInv ==
  /\ wire \in Seq(Entries)
  /\ Paired(wire) /\ InOrder(wire)
  /\ \A g \in Threads : HasFirst(wire, g, Sent(g))

PoolInv ==
  /\ returned \subseteq Entries
  /\ \A e \in returned : IsHeader(e) /\ e.serial < Returned(e.by)

Calm ==
  /\ ~(Busy("player") /\ Busy("reader"))
  /\ Counters
  /\ \A g \in Threads : Busy(Other(g)) \/ Owns(g)
  /\ WireInv
  /\ PoolInv

OutInv == ~mixed => Begun(wire) /\ (~broken => Calm)

-----------------------------------------------------------------------------
(***************************************************************************)
(* Facts about the invariant.                                              *)
(***************************************************************************)

LEMMA OtherThread ==
  /\ \A g \in Threads : Other(g) \in Threads /\ Other(g) # g /\ Other(Other(g)) = g
  /\ \A g, h \in Threads : h = g \/ h = Other(g)
BY DEF Other, Threads

LEMMA CountersOf ==
  ASSUME Counters, NEW g \in Threads
  PROVE  /\ pc[g] \in Pcs /\ count[g] \in Nat /\ serial[g] \in Nat
         /\ InBuf(g) \in Nat /\ Flushed(g) \in Nat
         /\ Sent(g) \in Nat /\ Returned(g) \in Nat
         /\ \E c \in Nat : count[g] = 2 * c /\ serial[g] = Flushed(g) + c
<1>1. /\ pc[g] \in Pcs /\ count[g] \in Nat /\ serial[g] \in Nat
      /\ \E c \in 0..serial[g] : count[g] = 2 * c
  BY DEF Counters
<1>2. PICK c \in 0..serial[g] : count[g] = 2 * c
  BY <1>1
<1>3. c \in Nat /\ Flushed(g) = serial[g] - c
  BY <1>2, HalfOfDouble DEF Flushed
<1>4. Flushed(g) \in Nat /\ serial[g] = Flushed(g) + c
  BY <1>1, <1>2, <1>3
<1>5. InBuf(g) \in Nat
  BY <1>1 DEF InBuf
<1>6. Sent(g) \in Nat /\ Returned(g) \in Nat
  BY <1>1, <1>4 DEF Sent, Returned
<1>. QED
  BY <1>1, <1>2, <1>3, <1>4, <1>5, <1>6

LEMMA LenOfAppend ==
  ASSUME NEW g \in Threads, NEW f \in Nat, NEW w, Run(w, g, f), NEW i \in Nat \ {0}
  PROVE  Len(Append(w, Nth(g, f, i))) = Len(w) + 1
BY NthIsEntry, AppendProperties DEF Run

LEMMA RunOfNone ==
  ASSUME NEW g, NEW f, NEW w, w = <<>>
  PROVE  Run(w, g, f)
BY EmptySeq DEF Run

LEMMA EmptyRun ==
  ASSUME NEW g, NEW f, NEW w, Run(w, g, f), Len(w) = 0
  PROVE  w = <<>>
BY EmptySeq DEF Run

(* The headers of a run of whole chunks.                                   *)
LEMMA HeadersOfRun ==
  ASSUME NEW g \in Threads, NEW f \in Nat, NEW w, NEW c \in Nat,
         Run(w, g, f), Whole(w, c), NEW e \in EvenPlaces(w)
  PROVE  /\ IsHeader(e) /\ e.by = g /\ e.serial \in f..f + c - 1
         /\ e \in Entries /\ \E i \in DOMAIN w : w[i] = e
<1>1. w \in Seq(Entries) /\ DOMAIN w = 1..Len(w)
  BY LenProperties DEF Run
<1>2. PICK i \in 1..Len(w) : i % 2 = 1 /\ w[i] = e
  BY <1>1 DEF EvenPlaces
<1>3. PICK d \in Nat : i = 2 * d + 1
  <2>1. i \in Nat
    OBVIOUS
  <2>. QED
    BY <1>2, <2>1, OddPlace
<1>4. e = [part |-> "header", by |-> g, serial |-> f + d]
  BY <1>2, <1>3, NthOfChunk DEF Run
<1>5. d < c
  <2>1. 2 * d + 1 <= 2 * c
    BY <1>3 DEF Whole
  <2>. QED
    BY <2>1
<1>. QED
  BY <1>1, <1>2, <1>4, <1>5 DEF IsHeader, Entries

(* A step of g alone.                                                      *)
Alone(g) ==
  /\ ~Busy(Other(g))
  /\ pc'[Other(g)] = pc[Other(g)]
  /\ count'[Other(g)] = count[Other(g)] /\ serial'[Other(g)] = serial[Other(g)]

LEMMA CalmStep ==
  ASSUME Calm, NEW g \in Threads, Alone(g), Counters', Owns(g)', PoolInv',
         wire' \in Seq(Entries), Paired(wire'), InOrder(wire'),
         HasFirst(wire', g, Sent(g)'),
         \A n \in Nat : HasFirst(wire, Other(g), n) => HasFirst(wire', Other(g), n)
  PROVE  Calm'
<1> DEFINE o == Other(g)
<1>1. o \in Threads /\ o # g /\ Other(o) = g /\ \A h \in Threads : h = g \/ h = o
  BY OtherThread
<1> HIDE DEF o
<1>2. ~Busy(o) /\ pc'[o] = pc[o] /\ count'[o] = count[o] /\ serial'[o] = serial[o]
  BY DEF Alone, o
<1>3. ~Busy(o)'
  BY <1>2 DEF Busy
<1>4. ~(Busy("player") /\ Busy("reader"))'
  <2>1. o = "player" \/ o = "reader"
    BY <1>1 DEF Threads
  <2>. QED
    BY <1>3, <2>1
<1>5. Busy(g)' \/ Owns(o)'
  <2> SUFFICES ASSUME ~Busy(g)'
               PROVE  Owns(o)'
    OBVIOUS
  <2>1. InBuf(g)' = 0
    <3>1. count'[g] \in Nat /\ ~(count'[g] > 0)
      BY DEF Busy, Counters
    <3>. QED
      BY <3>1 DEF Busy, InBuf
  <2>2. writeBuf' = <<>>
    BY <2>1, EmptyRun DEF Owns
  <2>3. InBuf(o)' = 0
    <3>1. count'[o] \in Nat /\ ~(count'[o] > 0)
      BY <1>1, <1>3 DEF Busy, Counters
    <3>. QED
      BY <1>3, <3>1 DEF Busy, InBuf
  <2>4. Run(writeBuf, o, Flushed(o))'
    BY <2>2, RunOfNone
  <2>. QED
    BY <1>3, <2>2, <2>3, <2>4, Len(<<>>) = 0 DEF Busy, Owns
<1>6. \A h \in Threads : Busy(Other(h))' \/ Owns(h)'
  <2> SUFFICES ASSUME NEW h \in Threads
               PROVE  Busy(Other(h))' \/ Owns(h)'
    OBVIOUS
  <2>1. CASE h = g
    BY <2>1
  <2>2. CASE h = o
    BY <1>1, <1>5, <2>2
  <2>. QED
    BY <1>1, <2>1, <2>2
<1>7. HasFirst(wire', o, Sent(o)')
  <2>1. Sent(o)' = Sent(o)
    BY <1>2 DEF Sent, Flushed
  <2>2. Sent(o) \in Nat /\ HasFirst(wire, o, Sent(o))
    BY <1>1, CountersOf DEF Calm, WireInv
  <2>. QED
    BY <2>1, <2>2 DEF o
<1>8. WireInv'
  <2>1. \A h \in Threads : HasFirst(wire, h, Sent(h))'
    <3> SUFFICES ASSUME NEW h \in Threads
                 PROVE  HasFirst(wire, h, Sent(h))'
      OBVIOUS
    <3>1. h = g \/ h = o
      BY <1>1
    <3>. QED
      BY <1>7, <3>1
  <2>. QED
    BY <2>1 DEF WireInv
<1>. QED
  BY <1>4, <1>6, <1>8 DEF Calm

(* A step of g that neither writes nor returns anything.                   *)
LEMMA CalmInMemory ==
  ASSUME Calm, NEW g \in Threads, Alone(g), Counters', Owns(g)',
         UNCHANGED <<wire, returned>>, Sent(g)' = Sent(g), Returned(g)' >= Returned(g)
  PROVE  Calm'
<1>1. wire' = wire /\ returned' = returned
  OBVIOUS
<1>2. /\ wire \in Seq(Entries) /\ Paired(wire) /\ InOrder(wire)
      /\ HasFirst(wire, g, Sent(g))
  BY DEF Calm, WireInv
<1>3. PoolInv'
  <2>1. ASSUME NEW e \in returned
        PROVE  IsHeader(e) /\ e.serial < Returned(e.by)'
    <3>1. /\ IsHeader(e) /\ e \in Entries /\ e.by \in Threads /\ e.serial \in Nat
          /\ e.serial < Returned(e.by)
      BY DEF Calm, PoolInv, Entries
    <3>2. CASE e.by = g
      <4>1. Returned(g) \in Nat /\ (Returned(g))' \in Int
        <5>1. Returned(g) \in Nat
          BY CountersOf DEF Calm
        <5>2. /\ count'[g] \in Nat /\ serial'[g] \in Nat
              /\ \E c \in 0..serial'[g] : count'[g] = 2 * c
          BY DEF Counters
        <5>3. (Flushed(g))' \in Int
          BY <5>2, HalfOfDouble DEF Flushed
        <5>. QED
          BY <5>1, <5>2, <5>3 DEF Returned
      <4>. QED
        BY <3>1, <3>2, <4>1
    <3>3. CASE e.by = Other(g)
      <4>1. (Returned(Other(g)))' = Returned(Other(g))
        BY DEF Alone, Returned, Flushed
      <4>. QED
        BY <3>1, <3>3, <4>1
    <3>. QED
      BY <3>1, <3>2, <3>3, OtherThread
  <2>2. \A e \in returned' : IsHeader(e) /\ e.serial < Returned(e.by)'
    BY <1>1, <2>1
  <2>. QED
    BY <1>1, <2>2 DEF Calm, PoolInv
<1>4. HasFirst(wire', g, Sent(g)')
  BY <1>1, <1>2
<1>. QED
  BY <1>1, <1>2, <1>3, <1>4, CalmStep

(* What a busy goroutine finds.                                            *)
LEMMA BusyOwns ==
  ASSUME Calm, NEW g \in Threads, Busy(g)
  PROVE  Counters /\ ~Busy(Other(g)) /\ Owns(g)
<1>1. ~Busy(Other(g))
  BY DEF Calm, Other, Threads
<1>. QED
  BY <1>1 DEF Calm

-----------------------------------------------------------------------------
(***************************************************************************)
(* The steps of a goroutine that sends or flushes.                         *)
(***************************************************************************)

LEMMA ReadSliceStep ==
  ASSUME Calm, NEW g \in Threads, ReadSlice(g)
  PROVE  Calm'
<1>1. /\ pc[g] \in {"header", "body"}
      /\ pc' = [pc EXCEPT ![g] = IF pc[g] = "header" THEN "putHeader" ELSE "putBody"]
      /\ slice' = [slice EXCEPT ![g] = writeBuf]
      /\ UNCHANGED <<writeBuf, wire, returned, flush, count, serial>>
  BY DEF ReadSlice, Go
<1>2. Counters /\ ~Busy(Other(g)) /\ Owns(g)
  BY <1>1, BusyOwns DEF Busy
<1>3. pc'[g] = (IF pc[g] = "header" THEN "putHeader" ELSE "putBody") /\ slice'[g] = writeBuf
  BY <1>1, <1>2 DEF Counters
<1>4. Alone(g)
  BY <1>1, <1>2, OtherThread DEF Alone, Counters
<1>5. Counters'
  BY <1>1, <1>2 DEF Counters, Pcs
<1>6. /\ InBuf(g)' = InBuf(g) /\ Flushed(g)' = Flushed(g)
      /\ Sent(g)' = Sent(g) /\ Returned(g)' = Returned(g)
  BY <1>1, <1>3 DEF InBuf, Flushed, Sent, Returned
<1>7. Owns(g)'
  BY <1>1, <1>2, <1>3, <1>6 DEF Owns
<1>. QED
  BY <1>1, <1>2, <1>4, <1>5, <1>6, <1>7, CalmInMemory, CountersOf

LEMMA PutHeaderStep ==
  ASSUME Calm, NEW g \in Threads, PutHeader(g)
  PROVE  Calm'
<1>1. /\ pc[g] = "putHeader" /\ pc' = [pc EXCEPT ![g] = "body"]
      /\ writeBuf' = Append(slice[g], Entry(g, "header"))
      /\ slice' = [slice EXCEPT ![g] = <<>>]
      /\ UNCHANGED <<wire, returned, flush, count, serial>>
  BY DEF PutHeader, Go
<1>2. Counters /\ ~Busy(Other(g)) /\ Owns(g)
  BY <1>1, BusyOwns DEF Busy
<1>3. pc'[g] = "body" /\ slice[g] = writeBuf
  BY <1>1, <1>2 DEF Counters, Owns
<1>4. Alone(g)
  BY <1>1, <1>2, OtherThread DEF Alone, Counters
<1>5. Counters'
  BY <1>1, <1>2 DEF Counters, Pcs
<1>6. /\ InBuf(g) = count[g] /\ InBuf(g)' = count[g] + 1 /\ Flushed(g)' = Flushed(g)
      /\ Sent(g)' = Sent(g) /\ Returned(g)' = Returned(g)
  BY <1>1, <1>3 DEF InBuf, Flushed, Sent, Returned
<1>7. PICK c \in Nat : count[g] = 2 * c /\ serial[g] = Flushed(g) + c
  BY <1>2, CountersOf
<1>8. Run(writeBuf, g, Flushed(g)) /\ Len(writeBuf) = 2 * c
  BY <1>2, <1>6, <1>7 DEF Owns
<1>9. Entry(g, "header") = Nth(g, Flushed(g), Len(writeBuf) + 1)
  <2>1. Flushed(g) \in Nat
    BY <1>2, CountersOf
  <2>2. Nth(g, Flushed(g), 2 * c + 1)
          = [part |-> "header", by |-> g, serial |-> Flushed(g) + c]
    BY <2>1, NthOfChunk
  <2>. QED
    BY <1>7, <1>8, <2>2 DEF Entry
<1>10. Run(writeBuf', g, Flushed(g))
  BY <1>1, <1>2, <1>3, <1>8, <1>9, CountersOf, RunAppend
<1>11. Len(writeBuf') = Len(writeBuf) + 1
  BY <1>1, <1>3, <1>8, <1>9, <1>2, CountersOf, LenOfAppend
<1>12. Owns(g)'
  BY <1>3, <1>6, <1>7, <1>8, <1>10, <1>11 DEF Owns
<1>. QED
  BY <1>1, <1>2, <1>4, <1>5, <1>6, <1>12, CalmInMemory, CountersOf

LEMMA PutBodyStep ==
  ASSUME Calm, NEW g \in Threads, PutBody(g)
  PROVE  Calm'
<1>1. /\ pc[g] = "putBody"
      /\ writeBuf' = Append(slice[g], Entry(g, "body"))
      /\ slice' = [slice EXCEPT ![g] = <<>>]
      /\ count' = [count EXCEPT ![g] = @ + 2] /\ serial' = [serial EXCEPT ![g] = @ + 1]
      /\ UNCHANGED <<wire, returned, flush>>
  BY DEF PutBody
<1>2. PICK to \in {"header", "note", "join", "loop"} : pc' = [pc EXCEPT ![g] = to]
  <2>1. AfterMessage(g) \in {"header", "note", "join", "loop"}
    BY DEF AfterMessage
  <2>. QED
    BY <2>1 DEF PutBody, Go
<1>3. Counters /\ ~Busy(Other(g)) /\ Owns(g)
  BY <1>1, BusyOwns DEF Busy
<1>4. pc'[g] = to /\ slice[g] = writeBuf /\ count'[g] = count[g] + 2
      /\ serial'[g] = serial[g] + 1
  BY <1>1, <1>2, <1>3 DEF Counters, Owns
<1>5. Alone(g)
  BY <1>1, <1>2, <1>3, OtherThread DEF Alone, Counters
<1>6. PICK c \in Nat : count[g] = 2 * c /\ serial[g] = Flushed(g) + c
  BY <1>3, CountersOf
<1>7. count'[g] = 2 * (c + 1) /\ c + 1 \in Nat /\ Flushed(g) \in Nat
  BY <1>3, <1>4, <1>6, CountersOf
<1>8. Flushed(g)' = Flushed(g)
  <2>1. count'[g] \div 2 = c + 1
    BY <1>7, HalfOfDouble
  <2>. QED
    BY <1>4, <1>6, <1>7, <2>1 DEF Flushed
<1>9. Counters'
  <2>1. /\ pc' \in [Threads -> Pcs]
        /\ DOMAIN slice' = Threads
        /\ flush' \in [Threads -> [noted : SUBSET Entries, bytes : Nat]]
    BY <1>1, <1>2, <1>3 DEF Counters, Pcs
  <2>2. count' \in [Threads -> Nat] /\ serial' \in [Threads -> Nat]
    BY <1>1, <1>3 DEF Counters
  <2>3. \E d \in 0..serial'[g] : count'[g] = 2 * d
    <3>1. c + 1 \in 0..serial'[g]
      BY <1>4, <1>6, <1>7
    <3>. QED
      BY <1>7, <3>1
  <2>4. \A h \in Threads : \E d \in 0..serial'[h] : count'[h] = 2 * d
    <3> SUFFICES ASSUME NEW h \in Threads
                 PROVE  \E d \in 0..serial'[h] : count'[h] = 2 * d
      OBVIOUS
    <3>1. CASE h = g
      BY <2>3, <3>1
    <3>2. CASE h # g
      BY <1>1, <1>3, <3>2 DEF Counters
    <3>. QED
      BY <3>1, <3>2
  <2>. QED
    BY <2>1, <2>2, <2>4 DEF Counters
<1>10. /\ InBuf(g) = count[g] + 1 /\ InBuf(g)' = count[g] + 2
       /\ Sent(g)' = Sent(g) /\ Returned(g)' = Returned(g)
  BY <1>1, <1>2, <1>4, <1>8 DEF InBuf, Sent, Returned
<1>11. Run(writeBuf, g, Flushed(g)) /\ Len(writeBuf) = 2 * c + 1
  BY <1>3, <1>6, <1>10 DEF Owns
<1>12. Entry(g, "body") = Nth(g, Flushed(g), Len(writeBuf) + 1)
  <2>1. Len(writeBuf) + 1 = 2 * c + 2
    BY <1>11
  <2>2. Nth(g, Flushed(g), 2 * c + 2)
          = [part |-> "body", by |-> g, serial |-> Flushed(g) + c]
    BY <1>7, NthOfChunk
  <2>. QED
    BY <1>6, <2>1, <2>2 DEF Entry
<1>13. Run(writeBuf', g, Flushed(g))
  BY <1>1, <1>4, <1>7, <1>11, <1>12, RunAppend
<1>14. Len(writeBuf') = Len(writeBuf) + 1
  <2>1. Len(writeBuf) + 1 \in Nat \ {0}
    BY <1>11
  <2>. QED
    BY <1>1, <1>4, <1>7, <1>11, <1>12, <2>1, LenOfAppend
<1>15. Owns(g)'
  BY <1>2, <1>4, <1>6, <1>8, <1>10, <1>11, <1>13, <1>14 DEF Owns
<1>. QED
  BY <1>1, <1>3, <1>5, <1>9, <1>10, <1>15, CalmInMemory, CountersOf

LEMMA NoteStep ==
  ASSUME Calm, NEW g \in Threads, Note(g)
  PROVE  Calm'
<1>1. /\ pc[g] = "note"
      /\ pc' = [pc EXCEPT ![g] = IF writeBuf = <<>> THEN "check" ELSE "write"]
      /\ flush' = [flush EXCEPT ![g] = [noted |-> EvenPlaces(writeBuf), bytes |-> 0]]
      /\ UNCHANGED <<writeBuf, wire, returned, slice, count, serial>>
  BY DEF Note, Go
<1>2. Counters /\ ~Busy(Other(g)) /\ Owns(g)
  BY <1>1, BusyOwns DEF Busy
<1>3. /\ pc'[g] = IF writeBuf = <<>> THEN "check" ELSE "write"
      /\ flush'[g] = [noted |-> EvenPlaces(writeBuf), bytes |-> 0]
  BY <1>1, <1>2 DEF Counters
<1>4. Alone(g)
  BY <1>1, <1>2, OtherThread DEF Alone, Counters
<1>5. Run(writeBuf, g, Flushed(g)) /\ Len(writeBuf) = count[g]
  BY <1>1, <1>2 DEF Owns, InBuf
<1>6. EvenPlaces(writeBuf) \subseteq Entries
  BY <1>5 DEF Run, EvenPlaces
<1>7. Counters'
  <2>1. flush' \in [Threads -> [noted : SUBSET Entries, bytes : Nat]]
    BY <1>1, <1>2, <1>6 DEF Counters
  <2>2. pc' \in [Threads -> Pcs]
    BY <1>1, <1>2 DEF Counters, Pcs
  <2>. QED
    BY <1>1, <1>2, <2>1, <2>2 DEF Counters
<1>8. PICK c \in Nat : count[g] = 2 * c /\ serial[g] = Flushed(g) + c
  BY <1>2, CountersOf
<1>9. Flushed(g)' = Flushed(g)
  BY <1>1 DEF Flushed
<1>10. CASE writeBuf = <<>>
  <2>1. count[g] = 0 /\ serial[g] = Flushed(g)
    BY <1>2, <1>5, <1>8, <1>10, CountersOf, Len(<<>>) = 0
  <2>2. /\ InBuf(g)' = 0 /\ Sent(g)' = Sent(g) /\ Returned(g)' = Returned(g)
    BY <1>1, <1>3, <1>9, <1>10, <2>1 DEF InBuf, Sent, Returned
  <2>3. Owns(g)'
    BY <1>1, <1>3, <1>5, <1>9, <1>10, <2>1, <2>2 DEF Owns
  <2>. QED
    BY <1>1, <1>2, <1>4, <1>7, <2>2, <2>3, CalmInMemory, CountersOf
<1>11. CASE writeBuf # <<>>
  <2>1. /\ InBuf(g)' = count[g] /\ Sent(g)' = Sent(g) /\ Returned(g)' = Returned(g)
    BY <1>1, <1>3, <1>9, <1>11 DEF InBuf, Sent, Returned
  <2>2. Owns(g)'
    BY <1>1, <1>3, <1>5, <1>9, <1>11, <2>1 DEF Owns
  <2>. QED
    BY <1>1, <1>2, <1>4, <1>7, <2>1, <2>2, CalmInMemory, CountersOf
<1>. QED
  BY <1>10, <1>11

LEMMA WriteOutStep ==
  ASSUME Calm, NEW g \in Threads, WriteOut(g), ~mixed
  PROVE  Calm'
<1>1. /\ pc[g] = "write" /\ pc' = [pc EXCEPT ![g] = "return"]
      /\ flush' = [flush EXCEPT ![g].bytes = BytesOf(writeBuf)]
      /\ DOMAIN slice' = Threads /\ WriteTo(Len(writeBuf))
      /\ UNCHANGED <<returned, count, serial>>
  BY DEF WriteOut, WriteTo, Go
<1>2. Counters /\ ~Busy(Other(g)) /\ Owns(g)
  BY <1>1, BusyOwns DEF Busy
<1>w. wire' = wire \o writeBuf /\ writeBuf' = <<>>
  <2>1. writeBuf \in Seq(Entries) /\ Len(writeBuf) \in Nat
    BY <1>2, LenProperties DEF Owns, Run
  <2>2. SubSeq(writeBuf, 1, Len(writeBuf)) = writeBuf
    BY <2>1, SubSeqFull
  <2>3. SubSeq(writeBuf, Len(writeBuf) + 1, Len(writeBuf)) = <<>>
    BY <2>1, SubSeqEmpty
  <2>. QED
    BY <1>1, <2>2, <2>3 DEF WriteTo
<1>3. PICK c \in Nat : count[g] = 2 * c /\ serial[g] = Flushed(g) + c
  BY <1>2, CountersOf
<1>4. count[g] \in Nat /\ serial[g] \in Nat /\ Flushed(g) \in Nat
  BY <1>2, CountersOf
<1>5. Run(writeBuf, g, Flushed(g)) /\ Whole(writeBuf, c)
  BY <1>1, <1>2, <1>3 DEF Owns, InBuf, Whole
<1>6. BytesOf(writeBuf) = count[g]
  BY <1>3, <1>4, <1>5, RunBytes DEF Whole
<1>7. pc'[g] = "return" /\ flush'[g] = [noted |-> flush[g].noted, bytes |-> count[g]]
  BY <1>1, <1>2, <1>6 DEF Counters
<1>8. Alone(g)
  BY <1>1, <1>2, OtherThread DEF Alone, Counters
<1>9. Counters'
  <2>1. flush' \in [Threads -> [noted : SUBSET Entries, bytes : Nat]]
    BY <1>1, <1>2, <1>4, <1>6 DEF Counters
  <2>2. pc' \in [Threads -> Pcs] /\ DOMAIN slice' = Threads
    BY <1>1, <1>2 DEF Counters, Pcs
  <2>. QED
    BY <1>1, <1>2, <2>1, <2>2 DEF Counters
<1>10. /\ Flushed(g)' = Flushed(g) /\ InBuf(g)' = 0
       /\ Sent(g) = Flushed(g) /\ Sent(g)' = serial[g]
  BY <1>1, <1>7 DEF InBuf, Flushed, Sent
<1>11. /\ wire' \in Seq(Entries) /\ Paired(wire') /\ InOrder(wire')
       /\ HasFirst(wire', g, Flushed(g) + c)
       /\ \A h \in Threads \ {g}, n \in Nat : HasFirst(wire, h, n) => HasFirst(wire', h, n)
       /\ \A i \in DOMAIN writeBuf : \E j \in DOMAIN wire' : wire'[j] = writeBuf[i]
  <2>1. /\ wire \in Seq(Entries) /\ Paired(wire) /\ InOrder(wire)
        /\ HasFirst(wire, g, Flushed(g))
    BY <1>10 DEF Calm, WireInv
  <2>. QED
    BY <1>w, <1>4, <1>5, <2>1, WireGrows
<1>12. Owns(g)'
  <2>1. \A e \in flush'[g].noted :
          /\ IsHeader(e) /\ e.by = g /\ e.serial \in Flushed(g)..serial[g] - 1
          /\ \E i \in DOMAIN wire' : wire'[i] = e
    <3> SUFFICES ASSUME NEW e \in EvenPlaces(writeBuf)
                 PROVE  /\ IsHeader(e) /\ e.by = g /\ e.serial \in Flushed(g)..serial[g] - 1
                        /\ \E i \in DOMAIN wire' : wire'[i] = e
      BY <1>1, <1>2, <1>7 DEF Owns
    <3>1. /\ IsHeader(e) /\ e.by = g /\ e.serial \in Flushed(g)..Flushed(g) + c - 1
          /\ \E i \in DOMAIN writeBuf : writeBuf[i] = e
      BY <1>4, <1>5, HeadersOfRun
    <3>2. PICK i \in DOMAIN writeBuf : writeBuf[i] = e
      BY <3>1
    <3>3. PICK j \in DOMAIN wire' : wire'[j] = writeBuf[i]
      BY <1>11, <3>2, Zenon
    <3>4. e.serial \in Flushed(g)..serial[g] - 1
      BY <1>3, <1>4, <3>1
    <3>. QED
      BY <3>1, <3>2, <3>3, <3>4
  <2>2. Run(writeBuf, g, Flushed(g))' /\ Len(writeBuf') = 0
    BY <1>w, RunOfNone, Len(<<>>) = 0
  <2>. QED
    BY <1>1, <1>7, <1>10, <2>1, <2>2 DEF Owns
<1>13. PoolInv'
  <2>1. \A h \in Threads : Returned(h)' = Returned(h)
    <3> SUFFICES ASSUME NEW h \in Threads
                 PROVE  Returned(h)' = Returned(h)
      OBVIOUS
    <3>1. pc'[h] = pc[h] \/ (pc[h] = "write" /\ pc'[h] = "return")
      BY <1>1, <1>2 DEF Counters
    <3>. QED
      BY <1>1, <3>1 DEF Returned, Flushed
  <2>. QED
    BY <1>1, <2>1 DEF Calm, PoolInv, Entries
<1>14. HasFirst(wire', g, Sent(g)')
  BY <1>3, <1>10, <1>11
<1>15. \A n \in Nat : HasFirst(wire, Other(g), n) => HasFirst(wire', Other(g), n)
  BY <1>11, OtherThread
<1>. QED
  BY <1>8, <1>9, <1>11, <1>12, <1>13, <1>14, <1>15, CalmStep

(* The headers that g returns are its own, and fewer than it has sent.     *)
LEMMA PoolGrows ==
  ASSUME Calm, NEW g \in Threads, Alone(g), Counters', serial' = serial,
         returned' = returned \cup flush[g].noted, Returned(g)' = serial[g],
         \A e \in flush[g].noted : IsHeader(e) /\ e.by = g /\ e.serial < serial[g]
  PROVE  PoolInv'
<1>1. Counters /\ serial[g] \in Nat /\ Returned(g) \in Nat /\ Returned(g) <= serial[g]
  <2>1. Counters /\ serial[g] \in Nat /\ Returned(g) \in Nat
    BY CountersOf DEF Calm
  <2>2. PICK c \in Nat : serial[g] = Flushed(g) + c
    BY <2>1, CountersOf
  <2>3. Flushed(g) \in Nat
    BY <2>1, CountersOf
  <2>. QED
    BY <2>1, <2>2, <2>3 DEF Returned
<1>2. flush[g].noted \subseteq Entries
  BY <1>1 DEF Counters
<1>3. (Returned(Other(g)))' = Returned(Other(g))
  BY DEF Alone, Returned, Flushed
<1>4. ASSUME NEW e \in returned
      PROVE  IsHeader(e) /\ e.serial < Returned(e.by)'
  <2>1. /\ IsHeader(e) /\ e \in Entries /\ e.by \in Threads /\ e.serial \in Nat
        /\ e.serial < Returned(e.by)
    BY DEF Calm, PoolInv, Entries
  <2>2. CASE e.by = g
    BY <1>1, <2>1, <2>2
  <2>3. CASE e.by = Other(g)
    BY <1>3, <2>1, <2>3
  <2>. QED
    BY <2>1, <2>2, <2>3, OtherThread
<1>5. ASSUME NEW e \in flush[g].noted
      PROVE  IsHeader(e) /\ e.serial < Returned(e.by)'
  OBVIOUS
<1>6. \A e \in returned' : IsHeader(e) /\ e.serial < Returned(e.by)'
  BY <1>4, <1>5
<1>. QED
  BY <1>2, <1>6 DEF Calm, PoolInv

(* What begins like a wire that is whole.                                  *)
LEMMA Prefix ==
  ASSUME NEW w \in Seq(Entries), Paired(w), InOrder(w), NEW v \in Seq(Entries),
         Len(v) <= Len(w), \A i \in 1..Len(v) : v[i] = w[i]
  PROVE  Begun(v)
<1>1. /\ DOMAIN w = 1..Len(w) /\ Len(w) \in Nat
      /\ DOMAIN v = 1..Len(v) /\ Len(v) \in Nat
  BY LenProperties
<1>2. ASSUME NEW i \in DOMAIN v, i % 2 = 1
      PROVE  /\ v[i].part = "header"
             /\ i < Len(v) => /\ v[i + 1].part = "body" /\ v[i].by = v[i + 1].by
                              /\ v[i].serial = v[i + 1].serial
  <2>1. i \in DOMAIN w /\ v[i] = w[i]
    BY <1>1
  <2>2. i < Len(v) => v[i + 1] = w[i + 1]
    BY <1>1
  <2>. QED
    BY <1>2, <2>1, <2>2 DEF Paired
<1>3. ASSUME NEW i \in DOMAIN v, IsHeader(v[i])
      PROVE  /\ \A j \in 1..i - 1 :
                  v[j].part = "header" /\ v[j].by = v[i].by => v[j].serial < v[i].serial
             /\ \A n \in 0..v[i].serial - 1 :
                  \E j \in 1..i - 1 : v[j] = [v[i] EXCEPT !.serial = n]
  <2>1. i \in DOMAIN w /\ v[i] = w[i] /\ \A j \in 1..i - 1 : v[j] = w[j]
    BY <1>1
  <2>. QED
    BY <1>3, <2>1 DEF InOrder
<1>. QED
  BY <1>2, <1>3 DEF Begun, InOrder

LEMMA WholeIsBegun ==
  ASSUME NEW w \in Seq(Entries), Paired(w), InOrder(w)
  PROVE  Begun(w)
BY Prefix, LenProperties

(* A flush that fails leaves the first entries of its chunks on the wire.  *)
LEMMA WriteFailBegun ==
  ASSUME OutInv, NEW g \in Threads, WriteFail(g), ~mixed
  PROVE  Begun(wire')
<1>1. PICK k \in {0} \cup 1..Len(writeBuf) - 1 : (broken => k = 0) /\ WriteTo(k)
  BY DEF WriteFail
<1>2. wire' = wire \o SubSeq(writeBuf, 1, k) /\ Begun(wire) /\ wire \in Seq(Entries)
  BY <1>1 DEF WriteTo, OutInv, Begun
<1>3. CASE k = 0
  <2>1. SubSeq(writeBuf, 1, k) = <<>>
    BY <1>3, SubSeqEmpty
  <2>2. wire \o <<>> = wire
    BY <1>2, ConcatEmptySeq
  <2>. QED
    BY <1>2, <2>1, <2>2
<1>4. CASE k # 0
  <2>1. Calm /\ pc[g] = "write"
    BY <1>1, <1>4 DEF OutInv, WriteFail
  <2>2. Counters /\ Owns(g)
    BY <2>1, BusyOwns DEF Busy
  <2>3. PICK c \in Nat : count[g] = 2 * c /\ serial[g] = Flushed(g) + c
    BY <2>2, CountersOf
  <2>4. /\ Run(writeBuf, g, Flushed(g)) /\ Whole(writeBuf, c) /\ Flushed(g) \in Nat
        /\ writeBuf \in Seq(Entries)
    BY <2>1, <2>2, <2>3, CountersOf DEF Owns, InBuf, Whole, Run
  <2>5. /\ Paired(wire) /\ InOrder(wire) /\ HasFirst(wire, g, Flushed(g))
    BY <2>1 DEF Calm, WireInv, Sent
  <2>6. PICK w \in Seq(Entries) : w = wire \o writeBuf /\ Paired(w) /\ InOrder(w)
    BY <1>2, <2>3, <2>4, <2>5, WireGrows
  <2>7. PICK b \in Seq(Entries) :
          b = SubSeq(writeBuf, 1, k) /\ Len(b) = k /\ \A i \in 1..k : b[i] = writeBuf[i]
    <3>1. Len(writeBuf) \in Nat /\ k \in 1..Len(writeBuf)
      BY <1>4, <2>4, LenProperties
    <3>2. \A i \in 1..k : writeBuf[i] \in Entries
      BY <2>4, <3>1, ElementOfSeq
    <3>3. PICK b : b = SubSeq(writeBuf, 1, k)
      OBVIOUS
    <3>4. /\ b \in Seq(Entries) /\ Len(b) = IF 1 <= k THEN k - 1 + 1 ELSE 0
          /\ \A i \in 1..k - 1 + 1 : b[i] = writeBuf[1 + i - 1]
      BY <3>1, <3>2, <3>3, SubSeqProperties, 1 \in Int, k \in Int
    <3>5. Len(b) = k /\ k - 1 + 1 = k /\ \A i \in 1..k : 1 + i - 1 = i
      BY <3>1, <3>4
    <3>6. \A i \in 1..k : b[i] = writeBuf[i]
      BY <3>4, <3>5
    <3>. QED
      BY <3>3, <3>4, <3>5, <3>6
  <2>8. /\ wire' \in Seq(Entries) /\ Len(wire') = Len(wire) + k
        /\ \A i \in 1..Len(wire) + k :
             wire'[i] = IF i <= Len(wire) THEN wire[i] ELSE b[i - Len(wire)]
    BY <1>2, <2>7, ConcatProperties
  <2>9. /\ Len(w) = Len(wire) + Len(writeBuf)
        /\ \A i \in 1..Len(wire) + Len(writeBuf) :
             w[i] = IF i <= Len(wire) THEN wire[i] ELSE writeBuf[i - Len(wire)]
    BY <1>2, <2>4, <2>6, ConcatProperties
  <2>10. Len(wire) \in Nat /\ Len(writeBuf) \in Nat /\ k \in 1..Len(writeBuf)
    BY <1>2, <1>4, <2>4, LenProperties
  <2>11. Len(wire') <= Len(w)
    BY <2>8, <2>9, <2>10
  <2>12. ASSUME NEW i \in 1..Len(wire')
         PROVE  wire'[i] = w[i]
    <3>1. /\ i \in 1..Len(wire) + k /\ i \in 1..Len(wire) + Len(writeBuf)
          /\ ~(i <= Len(wire)) => i - Len(wire) \in 1..k
      BY <2>8, <2>10
    <3>2. CASE i <= Len(wire)
      BY <2>8, <2>9, <3>1, <3>2
    <3>3. CASE ~(i <= Len(wire))
      BY <2>7, <2>8, <2>9, <3>1, <3>3
    <3>. QED
      BY <3>2, <3>3
  <2>. QED
    BY <2>6, <2>8, <2>11, <2>12, Prefix
<1>. QED
  BY <1>3, <1>4

LEMMA ReturnStep ==
  ASSUME Calm, NEW g \in Threads, Return(g), ~mixed
  PROVE  Calm'
<1>1. /\ pc[g] = "return" /\ pc' = [pc EXCEPT ![g] = "check"]
      /\ returned' = returned \cup flush[g].noted
      /\ flush' = [flush EXCEPT ![g].noted = {}]
      /\ UNCHANGED <<writeBuf, wire, slice, count, serial>>
  BY DEF Return, Go
<1>2. Counters /\ ~Busy(Other(g)) /\ Owns(g)
  BY <1>1, BusyOwns DEF Busy
<1>3. pc'[g] = "check" /\ flush'[g].noted = {} /\ flush'[g].bytes = flush[g].bytes
  BY <1>1, <1>2 DEF Counters
<1>4. Alone(g)
  BY <1>1, <1>2, OtherThread DEF Alone, Counters
<1>5. Counters'
  <2>1. flush' \in [Threads -> [noted : SUBSET Entries, bytes : Nat]]
    BY <1>1, <1>2 DEF Counters
  <2>2. pc' \in [Threads -> Pcs]
    BY <1>1, <1>2 DEF Counters, Pcs
  <2>. QED
    BY <1>1, <1>2, <2>1, <2>2 DEF Counters
<1>6. serial[g] \in Nat /\ Flushed(g) \in Nat
  BY <1>2, CountersOf
<1>7. /\ InBuf(g) = 0 /\ InBuf(g)' = 0 /\ Flushed(g)' = Flushed(g)
      /\ Sent(g)' = Sent(g) /\ Returned(g)' = serial[g]
  BY <1>1, <1>3 DEF InBuf, Flushed, Sent, Returned
<1>8. Owns(g)'
  BY <1>1, <1>2, <1>3, <1>7 DEF Owns
<1>9. \A e \in flush[g].noted : IsHeader(e) /\ e.by = g /\ e.serial < serial[g]
  BY <1>1, <1>2, <1>6 DEF Owns
<1>10. PoolInv'
  BY <1>1, <1>4, <1>5, <1>7, <1>9, PoolGrows
<1>11. /\ wire' = wire /\ wire \in Seq(Entries) /\ Paired(wire) /\ InOrder(wire)
       /\ HasFirst(wire, g, Sent(g))
  BY <1>1 DEF Calm, WireInv
<1>12. HasFirst(wire', g, Sent(g)')
  BY <1>7, <1>11
<1>. QED
  BY <1>4, <1>5, <1>8, <1>10, <1>11, <1>12, CalmStep

(* The bytes that were written are those that were counted.                *)
LEMMA CheckStep ==
  ASSUME Calm, NEW g \in Threads, Check(g)
  PROVE  Calm'
<1>1. /\ pc[g] = "check"
      /\ flush' = [flush EXCEPT ![g] = [noted |-> {}, bytes |-> 0]]
      /\ UNCHANGED <<writeBuf, wire, returned, slice, serial>>
  BY DEF Check
<1>2. Counters /\ ~Busy(Other(g)) /\ Owns(g)
  BY <1>1, BusyOwns DEF Busy
<1>3. /\ count' = [count EXCEPT ![g] = 0]
      /\ pc' = [pc EXCEPT ![g] = IF g = "player" THEN "wait" ELSE "read"]
  BY <1>1, <1>2 DEF Owns, Check, Go
<1>4. pc'[g] \in {"wait", "read"} /\ count'[g] = 0
  BY <1>2, <1>3 DEF Counters
<1>5. Alone(g)
  BY <1>1, <1>2, <1>3, OtherThread DEF Alone, Counters
<1>6. serial[g] \in Nat
  BY <1>2, CountersOf
<1>7. Counters'
  <2>1. flush' \in [Threads -> [noted : SUBSET Entries, bytes : Nat]]
    BY <1>1, <1>2 DEF Counters
  <2>2. pc' \in [Threads -> Pcs] /\ count' \in [Threads -> Nat]
    BY <1>2, <1>3 DEF Counters, Pcs
  <2>3. \A h \in Threads : \E c \in 0..serial'[h] : count'[h] = 2 * c
    <3> SUFFICES ASSUME NEW h \in Threads
                 PROVE  \E c \in 0..serial'[h] : count'[h] = 2 * c
      OBVIOUS
    <3>1. CASE h = g
      <4>1. 0 \in 0..serial'[g] /\ count'[g] = 2 * 0
        BY <1>1, <1>4, <1>6
      <4>. QED
        BY <3>1, <4>1
    <3>2. CASE h # g
      BY <1>1, <1>2, <1>3, <3>2 DEF Counters
    <3>. QED
      BY <3>1, <3>2
  <2>. QED
    BY <1>1, <1>2, <2>1, <2>2, <2>3 DEF Counters
<1>8. Flushed(g)' = serial[g]
  <2>1. 0 \div 2 = 0
    OBVIOUS
  <2>. QED
    BY <1>1, <1>4, <1>6, <2>1 DEF Flushed
<1>9. /\ InBuf(g) = 0 /\ InBuf(g)' = 0
      /\ Sent(g)' = Sent(g) /\ Returned(g)' = Returned(g)
  BY <1>1, <1>4, <1>8 DEF InBuf, Sent, Returned
<1>10. Owns(g)'
  <2>1. writeBuf' = <<>>
    BY <1>1, <1>2, <1>9, EmptyRun DEF Owns
  <2>2. Run(writeBuf, g, Flushed(g))' /\ Len(writeBuf') = 0
    BY <2>1, RunOfNone, Len(<<>>) = 0
  <2>. QED
    BY <1>4, <1>9, <2>2 DEF Owns
<1>. QED
  BY <1>1, <1>2, <1>5, <1>7, <1>9, <1>10, CalmInMemory, CountersOf

-----------------------------------------------------------------------------
(***************************************************************************)
(* The other steps.                                                        *)
(***************************************************************************)

Resting == {"off", "join", "loop", "wait", "read", "report", "done"}

(* A goroutine begins to send or to flush, and the other one is idle.      *)
LEMMA EnterStep ==
  ASSUME Calm, NEW g \in Threads, ~(Busy("player") /\ Busy("reader"))',
         pc[g] \in {"join", "loop", "wait", "read"},
         NEW to \in {"header", "note"}, Go(g, to),
         UNCHANGED <<writeBuf, wire, returned, slice, flush, count, serial>>
  PROVE  Calm'
<1>1. /\ pc' = [pc EXCEPT ![g] = to]
      /\ UNCHANGED <<writeBuf, wire, returned, slice, flush, count, serial>>
  BY DEF Go
<1>2. Counters /\ \A h \in Threads : Busy(Other(h)) \/ Owns(h)
  BY DEF Calm
<1>3. /\ pc'[g] = to /\ Other(g) \in Threads /\ Other(g) # g
      /\ pc'[Other(g)] = pc[Other(g)]
  BY <1>1, <1>2, OtherThread DEF Counters
<1>4. ~Busy(Other(g)) /\ Owns(g)
  <2>1. (Busy(g))'
    BY <1>3 DEF Busy
  <2>2. ~(Busy(Other(g)))'
    BY <2>1 DEF Other, Threads
  <2>3. ~Busy(Other(g))
    BY <1>1, <1>3, <2>2 DEF Busy
  <2>. QED
    BY <1>2, <2>3
<1>5. Alone(g)
  BY <1>1, <1>3, <1>4 DEF Alone
<1>6. Counters'
  <2>1. pc' \in [Threads -> Pcs]
    BY <1>1, <1>2 DEF Counters, Pcs
  <2>. QED
    BY <1>1, <1>2, <2>1 DEF Counters
<1>7. /\ InBuf(g)' = InBuf(g) /\ Flushed(g)' = Flushed(g)
      /\ Sent(g)' = Sent(g) /\ Returned(g)' = Returned(g)
  BY <1>1, <1>3 DEF InBuf, Flushed, Sent, Returned
<1>8. Owns(g)'
  BY <1>1, <1>3, <1>4, <1>7 DEF Owns
<1>. QED
  BY <1>1, <1>2, <1>5, <1>6, <1>7, <1>8, CalmInMemory, CountersOf

(* Nothing moves but goroutines that neither send nor flush.               *)
LEMMA RestStep ==
  ASSUME Calm, pc' \in [Threads -> Pcs],
         UNCHANGED <<writeBuf, wire, returned, slice, flush, count, serial>>,
         \A h \in Threads : pc'[h] = pc[h] \/ {pc[h], pc'[h]} \subseteq Resting
  PROVE  Calm'
<1>1. UNCHANGED <<writeBuf, wire, returned, slice, flush, count, serial>>
  OBVIOUS
<1>2. Counters
  BY DEF Calm
<1>3. Counters'
  BY <1>1, <1>2 DEF Counters
<1>4. ASSUME NEW h \in Threads
      PROVE  /\ Busy(h)' = Busy(h) /\ InBuf(h)' = InBuf(h)
             /\ Flushed(h)' = Flushed(h) /\ Sent(h)' = Sent(h)
  BY <1>1 DEF Resting, Busy, InBuf, Flushed, Sent
<1>5. ASSUME NEW h \in Threads
      PROVE  Returned(h)' >= Returned(h)
  <2>1. serial[h] \in Nat /\ Flushed(h) \in Nat /\ Flushed(h) <= serial[h]
    <3>1. serial[h] \in Nat /\ Flushed(h) \in Nat
      BY <1>2, CountersOf
    <3>2. PICK c \in Nat : serial[h] = Flushed(h) + c
      BY <1>2, CountersOf
    <3>. QED
      BY <3>1, <3>2
  <2>2. serial'[h] = serial[h] /\ Flushed(h)' = Flushed(h)
    BY <1>1, <1>4
  <2>3. pc'[h] = "check" \/ pc[h] # "check"
    BY DEF Resting
  <2>. QED
    BY <2>1, <2>2, <2>3 DEF Returned
<1>6. ~(Busy("player") /\ Busy("reader"))'
  BY <1>4 DEF Calm, Threads
<1>7. ASSUME NEW h \in Threads
      PROVE  Busy(Other(h))' \/ Owns(h)'
  <2>1. CASE Busy(Other(h))
    BY <1>4, <2>1, OtherThread
  <2>2. CASE Owns(h)
    <3>1. /\ pc'[h] \in {"putHeader", "putBody"} => pc[h] \in {"putHeader", "putBody"}
          /\ pc'[h] = "write" => pc[h] = "write"
          /\ pc'[h] = "return" => pc[h] = "return"
          /\ pc'[h] \in {"return", "check"} => pc[h] \in {"return", "check"}
      BY DEF Resting
    <3>. QED
      BY <1>1, <1>4, <2>2, <3>1 DEF Owns
  <2>. QED
    BY <2>1, <2>2 DEF Calm
<1>8. WireInv'
  <2>1. \A h \in Threads : HasFirst(wire, h, Sent(h))'
    <3> SUFFICES ASSUME NEW h \in Threads
                 PROVE  HasFirst(wire, h, Sent(h))'
      OBVIOUS
    <3>. QED
      BY <1>1, <1>4 DEF Calm, WireInv
  <2>. QED
    BY <1>1, <2>1 DEF Calm, WireInv
<1>9. PoolInv'
  <2>1. ASSUME NEW e \in returned
        PROVE  IsHeader(e) /\ e.serial < Returned(e.by)'
    <3>1. /\ IsHeader(e) /\ e.by \in Threads /\ e.serial \in Nat
          /\ e.serial < Returned(e.by)
      BY DEF Calm, PoolInv, Entries
    <3>2. Returned(e.by) \in Nat /\ (Returned(e.by))' \in Nat
      <4>1. serial[e.by] \in Nat /\ Flushed(e.by) \in Nat
        BY <1>2, <3>1, CountersOf
      <4>2. (Returned(e.by))' \in Nat
        BY <1>1, <1>4, <3>1, <4>1 DEF Returned
      <4>. QED
        BY <1>2, <3>1, <4>2, CountersOf
    <3>. QED
      BY <1>5, <3>1, <3>2
  <2>2. \A e \in returned' : IsHeader(e) /\ e.serial < Returned(e.by)'
    BY <1>1, <2>1
  <2>. QED
    BY <1>1, <2>2 DEF Calm, PoolInv
<1>. QED
  BY <1>3, <1>6, <1>7, <1>8, <1>9 DEF Calm

(* The steps of the player between packets, and of the reader between      *)
(* commands, other than beginning to send or to flush.                     *)
Between ==
  \/ StartReader \/ TakeError \/ StopPlaying \/ ReadFail \/ Cancelled
  \/ pc["player"] = "loop" /\ Go("player", "wait")

LEMMA BetweenStep ==
  ASSUME Calm, Between,
         UNCHANGED <<writeBuf, wire, returned, slice, flush, count, serial>>,
         StartReader => pc["reader"] = "off"
  PROVE  Calm'
<1>1. pc \in [Threads -> Pcs]
  BY DEF Calm, Counters
<1>2. /\ pc' \in [Threads -> Pcs]
      /\ \A h \in Threads : pc'[h] = pc[h] \/ {pc[h], pc'[h]} \subseteq Resting
  <2>1. CASE StartReader
    BY <1>1, <2>1 DEF StartReader, Pcs, Resting, Threads
  <2>2. CASE TakeError
    BY <1>1, <2>2 DEF TakeError, Pcs, Resting, Threads
  <2>3. CASE StopPlaying
    BY <1>1, <2>3 DEF StopPlaying, Fail, Go, Pcs, Resting, Threads
  <2>4. CASE ReadFail
    BY <1>1, <2>4 DEF ReadFail, Fail, Go, Pcs, Resting, Threads
  <2>5. CASE Cancelled
    BY <1>1, <2>5 DEF Cancelled, Go, Pcs, Resting, Threads
  <2>6. CASE pc["player"] = "loop" /\ Go("player", "wait")
    BY <1>1, <2>6 DEF Go, Pcs, Resting, Threads
  <2>. QED
    BY <2>1, <2>2, <2>3, <2>4, <2>5, <2>6 DEF Between
<1>. QED
  BY <1>2, RestStep

(* Once the reader has been started, the player never starts it again.     *)
LifeInv ==
  /\ pc \in [Threads -> Pcs]
  /\ pc["player"] = "join" => pc["reader"] = "off"
  /\ base \in [{"audio", "video"} -> 0..TimeMod - 1]

LEMMA StampInRange ==
  ASSUME NEW t \in Nat, NEW s \in Int
  PROVE  t < TimeMod => t \in 0..TimeMod - 1 /\ (s + Jump) % TimeMod \in 0..TimeMod - 1
<1>1. TimeMod \in Nat \ {0} /\ Jump \in Nat
  BY OutputAssumption
<1>2. (s + Jump) % TimeMod \in 0..TimeMod - 1
  BY <1>1
<1>. QED
  BY <1>1, <1>2

LEMMA TakeBase ==
  ASSUME LifeInv, NEW kind \in Kinds, NEW t \in Times, NEW n, Take(kind, t, n)
  PROVE  base' \in [{"audio", "video"} -> 0..TimeMod - 1]
<1>1. TimeMod \in Nat \ {0} /\ t \in 0..TimeMod - 1
  BY OutputAssumption
<1>2. BaseTime \in Int
  BY <1>1 DEF BaseTime, Later, LifeInv
<1>3. (BaseTime + Jump) % TimeMod \in 0..TimeMod - 1
  BY <1>1, <1>2, StampInRange
<1>. QED
  BY <1>1, <1>3 DEF LifeInv, Take, Stamp, Kinds

LEMMA LifeInvariant == Spec => []LifeInv
<1>1. Init => LifeInv
  BY OutputAssumption DEF Init, LifeInv, Pcs, Threads
<1>2. LifeInv /\ [Next]_vars => LifeInv'
  <2> SUFFICES ASSUME LifeInv, [Next]_vars
               PROVE  LifeInv'
    OBVIOUS
  <2>1. CASE UNCHANGED vars
    BY <2>1 DEF vars, LifeInv
  <2>2. ASSUME NEW g \in Threads,
               \/ ReadSlice(g) \/ PutHeader(g) \/ Note(g) \/ WriteOut(g) \/ WriteFail(g)
               \/ Return(g) \/ Check(g)
        PROVE  LifeInv'
    <3>1. base' = base
      BY <2>2 DEF ReadSlice, PutHeader, Note, WriteOut, WriteFail, Return, Check
    <3>2. PICK to \in Pcs \ {"off", "join"} : pc' = [pc EXCEPT ![g] = to]
      <4>1. pc[g] # "off"
        BY <2>2 DEF ReadSlice, PutHeader, Note, WriteOut, WriteFail, Return, Check
      <4>2. CASE ReadSlice(g) \/ PutHeader(g) \/ Note(g)
        BY <4>2 DEF ReadSlice, PutHeader, Note, Go, Pcs
      <4>3. CASE WriteOut(g) \/ WriteFail(g) \/ Return(g)
        BY <4>3 DEF WriteOut, WriteFail, Return, Go, Pcs
      <4>4. CASE Check(g)
        BY <4>4 DEF Check, Fail, Go, Pcs
      <4>. QED
        BY <2>2, <4>2, <4>3, <4>4
    <3>3. pc[g] # "off"
      BY <2>2 DEF ReadSlice, PutHeader, Note, WriteOut, WriteFail, Return, Check
    <3>. QED
      BY <3>1, <3>2, <3>3 DEF LifeInv, Threads
  <2>3. ASSUME NEW g \in Threads, PutBody(g)
        PROVE  LifeInv'
    <3>1. base' = base /\ pc[g] = "putBody"
      BY <2>3 DEF PutBody
    <3>2. \/ pc' = [pc EXCEPT ![g] = "header"]
          \/ pc' = [pc EXCEPT ![g] = AfterMessage(g)]
      BY <2>3 DEF PutBody, Go
    <3>3. /\ AfterMessage(g) \in {"header", "note", "join", "loop"}
          /\ AfterMessage(g) = "join" => g = "player" /\ pc["reader"] = "off"
      BY DEF AfterMessage, Threads
    <3>. QED
      BY <3>1, <3>2, <3>3 DEF LifeInv, Threads, Pcs
  <2>4. ASSUME NEW kind \in Kinds, NEW t \in Times, NEW n, Take(kind, t, n)
        PROVE  LifeInv'
    <3>1. pc' = [pc EXCEPT !["player"] = "header"]
      BY <2>4 DEF Take, Go
    <3>. QED
      BY <2>4, <3>1, TakeBase DEF LifeInv, Threads, Pcs
  <2>5. CASE StartReader
    BY <2>5 DEF LifeInv, StartReader, Threads, Pcs
  <2>6. CASE FlushOrWait
    BY <2>6 DEF LifeInv, FlushOrWait, Go, Threads, Pcs
  <2>7. CASE TakeError
    BY <2>7 DEF LifeInv, TakeError, Threads, Pcs
  <2>8. CASE StopPlaying
    BY <2>8 DEF LifeInv, StopPlaying, Fail, Go, Threads, Pcs
  <2>9. ASSUME NEW cmd \in Commands, Answer(cmd)
        PROVE  LifeInv'
    BY <2>9 DEF LifeInv, Answer, Go, Threads, Pcs
  <2>10. CASE ReadFail
    BY <2>10 DEF LifeInv, ReadFail, Fail, Go, Threads, Pcs
  <2>11. CASE Cancelled
    BY <2>11 DEF LifeInv, Cancelled, Go, Threads, Pcs
  <2>. QED
    BY <2>1, <2>2, <2>3, <2>4, <2>5, <2>6, <2>7, <2>8, <2>9, <2>10, <2>11
    DEF Next, Step
<1>. QED
  BY <1>1, <1>2, PTL DEF Spec

-----------------------------------------------------------------------------
(***************************************************************************)
(* The invariant and the theorems.                                         *)
(***************************************************************************)

LEMMA CalmAtStart == Init => Calm
<1> SUFFICES ASSUME Init
             PROVE  Calm
  OBVIOUS
<1>1. /\ writeBuf = <<>> /\ wire = <<>> /\ returned = {}
      /\ pc = [player |-> "join", reader |-> "off"]
      /\ slice = [g \in Threads |-> <<>>]
      /\ flush = [g \in Threads |-> [noted |-> {}, bytes |-> 0]]
      /\ count = [g \in Threads |-> 0] /\ serial = [g \in Threads |-> 0]
  BY DEF Init
<1>2. pc \in [Threads -> {"join", "off"}] /\ {"join", "off"} \subseteq Pcs
  BY <1>1 DEF Threads, Pcs
<1>3. Counters
  <2>1. 0 \in 0..0 /\ 0 = 2 * 0
    OBVIOUS
  <2>. QED
    BY <1>1, <1>2, <2>1 DEF Counters
<1>4. 0 \div 2 = 0
  OBVIOUS
<1>5. ASSUME NEW g \in Threads
      PROVE  ~Busy(g) /\ InBuf(g) = 0 /\ Flushed(g) = 0 /\ Sent(g) = 0 /\ pc[g] \in {"join", "off"}
  <2>1. pc[g] \in {"join", "off"} /\ count[g] = 0 /\ serial[g] = 0
    BY <1>1, <1>2
  <2>. QED
    BY <1>4, <2>1 DEF Busy, InBuf, Flushed, Sent
<1>6. ASSUME NEW g \in Threads
      PROVE  Owns(g)
  <2>1. Len(writeBuf) = 0 /\ Run(writeBuf, g, Flushed(g))
    BY <1>1, RunOfNone, Len(<<>>) = 0
  <2>. QED
    BY <1>5, <2>1 DEF Owns
<1>7. WireInv
  <2>1. wire \in Seq(Entries) /\ Len(wire) = 0 /\ DOMAIN wire = {}
    BY <1>1, Len(<<>>) = 0
  <2>2. Len(wire) % 2 = 0
    BY <2>1
  <2>3. \A g \in Threads : HasFirst(wire, g, Sent(g))
    BY <1>5, <2>1 DEF HasFirst
  <2>. QED
    BY <2>1, <2>2, <2>3 DEF WireInv, Paired, InOrder
<1>8. PoolInv
  BY <1>1 DEF PoolInv
<1>. QED
  BY <1>3, <1>5, <1>6, <1>7, <1>8 DEF Calm, Threads

(* Most steps write nothing.                                               *)
LEMMA WritesNothing ==
  ASSUME Step, \A g \in Threads : ~WriteOut(g) /\ ~WriteFail(g)
  PROVE  wire' = wire
BY DEF Step, ReadSlice, PutHeader, PutBody, Note, Return, Check, Take, StartReader,
       FlushOrWait, TakeError, StopPlaying, Answer, ReadFail, Cancelled

(* A step that leaves the socket whole and the goroutines apart.           *)
LEMMA StepKeepsCalm ==
  ASSUME LifeInv, Calm, ~mixed, Step, ~broken', ~(Busy("player") /\ Busy("reader"))'
  PROVE  Calm'
<1>1. ASSUME NEW g \in Threads,
             \/ ReadSlice(g) \/ PutHeader(g) \/ PutBody(g)
             \/ Note(g) \/ WriteOut(g) \/ WriteFail(g) \/ Return(g) \/ Check(g)
      PROVE  Calm'
  <2>1. ~WriteFail(g)
    BY DEF WriteFail
  <2>. QED
    BY <1>1, <2>1, ReadSliceStep, PutHeaderStep, PutBodyStep, NoteStep, WriteOutStep,
       ReturnStep, CheckStep
<1>2. ASSUME NEW kind \in Kinds, NEW t \in Times, NEW n, Take(kind, t, n)
      PROVE  Calm'
  <2>1. /\ pc["player"] \in {"join", "wait"} /\ Go("player", "header")
        /\ UNCHANGED <<writeBuf, wire, returned, slice, flush, count, serial>>
    BY <1>2 DEF Take
  <2>. QED
    BY <2>1, EnterStep DEF Threads
<1>3. ASSUME NEW cmd \in Commands, Answer(cmd)
      PROVE  Calm'
  <2>1. /\ pc["reader"] = "read" /\ Go("reader", "header")
        /\ UNCHANGED <<writeBuf, wire, returned, slice, flush, count, serial>>
    BY <1>3 DEF Answer
  <2>. QED
    BY <2>1, EnterStep DEF Threads
<1>4. CASE FlushOrWait
  <2>1. /\ pc["player"] = "loop"
        /\ Go("player", "note") \/ Go("player", "wait")
        /\ UNCHANGED <<writeBuf, wire, returned, slice, flush, count, serial>>
    BY <1>4 DEF FlushOrWait
  <2>2. CASE Go("player", "note")
    BY <2>1, <2>2, EnterStep DEF Threads
  <2>3. CASE Go("player", "wait")
    BY <2>1, <2>3, BetweenStep DEF Between, LifeInv, StartReader
  <2>. QED
    BY <2>1, <2>2, <2>3
<1>5. CASE StartReader \/ TakeError \/ StopPlaying \/ ReadFail \/ Cancelled
  <2>1. UNCHANGED <<writeBuf, wire, returned, slice, flush, count, serial>>
    BY <1>5 DEF StartReader, TakeError, StopPlaying, ReadFail, Cancelled
  <2>2. StartReader => pc["reader"] = "off"
    BY DEF LifeInv, StartReader
  <2>. QED
    BY <1>5, <2>1, <2>2, BetweenStep DEF Between
<1>. QED
  BY <1>1, <1>2, <1>3, <1>4, <1>5 DEF Step

LEMMA OutInvariant == Spec => []OutInv
<1>1. Init => OutInv
  BY CalmAtStart, WholeIsBegun DEF OutInv, Calm, WireInv
<1>2. LifeInv /\ OutInv /\ [Next]_vars => OutInv'
  <2> SUFFICES ASSUME LifeInv, OutInv, [Next]_vars, ~mixed'
               PROVE  Begun(wire') /\ (~broken' => Calm')
    BY DEF OutInv
  <2>1. CASE UNCHANGED vars
    <3>1. Begun(wire) /\ (~broken => Calm) /\ wire' = wire /\ broken' = broken
      BY <2>1 DEF vars, OutInv
    <3>2. /\ UNCHANGED <<writeBuf, wire, returned, slice, flush, count, serial>>
          /\ pc' = pc /\ pc \in [Threads -> Pcs]
      BY <2>1 DEF vars, LifeInv
    <3>. QED
      BY <3>1, <3>2, RestStep
  <2>2. CASE Next
    <3>1. ~mixed /\ Step /\ (~broken' => ~(Busy("player") /\ Busy("reader"))')
      BY <2>2 DEF Next, Meet, Threads
    <3>2. Begun(wire) /\ (~broken => Calm)
      BY <3>1 DEF OutInv
    <3>3. broken => broken'
      BY <3>1 DEF Step, ReadSlice, PutHeader, PutBody, Note, WriteOut, WriteFail, Return, Check,
             Fail, Take, StartReader, FlushOrWait, TakeError, StopPlaying, Answer, ReadFail,
             Cancelled
    <3>4. ~broken' => Calm'
      BY <3>1, <3>2, <3>3, StepKeepsCalm
    <3>5. Begun(wire')
      <4>1. ASSUME NEW g \in Threads, WriteOut(g)
            PROVE  Begun(wire')
        <5>1. ~broken'
          BY <4>1 DEF WriteOut
        <5>. QED
          BY <3>4, <5>1, WholeIsBegun DEF Calm, WireInv
      <4>2. ASSUME NEW g \in Threads, WriteFail(g)
            PROVE  Begun(wire')
        BY <3>1, <4>2, WriteFailBegun
      <4>. QED
        BY <3>1, <3>2, <4>1, <4>2, WritesNothing
    <3>. QED
      BY <3>4, <3>5
  <2>. QED
    BY <2>1, <2>2
<1>. QED
  BY <1>1, <1>2, LifeInvariant, PTL DEF Spec

(* What the client receives is whole: each goroutine's chunks arrive in    *)
(* order, none twice and none left out, every header in front of its own   *)
(* body, as long as SendIntegralMessage of one goroutine never meets       *)
(* unflushed chunks of the other; and if a write fails, it has received    *)
(* the first of these entries.                                             *)
THEOREM WireIsWhole == Spec => []WireWhole
<1>1. OutInv => WireWhole
  <2> SUFFICES ASSUME OutInv, ~mixed
               PROVE  WireWhole
    BY DEF WireWhole
  <2>1. Begun(wire) /\ (~broken => Len(wire) % 2 = 0)
    BY DEF OutInv, Calm, WireInv, Paired
  <2>. QED
    BY <2>1 DEF Begun, InOrder, WireWhole
<1>. QED
  BY <1>1, OutInvariant, PTL

(* As long as no write has failed, Flush's deferred calls return header    *)
(* buffers only, each once and after it was written and has left writeBuf; *)
(* the first flush that fails returns header buffers for the first time.   *)
THEOREM BuffersReturnedOnce == Spec => []ReturnedOnce
<1>1. OutInv => ReturnedOnce
  <2> SUFFICES ASSUME Calm
               PROVE  ReturnedOnce
    BY DEF OutInv, ReturnedOnce
  <2>1. ASSUME NEW e \in returned
        PROVE  /\ IsHeader(e)
               /\ \E i \in DOMAIN wire : wire[i] = e
               /\ \A i \in DOMAIN writeBuf : writeBuf[i] # e
    <3>1. IsHeader(e) /\ e \in Entries /\ e.serial < Returned(e.by)
      BY DEF Calm, PoolInv
    <3>2. /\ e.by \in Threads /\ e.serial \in Nat
          /\ e = [part |-> "header", by |-> e.by, serial |-> e.serial]
      BY <3>1 DEF Entries, IsHeader
    <3>3. Returned(e.by) <= Sent(e.by) /\ Returned(e.by) \in Nat /\ Sent(e.by) \in Nat
      <4>1. /\ serial[e.by] \in Nat /\ Flushed(e.by) \in Nat
            /\ \E c \in Nat : serial[e.by] = Flushed(e.by) + c
        BY <3>2, CountersOf DEF Calm
      <4>. QED
        BY <4>1 DEF Returned, Sent
    <3>4. \E i \in DOMAIN wire : wire[i] = e
      <4>1. e.serial \in 0..Sent(e.by) - 1
        BY <3>1, <3>2, <3>3
      <4>2. HasFirst(wire, e.by, Sent(e.by))
        BY <3>2 DEF Calm, WireInv
      <4>3. \E i \in DOMAIN wire :
              wire[i] = [part |-> "header", by |-> e.by, serial |-> e.serial]
        BY <4>1, <4>2 DEF HasFirst
      <4>. QED
        BY <3>2, <4>3
    <3>5. PICK g \in Threads : Owns(g)
      BY OtherThread DEF Calm, Threads, Other
    <3>6. ASSUME NEW i \in DOMAIN writeBuf, writeBuf[i] = e
          PROVE  FALSE
      <4>1. /\ Run(writeBuf, g, Flushed(g)) /\ Len(writeBuf) = InBuf(g)
            /\ Flushed(g) \in Nat /\ serial[g] \in Nat
        BY <3>5, CountersOf DEF Owns, Calm
      <4>2. i \in 1..Len(writeBuf) /\ Len(writeBuf) \in Nat
        BY <3>6, <4>1, LenProperties DEF Run
      <4>3. writeBuf[i].by = g /\ writeBuf[i].serial = Flushed(g) + ((i - 1) \div 2)
        <5>1. writeBuf[i] = Nth(g, Flushed(g), i)
          BY <4>1, <4>2 DEF Run
        <5>2. PICK d : d = (i - 1) \div 2
          OBVIOUS
        <5>3. PICK p : p = IF i % 2 = 1 THEN "header" ELSE "body"
          OBVIOUS
        <5>4. writeBuf[i] = [part |-> p, by |-> g, serial |-> Flushed(g) + d]
          BY <5>1, <5>2, <5>3 DEF Nth
        <5>. QED
          BY <5>2, <5>4
      <4>4. (i - 1) \div 2 \in Nat
        BY <4>2
      <4>5. e.by = g /\ e.serial >= Flushed(g)
        BY <3>6, <4>1, <4>3, <4>4
      <4>6. pc[g] = "check"
        BY <3>1, <3>2, <4>1, <4>5 DEF Returned
      <4>. QED
        BY <4>1, <4>2, <4>6 DEF InBuf
    <3>. QED
      BY <3>1, <3>4, <3>6
  <2>2. ASSUME NEW g \in Threads, pc[g] \in {"write", "return"}, NEW e \in flush[g].noted
        PROVE  IsHeader(e) /\ e \notin returned
    <3>1. Counters /\ Owns(g)
      BY <2>2, BusyOwns DEF Busy
    <3>2. PICK c \in Nat : count[g] = 2 * c /\ serial[g] = Flushed(g) + c
      BY <3>1, CountersOf
    <3>3. Flushed(g) \in Nat /\ count[g] \in Nat
      BY <3>1, CountersOf
    <3>4. IsHeader(e) /\ e.by = g /\ e.serial \in Flushed(g)..serial[g] - 1
      <4>1. CASE pc[g] = "return"
        BY <3>1, <4>1 DEF Owns
      <4>2. CASE pc[g] = "write"
        <5>1. /\ flush[g].noted = EvenPlaces(writeBuf)
              /\ Run(writeBuf, g, Flushed(g)) /\ Whole(writeBuf, c)
          BY <3>1, <3>2, <4>2 DEF Owns, InBuf, Whole
        <5>2. IsHeader(e) /\ e.by = g /\ e.serial \in Flushed(g)..Flushed(g) + c - 1
          BY <3>3, <5>1, HeadersOfRun
        <5>. QED
          BY <3>2, <3>3, <5>2
      <4>. QED
        BY <2>2, <4>1, <4>2
    <3>5. e \in returned => e.serial < Flushed(g)
      BY <2>2, <3>4 DEF Calm, PoolInv, Returned
    <3>. QED
      BY <3>3, <3>4, <3>5
  <2>. QED
    BY <2>1, <2>2 DEF ReturnedOnce
<1>. QED
  BY <1>1, OutInvariant, PTL

(* flushAvPacket and the handlers find that Flush has written as many      *)
(* bytes as they have sent, as long as the connection is not broken.       *)
THEOREM CountsAlwaysAgree == Spec => []CountsAgree
<1>1. OutInv => CountsAgree
  <2> SUFFICES ASSUME Calm, NEW g \in Threads, pc[g] = "check"
               PROVE  flush[g].bytes = count[g]
    BY DEF OutInv, CountsAgree
  <2>. QED
    BY BusyOwns DEF Busy, Owns
<1>. QED
  BY <1>1, OutInvariant, PTL

(* sendAvPacket never lets the later of the last audio and video           *)
(* timestamps go back, until adding the 40 ms passes 2^32.                 *)
THEOREM StampsNeverDecrease == Spec => StampsIncrease
<1>1. LifeInv /\ [Next]_vars =>
        [LET last == Later(base.audio, base.video)
         IN  last + Jump < TimeMod => Later(base'.audio, base'.video) >= last]_base
  <2> SUFFICES ASSUME LifeInv, Step, base' # base,
                      Later(base.audio, base.video) + Jump < TimeMod
               PROVE  Later(base'.audio, base'.video) >= Later(base.audio, base.video)
    BY DEF vars, Next
  <2>1. PICK kind \in Kinds, t \in Times, n \in 1..MaxChunks : Take(kind, t, n)
    BY DEF Step, ReadSlice, PutHeader, PutBody, Note, WriteOut, WriteFail, Return, Check,
           StartReader, FlushOrWait, TakeError, StopPlaying, Answer, ReadFail, Cancelled
  <2>2. /\ TimeMod \in Nat \ {0} /\ Jump \in Nat \ {0} /\ t \in 0..TimeMod - 1
        /\ base \in [{"audio", "video"} -> 0..TimeMod - 1]
    BY OutputAssumption DEF LifeInv
  <2>3. BaseTime \in Nat /\ BaseTime + Jump < TimeMod
        /\ BaseTime >= base.audio /\ BaseTime >= base.video
    BY <2>2 DEF BaseTime, Later
  <2>4. (BaseTime + Jump) % TimeMod = BaseTime + Jump
    BY <2>2, <2>3
  <2>5. PICK stamp \in Nat : stamp >= BaseTime /\ base' = [base EXCEPT ![kind] = stamp]
    <3> DEFINE stamp == Stamp(t)
    <3>1. base' = [base EXCEPT ![kind] = stamp]
      BY <2>1 DEF Take
    <3>2. stamp \in Nat /\ stamp >= BaseTime
      BY <2>2, <2>3, <2>4 DEF Stamp
    <3>. QED
      BY <3>1, <3>2
  <2>6. CASE kind = "audio"
    BY <2>2, <2>3, <2>5, <2>6 DEF Later, BaseTime
  <2>7. CASE kind = "video"
    BY <2>2, <2>3, <2>5, <2>7 DEF Later, BaseTime
  <2>. QED
    BY <2>1, <2>6, <2>7 DEF Kinds, Take
<1>. QED
  BY <1>1, LifeInvariant, PTL DEF Spec, StampsIncrease
=============================================================================
