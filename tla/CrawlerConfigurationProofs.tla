---------------------- MODULE CrawlerConfigurationProofs ----------------------
(***************************************************************************)
(* The verdict of the user agent validation for every string, and what     *)
(* follows for the user agents that crawlers advertise.                    *)
(***************************************************************************)
EXTENDS CrawlerConfiguration, FiniteSetTheorems, SequenceTheorems, TLAPS

(***************************************************************************)
(* The validation.  A string of the format is cut at one place, into the   *)
(* name and the version it was put together from (FormatIsCut); a string   *)
(* that passes the first checks is put together from its two parts         *)
(* (CutIsFormat).                                                          *)
(***************************************************************************)
\* What the slice between the slashes holds.
LEMMA SliceShape ==
  ASSUME NEW s \in String, Len(s) >= 2
  PROVE  /\ slice(s) \in String
         /\ Len(slice(s)) = Len(s) - 2
         /\ \A i \in 1..(Len(s) - 2) : slice(s)[i] = s[i + 1]
<1>. DEFINE C == Char \cup {"/", ":"}
<1>1. s \in Seq(C) /\ Len(s) \in Nat /\ \A i \in 2..(Len(s) - 1) : s[i] \in C
  BY DEF String
<1>2. /\ SubSeq(s, 2, Len(s) - 1) \in Seq(C)
      /\ Len(SubSeq(s, 2, Len(s) - 1)) = IF 2 <= Len(s) - 1 THEN (Len(s) - 1) - 2 + 1 ELSE 0
      /\ \A i \in 1..((Len(s) - 1) - 2 + 1) : SubSeq(s, 2, Len(s) - 1)[i] = s[2 + i - 1]
  <2>. HIDE DEF C
  <2>1. Len(s) - 1 \in Int /\ 2 \in Int
    BY <1>1
  <2>. QED  BY <1>1, <2>1, SubSeqProperties
<1>3. slice(s) \in String
  BY <1>2 DEF slice, String
<1>4. Len(slice(s)) = Len(s) - 2
  <2>. DEFINE t == SubSeq(s, 2, Len(s) - 1)
  <2>1. Len(t) = IF 2 <= Len(s) - 1 THEN (Len(s) - 1) - 2 + 1 ELSE 0
    BY <1>2
  <2>2. slice(s) = t
    BY DEF slice
  <2>. HIDE DEF t
  <2>. QED  BY <1>1, <2>1, <2>2
<1>5. ASSUME NEW i \in 1..(Len(s) - 2)
      PROVE  slice(s)[i] = s[i + 1]
  <2>1. i \in 1..((Len(s) - 1) - 2 + 1) /\ 2 + i - 1 = i + 1
    BY <1>1
  <2>. QED  BY <1>2, <2>1 DEF slice
<1>. QED  BY <1>3, <1>4, <1>5

\* Two strings joined hold first the one, then the other.
LEMMA ConcatShape ==
  ASSUME NEW x \in String, NEW y \in String
  PROVE  /\ x \o y \in String
         /\ Len(x \o y) = Len(x) + Len(y)
         /\ \A i \in 1..Len(x) : (x \o y)[i] = x[i]
         /\ \A i \in 1..Len(y) : (x \o y)[Len(x) + i] = y[i]
<1>. DEFINE lx == Len(x)
            ly == Len(y)
            z == x \o y
<1>1. lx \in Nat /\ ly \in Nat
  BY DEF String
<1>2. /\ z \in String
      /\ Len(z) = lx + ly
      /\ \A i \in 1..(lx + ly) : z[i] = IF i <= lx THEN x[i] ELSE y[i - lx]
  BY Zenon, ConcatProperties DEF String
<1>. HIDE DEF lx, ly, z
<1>3. ASSUME NEW i \in 1..lx
      PROVE  z[i] = x[i]
  <2>1. i \in 1..(lx + ly) /\ i <= lx
    BY <1>1
  <2>. QED  BY Zenon, <1>2, <2>1
<1>4. ASSUME NEW i \in 1..ly
      PROVE  z[lx + i] = y[i]
  <2>1. lx + i \in 1..(lx + ly) /\ ~(lx + i <= lx) /\ (lx + i) - lx = i
    BY <1>1
  <2>. QED  BY Zenon, <1>2, <2>1
<1>. QED  BY Zenon, <1>2, <1>3, <1>4 DEF lx, ly, z

\* format!("/{name}:{version}/"), character by character.
LEMMA FormatShape ==
  ASSUME NEW n \in String, NEW v \in String
  PROVE  LET s == bitcoin_core_format(n, v)
         IN  /\ s \in String
             /\ Len(s) = Len(n) + Len(v) + 3
             /\ s[1] = "/" /\ s[Len(s)] = "/"
             /\ \A i \in 1..Len(n) : s[i + 1] = n[i]
             /\ s[Len(n) + 2] = ":"
             /\ \A i \in 1..Len(v) : s[Len(n) + 2 + i] = v[i]
<1>. DEFINE a == <<"/">> \o n
            b == a \o <<":">>
            c == b \o v
            s == c \o <<"/">>
<1>0. <<"/">> \in String /\ <<":">> \in String
  BY DEF String
<1>1. /\ a \in String /\ Len(a) = 1 + Len(n)
      /\ a[1] = "/" /\ \A i \in 1..Len(n) : a[1 + i] = n[i]
  <2>. DEFINE e == <<"/">>
  <2>0. e \in String /\ n \in String /\ Len(e) = 1 /\ e[1] = "/"
    BY <1>0
  <2>. HIDE DEF e
  <2>1. /\ e \o n \in String
        /\ Len(e \o n) = Len(e) + Len(n)
        /\ \A i \in 1..Len(e) : (e \o n)[i] = e[i]
        /\ \A i \in 1..Len(n) : (e \o n)[Len(e) + i] = n[i]
    BY Zenon, <2>0, ConcatShape
  <2>2. 1 \in 1..Len(e)
    BY <2>0
  <2>3. a = e \o n
    BY DEF e
  <2>. HIDE DEF a
  <2>. QED  BY Zenon, <2>0, <2>1, <2>2, <2>3
<1>2. /\ b \in String /\ Len(b) = Len(a) + 1
      /\ \A i \in 1..Len(a) : b[i] = a[i]
      /\ b[Len(a) + 1] = ":"
  <2>. DEFINE e == <<":">>
  <2>0. e \in String /\ Len(e) = 1 /\ e[1] = ":"
    BY <1>0
  <2>. HIDE DEF a, e
  <2>1. /\ a \o e \in String
        /\ Len(a \o e) = Len(a) + Len(e)
        /\ \A i \in 1..Len(a) : (a \o e)[i] = a[i]
        /\ \A i \in 1..Len(e) : (a \o e)[Len(a) + i] = e[i]
    BY Zenon, <1>1, <2>0, ConcatShape
  <2>2. 1 \in 1..Len(e)
    BY <2>0
  <2>3. b = a \o e
    BY DEF e
  <2>. HIDE DEF b
  <2>. QED  BY Zenon, <2>0, <2>1, <2>2, <2>3
<1>3. /\ c \in String /\ Len(c) = Len(b) + Len(v)
      /\ \A i \in 1..Len(b) : c[i] = b[i]
      /\ \A i \in 1..Len(v) : c[Len(b) + i] = v[i]
  <2>. HIDE DEF b
  <2>. QED  BY Zenon, <1>2, ConcatShape
<1>4. /\ s \in String /\ Len(s) = Len(c) + 1
      /\ \A i \in 1..Len(c) : s[i] = c[i]
      /\ s[Len(c) + 1] = "/"
  <2>. DEFINE e == <<"/">>
  <2>0. e \in String /\ Len(e) = 1 /\ e[1] = "/"
    BY <1>0
  <2>. HIDE DEF c, e
  <2>1. /\ c \o e \in String
        /\ Len(c \o e) = Len(c) + Len(e)
        /\ \A i \in 1..Len(c) : (c \o e)[i] = c[i]
        /\ \A i \in 1..Len(e) : (c \o e)[Len(c) + i] = e[i]
    BY Zenon, <1>3, <2>0, ConcatShape
  <2>2. 1 \in 1..Len(e)
    BY <2>0
  <2>3. s = c \o e
    BY DEF e
  <2>. HIDE DEF s
  <2>. QED  BY Zenon, <2>0, <2>1, <2>2, <2>3
<1>5. s = bitcoin_core_format(n, v)
  BY DEF bitcoin_core_format
<1>. HIDE DEF a, b, c, s
<1>. DEFINE ln == Len(n)
            lv == Len(v)
            ls == Len(s)
<1>6. ln \in Nat /\ lv \in Nat
  BY DEF String
<1>7. s \in String
  BY <1>4
<1>8. /\ Len(a) = 1 + ln /\ Len(b) = ln + 2
      /\ Len(c) = ln + 2 + lv /\ ls = ln + lv + 3
  <2>1. Len(a) = 1 + ln /\ Len(b) = Len(a) + 1 /\ Len(c) = Len(b) + lv /\ ls = Len(c) + 1
    BY <1>1, <1>2, <1>3, <1>4
  <2>. HIDE DEF ln, lv, ls
  <2>. QED  BY <1>6, <2>1
<1>. HIDE DEF ln, lv, ls
<1>9. s[1] = "/" /\ s[ln + 2] = ":" /\ s[ls] = "/"
  <2>1. /\ 1 \in 1..Len(a) /\ 1 \in 1..Len(b) /\ 1 \in 1..Len(c)
        /\ Len(a) + 1 = ln + 2 /\ ln + 2 \in 1..Len(b) /\ ln + 2 \in 1..Len(c)
        /\ Len(c) + 1 = ls
    BY <1>6, <1>8
  <2>. QED  BY Zenon, <1>1, <1>2, <1>3, <1>4, <2>1
<1>10. ASSUME NEW i \in 1..ln
       PROVE  s[i + 1] = n[i]
  <2>1. i + 1 \in 1..Len(a) /\ i + 1 \in 1..Len(b) /\ i + 1 \in 1..Len(c) /\ 1 + i = i + 1
    BY <1>6, <1>8
  <2>2. a[1 + i] = n[i]
    BY Zenon, <1>1 DEF ln
  <2>. QED  BY Zenon, <1>2, <1>3, <1>4, <2>1, <2>2
<1>11. ASSUME NEW i \in 1..lv
       PROVE  s[ln + 2 + i] = v[i]
  <2>1. Len(b) + i \in 1..Len(c) /\ Len(b) + i = ln + 2 + i
    BY <1>6, <1>8
  <2>2. c[Len(b) + i] = v[i]
    BY Zenon, <1>3 DEF lv
  <2>. QED  BY Zenon, <1>4, <2>1, <2>2
<1>. QED  BY Zenon, <1>5, <1>7, <1>8, <1>9, <1>10, <1>11 DEF ln, lv, ls

\* A single cut leaves the parts on its two sides.
LEMMA OneCut ==
  ASSUME NEW s \in String, NEW k \in 1..Len(s), Cuts(s, ":") = {k}
  PROVE  /\ split_len(s, ":") = 2
         /\ FirstPart(s, ":") = SubSeq(s, 1, k - 1)
         /\ SecondPart(s, ":") = SubSeq(s, k + 1, Len(s))
<1>1. Cardinality(Cuts(s, ":")) = 1
  BY Zenon, FS_Singleton
<1>2. Cut(s, ":") = k
  BY DEF Cut
<1>. QED  BY <1>1, <1>2 DEF split_len, FirstPart, SecondPart

\* The part of t from m to l is n, if they have the same characters.
LEMMA PartEqual ==
  ASSUME NEW t \in String, NEW n \in String, NEW m \in Nat, NEW l \in Nat,
         1 <= m, l <= Len(t), Len(n) = l + 1 - m,
         \A i \in 1..Len(n) : t[m + i - 1] = n[i]
  PROVE  SubSeq(t, m, l) = n
<1>. DEFINE C == Char \cup {"/", ":"}
            u == SubSeq(t, m, l)
<1>1. t \in Seq(C) /\ n \in Seq(C) /\ Len(t) \in Nat /\ Len(n) \in Nat
  BY DEF String
<1>2. \A i \in m..l : t[i] \in C
  <2>. HIDE DEF C
  <2>. QED  BY <1>1
<1>3. /\ u \in Seq(C)
      /\ Len(u) = IF m <= l THEN l - m + 1 ELSE 0
      /\ \A i \in 1..(l - m + 1) : u[i] = t[m + i - 1]
  <2>. HIDE DEF C
  <2>. QED  BY <1>2, SubSeqProperties
<1>. HIDE DEF u, C
<1>4. Len(u) = Len(n)
  BY <1>1, <1>3
<1>5. ASSUME NEW i \in 1..Len(u)
      PROVE  u[i] = n[i]
  <2>1. i \in 1..(l - m + 1) /\ i \in 1..Len(n)
    BY <1>1, <1>4
  <2>. QED  BY <1>3, <2>1
<1>6. u = n
  BY <1>1, <1>3, <1>4, <1>5, SeqEqual
<1>. QED  BY <1>6 DEF u

\* A string of the format, of a name and a version without a colon, is cut into
\* that name and that version.
LEMMA FormatIsCut ==
  ASSUME NEW n \in String, NEW v \in String, Component(n), Component(v)
  PROVE  LET s == bitcoin_core_format(n, v)
         IN  /\ starts_with(s, "/") /\ ends_with(s, "/") /\ contains(s, ":") /\ slices(s)
             /\ Cuts(slice(s), ":") = {Len(n) + 1}
             /\ split_len(slice(s), ":") = 2
             /\ FirstPart(slice(s), ":") = n
             /\ SecondPart(slice(s), ":") = v
<1>. DEFINE s == bitcoin_core_format(n, v)
            t == slice(s)
            k == Len(n) + 1
<1>1. /\ s \in String
      /\ Len(s) = Len(n) + Len(v) + 3
      /\ s[1] = "/" /\ s[Len(s)] = "/"
      /\ \A i \in 1..Len(n) : s[i + 1] = n[i]
      /\ s[Len(n) + 2] = ":"
      /\ \A i \in 1..Len(v) : s[Len(n) + 2 + i] = v[i]
  BY FormatShape
<1>2. Len(n) \in Nat /\ Len(v) \in Nat
  BY DEF String
<1>. HIDE DEF s
<1>3. /\ t \in String
      /\ Len(t) = Len(n) + Len(v) + 1
      /\ \A i \in 1..(Len(s) - 2) : t[i] = s[i + 1]
  BY <1>1, <1>2, SliceShape
<1>. HIDE DEF t
<1>4. ASSUME NEW i \in 1..Len(n)
      PROVE  t[i] = n[i] /\ t[i] # ":"
  <2>1. i \in 1..(Len(s) - 2)
    BY <1>1, <1>2
  <2>. QED  BY <1>1, <1>3, <2>1 DEF Component, contains
<1>5. ASSUME NEW i \in 1..Len(v)
      PROVE  t[k + i] = v[i] /\ t[k + i] # ":"
  <2>1. k + i \in 1..(Len(s) - 2) /\ k + i + 1 = Len(n) + 2 + i
    BY <1>1, <1>2
  <2>. QED  BY <1>1, <1>3, <2>1 DEF Component, contains
<1>6. t[k] = ":" /\ k \in 1..Len(t)
  <2>1. k \in 1..(Len(s) - 2) /\ k + 1 = Len(n) + 2
    BY <1>1, <1>2
  <2>. QED  BY <1>1, <1>2, <1>3, <2>1
<1>7. ASSUME NEW i \in 1..Len(t), i # k
      PROVE  t[i] # ":"
  <2>1. CASE i < k
    BY <1>2, <1>4, <2>1
  <2>2. CASE i > k
    <3>1. i - k \in 1..Len(v) /\ k + (i - k) = i
      BY <1>2, <1>3, <2>2
    <3>. QED  BY Zenon, <1>5, <3>1
  <2>. QED  BY <1>2, <1>7, <2>1, <2>2
<1>8. Cuts(t, ":") = {k}
  BY <1>6, <1>7 DEF Cuts
<1>9. /\ split_len(t, ":") = 2
      /\ FirstPart(t, ":") = SubSeq(t, 1, k - 1)
      /\ SecondPart(t, ":") = SubSeq(t, k + 1, Len(t))
  BY Zenon, <1>3, <1>6, <1>8, OneCut
<1>10. SubSeq(t, 1, k - 1) = n
  BY <1>2, <1>3, <1>4, PartEqual
<1>11. SubSeq(t, k + 1, Len(t)) = v
  BY <1>2, <1>3, <1>5, PartEqual
<1>12. starts_with(s, "/") /\ ends_with(s, "/") /\ contains(s, ":") /\ slices(s)
  BY <1>1, <1>2 DEF starts_with, ends_with, contains, slices
<1>. QED  BY Zenon, <1>8, <1>9, <1>10, <1>11, <1>12 DEF t, s

\* A string between slashes that is cut once is of the format, of its two parts.
LEMMA CutIsFormat ==
  ASSUME NEW s \in String, starts_with(s, "/"), ends_with(s, "/"), slices(s),
         split_len(slice(s), ":") = 2
  PROVE  LET n == FirstPart(slice(s), ":")
             v == SecondPart(slice(s), ":")
         IN  /\ Component(n) /\ Component(v)
             /\ s = bitcoin_core_format(n, v)
<1>. DEFINE C == Char \cup {"/", ":"}
            t == slice(s)
            n == FirstPart(t, ":")
            v == SecondPart(t, ":")
            f == bitcoin_core_format(n, v)
<1>1. s \in Seq(C) /\ Len(s) \in Nat /\ Len(s) >= 2
  BY DEF slices, String
<1>2. /\ t \in String
      /\ Len(t) = Len(s) - 2
      /\ \A i \in 1..(Len(s) - 2) : t[i] = s[i + 1]
  BY <1>1, SliceShape
<1>. HIDE DEF t
<1>3. PICK k : Cuts(t, ":") = {k}
  <2>0. Len(t) \in Int /\ 1 \in Int
    BY <1>1, <1>2
  <2>1. Cuts(t, ":") \subseteq 1..Len(t) /\ IsFiniteSet(1..Len(t))
    BY <2>0, FS_Interval DEF Cuts
  <2>2. IsFiniteSet(Cuts(t, ":")) /\ Cardinality(Cuts(t, ":")) \in Nat
    BY <2>1, FS_Subset, FS_CardinalityType
  <2>3. Cardinality(Cuts(t, ":")) = 1
    BY <2>2 DEF split_len, t
  <2>. QED  BY <2>2, <2>3, FS_Singleton
<1>4. k \in 1..Len(t) /\ t[k] = ":" /\ \A i \in 1..Len(t) : t[i] = ":" => i = k
  BY <1>3 DEF Cuts
<1>5. n = SubSeq(t, 1, k - 1) /\ v = SubSeq(t, k + 1, Len(t))
  BY Zenon, <1>2, <1>3, <1>4, OneCut
<1>6. t \in Seq(C) /\ \A i \in 1..Len(t) : t[i] \in C
  BY <1>2 DEF String
<1>. HIDE DEF n, v
<1>7. /\ n \in Seq(C) /\ Len(n) = k - 1
      /\ \A i \in 1..(k - 1) : n[i] = t[i]
  <2>. DEFINE u == SubSeq(t, 1, k - 1)
  <2>. HIDE DEF C
  <2>1. /\ u \in Seq(C)
        /\ Len(u) = IF 1 <= k - 1 THEN k - 1 - 1 + 1 ELSE 0
        /\ \A i \in 1..(k - 1 - 1 + 1) : u[i] = t[1 + i - 1]
    <3>1. 1 \in Int /\ k - 1 \in Int /\ \A i \in 1..(k - 1) : t[i] \in C
      BY <1>1, <1>2, <1>4, <1>6
    <3>. QED  BY <3>1, SubSeqProperties
  <2>2. u = n
    BY <1>5
  <2>. HIDE DEF u
  <2>. QED  BY <1>1, <1>2, <1>4, <2>1, <2>2
<1>8. /\ v \in Seq(C) /\ Len(v) = Len(t) - k
      /\ \A i \in 1..(Len(t) - k) : v[i] = t[k + i]
  <2>. DEFINE u == SubSeq(t, k + 1, Len(t))
  <2>. HIDE DEF C
  <2>1. /\ u \in Seq(C)
        /\ Len(u) = IF k + 1 <= Len(t) THEN Len(t) - (k + 1) + 1 ELSE 0
        /\ \A i \in 1..(Len(t) - (k + 1) + 1) : u[i] = t[(k + 1) + i - 1]
    <3>1. k + 1 \in Int /\ Len(t) \in Int /\ \A i \in (k + 1)..Len(t) : t[i] \in C
      BY <1>1, <1>2, <1>4, <1>6
    <3>. QED  BY <3>1, SubSeqProperties
  <2>2. u = v
    BY <1>5
  <2>. HIDE DEF u
  <2>. QED  BY <1>1, <1>2, <1>4, <2>1, <2>2
<1>9. Component(n) /\ Component(v)
  <2>1. n \in String /\ v \in String
    BY <1>7, <1>8 DEF String
  <2>2. ASSUME NEW i \in 1..Len(n)
        PROVE  n[i] # ":"
    <3>1. i \in 1..(k - 1) /\ i \in 1..Len(t) /\ i # k
      BY <1>1, <1>2, <1>4, <1>7
    <3>. QED  BY <1>4, <1>7, <3>1
  <2>3. ASSUME NEW i \in 1..Len(v)
        PROVE  v[i] # ":"
    <3>1. i \in 1..(Len(t) - k) /\ k + i \in 1..Len(t) /\ k + i # k
      BY <1>1, <1>2, <1>4, <1>8
    <3>. QED  BY <1>4, <1>8, <3>1
  <2>. QED  BY <2>1, <2>2, <2>3 DEF Component, contains
<1>10. /\ f \in String
       /\ Len(f) = Len(n) + Len(v) + 3
       /\ f[1] = "/" /\ f[Len(f)] = "/"
       /\ \A i \in 1..Len(n) : f[i + 1] = n[i]
       /\ f[Len(n) + 2] = ":"
       /\ \A i \in 1..Len(v) : f[Len(n) + 2 + i] = v[i]
  BY <1>9, FormatShape DEF Component
<1>. HIDE DEF f
<1>11. Len(f) = Len(s)
  BY <1>1, <1>2, <1>4, <1>7, <1>8, <1>10
<1>12. ASSUME NEW i \in 1..Len(s)
       PROVE  s[i] = f[i]
  <2>1. CASE i = 1 \/ i = Len(s)
    BY <1>10, <1>11, <2>1 DEF starts_with, ends_with
  <2>2. CASE 1 < i /\ i < k + 1
    <3>1. i - 1 \in 1..(k - 1) /\ i - 1 \in 1..(Len(s) - 2) /\ i - 1 \in 1..Len(n) /\ (i - 1) + 1 = i
      BY <1>1, <1>2, <1>4, <1>7, <2>2
    <3>2. t[i - 1] = s[(i - 1) + 1] /\ n[i - 1] = t[i - 1] /\ f[(i - 1) + 1] = n[i - 1]
      BY Zenon, <1>2, <1>7, <1>10, <3>1
    <3>. QED  BY Zenon, <3>1, <3>2
  <2>3. CASE i = k + 1
    <3>1. k \in 1..(Len(s) - 2) /\ Len(n) + 2 = k + 1
      BY <1>1, <1>2, <1>4, <1>7
    <3>. QED  BY <1>2, <1>4, <1>10, <2>3, <3>1
  <2>4. CASE k + 1 < i /\ i < Len(s)
    <3>1. /\ i - 1 \in 1..(Len(s) - 2) /\ (i - 1) + 1 = i
          /\ i - 1 - k \in 1..(Len(t) - k) /\ k + (i - 1 - k) = i - 1
          /\ i - 1 - k \in 1..Len(v) /\ Len(n) + 2 + (i - 1 - k) = i
      BY <1>1, <1>2, <1>4, <1>7, <1>8, <2>4
    <3>2. /\ t[i - 1] = s[(i - 1) + 1]
          /\ v[i - 1 - k] = t[k + (i - 1 - k)]
          /\ f[Len(n) + 2 + (i - 1 - k)] = v[i - 1 - k]
      BY Zenon, <1>2, <1>8, <1>10, <3>1
    <3>. QED  BY Zenon, <3>1, <3>2
  <2>5. \/ i = 1 \/ i = Len(s)
        \/ 1 < i /\ i < k + 1
        \/ i = k + 1
        \/ k + 1 < i /\ i < Len(s)
    <3>1. k \in Nat /\ Len(s) \in Nat /\ i \in Nat /\ 1 <= i /\ i <= Len(s)
      BY <1>1, <1>2, <1>4
    <3>. QED  BY <3>1
  <2>. QED  BY <2>1, <2>2, <2>3, <2>4, <2>5
<1>13. s = f
  <2>1. f \in Seq(C)
    BY <1>10 DEF String
  <2>. HIDE DEF C
  <2>. QED  BY <1>1, <1>11, <1>12, <2>1, SeqEqual
<1>. QED  BY <1>9, <1>13 DEF f, n, v, t

(***************************************************************************)
(* The theorems.                                                           *)
(***************************************************************************)
\* The slice of validate_bitcoin_core_format() is never out of range: the two
\* checks before it refuse the empty string and "/", the only ones too short.
THEOREM NeverPanics ==
  ASSUME NEW s \in String
  PROVE  validate_bitcoin_core_format(s) \in UserAgentError \cup {"Ok"}
<1>1. starts_with(s, "/") /\ contains(s, ":") => slices(s)
  <2>1. Len(s) \in Nat
    BY DEF String
  <2>. QED  BY <2>1 DEF starts_with, contains, slices
<1>. QED  BY <1>1 DEF validate_bitcoin_core_format, UserAgentError

\* UserAgent::new() accepts exactly the strings "/name:version/" of a name and a
\* version that are not empty and have no colon.
THEOREM AcceptsExactlyTheFormat ==
  ASSUME NEW s \in String
  PROVE  validate_bitcoin_core_format(s) = "Ok" <=> WellFormed(s)
<1>1. ASSUME validate_bitcoin_core_format(s) = "Ok"
      PROVE  WellFormed(s)
  <2>. DEFINE n == FirstPart(slice(s), ":")
              v == SecondPart(slice(s), ":")
  <2>1. /\ starts_with(s, "/") /\ ends_with(s, "/") /\ slices(s)
        /\ split_len(slice(s), ":") = 2
        /\ n # << >> /\ v # << >>
    BY <1>1 DEF validate_bitcoin_core_format
  <2>2. Component(n) /\ Component(v) /\ s = bitcoin_core_format(n, v)
    BY <2>1, CutIsFormat
  <2>. HIDE DEF n, v
  <2>3. n \in String /\ v \in String /\ Len(n) > 0 /\ Len(v) > 0
    BY <2>1, <2>2 DEF Component, String
  <2>. QED  BY <2>2, <2>3 DEF WellFormed, Proper
<1>2. ASSUME WellFormed(s)
      PROVE  validate_bitcoin_core_format(s) = "Ok"
  <2>1. PICK n \in String, v \in String :
          /\ Component(n) /\ Len(n) > 0
          /\ Component(v) /\ Len(v) > 0
          /\ s = bitcoin_core_format(n, v)
    BY <1>2 DEF WellFormed, Proper
  <2>2. /\ starts_with(s, "/") /\ ends_with(s, "/") /\ contains(s, ":") /\ slices(s)
        /\ split_len(slice(s), ":") = 2
        /\ FirstPart(slice(s), ":") = n /\ SecondPart(slice(s), ":") = v
    BY <2>1, FormatIsCut
  <2>3. n # << >> /\ v # << >>
    BY <2>1
  <2>. QED  BY <2>2, <2>3 DEF validate_bitcoin_core_format
<1>. QED  BY <1>1, <1>2

\* The error tells what is missing: MissingName and MissingVersion are given for
\* a string that is of the format but for an empty name, or an empty version.
THEOREM ErrorsAreExact ==
  ASSUME NEW n \in String, NEW v \in String, Component(n), Component(v)
  PROVE  validate_bitcoin_core_format(from_name_version(n, v)) =
           IF n = << >> THEN "MissingName"
           ELSE IF v = << >> THEN "MissingVersion"
           ELSE "Ok"
<1>. DEFINE s == bitcoin_core_format(n, v)
<1>1. /\ starts_with(s, "/") /\ ends_with(s, "/") /\ contains(s, ":") /\ slices(s)
      /\ split_len(slice(s), ":") = 2
      /\ FirstPart(slice(s), ":") = n /\ SecondPart(slice(s), ":") = v
  BY FormatIsCut
<1>2. from_name_version(n, v) = s
  BY DEF from_name_version
<1>. HIDE DEF s
<1>. QED  BY <1>1, <1>2 DEF validate_bitcoin_core_format

\* What from_name_version() makes is of the format exactly when the name and the
\* version are not empty and have no colon: the claim that it "creates the string
\* in the correct format" fails for every other pair, and for none of these.
THEOREM FromComponentsExact ==
  ASSUME NEW n \in String, NEW v \in String
  PROVE  WellFormed(from_name_version(n, v)) <=> Proper(n, v)
<1>. DEFINE s == bitcoin_core_format(n, v)
            t == slice(s)
<1>0. from_name_version(n, v) = s
  BY DEF from_name_version
<1>1. ASSUME Proper(n, v)
      PROVE  WellFormed(s)
  <2>. HIDE DEF s
  <2>. QED  BY <1>1 DEF WellFormed, s
<1>2. ASSUME WellFormed(s)
      PROVE  Proper(n, v)
  <2>1. PICK name \in String, version \in String :
          Proper(name, version) /\ s = bitcoin_core_format(name, version)
    BY <1>2 DEF WellFormed
  <2>2. /\ Cuts(t, ":") = {Len(name) + 1}
        /\ FirstPart(t, ":") = name /\ SecondPart(t, ":") = version
    BY Zenon, <2>1, FormatIsCut DEF Proper
  <2>3. /\ s \in String
        /\ Len(s) = Len(n) + Len(v) + 3
        /\ \A i \in 1..Len(n) : s[i + 1] = n[i]
        /\ s[Len(n) + 2] = ":"
        /\ \A i \in 1..Len(v) : s[Len(n) + 2 + i] = v[i]
    BY FormatShape
  <2>. DEFINE ln == Len(n)
              lv == Len(v)
  <2>4. ln \in Nat /\ lv \in Nat
    BY DEF String
  <2>. HIDE DEF s
  <2>5. /\ t \in String
        /\ Len(t) = ln + lv + 1
        /\ \A i \in 1..(ln + lv + 1) : t[i] = s[i + 1]
    <3>1. Len(s) >= 2 /\ Len(s) - 2 = ln + lv + 1
      BY <2>3, <2>4
    <3>2. /\ slice(s) \in String
          /\ Len(slice(s)) = Len(s) - 2
          /\ \A i \in 1..(Len(s) - 2) : slice(s)[i] = s[i + 1]
      BY Zenon, <2>3, <3>1, SliceShape
    <3>. QED  BY Zenon, <3>1, <3>2 DEF t
  <2>. HIDE DEF t, ln, lv
  <2>6. \A i, j \in 1..(ln + lv + 1) : s[i + 1] = ":" /\ s[j + 1] = ":" => i = j
    <3>1. \A i \in 1..(ln + lv + 1) : s[i + 1] = ":" => i \in Cuts(t, ":")
      BY <2>5 DEF Cuts
    <3>. QED  BY Zenon, <2>2, <3>1
  <2>7. ln + 1 \in 1..(ln + lv + 1) /\ s[(ln + 1) + 1] = ":"
    <3>1. ln + 1 \in 1..(ln + lv + 1) /\ (ln + 1) + 1 = ln + 2
      BY <2>4
    <3>. QED  BY Zenon, <2>3, <3>1 DEF ln
  <2>8. ASSUME NEW i \in 1..ln, n[i] = ":"
        PROVE  FALSE
    <3>1. i \in 1..(ln + lv + 1) /\ i # ln + 1
      BY <2>4
    <3>2. s[i + 1] = ":"
      BY Zenon, <2>3, <2>8 DEF ln
    <3>. QED  BY Zenon, <2>6, <2>7, <3>1, <3>2
  <2>9. ASSUME NEW i \in 1..lv, v[i] = ":"
        PROVE  FALSE
    <3>1. /\ ln + 1 + i \in 1..(ln + lv + 1) /\ ln + 1 + i # ln + 1
          /\ (ln + 1 + i) + 1 = ln + 2 + i
      BY <2>4
    <3>2. s[ln + 2 + i] = ":"
      BY Zenon, <2>3, <2>9 DEF ln, lv
    <3>. QED  BY Zenon, <2>6, <2>7, <3>1, <3>2
  <2>10. Component(n) /\ Component(v)
    BY <2>8, <2>9 DEF Component, contains, ln, lv
  <2>11. FirstPart(t, ":") = n /\ SecondPart(t, ":") = v
    BY Zenon, <2>10, FormatIsCut DEF s, t
  <2>. QED  BY Zenon, <2>1, <2>2, <2>10, <2>11 DEF Proper
<1>. QED  BY Zenon, <1>0, <1>1, <1>2

(***************************************************************************)
(* The configuration.  The invariant follows a user agent from where it is *)
(* made to where it is sent: the validated ones are well formed, by        *)
(* AcceptsExactlyTheFormat; those put together from components are well    *)
(* formed, by FromComponentsExact, or else their components are not, and   *)
(* the application, which made them, has them still.  Builders only ever   *)
(* get the former.                                                         *)
(***************************************************************************)
\* A user agent that is well formed, or that the application has made out of
\* components that are not.
Accounted(s) ==
  \/ WellFormed(s)
  \/ \E p \in Components :
       /\ ~Proper(p[1], p[2])
       /\ s = from_name_version(p[1], p[2])
       /\ s \in agents

\* The settings x carry no user agent, or one that is well formed.
Clean(x) == \A s \in x.user_agent : WellFormed(s)

\* The settings x carry no user agent, or one that is accounted for.
Traced(x) == \A s \in x.user_agent : Accounted(s)

IInv ==
  /\ \A s \in agents : Accounted(s)
  /\ builders \subseteq Settings /\ \A b \in builders : Clean(b)
  /\ crawlers \subseteq Settings /\ \A c \in crawlers : Traced(c)
  /\ \A session \in sessions : Traced(session.connector)
  /\ \A m \in versions : Accounted(m.user_agent)

\* What the application gives to from_name_version() are strings; the pair of
\* the connection crate's default is a literal, and a proper one.
Given ==
  /\ Components \subseteq String \X String
  /\ Default \in String \X String /\ Proper(Default[1], Default[2])

\* What is accounted for stays so: the application may keep all it has made.
LEMMA AccountedStays ==
  ASSUME agents \subseteq agents', NEW s, Accounted(s)
  PROVE  Accounted(s)'
BY DEF Accounted

\* A call of a setter makes settings with the user agent of those it is called on.
LEMMA WithKeepsAgent ==
  ASSUME NEW b \in Settings, Clean(b),
         NEW made \in {[b EXCEPT !.transport_policy = p] : p \in TransportPolicy}
                 \cup {[b EXCEPT !.protocol_version = {v}] : v \in Nat}
                 \cup {[b EXCEPT !.max_concurrent_tasks = n] : n \in Nat}
                 \cup {[b EXCEPT !.peer_timeout = t] : t \in Nat}
  PROVE  made \in Settings /\ Clean(made)
<1>1. made \in Settings
  BY DEF Settings, Option
<1>2. made.user_agent = b.user_agent
  BY DEF Settings
<1>. QED  BY <1>1, <1>2 DEF Clean

\* A step of the application, or of a crawl, keeps the invariant.
LEMMA Step ==
  ASSUME Given, IInv, [Next]_vars
  PROVE  IInv'
<1>. USE DEF IInv
<1>1. ASSUME NEW s \in String, NewAgent(s)
      PROVE  IInv'
  <2>1. WellFormed(s)
    BY <1>1, AcceptsExactlyTheFormat DEF NewAgent
  <2>2. Accounted(s)'
    BY <2>1 DEF Accounted
  <2>3. agents' = agents \cup {s} /\ UNCHANGED <<builders, crawlers, sessions, versions>>
    BY <1>1 DEF NewAgent
  <2>. QED  BY <2>2, <2>3, AccountedStays DEF Traced, Clean
<1>2. ASSUME NEW p \in Components, AgentFromNameVersion(p[1], p[2])
      PROVE  IInv'
  <2>. DEFINE s == from_name_version(p[1], p[2])
  <2>1. agents' = agents \cup {s} /\ UNCHANGED <<builders, crawlers, sessions, versions>>
    BY <1>2 DEF AgentFromNameVersion
  <2>2. p[1] \in String /\ p[2] \in String
    BY DEF Given
  <2>3. WellFormed(s) \/ ~Proper(p[1], p[2])
    BY Zenon, <2>2, FromComponentsExact
  <2>. HIDE DEF s
  <2>4. Accounted(s)'
    BY <2>1, <2>3 DEF Accounted, s
  <2>. QED  BY <2>1, <2>4, AccountedStays DEF Traced, Clean
<1>3. ASSUME NewBuilder
      PROVE  IInv'
  <2>. DEFINE made == [user_agent |-> {}, transport_policy |-> "V2Preferred",
                       protocol_version |-> DEFAULT_PROTOCOL_VERSION,
                       max_concurrent_tasks |-> DEFAULT_MAX_CONCURRENT_TASKS,
                       peer_timeout |-> DEFAULT_PEER_TIMEOUT]
  <2>1. made \in Settings /\ Clean(made)
    BY DEF Settings, Option, TransportPolicy, DEFAULT_PROTOCOL_VERSION,
           DEFAULT_MAX_CONCURRENT_TASKS, DEFAULT_PEER_TIMEOUT, Clean
  <2>2. builders' = builders \cup {made} /\ UNCHANGED <<agents, crawlers, sessions, versions>>
    BY <1>3 DEF NewBuilder
  <2>. HIDE DEF made
  <2>. QED  BY <2>1, <2>2, AccountedStays DEF Traced, Clean
<1>4. ASSUME NEW b \in builders, With(b)
      PROVE  IInv'
  <2>1. PICK made \in {[b EXCEPT !.transport_policy = p] : p \in TransportPolicy}
                 \cup {[b EXCEPT !.protocol_version = {v}] : v \in Nat}
                 \cup {[b EXCEPT !.max_concurrent_tasks = n] : n \in Nat}
                 \cup {[b EXCEPT !.peer_timeout = t] : t \in Nat} :
          builders' \in {builders \cup {made}, (builders \ {b}) \cup {made}}
    BY <1>4 DEF With
  <2>2. made \in Settings /\ Clean(made)
    BY WithKeepsAgent
  <2>3. UNCHANGED <<agents, crawlers, sessions, versions>>
    BY <1>4 DEF With
  <2>4. builders' \subseteq builders \cup {made}
    BY <2>1
  <2>. QED  BY <2>2, <2>3, <2>4, AccountedStays DEF Traced
<1>5. ASSUME NEW b \in builders, NEW s \in String, WithUserAgent(b, s)
      PROVE  IInv'
  <2>. DEFINE made == [b EXCEPT !.user_agent = {s}]
  <2>1. UNCHANGED <<agents, crawlers, sessions, versions>>
    BY <1>5 DEF WithUserAgent
  <2>2. CASE validate_bitcoin_core_format(s) = "Ok"
    <3>1. WellFormed(s)
      BY <2>2, AcceptsExactlyTheFormat
    <3>2. made \in Settings /\ made.user_agent = {s}
      BY DEF Settings, Option
    <3>3. Clean(made)
      BY <3>1, <3>2 DEF Clean
    <3>4. builders' \subseteq builders \cup {made}
      BY <1>5 DEF WithUserAgent
    <3>. HIDE DEF made
    <3>. QED  BY <2>1, <3>2, <3>3, <3>4, AccountedStays DEF Traced
  <2>3. CASE validate_bitcoin_core_format(s) # "Ok"
    <3>1. builders' \subseteq builders
      BY <1>5, <2>3 DEF WithUserAgent
    <3>. QED  BY <2>1, <3>1, AccountedStays DEF Traced
  <2>. QED  BY <2>2, <2>3
<1>6. ASSUME NEW b \in builders, Build(b)
      PROVE  IInv'
  <2>1. builders' \subseteq builders /\ crawlers' = crawlers \cup {b}
        /\ UNCHANGED <<agents, sessions, versions>>
    BY <1>6 DEF Build
  <2>2. Traced(b)
    BY DEF Clean, Traced, Accounted
  <2>. QED  BY <2>1, <2>2, AccountedStays DEF Traced, Clean
<1>7. ASSUME NEW c \in Settings, NewCrawler(c)
      PROVE  IInv'
  <2>1. Traced(c)
    BY <1>7 DEF NewCrawler, Traced
  <2>2. crawlers' = crawlers \cup {c} /\ UNCHANGED <<agents, builders, sessions, versions>>
    BY <1>7 DEF NewCrawler
  <2>. QED  BY <2>1, <2>2, AccountedStays DEF Traced, Clean
<1>8. ASSUME NEW c \in crawlers, Crawl(c)
      PROVE  IInv'
  <2>. DEFINE session == [config |-> session_config(c), connector |-> non_listening(c)]
  <2>1. Traced(session.connector)
    BY DEF Traced, non_listening
  <2>2. sessions' = sessions \cup {session} /\ UNCHANGED <<agents, builders, crawlers, versions>>
    BY <1>8 DEF Crawl
  <2>. HIDE DEF session
  <2>. QED  BY <2>1, <2>2, AccountedStays DEF Traced, Clean
<1>9. ASSUME NEW session \in sessions, Connect(session)
      PROVE  IInv'
  <2>. DEFINE config == session.connector
              m == create_version_message(config)
  <2>1. Accounted(m.user_agent)
    <3>1. CASE config.user_agent = {}
      <4>1. WellFormed(default_user_agent)
        BY FromComponentsExact DEF Given, default_user_agent
      <4>. QED  BY <3>1, <4>1 DEF create_version_message, unwrap_or, Accounted
    <3>2. CASE config.user_agent # {}
      <4>1. unwrap_or(config.user_agent, default_user_agent) \in config.user_agent
        BY <3>2 DEF unwrap_or
      <4>. QED  BY <4>1 DEF create_version_message, Traced
    <3>. QED  BY <3>1, <3>2
  <2>2. versions' = versions \cup {m} /\ UNCHANGED <<agents, builders, crawlers, sessions>>
    BY <1>9 DEF Connect
  <2>. HIDE DEF m
  <2>. QED  BY <2>1, <2>2, AccountedStays DEF Traced, Clean
<1>10. CASE UNCHANGED vars
  <2>1. UNCHANGED <<agents, builders, crawlers, sessions, versions>>
    BY <1>10 DEF vars
  <2>. QED  BY <2>1, AccountedStays DEF Traced, Clean
<1>. QED  BY Zenon, <1>1, <1>2, <1>3, <1>4, <1>5, <1>6, <1>7, <1>8, <1>9, <1>10 DEF Next

\* Whatever the application calls, in whatever order, with whatever strings: a
\* user agent on the network is of the format, or one the application put together
\* itself, with from_name_version(), from components that are not; and no builder
\* ever holds one of these.
THEOREM MalformedOnlyFromComponents ==
  ASSUME Given
  PROVE  Spec => [](MalformedIsSelfMade /\ BuildersAreClean)
<1>1. Init => IInv
  BY DEF Init, IInv
<1>2. IInv /\ [Next]_vars => IInv'
  BY Step
<1>3. IInv => MalformedIsSelfMade /\ BuildersAreClean
  BY DEF IInv, MalformedIsSelfMade, BuildersAreClean, Accounted, Clean
<1>. QED  BY <1>1, <1>2, <1>3, PTL DEF Spec
=============================================================================
