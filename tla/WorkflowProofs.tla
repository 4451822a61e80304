--------------------------- MODULE WorkflowProofs ---------------------------
(***************************************************************************)
(* Theorems about PathUtil and Workflow, for every URL, name and stamp,    *)
(* every number of arguments and tasks, and whatever files were there.     *)
(***************************************************************************)
EXTENDS Workflow, FiniteSetTheorems, SequenceTheorems, WellFoundedInduction, TLAPS

-----------------------------------------------------------------------------
(* The first and the last place of a mark.                                 *)

LEMMA Least ==
  ASSUME NEW S \in SUBSET Nat, S # {}
  PROVE  \E x \in S : \A y \in S : x <= y
<1>1. PICK x \in S : \A y \in S : ~(<<y, x>> \in OpToRel(<, Nat))
  BY NatLessThanWellFounded, WFMin, Zenon
<1>2. \A y \in S : ~(y < x)
  BY <1>1 DEF OpToRel
<1> QED BY <1>2

(* The greatest of a bounded set of numbers.                               *)
LEMMA Greatest ==
  ASSUME NEW S \in SUBSET Nat, S # {}, NEW n \in Nat, \A y \in S : y <= n
  PROVE  \E x \in S : \A y \in S : y <= x
<1> DEFINE bounds == {u \in Nat : \A y \in S : y <= u}
<1>1. PICK u \in bounds : \A w \in bounds : u <= w
  <2>1. n \in bounds /\ bounds \in SUBSET Nat
    OBVIOUS
  <2> QED BY <2>1, Least
<1>2. u \in S
  <2> SUFFICES ASSUME u \notin S PROVE FALSE
    OBVIOUS
  <2>1. PICK y \in S : TRUE
    OBVIOUS
  <2>2. \A z \in S : z < u
    BY <1>1
  <2>3. u - 1 \in Nat /\ \A z \in S : z <= u - 1
    BY <1>1, <2>1, <2>2
  <2> QED BY <1>1, <2>3
<1> QED BY <1>1, <1>2

LastOf(I)  == IF I # {} THEN Max(I) ELSE 0
FirstOf(I) == IF I # {} THEN Min(I) ELSE 0

LEMMA LastPlace ==
  ASSUME NEW n \in Nat, NEW I \in SUBSET (1..n)
  PROVE  /\ LastOf(I) \in 0..n /\ (LastOf(I) # 0 => LastOf(I) \in I)
         /\ \A i \in I : LastOf(I) # 0 /\ i <= LastOf(I)
<1>1. CASE I # {}
  <2>1. I \in SUBSET Nat /\ \A y \in I : y <= n
    OBVIOUS
  <2>2. \E x \in I : \A y \in I : x >= y
    BY <1>1, <2>1, Greatest
  <2>3. Max(I) \in I /\ \A y \in I : Max(I) >= y
    BY <2>2 DEF Max
  <2>4. PICK m \in 1..n : m \in I /\ LastOf(I) = m /\ \A y \in I : m >= y
    BY <1>1, <2>3 DEF LastOf
  <2> QED BY <2>4
<1> QED BY <1>1 DEF LastOf

LEMMA FirstPlace ==
  ASSUME NEW n \in Nat, NEW I \in SUBSET (1..n)
  PROVE  /\ FirstOf(I) \in 0..n /\ (FirstOf(I) # 0 => FirstOf(I) \in I)
         /\ \A i \in I : FirstOf(I) # 0 /\ FirstOf(I) <= i
<1>1. CASE I # {}
  <2>1. I \in SUBSET Nat
    OBVIOUS
  <2>2. \E x \in I : \A y \in I : x <= y
    BY <1>1, <2>1, Least
  <2>3. Min(I) \in I /\ \A y \in I : Min(I) <= y
    BY <2>2 DEF Min
  <2>4. PICK m \in 1..n : m \in I /\ FirstOf(I) = m /\ \A y \in I : m <= y
    BY <1>1, <2>3 DEF FirstOf
  <2> QED BY <2>4
<1> QED BY <1>1 DEF FirstOf

LEMMA LastDot ==
  ASSUME NEW s \in Seq(Marks)
  PROVE  \E k \in 0..Len(s) :
           /\ SelectLastInSeq(s, LAMBDA x : x = ".") = k
           /\ k # 0 => s[k] = "."
           /\ \A i \in 1..Len(s) : s[i] = "." => i <= k
<1> DEFINE I == {i \in 1..Len(s) : s[i] = "."}
<1>1. SelectLastInSeq(s, LAMBDA x : x = ".") = LastOf(I)
  BY DEF SelectLastInSeq, LastOf
<1>2. /\ LastOf(I) \in 0..Len(s) /\ (LastOf(I) # 0 => s[LastOf(I)] = ".")
      /\ \A i \in 1..Len(s) : s[i] = "." => i <= LastOf(I)
  BY LastPlace
<1> QED BY <1>1, <1>2, Zenon

LEMMA LastSeparator ==
  ASSUME NEW s \in Seq(Marks)
  PROVE  \E k \in 0..Len(s) :
           /\ SelectLastInSeq(s, LAMBDA x : x \in Separators) = k
           /\ k # 0 => s[k] \in Separators
<1> DEFINE I == {i \in 1..Len(s) : s[i] \in Separators}
<1>1. SelectLastInSeq(s, LAMBDA x : x \in Separators) = LastOf(I)
  BY DEF SelectLastInSeq, LastOf
<1>2. LastOf(I) \in 0..Len(s) /\ (LastOf(I) # 0 => s[LastOf(I)] \in Separators)
  BY LastPlace
<1> QED BY <1>1, <1>2, Zenon

LEMMA StripIs ==
  ASSUME NEW s \in Seq(Marks), NEW marks
  PROVE  \E k \in 0..Len(s) : StripRight(s, marks) = SubSeq(s, 1, k)
<1> DEFINE I == {i \in 1..Len(s) : s[i] \notin marks}
<1>1. StripRight(s, marks) = SubSeq(s, 1, LastOf(I))
  BY DEF SelectLastInSeq, StripRight, LastOf
<1>2. LastOf(I) \in 0..Len(s)
  BY LastPlace
<1> QED BY <1>1, <1>2, Zenon

(* What stands before the first of some marks.                             *)
LEMMA BeforeIs ==
  ASSUME NEW s \in Seq(Marks), NEW marks
  PROVE  \/ /\ BeforeFirst(s, marks) = s
            /\ \A i \in 1..Len(s) : s[i] \notin marks
         \/ \E k \in 1..Len(s) : /\ BeforeFirst(s, marks) = SubSeq(s, 1, k - 1) /\ s[k] \in marks
                                 /\ \A i \in 1..(k - 1) : s[i] \notin marks
<1> DEFINE I == {i \in 1..Len(s) : s[i] \in marks}
<1>1. BeforeFirst(s, marks) = IF FirstOf(I) = 0 THEN s ELSE SubSeq(s, 1, FirstOf(I) - 1)
  BY DEF SelectInSeq, BeforeFirst, FirstOf
<1>2. /\ FirstOf(I) \in 0..Len(s) /\ (FirstOf(I) # 0 => FirstOf(I) \in I)
      /\ \A i \in I : FirstOf(I) # 0 /\ FirstOf(I) <= i
  BY FirstPlace
<1>3. CASE FirstOf(I) = 0
  BY <1>1, <1>2, <1>3
<1>4. CASE FirstOf(I) # 0
  <2> DEFINE k == FirstOf(I)
  <2>1. BeforeFirst(s, marks) = SubSeq(s, 1, k - 1)
    BY <1>1, <1>4
  <2>2. k \in 1..Len(s) /\ s[k] \in marks
    BY <1>2, <1>4
  <2>3. \A i \in 1..(k - 1) : i \in 1..Len(s) /\ ~(k <= i)
    BY <2>2
  <2>4. \A i \in 1..(k - 1) : s[i] \notin marks
    BY <1>2, <2>3
  <2> QED BY <2>1, <2>2, <2>4, Zenon
<1> QED BY <1>3, <1>4

-----------------------------------------------------------------------------
(* The names.  The marks the functions look for have names of their own    *)
(* here, that the provers need not look into.                              *)

Bar == "_"
Dot == "."

Clean(s)  == s \in Seq(Marks) /\ \A i \in 1..Len(s) : s[i] \notin Illegal
Device(s) == Len(s) >= 2 /\ s[1] \in Devices /\ s[2] = Dot
Plain     == Marks \ (Illegal \cup {"."})

LEMMA OwnMarks ==
  /\ Bar \in Marks /\ Dot \in Marks /\ Bar # Dot /\ Bar \notin Illegal
  /\ Bar \notin Devices /\ Dot \notin Devices /\ Dot \notin Illegal
  BY PathUtilAssumption DEF Bar, Dot, Illegal, Separators, Devices

(* Short sequences, and concatenation by its places.                       *)
LEMMA One ==
  ASSUME NEW a \in Marks
  PROVE  <<a>> \in Seq(Marks) /\ Len(<<a>>) = 1 /\ <<a>>[1] = a
OBVIOUS

LEMMA Two ==
  ASSUME NEW a \in Marks, NEW b \in Marks
  PROVE  <<a, b>> \in Seq(Marks) /\ Len(<<a, b>>) = 2 /\ <<a, b>>[1] = a /\ <<a, b>>[2] = b
OBVIOUS

LEMMA Three ==
  ASSUME NEW a \in Marks, NEW b \in Marks, NEW c \in Marks
  PROVE  /\ <<a, b, c>> \in Seq(Marks) /\ Len(<<a, b, c>>) = 3
         /\ <<a, b, c>>[1] = a /\ <<a, b, c>>[2] = b /\ <<a, b, c>>[3] = c
OBVIOUS

LEMMA Places ==
  ASSUME NEW r, NEW p, NEW q, NEW m \in Nat, NEW n \in Nat,
         \A i \in 1..(m + n) : r[i] = IF i <= m THEN p[i] ELSE q[i - m]
  PROVE  (\A i \in 1..m : r[i] = p[i]) /\ (\A i \in 1..n : r[m + i] = q[i])
<1>1. ASSUME NEW i \in 1..m PROVE r[i] = p[i]
  <2>1. i \in 1..(m + n) /\ i <= m
    OBVIOUS
  <2> QED BY <2>1
<1>2. ASSUME NEW i \in 1..n PROVE r[m + i] = q[i]
  <2>1. m + i \in 1..(m + n) /\ ~(m + i <= m) /\ (m + i) - m = i
    OBVIOUS
  <2> QED BY <2>1
<1> QED BY <1>1, <1>2

LEMMA Concat ==
  ASSUME NEW p \in Seq(Marks), NEW q \in Seq(Marks)
  PROVE  /\ p \o q \in Seq(Marks) /\ Len(p \o q) = Len(p) + Len(q)
         /\ \A i \in 1..Len(p) : (p \o q)[i] = p[i]
         /\ \A i \in 1..Len(q) : (p \o q)[Len(p) + i] = q[i]
<1> DEFINE r == p \o q
<1>1. /\ r \in Seq(Marks) /\ Len(r) = Len(p) + Len(q)
      /\ \A i \in 1..(Len(p) + Len(q)) : r[i] = IF i <= Len(p) THEN p[i] ELSE q[i - Len(p)]
  BY ConcatProperties
<1>2. Len(p) \in Nat /\ Len(q) \in Nat
  OBVIOUS
<1> DEFINE m == Len(p)  n == Len(q)
<1>3. m \in Nat /\ n \in Nat /\ \A i \in 1..(m + n) : r[i] = IF i <= m THEN p[i] ELSE q[i - m]
  BY <1>1, <1>2
<1> HIDE DEF r, m, n
<1>4. (\A i \in 1..m : r[i] = p[i]) /\ (\A i \in 1..n : r[m + i] = q[i])
  BY <1>3, Places
<1> QED BY <1>1, <1>4, Zenon DEF r, m, n

Inserted(p, q, a, b, r) ==
  /\ r = p \o <<a, b>> \o q /\ Len(r) = Len(p) + 2 + Len(q)
  /\ \A i \in 1..Len(p) : r[i] = p[i]
  /\ r[Len(p) + 1] = a /\ r[Len(p) + 2] = b
  /\ \A i \in 1..Len(q) : r[Len(p) + 2 + i] = q[i]

LEMMA Insert ==
  ASSUME NEW p \in Seq(Marks), NEW q \in Seq(Marks), NEW a \in Marks, NEW b \in Marks
  PROVE  \E r \in Seq(Marks) : Inserted(p, q, a, b, r)
<1> DEFINE m == <<a, b>>  l == p \o m  r == l \o q
<1>1. m \in Seq(Marks) /\ Len(m) = 2 /\ m[1] = a /\ m[2] = b
  BY Two
<1> HIDE DEF m
<1>3. /\ l \in Seq(Marks) /\ Len(l) = Len(p) + Len(m)
      /\ \A i \in 1..Len(p) : l[i] = p[i]
      /\ \A i \in 1..Len(m) : l[Len(p) + i] = m[i]
  BY <1>1, Concat
<1> HIDE DEF l
<1>4. /\ r \in Seq(Marks) /\ Len(r) = Len(l) + Len(q)
      /\ \A i \in 1..Len(l) : r[i] = l[i]
      /\ \A i \in 1..Len(q) : r[Len(l) + i] = q[i]
  BY <1>3, Concat
<1> HIDE DEF r
<1>5. /\ Len(p) \in Nat /\ Len(q) \in Nat /\ Len(l) = Len(p) + 2
      /\ 1 \in 1..Len(m) /\ 2 \in 1..Len(m) /\ Len(r) = Len(p) + 2 + Len(q)
  BY <1>1, <1>3, <1>4
<1>6. /\ \A i \in 1..Len(p) : i \in 1..Len(l)
      /\ Len(p) + 1 \in 1..Len(l) /\ Len(p) + 2 \in 1..Len(l)
  BY <1>5
<1>7. /\ \A i \in 1..Len(p) : r[i] = p[i]
      /\ r[Len(p) + 1] = a /\ r[Len(p) + 2] = b
  BY <1>1, <1>3, <1>4, <1>5, <1>6
<1>8. \A i \in 1..Len(q) : r[Len(p) + 2 + i] = q[i]
  BY <1>4, <1>5
<1>9. /\ r \in Seq(Marks) /\ Len(r) = Len(p) + 2 + Len(q)
      /\ \A i \in 1..Len(p) : r[i] = p[i]
      /\ r[Len(p) + 1] = a /\ r[Len(p) + 2] = b
      /\ \A i \in 1..Len(q) : r[Len(p) + 2 + i] = q[i]
  BY <1>4, <1>5, <1>7, <1>8
<1>10. r = p \o <<a, b>> \o q
  BY DEF r, l, m
<1> QED BY <1>9, <1>10 DEF Inserted

LEMMA Prefix ==
  ASSUME NEW s \in Seq(Marks), NEW i \in 1..(Len(s) + 1), NEW k \in 0..Len(s)
  PROVE  /\ SubSeq(s, i, k) \in Seq(Marks)
         /\ i = 1 => Len(SubSeq(s, i, k)) = k /\ \A j \in 1..k : SubSeq(s, i, k)[j] = s[j]
<1>1. \A j \in i..k : s[j] \in Marks
  BY ElementOfSeq
<1> QED BY <1>1, SubSeqProperties

(* A name that is a device before its first dot.                           *)
LEMMA DeviceIs ==
  ASSUME NEW s \in Seq(Marks), NEW d \in Devices, BeforeFirst(s, {"."}) = <<d>>
  PROVE  Device(s) \/ s = <<d>>
<1>1. CASE BeforeFirst(s, {Dot}) = s
  BY <1>1 DEF Dot
<1>2. ASSUME NEW k \in 1..Len(s), BeforeFirst(s, {Dot}) = SubSeq(s, 1, k - 1), s[k] \in {Dot}
      PROVE  Device(s)
  <2> DEFINE b == SubSeq(s, 1, k - 1)
  <2>1. Len(b) = k - 1 /\ \A j \in 1..(k - 1) : b[j] = s[j]
    BY Prefix
  <2>3. b = <<d>>
    BY <1>2 DEF Dot
  <2> HIDE DEF b
  <2>4. k - 1 = 1 /\ b[1] = d
    BY <2>1, <2>3
  <2>5. s[1] = d /\ k = 2
    BY <2>1, <2>4
  <2>6. Len(s) >= 2
    BY <2>5
  <2> QED BY <1>2, <2>5, <2>6 DEF Device
<1> QED BY <1>1, <1>2, BeforeIs

LEMMA DeviceStarts ==
  ASSUME NEW s \in Seq(Marks), Device(s)
  PROVE  BeforeFirst(s, {"."}) \in {<<d>> : d \in Devices}
<1>1. s[1] # Dot /\ Len(s) >= 2 /\ s[2] = Dot /\ s[1] \in Devices
  BY OwnMarks DEF Device
<1>2. PICK k \in 1..Len(s) : /\ BeforeFirst(s, {Dot}) = SubSeq(s, 1, k - 1) /\ s[k] \in {Dot}
                             /\ \A i \in 1..(k - 1) : s[i] \notin {Dot}
  <2>1. ~\A i \in 1..Len(s) : s[i] \notin {Dot}
    BY <1>1
  <2> QED BY <2>1, BeforeIs
<1>3. k = 2
  BY <1>1, <1>2
<1> DEFINE b == SubSeq(s, 1, 1)
<1>4. Len(b) = 1 /\ b[1] = s[1] /\ b \in Seq(Marks)
  BY <1>1, Prefix
<1>5. b = <<s[1]>>
  <2> HIDE DEF b
  <2>1. s[1] \in Marks
    BY <1>1, ElementOfSeq
  <2>2. <<s[1]>> \in Seq(Marks) /\ Len(<<s[1]>>) = 1 /\ <<s[1]>>[1] = s[1]
    BY <2>1, One
  <2> DEFINE c == <<s[1]>>
  <2> HIDE DEF c
  <2>3. c \in Seq(Marks) /\ Len(c) = 1 /\ c[1] = s[1]
    BY <2>2 DEF c
  <2>4. b = c
    BY <1>4, <2>3, SeqEqual
  <2> QED BY <2>4 DEF c
<1> QED BY <1>1, <1>2, <1>3, <1>5 DEF Dot

LEMMA PrefixIs ==
  ASSUME NEW s, Clean(s), ~Device(s), NEW k \in 0..Len(s)
  PROVE  Clean(SubSeq(s, 1, k)) /\ ~Device(SubSeq(s, 1, k))
  BY Prefix DEF Clean, Device

LEMMA BaseName ==
  ASSUME NEW url \in Seq(Marks)
  PROVE  UrlBaseName(url) \in Seq(Marks)
<1> DEFINE bare == StripRight(BeforeFirst(url, {"?", "#"}), {"/"})
<1>1. BeforeFirst(url, {"?", "#"}) \in Seq(Marks)
  <2>1. \A k \in 1..Len(url) : SubSeq(url, 1, k - 1) \in Seq(Marks)
    BY Prefix
  <2> QED BY <2>1, BeforeIs
<1>2. bare \in Seq(Marks)
  <2>1. PICK k \in 0..Len(BeforeFirst(url, {"?", "#"})) : bare = SubSeq(BeforeFirst(url, {"?", "#"}), 1, k)
    BY <1>1, StripIs
  <2> QED BY <1>1, <2>1, Prefix
<1>3. UrlBaseName(url)
        = SubSeq(bare, SelectLastInSeq(bare, LAMBDA x : x \in Separators) + 1, Len(bare))
  BY DEF UrlBaseName
<1> HIDE DEF bare
<1>4. PICK k \in 0..Len(bare) : SelectLastInSeq(bare, LAMBDA x : x \in Separators) = k
  BY <1>2, LastSeparator
<1>5. UrlBaseName(url) = SubSeq(bare, k + 1, Len(bare))
  BY <1>3, <1>4, Zenon
<1> QED BY <1>2, <1>5, Prefix

(* Characters that are put in the place of others.                         *)
LEMMA Mapped ==
  ASSUME NEW s \in Seq(Marks), NEW f, DOMAIN f = DOMAIN s, \A i \in DOMAIN s : f[i] \in Marks,
         f = [i \in DOMAIN s |-> f[i]]
  PROVE  f \in Seq(Marks) /\ Len(f) = Len(s)
<1>1. DOMAIN s = 1..Len(s) /\ Len(s) \in Nat
  OBVIOUS
<1>2. f \in [1..Len(s) -> Marks]
  BY <1>1, Zenon
<1> QED BY <1>1, <1>2

LEMMA Decoded ==
  ASSUME NEW s \in Seq(Marks)
  PROVE  PercentDecode(s) \in Seq(Marks)
<1> DEFINE f == PercentDecode(s)
<1>1. \A x \in DOMAIN Encoded : Encoded[x] \in Marks
  <2>1. DOMAIN Encoded = {"%2F", "%2E", "%20"} /\ Encoded["%2F"] = "/" /\ Encoded["%2E"] = "." /\ Encoded["%20"] = " "
    BY DEF Encoded
  <2> QED BY <2>1, PathUtilAssumption
<1>2. \A i \in DOMAIN s : s[i] \in Marks
  OBVIOUS
<1>3. /\ f = [i \in DOMAIN s |-> IF s[i] \in DOMAIN Encoded THEN Encoded[s[i]] ELSE s[i]]
  BY DEF PercentDecode
<1> HIDE DEF f
<1>4. DOMAIN f = DOMAIN s /\ (\A i \in DOMAIN s : f[i] \in Marks) /\ f = [i \in DOMAIN s |-> f[i]]
  BY <1>1, <1>2, <1>3
<1>5. f \in Seq(Marks)
  BY <1>4, Mapped
<1> QED BY <1>5 DEF f

(* SanitizeFileName: no mark of the name is illegal, whatever was encoded, *)
(* and it is no device with an extension.                                  *)
LEMMA Sanitized ==
  ASSUME NEW name \in Seq(Marks)
  PROVE  Clean(SanitizeFileName(name)) /\ ~Device(SanitizeFileName(name))
<1> DEFINE decoded == PercentDecode(name)
           clean   == [i \in DOMAIN decoded |-> IF decoded[i] \in Illegal THEN Bar ELSE decoded[i]]
           out     == StripRight(clean, {".", " "})
           base    == BeforeFirst(out, {"."})
           safe    == IF base \in {<<d>> : d \in Devices} THEN <<Bar>> \o out ELSE out
           k       == IF Len(safe) < MaxNameLen THEN Len(safe) ELSE MaxNameLen
<1>1. SanitizeFileName(name) = SubSeq(safe, 1, k)
  BY DEF SanitizeFileName, Bar
<1>2. decoded \in Seq(Marks)
  BY Decoded
<1> HIDE DEF decoded
<1>3. Clean(clean)
  <2>1. DOMAIN decoded = 1..Len(decoded) /\ \A i \in DOMAIN decoded : decoded[i] \in Marks
    BY <1>2
  <2>2. clean = [i \in DOMAIN decoded |-> IF decoded[i] \in Illegal THEN Bar ELSE decoded[i]]
    OBVIOUS
  <2> HIDE DEF clean
  <2>3. /\ DOMAIN clean = DOMAIN decoded /\ clean = [i \in DOMAIN decoded |-> clean[i]]
        /\ \A i \in DOMAIN decoded : clean[i] \in Marks /\ clean[i] \notin Illegal
    BY <2>1, <2>2, OwnMarks
  <2>4. clean \in Seq(Marks) /\ Len(clean) = Len(decoded)
    BY <1>2, <2>3, Mapped
  <2> QED BY <2>1, <2>3, <2>4 DEF Clean
<1> HIDE DEF clean
<1>4. Clean(out)
  <2>1. PICK n \in 0..Len(clean) : out = SubSeq(clean, 1, n)
    BY <1>3, StripIs DEF Clean
  <2>2. SubSeq(clean, 1, n) \in Seq(Marks) /\ Len(SubSeq(clean, 1, n)) = n
        /\ \A j \in 1..n : SubSeq(clean, 1, n)[j] = clean[j]
    BY <1>3, Prefix DEF Clean
  <2> HIDE DEF out
  <2> QED BY <1>3, <2>1, <2>2 DEF Clean
<1> HIDE DEF out
<1>5. Clean(safe) /\ ~Device(safe)
  <2>1. CASE base \in {<<d>> : d \in Devices}
    <3> DEFINE m == <<Bar>>
    <3>1. m \in Seq(Marks) /\ Len(m) = 1 /\ m[1] = Bar
      BY OwnMarks, One
    <3> HIDE DEF m
    <3> DEFINE r == m \o out
    <3>2. safe = r
      BY <2>1 DEF m
    <3>3. /\ r \in Seq(Marks) /\ Len(r) = Len(m) + Len(out)
          /\ \A i \in 1..Len(m) : r[i] = m[i]
          /\ \A i \in 1..Len(out) : r[Len(m) + i] = out[i]
      BY <1>4, <3>1, Concat DEF Clean
    <3> HIDE DEF r
    <3>4. r[1] = Bar /\ Len(r) = Len(out) + 1 /\ Len(out) \in Nat
      BY <1>4, <3>1, <3>3 DEF Clean
    <3>5. ASSUME NEW i \in 1..Len(r) PROVE r[i] \notin Illegal
      <4>1. CASE i = 1
        BY <3>4, <4>1, OwnMarks
      <4>2. CASE i # 1
        <5> DEFINE j == i - 1
        <5>1. j \in 1..Len(out) /\ Len(m) + j = i
          BY <3>1, <3>4, <4>2
        <5> HIDE DEF j
        <5>2. r[Len(m) + j] = out[j] /\ out[j] \notin Illegal
          BY <1>4, <3>3, <5>1 DEF Clean
        <5> QED BY <5>1, <5>2
      <4> QED BY <4>1, <4>2
    <3>6. Clean(r) /\ ~Device(r)
      BY <3>3, <3>4, <3>5, OwnMarks DEF Clean, Device
    <3> HIDE DEF safe
    <3> QED BY <3>2, <3>6
  <2>2. CASE base \notin {<<d>> : d \in Devices}
    BY <1>4, <2>2, DeviceStarts DEF Clean
  <2> QED BY <2>1, <2>2
<1> HIDE DEF safe
<1>6. k \in 0..Len(safe)
  <2>1. MaxNameLen \in Nat
    BY PathUtilAssumption
  <2>2. Len(safe) \in Nat
    BY <1>5 DEF Clean
  <2> QED BY <2>1, <2>2
<1> HIDE DEF k
<1> QED BY <1>1, <1>5, <1>6, PrefixIs

LEMMA DefaultNameIs ==
  ASSUME NEW url \in Seq(Marks)
  PROVE  /\ Clean(DefaultName(url)) /\ ~Device(DefaultName(url))
         /\ Len(DefaultName(url)) \in Nat \ {0}
<1> DEFINE base == SanitizeFileName(UrlBaseName(url))
           w == "download"  x == "dat"
           d == <<w, Dot, x>>
<1>1. Clean(base) /\ ~Device(base)
  BY BaseName, Sanitized
<1>2. DefaultName(url) = IF base = <<>> THEN d ELSE base
  BY DEF DefaultName, Dot
<1>3. w \in Marks \ (Illegal \cup Devices) /\ x \in Marks \ Illegal
  BY PathUtilAssumption DEF Illegal, Separators, Devices
<1> HIDE DEF base, w, x
<1>4. d \in Seq(Marks) /\ Len(d) = 3 /\ d[1] = w /\ d[2] = Dot /\ d[3] = x
  BY <1>3, OwnMarks, Three
<1> HIDE DEF d
<1>5. Clean(d) /\ ~Device(d)
  BY <1>3, <1>4, OwnMarks DEF Clean, Device
<1>6. base # <<>> => Len(base) \in Nat \ {0}
  BY <1>1, EmptySeq DEF Clean
<1> QED BY <1>1, <1>2, <1>4, <1>5, <1>6

(* StampName puts two marks before a dot or at the end: after place k.     *)
Stamped(s, stamp, r, k) ==
  /\ r \in Seq(Marks) /\ Len(r) = Len(s) + 2
  /\ \A i \in 1..k : r[i] = s[i]
  /\ r[k + 1] = Bar /\ r[k + 2] = stamp
  /\ \A i \in (k + 3)..(Len(s) + 2) : r[i] = s[i - 2]
  /\ k < Len(s) => s[k + 1] = Dot
  /\ k = Len(s) /\ Clean(s) => \A i \in 1..Len(s) : s[i] # Dot

LEMMA StampIs ==
  ASSUME NEW s \in Seq(Marks), NEW stamp \in Marks
  PROVE  \E k \in 0..Len(s) : Stamped(s, stamp, StampName(s, stamp), k)
<1>1. PICK dot \in 0..Len(s) :
        /\ SelectLastInSeq(s, LAMBDA x : x = Dot) = dot /\ (dot # 0 => s[dot] = Dot)
        /\ \A i \in 1..Len(s) : s[i] = Dot => i <= dot
  BY LastDot DEF Dot
<1>2. PICK slash \in 0..Len(s) :
        /\ SelectLastInSeq(s, LAMBDA x : x \in Separators) = slash
        /\ slash # 0 => s[slash] \in Separators
  BY LastSeparator
<1>3. StampName(s, stamp)
        = IF dot > slash THEN SubSeq(s, 1, dot - 1) \o <<Bar, stamp>> \o SubSeq(s, dot, Len(s))
                         ELSE s \o <<Bar, stamp>>
  BY <1>1, <1>2, Zenon DEF StampName, Bar, Dot
<1>4. CASE dot > slash
  <2>1. dot \in 1..Len(s) /\ dot - 1 \in 0..Len(s) /\ s[dot] = Dot
    BY <1>1, <1>2, <1>4
  <2> DEFINE a == SubSeq(s, 1, dot - 1)  b == SubSeq(s, dot, Len(s))
  <2>2. a \in Seq(Marks) /\ Len(a) = dot - 1 /\ \A i \in 1..(dot - 1) : a[i] = s[i]
    BY <2>1, Prefix
  <2>3. /\ b \in Seq(Marks) /\ Len(b) = Len(s) - dot + 1
        /\ \A i \in 1..(Len(s) - dot + 1) : b[i] = s[dot + i - 1]
    <3>1. \A i \in dot..Len(s) : s[i] \in Marks
      BY <2>1, ElementOfSeq
    <3> QED BY <2>1, <3>1, SubSeqProperties
  <2>4. StampName(s, stamp) = a \o <<Bar, stamp>> \o b
    BY <1>3, <1>4
  <2> HIDE DEF a, b
  <2>11. PICK r \in Seq(Marks) : Inserted(a, b, Bar, stamp, r)
    BY <2>2, <2>3, OwnMarks, Insert, Zenon
  <2>5. /\ r = a \o <<Bar, stamp>> \o b /\ Len(r) = Len(a) + 2 + Len(b)
        /\ \A i \in 1..Len(a) : r[i] = a[i]
        /\ r[Len(a) + 1] = Bar /\ r[Len(a) + 2] = stamp
        /\ \A i \in 1..Len(b) : r[Len(a) + 2 + i] = b[i]
    BY <2>11, Zenon DEF Inserted
  <2>6. ASSUME NEW i \in (dot + 2)..(Len(s) + 2) PROVE r[i] = s[i - 2]
    <3> DEFINE j == i - (dot + 1)
    <3>1. /\ j \in 1..Len(b) /\ Len(a) + 2 + j = i /\ dot + j - 1 = i - 2
          /\ j \in 1..(Len(s) - dot + 1)
      BY <2>1, <2>2, <2>3
    <3> HIDE DEF j
    <3>2. r[Len(a) + 2 + j] = b[j] /\ b[j] = s[dot + j - 1]
      BY <2>3, <2>5, <3>1
    <3> QED BY <3>1, <3>2
  <2> DEFINE k == dot - 1
  <2>7. /\ k \in 0..Len(s) /\ k + 1 = dot /\ k + 3 = dot + 2 /\ k < Len(s) /\ k # Len(s)
        /\ Len(a) = k
    BY <2>1, <2>2
  <2>8. Len(r) = Len(s) + 2
    <3>1. Len(r) = Len(a) + 2 + Len(b) /\ Len(a) = dot - 1 /\ Len(b) = Len(s) - dot + 1
      BY <2>2, <2>3, <2>5, Zenon
    <3> QED BY <3>1
  <2> HIDE DEF k
  <2>9. /\ \A i \in 1..k : r[i] = s[i]
        /\ r[k + 1] = Bar /\ r[k + 2] = stamp /\ s[k + 1] = Dot
        /\ \A i \in (k + 3)..(Len(s) + 2) : r[i] = s[i - 2]
    BY <2>1, <2>2, <2>5, <2>6, <2>7 DEF k
  <2>10. Stamped(s, stamp, r, k)
    BY <2>5, <2>7, <2>8, <2>9 DEF Stamped
  <2> QED BY <2>4, <2>5, <2>7, <2>10
<1>5. CASE ~(dot > slash)
  <2> DEFINE m == <<Bar, stamp>>
  <2>1. m \in Seq(Marks) /\ Len(m) = 2 /\ m[1] = Bar /\ m[2] = stamp
    BY OwnMarks, Two
  <2>2. StampName(s, stamp) = s \o m
    BY <1>3, <1>5
  <2> HIDE DEF m
  <2> DEFINE r == s \o m
  <2>3. /\ r \in Seq(Marks) /\ Len(r) = Len(s) + Len(m)
        /\ \A i \in 1..Len(s) : r[i] = s[i]
        /\ \A i \in 1..Len(m) : r[Len(s) + i] = m[i]
    BY <2>1, Concat
  <2> HIDE DEF r
  <2>4. Clean(s) => \A i \in 1..Len(s) : s[i] # Dot
    <3>1. Clean(s) => slash = 0
      BY <1>2 DEF Clean, Illegal
    <3> QED BY <1>1, <1>2, <1>5, <3>1
  <2>5. /\ Len(s) \in 0..Len(s) /\ ~(Len(s) < Len(s)) /\ 1 \in 1..Len(m) /\ 2 \in 1..Len(m)
        /\ \A i \in (Len(s) + 3)..(Len(s) + 2) : r[i] = s[i - 2]
    BY <2>1
  <2>6. r[Len(s) + 1] = Bar /\ r[Len(s) + 2] = stamp
    BY <2>1, <2>3, <2>5
  <2>7. Stamped(s, stamp, r, Len(s))
    BY <2>1, <2>3, <2>4, <2>5, <2>6 DEF Stamped
  <2> QED BY <2>2, <2>5, <2>7 DEF r
<1> QED BY <1>4, <1>5

(* The name of a download whose user gave none.                            *)
LEMMA DefaultSafe ==
  ASSUME NEW url \in Seq(Marks), NEW stamp \in Plain
  PROVE  /\ StampName(DefaultName(url), stamp) \in Seq(Marks)
         /\ SafeName(StampName(DefaultName(url), stamp))
<1> DEFINE s == DefaultName(url)
           r == StampName(s, stamp)
<1>1. Clean(s) /\ ~Device(s) /\ Len(s) \in Nat \ {0} /\ s \in Seq(Marks)
  BY DefaultNameIs DEF Clean
<1>2. stamp \in Marks /\ stamp \notin Illegal
  BY DEF Plain
<1> HIDE DEF s
<1>3. PICK k \in 0..Len(s) : Stamped(s, stamp, r, k)
  BY <1>1, <1>2, StampIs
<1> HIDE DEF r
<1>4. Len(s) \in Nat /\ Len(s) >= 1 /\ Len(r) = Len(s) + 2 /\ r \in Seq(Marks) /\ DOMAIN r = 1..Len(r)
  BY <1>1, <1>3 DEF Stamped
<1>5. \A i \in DOMAIN r : r[i] \notin Illegal
  <2> SUFFICES ASSUME NEW i \in 1..(Len(s) + 2) PROVE r[i] \notin Illegal
    BY <1>4
  <2>1. \/ i \in 1..k \/ i = k + 1 \/ i = k + 2 \/ (i \in (k + 3)..(Len(s) + 2) /\ i - 2 \in 1..Len(s))
    BY <1>4
  <2>2. \A j \in 1..Len(s) : s[j] \notin Illegal
    BY <1>1 DEF Clean
  <2>3. \A j \in 1..k : j \in 1..Len(s)
    BY <1>4
  <2> QED BY <1>2, <1>3, <2>1, <2>2, <2>3, OwnMarks DEF Stamped
<1>6. ~Device(r)
  <2> SUFFICES ASSUME Device(r) PROVE FALSE
    OBVIOUS
  <2>1. r[1] \in Devices /\ r[2] = Dot
    BY DEF Device
  <2>2. k # 0 /\ k # 1
    BY <1>3, <2>1, OwnMarks DEF Stamped
  <2>3. k >= 2 /\ Len(s) >= 2 /\ 1 \in 1..k /\ 2 \in 1..k
    BY <1>4, <2>2
  <2>4. r[1] = s[1] /\ r[2] = s[2]
    BY <1>3, <2>3 DEF Stamped
  <2> QED BY <1>1, <2>1, <2>3, <2>4 DEF Device
<1>7. r # <<>> /\ (\A d : r # <<d>>) /\ \A d, e : r # <<d, e>>
  <2>1. Len(r) # 0 /\ Len(r) # 1 /\ Len(r) # 2
    BY <1>4
  <2>2. Len(<<>>) = 0 /\ (\A d : Len(<<d>>) = 1) /\ \A d, e : Len(<<d, e>>) = 2
    OBVIOUS
  <2> QED BY <2>1, <2>2, Zenon
<1>8. BeforeFirst(r, {"."}) \notin {<<d>> : d \in Devices}
  BY <1>4, <1>6, <1>7, DeviceIs
<1>9. SafeName(r)
  BY <1>5, <1>7, <1>8, Zenon DEF SafeName
<1> QED BY <1>4, <1>9 DEF r, s

(* A stamped name is another one than the name and those of a video of it. *)
LEMMA StampedOther ==
  ASSUME NEW s \in Seq(Marks), NEW stamp \in Marks
  PROVE  StampName(s, stamp) \in Seq(Marks) /\ StampName(s, stamp) \notin VideoFiles(s) \cup {s}
<1> DEFINE r == StampName(s, stamp)
<1>1. PICK k \in 0..Len(s) : Stamped(s, stamp, r, k)
  BY StampIs
<1> HIDE DEF r
<1>4. Len(s) \in Nat /\ Len(r) = Len(s) + 2 /\ r \in Seq(Marks)
  BY <1>1 DEF Stamped
<1>2. r # s /\ \A e \in VideoExts : r # s \o <<e>>
  <2>1. \A e : Len(s \o <<e>>) = Len(s) + 1
    OBVIOUS
  <2> QED BY <1>4, <2>1
<1>3. ASSUME NEW e \in VideoExts PROVE r # s \o <<"_full", e>>
  <2> DEFINE full == "_full"
             f == s \o <<full, e>>
  <2>1. full # Bar /\ full # Dot
    BY DEF Bar, Dot
  <2> HIDE DEF full
  <2>2. (\A i \in 1..Len(s) : f[i] = s[i]) /\ f[Len(s) + 1] = full
    OBVIOUS
  <2> HIDE DEF f
  <2>3. r[k + 1] = Bar
    BY <1>1 DEF Stamped
  <2>4. CASE k < Len(s)
    <3>1. k + 1 \in 1..Len(s) /\ s[k + 1] = Dot
      BY <1>1, <1>4, <2>4 DEF Stamped
    <3> QED BY <2>2, <2>3, <3>1, OwnMarks DEF f, full
  <2>5. CASE k = Len(s)
    BY <2>1, <2>2, <2>3, <2>5 DEF f, full
  <2>6. k < Len(s) \/ k = Len(s)
    BY <1>4
  <2> QED BY <2>4, <2>5, <2>6
<1> QED BY <1>4, <1>2, <1>3 DEF VideoFiles, r

(* So are the files of a video under a stamped base, and no name is one of *)
(* its own video's.                                                        *)
LEMMA VideoOther ==
  ASSUME NEW s \in Seq(Marks), NEW a, NEW b, NEW c, NEW d
  PROVE  /\ s \notin VideoFiles(s)
         /\ (s \o <<a, b>>) \o <<c>> \notin VideoFiles(s) \cup {s}
         /\ (s \o <<a, b>>) \o <<c, d>> \notin VideoFiles(s) \cup {s}
         /\ s \o <<c>> # s /\ s \o <<c, d>> # s
<1>1. \A e : Len(s \o <<e>>) = Len(s) + 1
  OBVIOUS
<1>2. \A e, f : Len(s \o <<e, f>>) = Len(s) + 2
  OBVIOUS
<1>3. /\ Len((s \o <<a, b>>) \o <<c>>) = Len(s) + 3
      /\ Len((s \o <<a, b>>) \o <<c, d>>) = Len(s) + 4
  OBVIOUS
<1>4. Len(s) \in Nat
  OBVIOUS
<1>5. \A f \in VideoFiles(s) : Len(f) = Len(s) + 1 \/ Len(f) = Len(s) + 2
  <2> TAKE f \in VideoFiles(s)
  <2> DEFINE full == "_full"
  <2>1. (\E e : f = s \o <<e>>) \/ \E e : f = s \o <<full, e>>
    BY Zenon DEF VideoFiles
  <2> HIDE DEF full
  <2>2. CASE \E e : f = s \o <<e>>
    BY <1>1, <2>2, Zenon
  <2>3. CASE \E e : f = s \o <<full, e>>
    BY <1>2, <2>3, Zenon
  <2> QED BY <2>1, <2>2, <2>3, Zenon
<1> DEFINE Far(f)  == Len(f) \in {Len(s) + 3, Len(s) + 4}
           Near(f) == Len(f) \in {Len(s) + 1, Len(s) + 2}
<1>6. (\A f : Far(f) => f \notin VideoFiles(s) \cup {s}) /\ \A f : Near(f) => f # s
  BY <1>4, <1>5
<1>7. /\ Far((s \o <<a, b>>) \o <<c>>) /\ Far((s \o <<a, b>>) \o <<c, d>>)
      /\ Near(s \o <<c>>) /\ Near(s \o <<c, d>>)
  BY <1>1, <1>2, <1>3, Zenon
<1>8. s \notin VideoFiles(s)
  BY <1>4, <1>5
<1> HIDE DEF Far, Near
<1> QED BY <1>6, <1>7, <1>8, Zenon

-----------------------------------------------------------------------------
(* The files a video makes.                                                *)

LEMMA LongSafe ==
  ASSUME NEW r, Clean(r), ~Device(r), Len(r) >= 3
  PROVE  SafeName(r)
<1>1. r \in Seq(Marks) /\ DOMAIN r = 1..Len(r) /\ \A i \in DOMAIN r : r[i] \notin Illegal
  BY DEF Clean
<1>2. r # <<>> /\ (\A d : r # <<d>>) /\ \A d, e : r # <<d, e>>
  <2>1. Len(r) # 0 /\ Len(r) # 1 /\ Len(r) # 2
    BY DEF Clean
  <2>2. Len(<<>>) = 0 /\ (\A d : Len(<<d>>) = 1) /\ \A d, e : Len(<<d, e>>) = 2
    OBVIOUS
  <2> QED BY <2>1, <2>2, Zenon
<1>3. BeforeFirst(r, {"."}) \notin {<<d>> : d \in Devices}
  BY <1>1, <1>2, DeviceIs
<1> QED BY <1>1, <1>2, <1>3, Zenon DEF SafeName

(* What is put behind a name makes no device of it.                        *)
LEMMA Suffixed ==
  ASSUME NEW s, Clean(s), ~Device(s), NEW q, Clean(q),
         Len(s) >= 2 \/ (Len(s) = 1 /\ Len(q) >= 1 /\ q[1] # Dot)
  PROVE  Clean(s \o q) /\ ~Device(s \o q) /\ Len(s \o q) = Len(s) + Len(q)
<1> DEFINE r == s \o q
<1>1. /\ r \in Seq(Marks) /\ Len(r) = Len(s) + Len(q)
      /\ \A i \in 1..Len(s) : r[i] = s[i]
      /\ \A i \in 1..Len(q) : r[Len(s) + i] = q[i]
  BY Concat DEF Clean
<1> HIDE DEF r
<1>2. Len(s) \in Nat /\ Len(q) \in Nat
  BY DEF Clean
<1>3. ASSUME NEW i \in 1..Len(r) PROVE r[i] \notin Illegal
  <2>1. CASE i \in 1..Len(s)
    BY <1>1, <2>1 DEF Clean
  <2>2. CASE i \notin 1..Len(s)
    <3> DEFINE j == i - Len(s)
    <3>1. j \in 1..Len(q) /\ Len(s) + j = i
      BY <1>1, <1>2, <2>2
    <3> HIDE DEF j
    <3>2. r[Len(s) + j] = q[j] /\ q[j] \notin Illegal
      BY <1>1, <3>1 DEF Clean
    <3> QED BY <3>1, <3>2
  <2> QED BY <2>1, <2>2
<1>4. CASE Len(s) >= 2
  <2>1. 1 \in 1..Len(s) /\ 2 \in 1..Len(s)
    BY <1>2, <1>4
  <2>2. r[1] = s[1] /\ r[2] = s[2]
    BY <1>1, <2>1
  <2> QED BY <1>1, <1>3, <1>4, <2>2 DEF r, Clean, Device
<1>5. CASE Len(s) = 1 /\ Len(q) >= 1 /\ q[1] # Dot
  <2>1. 1 \in 1..Len(q) /\ Len(s) + 1 = 2
    BY <1>2, <1>5
  <2>2. r[2] = q[1]
    BY <1>1, <2>1
  <2> QED BY <1>1, <1>3, <1>5, <2>2 DEF r, Clean, Device
<1> QED BY <1>4, <1>5

LEMMA VideoBaseIs ==
  ASSUME NEW url \in Seq(Marks)
  PROVE  Clean(VideoBase(url)) /\ ~Device(VideoBase(url)) /\ Len(VideoBase(url)) \in Nat \ {0}
<1> DEFINE base == SanitizeFileName(UrlBaseName(url))
           dot  == SelectLastInSeq(base, LAMBDA x : x = ".")
           cut  == IF dot = 0 THEN base ELSE SubSeq(base, 1, dot - 1)
           v    == "video"
<1>1. VideoBase(url) = IF cut = <<>> THEN <<v>> ELSE cut
  BY DEF VideoBase
<1>2. Clean(base) /\ ~Device(base)
  BY BaseName, Sanitized
<1>3. v \in Marks \ Illegal
  BY PathUtilAssumption DEF Illegal, Separators
<1> HIDE DEF base, v
<1>4. dot \in 0..Len(base)
  BY <1>2, LastDot, Zenon DEF Clean
<1>5. Clean(cut) /\ ~Device(cut)
  <2> HIDE DEF dot
  <2>1. dot # 0 => dot - 1 \in 0..Len(base)
    BY <1>2, <1>4 DEF Clean
  <2> QED BY <1>2, <2>1, PrefixIs
<1> HIDE DEF cut
<1>6. cut # <<>> => Len(cut) \in Nat \ {0}
  BY <1>5, EmptySeq DEF Clean
<1> DEFINE w == <<v>>
<1>7. w \in Seq(Marks) /\ Len(w) = 1 /\ w[1] = v
  BY <1>3, One
<1>8. VideoBase(url) = IF cut = <<>> THEN w ELSE cut
  BY <1>1
<1> HIDE DEF w
<1>9. Clean(w) /\ ~Device(w)
  BY <1>3, <1>7 DEF Clean, Device
<1>10. CASE cut = <<>>
  <2>1. VideoBase(url) = w /\ Len(w) \in Nat \ {0}
    BY <1>7, <1>8, <1>10
  <2> QED BY <1>9, <2>1, Zenon
<1>11. CASE cut # <<>>
  <2>1. VideoBase(url) = cut
    BY <1>8, <1>11
  <2> QED BY <1>5, <1>6, <1>11, <2>1, Zenon
<1> QED BY <1>10, <1>11

(* All a video leaves when its user gave no name.                          *)
LEMMA VideoSafe ==
  ASSUME NEW url \in Seq(Marks), NEW stamp \in Plain, NEW e \in VideoExts
  PROVE  /\ SafeName((VideoBase(url) \o <<"_", stamp>>) \o <<e>>)
         /\ SafeName((VideoBase(url) \o <<"_", stamp>>) \o <<"_full", e>>)
<1> DEFINE s == VideoBase(url)  full == "_full"
           q == <<Bar, stamp>>  r == s \o q  p == <<e>>  f == <<full, e>>
<1>1. Clean(s) /\ ~Device(s) /\ Len(s) \in Nat \ {0}
  BY VideoBaseIs
<1>2. stamp \in Marks \ Illegal /\ full \in Marks \ Illegal /\ e \in Marks \ Illegal
  BY PathUtilAssumption DEF Plain, Illegal, Separators, VideoExts
<1> HIDE DEF s, full
<1>3. q \in Seq(Marks) /\ Len(q) = 2 /\ q[1] = Bar /\ q[2] = stamp
  BY <1>2, OwnMarks, Two
<1>4. p \in Seq(Marks) /\ Len(p) = 1 /\ p[1] = e
  BY <1>2, One
<1>5. f \in Seq(Marks) /\ Len(f) = 2 /\ f[1] = full /\ f[2] = e
  BY <1>2, Two
<1> HIDE DEF q, p, f
<1>6. Clean(q) /\ Clean(p) /\ Clean(f)
  BY <1>2, <1>3, <1>4, <1>5, OwnMarks DEF Clean
<1>7. Clean(r) /\ ~Device(r) /\ Len(r) = Len(s) + 2
  <2>1. q[1] # Dot /\ Len(q) >= 1
    BY <1>3, OwnMarks
  <2>2. \A n \in Nat \ {0} : n >= 2 \/ n = 1
    OBVIOUS
  <2>3. Len(s) >= 2 \/ Len(s) = 1
    BY <1>1, <2>2, Zenon
  <2> QED BY <1>1, <1>3, <1>6, <2>1, <2>3, Suffixed
<1> HIDE DEF r
<1>8. /\ Clean(r \o p) /\ ~Device(r \o p) /\ Len(r \o p) >= 3
      /\ Clean(r \o f) /\ ~Device(r \o f) /\ Len(r \o f) >= 3
  BY <1>1, <1>4, <1>5, <1>6, <1>7, Suffixed
<1>9. SafeName(r \o p) /\ SafeName(r \o f)
  BY <1>8, LongSafe
<1> QED BY <1>9 DEF r, q, p, f, s, full, Bar

-----------------------------------------------------------------------------
(* The command line.  The inductive invariant: the options, the tasks and  *)
(* the files have their types; nothing runs while arguments are read; and  *)
(* of every task, which file it has, by its state, if no other that began  *)
(* has the same name (Solo).                                               *)

Options ==
  [action : {"download", "version", "help", "update", "verify"},
   urls : Seq(Seq(Marks)), video : Seq(Marks), bVideoMode : BOOLEAN,
   out : Seq(Marks), bOutputSet : BOOLEAN, bVerify : BOOLEAN, bContinue : BOOLEAN,
   bDeletePartial : BOOLEAN, nThreads : 1..MaxThreads, nTimeout : Int, nJobs : 1..8]

FileState == [by : SUBSET (0..MaxArgs), whole : BOOLEAN]

Optioned == opts \in Options /\ Len(opts.urls) <= args

Filed == files \in [DOMAIN files -> FileState]

Early ==
  main \in {"parse", "act"} =>
    status = <<>> /\ path = <<>> /\ \A p \in DOMAIN files : files[p].by = {0}

Filled ==
  \/ status = <<>> /\ path = <<>> /\ main # "run"
  \/ /\ status \in [Tasks -> States] /\ path \in [Tasks -> Seq(Marks)]
     /\ Tasks # {}

Begun(t) == status[t] # "Pending"
Solo(t)  == \A u \in DOMAIN path : Begun(u) /\ path[u] = path[t] => u = t

Its(t) ==
  /\ status[t] \in {"Pending", "Running"} => \A p \in DOMAIN files : t \notin files[p].by
  /\ status[t] = "Open" /\ Solo(t) =>
       Exists(path[t]) /\ t \in files[path[t]].by /\ ~files[path[t]].whole
  /\ status[t] = "Done" /\ Solo(t) => Whole(t)
  /\ status[t] = "Error" /\ Solo(t) => ~Whole(t)
AllIts == \A t \in DOMAIN status : Its(t)

Named ==
  \A t \in DOMAIN status : Begun(t) /\ ~opts.bOutputSet => SafeName(path[t])

(* What was there under the name of -o is no task's.                       *)
Theirs(p) == Exists(p) /\ 0 \in files[p].by
Aside ==
  opts.bOutputSet /\ ~opts.bContinue =>
    \A t \in DOMAIN status : Begun(t) =>
      \A p \in VideoFiles(opts.out) \cup {opts.out} : Theirs(p) => path[t] # p

Settled ==
  main = "exited" /\ status # <<>> =>
    exit = ExitCode /\ \A t \in DOMAIN status : status[t] \in {"Done", "Error"}

IInv == TypeOK /\ Optioned /\ Filed /\ Early /\ Filled /\ AllIts /\ Named /\ Aside /\ Settled

(* What reading an argument does to the rest.                              *)
Taken ==
  /\ main = "parse" /\ main' \in {"parse", "act", "exited"}
  /\ args' \in 0..MaxArgs /\ args <= args' /\ ahead' \in {"any", "some", "dash"}
  /\ opts' \in Options /\ Len(opts'.urls) <= args'
  /\ exit' \in {0, 1, 3, 9} /\ UNCHANGED runVars

LEMMA ReadTakes ==
  ASSUME TypeOK, Optioned, NEW n \in Nat, Read(n)
  PROVE  /\ main = "parse" /\ main' = "parse" /\ exit' \in {0, 1, 3, 9} /\ UNCHANGED runVars
         /\ args' = args + n /\ args' \in 0..MaxArgs /\ args <= args' /\ ahead' \in {"any", "some", "dash"}
         /\ Len(opts.urls) <= args'
<1>1. args \in Int /\ args' = args + n /\ args' \in 0..MaxArgs /\ args <= args'
  BY WorkflowAssumption DEF Read, TypeOK
<1>2. Len(opts.urls) \in Int /\ Len(opts.urls) <= args
  BY DEF Optioned, Options
<1> QED BY <1>1, <1>2 DEF Read, TypeOK

LEMMA ParseStep ==
  ASSUME TypeOK, Optioned, CliParseArgs
  PROVE  Taken
<1>1. ASSUME NEW url \in Urls, TakeVideo(url) PROVE Taken
  <2>1. url \in Seq(Marks)
    BY WorkflowAssumption
  <2>2. opts' = [opts EXCEPT !.bVideoMode = TRUE, !.video = url] /\ Read(2)
    BY <1>1 DEF TakeVideo
  <2>3. opts' \in Options /\ opts'.urls = opts.urls
    BY <2>1, <2>2 DEF Optioned, Options
  <2> QED BY <2>2, <2>3, ReadTakes DEF Taken
<1>2. ASSUME NEW url \in Urls, TakeUrl(url) PROVE Taken
  <2>1. url \in Seq(Marks)
    BY WorkflowAssumption
  <2>2. opts' = [opts EXCEPT !.urls = Append(opts.urls, url)] /\ Read(1)
    BY <1>2 DEF TakeUrl, SetOption
  <2> DEFINE urls == Append(opts.urls, url)
  <2>4. urls \in Seq(Seq(Marks)) /\ Len(urls) = Len(opts.urls) + 1 /\ Len(opts.urls) \in Nat
    BY <2>1 DEF Optioned, Options
  <2>5. opts' = [opts EXCEPT !.urls = urls]
    BY <2>2
  <2> HIDE DEF urls
  <2>3. opts' \in Options /\ Len(opts'.urls) = Len(opts.urls) + 1 /\ Len(opts.urls) \in Nat
    BY <2>4, <2>5 DEF Optioned, Options
  <2> QED BY <2>2, <2>3, ReadTakes DEF Taken, Optioned, TypeOK
<1>3. ASSUME NEW url \in OddUrls, TakeOddUrl(url) PROVE Taken
  <2>1. url \in Seq(Marks) /\ MaxArgs \in Nat \ {0}
    BY WorkflowAssumption
  <2>2. opts' = [opts EXCEPT !.urls = <<url>>] /\ Read(MaxArgs) /\ args = 0
    BY <1>3 DEF TakeOddUrl, SetOption
  <2> DEFINE urls == <<url>>
  <2>4. urls \in Seq(Seq(Marks)) /\ Len(urls) = 1
    BY <2>1
  <2>5. opts' = [opts EXCEPT !.urls = urls]
    BY <2>2
  <2> HIDE DEF urls
  <2>3. opts' \in Options /\ Len(opts'.urls) = 1
    BY <2>4, <2>5 DEF Optioned, Options
  <2> QED BY <2>1, <2>2, <2>3, ReadTakes DEF Taken, Optioned, TypeOK
<1>4. ASSUME NEW name \in OutNames, TakeOut(name) PROVE Taken
  <2>1. name \in Seq(Marks)
    BY WorkflowAssumption
  <2>2. opts' = [opts EXCEPT !.out = name, !.bOutputSet = TRUE] /\ Read(2)
    BY <1>4 DEF TakeOut
  <2>3. opts' \in Options /\ opts'.urls = opts.urls
    BY <2>1, <2>2 DEF Optioned, Options
  <2> QED BY <2>2, <2>3, ReadTakes DEF Taken
<1>5. ASSUME NEW v \in Numbers, TakeThreads(v) \/ TakeJobs(v) \/ TakeTimeout(v) PROVE Taken
  <2>1. v \in Int /\ Clamp(v, 1, MaxThreads) \in 1..MaxThreads /\ Clamp(v, 1, 8) \in 1..8
    <3>1. v \in Int /\ MaxThreads \in Nat /\ 1 <= MaxThreads
      BY WorkflowAssumption
    <3> QED BY <3>1 DEF Clamp
  <2>2. Read(2)
    BY <1>5 DEF TakeThreads, TakeJobs, TakeTimeout
  <2>3. opts' \in Options /\ opts'.urls = opts.urls
    <3>1. CASE opts' = [opts EXCEPT !.nThreads = Clamp(v, 1, MaxThreads)]
      BY <2>1, <3>1 DEF Optioned, Options
    <3>2. CASE opts' = [opts EXCEPT !.nJobs = Clamp(v, 1, 8)]
      BY <2>1, <3>2 DEF Optioned, Options
    <3>3. CASE opts' = [opts EXCEPT !.nTimeout = v]
      BY <2>1, <3>3 DEF Optioned, Options
    <3> QED BY <1>5, <3>1, <3>2, <3>3 DEF TakeThreads, TakeJobs, TakeTimeout, SetOption
  <2> QED BY <2>2, <2>3, ReadTakes DEF Taken
<1>6. ASSUME NoTimeout \/ TakeContinue \/ TakeDelete PROVE Taken
  <2>1. Read(1)
    BY <1>6 DEF NoTimeout, TakeContinue, TakeDelete
  <2>2. opts' \in Options /\ opts'.urls = opts.urls
    <3>1. ASSUME NEW v \in Int, opts' = [opts EXCEPT !.nTimeout = v] PROVE opts' \in Options /\ opts'.urls = opts.urls
      BY <3>1 DEF Optioned, Options
    <3>2. CASE opts' = [opts EXCEPT !.bContinue = TRUE]
      BY <3>2 DEF Optioned, Options
    <3>3. CASE opts' = [opts EXCEPT !.bDeletePartial = TRUE]
      BY <3>3 DEF Optioned, Options
    <3> QED BY <1>6, <3>1, <3>2, <3>3 DEF NoTimeout, TakeContinue, TakeDelete, SetOption
  <2> QED BY <2>1, <2>2, ReadTakes DEF Taken
<1>7. ASSUME TakeCookie \/ TakeSha256 PROVE Taken
  <2>1. Read(2)
    BY <1>7 DEF TakeCookie, TakeSha256
  <2>2. opts' \in Options /\ opts'.urls = opts.urls
    <3>1. CASE opts' = [opts EXCEPT !.bVerify = TRUE]
      BY <3>1 DEF Optioned, Options
    <3>2. CASE opts' = opts
      BY <3>2 DEF Optioned
    <3> QED BY <1>7, <3>1, <3>2 DEF TakeCookie, TakeSha256, SetOption
  <2> QED BY <2>1, <2>2, ReadTakes DEF Taken
<1>8. ASSUME TakeVerify PROVE Taken
  <2>1. opts' = [opts EXCEPT !.bVerify = TRUE]
    BY <1>8 DEF TakeVerify, SetOption
  <2>2. opts' \in Options /\ opts'.urls = opts.urls
    BY <2>1 DEF Optioned, Options
  <2> QED BY <1>8, <2>2, WorkflowAssumption DEF Taken, TakeVerify, TypeOK, Optioned, Options
<1>9. ASSUME NEW action \in {"version", "help", "update", "verify"}, TakeAction(action) PROVE Taken
  <2>1. opts' = [opts EXCEPT !.action = action]
    BY <1>9 DEF TakeAction, SetOption
  <2>2. opts' \in Options /\ opts'.urls = opts.urls
    BY <2>1 DEF Optioned, Options
  <2> QED BY <1>9, <2>2 DEF Taken, TakeAction, TypeOK, Optioned, Options
<1>10. ASSUME TakeDl \/ UsageError \/ EndOfArgs PROVE Taken
  BY <1>10 DEF Taken, TakeDl, UsageError, EndOfArgs, TypeOK, Optioned, Exit
<1> QED BY <1>1, <1>2, <1>3, <1>4, <1>5, <1>6, <1>7, <1>8, <1>9, <1>10 DEF CliParseArgs

(* The step of a task: it has begun, the other tasks are as they were, and *)
(* so is every file but its own, which nobody else is added to.            *)
Step(t) ==
  /\ t \in Tasks /\ main = "run" /\ UNCHANGED <<main, args, ahead, opts, now, exit>>
  /\ status' \in [Tasks -> States] /\ path' \in [Tasks -> Seq(Marks)]
  /\ Begun(t)' /\ (Begun(t) => path'[t] = path[t])
  /\ \A u \in Tasks \ {t} : status'[u] = status[u] /\ path'[u] = path[u]
  /\ files' \in [DOMAIN files' -> FileState]
  /\ \A p : p # path'[t] =>
       (p \in DOMAIN files' <=> p \in DOMAIN files) /\ (p \in DOMAIN files => files'[p] = files[p])
  /\ \A p \in DOMAIN files' : \A x \in files'[p].by :
       x = t \/ (p \in DOMAIN files /\ x \in files[p].by)

LEMMA RunTypes ==
  ASSUME IInv, NEW t \in DOMAIN status
  PROVE  /\ status \in [Tasks -> States] /\ path \in [Tasks -> Seq(Marks)]
         /\ Tasks = 1..Len(opts.urls) /\ t \in Tasks /\ t \in 1..MaxArgs /\ t # 0
         /\ opts.urls[t] \in Seq(Marks)
<1>1. status \in [Tasks -> States] /\ path \in [Tasks -> Seq(Marks)]
  BY DEF IInv, Filled
<1>2. opts.urls \in Seq(Seq(Marks)) /\ Len(opts.urls) <= args /\ args \in 0..MaxArgs /\ MaxArgs \in Nat
  BY WorkflowAssumption DEF IInv, Optioned, Options, TypeOK
<1>3. Tasks = 1..Len(opts.urls) /\ t \in Tasks
  BY <1>1, <1>2 DEF Tasks
<1>4. opts.urls[t] \in Seq(Marks)
  BY <1>2, <1>3, ElementOfSeq
<1> QED BY <1>1, <1>2, <1>3, <1>4

LEMMA OtherKeeps ==
  ASSUME IInv, NEW t \in DOMAIN status, Step(t), NEW u \in Tasks \ {t}
  PROVE  Its(u)'
<1>1. /\ status \in [Tasks -> States] /\ path \in [Tasks -> Seq(Marks)]
      /\ Tasks' = Tasks /\ Its(u) /\ status'[u] = status[u] /\ path'[u] = path[u]
  BY RunTypes DEF IInv, AllIts, Step, Tasks
<1>2. DOMAIN path' = Tasks /\ DOMAIN path = Tasks /\ t \in Tasks
  BY <1>1 DEF Step
<1>3. Solo(u)' => Solo(u)
  <2> SUFFICES ASSUME Solo(u)', NEW v \in DOMAIN path, Begun(v), path[v] = path[u] PROVE v = u
    BY DEF Solo
  <2>1. path'[v] = path[v] /\ Begun(v)'
    BY <1>2 DEF Step, Begun
  <2> QED BY <1>1, <1>2, <2>1 DEF Solo
<1>4. Solo(u)' => path'[u] # path'[t]
  BY <1>2 DEF Solo, Step
<1>5. Solo(u)' => /\ path[u] \in DOMAIN files' <=> path[u] \in DOMAIN files
                  /\ path[u] \in DOMAIN files => files'[path[u]] = files[path[u]]
  BY <1>1, <1>4 DEF Step
<1>6. Solo(u)' => (Whole(u)' <=> Whole(u))
  BY <1>1, <1>5 DEF Whole, Exists
<1>7. status'[u] \in {"Pending", "Running"} => \A p \in DOMAIN files' : u \notin files'[p].by
  BY <1>1 DEF Its, Step
<1>8. status'[u] = "Open" /\ Solo(u)' =>
        path'[u] \in DOMAIN files' /\ u \in files'[path'[u]].by /\ ~files'[path'[u]].whole
  BY <1>1, <1>3, <1>5 DEF Its, Exists
<1>9. (status'[u] = "Done" /\ Solo(u)' => Whole(u)') /\ (status'[u] = "Error" /\ Solo(u)' => ~Whole(u)')
  BY <1>1, <1>3, <1>6 DEF Its
<1> QED BY <1>7, <1>8, <1>9 DEF Its, Exists

LEMMA TheirsBefore ==
  ASSUME IInv, NEW t \in DOMAIN status, Step(t), NEW p, Theirs(p)'
  PROVE  Theirs(p)
  BY RunTypes DEF Step, Theirs, Exists

(* What a task's step owes to the invariant: its own part of it.           *)
LEMMA StepKeeps ==
  ASSUME IInv, NEW t \in DOMAIN status, Step(t), Its(t)',
         ~Begun(t) =>
           /\ ~opts.bOutputSet => SafeName(path'[t])
           /\ opts.bOutputSet /\ ~opts.bContinue =>
                \A p \in VideoFiles(opts.out) \cup {opts.out} : Theirs(p) => path'[t] # p
  PROVE  IInv'
<1>1. /\ status \in [Tasks -> States] /\ path \in [Tasks -> Seq(Marks)]
      /\ Tasks' = Tasks /\ t \in Tasks
  BY RunTypes DEF Step, Tasks
<1>2. DOMAIN status' = Tasks /\ DOMAIN path' = Tasks /\ opts' = opts /\ main' = "run" /\ main = "run"
  BY DEF Step
<1>3. TypeOK' /\ Filed'
  <2>1. /\ \A p \in DOMAIN files' : files'[p] \in FileState
        /\ \A u \in DOMAIN status' : status'[u] \in States
    BY DEF Step
  <2> QED BY <2>1 DEF IInv, TypeOK, Step, FileState, Filed
<1>4. Optioned' /\ Early' /\ Settled'
  BY <1>2 DEF IInv, Optioned, Early, Settled, Step
<1>5. Filled'
  BY <1>1, <1>2 DEF Filled, Step
<1>6. AllIts'
  BY <1>1, <1>2, OtherKeeps DEF AllIts
<1>7. Named'
  <2> SUFFICES ASSUME NEW u \in Tasks, Begun(u)', ~opts.bOutputSet PROVE SafeName(path'[u])
    BY <1>2 DEF Named
  <2>1. CASE u = t
    BY <1>1, <2>1 DEF IInv, Named, Step
  <2>2. CASE u # t
    BY <1>1, <2>2 DEF IInv, Named, Step, Begun
  <2> QED BY <2>1, <2>2
<1>8. Aside'
  <2> SUFFICES ASSUME opts.bOutputSet, ~opts.bContinue, NEW u \in Tasks, Begun(u)',
                      NEW p \in VideoFiles(opts.out) \cup {opts.out}, Theirs(p)'
               PROVE  path'[u] # p
    BY <1>2 DEF Aside
  <2>1. Theirs(p)
    BY TheirsBefore
  <2>2. CASE u = t
    BY <1>1, <2>1, <2>2 DEF IInv, Aside, Step
  <2>3. CASE u # t
    BY <1>1, <2>1, <2>3 DEF IInv, Aside, Step, Begun
  <2> QED BY <2>2, <2>3
<1> QED BY <1>3, <1>4, <1>5, <1>6, <1>7, <1>8 DEF IInv

LEMMA StampHere ==
  ASSUME TypeOK
  PROVE  Stamp \in Plain /\ Stamp \in Marks
<1>1. now + 1 \in 1..Len(Stamps) /\ Stamps \in Seq(Plain)
  BY WorkflowAssumption DEF TypeOK, Plain
<1>2. Stamps[now + 1] \in Plain
  BY <1>1, ElementOfSeq
<1> QED BY <1>2 DEF Stamp, Plain

LEMMA StartStep ==
  ASSUME IInv, NEW t \in DOMAIN status, StartTask(t)
  PROVE  Step(t) /\ IInv' /\ UNCHANGED files
<1>1. /\ status \in [Tasks -> States] /\ path \in [Tasks -> Seq(Marks)]
      /\ t \in Tasks /\ opts.urls[t] \in Seq(Marks) /\ ~Begun(t)
  BY RunTypes DEF StartTask, Begun
<1>2. opts.out \in Seq(Marks) /\ TypeOK /\ opts.bOutputSet \in BOOLEAN
  BY DEF IInv, Optioned, Options
<1> DEFINE name == FileName(t)
           Given == VideoFiles(opts.out) \cup {opts.out}
           Fit == /\ name \in Seq(Marks)
                  /\ ~opts.bOutputSet => SafeName(name)
                  /\ opts.bOutputSet /\ ~opts.bContinue => \A p \in Given : Theirs(p) => name # p
<1>3. ASSUME ~opts.bOutputSet PROVE Fit
  <2>1. name = StampName(DefaultName(opts.urls[t]), Stamp)
    BY <1>3 DEF FileName
  <2>2. name \in Seq(Marks) /\ SafeName(name)
    BY <1>1, <1>2, <2>1, StampHere, DefaultSafe
  <2> HIDE DEF name
  <2> QED BY <1>3, <2>2
<1>4. ASSUME opts.bOutputSet PROVE Fit
  <2>1. CASE Exists(opts.out) /\ ~opts.bContinue
    <3>1. name = StampName(opts.out, Stamp)
      BY <1>4, <2>1 DEF FileName
    <3>2. name \in Seq(Marks) /\ name \notin Given
      BY <1>2, <3>1, StampHere, StampedOther
    <3> HIDE DEF name, Given
    <3> QED BY <1>4, <3>2
  <2>2. CASE ~(Exists(opts.out) /\ ~opts.bContinue)
    <3>1. name = opts.out
      BY <1>4, <2>2 DEF FileName
    <3>2. \A p \in Given : p = opts.out \/ p # name
      BY <1>2, <3>1, VideoOther
    <3>3. opts.bContinue \/ \A p \in Given : Theirs(p) => name # p
      BY <2>2, <3>2 DEF Theirs
    <3> HIDE DEF name, Given
    <3> QED BY <1>2, <1>4, <3>1, <3>3
  <2> QED BY <2>1, <2>2
<1>5. Fit
  BY <1>2, <1>3, <1>4
<1>6. status' = [status EXCEPT ![t] = "Running"] /\ path' = [path EXCEPT ![t] = name] /\ files' = files
  BY DEF StartTask
<1> HIDE DEF name
<1>7. /\ status' \in [Tasks -> States] /\ path' \in [Tasks -> Seq(Marks)]
      /\ status'[t] = "Running" /\ path'[t] = name
      /\ \A u \in Tasks \ {t} : status'[u] = status[u] /\ path'[u] = path[u]
  BY <1>1, <1>5, <1>6 DEF States
<1>8. Step(t)
  BY <1>1, <1>6, <1>7 DEF Step, StartTask, Begun, IInv, Filed
<1>9. Its(t)'
  <2>1. \A p \in DOMAIN files : t \notin files[p].by
    BY DEF IInv, AllIts, Its, StartTask
  <2> QED BY <1>6, <1>7, <2>1 DEF Its
<1> QED BY <1>5, <1>6, <1>7, <1>8, <1>9, StepKeeps

LEMMA OpenStep ==
  ASSUME IInv, NEW t \in DOMAIN status, OpenFile(t)
  PROVE  Step(t) /\ IInv'
<1>1. /\ status \in [Tasks -> States] /\ path \in [Tasks -> Seq(Marks)]
      /\ t \in Tasks /\ Begun(t) /\ t \in 0..MaxArgs
  BY RunTypes DEF OpenFile, Begun
<1> DEFINE before == IF Exists(path[t]) THEN files[path[t]].by ELSE {}
           entry  == [by |-> before \cup {t}, whole |-> FALSE]
<1>2. /\ files' = [p \in DOMAIN files \cup {path[t]} |-> IF p = path[t] THEN entry ELSE files[p]]
      /\ status' = [status EXCEPT ![t] = "Open"] /\ path' = path
  BY DEF OpenFile
<1>3. \A p \in DOMAIN files : files[p] \in FileState
  BY DEF IInv, Filed
<1>4. before \subseteq 0..MaxArgs /\ entry \in FileState
  BY <1>1, <1>3 DEF Exists, FileState
<1>5. entry.by = before \cup {t} /\ entry.whole = FALSE
  OBVIOUS
<1>6. \A x \in before : path[t] \in DOMAIN files /\ x \in files[path[t]].by
  BY DEF Exists
<1> HIDE DEF before, entry
<1>7. /\ status' \in [Tasks -> States] /\ status'[t] = "Open"
      /\ \A u \in Tasks \ {t} : status'[u] = status[u]
  BY <1>1, <1>2 DEF States
<1>8. /\ DOMAIN files' = DOMAIN files \cup {path[t]} /\ files'[path[t]] = entry
      /\ \A p \in DOMAIN files : p # path[t] => files'[p] = files[p]
  BY <1>2
<1>9. files' \in [DOMAIN files' -> FileState]
  BY <1>2, <1>3, <1>4
<1>10. \A p \in DOMAIN files' : \A x \in files'[p].by : x = t \/ (p \in DOMAIN files /\ x \in files[p].by)
  BY <1>5, <1>6, <1>8
<1>11. Step(t)
  BY <1>1, <1>2, <1>7, <1>8, <1>9, <1>10 DEF Step, OpenFile, Begun
<1>12. Its(t)'
  BY <1>2, <1>5, <1>7, <1>8 DEF Its, Exists
<1> QED BY <1>1, <1>11, <1>12, StepKeeps

LEMMA DoneStep ==
  ASSUME IInv, NEW t \in DOMAIN status, FileDone(t)
  PROVE  Step(t) /\ IInv'
<1>1. /\ status \in [Tasks -> States] /\ path \in [Tasks -> Seq(Marks)]
      /\ t \in Tasks /\ Begun(t) /\ status[t] = "Open"
  BY RunTypes DEF FileDone, Begun
<1>2. /\ files' = [p \in DOMAIN files |-> IF p = path[t] THEN [files[p] EXCEPT !.whole = TRUE] ELSE files[p]]
      /\ status' = [status EXCEPT ![t] = "Done"] /\ path' = path
  BY DEF FileDone
<1>3. \A p \in DOMAIN files : files[p] \in FileState
  BY DEF IInv, Filed
<1>4. /\ status' \in [Tasks -> States] /\ status'[t] = "Done"
      /\ \A u \in Tasks \ {t} : status'[u] = status[u]
  BY <1>1, <1>2 DEF States
<1>5. DOMAIN files' = DOMAIN files /\ \A p \in DOMAIN files : p # path[t] => files'[p] = files[p]
  BY <1>2
<1>6. \A p \in DOMAIN files : /\ files'[p] \in FileState /\ files'[p].by = files[p].by
                              /\ p = path[t] => files'[p].whole
  BY <1>2, <1>3 DEF FileState
<1>7. files' \in [DOMAIN files' -> FileState]
  BY <1>2, <1>6
<1>8. Step(t)
  BY <1>1, <1>2, <1>4, <1>5, <1>6, <1>7 DEF Step, FileDone, Begun
<1>9. Solo(t)' => Solo(t)
  <2> SUFFICES ASSUME Solo(t)', NEW v \in DOMAIN path, Begun(v), path[v] = path[t] PROVE v = t
    BY DEF Solo
  <2>1. v = t \/ Begun(v)'
    BY <1>1, <1>4 DEF Begun
  <2> QED BY <1>2, <2>1 DEF Solo
<1>10. Solo(t) => path[t] \in DOMAIN files /\ t \in files[path[t]].by
  BY <1>1 DEF IInv, AllIts, Its, Exists
<1>11. Solo(t)' => Whole(t)'
  BY <1>2, <1>5, <1>6, <1>9, <1>10 DEF Whole, Exists
<1>12. Its(t)'
  BY <1>4, <1>11 DEF Its
<1> QED BY <1>1, <1>8, <1>12, StepKeeps

LEMMA FailStep ==
  ASSUME IInv, NEW t \in DOMAIN status, FileFails(t)
  PROVE  Step(t) /\ IInv'
<1>1. /\ status \in [Tasks -> States] /\ path \in [Tasks -> Seq(Marks)]
      /\ t \in Tasks /\ Begun(t) /\ status[t] \in {"Running", "Open"}
  BY RunTypes DEF FileFails, Running, Begun
<1>2. /\ files' = files \/ files' = [p \in DOMAIN files \ {path[t]} |-> files[p]]
      /\ status' = [status EXCEPT ![t] = "Error"] /\ path' = path
  BY DEF FileFails
<1>3. files \in [DOMAIN files -> FileState]
  BY DEF IInv, Filed
<1>4. /\ status' \in [Tasks -> States] /\ status'[t] = "Error"
      /\ \A u \in Tasks \ {t} : status'[u] = status[u]
  BY <1>1, <1>2 DEF States
<1>5. /\ \A p : p # path[t] => (p \in DOMAIN files' <=> p \in DOMAIN files)
      /\ \A p \in DOMAIN files' : p \in DOMAIN files /\ files'[p] = files[p]
      /\ files' \in [DOMAIN files' -> FileState]
  BY <1>2, <1>3
<1>6. Step(t)
  BY <1>1, <1>2, <1>4, <1>5 DEF Step, FileFails, Begun
<1>7. Solo(t)' => Solo(t)
  <2> SUFFICES ASSUME Solo(t)', NEW v \in DOMAIN path, Begun(v), path[v] = path[t] PROVE v = t
    BY DEF Solo
  <2>1. v = t \/ Begun(v)'
    BY <1>1, <1>4 DEF Begun
  <2> QED BY <1>2, <2>1 DEF Solo
<1>8. Solo(t) => ~Whole(t)
  BY <1>1 DEF IInv, AllIts, Its, Whole, Exists
<1>9. Solo(t)' => ~Whole(t)'
  BY <1>2, <1>5, <1>7, <1>8 DEF Whole, Exists
<1>10. Its(t)'
  BY <1>4, <1>9 DEF Its
<1> QED BY <1>1, <1>6, <1>10, StepKeeps

(* While nothing runs, there is nothing to say of tasks.                   *)
LEMMA NoTasks ==
  ASSUME status' = <<>>
  PROVE  AllIts' /\ Named' /\ Aside' /\ Settled'
<1>1. DOMAIN status' = {}
  OBVIOUS
<1> QED BY <1>1 DEF AllIts, Named, Aside, Settled

LEMMA SameTasks ==
  ASSUME AllIts, Named, Aside, UNCHANGED <<opts, files, status, path>>
  PROVE  AllIts' /\ Named' /\ Aside'
<1>1. AllIts'
  BY DEF AllIts, Its, Solo, Begun, Whole, Exists
<1>2. Named'
  BY DEF Named, Begun
<1>3. Aside'
  BY DEF Aside, Begun, Theirs, Exists
<1> QED BY <1>1, <1>2, <1>3

LEMMA Starts ==
  ASSUME Init
  PROVE  IInv
<1>1. /\ MaxThreads \in Nat /\ DefaultThreads \in 1..MaxThreads /\ MaxArgs \in Nat
      /\ Len(Stamps) \in Nat \ {0}
  <2>1. Stamps \in Seq(Plain) /\ Stamps # <<>>
    BY WorkflowAssumption DEF Plain
  <2>2. Len(Stamps) \in Nat \ {0}
    BY <2>1, EmptySeq
  <2> QED BY <2>2, WorkflowAssumption
<1>2. /\ main = "parse" /\ args = 0 /\ ahead = "any" /\ now = 0 /\ status = <<>> /\ path = <<>> /\ exit = 9
      /\ opts = [action |-> "download", urls |-> <<>>, video |-> <<>>, bVideoMode |-> FALSE,
                 out |-> <<>>, bOutputSet |-> FALSE, bVerify |-> FALSE, bContinue |-> FALSE,
                 bDeletePartial |-> FALSE, nThreads |-> DefaultThreads, nTimeout |-> 60,
                 nJobs |-> 2]
  BY DEF Init
<1>3. opts \in Options /\ opts.urls = <<>> /\ Len(opts.urls) = 0
  <2>1. <<>> \in Seq(Marks) /\ <<>> \in Seq(Seq(Marks)) /\ Len(<<>>) = 0
    OBVIOUS
  <2> QED BY <1>1, <1>2, <2>1 DEF Options
<1>4. /\ \A p \in DOMAIN files : files[p] \in FileState /\ files[p].by = {0}
      /\ files = [p \in DOMAIN files |-> files[p]]
  <2>1. PICK there \in Earlier : files = [p \in there |-> [by |-> {0}, whole |-> TRUE]]
    BY DEF Init
  <2> QED BY <1>1, <2>1 DEF FileState
<1>5. TypeOK
  BY <1>1, <1>2, <1>3, <1>4 DEF TypeOK, Options, FileState
<1>6. Optioned /\ Filed /\ Early /\ Filled
  BY <1>2, <1>3, <1>4 DEF Optioned, Filed, Early, Filled
<1>7. AllIts /\ Named /\ Aside /\ Settled
  <2>1. DOMAIN status = {}
    BY <1>2
  <2> QED BY <1>2, <2>1 DEF AllIts, Named, Aside, Settled
<1> QED BY <1>5, <1>6, <1>7 DEF IInv

LEMMA ParseKeeps ==
  ASSUME IInv, CliParseArgs
  PROVE  IInv'
<1>1. Taken /\ main = "parse" /\ status = <<>> /\ path = <<>> /\ status' = <<>> /\ path' = <<>>
      /\ files' = files /\ now' = now /\ \A p \in DOMAIN files : files[p].by = {0}
  BY ParseStep DEF IInv, Early, Taken, runVars
<1>2. TypeOK' /\ Optioned'
  BY <1>1 DEF IInv, TypeOK, Taken, Optioned, Options
<1>3. Filed' /\ Early' /\ Filled'
  BY <1>1 DEF IInv, Filed, Early, Filled, Taken
<1> QED BY <1>1, <1>2, <1>3, NoTasks DEF IInv

LEMMA StopKeeps ==
  ASSUME IInv, main = "act", NEW code \in {0, 1}, Exit(code),
         UNCHANGED <<args, ahead, opts, runVars>>
  PROVE  IInv'
<1>1. status = <<>> /\ path = <<>> /\ status' = <<>> /\ path' = <<>> /\ files' = files /\ now' = now
  BY DEF IInv, Early, runVars
<1>2. TypeOK' /\ Optioned' /\ Filed' /\ Early' /\ Filled'
  BY <1>1 DEF IInv, TypeOK, Optioned, Filed, Early, Filled, Exit
<1> QED BY <1>1, <1>2, NoTasks DEF IInv

LEMMA BeginKeeps ==
  ASSUME IInv, BeginFiles
  PROVE  IInv'
<1>1. /\ main = "act" /\ main' = "run" /\ UNCHANGED <<args, ahead, opts, now, files, exit>>
      /\ opts.urls # <<>> /\ opts.urls \in Seq(Seq(Marks)) /\ Len(opts.urls) <= args /\ args \in 0..MaxArgs
      /\ status' = [t \in Tasks |-> "Pending"] /\ path' = [t \in Tasks |-> <<>>]
      /\ MaxArgs \in Nat
  BY WorkflowAssumption DEF IInv, Optioned, Options, BeginFiles, TypeOK
<1>2. Tasks' = Tasks /\ Tasks = 1..Len(opts.urls) /\ Len(opts.urls) \in Nat \ {0}
  BY <1>1, EmptySeq DEF Tasks
<1>3. DOMAIN status' = Tasks /\ \A t \in Tasks : status'[t] = "Pending" /\ path'[t] = <<>>
  BY <1>1
<1>4. TypeOK'
  BY <1>1, <1>3 DEF IInv, TypeOK, States
<1>5. Optioned' /\ Filed' /\ Early' /\ Settled'
  BY <1>1 DEF IInv, Optioned, Filed, Early, Settled
<1>6. Filled'
  <2>1. <<>> \in Seq(Marks)
    OBVIOUS
  <2>2. status' \in [Tasks -> States] /\ path' \in [Tasks -> Seq(Marks)]
    BY <1>1, <2>1 DEF States
  <2> QED BY <1>2, <2>2 DEF Filled
<1>7. AllIts'
  <2> SUFFICES ASSUME NEW t \in Tasks PROVE Its(t)'
    BY <1>3 DEF AllIts
  <2>1. \A p \in DOMAIN files : files[p].by = {0}
    BY <1>1 DEF IInv, Early
  <2>2. \A p \in DOMAIN files' : t \notin files'[p].by
    BY <1>1, <1>2, <2>1
  <2> QED BY <1>3, <2>2 DEF Its
<1>8. Named' /\ Aside'
  BY <1>3 DEF Named, Aside, Begun
<1> QED BY <1>4, <1>5, <1>6, <1>7, <1>8 DEF IInv

(* The files after a video.                                                *)
LEMMA Writes ==
  ASSUME Filed, NEW paths, NEW whole \in BOOLEAN, NEW kept \in SUBSET DOMAIN files,
         files' = Written(paths, whole, kept)
  PROVE  /\ files' \in [DOMAIN files' -> FileState]
         /\ \A p \in kept : p \notin paths => p \in DOMAIN files' /\ files'[p] = files[p]
<1>1. 1 \in 0..MaxArgs
  BY WorkflowAssumption
<1>2. [by |-> {1}, whole |-> whole] \in FileState
  BY <1>1 DEF FileState
<1>3. \A p \in kept : files[p] \in FileState
  BY DEF Filed
<1> DEFINE r == [by |-> {1}, whole |-> whole]
<1>4. files' = [p \in paths \cup kept |-> IF p \in paths THEN r ELSE files[p]]
  BY DEF Written
<1> HIDE DEF r
<1>5. DOMAIN files' = paths \cup kept /\ \A p \in paths \cup kept : files'[p] \in FileState
  BY <1>2, <1>3, <1>4 DEF r
<1> QED BY <1>4, <1>5

LEMMA VideoKeeps ==
  ASSUME IInv, RunVideo
  PROVE  IInv'
<1>1. /\ main = "act" /\ main' = "exited" /\ exit' \in {0, 1} /\ UNCHANGED <<args, ahead, opts, now, status, path>>
  BY DEF RunVideo, Exit
<1>2. status = <<>> /\ path = <<>>
  BY <1>1 DEF IInv, Early
<1>3. files' \in [DOMAIN files' -> FileState]
  <2>1. Filed
    BY DEF IInv
  <2>2. \E paths : \E whole \in BOOLEAN : \E kept \in SUBSET DOMAIN files :
          files' = Written(paths, whole, kept)
    BY DEF RunVideo
  <2> QED BY <2>1, <2>2, Writes
<1>4. \A p \in DOMAIN files' : files'[p] \in FileState
  BY <1>3
<1>5. TypeOK' /\ Optioned' /\ Filed' /\ Early' /\ Filled'
  BY <1>1, <1>2, <1>3, <1>4 DEF IInv, TypeOK, Optioned, Filed, Early, Filled, FileState
<1> QED BY <1>1, <1>2, <1>5, NoTasks DEF IInv

(* No task has the state s.                                                *)
LEMMA CountsNone ==
  ASSUME IInv, NEW s
  PROVE  /\ Count(s) \in Nat
         /\ Count(s) = 0 <=> \A t \in DOMAIN status : status[t] # s
<1> DEFINE S == {t \in DOMAIN status : status[t] = s}
<1>1. IsFiniteSet(DOMAIN status)
  <2>1. CASE status = <<>>
    <3>1. DOMAIN status = 1..0
      BY <2>1
    <3> QED BY <3>1, FS_Interval
  <2>2. CASE status # <<>>
    <3>1. DOMAIN status = Tasks /\ opts.urls \in Seq(Seq(Marks))
      BY <2>2 DEF IInv, Filled, Optioned, Options
    <3>2. DOMAIN status = 1..Len(opts.urls) /\ Len(opts.urls) \in Nat
      BY <3>1 DEF Tasks
    <3> QED BY <3>2, FS_Interval
  <2> QED BY <2>1, <2>2
<1>2. IsFiniteSet(S)
  BY <1>1, FS_Subset
<1>3. Cardinality(S) \in Nat /\ (Cardinality(S) = 0 <=> S = {})
  BY <1>2, FS_CardinalityType, FS_EmptySet
<1>4. Count(s) = Cardinality(S)
  BY DEF Count
<1>5. S = {} <=> \A t \in DOMAIN status : status[t] # s
  OBVIOUS
<1> HIDE DEF S
<1> QED BY <1>3, <1>4, <1>5, Zenon

LEMMA ReportKeeps ==
  ASSUME IInv, Report
  PROVE  IInv'
<1>1. /\ main = "run" /\ main' = "exited" /\ exit' = ExitCode /\ Count("Pending") = 0 /\ Running = {}
      /\ UNCHANGED <<args, ahead, opts, now, files, status, path>>
  BY DEF Report, Exit, runVars
<1>2. ExitCode \in {0, 1, 3} /\ ExitCode' = ExitCode
  BY <1>1 DEF ExitCode, Count
<1>3. TypeOK' /\ Optioned' /\ Filed' /\ Early' /\ Filled'
  BY <1>1, <1>2 DEF IInv, TypeOK, Optioned, Filed, Early, Filled, Tasks
<1>4. Settled'
  <2>1. \A t \in DOMAIN status : status[t] # "Pending"
    BY <1>1, CountsNone
  <2>2. \A t \in DOMAIN status : status[t] \in States /\ status[t] \notin {"Running", "Open"}
    BY <1>1 DEF Running, IInv, TypeOK
  <2>3. \A t \in DOMAIN status : status[t] \in {"Done", "Error"}
    BY <2>1, <2>2 DEF States
  <2> QED BY <1>1, <1>2, <2>3 DEF Settled
<1> QED BY <1>1, <1>3, <1>4, SameTasks DEF IInv

LEMMA IdleKeeps ==
  ASSUME IInv, Tick \/ UNCHANGED vars
  PROVE  IInv'
<1>1. UNCHANGED <<main, args, ahead, opts, files, status, path, exit>>
  BY DEF Tick, vars
<1>2. now' \in 0..(Len(Stamps) - 1)
  <2>1. Len(Stamps) \in Nat /\ now \in 0..(Len(Stamps) - 1)
    BY WorkflowAssumption DEF IInv, TypeOK
  <2> QED BY <2>1 DEF Tick, vars
<1>3. TypeOK' /\ Optioned' /\ Filed' /\ Early' /\ Filled'
  BY <1>1, <1>2 DEF IInv, TypeOK, Optioned, Filed, Early, Filled, Tasks
<1>4. Settled'
  BY <1>1 DEF IInv, Settled, ExitCode, Count
<1> QED BY <1>1, <1>3, <1>4, SameTasks DEF IInv

LEMMA Keeps ==
  ASSUME IInv, [Next]_vars
  PROVE  IInv'
<1>1. CASE CliParseArgs
  BY <1>1, ParseKeeps
<1>2. CASE Inform \/ NothingToDo \/ RefuseOut
  <2>1. \E code \in {0, 1} : main = "act" /\ Exit(code) /\ UNCHANGED <<args, ahead, opts, runVars>>
    BY <1>2 DEF Inform, NothingToDo, RefuseOut
  <2> QED BY <2>1, StopKeeps
<1>3. CASE BeginFiles
  BY <1>3, BeginKeeps
<1>4. CASE Report
  BY <1>4, ReportKeeps
<1>5. CASE RunVideo
  BY <1>5, VideoKeeps
<1>6. CASE \E t \in DOMAIN status : StartTask(t) \/ OpenFile(t) \/ FileDone(t) \/ FileFails(t)
  BY <1>6, StartStep, OpenStep, DoneStep, FailStep
<1>7. CASE Tick \/ UNCHANGED vars
  BY <1>7, IdleKeeps
<1> QED BY <1>1, <1>2, <1>3, <1>4, <1>5, <1>6, <1>7 DEF Next, RunCli

LEMMA Always == Spec => []IInv
<1> QED BY Starts, Keeps, PTL DEF Spec

(* The options stay in their ranges, and a file the user did not name gets *)
(* a name that cannot leave the directory, whatever its URL encodes:       *)
(* SanitizeFileName, pathutil.h:22, CliParseArgs.                          *)
THEOREM NamesSafe == Spec => []DefaultNamesSafe
<1>1. IInv => DefaultNamesSafe
  BY DEF IInv, Named, Begun, DefaultNamesSafe
<1> QED BY <1>1, Always, PTL

(* The same of the files themselves, those of a video among them: none     *)
(* appears, while the user gave no name, under a name that is a place or a *)
(* device: SanitizeFileName, RunWorkflow.                                  *)
NewNamesSafe == ~opts.bOutputSet => \A p \in DOMAIN files' \ DOMAIN files : SafeName(p)

LEMMA VideoNames ==
  ASSUME IInv, RunVideo, ~opts.bOutputSet, NEW p \in DOMAIN files' \ DOMAIN files
  PROVE  SafeName(p)
<1> DEFINE bar == "_"  full == "_full"
           base == VideoBase(opts.video) \o <<bar, Stamp>>
           New == Tracks(base) \cup {base \o <<full, e>> : e \in VideoExts}
<1>1. opts.video \in Seq(Marks) /\ Stamp \in Plain
  BY StampHere DEF IInv, Optioned, Options
<1>2. VideoName = base
  BY DEF VideoName
<1>3. {".mp4", ".m4a", ".mkv"} \subseteq VideoExts
  BY DEF VideoExts
<1>4. \A q \in New : SafeName(q)
  BY <1>1, <1>3, VideoSafe DEF Tracks
<1> HIDE DEF base
<1>5. ASSUME NEW paths, NEW whole, NEW kept \in SUBSET DOMAIN files, files' = Written(paths, whole, kept)
      PROVE  p \in paths
  BY <1>5 DEF Written
<1>6. p \in New
  <2>1. ASSUME NEW left \in SUBSET Tracks(base), files' = Written(left, FALSE, DOMAIN files)
        PROVE  p \in New
    BY <1>5, <2>1
  <2>2. ASSUME files' = Written({base \o <<".mp4">>}, TRUE, DOMAIN files)
        PROVE  p \in New
    BY <1>5, <2>2 DEF Tracks
  <2>3. ASSUME NEW ext \in {".mp4", ".mkv"},
               files' = Written({base \o <<full, ext>>}, TRUE, DOMAIN files \ Tracks(base))
        PROVE  p \in New
    BY <1>3, <1>5, <2>3
  <2> QED BY <1>2, <2>1, <2>2, <2>3 DEF RunVideo
<1> QED BY <1>4, <1>6

(* No step of a download or a video, named by the program, makes a file    *)
(* outside its directory or under the name of a device, whatever the URL:  *)
(* SanitizeFileName and StampName, as RunWorkflow calls them.              *)
THEOREM NewFilesSafe == Spec => [][NewNamesSafe]_vars
<1>1. ASSUME IInv, [Next]_vars PROVE NewNamesSafe
  <2>1. CASE DOMAIN files' \subseteq DOMAIN files
    BY <2>1 DEF NewNamesSafe
  <2>2. CASE RunVideo
    BY <1>1, <2>2, VideoNames DEF NewNamesSafe
  <2>3. ASSUME NEW t \in DOMAIN status, OpenFile(t) PROVE NewNamesSafe
    <3>1. DOMAIN files' = DOMAIN files \cup {path[t]} /\ Begun(t)
      BY <2>3 DEF OpenFile, Begun
    <3> QED BY <1>1, <3>1 DEF IInv, Named, NewNamesSafe
  <2>4. ASSUME NEW t \in DOMAIN status, StartTask(t) \/ FileDone(t) \/ FileFails(t) PROVE NewNamesSafe
    BY <2>1, <2>4 DEF StartTask, FileDone, FileFails
  <2>5. CASE CliParseArgs
    BY <1>1, <2>1, <2>5, ParseStep DEF IInv, Taken, runVars
  <2>6. CASE Inform \/ NothingToDo \/ RefuseOut \/ BeginFiles \/ Report \/ Tick \/ UNCHANGED vars
    BY <2>1, <2>6 DEF Inform, NothingToDo, RefuseOut, BeginFiles, Report, Tick, runVars, vars
  <2> QED BY <1>1, <2>2, <2>3, <2>4, <2>5, <2>6 DEF Next, RunCli
<1>2. IInv /\ [Next]_vars => [NewNamesSafe]_vars
  BY <1>1
<1> QED BY <1>2, Always, PTL DEF Spec

LEMMA AloneSolo ==
  ASSUME NEW t, Alone(t)
  PROVE  Solo(t)
  BY DEF Alone, Solo

(* A download that is reported done has its file, whatever the others of   *)
(* the batch do, unless they were given the same name: ExecuteFileTask.    *)
THEOREM KeepsOwnFile == Spec => []OwnFile
<1>1. IInv => OwnFile
  BY AloneSolo DEF IInv, AllIts, Its, OwnFile
<1> QED BY <1>1, Always, PTL

(* The exit code of a batch tells what is on the disk: RunCli.             *)
THEOREM ExitTrue == Spec => []ExitTells
<1>1. ASSUME IInv PROVE ExitTells
  <2> SUFFICES ASSUME main = "exited", status # <<>>, \A t \in Tasks : Alone(t)
               PROVE  /\ exit = 0 <=> \A t \in Tasks : Whole(t)
                      /\ exit = 1 <=> \A t \in Tasks : ~Whole(t)
    BY DEF ExitTells
  <2>1. DOMAIN status = Tasks /\ Tasks # {}
    BY <1>1 DEF IInv, Filled
  <2>2. exit = ExitCode /\ \A t \in Tasks : status[t] \in {"Done", "Error"}
    BY <1>1, <2>1 DEF IInv, Settled
  <2>3. \A t \in Tasks : (status[t] = "Done" => Whole(t)) /\ (status[t] = "Error" => ~Whole(t))
    BY <1>1, <2>1, AloneSolo DEF IInv, AllIts, Its
  <2>4. /\ Count("Error") \in Nat /\ Count("Done") \in Nat
        /\ Count("Error") = 0 <=> \A t \in Tasks : status[t] # "Error"
        /\ Count("Done") = 0 <=> \A t \in Tasks : status[t] # "Done"
    BY <1>1, <2>1, CountsNone
  <2>5. exit = 0 <=> \A t \in Tasks : status[t] = "Done"
    BY <2>2, <2>4 DEF ExitCode
  <2>6. exit = 1 <=> \A t \in Tasks : status[t] = "Error"
    BY <2>1, <2>2, <2>4 DEF ExitCode
  <2> QED BY <2>2, <2>3, <2>5, <2>6
<1> QED BY <1>1, Always, PTL

LEMMA StepLeaves ==
  ASSUME IInv, NEW t \in DOMAIN status, Step(t), Begun(t), opts.bOutputSet, ~opts.bContinue,
         NEW p \in VideoFiles(opts.out) \cup {opts.out}
  PROVE  Untouched(p)
<1>1. Theirs(p) => path'[t] # p
  BY DEF IInv, Aside, Step
<1> QED BY <1>1 DEF Untouched, Theirs, Exists, Step

LEMMA VideoLeaves ==
  ASSUME IInv, RunVideo, opts.bOutputSet,
         NEW p \in VideoFiles(opts.out) \cup {opts.out}
  PROVE  Untouched(p)
<1> DEFINE base == VideoName  out == opts.out
           Given == VideoFiles(out) \cup {out}
<1>1. out \in Seq(Marks) /\ Filed
  BY DEF IInv, Optioned, Options
<1>2. Exists(p) => \A e, f : base \o <<e>> # p /\ base \o <<"_full", f>> # p
  <2>1. CASE \E q \in VideoFiles(out) : Exists(q)
    <3> DEFINE bar == "_"  stamp == Stamp  full == "_full"
    <3>1. base = out \o <<bar, stamp>> /\ p \in Given
      BY <2>1 DEF VideoName
    <3> HIDE DEF base, bar, stamp, full, out
    <3>2. ASSUME NEW e, NEW f PROVE base \o <<e>> # p /\ base \o <<full, f>> # p
      <4>1. /\ (out \o <<bar, stamp>>) \o <<e>> \notin VideoFiles(out) \cup {out}
            /\ (out \o <<bar, stamp>>) \o <<full, f>> \notin VideoFiles(out) \cup {out}
        BY <1>1, VideoOther, Zenon
      <4> QED BY <3>1, <4>1, Zenon
    <3> QED BY <3>2, Zenon DEF full
  <2>2. CASE ~\E q \in VideoFiles(out) : Exists(q)
    <3>1. base = out
      BY <2>2 DEF VideoName
    <3>2. Exists(p) => p = out
      BY <2>2
    <3>3. \A e, f : out \o <<e>> # out /\ out \o <<"_full", f>> # out
      BY <1>1, VideoOther, Zenon
    <3> QED BY <3>1, <3>2, <3>3, Zenon
  <2> QED BY <2>1, <2>2
<1>3. ASSUME Exists(p), NEW paths, NEW whole \in BOOLEAN, NEW kept \in SUBSET DOMAIN files,
             files' = Written(paths, whole, kept), p \notin paths, p \in kept
      PROVE  p \in DOMAIN files' /\ files'[p] = files[p]
  BY <1>1, <1>3, Writes
<1>4. Exists(p) => /\ p \notin Tracks(base) /\ p \notin {base \o <<".mp4">>}
                   /\ \A ext : p \notin {base \o <<"_full", ext>>}
  <2> HIDE DEF base
  <2> QED BY <1>2, Zenon DEF Tracks
<1> HIDE DEF base
<1>5. ASSUME Exists(p) PROVE p \in DOMAIN files' /\ files'[p] = files[p]
  <2>1. ASSUME NEW left \in SUBSET Tracks(base), files' = Written(left, FALSE, DOMAIN files)
        PROVE  p \in DOMAIN files' /\ files'[p] = files[p]
    BY <1>3, <1>4, <1>5, <2>1 DEF Exists
  <2> DEFINE mp4 == {base \o <<".mp4">>}  full(ext) == {base \o <<"_full", ext>>}
  <2> HIDE DEF mp4, full
  <2>2. ASSUME files' = Written(mp4, TRUE, DOMAIN files)
        PROVE  p \in DOMAIN files' /\ files'[p] = files[p]
    <3>1. p \notin mp4
      BY <1>4, <1>5, Zenon DEF mp4
    <3> QED BY <1>3, <1>5, <2>2, <3>1 DEF Exists
  <2>3. ASSUME NEW ext, files' = Written(full(ext), TRUE, DOMAIN files \ Tracks(base))
        PROVE  p \in DOMAIN files' /\ files'[p] = files[p]
    <3>1. p \notin full(ext)
      BY <1>4, <1>5, Zenon DEF full
    <3> QED BY <1>3, <1>4, <1>5, <2>3, <3>1 DEF Exists
  <2> QED BY <2>1, <2>2, <2>3 DEF RunVideo, base, mp4, full
<1> QED BY <1>5 DEF Untouched

(* A download or a video given a name leaves what was there under it as it *)
(* was: README.md:143, ExecuteFileTask and RunWorkflow.                    *)
THEOREM LeavesGivenFile == Spec => GivenFileKept
<1>1. ASSUME IInv, [Next]_vars, opts.bOutputSet, ~opts.bContinue,
             NEW p \in VideoFiles(opts.out) \cup {opts.out}
      PROVE  Untouched(p)
  <2>1. CASE files' = files
    BY <2>1 DEF Untouched, Exists
  <2>2. CASE RunVideo
    BY <1>1, <2>2, VideoLeaves
  <2>3. ASSUME NEW t \in DOMAIN status, OpenFile(t) \/ FileDone(t) \/ FileFails(t)
        PROVE  Untouched(p)
    <3>1. Begun(t)
      BY <2>3 DEF OpenFile, FileDone, FileFails, Running, Begun
    <3> QED BY <1>1, <2>3, <3>1, OpenStep, DoneStep, FailStep, StepLeaves
  <2>4. CASE CliParseArgs
    BY <1>1, <2>1, <2>4, ParseStep DEF IInv, Taken, runVars
  <2>5. CASE Inform \/ NothingToDo \/ RefuseOut \/ BeginFiles \/ Report \/ Tick \/ UNCHANGED vars
    BY <2>1, <2>5 DEF Inform, NothingToDo, RefuseOut, BeginFiles, Report, Tick, runVars, vars
  <2>6. ASSUME NEW t \in DOMAIN status, StartTask(t) PROVE Untouched(p)
    BY <1>1, <2>1, <2>6, StartStep
  <2> QED BY <1>1, <2>2, <2>3, <2>4, <2>5, <2>6 DEF Next, RunCli
<1>2. IInv /\ [Next]_vars =>
        [opts.bOutputSet /\ ~opts.bContinue =>
           \A p \in VideoFiles(opts.out) \cup {opts.out} : Untouched(p)]_vars
  BY <1>1
<1> QED BY <1>2, Always, PTL DEF Spec, GivenFileKept

-----------------------------------------------------------------------------
(* The queue of the batch.                                                 *)

(* No more tasks run at once than -j says, one if there is one URL: the    *)
(* batch gives the queue its slots once, before it adds the tasks.         *)
SlotsKept == Cardinality(Running) <= Slots

LEMMA SlotsAre ==
  ASSUME IInv
  PROVE  /\ Slots \in 1..8 /\ DOMAIN status \subseteq 1..MaxArgs
         /\ IsFiniteSet(Running) /\ Cardinality(Running) \in Nat
<1>1. Slots \in 1..8
  BY DEF Slots, IInv, TypeOK
<1>2. \A t \in DOMAIN status : t \in 1..MaxArgs
  BY RunTypes
<1>3. IsFiniteSet(1..MaxArgs)
  BY WorkflowAssumption, FS_Interval
<1>4. Running \subseteq 1..MaxArgs
  BY <1>2 DEF Running
<1>5. IsFiniteSet(Running)
  BY <1>3, <1>4, FS_Subset
<1> QED BY <1>1, <1>2, <1>5, FS_CardinalityType

LEMMA NoneRuns == IInv /\ Running = {} => SlotsKept
  BY SlotsAre, FS_EmptySet DEF SlotsKept

(* What a task does to the tasks that run.                                 *)
LEMMA StartRuns ==
  ASSUME IInv, SlotsKept, NEW t \in DOMAIN status, StartTask(t)
  PROVE  SlotsKept'
<1>1. Running' = Running \cup {t} /\ t \notin Running /\ Slots' = Slots
  BY DEF StartTask, Running, Slots, Batch, IInv, TypeOK
<1>2. Cardinality(Running) < Slots
  BY DEF StartTask
<1>3. Cardinality(Running \cup {t}) = Cardinality(Running) + 1
  BY <1>1, SlotsAre, FS_AddElement
<1> QED BY <1>1, <1>2, <1>3, SlotsAre DEF SlotsKept

LEMMA GoesOnRuns ==
  ASSUME IInv, SlotsKept, NEW t \in DOMAIN status, OpenFile(t) \/ FileDone(t) \/ FileFails(t)
  PROVE  SlotsKept'
<1>1. Running' \subseteq Running /\ Slots' = Slots
  BY DEF OpenFile, FileDone, FileFails, Running, Slots, Batch, IInv, TypeOK
<1>2. Cardinality(Running') \in Nat /\ Cardinality(Running') <= Cardinality(Running)
  BY <1>1, SlotsAre, FS_Subset, FS_CardinalityType
<1> QED BY <1>1, <1>2, SlotsAre DEF SlotsKept

LEMMA SlotsStep == IInv /\ SlotsKept /\ [Next]_vars => SlotsKept'
<1> SUFFICES ASSUME IInv, SlotsKept, [Next]_vars PROVE SlotsKept'
  OBVIOUS
<1>1. (Running = {})' => SlotsKept'
  <2>1. (IInv /\ Running = {} => SlotsKept)'
    BY NoneRuns, PTL
  <2> QED BY <2>1, Keeps
<1>2. CASE UNCHANGED <<opts, status>>
  BY <1>2 DEF SlotsKept, Slots, Batch, Running
<1>3. CASE status' = <<>>
  <2>1. Running' = {}
    BY <1>3 DEF Running
  <2> QED BY <1>1, <2>1
<1>4. CASE CliParseArgs
  BY <1>3, <1>4, ParseStep DEF IInv, Early, Taken, runVars
<1>5. CASE BeginFiles
  <2>1. Running' = {}
    BY <1>5 DEF BeginFiles, Running
  <2> QED BY <1>1, <2>1
<1>6. CASE Inform \/ NothingToDo \/ RefuseOut \/ Report \/ RunVideo \/ Tick \/ UNCHANGED vars
  BY <1>2, <1>6 DEF Inform, NothingToDo, RefuseOut, Report, RunVideo, Tick, runVars, vars
<1>7. CASE \E t \in DOMAIN status : StartTask(t) \/ OpenFile(t) \/ FileDone(t) \/ FileFails(t)
  BY <1>7, StartRuns, GoesOnRuns
<1> QED BY <1>4, <1>5, <1>6, <1>7 DEF Next, RunCli

(* What -j asks for is kept from the first task to the last: RunWorkflow   *)
(* over CTaskQueue::DispatchLocked.                                        *)
THEOREM JobsLimited == Spec => []SlotsKept
<1>1. Init => SlotsKept
  <2>1. Init => Running = {}
    BY DEF Init, Running
  <2> QED BY <2>1, Starts, NoneRuns
<1> QED BY <1>1, SlotsStep, Always, PTL DEF Spec

(* The tasks of the batch as the queue knows them: one that has opened its *)
(* file still runs, and no one cancels.                                    *)
Known(t) ==
  IF t \notin DOMAIN status THEN "Absent" ELSE IF status[t] = "Open" THEN "Running" ELSE status[t]

known == [t \in 1..MaxArgs |-> Known(t)]
none  == {}

Lifecycle == INSTANCE TaskLifecycle WITH
  Tasks <- 1..MaxArgs, Slots <- 8, status <- known, asked <- none

LEMMA KnownRuns == IInv => {t \in 1..MaxArgs : known[t] = "Running"} = Running
  BY SlotsAre DEF known, Known, Running

LEMMA AtMostEight == IInv /\ SlotsKept => Cardinality(Running) <= 8
  BY SlotsAre DEF SlotsKept

(* A step that changes the state of tasks, each along Moves.               *)
LEMMA Moved ==
  ASSUME IInv, SlotsKept, IInv', SlotsKept',
         \A t \in 1..MaxArgs : known'[t] \in Lifecycle!Moves[known[t]] /\ known'[t] # "Canceled",
         \A t \in 1..MaxArgs : known[t] \in {"Absent", "Pending"} /\ known'[t] = "Running" =>
           \A s \in 1..MaxArgs : s < t => known'[s] \notin {"Absent", "Pending"}
  PROVE  Lifecycle!Step
<1>1. {t \in 1..MaxArgs : known'[t] = "Running"} = Running'
  <2>1. (IInv => {t \in 1..MaxArgs : known[t] = "Running"} = Running)'
    BY KnownRuns, PTL
  <2> QED BY <2>1
<1>2. Cardinality(Running') <= 8
  <2>1. (IInv /\ SlotsKept => Cardinality(Running) <= 8)'
    BY AtMostEight, PTL
  <2> QED BY <2>1
<1>3. Cardinality({t \in 1..MaxArgs : known'[t] = "Running"}) <= 8
  BY <1>1, <1>2
<1>4. /\ \A t \in 1..MaxArgs : known'[t] \in Lifecycle!Moves[known[t]]
      /\ \A t \in 1..MaxArgs : Lifecycle!Started(t) =>
           \A s \in 1..MaxArgs : s < t => known'[s] \notin {"Absent", "Pending"}
      /\ \A t \in 1..MaxArgs : Lifecycle!Ended(t) => (known'[t] = "Canceled" <=> t \in none)
      /\ none \subseteq none' /\ none' \ none = {}
  BY DEF Lifecycle!Started, Lifecycle!Waiting, Lifecycle!Ended, none
<1> QED BY <1>3, <1>4 DEF Lifecycle!Step, Lifecycle!Cardinality, Cardinality

(* What the batch does to the queue are behaviours of TaskLifecycle, which *)
(* TaskQueue implements and TaskModel uses as well: RunWorkflow adds its   *)
(* tasks and waits, and never more than eight run: CliParseArgs clamps -j. *)
THEOREM BatchUsesLifecycle == Spec => Lifecycle!Spec
<1>1. Init => Lifecycle!Init
  BY DEF Init, Lifecycle!Init, known, Known, none
<1>2. IInv /\ SlotsKept /\ [Next]_vars => [Lifecycle!Step]_<<known, none>>
  <2> SUFFICES ASSUME IInv, SlotsKept, [Next]_vars
               PROVE  Lifecycle!Step \/ UNCHANGED <<known, none>>
    BY DEF known, none
  <2>0. IInv' /\ SlotsKept' /\ none' = none
    BY Keeps, SlotsStep DEF none
  <2>1. CASE UNCHANGED status
    BY <2>0, <2>1 DEF known, Known
  <2>2. CASE BeginFiles
    <3>1. /\ \A t \in 1..MaxArgs : known[t] = "Absent"
          /\ \A t \in 1..MaxArgs : known'[t] \in {"Absent", "Pending"}
      BY <2>2 DEF BeginFiles, IInv, Early, known, Known
    <3> QED BY <2>0, <3>1, Moved DEF Lifecycle!Moves
  <2>3. ASSUME NEW t \in DOMAIN status, StartTask(t) PROVE Lifecycle!Step
    <3>1. t \in 1..MaxArgs /\ DOMAIN status = Tasks /\ Tasks = 1..Len(opts.urls) /\ Len(opts.urls) \in Nat
      BY RunTypes DEF IInv, Optioned, Options
    <3>2. known'[t] = "Running" /\ known[t] = "Pending"
      BY <2>3, <3>1 DEF StartTask, known, Known
    <3>3. \A u \in 1..MaxArgs : u # t => known'[u] = known[u] /\ known[u] \in {"Absent"} \cup (States \ {"Open"})
      BY <2>3, <3>1, RunTypes DEF StartTask, known, Known, States
    <3>4. \A u \in 1..MaxArgs : u < t => known'[u] \notin {"Absent", "Pending"}
      <4> SUFFICES ASSUME NEW u \in 1..MaxArgs, u < t PROVE known'[u] \notin {"Absent", "Pending"}
        OBVIOUS
      <4>1. u \in DOMAIN status /\ u # t /\ u \in 1..(t - 1)
        BY <3>1
      <4>2. status[u] # "Pending" /\ status[u] # "Absent"
        BY <2>3, <4>1, RunTypes DEF StartTask, States
      <4>3. known[u] \notin {"Absent", "Pending"}
        BY <4>1, <4>2 DEF known, Known
      <4> QED BY <3>3, <4>1, <4>3
    <3> QED BY <2>0, <3>1, <3>2, <3>3, <3>4, Moved DEF Lifecycle!Moves, States
  <2>4. ASSUME NEW t \in DOMAIN status, OpenFile(t) PROVE UNCHANGED known
    BY <2>4, RunTypes DEF OpenFile, known, Known
  <2>5. ASSUME NEW t \in DOMAIN status, FileDone(t) \/ FileFails(t) PROVE Lifecycle!Step
    <3>1. t \in 1..MaxArgs
      BY RunTypes
    <3>2. known'[t] \in {"Done", "Error"} /\ known[t] = "Running"
      BY <2>5, <3>1 DEF FileDone, FileFails, Running, known, Known
    <3>3. \A u \in 1..MaxArgs : u # t => known'[u] = known[u]
      BY <2>5, <3>1 DEF FileDone, FileFails, known, Known
    <3>4. \A u \in 1..MaxArgs : known[u] \in {"Absent", "Pending", "Running", "Done", "Error"}
      BY DEF known, Known, IInv, TypeOK, States
    <3> QED BY <2>0, <3>1, <3>2, <3>3, <3>4, Moved DEF Lifecycle!Moves, Lifecycle!Terminal
  <2>6. CASE CliParseArgs
    BY <2>1, <2>6, ParseStep DEF IInv, Taken, runVars
  <2>7. CASE Inform \/ NothingToDo \/ RefuseOut \/ Report \/ RunVideo \/ Tick \/ UNCHANGED vars
    BY <2>1, <2>7 DEF Inform, NothingToDo, RefuseOut, Report, RunVideo, Tick, runVars, vars
  <2> QED BY <2>0, <2>2, <2>3, <2>4, <2>5, <2>6, <2>7 DEF Next, RunCli
<1> QED BY <1>1, <1>2, Always, JobsLimited, PTL DEF Spec, Lifecycle!Spec
=============================================================================
