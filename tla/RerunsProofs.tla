----------------------------- MODULE RerunsProofs -----------------------------
(***************************************************************************)
(* Theorems about Reruns, for any number of requests, runs, events and     *)
(* permits: what is stored is a valid and redacted execution, branches are *)
(* faithful to the runs they were made of, no provider is called before    *)
(* the rest of the run is allowed, comparisons fail closed, and permits    *)
(* are returned.                                                           *)
(***************************************************************************)
EXTENDS Reruns, FiniteSetTheorems, SequenceTheorems, TLAPS

-----------------------------------------------------------------------------
\* Paths and payloads.

\* A part of a path.
LEMMA PartIs ==
  ASSUME NEW s \in Seq(Fields), NEW m \in 1..(Len(s) + 1), NEW n \in 0..Len(s)
  PROVE  /\ SubSeq(s, m, n) \in Seq(Fields)
         /\ Len(SubSeq(s, m, n)) = IF m <= n THEN n - m + 1 ELSE 0
         /\ \A i \in 1..(n - m + 1) : SubSeq(s, m, n)[i] = s[m + i - 1]
<1>1. \A i \in m..n : s[i] \in Fields
  OBVIOUS
<1>2. m \in Int /\ n \in Int
  OBVIOUS
<1>3. /\ SubSeq(s, m, n) \in Seq(Fields)
      /\ Len(SubSeq(s, m, n)) = IF m <= n THEN n - m + 1 ELSE 0
      /\ \A i \in 1..(n - m + 1) : SubSeq(s, m, n)[i] = s[m + i - 1]
  BY <1>1, <1>2, SubSeqProperties
<1> QED BY <1>3

\* To begin with a path is to agree with it key by key.
LEMMA PrefixIs ==
  ASSUME NEW q \in Seq(Fields), NEW s \in Seq(Fields)
  PROVE  IsPrefix(q, s) <=> Len(q) <= Len(s) /\ \A i \in 1..Len(q) : q[i] = s[i]
<1>1. SubSeq(q, 1, Len(q)) = q
  BY SubSeqFull
<1>2. ASSUME Len(q) <= Len(s)
      PROVE  SubSeq(s, 1, Len(q)) = q <=> \A i \in 1..Len(q) : q[i] = s[i]
  <2> DEFINE p == SubSeq(s, 1, Len(q))
  <2>0. Len(q) \in 0..Len(s) /\ 1 \in 1..(Len(s) + 1)
    BY <1>2
  <2>1. p \in Seq(Fields) /\ Len(p) = Len(q) /\ \A i \in 1..Len(q) : p[i] = s[i]
    BY <2>0, PartIs
  <2> HIDE DEF p
  <2>2. ASSUME \A i \in 1..Len(q) : q[i] = s[i] PROVE p = q
    BY <2>1, <2>2, SeqEqual
  <2> QED BY <2>1, <2>2 DEF p
<1> QED BY <1>1, <1>2 DEF IsPrefix

\* What masking leaves of a path that leads under a sensitive key.
LEMMA CutIs ==
  ASSUME NEW s \in Seq(Fields), NEW k \in FirstSensitive(s)
  PROVE  LET c == SubSeq(s, 1, k)
         IN  /\ k \in 1..Len(s) /\ c \in Seq(Fields) /\ Len(c) = k
             /\ \A i \in 1..k : c[i] = s[i]
             /\ ~Harmless(c) /\ FirstSensitive(c) = {k}
<1> DEFINE c == SubSeq(s, 1, k)
<1>1. k \in 1..Len(s) /\ s[k] \in Sensitive /\ \A i \in 1..(k - 1) : s[i] \notin Sensitive
  BY DEF FirstSensitive
<1>2. c \in Seq(Fields) /\ Len(c) = k /\ \A i \in 1..k : c[i] = s[i]
  BY <1>1, PartIs
<1> HIDE DEF c
<1>3. DOMAIN c = 1..k
  BY <1>2
<1>4. ~Harmless(c)
  BY <1>1, <1>2, <1>3 DEF Harmless
<1>5. FirstSensitive(c) = {k}
  BY <1>1, <1>2, <1>3 DEF FirstSensitive
<1> QED BY <1>1, <1>2, <1>4, <1>5 DEF c

\* A masked leaf is masked once and for all.
LEMMA LeafMasked ==
  ASSUME NEW l \in Leaves, NEW m \in MaskedLeaf(l)
  PROVE  m \in Leaves /\ MaskedLeaf(m) = {m} /\ (Harmless(m.path) \/ m.value = Hidden)
<1>1. CASE Harmless(l.path)
  BY <1>1 DEF MaskedLeaf
<1>2. CASE ~Harmless(l.path)
  <2>1. PICK k \in FirstSensitive(l.path) : m = [path |-> SubSeq(l.path, 1, k), value |-> Hidden]
    BY <1>2 DEF MaskedLeaf
  <2>2. l.path \in Seq(Fields)
    BY DEF Leaves
  <2>3. /\ m.path \in Seq(Fields) /\ Len(m.path) = k /\ ~Harmless(m.path)
        /\ FirstSensitive(m.path) = {k} /\ m.value = Hidden
    BY <2>1, <2>2, CutIs
  <2>4. SubSeq(m.path, 1, k) = m.path
    BY <2>3, SubSeqFull
  <2>5. m \in Leaves
    BY <2>1, <2>3, ExecutionConstants DEF Leaves
  <2>6. MaskedLeaf(m) = {[path |-> SubSeq(m.path, 1, k), value |-> Hidden]}
    BY <2>3 DEF MaskedLeaf
  <2>7. m = [path |-> m.path, value |-> Hidden]
    BY <2>1
  <2> QED BY <2>3, <2>4, <2>5, <2>6, <2>7
<1> QED BY <1>1, <1>2

\* Masking what is masked already changes nothing.
LEMMA MaskedTwice ==
  ASSUME NEW v \in Payloads
  PROVE  /\ Masked(v) \in Payloads /\ Masked(Masked(v)) = Masked(v)
         /\ \A l \in Masked(v) : Harmless(l.path) \/ l.value = Hidden
<1>1. \A l \in Masked(v) : /\ l \in Leaves /\ MaskedLeaf(l) = {l}
                           /\ Harmless(l.path) \/ l.value = Hidden
  BY LeafMasked DEF Masked, Payloads
<1>2. Masked(Masked(v)) = UNION {MaskedLeaf(l) : l \in Masked(v)}
  BY DEF Masked
<1> DEFINE w == Masked(v)
<1>3. w \in Payloads
  BY <1>1 DEF Payloads
<1>4. UNION {MaskedLeaf(l) : l \in w} = w
  <2> HIDE DEF w
  <2>1. \A l \in w : MaskedLeaf(l) = {l}
    BY <1>1 DEF w
  <2> QED BY <2>1
<1> QED BY <1>1, <1>2, <1>3, <1>4

\* The rest of a path after a beginning without sensitive keys.
Rest(s, n) == SubSeq(s, n + 1, Len(s))

LEMMA RestIs ==
  ASSUME NEW s \in Seq(Fields), NEW n \in 0..Len(s)
  PROVE  /\ Rest(s, n) \in Seq(Fields) /\ Len(Rest(s, n)) = Len(s) - n
         /\ \A i \in 1..(Len(s) - n) : Rest(s, n)[i] = s[n + i]
<1>1. n + 1 \in 1..(Len(s) + 1) /\ Len(s) \in 0..Len(s)
  OBVIOUS
<1>2. /\ Rest(s, n) \in Seq(Fields)
      /\ Len(Rest(s, n)) = IF n + 1 <= Len(s) THEN Len(s) - (n + 1) + 1 ELSE 0
      /\ \A i \in 1..(Len(s) - (n + 1) + 1) : Rest(s, n)[i] = s[(n + 1) + i - 1]
  BY <1>1, PartIs DEF Rest
<1> QED BY <1>2

LEMMA RestSensitive ==
  ASSUME NEW q \in Seq(Fields), NEW s \in Seq(Fields), Harmless(q), IsPrefix(q, s)
  PROVE  /\ Harmless(s) <=> Harmless(Rest(s, Len(q)))
         /\ \A k : k \in FirstSensitive(s) <=>
                    k - Len(q) \in FirstSensitive(Rest(s, Len(q))) /\ k \in Nat
<1> DEFINE n == Len(q)
           t == Rest(s, n)
<1>1. /\ n \in 0..Len(s) /\ n \in Nat /\ \A i \in 1..n : s[i] = q[i]
  BY PrefixIs
<1>2. /\ t \in Seq(Fields) /\ Len(t) = Len(s) - n
      /\ \A i \in 1..(Len(s) - n) : t[i] = s[n + i]
  BY <1>1, RestIs
<1>3. \A i \in 1..n : s[i] \notin Sensitive
  BY <1>1 DEF Harmless
<1> HIDE DEF t
<1>4. DOMAIN s = 1..Len(s) /\ DOMAIN t = 1..(Len(s) - n) /\ Len(s) \in Nat
  BY <1>2
<1> HIDE DEF n
<1>5. \A i \in (n + 1)..Len(s) : i - n \in 1..(Len(s) - n) /\ t[i - n] = s[i]
  <2> TAKE i \in (n + 1)..Len(s)
  <2>1. i - n \in 1..(Len(s) - n) /\ n + (i - n) = i
    BY <1>1, <1>4
  <2> QED BY <1>2, <2>1
<1>6. Harmless(s) <=> Harmless(t)
  <2>1. ASSUME Harmless(s) PROVE Harmless(t)
    <3>1. \A i \in 1..(Len(s) - n) : n + i \in 1..Len(s)
      BY <1>1, <1>4
    <3> QED BY <1>2, <1>4, <2>1, <3>1 DEF Harmless
  <2>2. ASSUME Harmless(t) PROVE Harmless(s)
    <3>1. \A i \in (n + 1)..Len(s) : s[i] \notin Sensitive
      BY <1>4, <1>5, <2>2 DEF Harmless
    <3>2. \A i \in 1..Len(s) : i \in 1..n \/ i \in (n + 1)..Len(s)
      BY <1>1, <1>4
    <3> QED BY <1>3, <1>4, <3>1, <3>2 DEF Harmless
  <2> QED BY <2>1, <2>2
<1>7. ASSUME NEW k \in FirstSensitive(s)
      PROVE  k - n \in FirstSensitive(t) /\ k \in Nat
  <2>1. k \in 1..Len(s) /\ s[k] \in Sensitive /\ \A i \in 1..(k - 1) : s[i] \notin Sensitive
    BY <1>4 DEF FirstSensitive
  <2>2. k \in (n + 1)..Len(s)
    BY <1>1, <1>3, <1>4, <2>1
  <2>3. k - n \in 1..(Len(s) - n) /\ t[k - n] = s[k]
    BY <1>5, <2>2
  <2>4. \A i \in 1..(k - n - 1) : t[i] \notin Sensitive
    <3> TAKE i \in 1..(k - n - 1)
    <3>1. i \in 1..(Len(s) - n) /\ n + i \in 1..(k - 1)
      BY <1>1, <1>4, <2>1
    <3> QED BY <1>2, <2>1, <3>1
  <2> QED BY <1>4, <2>1, <2>3, <2>4 DEF FirstSensitive
<1>8. ASSUME NEW k \in Nat, k - n \in FirstSensitive(t)
      PROVE  k \in FirstSensitive(s)
  <2>1. /\ k - n \in 1..(Len(s) - n) /\ t[k - n] \in Sensitive
        /\ \A i \in 1..(k - n - 1) : t[i] \notin Sensitive
    BY <1>4, <1>8 DEF FirstSensitive
  <2>2. k \in (n + 1)..Len(s) /\ k \in 1..Len(s)
    BY <1>1, <1>4, <2>1
  <2>3. s[k] \in Sensitive
    BY <1>5, <2>1, <2>2
  <2>4. \A i \in 1..(k - 1) : s[i] \notin Sensitive
    <3> TAKE i \in 1..(k - 1)
    <3>1. CASE i \in 1..n
      BY <1>3, <3>1
    <3>2. CASE i \notin 1..n
      <4>1. i \in (n + 1)..Len(s) /\ i - n \in 1..(k - n - 1)
        BY <1>1, <1>4, <2>2, <3>2
      <4> QED BY <1>5, <2>1, <4>1
    <3> QED BY <3>1, <3>2
  <2> QED BY <1>4, <2>2, <2>3, <2>4 DEF FirstSensitive
<1> QED BY <1>6, <1>7, <1>8 DEF n, t

\* Cutting a path does not touch what comes before the cut.
LEMMA CutRest ==
  ASSUME NEW s \in Seq(Fields), NEW k \in 1..Len(s), NEW n \in 0..k
  PROVE  Rest(SubSeq(s, 1, k), n) = SubSeq(Rest(s, n), 1, k - n)
<1> DEFINE c == SubSeq(s, 1, k)
           a == Rest(c, n)
           t == Rest(s, n)
           b == SubSeq(t, 1, k - n)
<1>0. k \in 0..Len(s) /\ 1 \in 1..(Len(s) + 1) /\ n \in 0..Len(s) /\ k - n \in Nat
  OBVIOUS
<1>1. c \in Seq(Fields) /\ Len(c) = k /\ \A i \in 1..k : c[i] = s[i]
  BY <1>0, PartIs
<1>2. t \in Seq(Fields) /\ Len(t) = Len(s) - n /\ \A i \in 1..(Len(s) - n) : t[i] = s[n + i]
  BY <1>0, RestIs
<1> HIDE DEF c, t
<1>3. a \in Seq(Fields) /\ Len(a) = k - n /\ \A i \in 1..(k - n) : a[i] = c[n + i]
  BY <1>1, RestIs
<1>4. k - n \in 0..Len(t) /\ 1 \in 1..(Len(t) + 1)
  BY <1>0, <1>2
<1>5. b \in Seq(Fields) /\ Len(b) = k - n /\ \A i \in 1..(k - n) : b[i] = t[i]
  BY <1>0, <1>2, <1>4, PartIs
<1> HIDE DEF a, b
<1>6. \A i \in 1..(k - n) : a[i] = b[i]
  <2> TAKE i \in 1..(k - n)
  <2>1. n + i \in 1..k /\ i \in 1..(Len(s) - n)
    BY <1>0
  <2> QED BY <1>1, <1>2, <1>3, <1>5, <2>1
<1>7. a = b
  BY <1>3, <1>5, <1>6, SeqEqual
<1> QED BY <1>7 DEF a, b, c, t

LEMMA PrefixOfCut ==
  ASSUME NEW q \in Seq(Fields), NEW s \in Seq(Fields), NEW k \in 1..Len(s)
  PROVE  IsPrefix(q, SubSeq(s, 1, k)) <=> IsPrefix(q, s) /\ Len(q) <= k
<1> DEFINE c == SubSeq(s, 1, k)
<1>0. k \in 0..Len(s) /\ 1 \in 1..(Len(s) + 1)
  OBVIOUS
<1>1. c \in Seq(Fields) /\ Len(c) = k /\ \A i \in 1..k : c[i] = s[i]
  BY <1>0, PartIs
<1> HIDE DEF c
<1>2. IsPrefix(q, c) <=> Len(q) <= k /\ \A i \in 1..Len(q) : q[i] = c[i]
  BY <1>1, PrefixIs
<1>3. IsPrefix(q, s) <=> Len(q) <= Len(s) /\ \A i \in 1..Len(q) : q[i] = s[i]
  BY PrefixIs
<1>4. Len(q) <= k => (\A i \in 1..Len(q) : q[i] = c[i]) <=> (\A i \in 1..Len(q) : q[i] = s[i])
  BY <1>1
<1>5. Len(q) <= k => Len(q) <= Len(s)
  OBVIOUS
<1> QED BY <1>2, <1>3, <1>4, <1>5 DEF c

\* One leaf seen from a path on.
From(l, q) == [path |-> Rest(l.path, Len(q)), value |-> l.value]

LEMMA AtIs ==
  ASSUME NEW v, NEW q
  PROVE  At(v, q) = {From(l, q) : l \in {x \in v : IsPrefix(q, x.path)}}
  BY DEF At, From, Rest

LEMMA FromIs ==
  ASSUME NEW q \in Seq(Fields), NEW l \in Leaves, IsPrefix(q, l.path)
  PROVE  From(l, q) \in Leaves /\ From(l, q).path = Rest(l.path, Len(q))
         /\ From(l, q).value = l.value
<1>1. l.path \in Seq(Fields) /\ l.value \in Values
  BY DEF Leaves
<1>2. Len(q) \in 0..Len(l.path)
  BY <1>1, PrefixIs
<1>3. Rest(l.path, Len(q)) \in Seq(Fields)
  BY <1>1, <1>2, RestIs
<1> QED BY <1>1, <1>3 DEF From, Leaves

LEMMA AtType ==
  ASSUME NEW v \in Payloads, NEW q \in Seq(Fields)
  PROVE  At(v, q) \in Payloads
<1>1. \A l \in v : l \in Leaves
  BY DEF Payloads
<1> QED BY <1>1, AtIs, FromIs DEF Payloads

\* Beyond a path without sensitive keys, masking and looking commute.
LEMMA AtMasked ==
  ASSUME NEW v \in Payloads, NEW q \in Seq(Fields), Harmless(q)
  PROVE  At(Masked(v), q) = Masked(At(v, q))
<1> DEFINE n == Len(q)
<1>0. \A l \in v : l \in Leaves /\ l.path \in Seq(Fields)
  BY DEF Payloads, Leaves
<1>1. ASSUME NEW m \in At(Masked(v), q) PROVE m \in Masked(At(v, q))
  <2>1. PICK l \in Masked(v) : IsPrefix(q, l.path) /\ m = From(l, q)
    BY AtIs
  <2>2. PICK x \in v : l \in MaskedLeaf(x)
    BY DEF Masked
  <2>3. x \in Leaves /\ x.path \in Seq(Fields)
    BY <1>0
  <2>4. CASE Harmless(x.path)
    <3>1. l = x
      BY <2>2, <2>4 DEF MaskedLeaf
    <3>2. m \in At(v, q) /\ m.path = Rest(x.path, n)
      BY <2>1, <2>3, <3>1, AtIs, FromIs
    <3>3. Harmless(m.path)
      BY <2>1, <2>3, <2>4, <3>1, <3>2, RestSensitive
    <3>4. MaskedLeaf(m) = {m}
      BY <3>3 DEF MaskedLeaf
    <3> QED BY <3>2, <3>4 DEF Masked
  <2>5. CASE ~Harmless(x.path)
    <3>1. PICK k \in FirstSensitive(x.path) :
            l = [path |-> SubSeq(x.path, 1, k), value |-> Hidden]
      BY <2>2, <2>5 DEF MaskedLeaf
    <3>2. k \in 1..Len(x.path)
      BY <2>3, CutIs
    <3>3. IsPrefix(q, x.path) /\ n <= k
      BY <2>1, <2>3, <3>1, <3>2, PrefixOfCut
    <3> DEFINE y == From(x, q)
    <3>4. y \in At(v, q) /\ y.path = Rest(x.path, n)
      BY <2>3, <3>3, AtIs, FromIs
    <3> HIDE DEF y
    <3>5. ~Harmless(y.path) /\ k - n \in FirstSensitive(y.path)
      BY <2>3, <2>5, <3>1, <3>3, <3>4, RestSensitive
    <3>6. n \in 0..k
      BY <3>2, <3>3
    <3>7. m = [path |-> Rest(SubSeq(x.path, 1, k), n), value |-> Hidden]
      BY <2>1, <3>1 DEF From
    <3>8. m = [path |-> SubSeq(y.path, 1, k - n), value |-> Hidden]
      BY <2>3, <3>2, <3>4, <3>6, <3>7, CutRest
    <3>9. m \in MaskedLeaf(y)
      BY <3>5, <3>8 DEF MaskedLeaf
    <3> QED BY <3>4, <3>9 DEF Masked
  <2> QED BY <2>4, <2>5
<1>2. ASSUME NEW m \in Masked(At(v, q)) PROVE m \in At(Masked(v), q)
  <2>1. PICK y \in At(v, q) : m \in MaskedLeaf(y)
    BY DEF Masked
  <2>2. PICK x \in v : IsPrefix(q, x.path) /\ y = From(x, q)
    BY AtIs
  <2>3. x \in Leaves /\ x.path \in Seq(Fields)
    BY <1>0
  <2>4. y.path = Rest(x.path, n) /\ y.value = x.value
    BY <2>2, <2>3, FromIs
  <2>5. CASE Harmless(y.path)
    <3>1. m = y
      BY <2>1, <2>5 DEF MaskedLeaf
    <3>2. Harmless(x.path)
      BY <2>2, <2>3, <2>4, <2>5, RestSensitive
    <3>3. x \in Masked(v)
      BY <3>2 DEF Masked, MaskedLeaf
    <3> QED BY <2>2, <3>1, <3>3, AtIs
  <2>6. CASE ~Harmless(y.path)
    <3>1. PICK i \in FirstSensitive(y.path) :
            m = [path |-> SubSeq(y.path, 1, i), value |-> Hidden]
      BY <2>1, <2>6 DEF MaskedLeaf
    <3>0. n \in 0..Len(x.path)
      BY <2>2, <2>3, PrefixIs
    <3>y. y.path \in Seq(Fields) /\ Len(y.path) = Len(x.path) - n
      BY <2>3, <2>4, <3>0, RestIs
    <3>2. i \in 1..Len(y.path)
      BY <3>y, CutIs
    <3> DEFINE k == n + i
    <3>3. k \in 1..Len(x.path) /\ n \in 0..k /\ n <= k /\ k - n = i /\ k \in Nat
      BY <3>0, <3>2, <3>y
    <3> HIDE DEF k, n
    <3>a. /\ Harmless(x.path) <=> Harmless(y.path)
          /\ k \in FirstSensitive(x.path) <=>
               k - Len(q) \in FirstSensitive(y.path) /\ k \in Nat
      BY <2>2, <2>3, <2>4, RestSensitive DEF n
    <3>4. k \in FirstSensitive(x.path) /\ ~Harmless(x.path)
      BY <2>6, <3>1, <3>3, <3>a DEF n
    <3> DEFINE l == [path |-> SubSeq(x.path, 1, k), value |-> Hidden]
    <3>5. l \in MaskedLeaf(x)
      BY <3>4 DEF MaskedLeaf
    <3>6. l \in Masked(v)
      BY <3>5 DEF Masked
    <3>7. IsPrefix(q, SubSeq(x.path, 1, k))
      BY <2>2, <2>3, <3>3, PrefixOfCut DEF n
    <3>8. Rest(SubSeq(x.path, 1, k), n) = SubSeq(y.path, 1, i)
      BY <2>3, <2>4, <3>3, CutRest
    <3>9. From(l, q) = m
      BY <3>1, <3>8 DEF From, n
    <3> QED BY <3>6, <3>7, <3>9, AtIs
  <2> QED BY <2>5, <2>6
<1> QED BY <1>1, <1>2

\* A key is a path of one key.
LEMMA KeyPrefix ==
  ASSUME NEW t \in Fields, NEW s \in Seq(Fields)
  PROVE  /\ <<t>> \in Seq(Fields) /\ Len(<<t>>) = 1
         /\ IsPrefix(<<t>>, s) <=> Len(s) >= 1 /\ s[1] = t
         /\ Harmless(<<t>>) <=> t \notin Sensitive
<1>1. <<t>> \in Seq(Fields) /\ Len(<<t>>) = 1 /\ <<t>>[1] = t
  OBVIOUS
<1> DEFINE q == <<t>>
<1>2. q \in Seq(Fields) /\ Len(q) = 1 /\ q[1] = t /\ DOMAIN q = 1..1
  BY <1>1
<1> HIDE DEF q
<1>3. IsPrefix(q, s) <=> Len(s) >= 1 /\ s[1] = t
  BY <1>2, PrefixIs
<1>4. Harmless(q) <=> t \notin Sensitive
  BY <1>2 DEF Harmless
<1> QED BY <1>2, <1>3, <1>4 DEF q

\* What is outside a key stays outside under the mask, and nothing joins it.
LEMMA OutsideMasked ==
  ASSUME NEW v \in Payloads, NEW t \in Fields
  PROVE  Outside(Masked(v), t) = Masked(Outside(v, t))
<1>0. \A l \in v : l \in Leaves /\ l.path \in Seq(Fields)
  BY DEF Payloads, Leaves
<1>1. ASSUME NEW x \in v, NEW m \in MaskedLeaf(x)
      PROVE  IsPrefix(<<t>>, m.path) <=> IsPrefix(<<t>>, x.path)
  <2>1. x.path \in Seq(Fields)
    BY <1>0
  <2>2. CASE Harmless(x.path)
    BY <2>2 DEF MaskedLeaf
  <2>3. CASE ~Harmless(x.path)
    <3>1. PICK k \in FirstSensitive(x.path) :
            m = [path |-> SubSeq(x.path, 1, k), value |-> Hidden]
      BY <2>3 DEF MaskedLeaf
    <3>2. k \in 1..Len(x.path) /\ m.path = SubSeq(x.path, 1, k)
      BY <2>1, <3>1, CutIs
    <3>3. <<t>> \in Seq(Fields) /\ Len(<<t>>) <= k
      BY <3>2, <2>1, KeyPrefix
    <3> QED BY <2>1, <3>2, <3>3, PrefixOfCut
  <2> QED BY <2>2, <2>3
<1>2. ASSUME NEW m \in Outside(Masked(v), t) PROVE m \in Masked(Outside(v, t))
  <2>1. PICK x \in v : m \in MaskedLeaf(x) /\ ~IsPrefix(<<t>>, m.path)
    BY DEF Outside, Masked
  <2>2. x \in Outside(v, t)
    BY <1>1, <2>1 DEF Outside
  <2> QED BY <2>1, <2>2 DEF Masked
<1>3. ASSUME NEW m \in Masked(Outside(v, t)) PROVE m \in Outside(Masked(v), t)
  <2>1. PICK x \in v : m \in MaskedLeaf(x) /\ ~IsPrefix(<<t>>, x.path)
    BY DEF Outside, Masked
  <2>2. m \in Masked(v)
    BY <2>1 DEF Masked
  <2> QED BY <1>1, <2>1, <2>2 DEF Outside
<1> QED BY <1>2, <1>3

\* What is put under a key is all that is there, and nothing else moves.
LEMMA UnderIs ==
  ASSUME NEW w \in Payloads, NEW t \in Fields
  PROVE  /\ Under(w, t) \in Payloads
         /\ \A l \in Under(w, t) : IsPrefix(<<t>>, l.path)
         /\ At(Under(w, t), <<t>>) = w
<1> DEFINE Put(l) == [path |-> <<t>> \o l.path, value |-> l.value]
<1>1. ASSUME NEW l \in w
      PROVE  /\ Put(l) \in Leaves /\ IsPrefix(<<t>>, Put(l).path)
             /\ From(Put(l), <<t>>) = l
  <2> DEFINE p == <<t>> \o l.path
             q == <<t>>
  <2>1. l \in Leaves /\ l.path \in Seq(Fields) /\ l.value \in Values
    BY DEF Payloads, Leaves
  <2>2. q \in Seq(Fields) /\ Len(q) = 1 /\ q[1] = t
    BY KeyPrefix
  <2> HIDE DEF q
  <2>3. /\ q \o l.path \in Seq(Fields) /\ Len(q \o l.path) = Len(q) + Len(l.path)
        /\ \A i \in 1..(Len(q) + Len(l.path)) : (q \o l.path)[i] =
             IF i <= Len(q) THEN q[i] ELSE l.path[i - Len(q)]
    BY <2>1, <2>2, ConcatProperties
  <2>4. p \in Seq(Fields) /\ Len(p) = 1 + Len(l.path) /\ p[1] = t
        /\ \A i \in 1..Len(l.path) : p[1 + i] = l.path[i]
    <3>1. p = q \o l.path
      BY DEF q
    <3> HIDE DEF p
    <3>2. Len(l.path) \in Nat
      BY <2>1
    <3>3. \A i \in 1..Len(l.path) : 1 + i \in 1..(1 + Len(l.path)) /\ ~(1 + i <= 1) /\ (1 + i) - 1 = i
      BY <3>2
    <3>4. 1 \in 1..(1 + Len(l.path))
      BY <3>2
    <3> QED BY <2>2, <2>3, <3>1, <3>3, <3>4
  <2> HIDE DEF p
  <2>5. IsPrefix(<<t>>, p)
    BY <2>1, <2>4, KeyPrefix
  <2>6. Rest(p, 1) = l.path
    <3>1. 1 \in 0..Len(p) /\ Len(p) - 1 = Len(l.path)
      BY <2>1, <2>4
    <3>2. /\ Rest(p, 1) \in Seq(Fields) /\ Len(Rest(p, 1)) = Len(l.path)
          /\ \A i \in 1..Len(l.path) : Rest(p, 1)[i] = p[1 + i]
      BY <2>4, <3>1, RestIs
    <3>3. \A i \in 1..Len(l.path) : Rest(p, 1)[i] = l.path[i]
      BY <2>4, <3>2
    <3> QED BY <2>1, <3>2, <3>3, SeqEqual
  <2>7. Put(l) = [path |-> p, value |-> l.value]
    BY DEF p
  <2>8. l = [path |-> l.path, value |-> l.value]
    BY <2>1 DEF Leaves
  <2>9. From(Put(l), <<t>>) = [path |-> Rest(p, 1), value |-> l.value]
    BY <2>2, <2>7 DEF From, q
  <2> QED BY <2>1, <2>4, <2>5, <2>6, <2>7, <2>8, <2>9 DEF Leaves
<1>2. Under(w, t) = {Put(l) : l \in w}
  BY DEF Under
<1> HIDE DEF Put
<1>3. At(Under(w, t), <<t>>) = w
  <2>1. ASSUME NEW m \in At(Under(w, t), <<t>>) PROVE m \in w
    BY <1>1, <1>2, AtIs
  <2>2. ASSUME NEW m \in w PROVE m \in At(Under(w, t), <<t>>)
    <3>1. Put(m) \in Under(w, t) /\ IsPrefix(<<t>>, Put(m).path) /\ From(Put(m), <<t>>) = m
      BY <1>1, <1>2
    <3> QED BY <3>1, AtIs
  <2> QED BY <2>1, <2>2
<1>4. Under(w, t) \in Payloads
  BY <1>1, <1>2 DEF Payloads
<1> QED BY <1>1, <1>2, <1>3, <1>4

\* What a binding leaves in the input, seen under the mask.
LEMMA InsertedIs ==
  ASSUME NEW v \in Payloads, NEW w \in Payloads, NEW t \in Fields
  PROVE  LET x == Inserted(v, t, w)
         IN  /\ x \in Payloads
             /\ Masked(v) = v => Outside(Masked(x), t) = Outside(v, t)
             /\ t \notin Sensitive => At(Masked(x), <<t>>) = Masked(w)
<1> DEFINE x == Inserted(v, t, w)
<1>1. x = Outside(v, t) \union Under(w, t)
  BY DEF Inserted
<1>2. /\ \A l \in Outside(v, t) : l \in v /\ ~IsPrefix(<<t>>, l.path)
      /\ \A l \in Under(w, t) : IsPrefix(<<t>>, l.path)
      /\ Under(w, t) \in Payloads /\ At(Under(w, t), <<t>>) = w
  BY UnderIs DEF Outside
<1>3. x \in Payloads
  BY <1>1, <1>2 DEF Payloads
<1> HIDE DEF x
<1>4. Outside(x, t) = Outside(v, t)
  BY <1>1, <1>2 DEF Outside
<1>5. At(x, <<t>>) = w
  <2>1. {l \in x : IsPrefix(<<t>>, l.path)} = {l \in Under(w, t) : IsPrefix(<<t>>, l.path)}
    BY <1>1, <1>2
  <2>2. At(x, <<t>>) = At(Under(w, t), <<t>>)
    BY <2>1, AtIs
  <2> QED BY <1>2, <2>2
<1>6. ASSUME Masked(v) = v PROVE Outside(Masked(x), t) = Outside(v, t)
  <2>1. Outside(Masked(x), t) = Masked(Outside(x, t))
    BY <1>3, OutsideMasked
  <2>2. Outside(Masked(v), t) = Masked(Outside(v, t))
    BY OutsideMasked
  <2> QED BY <1>4, <1>6, <2>1, <2>2
<1>7. ASSUME t \notin Sensitive PROVE At(Masked(x), <<t>>) = Masked(w)
  <2>1. <<t>> \in Seq(Fields) /\ Harmless(<<t>>)
    BY <1>7, EmptySeq, KeyPrefix
  <2> QED BY <1>3, <1>5, <2>1, AtMasked
<1> QED BY <1>3, <1>6, <1>7 DEF x

-----------------------------------------------------------------------------
\* Executions.

LEMMA FunctionIsSeq ==
  ASSUME NEW S, NEW n \in Nat, NEW f \in [1..n -> S]
  PROVE  f \in Seq(S) /\ Len(f) = n /\ DOMAIN f = 1..n
  OBVIOUS

LEMMA ElementIs ==
  ASSUME NEW S, NEW s \in Seq(S), NEW i \in DOMAIN s PROVE s[i] \in S
  OBVIOUS

\* What redaction does to one event, and to the events of a run.
MaskedEvent(e) ==
  [e EXCEPT !.input = Masked(@), !.output = Masked(@), !.bind = MaskedBind(@)]
MaskedEvents(s) == [i \in DOMAIN s |-> MaskedEvent(s[i])]

Clean(e) ==
  /\ Masked(e.input) = e.input /\ Masked(e.output) = e.output
  /\ MaskedBind(e.bind) = e.bind

LEMMA MaskedBindIs ==
  ASSUME NEW b \in Bindings \union {None, Hidden}
  PROVE  /\ MaskedBind(b) \in Bindings \union {None, Hidden}
         /\ MaskedBind(MaskedBind(b)) = MaskedBind(b)
         /\ MaskedBind(b) = b /\ b \in Bindings => b.target \notin Sensitive
  BY BindingAssumption DEF MaskedBind

LEMMA MaskedEventIs ==
  ASSUME NEW e \in Events
  PROVE  LET m == MaskedEvent(e)
         IN  /\ m \in Events /\ Clean(m)
             /\ m.id = e.id /\ m.run = e.run /\ m.parent = e.parent /\ m.kind = e.kind
             /\ m.model = e.model /\ m.cost = e.cost /\ m.bind = MaskedBind(e.bind)
             /\ m.input = Masked(e.input) /\ m.output = Masked(e.output)
<1> DEFINE in == Masked(e.input)
           out == Masked(e.output)
           bind == MaskedBind(e.bind)
           m == MaskedEvent(e)
<1>1. /\ e.input \in Payloads /\ e.output \in Payloads
      /\ e.bind \in Bindings \union {None, Hidden}
  BY DEF Events
<1>2. /\ in \in Payloads /\ out \in Payloads /\ bind \in Bindings \union {None, Hidden}
      /\ Masked(in) = in /\ Masked(out) = out /\ MaskedBind(bind) = bind
  BY <1>1, MaskedTwice, MaskedBindIs
<1>3. m = [e EXCEPT !.input = in, !.output = out, !.bind = bind]
  BY DEF MaskedEvent
<1> HIDE DEF in, out, bind, m
<1>4. /\ m \in Events /\ m.input = in /\ m.output = out /\ m.bind = bind
      /\ m.id = e.id /\ m.run = e.run /\ m.parent = e.parent /\ m.kind = e.kind
      /\ m.model = e.model /\ m.cost = e.cost
  BY <1>2, <1>3 DEF Events
<1>5. Clean(m)
  BY <1>2, <1>4 DEF Clean
<1> QED BY <1>4, <1>5 DEF m, in, out, bind

LEMMA MaskedEventSame ==
  ASSUME NEW e \in Events
  PROVE  MaskedEvent(e) = e <=> Clean(e)
<1>1. ASSUME Clean(e) PROVE MaskedEvent(e) = e
  <2>1. MaskedEvent(e) = [e EXCEPT !.input = e.input, !.output = e.output, !.bind = e.bind]
    BY <1>1 DEF Clean, MaskedEvent
  <2> QED BY <2>1 DEF Events
<1>2. ASSUME MaskedEvent(e) = e PROVE Clean(e)
  BY <1>2, MaskedEventIs
<1> QED BY <1>1, <1>2

LEMMA MaskedSame ==
  ASSUME NEW s \in Seq(Events), \A i \in DOMAIN s : Clean(s[i])
  PROVE  MaskedEvents(s) = s
<1> DEFINE m == MaskedEvents(s)
<1>1. \A i \in DOMAIN s : m[i] = s[i]
  <2> TAKE i \in DOMAIN s
  <2>1. s[i] \in Events
    OBVIOUS
  <2>2. m[i] = MaskedEvent(s[i])
    BY DEF MaskedEvents
  <2> QED BY <2>1, <2>2, MaskedEventSame
<1>2. m = [i \in DOMAIN s |-> m[i]]
  BY DEF MaskedEvents
<1> HIDE DEF m
<1>3. m = [i \in DOMAIN s |-> s[i]]
  BY <1>1, <1>2
<1>4. s = [i \in DOMAIN s |-> s[i]]
  OBVIOUS
<1> QED BY <1>3, <1>4 DEF m

LEMMA RedactedIs ==
  ASSUME NEW run \in Runs
  PROVE  /\ Redacted(run) \in Runs /\ Redacted(run).id = run.id
         /\ Redacted(run).wall = run.wall /\ Redacted(run).status = run.status
         /\ Len(Redacted(run).events) = Len(run.events)
         /\ \A i \in DOMAIN run.events :
              Redacted(run).events[i] = MaskedEvent(run.events[i])
<1> DEFINE new == [i \in DOMAIN run.events |-> MaskedEvent(run.events[i])]
<1>0. run.events \in Seq(Events)
  BY DEF Runs
<1>1. \A i \in DOMAIN run.events : new[i] \in Events
  <2> TAKE i \in DOMAIN run.events
  <2>1. run.events[i] \in Events
    BY <1>0
  <2> QED BY <2>1, MaskedEventIs
<1>2. new \in Seq(Events) /\ Len(new) = Len(run.events)
  <2>1. DOMAIN run.events = 1..Len(run.events) /\ Len(run.events) \in Nat
    BY <1>0
  <2>2. new = [i \in 1..Len(run.events) |-> new[i]]
    BY <2>1
  <2> HIDE DEF new
  <2>3. new \in [1..Len(run.events) -> Events]
    BY <1>1, <2>1, <2>2
  <2> QED BY <2>1, <2>3, FunctionIsSeq
<1>3. Redacted(run) = [run EXCEPT !.events = new]
  BY DEF Redacted, MaskedEvent
<1>4. \A i \in DOMAIN run.events : new[i] = MaskedEvent(run.events[i])
  OBVIOUS
<1> HIDE DEF new
<1> QED BY <1>2, <1>3, <1>4 DEF Runs

\* A run that is in the store: valid, and redacted once and for all.
Normal(run) == run \in Runs /\ Valid(run) /\ Redacted(run) = run

LEMMA RedactedNormal ==
  ASSUME NEW run \in Runs, Valid(run)
  PROVE  Normal(Redacted(run)) /\ Redacted(run).id = run.id
<1> DEFINE new == Redacted(run)
<1>0. run.events \in Seq(Events)
  BY DEF Runs
<1>1. /\ new \in Runs /\ new.id = run.id /\ new.wall = run.wall /\ new.status = run.status
      /\ Len(new.events) = Len(run.events) /\ new.events \in Seq(Events)
  BY RedactedIs DEF Runs
<1>2. ASSUME NEW i \in DOMAIN run.events
      PROVE  /\ new.events[i].id = run.events[i].id /\ new.events[i].parent = run.events[i].parent
             /\ new.events[i].run = run.events[i].run
             /\ Clean(new.events[i])
  <2>1. new.events[i] = MaskedEvent(run.events[i])
    BY RedactedIs
  <2>2. run.events[i] \in Events
    BY <1>0
  <2> QED BY <2>1, <2>2, MaskedEventIs
<1>3. DOMAIN new.events = DOMAIN run.events
  BY <1>0, <1>1
<1> HIDE DEF new
<1>4. \A i \in DOMAIN run.events : IdsBefore(new, i) = IdsBefore(run, i)
  <2> TAKE i \in DOMAIN run.events
  <2>1. \A j \in 1..(i - 1) : new.events[j].id = run.events[j].id
    BY <1>0, <1>2
  <2> QED BY <2>1 DEF IdsBefore
<1>5. Valid(new)
  BY <1>1, <1>2, <1>3, <1>4 DEF Valid
<1>6. Redacted(new) = new
  <2>1. MaskedEvents(new.events) = new.events
    BY <1>1, <1>2, <1>3, MaskedSame
  <2> QED BY <1>1, <2>1 DEF Redacted, Runs, MaskedEvents, MaskedEvent
<1> QED BY <1>1, <1>5, <1>6 DEF Normal, new

\* Where an event is.
LEMMA IndexIs ==
  ASSUME NEW run, NEW id \in {run.events[i].id : i \in DOMAIN run.events}
  PROVE  IndexOf(run, id) \in DOMAIN run.events /\ run.events[IndexOf(run, id)].id = id
  BY DEF IndexOf

\* A fork is a valid, redacted run of its own, up to the event.
LEMMA ForkIs ==
  ASSUME NEW run \in Runs, NEW id \in RunIds, Valid(run),
         NEW from \in {run.events[i].id : i \in DOMAIN run.events}
  PROVE  LET f == Fork(run, from, id)
         IN  /\ f \in Runs /\ Valid(f) /\ f.id = id
             /\ Len(f.events) = IndexOf(run, from) - 1
             /\ \A i \in 1..(IndexOf(run, from) - 1) :
                  f.events[i] = [run.events[i] EXCEPT !.run = id]
             /\ Redacted(run) = run => Redacted(f) = f
<1> DEFINE n == IndexOf(run, from) - 1
           new == [i \in 1..n |-> [run.events[i] EXCEPT !.run = id]]
           f == Fork(run, from, id)
<1>0. run.events \in Seq(Events)
  BY DEF Runs
<1>1. n \in Nat /\ n < Len(run.events) /\ from \in EventIds
  <2>1. IndexOf(run, from) \in 1..Len(run.events)
    BY <1>0, IndexIs
  <2>2. \A i \in DOMAIN run.events : run.events[i].id \in EventIds
    <3>1. \A i \in DOMAIN run.events : run.events[i] \in Events
      BY <1>0
    <3> QED BY <3>1 DEF Events
  <2> QED BY <1>0, <2>1, <2>2
<1> HIDE DEF n
<1>2. \A i \in 1..n : i \in DOMAIN run.events /\ run.events[i] \in Events
  BY <1>0, <1>1
<1>3. new \in Seq(Events) /\ Len(new) = n /\ DOMAIN new = 1..n
  <2>1. \A i \in 1..n : new[i] \in Events
    BY <1>2 DEF Events
  <2>2. new = [i \in 1..n |-> new[i]]
    OBVIOUS
  <2> HIDE DEF new
  <2>3. new \in [1..n -> Events]
    BY <2>1, <2>2
  <2> QED BY <1>1, <2>3, FunctionIsSeq
<1>4. \A i \in 1..n : /\ new[i].id = run.events[i].id /\ new[i].parent = run.events[i].parent
                      /\ new[i].run = id
  BY <1>2 DEF Events
<1>5. \A i \in 1..n : new[i] = [run.events[i] EXCEPT !.run = id]
  OBVIOUS
<1>6. /\ f = [run EXCEPT !.id = id, !.status = "running", !.wall = None,
                !.lineage = [of |-> run.id, from |-> from], !.events = new]
  BY DEF Fork, n
<1> HIDE DEF new
<1>7. /\ f \in Runs /\ f.id = id /\ f.events = new /\ f.wall = None /\ f.status = "running"
  <2> HIDE DEF f
  <2> QED BY <1>1, <1>3, <1>6 DEF Runs
<1> HIDE DEF f
<1>8. \A i \in 1..n : IdsBefore(f, i) = IdsBefore(run, i)
  <2> TAKE i \in 1..n
  <2>1. \A j \in 1..(i - 1) : f.events[j].id = run.events[j].id
    BY <1>1, <1>4, <1>7
  <2> QED BY <2>1 DEF IdsBefore
<1>9. Valid(f)
  BY <1>2, <1>3, <1>4, <1>7, <1>8 DEF Valid
<1>10. ASSUME Redacted(run) = run PROVE Redacted(f) = f
  <2>1. \A i \in 1..n : Clean(new[i])
    <3> TAKE i \in 1..n
    <3>1. run.events[i] = MaskedEvent(run.events[i])
      BY <1>2, <1>10, RedactedIs
    <3>2. Clean(run.events[i])
      BY <1>2, <3>1, MaskedEventSame
    <3> QED BY <1>2, <1>5, <3>2 DEF Events, Clean
  <2>2. MaskedEvents(new) = new
    BY <1>3, <2>1, MaskedSame
  <2> QED BY <1>7, <2>2 DEF Redacted, Runs, MaskedEvents, MaskedEvent
<1> QED BY <1>3, <1>5, <1>7, <1>9, <1>10 DEF f, n

-----------------------------------------------------------------------------
\* What a request of either kind carries.

\* The rest of the run is allowed: opted in to, approved, consented to.
Allowed(run, options) ==
  /\ options.live
  /\ \A i \in Suffix(run, options.from) :
       LET e == run.events[i]
       IN  /\ e.policy # "blocked"
           /\ NeedsApproval(e) => e.id \in options.approved
           /\ e.kind # "generation" => e.id \in options.reuse
           /\ e.bind # None => e.bind \in Bindings /\ e.bind.event \in IdsBefore(run, i)

Branchings == [pc : {"rerun", "calling"}, run : Runs, options : RerunOptions,
               id : BranchIds, events : Seq(Events)]

\* The input of an event is the recorded one, with what an earlier event put out
\* under the key of the binding.
BoundTo(e, old, source) ==
  LET w == At(source.output, e.bind.path)
  IN  /\ source.id = e.bind.event /\ w # {}
      /\ e.input = Inserted(old.input, e.bind.target, w)

\* The i-th event of the branch: the run's before the fork; from there on the
\* same step, by the profile's model if it is a generation, with the recorded
\* output if not, bound to what the branch put out.
Follows(j, i) ==
  LET e == j.events[i]  old == j.run.events[i]
      fork == IndexOf(j.run, j.options.from)
  IN  /\ e.id = old.id /\ e.parent = old.parent /\ e.run = j.id
      /\ i < fork => e = [old EXCEPT !.run = j.id]
      /\ i >= fork =>
           /\ e.kind = old.kind /\ e.bind = old.bind
           /\ IF e.kind = "generation" THEN e.model = Model /\ e.cost = None
              ELSE e.output = old.output
           /\ e.bind = None => e.input = old.input
           /\ e.bind # None => \E k \in 1..(i - 1) : BoundTo(e, old, j.events[k])

\* The events of the branch so far are those of the run, in its order.
Branching(j) ==
  /\ j \in Branchings /\ Normal(j.run)
  /\ j.options.from \in {j.run.events[i].id : i \in DOMAIN j.run.events}
  /\ Allowed(j.run, j.options)
  /\ IndexOf(j.run, j.options.from) <= Len(j.events) + 1
  /\ Len(j.events) <= Len(j.run.events)
  /\ \A i \in 1..Len(j.events) : Follows(j, i)

LEMMA FollowsIds ==
  ASSUME NEW j, Branching(j), NEW i \in 1..Len(j.events)
  PROVE  /\ j.events[i].id = j.run.events[i].id /\ j.events[i].run = j.id
         /\ j.events[i].parent = j.run.events[i].parent
<1>1. Follows(j, i)
  BY DEF Branching
<1> QED BY <1>1 DEF Follows

\* A case that passed was complete.
Complete(c, asked) ==
  /\ Len(c.left.events) = Len(c.right.events)
  /\ \A i \in DOMAIN c.left.events :
       LET pair == <<c.left.events[i].output, c.right.events[i].output>>
       IN  /\ SameShape(c.left, c.right, i)
           /\ pair[1] # pair[2] =>
                IF asked.grader THEN pair \in DOMAIN c.grades /\ c.grades[pair] = "equivalent"
                ELSE pair \in Alike
  /\ \A m \in DOMAIN asked.limits :
       /\ Measure(c.left)[m] # None /\ Measure(c.right)[m] # None
       /\ Measure(c.right)[m] * 100 <= Measure(c.left)[m] * (100 + asked.limits[m])

Compared(j) ==
  /\ \E S : j.cases \in Seq(S)
  /\ \A n \in DOMAIN j.cases : j.cases[n].passed => Complete(j.cases[n], j.asked)

Grading(j) ==
  /\ DOMAIN j = {"pc", "asked", "cases", "left", "right", "todo", "grades"}
  /\ j.left \in Runs /\ j.right \in Runs

JobOK(j) ==
  /\ j.pc \in {"idle", "rerun", "calling", "load", "grading", "asking", "answered"}
  /\ j.pc \in {"rerun", "calling"} => Branching(j)
  /\ j.pc = "calling" => Ready(j) /\ Coming(j).kind = "generation"
  /\ j.pc \in {"load", "grading", "asking", "answered"} => Compared(j)
  /\ j.pc \in {"grading", "asking"} => Grading(j)
  /\ j.pc = "answered" /\ j.passed =>
       /\ Len(j.cases) = Len(j.asked.pairs)
       /\ \A n \in DOMAIN j.cases : j.cases[n].passed

StoreOK == \A id \in DOMAIN store : Normal(store[id]) /\ store[id].id = id

Jobs == DOMAIN job = Requests /\ \A r \in Requests : JobOK(job[r])

LEMMA BecomeOK ==
  ASSUME Jobs, NEW r \in Requests, NEW j, JobOK(j), Become(r, j)
  PROVE  Jobs'
<1>1. job' = [job EXCEPT ![r] = j]
  BY DEF Become
<1>2. \A q \in Requests : job'[q] = IF q = r THEN j ELSE job[q]
  BY <1>1 DEF Jobs
<1>3. DOMAIN job' = Requests
  BY <1>1 DEF Jobs
<1>4. \A q \in Requests : JobOK(job'[q])
  BY <1>2 DEF Jobs
<1> QED BY <1>3, <1>4 DEF Jobs

LEMMA IdleOK == JobOK(Idle)
  BY DEF JobOK, Idle

\* The event a branch comes to, as the executor returns it.
Executed(j, e) ==
  LET old == Coming(j)
  IN  /\ e \in Events /\ e.id = old.id /\ e.parent = old.parent /\ e.run = j.id
      /\ e.kind = old.kind /\ e.bind = old.bind
      /\ e.input = BoundInput(old, j.run, j.events)
      /\ IF e.kind = "generation" THEN e.model = Model /\ e.cost = None
         ELSE e.output = old.output

\* What a binding of the coming event refers to is in the branch already.
LEMMA BoundIs ==
  ASSUME NEW j, Branching(j), Ready(j)
  PROVE  /\ Coming(j) \in Events /\ Coming(j) = j.run.events[Len(j.events) + 1]
         /\ Len(j.events) + 1 \in 1..Len(j.run.events)
         /\ BoundInput(Coming(j), j.run, j.events) \in Payloads
         /\ Coming(j).bind = None => BoundInput(Coming(j), j.run, j.events) = Coming(j).input
         /\ Coming(j).bind # None => \E k \in 1..Len(j.events) :
              LET w == At(j.events[k].output, Coming(j).bind.path)
              IN  /\ j.events[k].id = Coming(j).bind.event /\ w # {}
                  /\ BoundInput(Coming(j), j.run, j.events) =
                       Inserted(Coming(j).input, Coming(j).bind.target, w)
<1> DEFINE n == Len(j.events) + 1
           old == Coming(j)
<1>0. /\ j.run \in Runs /\ j.run.events \in Seq(Events) /\ j.events \in Seq(Events)
  BY DEF Branching, Branchings, Runs
<1>1. n \in 1..Len(j.run.events) /\ n \in Nat
  BY <1>0 DEF Ready, More
<1>2. old \in Events /\ old = j.run.events[n]
  BY <1>0, <1>1 DEF Coming
<1>3. IndexOf(j.run, j.options.from) \in 1..Len(j.run.events)
  BY <1>0, IndexIs DEF Branching
<1>4. n \in Suffix(j.run, j.options.from)
  BY <1>1, <1>3 DEF Suffix, Branching
<1>5. CASE old.bind = None
  BY <1>1, <1>2, <1>5 DEF BoundInput, Events
<1>6. CASE old.bind # None
  <2>1. old.bind \in Bindings /\ old.bind.event \in IdsBefore(j.run, n)
    BY <1>2, <1>4, <1>6 DEF Branching, Allowed
  <2>2. PICK i \in 1..(n - 1) : old.bind.event = j.run.events[i].id
    BY <2>1 DEF IdsBefore
  <2>3. i \in DOMAIN j.events /\ j.events[i].id = old.bind.event
    <3>1. i \in 1..Len(j.events) /\ i \in DOMAIN j.events
      BY <1>0, <1>1, <2>2
    <3> QED BY <2>2, <3>1, FollowsIds
  <2> DEFINE k == CHOOSE x \in DOMAIN j.events : j.events[x].id = old.bind.event
             w == At(j.events[k].output, old.bind.path)
  <2>4. k \in DOMAIN j.events /\ j.events[k].id = old.bind.event
    BY <2>3
  <2>5. j.events[k] \in Events
    BY <1>0, <2>4, ElementIs
  <2>6. BoundInput(old, j.run, j.events) = Inserted(old.input, old.bind.target, w) /\ w # {}
    BY <1>6 DEF BoundInput, Taken, Ready, Bindable
  <2>7. k \in 1..Len(j.events)
    BY <1>0, <2>4
  <2> HIDE DEF k
  <2>8. /\ j.events[k].output \in Payloads /\ old.input \in Payloads
        /\ old.bind.path \in Seq(Fields) /\ old.bind.target \in Fields
    BY <1>2, <2>1, <2>5 DEF Events, Bindings
  <2>9. w \in Payloads
    BY <2>8, AtType
  <2> HIDE DEF w
  <2>10. Inserted(old.input, old.bind.target, w) \in Payloads
    BY <2>8, <2>9, InsertedIs
  <2> QED BY <1>1, <1>2, <1>6, <2>4, <2>6, <2>7, <2>10 DEF w
<1> QED BY <1>5, <1>6

LEMMA PreparedIs ==
  ASSUME NEW j, Branching(j), Ready(j)
  PROVE  /\ Prepare(j) \in Events /\ Prepare(j).id = Coming(j).id
         /\ Prepare(j).parent = Coming(j).parent /\ Prepare(j).run = j.id
         /\ Prepare(j).kind = Coming(j).kind /\ Prepare(j).bind = Coming(j).bind
         /\ Prepare(j).input = BoundInput(Coming(j), j.run, j.events)
         /\ Prepare(j).output = Coming(j).output /\ Prepare(j).cost = None
         /\ Coming(j).kind = "generation" => Prepare(j).model = Model
<1> DEFINE old == Coming(j)
           b == BoundInput(old, j.run, j.events)
           model == IF old.kind = "generation" THEN Model ELSE old.model
<1>1. old \in Events /\ b \in Payloads /\ j.id \in RunIds
  BY BoundIs, RerunConstants DEF Branching, Branchings
<1>2. Prepare(j) = [old EXCEPT !.run = j.id, !.input = b, !.model = model,
                      !.tokens = None, !.cost = None]
  BY DEF Prepare, Prepared
<1> HIDE DEF b, old
<1>3. model \in Models \union {None} /\ (old.kind = "generation" => model = Model)
  BY <1>1, RerunConstants DEF Events
<1> HIDE DEF model
<1>4. /\ Prepare(j) \in Events /\ Prepare(j).id = old.id /\ Prepare(j).parent = old.parent
      /\ Prepare(j).run = j.id /\ Prepare(j).kind = old.kind /\ Prepare(j).bind = old.bind
      /\ Prepare(j).input = b /\ Prepare(j).output = old.output /\ Prepare(j).cost = None
      /\ Prepare(j).model = model
  BY <1>1, <1>2, <1>3 DEF Events
<1> QED BY <1>3, <1>4 DEF old, b

\* The branch goes on by that event.
LEMMA BranchGoesOn ==
  ASSUME NEW j, Branching(j), Ready(j), NEW e, Executed(j, e)
  PROVE  LET x == [j EXCEPT !.pc = "rerun", !.events = Append(@, e)]
         IN  /\ JobOK(x) /\ x.run = j.run /\ x.options = j.options /\ x.id = j.id
             /\ x.pc = "rerun"
<1> DEFINE l == Len(j.events)
           new == Append(j.events, e)
           x == [j EXCEPT !.pc = "rerun", !.events = new]
<1>0. j \in Branchings /\ j.events \in Seq(Events) /\ l \in Nat /\ e \in Events
  BY DEF Branching, Branchings, Executed
<1>1. /\ new \in Seq(Events) /\ Len(new) = l + 1 /\ new[l + 1] = e
      /\ \A i \in 1..l : new[i] = j.events[i]
  BY <1>0
<1> HIDE DEF new
<1>2. /\ x \in Branchings /\ x.run = j.run /\ x.options = j.options /\ x.id = j.id
      /\ x.events = new /\ x.pc = "rerun"
  BY <1>0, <1>1 DEF Branchings
<1> HIDE DEF x
<1>3. Coming(j) = j.run.events[l + 1] /\ l + 1 \in 1..Len(j.run.events)
  BY BoundIs
<1>4. IndexOf(j.run, j.options.from) \in Nat /\ IndexOf(j.run, j.options.from) <= l + 1
  <2>1. j.run.events \in Seq(Events)
    BY <1>0 DEF Branchings, Runs
  <2> QED BY <2>1, IndexIs DEF Branching
<1> HIDE DEF l
<1>5. ASSUME NEW i \in 1..Len(new) PROVE Follows(x, i)
  <2>1. CASE i \in 1..l
    <3>1. Follows(j, i)
      BY <2>1 DEF Branching, l
    <3>2. /\ x.events[i] = j.events[i]
          /\ \A k \in 1..(i - 1) : x.events[k] = j.events[k]
      BY <1>0, <1>1, <1>2, <2>1
    <3> QED BY <1>2, <3>1, <3>2 DEF Follows
  <2>2. CASE i = l + 1
    <3>1. x.events[i] = e /\ \A k \in 1..l : x.events[k] = j.events[k]
      BY <1>0, <1>1, <1>2, <2>2
    <3>2. i - 1 = l
      BY <1>0, <2>2
    <3>3. /\ e.bind = None => e.input = Coming(j).input
          /\ e.bind # None => \E k \in 1..l : BoundTo(e, Coming(j), x.events[k])
      BY <3>1, BoundIs DEF Executed, BoundTo, l
    <3>4. ~(i < IndexOf(x.run, x.options.from))
      BY <1>0, <1>2, <1>4, <2>2
    <3>5. x.run.events[i] = Coming(j)
      BY <1>2, <1>3, <2>2
    <3> QED BY <1>2, <3>1, <3>2, <3>3, <3>4, <3>5 DEF Follows, Executed
  <2> QED BY <1>0, <1>1, <2>1, <2>2
<1>6. IndexOf(x.run, x.options.from) <= Len(x.events) + 1 /\ Len(x.events) <= Len(x.run.events)
  BY <1>0, <1>1, <1>2, <1>3, <1>4
<1>7. /\ Normal(x.run) /\ Allowed(x.run, x.options)
      /\ x.options.from \in {x.run.events[i].id : i \in DOMAIN x.run.events}
  BY <1>2 DEF Branching
<1>8. Branching(x)
  BY <1>2, <1>5, <1>6, <1>7 DEF Branching
<1>9. JobOK(x)
  BY <1>2, <1>8 DEF JobOK
<1> QED BY <1>2, <1>9 DEF x, new

\* A branch that came to its end.
LEMMA CompletedIs ==
  ASSUME NEW j, Branching(j), ~More(j), NEW wall \in 0..1
  PROVE  LET run == Normalized(Completed(j.run, j.id, j.options.from, j.events, wall))
         IN  /\ Normal(run) /\ run.id = j.id
             /\ Len(run.events) = Len(j.events) /\ Len(j.events) = Len(j.run.events)
             /\ \A i \in 1..Len(j.events) : run.events[i] = MaskedEvent(j.events[i])
<1> DEFINE f == Fork(j.run, j.options.from, j.id)
           c == [f EXCEPT !.events = j.events, !.status = "completed", !.wall = wall]
<1>0. /\ j.run \in Runs /\ j.run.events \in Seq(Events) /\ j.events \in Seq(Events)
      /\ j.id \in RunIds /\ Valid(j.run)
      /\ j.options.from \in {j.run.events[i].id : i \in DOMAIN j.run.events}
  BY RerunConstants DEF Branching, Branchings, Runs, Normal
<1>1. f \in Runs /\ f.id = j.id
  BY <1>0, ForkIs
<1>2. wall \in Int /\ wall >= 0 /\ wall # None
  BY ExecutionConstants
<1>3. Completed(j.run, j.id, j.options.from, j.events, wall) = Redacted(c)
  BY DEF Completed
<1> HIDE DEF f
<1>4. /\ c \in Runs /\ c.id = j.id /\ c.events = j.events /\ c.wall = wall /\ c.status = "completed"
  BY <1>0, <1>1, <1>2 DEF Runs
<1> HIDE DEF c
<1>5. Len(j.events) = Len(j.run.events)
  BY <1>0 DEF More, Branching
<1>6. ASSUME NEW i \in DOMAIN c.events
      PROVE  /\ c.events[i].run = c.id
             /\ c.events[i].parent # None => c.events[i].parent \in IdsBefore(c, i)
             /\ c.events[i].id \notin IdsBefore(c, i)
  <2>0. i \in 1..Len(j.events) /\ i \in DOMAIN j.run.events
    BY <1>0, <1>4, <1>5
  <2>1. \A k \in 1..i : c.events[k].id = j.run.events[k].id
    <3> TAKE k \in 1..i
    <3>1. k \in 1..Len(j.events)
      BY <1>0, <2>0
    <3> QED BY <1>4, <3>1, FollowsIds
  <2>2. IdsBefore(c, i) = IdsBefore(j.run, i)
    BY <2>0, <2>1 DEF IdsBefore
  <2>3. /\ c.events[i].run = j.id /\ c.events[i].parent = j.run.events[i].parent
        /\ c.events[i].id = j.run.events[i].id
    BY <1>4, <2>0, FollowsIds
  <2> QED BY <1>0, <1>4, <2>0, <2>2, <2>3 DEF Valid
<1>7. Valid(c)
  BY <1>2, <1>4, <1>6 DEF Valid
<1>8. Normal(Redacted(c)) /\ Redacted(c).id = j.id
  BY <1>4, <1>7, RedactedNormal
<1>9. /\ Len(Redacted(c).events) = Len(j.events)
      /\ \A i \in 1..Len(j.events) : Redacted(c).events[i] = MaskedEvent(j.events[i])
  <2>1. DOMAIN c.events = 1..Len(j.events)
    BY <1>0, <1>4
  <2>2. /\ Len(Redacted(c).events) = Len(c.events)
        /\ \A i \in DOMAIN c.events : Redacted(c).events[i] = MaskedEvent(c.events[i])
    BY <1>4, RedactedIs
  <2> QED BY <1>4, <2>1, <2>2
<1> QED BY <1>3, <1>5, <1>8, <1>9 DEF Normalized, Normal

LEMMA MaxOfTwo ==
  ASSUME NEW a \in Int, NEW b \in Int
  PROVE  Max({a, b}) \in Int /\ Max({a, b}) >= a /\ Max({a, b}) >= b
<1>1. \E x \in {a, b} : \A y \in {a, b} : x >= y
  OBVIOUS
<1> QED BY <1>1 DEF Max

\* A comparison that passed was complete.
LEMMA PassedIsComplete ==
  ASSUME NEW left \in Runs, NEW right \in Runs, NEW asked, NEW grades,
         Passed(left, right, asked.limits,
                IF asked.grader THEN {p \in DOMAIN grades : grades[p] = "equivalent"}
                ELSE OfflineGrades),
         NEW c, c.left = left, c.right = right, c.grades = grades
  PROVE  Complete(c, asked)
<1> DEFINE equivalent == IF asked.grader THEN {p \in DOMAIN grades : grades[p] = "equivalent"}
                         ELSE OfflineGrades
           l == Len(left.events)
           n == Len(right.events)
<1>0. /\ left.events \in Seq(Events) /\ right.events \in Seq(Events)
      /\ l \in Nat /\ n \in Nat /\ DOMAIN left.events = 1..l /\ DOMAIN right.events = 1..n
  BY DEF Runs
<1>1. \A i \in Longest(left, right) : Category(left, right, i, equivalent) = "equivalent"
  BY DEF Passed
<1> DEFINE top == Max({l, n})
<1>l. Longest(left, right) = 1..top
  BY DEF Longest
<1>t. top \in Int /\ top >= l /\ top >= n
  <2> HIDE DEF l, n
  <2>1. l \in Int /\ n \in Int
    BY <1>0
  <2>2. Max({l, n}) \in Int /\ Max({l, n}) >= l /\ Max({l, n}) >= n
    BY Zenon, <2>1, MaxOfTwo
  <2> QED BY <2>2
<1> HIDE DEF top
<1>2. Longest(left, right) = 1..top /\ top \in Int /\ top >= l /\ top >= n
  BY <1>l, <1>t
<1> HIDE DEF equivalent
<1>3. \A i \in Longest(left, right) :
        /\ i \in Shared(left, right) /\ SameShape(left, right, i)
        /\ LET pair == <<left.events[i].output, right.events[i].output>>
           IN  pair[1] = pair[2] \/ pair \in equivalent
  <2> TAKE i \in Longest(left, right)
  <2>1. i \in Shared(left, right)
    BY <1>1 DEF Category
  <2>2. SameShape(left, right, i)
    BY <1>1, <2>1 DEF Category
  <2>3. LET pair == <<left.events[i].output, right.events[i].output>>
        IN  pair[1] = pair[2] \/ pair \in equivalent
    BY <1>1, <2>1, <2>2 DEF Category
  <2> QED BY <2>1, <2>2, <2>3
<1>4. l = n
  <2> HIDE DEF l, n
  <2>1. \A i \in 1..top : i \in 1..l /\ i \in 1..n
    BY <1>0, <1>2, <1>3 DEF Shared
  <2>2. CASE top >= 1
    <3>1. top \in 1..l /\ top \in 1..n
      BY <1>2, <2>1, <2>2
    <3> QED BY <1>0, <1>2, <3>1
  <2>3. CASE top < 1
    BY <1>0, <1>2, <2>3
  <2> QED BY <1>2, <2>2, <2>3
<1>5. ASSUME NEW i \in DOMAIN left.events
      PROVE  LET pair == <<left.events[i].output, right.events[i].output>>
             IN  /\ SameShape(left, right, i)
                 /\ pair[1] # pair[2] =>
                      IF asked.grader THEN pair \in DOMAIN grades /\ grades[pair] = "equivalent"
                      ELSE pair \in Alike
  <2>1. i \in Longest(left, right)
    BY <1>0, <1>2
  <2> QED BY <1>3, <2>1 DEF equivalent, OfflineGrades
<1>6. ASSUME NEW m \in DOMAIN asked.limits
      PROVE  /\ Measure(left)[m] # None /\ Measure(right)[m] # None
             /\ Measure(right)[m] * 100 <= Measure(left)[m] * (100 + asked.limits[m])
  <2>1. Within(Measure(left)[m], Measure(right)[m], asked.limits[m])
    BY DEF Passed, Overspent
  <2> QED BY <2>1 DEF Within
<1> QED BY <1>4, <1>5, <1>6 DEF Complete

\* The case of a report joins the others.
LEMMA ReportCompared ==
  ASSUME NEW r \in Requests, Report(r), JobOK(job[r])
  PROVE  \E x : JobOK(x) /\ Become(r, x)
<1> DEFINE j == job[r]
           equivalent == IF j.asked.grader THEN PreparedGrades(j) ELSE OfflineGrades
           passed == Passed(j.left, j.right, j.asked.limits, equivalent)
           c == [left |-> j.left, right |-> j.right, grades |-> j.grades, passed |-> passed]
           new == Append(j.cases, c)
           x == [pc |-> "load", asked |-> j.asked, cases |-> new]
<1>0. Compared(j) /\ j.left \in Runs /\ j.right \in Runs /\ Become(r, x)
  BY DEF Report, JobOK, Grading
<1> HIDE DEF j
<1>1. passed => Complete(c, j.asked)
  BY <1>0, PassedIsComplete DEF PreparedGrades
<1>2. c.passed = passed
  OBVIOUS
<1> HIDE DEF c, passed
<1>3. PICK S : j.cases \in Seq(S)
  BY <1>0 DEF Compared
<1> DEFINE T == S \union {c}
<1>4. j.cases \in Seq(T) /\ c \in T
  BY <1>3
<1>5. /\ new \in Seq(T) /\ Len(new) = Len(j.cases) + 1 /\ new[Len(j.cases) + 1] = c
      /\ \A n \in 1..Len(j.cases) : new[n] = j.cases[n]
      /\ Len(j.cases) \in Nat
  <2> HIDE DEF T
  <2> QED BY <1>4
<1>6. \A n \in DOMAIN new : new[n].passed => Complete(new[n], j.asked)
  <2> TAKE n \in DOMAIN new
  <2>1. CASE n \in 1..Len(j.cases)
    <3>1. n \in DOMAIN j.cases
      BY <1>3, <2>1
    <3> QED BY <1>0, <1>5, <2>1, <3>1 DEF Compared
  <2>2. CASE n = Len(j.cases) + 1
    BY <1>1, <1>2, <1>5, <2>2
  <2> QED BY <1>5, <2>1, <2>2
<1> HIDE DEF new
<1>7. JobOK(x)
  BY <1>5, <1>6 DEF JobOK, Compared
<1> QED BY <1>0, <1>7

-----------------------------------------------------------------------------
\* Branches.

\* In a valid run an id is that of one event.
LEMMA IndexIsUnique ==
  ASSUME NEW run \in Runs, Valid(run), NEW k \in 1..Len(run.events)
  PROVE  IndexOf(run, run.events[k].id) = k
<1>0. DOMAIN run.events = 1..Len(run.events) /\ Len(run.events) \in Nat
  BY DEF Runs
<1> DEFINE x == IndexOf(run, run.events[k].id)
<1>1. x \in 1..Len(run.events) /\ run.events[x].id = run.events[k].id
  BY <1>0, IndexIs
<1> HIDE DEF x
<1>2. ASSUME x < k PROVE FALSE
  <2>1. x \in 1..(k - 1)
    BY <1>1, <1>2
  <2>2. run.events[k].id \in IdsBefore(run, k)
    BY <1>1, <2>1 DEF IdsBefore
  <2> QED BY <1>0, <2>2 DEF Valid
<1>3. ASSUME k < x PROVE FALSE
  <2>1. k \in 1..(x - 1)
    BY <1>1, <1>3
  <2>2. run.events[x].id \in IdsBefore(run, x)
    BY <1>1, <2>1 DEF IdsBefore
  <2> QED BY <1>0, <1>1, <2>2 DEF Valid
<1> QED BY <1>0, <1>1, <1>2, <1>3 DEF x

\* Runs that agree before n, but for the run the events name, differ from n on.
LEMMA PrefixSame ==
  ASSUME NEW run \in Runs, NEW new \in Runs, Valid(run), Valid(new), NEW id,
         NEW n \in Nat, n <= Len(run.events) + 1, n <= Len(new.events) + 1,
         \A i \in 1..(n - 1) : new.events[i] = [run.events[i] EXCEPT !.run = id]
  PROVE  \A i \in Differences(run, new) : i >= n
<1> SUFFICES ASSUME NEW i \in Differences(run, new), i < n PROVE FALSE
  <2>1. Differences(run, new) \subseteq Int
    <3>1. Len(run.events) \in Int /\ Len(new.events) \in Int
      BY DEF Runs
    <3>2. Max({Len(run.events), Len(new.events)}) \in Int
      BY <3>1, MaxOfTwo
    <3> QED BY <3>2 DEF Differences, Longest
  <2> QED BY <2>1
<1>0. /\ run.events \in Seq(Events) /\ new.events \in Seq(Events)
      /\ DOMAIN run.events = 1..Len(run.events) /\ DOMAIN new.events = 1..Len(new.events)
      /\ Len(run.events) \in Nat /\ Len(new.events) \in Nat
  BY DEF Runs
<1>1. i \in 1..(n - 1)
  <2>1. Len(run.events) \in Int /\ Len(new.events) \in Int
    BY <1>0
  <2>2. Max({Len(run.events), Len(new.events)}) \in Int
    BY <2>1, MaxOfTwo
  <2> QED BY <2>2 DEF Differences, Longest
<1>2. i \in 1..Len(run.events) /\ i \in 1..Len(new.events)
  BY <1>0, <1>1
<1>3. Semantic(run.events[i], run) # Semantic(new.events[i], new)
  BY <1>0, <1>2 DEF Differences, Shared
<1> DEFINE old == run.events[i]  e == new.events[i]
<1>4. e = [old EXCEPT !.run = id] /\ old \in Events /\ e \in Events
  BY <1>0, <1>1, <1>2, ElementIs
<1>5. e.parent = old.parent
  BY <1>4 DEF Events
<1>6. old.parent # None => IndexOf(new, e.parent) = IndexOf(run, old.parent)
  <2> SUFFICES ASSUME old.parent # None PROVE IndexOf(new, e.parent) = IndexOf(run, old.parent)
    OBVIOUS
  <2>1. old.parent \in IdsBefore(run, i)
    BY <1>0, <1>2 DEF Valid
  <2>2. PICK k \in 1..(i - 1) : old.parent = run.events[k].id
    BY <2>1 DEF IdsBefore
  <2>3. k \in 1..(n - 1) /\ k \in 1..Len(run.events) /\ k \in 1..Len(new.events)
    BY <1>0, <1>1, <1>2
  <2>4. new.events[k].id = run.events[k].id
    <3>1. run.events[k] \in Events /\ new.events[k] = [run.events[k] EXCEPT !.run = id]
      BY <1>0, <2>3, ElementIs
    <3> QED BY <3>1 DEF Events
  <2>5. IndexOf(run, run.events[k].id) = k /\ IndexOf(new, new.events[k].id) = k
    BY <2>3, IndexIsUnique
  <2> QED BY <1>5, <2>2, <2>4, <2>5
<1> HIDE DEF old, e
<1> DEFINE place == IF old.parent = None THEN 0 ELSE IndexOf(run, old.parent)
<1>7. place = IF e.parent = None THEN 0 ELSE IndexOf(new, e.parent)
  BY <1>5, <1>6
<1>8. /\ Semantic(old, run) = [old EXCEPT !.id = None, !.run = None, !.parent = place]
      /\ Semantic(e, new) = [e EXCEPT !.id = None, !.run = None, !.parent = place]
  BY <1>7 DEF Semantic
<1> HIDE DEF place
<1>9. Semantic(old, run) = Semantic(e, new)
  BY <1>4, <1>8 DEF Events
<1> QED BY <1>3, <1>9 DEF old, e

\* What BranchesFaithful says of one bound input, and of one branch.
AsBound(input, old, bind, s) ==
  /\ bind.target \notin Sensitive
  /\ Outside(input, bind.target) = Outside(old, bind.target)
  /\ Harmless(bind.path) => At(input, <<bind.target>>) = Taken(bind, s)

Faithful(o, stored) ==
  LET run == o.run
      s == stored.events
      fork == IndexOf(run, o.from)
  IN  /\ \A i \in Differences(run, stored) : i >= fork
      /\ Len(s) = IF o.rerun THEN Len(run.events) ELSE fork - 1
      /\ \A i \in fork..Len(s) :
           LET old == run.events[i]  bind == run.events[i].bind
           IN  /\ s[i].id = old.id /\ s[i].kind = old.kind /\ s[i].bind = bind
               /\ IF s[i].kind = "generation" THEN s[i].model = Model /\ s[i].cost = None
                  ELSE s[i].output = old.output
               /\ bind = None => s[i].input = old.input
               /\ bind # None => AsBound(s[i].input, old.input, bind, s)

LEMMA ForkFaithful ==
  ASSUME NEW run, Normal(run), NEW id \in RunIds,
         NEW from \in {run.events[i].id : i \in DOMAIN run.events}
  PROVE  Faithful([run |-> run, from |-> from, rerun |-> FALSE], Fork(run, from, id))
<1> DEFINE f == Fork(run, from, id)
           n == IndexOf(run, from)
           o == [run |-> run, from |-> from, rerun |-> FALSE]
<1>0. run \in Runs /\ Valid(run) /\ run.events \in Seq(Events)
  BY DEF Normal, Runs
<1>1. n \in 1..Len(run.events)
  BY <1>0, IndexIs
<1>2. /\ f \in Runs /\ Valid(f) /\ Len(f.events) = n - 1
      /\ \A i \in 1..(n - 1) : f.events[i] = [run.events[i] EXCEPT !.run = id]
  BY <1>0, ForkIs
<1>3. o.run = run /\ o.from = from /\ o.rerun = FALSE
  OBVIOUS
<1> HIDE DEF f, o
<1>4. \A i \in Differences(run, f) : i >= n
  <2> HIDE DEF n
  <2>1. n \in Nat /\ n <= Len(run.events) + 1 /\ n <= Len(f.events) + 1
    BY <1>0, <1>1, <1>2
  <2> QED BY <1>0, <1>2, <2>1, PrefixSame
<1>5. n..Len(f.events) = {}
  BY <1>1, <1>2
<1>6. Faithful(o, f)
  BY <1>2, <1>3, <1>4, <1>5 DEF Faithful
<1> QED BY <1>6 DEF o, f

\* The branch a rerun stores.
LEMMA RerunFaithful ==
  ASSUME NEW j, Branching(j), ~More(j), NEW wall \in 0..1,
         NEW o, o.run = j.run, o.from = j.options.from, o.rerun
  PROVE  Faithful(o, Normalized(Completed(j.run, j.id, j.options.from, j.events, wall)))
<1> DEFINE stored == Normalized(Completed(j.run, j.id, j.options.from, j.events, wall))
           s == stored.events
           run == j.run
           fork == IndexOf(j.run, j.options.from)
<1>0. /\ run \in Runs /\ Valid(run) /\ run.events \in Seq(Events) /\ j.events \in Seq(Events)
      /\ Redacted(run) = run /\ fork \in 1..Len(run.events)
  BY IndexIs DEF Branching, Branchings, Normal, Runs
<1>c. /\ Normal(stored) /\ Len(s) = Len(j.events) /\ Len(j.events) = Len(run.events)
      /\ \A i \in 1..Len(j.events) : s[i] = MaskedEvent(j.events[i])
  BY CompletedIs
<1>2. stored \in Runs /\ Valid(stored)
  BY <1>c DEF Normal
<1>b. \A i \in 1..Len(j.events) : Follows(j, i)
  BY DEF Branching
<1>s. s = stored.events
  OBVIOUS
<1>o. o.run = run /\ IndexOf(o.run, o.from) = fork
  OBVIOUS
<1>f. \A i : i < fork => (Follows(j, i) => j.events[i] = [run.events[i] EXCEPT !.run = j.id])
  BY DEF Follows
<1>g. \A i : i >= fork /\ Follows(j, i) =>
        /\ j.events[i].id = run.events[i].id /\ j.events[i].kind = run.events[i].kind
        /\ IF j.events[i].kind = "generation"
           THEN j.events[i].model = Model /\ j.events[i].cost = None
           ELSE j.events[i].output = run.events[i].output
        /\ j.events[i].bind = run.events[i].bind
        /\ j.events[i].bind = None => j.events[i].input = run.events[i].input
        /\ j.events[i].bind # None =>
             \E k \in 1..(i - 1) : BoundTo(j.events[i], run.events[i], j.events[k])
  BY DEF Follows
<1>a. \A i \in fork..Len(run.events) : run.events[i].bind # None => run.events[i].bind \in Bindings
  BY DEF Branching, Allowed, Suffix
<1> HIDE DEF stored, s, run, fork
<1>1. /\ Len(s) = Len(run.events) /\ Len(j.events) = Len(run.events) /\ Len(s) \in Nat
      /\ \A i \in 1..Len(s) : s[i] = MaskedEvent(j.events[i])
  BY <1>0, <1>c
<1>3. \A i \in 1..Len(s) : Follows(j, i) /\ j.events[i] \in Events /\ run.events[i] \in Events
  BY <1>0, <1>1, <1>b, ElementIs
<1>4. \A i \in 1..Len(s) : /\ s[i].id = j.events[i].id /\ s[i].kind = j.events[i].kind
                           /\ s[i].model = j.events[i].model /\ s[i].cost = j.events[i].cost
                           /\ s[i].bind = MaskedBind(j.events[i].bind)
                           /\ s[i].input = Masked(j.events[i].input)
                           /\ s[i].output = Masked(j.events[i].output)
  BY <1>1, <1>3, MaskedEventIs
<1>5. \A i \in 1..Len(s) : Clean(run.events[i])
  <2> TAKE i \in 1..Len(s)
  <2>1. i \in DOMAIN run.events
    BY <1>0, <1>1
  <2>2. run.events[i] = MaskedEvent(run.events[i])
    BY <1>0, <2>1, RedactedIs
  <2> QED BY <1>3, <2>2, MaskedEventSame
<1>6. \A i \in 1..(fork - 1) : s[i] = [run.events[i] EXCEPT !.run = j.id]
  <2> TAKE i \in 1..(fork - 1)
  <2>1. i \in 1..Len(s) /\ i < fork
    BY <1>0, <1>1
  <2>2. j.events[i] = [run.events[i] EXCEPT !.run = j.id]
    BY <1>3, <1>f, <2>1
  <2>3. run.events[i] \in Events
    BY <1>3, <2>1
  <2>4. Clean(j.events[i])
    BY <1>5, <2>1, <2>2, <2>3 DEF Events, Clean
  <2>5. s[i] = MaskedEvent(j.events[i]) /\ j.events[i] \in Events
    BY <1>1, <1>3, <2>1
  <2>6. s[i] = j.events[i]
    BY <2>4, <2>5, MaskedEventSame
  <2> QED BY <2>2, <2>6
<1>7. \A i \in Differences(run, stored) : i >= fork
  <2>1. fork \in Nat /\ fork <= Len(run.events) + 1 /\ fork <= Len(stored.events) + 1
    BY <1>0, <1>1, <1>s
  <2>2. \A i \in 1..(fork - 1) : stored.events[i] = [run.events[i] EXCEPT !.run = j.id]
    BY <1>6, <1>s
  <2> QED BY <1>0, <1>2, <2>1, <2>2, PrefixSame
<1>8. ASSUME NEW i \in fork..Len(s)
      PROVE  LET old == run.events[i]  bind == run.events[i].bind
             IN  /\ s[i].id = old.id /\ s[i].kind = old.kind /\ s[i].bind = bind
                 /\ IF s[i].kind = "generation" THEN s[i].model = Model /\ s[i].cost = None
                    ELSE s[i].output = old.output
                 /\ bind = None => s[i].input = old.input
                 /\ bind # None => AsBound(s[i].input, old.input, bind, s)
  <2> DEFINE old == run.events[i]
             bind == run.events[i].bind
  <2>1. i \in 1..Len(s) /\ i >= fork /\ i \in Nat
    BY <1>0, <1>1
  <2>2. /\ j.events[i].id = old.id /\ j.events[i].kind = old.kind
        /\ IF j.events[i].kind = "generation"
           THEN j.events[i].model = Model /\ j.events[i].cost = None
           ELSE j.events[i].output = old.output
        /\ j.events[i].bind = bind
        /\ bind = None => j.events[i].input = old.input
        /\ bind # None => \E k \in 1..(i - 1) : BoundTo(j.events[i], old, j.events[k])
    BY <1>3, <1>g, <2>1
  <2>3. ASSUME bind # None PROVE AsBound(s[i].input, old.input, bind, s)
    <3>1. PICK k \in 1..(i - 1) : BoundTo(j.events[i], old, j.events[k])
      BY <2>2, <2>3
    <3>2. k \in 1..Len(s) /\ k \in 1..Len(stored.events)
      BY <1>1, <1>s, <2>1
    <3>3. IndexOf(stored, s[k].id) = k
      BY <1>2, <1>s, <3>2, IndexIsUnique
    <3> DEFINE v == old.input
               o1 == j.events[k].output
               w == At(o1, bind.path)
    <3>4. /\ s[k].id = bind.event /\ w # {} /\ s[k].output = Masked(o1)
          /\ s[i].input = Masked(Inserted(v, bind.target, w))
      BY <1>4, <2>1, <2>2, <3>1, <3>2 DEF BoundTo
    <3>b. bind \in Bindings /\ bind.target \notin Sensitive
      <4>1. i \in fork..Len(run.events)
        BY <1>1
      <4>2. bind \in Bindings
        BY <1>a, <2>3, <4>1
      <4>3. MaskedBind(bind) = bind
        BY <1>5, <2>1 DEF Clean
      <4> HIDE DEF bind
      <4> QED BY <4>2, <4>3, MaskedBindIs
    <3>5. /\ v \in Payloads /\ o1 \in Payloads /\ Masked(v) = v
          /\ bind.path \in Seq(Fields) /\ bind.target \in Fields
      BY <1>3, <1>5, <2>1, <3>b, <3>2 DEF Events, Bindings, Clean
    <3>6. Taken(bind, s) = At(Masked(o1), bind.path)
      <4>1. IndexOf(stored, bind.event) = k
        BY <3>3, <3>4
      <4>2. (CHOOSE x \in DOMAIN s : s[x].id = bind.event) = k
        BY <1>s, <4>1 DEF IndexOf
      <4> HIDE DEF bind
      <4> QED BY <3>4, <4>2 DEF Taken
    <3> HIDE DEF v, o1, bind
    <3>7. w \in Payloads
      BY <3>5, AtType
    <3>8. Harmless(bind.path) => Masked(w) = Taken(bind, s)
      BY <3>5, <3>6, AtMasked
    <3> HIDE DEF w
    <3>9. /\ Outside(s[i].input, bind.target) = Outside(v, bind.target)
          /\ bind.target \notin Sensitive => At(s[i].input, <<bind.target>>) = Masked(w)
      BY <3>4, <3>5, <3>7, InsertedIs
    <3> QED BY <3>8, <3>9, <3>b DEF AsBound, v
  <2> QED BY <1>4, <1>5, <2>1, <2>2, <2>3 DEF Clean
<1>9. Faithful(o, stored)
  BY <1>1, <1>7, <1>8, <1>o, <1>s DEF Faithful
<1> QED BY <1>9 DEF stored

-----------------------------------------------------------------------------
\* The inductive invariant.

IInv == StoreOK /\ Jobs

LEMMA WithStored ==
  ASSUME StoreOK, NEW id, NEW run, Normal(run), run.id = id, store' = With(store, id, run)
  PROVE  StoreOK'
<1>1. DOMAIN store' = DOMAIN store \union {id}
  BY DEF With
<1>2. store'[id] = run /\ \A x \in DOMAIN store \ {id} : store'[x] = store[x]
  BY DEF With
<1> QED BY <1>1, <1>2 DEF StoreOK

LEMMA StoreKept == ASSUME StoreOK, store' = store PROVE StoreOK'
  BY DEF StoreOK

LEMMA JobsKept == ASSUME Jobs, job' = job PROVE Jobs'
  BY DEF Jobs

\* Steps that store a run or drop one.
LEMMA StoreSteps ==
  ASSUME IInv, Create \/ Retain \/ ForkRun PROVE IInv'
<1>0. StoreOK /\ Jobs
  BY DEF IInv
<1>1. CASE Create
  <2>1. PICK run \in Inputs : Valid(run) /\ store' = With(store, run.id, Redacted(run))
    BY <1>1 DEF Create, Normalized
  <2>2. Normal(Redacted(run)) /\ Redacted(run).id = run.id
    BY <2>1, RedactedNormal, RerunConstants
  <2>3. StoreOK'
    BY <1>0, <2>1, <2>2, WithStored
  <2> QED BY <1>0, <1>1, <2>3, JobsKept DEF Create, IInv
<1>2. CASE Retain
  <2>1. PICK id \in DOMAIN store : store' = Without(store, id)
    BY <1>2 DEF Retain
  <2>2. DOMAIN store' = DOMAIN store \ {id} /\ \A x \in DOMAIN store \ {id} : store'[x] = store[x]
    BY <2>1 DEF Without
  <2>3. StoreOK'
    BY <1>0, <2>2 DEF StoreOK
  <2> QED BY <1>0, <1>2, <2>3, JobsKept DEF Retain, IInv
<1>3. CASE ForkRun
  <2>1. PICK id \in DOMAIN store, b \in {x \in BranchIds : Fresh(x)} :
          \E i \in DOMAIN store[id].events :
            /\ Valid(store[id])
            /\ store' = With(store, b, Fork(store[id], store[id].events[i].id, b))
    BY <1>3 DEF ForkRun, StoreBranch
  <2>2. PICK i \in DOMAIN store[id].events :
            /\ Valid(store[id])
            /\ store' = With(store, b, Fork(store[id], store[id].events[i].id, b))
    BY <2>1
  <2> DEFINE run == store[id]
             from == run.events[i].id
             f == Fork(run, from, b)
  <2>3. run \in Runs /\ Redacted(run) = run /\ b \in RunIds
        /\ from \in {run.events[k].id : k \in DOMAIN run.events}
    BY <1>0, RerunConstants DEF StoreOK, Normal
  <2> HIDE DEF run, from
  <2>4. f \in Runs /\ Valid(f) /\ f.id = b /\ Redacted(f) = f
    BY <2>2, <2>3, ForkIs DEF run
  <2>5. store' = With(store, b, f)
    BY <2>2 DEF run, from
  <2> HIDE DEF f
  <2>6. StoreOK'
    BY <1>0, <2>4, <2>5, WithStored DEF Normal
  <2> QED BY <1>0, <1>3, <2>6, JobsKept DEF ForkRun, IInv
<1> QED BY <1>1, <1>2, <1>3

\* A rerun starts only on a run of which all the rest is allowed.
LEMMA StartRerunOK ==
  ASSUME IInv, NEW r \in Requests, StartRerun(r)
  PROVE  \E x : JobOK(x) /\ Become(r, x)
<1>1. PICK id \in DOMAIN store, o \in RerunOptions, b \in {x \in BranchIds : Fresh(x)} :
        /\ Preflight(store[id], o) /\ Consented(store[id], o)
        /\ Become(r, [pc |-> "rerun", run |-> store[id], options |-> o, id |-> b,
                      events |-> Fork(store[id], o.from, b).events])
  BY DEF StartRerun
<1> DEFINE run == store[id]
           events == Fork(run, o.from, b).events
           x == [pc |-> "rerun", run |-> run, options |-> o, id |-> b, events |-> events]
<1>2. /\ run \in Runs /\ run.events \in Seq(Events) /\ Normal(run) /\ Valid(run) /\ b \in RunIds /\ b \in BranchIds
      /\ o.from \in {run.events[i].id : i \in DOMAIN run.events}
      /\ Authorized(run, o) /\ o.live /\ Consented(run, o)
  BY <1>1, RerunConstants DEF IInv, StoreOK, Normal, Preflight, Runs
<1>b. Become(r, x)
  BY <1>1
<1> HIDE DEF run
<1>3. /\ Fork(run, o.from, b) \in Runs
      /\ Len(events) = IndexOf(run, o.from) - 1
      /\ \A i \in 1..(IndexOf(run, o.from) - 1) : events[i] = [run.events[i] EXCEPT !.run = b]
  BY <1>2, ForkIs
<1>4. events \in Seq(Events) /\ IndexOf(run, o.from) \in 1..Len(run.events)
  BY <1>2, <1>3, IndexIs DEF Runs
<1> HIDE DEF events
<1>5. Allowed(run, o)
  <2> SUFFICES ASSUME NEW i \in Suffix(run, o.from)
               PROVE  LET e == run.events[i]
                      IN  /\ e.policy # "blocked"
                          /\ NeedsApproval(e) => e.id \in o.approved
                          /\ e.kind # "generation" => e.id \in o.reuse
                          /\ e.bind # None =>
                               e.bind \in Bindings /\ e.bind.event \in IdsBefore(run, i)
    BY <1>2 DEF Allowed
  <2>1. i \in DOMAIN run.events
    BY <1>2, <1>4 DEF Suffix
  <2>2. run.events[i].kind # "generation" => run.events[i].id \in o.reuse
    BY <1>2, <2>1 DEF Consented, Generations
  <2> QED BY <1>2, <2>2 DEF Authorized
<1>7. x \in Branchings /\ x.pc = "rerun" /\ x.run = run /\ x.options = o /\ x.id = b /\ x.events = events
  BY <1>2, <1>4 DEF Branchings
<1> HIDE DEF x
<1>8. ASSUME NEW i \in 1..Len(x.events) PROVE Follows(x, i)
  <2>1. i \in 1..(IndexOf(run, o.from) - 1) /\ i \in DOMAIN run.events
    BY <1>2, <1>3, <1>4, <1>7, <1>8
  <2>2. x.events[i] = [x.run.events[i] EXCEPT !.run = x.id] /\ x.run.events[i] \in Events
    BY <1>2, <1>3, <1>7, <2>1, ElementIs
  <2>3. i < IndexOf(x.run, x.options.from) /\ ~(i >= IndexOf(x.run, x.options.from))
    BY <1>4, <1>7, <2>1
  <2>4. /\ x.events[i].id = x.run.events[i].id /\ x.events[i].parent = x.run.events[i].parent
        /\ x.events[i].run = x.id
    BY <2>2 DEF Events
  <2> QED BY <2>2, <2>3, <2>4 DEF Follows
<1>9. Branching(x)
  BY <1>2, <1>3, <1>4, <1>5, <1>7, <1>8 DEF Branching
<1> QED BY <1>b, <1>7, <1>9 DEF JobOK

LEMMA BranchSteps ==
  ASSUME IInv, NEW r \in Requests, Reuse(r) \/ Call(r) \/ Return(r)
  PROVE  \E x : /\ JobOK(x) /\ Become(r, x) /\ Branching(job[r])
               /\ x.run = job[r].run /\ x.options = job[r].options /\ x.id = job[r].id
               /\ \/ x.pc = "calling" /\ Call(r)
                  \/ x.pc = "rerun" /\ (Reuse(r) \/ Return(r))
<1> DEFINE j == job[r]
<1>0. JobOK(j)
  BY DEF IInv, Jobs
<1>1. CASE Reuse(r)
  <2> DEFINE e == [Prepare(j) EXCEPT !.status = "completed", !.reused = TRUE]
  <2>1. j.pc = "rerun" /\ Ready(j) /\ Become(r, [j EXCEPT !.events = Append(@, e)])
    BY <1>1 DEF Reuse
  <2>k. Coming(j).kind # "generation"
    BY <1>1 DEF Reuse
  <2> HIDE DEF j
  <2>2. Branching(j) /\ j \in Branchings
    BY <1>0, <2>1 DEF JobOK, Branching
  <2>3. Prepare(j) \in Events
    BY <2>1, <2>2, PreparedIs
  <2>4. /\ e \in Events /\ e.id = Prepare(j).id /\ e.parent = Prepare(j).parent
        /\ e.run = Prepare(j).run /\ e.kind = Prepare(j).kind /\ e.bind = Prepare(j).bind
        /\ e.input = Prepare(j).input /\ e.output = Prepare(j).output
    BY <2>3 DEF Events
  <2> HIDE DEF e
  <2>e. Executed(j, e)
    BY <2>k, <2>1, <2>2, <2>4, PreparedIs DEF Executed
  <2> DEFINE x == [j EXCEPT !.pc = "rerun", !.events = Append(@, e)]
  <2>5. /\ JobOK(x) /\ x.run = j.run /\ x.options = j.options /\ x.id = j.id /\ x.pc = "rerun"
    BY <2>1, <2>2, <2>e, BranchGoesOn
  <2>6. x = [j EXCEPT !.events = Append(@, e)]
    BY <2>1, <2>2 DEF Branchings
  <2> HIDE DEF x
  <2> QED BY <1>1, <2>1, <2>2, <2>5, <2>6 DEF j
<1>2. CASE Call(r)
  <2> DEFINE x == [j EXCEPT !.pc = "calling"]
  <2>1. j.pc = "rerun" /\ Ready(j) /\ Coming(j).kind = "generation" /\ Become(r, x)
    BY <1>2 DEF Call
  <2> HIDE DEF j
  <2>2. Branching(j) /\ j \in Branchings
    BY <1>0, <2>1 DEF JobOK, Branching
  <2>3. /\ x \in Branchings /\ x.pc = "calling" /\ x.run = j.run /\ x.options = j.options
        /\ x.id = j.id /\ x.events = j.events
    BY <2>2 DEF Branchings
  <2> HIDE DEF x
  <2>4. ASSUME NEW i \in 1..Len(x.events) PROVE Follows(x, i)
    <3>1. Follows(j, i)
      BY <2>2, <2>3, <2>4 DEF Branching
    <3> QED BY <2>3, <3>1 DEF Follows
  <2>5. Branching(x)
    BY <2>2, <2>3, <2>4 DEF Branching
  <2>6. Ready(x) /\ Coming(x).kind = "generation"
    BY <2>1, <2>3 DEF Ready, More, Coming
  <2>7. JobOK(x)
    BY <2>3, <2>5, <2>6 DEF JobOK
  <2> QED BY <1>2, <2>1, <2>2, <2>3, <2>7 DEF j
<1>3. CASE Return(r)
  <2>1. PICK reply \in Replies :
          Become(r, [j EXCEPT !.pc = "rerun", !.events = Append(@,
            [Prepare(j) EXCEPT !.status = "completed", !.output = reply.output,
                               !.tokens = reply.tokens])])
    BY <1>3 DEF Return
  <2> DEFINE e == [Prepare(j) EXCEPT !.status = "completed", !.output = reply.output,
                                     !.tokens = reply.tokens]
  <2>2. j.pc = "calling"
    BY <1>3 DEF Return
  <2> HIDE DEF j
  <2>3. Branching(j)
    BY <1>0, <2>2 DEF JobOK
  <2>4. Ready(j) /\ Coming(j).kind = "generation"
    BY <1>0, <2>2 DEF JobOK
  <2>5. Prepare(j) \in Events /\ reply.output \in Payloads /\ reply.tokens \in Nat \union {None}
    BY <2>3, <2>4, PreparedIs, RerunConstants
  <2>6. /\ e \in Events /\ e.id = Prepare(j).id /\ e.parent = Prepare(j).parent
        /\ e.run = Prepare(j).run /\ e.kind = Prepare(j).kind /\ e.bind = Prepare(j).bind
        /\ e.input = Prepare(j).input /\ e.model = Prepare(j).model /\ e.cost = Prepare(j).cost
    BY <2>5 DEF Events
  <2> HIDE DEF e
  <2>e. Executed(j, e)
    BY <2>3, <2>4, <2>6, PreparedIs DEF Executed
  <2> DEFINE x == [j EXCEPT !.pc = "rerun", !.events = Append(@, e)]
  <2>7. /\ JobOK(x) /\ x.run = j.run /\ x.options = j.options /\ x.id = j.id /\ x.pc = "rerun"
    BY <2>3, <2>4, <2>e, BranchGoesOn
  <2>8. Become(r, x)
    BY <2>1 DEF e
  <2> HIDE DEF x
  <2> QED BY <1>3, <2>3, <2>7, <2>8 DEF j
<1> QED BY <1>1, <1>2, <1>3

LEMMA ComparisonSteps ==
  ASSUME IInv, NEW r \in Requests,
         StartComparison(r) \/ Load(r) \/ Ask(r) \/ Verdict(r) \/ Ungraded(r)
  PROVE  \E x : /\ JobOK(x) /\ Become(r, x)
               /\ \/ x.pc = "asking" /\ Ask(r)
                  \/ /\ x.pc \in {"load", "grading"}
                     /\ StartComparison(r) \/ Load(r) \/ Verdict(r) \/ Ungraded(r)
<1> DEFINE j == job[r]
<1>0. JobOK(j) /\ StoreOK
  BY DEF IInv, Jobs
<1>1. CASE StartComparison(r)
  <2>1. PICK c \in Comparisons : Become(r, [pc |-> "load", asked |-> c, cases |-> << >>])
    BY <1>1 DEF StartComparison
  <2> DEFINE x == [pc |-> "load", asked |-> c, cases |-> << >>]
  <2>2. x.cases \in Seq(Runs) /\ DOMAIN x.cases = {}
    OBVIOUS
  <2>3. JobOK(x) /\ x.pc = "load"
    BY <2>2 DEF JobOK, Compared
  <2> QED BY <1>1, <2>1, <2>3
<1>2. CASE Load(r)
  <2> DEFINE pair == j.asked.pairs[Len(j.cases) + 1]
             left == store[pair[1]]
             right == store[pair[2]]
             todo == IF j.asked.grader THEN ChangedOutputs(left, right) ELSE {}
             x == [pc |-> "grading", asked |-> j.asked, cases |-> j.cases,
                   left |-> left, right |-> right, todo |-> todo, grades |-> << >>]
  <2>1. /\ j.pc = "load" /\ pair[1] \in DOMAIN store /\ pair[2] \in DOMAIN store
        /\ Become(r, x)
    BY <1>2 DEF Load
  <2>2. left \in Runs /\ right \in Runs
    BY <1>0, <2>1 DEF StoreOK, Normal
  <2>3. Compared(j)
    BY <1>0, <2>1 DEF JobOK
  <2> HIDE DEF j, todo, left, right
  <2>4. /\ x.pc = "grading" /\ x.asked = j.asked /\ x.cases = j.cases /\ x.left = left
        /\ x.right = right
        /\ DOMAIN x = {"pc", "asked", "cases", "left", "right", "todo", "grades"}
    OBVIOUS
  <2>5. Become(r, x)
    BY <2>1 DEF todo, left, right, j
  <2> HIDE DEF x
  <2>6. Compared(x)
    BY <2>3, <2>4 DEF Compared
  <2>7. Grading(x)
    BY <2>2, <2>4 DEF Grading
  <2>8. JobOK(x)
    BY <2>4, <2>6, <2>7 DEF JobOK
  <2> QED BY <1>2, <2>4, <2>5, <2>8
<1>3. ASSUME j.pc \in {"grading", "asking"}, NEW x, Become(r, x),
             DOMAIN x = DOMAIN j, x.pc \in {"grading", "asking"}, x.asked = j.asked,
             x.cases = j.cases, x.left = j.left, x.right = j.right
      PROVE  JobOK(x)
  <2>1. Compared(j) /\ Grading(j)
    BY <1>0, <1>3 DEF JobOK
  <2> HIDE DEF j
  <2>2. Compared(x)
    BY <1>3, <2>1 DEF Compared
  <2>3. Grading(x)
    BY <1>3, <2>1 DEF Grading
  <2> QED BY <1>3, <2>2, <2>3 DEF JobOK
<1>4. CASE Ask(r)
  <2> DEFINE x == [j EXCEPT !.pc = "asking"]
  <2>1. j.pc = "grading" /\ Become(r, x)
    BY <1>4 DEF Ask
  <2>2. Grading(j)
    BY <1>0, <2>1 DEF JobOK
  <2> HIDE DEF j
  <2>3. /\ DOMAIN x = DOMAIN j /\ x.pc = "asking" /\ x.asked = j.asked
        /\ x.cases = j.cases /\ x.left = j.left /\ x.right = j.right
    BY <2>2 DEF Grading
  <2> HIDE DEF x
  <2>4. JobOK(x)
    BY <1>3, <2>1, <2>3
  <2> QED BY <1>4, <2>1, <2>3, <2>4
<1>5. ASSUME NEW pair, NEW grade, j.pc \in {"grading", "asking"}, Become(r, Graded(j, pair, grade))
      PROVE  \E x : JobOK(x) /\ Become(r, x) /\ x.pc = "grading"
  <2> DEFINE x == Graded(j, pair, grade)
  <2>1. Grading(j)
    BY <1>0, <1>5 DEF JobOK
  <2> HIDE DEF j
  <2>2. /\ DOMAIN x = DOMAIN j /\ x.pc = "grading" /\ x.asked = j.asked
        /\ x.cases = j.cases /\ x.left = j.left /\ x.right = j.right
    BY <2>1 DEF Grading, Graded
  <2>3. Become(r, x)
    BY <1>5
  <2> HIDE DEF x
  <2> QED BY <1>3, <1>5, <2>2, <2>3
<1>6. CASE Verdict(r)
  <2>1. PICK pair, grade : j.pc = "asking" /\ Become(r, Graded(j, pair, grade))
    BY <1>6 DEF Verdict
  <2>2. \E x : JobOK(x) /\ Become(r, x) /\ x.pc = "grading"
    BY <1>5, <2>1
  <2> QED BY <1>6, <2>2
<1>7. CASE Ungraded(r)
  <2>1. PICK pair, grade : j.pc = "grading" /\ Become(r, Graded(j, pair, grade))
    BY <1>7 DEF Ungraded
  <2>2. \E x : JobOK(x) /\ Become(r, x) /\ x.pc = "grading"
    BY <1>5, <2>1
  <2> QED BY <1>7, <2>2
<1> QED BY <1>1, <1>2, <1>4, <1>6, <1>7

LEMMA AllPassed ==
  ASSUME NEW S, NEW s \in Seq(S),
         Cardinality({i \in DOMAIN s : s[i].passed}) = Len(s)
  PROVE  \A i \in DOMAIN s : s[i].passed
<1> DEFINE T == {i \in DOMAIN s : s[i].passed}
<1>1. DOMAIN s = 1..Len(s) /\ Len(s) \in Nat
  OBVIOUS
<1>2. IsFiniteSet(1..Len(s)) /\ Cardinality(1..Len(s)) = Len(s)
  <2> DEFINE n == Len(s)
  <2>1. n \in Nat
    BY <1>1
  <2> HIDE DEF n
  <2>2. /\ IsFiniteSet(1..n)
        /\ Cardinality(1..n) = IF 1 > n THEN 0 ELSE n - 1 + 1
    <3>1. 1 \in Int /\ n \in Int
      BY <2>1
    <3> QED BY <3>1, FS_Interval, Zenon
  <2>3. (IF 1 > n THEN 0 ELSE n - 1 + 1) = n
    BY <2>1
  <2> QED BY <2>2, <2>3 DEF n
<1>3. T \subseteq 1..Len(s)
  BY <1>1
<1>t. Cardinality(T) = Len(s)
  OBVIOUS
<1>4. T = 1..Len(s)
  <2> HIDE DEF T
  <2> QED BY <1>2, <1>3, <1>t, FS_Subset
<1> QED BY <1>1, <1>4

LEMMA AnswerOK ==
  ASSUME IInv, NEW r \in Requests, Answer(r)
  PROVE  \E x : JobOK(x) /\ Become(r, x)
<1> DEFINE j == job[r]
           passed == Cardinality({i \in DOMAIN j.cases : j.cases[i].passed}) = Len(j.cases)
           x == [pc |-> "answered", asked |-> j.asked, cases |-> j.cases, passed |-> passed]
<1>1. JobOK(j) /\ j.pc = "load" /\ Len(j.cases) = Len(j.asked.pairs) /\ Become(r, x)
  BY DEF IInv, Jobs, Answer
<1>2. Compared(j)
  BY <1>1 DEF JobOK
<1>3. passed => \A n \in DOMAIN j.cases : j.cases[n].passed
  BY <1>2, AllPassed DEF Compared
<1> HIDE DEF j, passed
<1>4. /\ x.pc = "answered" /\ x.asked = j.asked /\ x.cases = j.cases /\ x.passed = passed
  OBVIOUS
<1> HIDE DEF x
<1>5. Compared(x)
  BY <1>2, <1>4 DEF Compared
<1>6. JobOK(x)
  BY <1>1, <1>3, <1>4, <1>5 DEF JobOK
<1> QED BY <1>1, <1>6

LEMMA Inductive == IInv /\ [Next]_vars => IInv'
<1> SUFFICES ASSUME IInv, [Next]_vars PROVE IInv'
  OBVIOUS
<1>0. StoreOK /\ Jobs
  BY DEF IInv
<1>1. ASSUME NEW r \in Requests, store' = store, NEW x, JobOK(x), Become(r, x) PROVE IInv'
  BY <1>0, <1>1, BecomeOK, StoreKept DEF IInv
<1>2. CASE Create \/ Retain \/ ForkRun
  BY <1>2, StoreSteps
<1>3. ASSUME NEW r \in Requests, StartRerun(r) PROVE IInv'
  BY <1>1, <1>3, StartRerunOK DEF StartRerun
<1>4. ASSUME NEW r \in Requests, Reuse(r) \/ Call(r) \/ Return(r) PROVE IInv'
  <2>1. store' = store
    BY <1>4 DEF Reuse, Call, Return
  <2> QED BY <1>1, <1>4, <2>1, BranchSteps
<1>5. ASSUME NEW r \in Requests, FinishRerun(r) PROVE IInv'
  <2> DEFINE j == job[r]
  <2>1. PICK wall \in 0..1 :
          store' = With(store, j.id,
            Normalized(Completed(j.run, j.id, j.options.from, j.events, wall)))
    BY <1>5 DEF FinishRerun
  <2>2. j.pc = "rerun" /\ ~More(j) /\ Become(r, Idle)
    BY <1>5 DEF FinishRerun
  <2>3. Branching(j)
    BY <1>0, <2>2 DEF Jobs, JobOK
  <2> DEFINE run == Normalized(Completed(j.run, j.id, j.options.from, j.events, wall))
  <2>4. Normal(run) /\ run.id = j.id
    BY <2>2, <2>3, CompletedIs
  <2>5. store' = With(store, j.id, run)
    BY <2>1
  <2> HIDE DEF run, j
  <2>6. StoreOK'
    BY <1>0, <2>4, <2>5, WithStored
  <2>7. Jobs'
    BY <1>0, <2>2, IdleOK, BecomeOK
  <2> QED BY <2>6, <2>7 DEF IInv
<1>6. ASSUME NEW r \in Requests,
             StartComparison(r) \/ Load(r) \/ Ask(r) \/ Verdict(r) \/ Ungraded(r)
      PROVE  IInv'
  <2>1. store' = store
    BY <1>6 DEF StartComparison, Load, Ask, Verdict, Ungraded
  <2> QED BY <1>1, <1>6, <2>1, ComparisonSteps
<1>7. ASSUME NEW r \in Requests, Report(r) PROVE IInv'
  <2>1. JobOK(job[r]) /\ store' = store
    BY <1>0, <1>7 DEF Report, Jobs
  <2> QED BY <1>1, <1>7, <2>1, ReportCompared
<1>8. ASSUME NEW r \in Requests, Answer(r) PROVE IInv'
  <2>1. store' = store
    BY <1>8 DEF Answer
  <2> QED BY <1>1, <1>8, <2>1, AnswerOK
<1>9. ASSUME NEW r \in Requests, Done(r) \/ Abort(r) PROVE IInv'
  <2>1. store' = store /\ Become(r, Idle)
    BY <1>9 DEF Done, Abort
  <2> QED BY <1>1, <2>1, IdleOK
<1>10. CASE UNCHANGED vars
  BY <1>0, <1>10, StoreKept, JobsKept DEF IInv, vars
<1> QED BY <1>2, <1>3, <1>4, <1>5, <1>6, <1>7, <1>8, <1>9, <1>10 DEF Next

LEMMA IInvInit == Init => IInv
<1> SUFFICES ASSUME Init PROVE IInv
  OBVIOUS
<1>1. StoreOK
  <2>1. DOMAIN store = {}
    BY DEF Init
  <2> QED BY <2>1 DEF StoreOK
<1>2. Jobs
  BY IdleOK DEF Init, Jobs
<1> QED BY <1>1, <1>2 DEF IInv

LEMMA AlwaysIInv == Spec => []IInv
  BY IInvInit, Inductive, PTL DEF Spec

\* Whatever was posted, forked or executed again, what is stored validates
\* under its own id, and under a sensitive key it has nothing but the mask.
THEOREM StoredRunsNormal == Spec => []StoredNormal
<1>1. ASSUME IInv PROVE StoredNormal
  <2>1. ASSUME NEW id \in DOMAIN store, NEW i \in DOMAIN store[id].events
        PROVE  \A l \in store[id].events[i].input \union store[id].events[i].output :
                 Harmless(l.path) \/ l.value = Hidden
    <3> DEFINE run == store[id]
               e == run.events[i]
    <3>1. run \in Runs /\ Redacted(run) = run
      BY <1>1 DEF IInv, StoreOK, Normal
    <3>2. e \in Events
      BY <3>1, ElementIs DEF Runs
    <3>3. e = MaskedEvent(e)
      BY <3>1, RedactedIs
    <3> HIDE DEF e
    <3>4. /\ e.input \in Payloads /\ e.output \in Payloads
          /\ Masked(e.input) = e.input /\ Masked(e.output) = e.output
      BY <3>2, <3>3, MaskedEventSame DEF Events, Clean
    <3>5. \A l \in e.input \union e.output : Harmless(l.path) \/ l.value = Hidden
      BY <3>4, MaskedTwice
    <3> QED BY <3>5 DEF e
  <2> QED BY <1>1, <2>1 DEF IInv, StoreOK, Normal, StoredNormal
<1> QED BY <1>1, AlwaysIInv, PTL

\* At every provider call the whole rest of the run is allowed, the branch so
\* far being that of the run.
THEOREM CallsAreApproved == Spec => []LiveCallsApproved
<1>1. IInv => LiveCallsApproved
  <2> SUFFICES ASSUME IInv, NEW r \in Requests, job[r].pc = "calling"
               PROVE  LET j == job[r]
                      IN  /\ j.options.live
                          /\ \A i \in Suffix(j.run, j.options.from) :
                               LET e == j.run.events[i]
                               IN  /\ e.policy # "blocked"
                                   /\ NeedsApproval(e) => e.id \in j.options.approved
                                   /\ e.kind # "generation" => e.id \in j.options.reuse
                          /\ \A i \in DOMAIN j.events : j.events[i].id = j.run.events[i].id
    BY DEF LiveCallsApproved
  <2>1. Branching(job[r])
    BY DEF IInv, Jobs, JobOK
  <2>2. job[r].events \in Seq(Events)
    BY <2>1 DEF Branching, Branchings
  <2>3. DOMAIN job[r].events = 1..Len(job[r].events)
    BY <2>2
  <2>4. \A i \in DOMAIN job[r].events : job[r].events[i].id = job[r].run.events[i].id
    BY <2>1, <2>3, FollowsIds
  <2> QED BY <2>1, <2>4 DEF Branching, Allowed
<1> QED BY <1>1, AlwaysIInv, PTL

\* A comparison or evaluation that passed compared every pair asked for, found
\* each changed output equivalent and measured each budget.
THEOREM ComparisonsFailClosed == Spec => []ReportsFailClosed
<1>1. IInv => ReportsFailClosed
  <2> SUFFICES ASSUME IInv, NEW r \in Requests, job[r].pc = "answered", job[r].passed
               PROVE  /\ Len(job[r].cases) = Len(job[r].asked.pairs)
                      /\ \A n \in DOMAIN job[r].cases : Complete(job[r].cases[n], job[r].asked)
    BY DEF ReportsFailClosed, Complete
  <2>1. JobOK(job[r])
    BY DEF IInv, Jobs
  <2> QED BY <2>1 DEF JobOK, Compared
<1> QED BY <1>1, AlwaysIInv, PTL

-----------------------------------------------------------------------------
\* Stored branches are those of the runs they were made of.

Linked(j) ==
  /\ j.id \in DOMAIN origins
  /\ origins[j.id].run = j.run /\ origins[j.id].from = j.options.from /\ origins[j.id].rerun

Made ==
  /\ DOMAIN origins \subseteq BranchIds
  /\ DOMAIN store \intersect BranchIds \subseteq DOMAIN origins
  /\ \A b \in DOMAIN store \intersect DOMAIN origins : Faithful(origins[b], store[b])
  /\ \A r \in Requests : job[r].pc \in {"rerun", "calling"} => Linked(job[r])

\* A request that goes on writes neither table.
LEMMA MadeKept ==
  ASSUME Made, Jobs, store' = store, origins' = origins, NEW r \in Requests, NEW x,
         Become(r, x), x.pc \in {"rerun", "calling"} => Linked(x)
  PROVE  Made'
<1>1. \A q \in Requests : job'[q] = IF q = r THEN x ELSE job[q]
  BY DEF Become, Jobs
<1>2. \A q \in Requests : job'[q].pc \in {"rerun", "calling"} => Linked(job'[q])
  BY <1>1 DEF Made
<1>3. \A q \in Requests : job'[q].pc \in {"rerun", "calling"} => Linked(job[q])'
  BY <1>2 DEF Linked
<1> QED BY <1>3 DEF Made

\* A branch is recorded under an id nothing is stored or linked under.
LEMMA OriginAdded ==
  ASSUME Made, NEW b \in BranchIds, Fresh(b), NEW o, origins' = With(origins, b, o)
  PROVE  /\ DOMAIN origins' = DOMAIN origins \union {b} /\ origins'[b] = o
         /\ \A x \in DOMAIN origins : origins'[x] = origins[x] /\ x # b
         /\ b \notin DOMAIN store
         /\ \A j : Linked(j) => Linked(j)'
<1>1. b \notin DOMAIN origins
  BY DEF Fresh
<1>2. /\ DOMAIN origins' = DOMAIN origins \union {b} /\ origins'[b] = o
      /\ \A x \in DOMAIN origins : origins'[x] = origins[x] /\ x # b
  BY <1>1 DEF With
<1>3. b \notin DOMAIN store
  BY <1>1 DEF Made
<1>4. ASSUME NEW CONSTANT j, Linked(j) PROVE Linked(j)'
  BY <1>2, <1>4 DEF Linked
<1> QED BY <1>2, <1>3, <1>4

LEMMA MadeNext == IInv /\ Made /\ [Next]_vars => Made'
<1> SUFFICES ASSUME IInv, Made, [Next]_vars PROVE Made'
  OBVIOUS
<1>0. StoreOK /\ Jobs
  BY DEF IInv
<1>1. ASSUME job' = job, origins' = origins PROVE
        \A r \in Requests : job'[r].pc \in {"rerun", "calling"} => Linked(job[r])'
  BY <1>1 DEF Made, Linked
<1>2. CASE Create
  <2>1. PICK run \in Inputs : store' = With(store, run.id, Normalized(run))
    BY <1>2 DEF Create
  <2>2. run.id \notin BranchIds
    BY RerunConstants
  <2>3. DOMAIN store' = DOMAIN store \union {run.id}
        /\ \A x \in DOMAIN store \ {run.id} : store'[x] = store[x]
    BY <2>1 DEF With
  <2>4. job' = job /\ origins' = origins
    BY <1>2 DEF Create
  <2> QED BY <1>1, <2>2, <2>3, <2>4 DEF Made
<1>3. CASE Retain
  <2>1. PICK id \in DOMAIN store : store' = Without(store, id)
    BY <1>3 DEF Retain
  <2>2. DOMAIN store' = DOMAIN store \ {id} /\ \A x \in DOMAIN store \ {id} : store'[x] = store[x]
    BY <2>1 DEF Without
  <2>3. job' = job /\ origins' = origins
    BY <1>3 DEF Retain
  <2> QED BY <1>1, <2>2, <2>3 DEF Made
<1>4. CASE ForkRun
  <2>1. PICK id \in DOMAIN store, b \in {x \in BranchIds : Fresh(x)} :
          \E i \in DOMAIN store[id].events :
            StoreBranch(Fork(store[id], store[id].events[i].id, b), b,
              [run |-> store[id], from |-> store[id].events[i].id, rerun |-> FALSE])
    BY <1>4 DEF ForkRun
  <2>2. PICK i \in DOMAIN store[id].events :
            StoreBranch(Fork(store[id], store[id].events[i].id, b), b,
              [run |-> store[id], from |-> store[id].events[i].id, rerun |-> FALSE])
    BY <2>1
  <2> DEFINE run == store[id]
             from == run.events[i].id
             f == Fork(run, from, b)
             o == [run |-> run, from |-> from, rerun |-> FALSE]
  <2>3. Normal(run) /\ b \in RunIds /\ from \in {run.events[k].id : k \in DOMAIN run.events}
    BY <1>0, RerunConstants DEF StoreOK
  <2>4. Faithful(o, f)
    <3> HIDE DEF run, from
    <3> QED BY <2>3, ForkFaithful
  <2>5. store' = With(store, b, f) /\ origins' = With(origins, b, o)
    BY <2>2 DEF StoreBranch
  <2>6. job' = job
    BY <1>4 DEF ForkRun
  <2> HIDE DEF f, o
  <2>7. /\ DOMAIN origins' = DOMAIN origins \union {b} /\ origins'[b] = o
        /\ \A x \in DOMAIN origins : origins'[x] = origins[x] /\ x # b
        /\ \A j : Linked(j) => Linked(j)'
    BY <2>5, OriginAdded
  <2>8. /\ DOMAIN store' = DOMAIN store \union {b} /\ store'[b] = f
        /\ \A x \in DOMAIN store \ {b} : store'[x] = store[x]
    BY <2>5 DEF With
  <2>9. \A r \in Requests : job'[r].pc \in {"rerun", "calling"} => Linked(job[r])'
    BY <2>6, <2>7 DEF Made, Linked
  <2>10. \A x \in DOMAIN store' \intersect DOMAIN origins' : Faithful(origins'[x], store'[x])
    BY <2>4, <2>7, <2>8 DEF Made
  <2> QED BY <2>7, <2>8, <2>9, <2>10 DEF Made
<1>5. ASSUME NEW r \in Requests, StartRerun(r) PROVE Made'
  <2>1. PICK id \in DOMAIN store, o \in RerunOptions, b \in {x \in BranchIds : Fresh(x)} :
          /\ Become(r, [pc |-> "rerun", run |-> store[id], options |-> o, id |-> b,
                        events |-> Fork(store[id], o.from, b).events])
          /\ origins' = With(origins, b, [run |-> store[id], from |-> o.from, rerun |-> TRUE])
    BY <1>5 DEF StartRerun
  <2> DEFINE x == [pc |-> "rerun", run |-> store[id], options |-> o, id |-> b,
                   events |-> Fork(store[id], o.from, b).events]
             origin == [run |-> store[id], from |-> o.from, rerun |-> TRUE]
  <2>2. store' = store
    BY <1>5 DEF StartRerun
  <2>3. /\ x.id = b /\ x.run = store[id] /\ x.options = o
        /\ origin.run = store[id] /\ origin.from = o.from /\ origin.rerun
    OBVIOUS
  <2>4. Become(r, x) /\ origins' = With(origins, b, origin)
    BY <2>1
  <2> HIDE DEF x, origin
  <2>5. /\ DOMAIN origins' = DOMAIN origins \union {b} /\ origins'[b] = origin
        /\ \A y \in DOMAIN origins : origins'[y] = origins[y] /\ y # b
        /\ b \notin DOMAIN store
        /\ \A j : Linked(j) => Linked(j)'
    BY <2>4, OriginAdded
  <2>6. \A q \in Requests : job'[q] = IF q = r THEN x ELSE job[q]
    BY <1>0, <2>4 DEF Become, Jobs
  <2>7. \A q \in Requests : job'[q].pc \in {"rerun", "calling"} => Linked(job[q])'
    BY <2>3, <2>5, <2>6 DEF Made, Linked
  <2>8. \A y \in DOMAIN store' \intersect DOMAIN origins' : Faithful(origins'[y], store'[y])
    BY <2>2, <2>5 DEF Made
  <2> QED BY <2>2, <2>5, <2>7, <2>8 DEF Made
<1>6. ASSUME NEW r \in Requests, Reuse(r) \/ Call(r) \/ Return(r) PROVE Made'
  <2>1. PICK x : /\ Become(r, x) /\ x.run = job[r].run /\ x.options = job[r].options
                 /\ x.id = job[r].id
    BY <1>6, BranchSteps
  <2>2. job[r].pc \in {"rerun", "calling"} /\ store' = store /\ origins' = origins
    BY <1>6 DEF Reuse, Call, Return
  <2>3. Linked(x)
    BY <2>1, <2>2 DEF Made, Linked
  <2> QED BY <1>0, <2>1, <2>2, <2>3, MadeKept
<1>7. ASSUME NEW r \in Requests, FinishRerun(r) PROVE Made'
  <2> DEFINE j == job[r]
  <2>1. PICK wall \in 0..1 :
          store' = With(store, j.id,
            Normalized(Completed(j.run, j.id, j.options.from, j.events, wall)))
    BY <1>7 DEF FinishRerun
  <2>2. j.pc = "rerun" /\ ~More(j) /\ Become(r, Idle) /\ origins' = origins
    BY <1>7 DEF FinishRerun
  <2>3. Branching(j) /\ Linked(j)
    BY <1>0, <2>2 DEF Jobs, JobOK, Made
  <2> DEFINE run == Normalized(Completed(j.run, j.id, j.options.from, j.events, wall))
             o == origins[j.id]
  <2>4. Faithful(o, run) /\ j.id \in DOMAIN origins
    <3>1. o.run = j.run /\ o.from = j.options.from /\ o.rerun
      BY <2>3 DEF Linked
    <3> QED BY <2>2, <2>3, <3>1, RerunFaithful DEF Linked
  <2>5. store' = With(store, j.id, run)
    BY <2>1
  <2> HIDE DEF run
  <2>6. /\ DOMAIN store' = DOMAIN store \union {j.id} /\ store'[j.id] = run
        /\ \A x \in DOMAIN store \ {j.id} : store'[x] = store[x]
    BY <2>5 DEF With
  <2>7. \A q \in Requests : job'[q] = IF q = r THEN Idle ELSE job[q]
    BY <1>0, <2>2 DEF Become, Jobs
  <2>8. \A q \in Requests : job'[q].pc \in {"rerun", "calling"} => Linked(job[q])'
    BY <2>2, <2>7 DEF Made, Linked, Idle
  <2>9. \A x \in DOMAIN store' \intersect DOMAIN origins' : Faithful(origins'[x], store'[x])
    BY <2>2, <2>4, <2>6 DEF Made
  <2> QED BY <2>2, <2>4, <2>6, <2>8, <2>9 DEF Made
<1>8. ASSUME NEW r \in Requests,
             StartComparison(r) \/ Load(r) \/ Ask(r) \/ Verdict(r) \/ Ungraded(r)
      PROVE  Made'
  <2>1. PICK x : Become(r, x) /\ x.pc \in {"asking", "load", "grading"}
    BY <1>8, ComparisonSteps
  <2>2. store' = store /\ origins' = origins
    BY <1>8 DEF StartComparison, Load, Ask, Verdict, Ungraded
  <2> QED BY <1>0, <2>1, <2>2, MadeKept
<1>9. ASSUME NEW r \in Requests, Report(r) \/ Answer(r) \/ Done(r) \/ Abort(r) PROVE Made'
  <2>1. \E x : Become(r, x) /\ x.pc \in {"load", "answered", "idle"}
    BY <1>9 DEF Report, Answer, Done, Abort, Idle
  <2>2. store' = store /\ origins' = origins
    BY <1>9 DEF Report, Answer, Done, Abort
  <2> QED BY <1>0, <2>1, <2>2, MadeKept
<1>10. CASE UNCHANGED vars
  BY <1>1, <1>10 DEF Made, vars
<1> QED BY <1>2, <1>3, <1>4, <1>5, <1>6, <1>7, <1>8, <1>9, <1>10 DEF Next

\* Whatever becomes of the run a branch was made of, posted again, retained or
\* replaced, the branch is faithful to the one that was read.
THEOREM BranchesStayFaithful == Spec => []BranchesFaithful
<1>1. Init => Made
  <2>1. ASSUME Init PROVE DOMAIN store = {} /\ DOMAIN origins = {}
    BY <2>1 DEF Init
  <2> QED BY <2>1 DEF Init, Made, Idle
<1>2. ASSUME Made PROVE BranchesFaithful
  <2>1. \A b \in DOMAIN store \intersect DOMAIN origins : Faithful(origins[b], store[b])
    BY <1>2 DEF Made
  <2>2. BranchesFaithful <=>
          \A b \in DOMAIN store \intersect DOMAIN origins : Faithful(origins[b], store[b])
    BY ZenonT(60) DEF BranchesFaithful, Faithful, AsBound
  <2> QED BY <2>1, <2>2
<1> QED BY <1>1, <1>2, MadeNext, AlwaysIInv, PTL DEF Spec

-----------------------------------------------------------------------------
\* Permits.

Waiting == {"calling", "asking"}
Held == {r \in Requests : job[r].pc \in Waiting}
PermitsKept == permits \in Nat /\ permits + Cardinality(Held) = Permits

\* What a request's step does to the permits held.
LEMMA HeldAfter ==
  ASSUME Jobs, NEW r \in Requests, NEW x, Become(r, x)
  PROVE  /\ IsFiniteSet(Held) /\ Cardinality(Held) \in Nat
         /\ (x.pc \in Waiting <=> job[r].pc \in Waiting) => Cardinality(Held') = Cardinality(Held)
         /\ x.pc \in Waiting /\ job[r].pc \notin Waiting
              => Cardinality(Held') = Cardinality(Held) + 1
         /\ x.pc \notin Waiting /\ job[r].pc \in Waiting
              => Cardinality(Held') = Cardinality(Held) - 1
<1>1. IsFiniteSet(Held) /\ Cardinality(Held) \in Nat
  <2>1. IsFiniteSet(Held)
    BY RerunConstants, FS_Subset DEF Held
  <2> QED BY <2>1, FS_CardinalityType
<1>2. \A q \in Requests : job'[q] = IF q = r THEN x ELSE job[q]
  BY DEF Become, Jobs
<1>3. ASSUME x.pc \in Waiting <=> job[r].pc \in Waiting PROVE Held' = Held
  BY <1>2, <1>3 DEF Held
<1>4. ASSUME x.pc \in Waiting, job[r].pc \notin Waiting
      PROVE  Cardinality(Held') = Cardinality(Held) + 1
  <2>1. Held' = Held \union {r} /\ r \notin Held
    BY <1>2, <1>4 DEF Held
  <2> QED BY <1>1, <2>1, FS_AddElement
<1>5. ASSUME x.pc \notin Waiting, job[r].pc \in Waiting
      PROVE  Cardinality(Held') = Cardinality(Held) - 1
  <2>1. Held' = Held \ {r} /\ r \in Held
    BY <1>2, <1>5 DEF Held
  <2> QED BY <1>1, <2>1, FS_RemoveElement
<1> QED BY <1>1, <1>3, <1>4, <1>5

LEMMA PermitsNext == IInv /\ PermitsKept /\ [Next]_vars => PermitsKept'
<1> SUFFICES ASSUME IInv, PermitsKept, [Next]_vars PROVE PermitsKept'
  OBVIOUS
<1>0. Jobs /\ permits \in Nat
  BY DEF IInv, PermitsKept
<1>1. ASSUME job' = job, permits' = permits PROVE PermitsKept'
  BY <1>1 DEF PermitsKept, Held
<1>2. ASSUME NEW r \in Requests, NEW x, Become(r, x),
             \/ permits' = permits /\ (x.pc \in Waiting <=> job[r].pc \in Waiting)
             \/ /\ permits > 0 /\ permits' = permits - 1
                /\ x.pc \in Waiting /\ job[r].pc \notin Waiting
             \/ permits' = permits + 1 /\ x.pc \notin Waiting /\ job[r].pc \in Waiting
      PROVE  PermitsKept'
  BY <1>0, <1>2, HeldAfter DEF PermitsKept
<1>3. CASE Create \/ Retain \/ ForkRun
  BY <1>1, <1>3 DEF Create, Retain, ForkRun
<1>4. ASSUME NEW r \in Requests, StartRerun(r) PROVE PermitsKept'
  <2>1. \E x : Become(r, x) /\ x.pc = "rerun"
    BY <1>4 DEF StartRerun
  <2>2. job[r].pc = "idle" /\ permits' = permits
    BY <1>4 DEF StartRerun, Idle
  <2> QED BY <1>2, <2>1, <2>2 DEF Waiting
<1>5. ASSUME NEW r \in Requests, Reuse(r) \/ Call(r) \/ Return(r) PROVE PermitsKept'
  <2>1. PICK x : /\ Become(r, x)
                 /\ \/ x.pc = "calling" /\ Call(r)
                    \/ x.pc = "rerun" /\ (Reuse(r) \/ Return(r))
    BY <1>5, BranchSteps
  <2>2. CASE x.pc = "calling" /\ Call(r)
    BY <1>2, <2>1, <2>2 DEF Call, Waiting
  <2>3. CASE x.pc = "rerun" /\ Reuse(r)
    BY <1>2, <2>1, <2>3 DEF Reuse, Waiting
  <2>4. CASE x.pc = "rerun" /\ Return(r)
    BY <1>2, <2>1, <2>4 DEF Return, Waiting
  <2> QED BY <2>1, <2>2, <2>3, <2>4
<1>6. ASSUME NEW r \in Requests, FinishRerun(r) PROVE PermitsKept'
  <2>1. Become(r, Idle) /\ job[r].pc = "rerun" /\ permits' = permits
    BY <1>6 DEF FinishRerun
  <2> QED BY <1>2, <2>1 DEF Waiting, Idle
<1>7. ASSUME NEW r \in Requests,
             StartComparison(r) \/ Load(r) \/ Ask(r) \/ Verdict(r) \/ Ungraded(r)
      PROVE  PermitsKept'
  <2>1. PICK x : /\ Become(r, x)
                 /\ \/ x.pc = "asking" /\ Ask(r)
                    \/ /\ x.pc \in {"load", "grading"}
                       /\ StartComparison(r) \/ Load(r) \/ Verdict(r) \/ Ungraded(r)
    BY <1>7, ComparisonSteps
  <2>2. CASE x.pc = "asking" /\ Ask(r)
    BY <1>2, <2>1, <2>2 DEF Ask, Waiting
  <2>3. CASE x.pc \in {"load", "grading"} /\ (StartComparison(r) \/ Load(r) \/ Ungraded(r))
    <3>1. permits' = permits /\ job[r].pc \in {"idle", "load", "grading"}
      <4>1. CASE StartComparison(r)
        BY <4>1 DEF StartComparison, Idle
      <4>2. CASE Load(r)
        BY <4>2 DEF Load
      <4>3. CASE Ungraded(r)
        BY <4>3 DEF Ungraded
      <4> QED BY <2>3, <4>1, <4>2, <4>3
    <3> QED BY <1>2, <2>1, <2>3, <3>1 DEF Waiting
  <2>4. CASE x.pc \in {"load", "grading"} /\ Verdict(r)
    BY <1>2, <2>1, <2>4 DEF Verdict, Waiting
  <2> QED BY <2>1, <2>2, <2>3, <2>4
<1>8. ASSUME NEW r \in Requests, Report(r) \/ Answer(r) \/ Done(r) PROVE PermitsKept'
  <2>1. \E x : Become(r, x) /\ x.pc \in {"load", "answered", "idle"}
    BY <1>8 DEF Report, Answer, Done, Idle
  <2>2. permits' = permits /\ job[r].pc \in {"grading", "load", "answered"}
    BY <1>8 DEF Report, Answer, Done
  <2> QED BY <1>2, <2>1, <2>2 DEF Waiting
<1>9. ASSUME NEW r \in Requests, Abort(r) PROVE PermitsKept'
  <2>1. /\ Become(r, Idle) /\ Idle.pc = "idle"
        /\ permits' = IF job[r].pc \in Waiting THEN permits + 1 ELSE permits
    BY <1>9 DEF Abort, Dropped, Idle, Waiting
  <2>2. Idle.pc \notin Waiting
    BY <2>1 DEF Waiting
  <2> QED BY <1>2, <2>1, <2>2
<1>10. CASE UNCHANGED vars
  BY <1>1, <1>10 DEF vars
<1> QED BY <1>3, <1>4, <1>5, <1>6, <1>7, <1>8, <1>9, <1>10 DEF Next

\* However calls end, answered, failed, timed out or abandoned, the registry's
\* permits are those the calls under way do not hold.
THEOREM PermitsComeBack == Spec => []PermitsReturned
<1>1. Init => PermitsKept
  <2> SUFFICES ASSUME Init PROVE PermitsKept
    OBVIOUS
  <2>1. Held = {} /\ permits = Permits
    BY DEF Init, Held, Waiting, Idle
  <2>2. Cardinality(Held) = 0 /\ Permits \in Nat
    BY <2>1, FS_EmptySet, RerunConstants
  <2> QED BY <2>1, <2>2 DEF PermitsKept
<1>2. PermitsKept => PermitsReturned
  BY DEF PermitsKept, Held, Waiting, PermitsReturned
<1> QED BY <1>1, <1>2, PermitsNext, AlwaysIInv, PTL DEF Spec
===============================================================================
