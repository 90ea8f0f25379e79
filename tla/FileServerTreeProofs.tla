------------------------ MODULE FileServerTreeProofs ------------------------
(***************************************************************************)
(* Proofs about FileServer, for every value of its constants: paths, trees *)
(* and indexes, what each method does to them and to the disk, what a      *)
(* restart makes of any disk a crash may leave, and the invariant of the   *)
(* running server.                                                         *)
(***************************************************************************)
EXTENDS FileServer, FiniteSetTheorems, SequenceTheorems, TLAPS
-----------------------------------------------------------------------------
(* Paths: prefixes, and what Rebase does to them. *)

\* A prefix agrees with the sequence wherever it is defined.
LEMMA PrefixPointwise ==
    ASSUME NEW S, NEW p \in Seq(S), NEW q \in Seq(S)
    PROVE  IsPrefix(p, q) <=> Len(p) <= Len(q) /\ \A k \in 1 .. Len(p) : p[k] = q[k]
<1>1. SubSeq(p, 1, Len(p)) = p
  BY SubSeqFull
<1>2. CASE Len(p) <= Len(q)
  <2>1. /\ SubSeq(q, 1, Len(p)) \in Seq(S) /\ Len(SubSeq(q, 1, Len(p))) = Len(p)
        /\ \A k \in 1 .. Len(p) : SubSeq(q, 1, Len(p))[k] = q[k]
    BY <1>2
  <2>2. p = SubSeq(q, 1, Len(p)) <=> \A k \in 1 .. Len(p) : p[k] = q[k]
    BY <2>1, SeqEqual
  <2> QED
    BY <1>1, <1>2, <2>2 DEF IsPrefix
<1> QED
  BY <1>2 DEF IsPrefix

\* Prefixes are ordered, and two prefixes of one sequence are comparable.
LEMMA PrefixOrder ==
    ASSUME NEW S, NEW p \in Seq(S), NEW q \in Seq(S), NEW r \in Seq(S)
    PROVE  /\ IsPrefix(p, p) /\ IsPrefix(<<>>, p)
           /\ IsPrefix(p, q) /\ IsPrefix(q, r) => IsPrefix(p, r)
           /\ IsPrefix(p, q) /\ IsPrefix(q, p) => p = q
           /\ IsPrefix(p, r) /\ IsPrefix(q, r) => IsPrefix(p, q) \/ IsPrefix(q, p)
           /\ IsPrefix(p, q) /\ Len(q) <= Len(p) => p = q
           /\ IsPrefix(p, q) => Len(p) <= Len(q)
<1> DEFINE Pre(a, b) == Len(a) <= Len(b) /\ \A k \in 1 .. Len(a) : a[k] = b[k]
<1>1. \A a, b \in Seq(S) : IsPrefix(a, b) <=> Pre(a, b)
  BY PrefixPointwise
<1>e. <<>> \in Seq(S)
  BY EmptySeq
<1>2. \A a, b \in {p, q, r} : (Len(a) = Len(b) /\ \A k \in 1 .. Len(a) : a[k] = b[k]) => a = b
  BY SeqEqual
<1>3. Pre(p, q) /\ Pre(q, r) => Pre(p, r)
  OBVIOUS
<1>4. Pre(p, q) /\ Pre(q, p) => p = q
  BY <1>2
<1>5. Pre(p, r) /\ Pre(q, r) => Pre(p, q) \/ Pre(q, p)
  OBVIOUS
<1>6. Pre(p, q) /\ Len(q) <= Len(p) => p = q
  BY <1>2
<1>7. Pre(<<>>, p) /\ Pre(p, p)
  OBVIOUS
<1> QED
  BY <1>1, <1>e, <1>3, <1>4, <1>5, <1>6, <1>7

\* A sequence with one more element has itself as its only new prefix.
LEMMA PrefixAppend ==
    ASSUME NEW S, NEW p \in Seq(S), NEW q \in Seq(S), NEW n \in S
    PROVE  IsPrefix(p, Append(q, n)) <=> p = Append(q, n) \/ IsPrefix(p, q)
<1> DEFINE a == Append(q, n)
<1>1. a \in Seq(S) /\ Len(a) = Len(q) + 1 /\ a[Len(q) + 1] = n /\ \A k \in 1 .. Len(q) : a[k] = q[k]
  OBVIOUS
<1> HIDE DEF a
<1>2. IsPrefix(p, a) <=> Len(p) <= Len(a) /\ \A k \in 1 .. Len(p) : p[k] = a[k]
  BY <1>1, PrefixPointwise
<1>3. IsPrefix(p, q) <=> Len(p) <= Len(q) /\ \A k \in 1 .. Len(p) : p[k] = q[k]
  BY PrefixPointwise
<1>4. (Len(p) = Len(a) /\ \A k \in 1 .. Len(p) : p[k] = a[k]) => p = a
  BY <1>1, SeqEqual
<1>5. Len(p) \in Nat /\ Len(q) \in Nat
  OBVIOUS
<1>6. IsPrefix(p, a) => p = a \/ IsPrefix(p, q)
  BY <1>1, <1>2, <1>3, <1>4, <1>5
<1>7. p = a \/ IsPrefix(p, q) => IsPrefix(p, a)
  BY <1>1, <1>2, <1>3, <1>5
<1> QED
  BY <1>6, <1>7 DEF a

\* Length and elements of an appended sequence.
LEMMA AppendFacts ==
    ASSUME NEW S, NEW q \in Seq(S), NEW n \in S
    PROVE  /\ Append(q, n) \in Seq(S) /\ Len(Append(q, n)) = Len(q) + 1 /\ Append(q, n)[Len(q) + 1] = n
           /\ \A k \in 1 .. Len(q) : Append(q, n)[k] = q[k]
           /\ Append(q, n) # <<>> /\ Append(q, n) # q /\ Len(q) \in Nat
  OBVIOUS

\* Equal appended sequences were equal, and so is what was appended.
LEMMA AppendsEqual ==
    ASSUME NEW S, NEW p \in Seq(S), NEW q \in Seq(S), NEW m \in S, NEW n \in S, Append(p, m) = Append(q, n)
    PROVE  p = q /\ m = n
<1>1. Len(p) = Len(q)
  OBVIOUS
<1>2. \A k \in 1 .. Len(p) : p[k] = q[k]
  <2> TAKE k \in 1 .. Len(p)
  <2>1. Append(p, m)[k] = p[k] /\ Append(q, n)[k] = q[k]
    BY <1>1
  <2> QED BY <2>1
<1>3. Append(p, m)[Len(p) + 1] = m /\ Append(q, n)[Len(p) + 1] = n
  BY <1>1
<1> QED
  BY <1>1, <1>2, <1>3, SeqEqual

\* Arithmetic for the length of Front.
LEMMA OneLess ==
    ASSUME NEW n \in Nat, n > 0, NEW m, m = IF 1 <= n - 1 THEN (n - 1) - 1 + 1 ELSE 0
    PROVE  m = n - 1 /\ (n - 1) - 1 + 1 = n - 1
  OBVIOUS

\* A sequence that is not empty is its Front with its Last appended.
LEMMA FrontLast ==
    ASSUME NEW S, NEW p \in Seq(S), p # <<>>
    PROVE  /\ Front(p) \in Seq(S) /\ Last(p) \in S /\ p = Append(Front(p), Last(p))
           /\ Len(Front(p)) = Len(p) - 1
<1>1. Len(p) \in Nat /\ Len(p) > 0
  BY EmptySeq
<1>2. /\ Front(p) \in Seq(S) /\ Len(Front(p)) = Len(p) - 1
      /\ \A k \in 1 .. Len(p) - 1 : Front(p)[k] = p[k]
  <2>1. \A i \in 1 .. Len(p) - 1 : p[i] \in S
    BY <1>1, ElementOfSeq
  <2>2. 1 \in Int /\ Len(p) - 1 \in Int
    BY <1>1
  <2>3. /\ SubSeq(p, 1, Len(p) - 1) \in Seq(S)
        /\ Len(SubSeq(p, 1, Len(p) - 1)) = IF 1 <= Len(p) - 1 THEN (Len(p) - 1) - 1 + 1 ELSE 0
        /\ \A i \in 1 .. (Len(p) - 1) - 1 + 1 : SubSeq(p, 1, Len(p) - 1)[i] = p[1 + i - 1]
    BY <2>1, <2>2, SubSeqProperties
  <2> DEFINE t == SubSeq(p, 1, Len(p) - 1)
  <2>4. Front(p) = t
    BY DEF Front
  <2>5. t \in Seq(S) /\ Len(t) = Len(p) - 1
    BY <2>3, <1>1, OneLess
  <2>6. \A i \in 1 .. Len(p) - 1 : t[i] = p[i]
    <3> TAKE i \in 1 .. Len(p) - 1
    <3>1. i \in 1 .. (Len(p) - 1) - 1 + 1 /\ 1 + i - 1 = i
      BY <1>1
    <3> QED BY <3>1, <2>3
  <2> QED BY <2>4, <2>5, <2>6
<1>3. Last(p) \in S
  BY <1>1, ElementOfSeq DEF Last
<1>4. p = Append(Front(p), Last(p))
  <2> DEFINE a == Append(Front(p), Last(p))
  <2>1. a \in Seq(S) /\ Len(a) = Len(p) /\ a[Len(p)] = Last(p) /\ \A k \in 1 .. Len(p) - 1 : a[k] = Front(p)[k]
    BY <1>1, <1>2, <1>3
  <2> HIDE DEF a
  <2>2. \A k \in 1 .. Len(p) : a[k] = p[k]
    BY <1>1, <1>2, <2>1 DEF Last
  <2>3. a = p
    BY <2>1, <2>2, SeqEqual
  <2> QED BY <2>3 DEF a
<1> QED
  BY <1>2, <1>3, <1>4

\* q is p with its beginning old replaced by new.
Spliced(q, p, old, new) ==
    /\ Len(q) = Len(new) + Len(p) - Len(old)
    /\ \A k \in 1 .. Len(new) : q[k] = new[k]
    /\ \A k \in 1 .. Len(p) - Len(old) : q[Len(new) + k] = p[Len(old) + k]

\* Rebase puts the new prefix in front of what followed the old one.
LEMMA RebaseFacts ==
    ASSUME NEW S, NEW p \in Seq(S), NEW old \in Seq(S), NEW new \in Seq(S), IsPrefix(old, p)
    PROVE  Rebase(p, old, new) \in Seq(S) /\ Spliced(Rebase(p, old, new), p, old, new)
<1>1. Len(p) \in Nat /\ Len(old) \in Nat /\ Len(new) \in Nat /\ Len(old) <= Len(p)
  BY PrefixOrder
<1> DEFINE t == SubSeq(p, Len(old) + 1, Len(p))
<1>2. /\ t \in Seq(S) /\ Len(t) = Len(p) - Len(old)
      /\ \A k \in 1 .. Len(p) - Len(old) : t[k] = p[Len(old) + k]
  <2>1. \A i \in Len(old) + 1 .. Len(p) : p[i] \in S
    BY <1>1, ElementOfSeq
  <2>2. Len(old) + 1 \in Int /\ Len(p) \in Int
    BY <1>1
  <2>3. /\ t \in Seq(S)
        /\ Len(t) = IF Len(old) + 1 <= Len(p) THEN Len(p) - (Len(old) + 1) + 1 ELSE 0
        /\ \A i \in 1 .. Len(p) - (Len(old) + 1) + 1 : t[i] = p[Len(old) + 1 + i - 1]
    BY <2>1, <2>2, SubSeqProperties
  <2> HIDE DEF t
  <2> QED BY <1>1, <2>3
<1> HIDE DEF t
<1>3. /\ new \o t \in Seq(S) /\ Len(new \o t) = Len(new) + Len(t)
      /\ \A i \in 1 .. Len(new) + Len(t) : (new \o t)[i] = IF i <= Len(new) THEN new[i] ELSE t[i - Len(new)]
  BY <1>2, ConcatProperties
<1>4. Rebase(p, old, new) = new \o t
  BY DEF Rebase, t
<1> DEFINE q == new \o t
<1>5. \A k \in 1 .. Len(new) : q[k] = new[k]
  BY <1>1, <1>2, <1>3
<1>6. \A k \in 1 .. Len(p) - Len(old) : q[Len(new) + k] = p[Len(old) + k]
  <2> TAKE k \in 1 .. Len(p) - Len(old)
  <2>1. /\ Len(new) + k \in 1 .. Len(new) + Len(t)
        /\ ~(Len(new) + k <= Len(new)) /\ (Len(new) + k) - Len(new) = k
    BY <1>1, <1>2
  <2>2. q[Len(new) + k] = t[(Len(new) + k) - Len(new)]
    BY <2>1, <1>3
  <2> QED BY <2>1, <2>2, <1>2
<1>7. Len(q) = Len(new) + Len(p) - Len(old)
  BY <1>1, <1>2, <1>3
<1> QED
  BY <1>3, <1>4, <1>5, <1>6, <1>7 DEF Spliced

\* At most one sequence is spliced from a path and two prefixes.
LEMMA SplicedUnique ==
    ASSUME NEW S, NEW p \in Seq(S), NEW old \in Seq(S), NEW new \in Seq(S), Len(old) <= Len(p),
           NEW q \in Seq(S), NEW r \in Seq(S), Spliced(q, p, old, new), Spliced(r, p, old, new)
    PROVE  q = r
<1>0. Len(p) \in Nat /\ Len(old) \in Nat /\ Len(new) \in Nat
  OBVIOUS
<1>1. Len(q) = Len(r) /\ Len(q) = Len(new) + Len(p) - Len(old)
  BY DEF Spliced
<1>2. \A k \in 1 .. Len(q) : q[k] = r[k]
  <2> TAKE k \in 1 .. Len(q)
  <2>1. CASE k <= Len(new)
    BY <2>1, <1>0 DEF Spliced
  <2>2. CASE k > Len(new)
    <3>1. k - Len(new) \in 1 .. Len(p) - Len(old) /\ k = Len(new) + (k - Len(new))
      BY <2>2, <1>0, <1>1
    <3>2. /\ q[Len(new) + (k - Len(new))] = p[Len(old) + (k - Len(new))]
          /\ r[Len(new) + (k - Len(new))] = p[Len(old) + (k - Len(new))]
      BY <3>1 DEF Spliced
    <3> QED BY <3>1, <3>2
  <2> QED BY <2>1, <2>2, <1>0
<1> QED
  BY <1>1, <1>2, SeqEqual

\* Rebasing to a new prefix and back gives the path again.
LEMMA RebaseBack ==
    ASSUME NEW S, NEW p \in Seq(S), NEW old \in Seq(S), NEW new \in Seq(S), IsPrefix(old, p)
    PROVE  /\ Rebase(p, old, new) \in Seq(S)
           /\ IsPrefix(new, Rebase(p, old, new))
           /\ Rebase(Rebase(p, old, new), new, old) = p
           /\ Rebase(old, old, new) = new
           /\ Len(Rebase(p, old, new)) = Len(new) + Len(p) - Len(old)
<1> DEFINE q == Rebase(p, old, new)
<1>0. Len(p) \in Nat /\ Len(old) \in Nat /\ Len(new) \in Nat /\ Len(old) <= Len(p) /\ IsPrefix(old, old)
  BY PrefixOrder
<1>1. q \in Seq(S) /\ Spliced(q, p, old, new)
  BY RebaseFacts
<1> HIDE DEF q
<1>l. Len(q) \in Nat /\ Len(q) = Len(new) + Len(p) - Len(old) /\ Len(new) <= Len(q)
  BY <1>0, <1>1 DEF Spliced
<1>2. IsPrefix(new, q)
  <2>1. \A k \in 1 .. Len(new) : new[k] = q[k]
    BY <1>1 DEF Spliced
  <2> QED BY <2>1, <1>l, <1>1, PrefixPointwise
<1>3. Rebase(q, new, old) \in Seq(S) /\ Spliced(Rebase(q, new, old), q, new, old)
  BY <1>1, <1>2, RebaseFacts
<1>4. Spliced(p, q, new, old)
  <2>1. \A k \in 1 .. Len(old) : p[k] = old[k]
    BY PrefixPointwise
  <2>2. Len(p) = Len(old) + Len(q) - Len(new) /\ Len(q) - Len(new) = Len(p) - Len(old)
    BY <1>0, <1>l
  <2>3. \A k \in 1 .. Len(q) - Len(new) : p[Len(old) + k] = q[Len(new) + k]
    BY <1>1, <2>2 DEF Spliced
  <2> QED BY <2>1, <2>2, <2>3 DEF Spliced
<1>5. Rebase(q, new, old) = p
  BY <1>1, <1>3, <1>4, <1>l, SplicedUnique
<1>6. Rebase(old, old, new) = new
  <2>1. Rebase(old, old, new) \in Seq(S) /\ Spliced(Rebase(old, old, new), old, old, new)
    BY <1>0, RebaseFacts
  <2>2. Spliced(new, old, old, new)
    BY <1>0 DEF Spliced
  <2> QED BY <2>1, <2>2, <1>0, SplicedUnique
<1> QED
  BY <1>1, <1>2, <1>5, <1>6, <1>l DEF q

\* A child's path is rebased with its parent's.
LEMMA RebaseAppend ==
    ASSUME NEW S, NEW p \in Seq(S), NEW old \in Seq(S), NEW new \in Seq(S), IsPrefix(old, p), NEW n \in S
    PROVE  Rebase(Append(p, n), old, new) = Append(Rebase(p, old, new), n)
<1> DEFINE a == Append(p, n)
           q == Rebase(p, old, new)
           b == Append(q, n)
<1>0. Len(p) \in Nat /\ Len(old) \in Nat /\ Len(new) \in Nat /\ Len(old) <= Len(p)
  BY PrefixOrder
<1>1. q \in Seq(S) /\ Spliced(q, p, old, new)
  BY RebaseFacts
<1>2. a \in Seq(S) /\ Len(a) = Len(p) + 1 /\ a[Len(p) + 1] = n /\ \A k \in 1 .. Len(p) : a[k] = p[k]
  OBVIOUS
<1>3. IsPrefix(old, a)
  BY PrefixAppend
<1> HIDE DEF a, q
<1>l. Len(q) \in Nat /\ Len(q) = Len(new) + Len(p) - Len(old)
  BY <1>0, <1>1 DEF Spliced
<1>4. b \in Seq(S) /\ Len(b) = Len(q) + 1 /\ b[Len(q) + 1] = n /\ \A k \in 1 .. Len(q) : b[k] = q[k]
  <2>1. q \in Seq(S)
    BY <1>1
  <2>2. \A x \in Seq(S) : /\ Append(x, n) \in Seq(S) /\ Len(Append(x, n)) = Len(x) + 1
                           /\ Append(x, n)[Len(x) + 1] = n /\ \A k \in 1 .. Len(x) : Append(x, n)[k] = x[k]
    OBVIOUS
  <2> QED BY <2>1, <2>2, Zenon
<1> HIDE DEF b
<1>5. Rebase(a, old, new) \in Seq(S) /\ Spliced(Rebase(a, old, new), a, old, new)
  BY <1>2, <1>3, RebaseFacts
<1>6. Spliced(b, a, old, new)
  <2>1. Len(b) = Len(new) + Len(a) - Len(old)
    BY <1>0, <1>l, <1>2, <1>4
  <2>2. \A k \in 1 .. Len(new) : b[k] = new[k]
    <3> TAKE k \in 1 .. Len(new)
    <3>1. k \in 1 .. Len(q)
      BY <1>0, <1>l
    <3> QED BY <3>1, <1>4, <1>1 DEF Spliced
  <2>3. ASSUME NEW k \in 1 .. Len(a) - Len(old) PROVE b[Len(new) + k] = a[Len(old) + k]
    <3>1. CASE k <= Len(p) - Len(old)
      <4>1. Len(new) + k \in 1 .. Len(q) /\ Len(old) + k \in 1 .. Len(p) /\ k \in 1 .. Len(p) - Len(old)
        BY <3>1, <1>0, <1>l
      <4>2. q[Len(new) + k] = p[Len(old) + k]
        BY <4>1, <1>1 DEF Spliced
      <4> QED BY <4>1, <4>2, <1>2, <1>4
    <3>2. CASE k > Len(p) - Len(old)
      <4>1. Len(new) + k = Len(q) + 1 /\ Len(old) + k = Len(p) + 1
        <5>1. Len(a) = Len(p) + 1
          BY <1>2
        <5>2. k \in Nat /\ k <= Len(a) - Len(old)
          BY <1>0, <5>1
        <5> HIDE DEF q
        <5> QED BY <3>2, <1>0, <1>l, <5>1, <5>2
      <4> QED BY <4>1, <1>2, <1>4
    <3> QED BY <3>1, <3>2, <1>0
  <2> QED BY <2>1, <2>2, <2>3 DEF Spliced
<1>7. Len(old) <= Len(a)
  BY <1>0, <1>2
<1>8. Rebase(a, old, new) = b
  BY <1>2, <1>4, <1>5, <1>6, <1>7, SplicedUnique
<1> QED
  BY <1>8 DEF a, b, q

\* Prefixes below a common beginning stay prefixes.
LEMMA RebasePrefix ==
    ASSUME NEW S, NEW p \in Seq(S), NEW q \in Seq(S), NEW old \in Seq(S), NEW new \in Seq(S),
           IsPrefix(old, p), IsPrefix(p, q)
    PROVE  IsPrefix(Rebase(p, old, new), Rebase(q, old, new))
<1>1. Len(p) \in Nat /\ Len(q) \in Nat /\ Len(old) \in Nat /\ Len(new) \in Nat
  OBVIOUS
<1>2. IsPrefix(old, q) /\ Len(old) <= Len(p) /\ Len(p) <= Len(q)
  BY PrefixOrder
<1> DEFINE a == Rebase(p, old, new)
           b == Rebase(q, old, new)
<1>3. a \in Seq(S) /\ Spliced(a, p, old, new) /\ b \in Seq(S) /\ Spliced(b, q, old, new)
  BY <1>2, RebaseFacts
<1> HIDE DEF a, b
<1>4. Len(a) = Len(new) + Len(p) - Len(old) /\ Len(b) = Len(new) + Len(q) - Len(old)
  BY <1>3 DEF Spliced
<1>5. ASSUME NEW k \in 1 .. Len(a) PROVE a[k] = b[k]
  <2>1. CASE k <= Len(new)
    BY <2>1, <1>1, <1>3 DEF Spliced
  <2>2. CASE k > Len(new)
    <3>1. /\ k - Len(new) \in 1 .. Len(p) - Len(old) /\ k = Len(new) + (k - Len(new))
          /\ k - Len(new) \in 1 .. Len(q) - Len(old) /\ Len(old) + (k - Len(new)) \in 1 .. Len(p)
      BY <2>2, <1>1, <1>2, <1>4
    <3>2. /\ a[Len(new) + (k - Len(new))] = p[Len(old) + (k - Len(new))]
          /\ b[Len(new) + (k - Len(new))] = q[Len(old) + (k - Len(new))]
      BY <3>1, <1>3 DEF Spliced
    <3>3. p[Len(old) + (k - Len(new))] = q[Len(old) + (k - Len(new))]
      BY <3>1, PrefixPointwise
    <3> QED BY <3>1, <3>2, <3>3
  <2> QED BY <2>1, <2>2, <1>1
<1>6. Len(a) <= Len(b)
  BY <1>1, <1>2, <1>4
<1>7. IsPrefix(a, b)
  BY <1>3, <1>5, <1>6, PrefixPointwise
<1> QED
  BY <1>7 DEF a, b

\* The library's Prefixes in terms of IsPrefix.
LEMMA PrefixesAre ==
    ASSUME NEW S, NEW q \in Seq(S)
    PROVE  Prefixes(q) = {p \in Seq(S) : IsPrefix(p, q)}
<1>1. ASSUME NEW l \in 0 .. Len(q) PROVE SubSeq(q, 1, l) \in Seq(S) /\ IsPrefix(SubSeq(q, 1, l), q)
  <2>0. Len(q) \in Nat /\ l \in Nat /\ l <= Len(q) /\ l - 1 + 1 = l
    OBVIOUS
  <2>1. \A i \in 1 .. l : q[i] \in S
    BY <2>0, ElementOfSeq
  <2>2. /\ SubSeq(q, 1, l) \in Seq(S) /\ Len(SubSeq(q, 1, l)) = IF 1 <= l THEN l - 1 + 1 ELSE 0
        /\ \A k \in 1 .. l - 1 + 1 : SubSeq(q, 1, l)[k] = q[1 + k - 1]
    BY <2>0, <2>1, SubSeqProperties
  <2> DEFINE t == SubSeq(q, 1, l)
  <2> HIDE DEF t
  <2>3. t \in Seq(S) /\ Len(t) = l
    BY <2>0, <2>2 DEF t
  <2>4. \A k \in 1 .. l : t[k] = q[k]
    BY <2>0, <2>2 DEF t
  <2>5. IsPrefix(t, q)
    BY <2>0, <2>3, <2>4, PrefixPointwise
  <2> QED BY <2>3, <2>5 DEF t
<1>2. ASSUME NEW p \in Seq(S), IsPrefix(p, q) PROVE Len(p) \in 0 .. Len(q) /\ p = SubSeq(q, 1, Len(p))
  BY <1>2, SubSeqFull DEF IsPrefix
<1> QED
  BY <1>1, <1>2 DEF Prefixes

\* Induction over the length of paths: a set of paths that is not empty has a
\* shortest one.
LEMMA Shortest ==
    ASSUME NEW S, NEW T, T \subseteq Seq(S), T # {}
    PROVE  \E p \in T : \A q \in T : Len(p) <= Len(q)
<1> DEFINE N == {Len(p) : p \in T}
<1>1. N \subseteq Nat /\ N # {}
  <2>1. \A p \in T : Len(p) \in Nat
    OBVIOUS
  <2> QED BY <2>1
<1> DEFINE R == {ss \in Nat \X Nat : ss[1] < ss[2]}
<1>2. IsWellFoundedOn(R, Nat)
  BY NatLessThanWellFounded DEF OpToRel
<1> HIDE DEF N, R
<1>3. \E x \in N : \A y \in N : ~(<<y, x>> \in R)
  BY <1>1, <1>2, WFMin
<1>4. \E x \in N : \A y \in N : ~(y < x)
  BY <1>1, <1>3 DEF R
<1>5. PICK p \in T : \A q \in T : ~(Len(q) < Len(p))
  BY <1>4 DEF N
<1> QED
  BY <1>5
-----------------------------------------------------------------------------
(* The inductive invariant, in parts.  All of it is said of states in which *)
(* no rename has replaced a file, and no client's file a directory's list.  *)

NameSet == [base : Bases \cup {"", ".trash"}, tags : Seq(Nat)] \ {aclFileName}
PathSet == Seq(NameSet)
InodeSet == [type : {"file", "dir"}, name : NameSet, parent : Ids, path : PathSet,
             kids : SUBSET Ids, shared : SUBSET Grantees, size : Nat]
GrantSet == [path : PathSet, user : Grantees]
MetaSet == [parent : Ids, name : NameSet, path : PathSet, shares : SUBSET GrantSet]

\* Parent, kids, name and path are one tree, with a root and a trash in it.
TreeOK(n) ==
    /\ n \in [DOMAIN n -> InodeSet] /\ DOMAIN n \subseteq Ids
    /\ Root \in DOMAIN n /\ n[Root].path = <<>> /\ n[Root].parent = Root /\ n[Root].type = "dir"
    /\ \A i \in DOMAIN n \ {Root} :
          /\ n[i].parent \in DOMAIN n /\ n[n[i].parent].type = "dir"
          /\ n[i].path = Append(n[n[i].parent].path, n[i].name)
    /\ \A i \in DOMAIN n : n[i].kids = {j \in DOMAIN n \ {Root} : n[j].parent = i}
    /\ \A i, j \in DOMAIN n : n[i].path = n[j].path => i = j
    /\ \E t \in DOMAIN n : n[t].path = TrashPath /\ n[t].type = "dir"

\* An index in which an id is given once and the root's is Root, or none.
IndexOK(ix) ==
    /\ ix = [ids |-> ix.ids, next |-> ix.next] /\ ix.next \in 0 .. MaxId
    /\ ix.ids \in [DOMAIN ix.ids -> 0 .. ix.next - 1] /\ DOMAIN ix.ids \subseteq PathSet
    /\ \A p, q \in DOMAIN ix.ids : ix.ids[p] = ix.ids[q] => p = q
    /\ \/ DOMAIN ix.ids = {} /\ ix.next = 0
       \/ <<>> \in DOMAIN ix.ids /\ ix.ids[<<>>] = Root
\* Every inode has its number from the index.
Numbered(n, ix) == \A i \in DOMAIN n : n[i].path \in DOMAIN ix.ids /\ ix.ids[n[i].path] = i

\* A tree of files with a trash in it.
FilesOK(files) ==
    /\ files \in [DOMAIN files -> Entry]
    /\ IsFiniteSet(DOMAIN files) /\ DOMAIN files \subseteq PathSet
    /\ \A p \in {<<>>, TrashPath} : p \in DOMAIN files /\ files[p].type = "dir"
    /\ \A p \in DOMAIN files \ {<<>>} : Front(p) \in DOMAIN files /\ files[Front(p)].type = "dir"
\* The files are those of the tree.
Match(n, files) ==
    /\ {n[i].path : i \in DOMAIN n} = DOMAIN files
    /\ \A i \in DOMAIN n : /\ files[n[i].path].type = n[i].type
                           /\ n[i].type = "file" => files[n[i].path].size = n[i].size
\* What a restart can work with.
DurableOK(d) ==
    /\ d = [files |-> d.files, index |-> d.index, shares |-> d.shares, quota |-> d.quota]
    /\ FilesOK(d.files) /\ IndexOK(d.index) /\ d.shares \subseteq GrantSet /\ d.quota \in Nat
-----------------------------------------------------------------------------
(* The tree. *)

\* The root's and the trash's paths are paths.
LEMMA EmptyPath == <<>> \in PathSet /\ TrashPath \in PathSet /\ trashDirName \in NameSet /\ Name("", <<>>) \in NameSet
                   /\ TrashPath = Append(<<>>, trashDirName) /\ TrashPath # <<>>
<1>1. <<>> \in Seq(Nat) /\ <<>> \in Seq(NameSet)
  OBVIOUS
<1>2. trashDirName \in NameSet /\ Name("", <<>>) \in NameSet
  BY <1>1 DEF trashDirName, aclFileName, Name, NameSet
<1>3. \A x \in NameSet : <<x>> \in Seq(NameSet) /\ <<x>> = Append(<<>>, x) /\ <<x>> # <<>>
  OBVIOUS
<1> QED
  BY <1>1, <1>2, <1>3 DEF TrashPath, PathSet

\* No path among these is that of an .acl file.
LEMMA NoACLFile ==
    \A p \in PathSet : ~IsACLFile(p) /\ Append(p, aclFileName) \notin PathSet
<1>1. aclFileName \notin NameSet
  BY DEF NameSet
<1>2. ASSUME NEW p \in Seq(NameSet), p # <<>> PROVE Last(p) # aclFileName
  <2>1. Len(p) \in 1 .. Len(p) /\ Last(p) = p[Len(p)]
    BY <1>2 DEF Last
  <2>2. p[Len(p)] \in NameSet
    BY <2>1
  <2> QED BY <1>1, <2>1, <2>2
<1>3. ASSUME NEW p \in Seq(NameSet), Append(p, aclFileName) \in Seq(NameSet) PROVE FALSE
  <2> DEFINE q == Append(p, aclFileName)
  <2>1. Len(p) + 1 \in 1 .. Len(q) /\ q[Len(p) + 1] = aclFileName
    OBVIOUS
  <2>2. q[Len(p) + 1] \in NameSet
    BY <1>3, <2>1
  <2> QED BY <1>1, <2>1, <2>2
<1> QED
  BY <1>2, <1>3 DEF PathSet, IsACLFile

\* A path tells its parent's path and its name.
LEMMA PathAppend ==
    \A p, q \in PathSet : \A m, n \in NameSet : Append(p, m) = Append(q, n) => p = q /\ m = n
  BY AppendsEqual DEF PathSet

\* Above every inode but the root is its parent.
LEMMA TreePaths ==
    ASSUME NEW n, TreeOK(n)
    PROVE  /\ \A i \in DOMAIN n : n[i].path \in PathSet /\ n[i].name \in NameSet /\ n[i].parent \in DOMAIN n
           /\ \A i \in DOMAIN n \ {Root} :
                 /\ n[i].path # <<>> /\ Front(n[i].path) = n[n[i].parent].path /\ Last(n[i].path) = n[i].name
                 /\ Len(n[i].path) = Len(n[n[i].parent].path) + 1
           /\ \A i \in DOMAIN n : \A j \in DOMAIN n \ {i} : IsPrefix(n[i].path, n[j].path) =>
                 j # Root /\ IsPrefix(n[i].path, n[n[j].parent].path)
           /\ \A i \in DOMAIN n : \A j \in DOMAIN n \ {Root} :
                 IsPrefix(n[i].path, n[n[j].parent].path) => IsPrefix(n[i].path, n[j].path)
<1>1. \A i \in DOMAIN n : n[i].path \in PathSet /\ n[i].name \in NameSet /\ n[i].parent \in DOMAIN n
  BY DEF TreeOK, InodeSet
<1>2. ASSUME NEW i \in DOMAIN n \ {Root}
      PROVE  /\ n[i].path # <<>> /\ Front(n[i].path) = n[n[i].parent].path /\ Last(n[i].path) = n[i].name
             /\ Len(n[i].path) = Len(n[n[i].parent].path) + 1
  <2> DEFINE p == n[i].path
             q == n[n[i].parent].path
  <2>1. p = Append(q, n[i].name) /\ p \in Seq(NameSet) /\ q \in Seq(NameSet) /\ n[i].name \in NameSet
    BY <1>1 DEF TreeOK, PathSet
  <2> HIDE DEF p, q
  <2>2. p # <<>> /\ Len(p) = Len(q) + 1
    BY <2>1, AppendFacts
  <2>3. p = Append(Front(p), Last(p)) /\ Front(p) \in Seq(NameSet) /\ Last(p) \in NameSet
    BY <2>1, <2>2, FrontLast
  <2>4. Front(p) = q /\ Last(p) = n[i].name
    BY <2>1, <2>3, AppendsEqual
  <2> QED
    BY <2>2, <2>4 DEF p, q
<1>3. ASSUME NEW i \in DOMAIN n, NEW j \in DOMAIN n \ {i}, IsPrefix(n[i].path, n[j].path)
      PROVE  j # Root /\ IsPrefix(n[i].path, n[n[j].parent].path)
  <2>1. n[i].path # n[j].path
    BY DEF TreeOK
  <2>2. j # Root
    <3> SUFFICES ASSUME j = Root PROVE FALSE
      OBVIOUS
    <3>1. n[j].path = <<>> /\ IsPrefix(<<>>, n[i].path)
      BY <1>1, PrefixOrder DEF TreeOK, PathSet
    <3> QED
      BY <3>1, <2>1, <1>1, <1>3, PrefixOrder DEF PathSet
  <2>3. n[j].path = Append(n[n[j].parent].path, n[j].name)
    BY <2>2 DEF TreeOK
  <2> QED
    BY <1>1, <1>3, <2>1, <2>2, <2>3, PrefixAppend DEF PathSet
<1>4. ASSUME NEW i \in DOMAIN n, NEW j \in DOMAIN n \ {Root}, IsPrefix(n[i].path, n[n[j].parent].path)
      PROVE  IsPrefix(n[i].path, n[j].path)
  <2>1. n[j].path = Append(n[n[j].parent].path, n[j].name)
    BY DEF TreeOK
  <2> QED
    BY <1>1, <1>4, <2>1, PrefixAppend DEF PathSet
<1> QED
  BY <1>1, <1>2, <1>3, <1>4

\* Every path above an inode's is an inode's.
LEMMA Ancestors ==
    ASSUME NEW n, TreeOK(n), NEW j \in DOMAIN n, NEW p \in PathSet, IsPrefix(p, n[j].path)
    PROVE  \E i \in DOMAIN n : n[i].path = p /\ (i # j => n[i].type = "dir")
<1> DEFINE T == {k \in DOMAIN n : IsPrefix(p, n[k].path) /\ n[k].path # p}
           Q == {n[k].path : k \in T}
<1>1. CASE n[j].path = p
  BY <1>1
<1>2. CASE n[j].path # p
  <2>1. Q # {} /\ Q \subseteq Seq(NameSet)
    BY <1>2, TreePaths DEF PathSet
  <2> HIDE DEF Q
  <2>2. PICK q \in Q : \A r \in Q : Len(q) <= Len(r)
    BY <2>1, Shortest
  <2>3. PICK k \in T : q = n[k].path
    BY DEF Q
  <2>4. k # Root
    <3>1. k = Root => p = <<>>
      <4> HAVE k = Root
      <4>1. n[k].path = <<>> /\ IsPrefix(<<>>, p) /\ <<>> \in PathSet
        BY PrefixOrder, EmptyPath DEF TreeOK, PathSet
      <4> QED
        BY <4>1, <2>3, PrefixOrder DEF PathSet
    <3> QED
      BY <3>1, <2>3 DEF TreeOK
  <2> DEFINE h == n[k].parent
  <2>5. h \in DOMAIN n /\ n[h].type = "dir" /\ n[k].path = Append(n[h].path, n[k].name)
    BY <2>4, <2>3 DEF TreeOK
  <2>6. n[h].path \in PathSet /\ n[k].name \in NameSet /\ Len(n[k].path) = Len(n[h].path) + 1 /\ Len(n[h].path) \in Nat
    <3>1. h \in DOMAIN n
      BY <2>5
    <3>2. n[h].path \in PathSet /\ n[k].name \in NameSet /\ Len(n[k].path) = Len(n[h].path) + 1
      BY <3>1, <2>3, <2>4, TreePaths
    <3> QED
      BY <3>2, LenProperties DEF PathSet
  <2> HIDE DEF h
  <2>7. IsPrefix(p, n[h].path)
    BY <2>3, <2>5, <2>6, PrefixAppend DEF PathSet
  <2>8. ~(h \in T)
    <3> SUFFICES ASSUME h \in T PROVE FALSE
      OBVIOUS
    <3>1. n[h].path \in Q
      BY DEF Q
    <3>2. Len(q) <= Len(n[h].path)
      BY <3>1, <2>2
    <3> QED
      BY <3>2, <2>3, <2>6
  <2>9. n[h].path = p
    BY <2>5, <2>7, <2>8
  <2> QED
    BY <2>5, <2>9
<1> QED
  BY <1>1, <1>2

\* What collectSubtreeInodes finds along Children is what lies below by path.
LEMMA SubtreeIs ==
    ASSUME TreeOK(inodes), NEW i \in Live
    PROVE  Subtree(i) = {j \in Live : IsPrefix(Path(i), Path(j))}
<1> USE DEF Live, Path
<1> DEFINE T == {j \in Live : IsPrefix(Path(i), Path(j))}
           Closed(S) == i \in S /\ \A k \in S : inodes[k].kids \cap Live \subseteq S
<1>1. Closed(T)
  <2>1. i \in T
    BY TreePaths, PrefixOrder DEF PathSet
  <2>2. ASSUME NEW k \in T, NEW j \in inodes[k].kids PROVE j \in T
    <3>1. j \in Live \ {Root} /\ inodes[j].parent = k
      BY DEF TreeOK
    <3> QED
      BY <3>1, TreePaths
  <2> QED
    BY <2>1, <2>2
<1>2. ASSUME NEW S \in SUBSET Live, Closed(S) PROVE T \subseteq S
  <2> DEFINE Q == {Path(k) : k \in T \ S}
  <2> SUFFICES ASSUME T \ S # {} PROVE FALSE
    OBVIOUS
  <2>1. Q # {} /\ Q \subseteq Seq(NameSet)
    BY TreePaths DEF PathSet
  <2> HIDE DEF Q
  <2>2. PICK q \in Q : \A r \in Q : Len(q) <= Len(r)
    BY <2>1, Shortest
  <2>3. PICK k \in T \ S : q = Path(k)
    BY DEF Q
  <2>4. k # i
    BY <1>2
  <2> DEFINE h == inodes[k].parent
  <2>5. k # Root /\ IsPrefix(Path(i), Path(h)) /\ h \in Live
    BY <2>4, TreePaths
  <2>6. Len(Path(k)) = Len(Path(h)) + 1 /\ Len(Path(h)) \in Nat
    BY <2>5, TreePaths, LenProperties DEF PathSet
  <2>7. h \in S
    <3> SUFFICES ASSUME h \notin S PROVE FALSE
      OBVIOUS
    <3>1. Path(h) \in Q
      BY <2>5 DEF Q
    <3>2. Len(q) <= Len(Path(h))
      BY <3>1, <2>2
    <3> HIDE DEF h, Path
    <3> QED
      BY <3>2, <2>3, <2>6
  <2>8. k \in inodes[h].kids \cap Live
    BY <2>5 DEF TreeOK
  <2> QED
    BY <1>2, <2>7, <2>8
<1>3. T \in SUBSET Live
  OBVIOUS
<1> HIDE DEF T
<1>4. Subtree(i) = {j \in Live : \A S \in {S \in SUBSET Live : Closed(S)} : j \in S}
  BY DEF Subtree
<1>5. Subtree(i) = T
  BY <1>1, <1>2, <1>3, <1>4
<1> QED
  BY <1>5 DEF T

\* The ancestors along Parent are the inodes whose path is a prefix.
LEMMA ChainIs ==
    ASSUME TreeOK(inodes), NEW i \in Live
    PROVE  Chain(i) = {j \in Live : IsPrefix(Path(j), Path(i))}
<1> USE DEF Live, Path
<1> DEFINE T == {j \in Live : IsPrefix(Path(j), Path(i))}
           Closed(S) == i \in S /\ \A k \in S : {inodes[k].parent} \cap Live \subseteq S
<1>1. Closed(T)
  <2>1. i \in T
    BY TreePaths, PrefixOrder DEF PathSet
  <2>2. ASSUME NEW k \in T PROVE inodes[k].parent \in T
    <3> DEFINE h == inodes[k].parent
    <3>1. h \in Live /\ Path(h) \in PathSet /\ Path(k) \in PathSet /\ Path(i) \in PathSet
      BY TreePaths
    <3>2. IsPrefix(Path(h), Path(h))
      BY <3>1, PrefixOrder DEF PathSet
    <3>3. IsPrefix(Path(h), Path(k))
      <4>1. CASE k = Root
        BY <3>2, <4>1 DEF TreeOK
      <4>2. CASE k # Root
        BY <3>1, <3>2, <4>2, TreePaths
      <4> QED BY <4>1, <4>2
    <3> QED
      BY <3>1, <3>3, PrefixOrder DEF PathSet
  <2> QED
    BY <2>1, <2>2
<1>2. ASSUME NEW S \in SUBSET Live, Closed(S) PROVE T \subseteq S
  <2> SUFFICES ASSUME NEW j \in T PROVE j \in S
    OBVIOUS
  <2> DEFINE Q == {Path(k) : k \in {k \in S : IsPrefix(Path(j), Path(k))}}
  <2>1. Q # {} /\ Q \subseteq Seq(NameSet)
    BY <1>2, TreePaths DEF PathSet
  <2> HIDE DEF Q
  <2>2. PICK q \in Q : \A r \in Q : Len(q) <= Len(r)
    BY <2>1, Shortest
  <2>3. PICK k \in S : IsPrefix(Path(j), Path(k)) /\ q = Path(k)
    BY DEF Q
  <2> SUFFICES ASSUME k # j PROVE FALSE
    BY <2>3
  <2> DEFINE h == inodes[k].parent
  <2>5. k # Root /\ IsPrefix(Path(j), Path(h)) /\ h \in Live
    BY <2>3, TreePaths
  <2>6. Len(Path(k)) = Len(Path(h)) + 1 /\ Len(Path(h)) \in Nat
    BY <2>5, TreePaths, LenProperties DEF PathSet
  <2>7. h \in S
    BY <2>5, <1>2
  <2>8. Path(h) \in Q
    BY <2>5, <2>7 DEF Q
  <2>9. Len(q) <= Len(Path(h))
    BY <2>8, <2>2
  <2> HIDE DEF h, Path
  <2> QED
    BY <2>9, <2>3, <2>6
<1>3. T \in SUBSET Live
  OBVIOUS
<1> HIDE DEF T
<1>4. Chain(i) = {j \in Live : \A S \in {S \in SUBSET Live : Closed(S)} : j \in S}
  BY DEF Chain
<1>5. Chain(i) = T
  BY <1>1, <1>2, <1>3, <1>4
<1> QED
  BY <1>5 DEF T

\* The trash is a directory of the root, and there is one.
LEMMA TrashIs ==
    ASSUME TreeOK(inodes)
    PROVE  /\ Trash \in Live /\ Path(Trash) = TrashPath /\ inodes[Trash].type = "dir" /\ Trash # Root
           /\ \A i \in Live : Path(i) = TrashPath => i = Trash
           /\ inodes[Trash].parent = Root
           /\ \A i \in Live \ {Root, Trash} : ~IsPrefix(Path(i), TrashPath) /\ Trash \notin Subtree(i)
<1> USE DEF Live, Path
<1>1. PICK t \in Live : Path(t) = TrashPath /\ inodes[t].type = "dir"
  BY DEF TreeOK
<1>2. \A i \in Live : Path(i) = TrashPath => i = t
  BY <1>1 DEF TreeOK
<1>3. Trash = t
  BY <1>1, <1>2 DEF Trash
<1>4. t # Root
  BY <1>1, EmptyPath DEF TreeOK
<1>5. Path(inodes[t].parent) = <<>>
  <2> DEFINE h == inodes[t].parent
  <2>1. h \in Live /\ TrashPath = Append(Path(h), inodes[t].name) /\ Path(h) \in PathSet /\ inodes[t].name \in NameSet
    BY <1>1, <1>4, TreePaths DEF TreeOK
  <2> HIDE DEF h
  <2>2. <<>> = Path(h)
    <3>1. Append(<<>>, trashDirName) = Append(Path(h), inodes[t].name)
      BY <2>1, EmptyPath
    <3> HIDE DEF Path
    <3> QED BY <2>1, <3>1, EmptyPath, PathAppend, Zenon
  <2> QED BY <2>2 DEF h
<1>6. inodes[t].parent = Root
  BY <1>1, <1>4, <1>5 DEF TreeOK
<1>7. ASSUME NEW i \in Live \ {Root, t} PROVE ~IsPrefix(Path(i), TrashPath)
  <2> SUFFICES ASSUME IsPrefix(Path(i), Path(t)) PROVE FALSE
    BY <1>1
  <2>1. IsPrefix(Path(i), Path(Root))
    BY <1>1, <1>6, TreePaths
  <2>2. Root \in Live /\ Root # i
    BY DEF TreeOK
  <2> QED
    BY <2>1, <2>2, TreePaths
<1>8. ASSUME NEW i \in Live \ {Root, t} PROVE t \notin Subtree(i)
  <2>1. ~IsPrefix(Path(i), Path(t))
    BY <1>1, <1>7
  <2> QED
    BY <2>1, SubtreeIs
<1> QED
  BY <1>1, <1>2, <1>3, <1>4, <1>6, <1>7, <1>8

\* A directory has a child of that name if and only if its path is taken.
LEMMA ChildPath ==
    ASSUME TreeOK(inodes), NEW d \in Live, NEW name \in NameSet
    PROVE  /\ \A k \in Live : Path(k) = Append(Path(d), name) <=> k \in GetChildInodeByName(d, name)
           /\ Append(Path(d), name) \in PathSet
<1> USE DEF Live, Path
<1>0. Path(d) \in PathSet /\ Append(Path(d), name) \in PathSet
  BY TreePaths DEF PathSet
<1>1. ASSUME NEW k \in Live, Path(k) = Append(Path(d), name) PROVE k \in GetChildInodeByName(d, name)
  <2>1. k # Root
    BY <1>0, <1>1, AppendFacts DEF TreeOK, PathSet
  <2> DEFINE h == inodes[k].parent
  <2>2. h \in Live /\ Path(k) = Append(Path(h), inodes[k].name) /\ Path(h) \in PathSet /\ inodes[k].name \in NameSet
    BY <2>1, TreePaths DEF TreeOK
  <2> HIDE DEF h
  <2>3. Path(h) = Path(d) /\ inodes[k].name = name
    <3>1. Append(Path(d), name) = Append(Path(h), inodes[k].name)
      BY <1>1, <2>2
    <3> HIDE DEF Path
    <3>2. Path(d) \in PathSet /\ Path(h) \in PathSet /\ name \in NameSet /\ inodes[k].name \in NameSet
      BY <1>0, <2>2
    <3>3. Path(d) = Path(h) /\ name = inodes[k].name
      BY <3>1, <3>2, PathAppend
    <3> QED BY <3>3
  <2>4. h = d
    BY <2>2, <2>3 DEF TreeOK
  <2>5. k \in inodes[d].kids
    BY <2>1, <2>4 DEF h, TreeOK
  <2> QED
    BY <2>3, <2>5 DEF GetChildInodeByName
<1>2. ASSUME NEW k \in GetChildInodeByName(d, name) PROVE Path(k) = Append(Path(d), name)
  <2>1. k \in Live \ {Root} /\ inodes[k].parent = d /\ inodes[k].name = name
    BY DEF GetChildInodeByName, TreeOK
  <2> QED
    BY <2>1 DEF TreeOK
<1> QED
  BY <1>0, <1>1, <1>2

\* Sizes and ACLs do not make the tree.
LEMMA SameTree ==
    ASSUME NEW n, TreeOK(n), NEW m, m \in [DOMAIN n -> InodeSet],
           \A i \in DOMAIN n : /\ m[i].path = n[i].path /\ m[i].parent = n[i].parent /\ m[i].name = n[i].name
                               /\ m[i].kids = n[i].kids /\ m[i].type = n[i].type
    PROVE  TreeOK(m)
<1>1. DOMAIN m = DOMAIN n
  OBVIOUS
<1>2. \A i \in DOMAIN n \ {Root} : n[i].parent \in DOMAIN n
  BY DEF TreeOK
<1>3. \A i \in DOMAIN m \ {Root} :
          /\ m[i].parent \in DOMAIN m /\ m[m[i].parent].type = "dir"
          /\ m[i].path = Append(m[m[i].parent].path, m[i].name)
  <2> TAKE i \in DOMAIN m \ {Root}
  <2> DEFINE h == n[i].parent
  <2>1. h \in DOMAIN n /\ n[h].type = "dir" /\ n[i].path = Append(n[h].path, n[i].name)
    BY <1>1 DEF TreeOK
  <2>2. m[i].parent = h /\ m[h].type = n[h].type /\ m[h].path = n[h].path
    BY <1>1, <2>1
  <2> QED BY <1>1, <2>1, <2>2
<1>4. \A i \in DOMAIN m : m[i].kids = {j \in DOMAIN m \ {Root} : m[j].parent = i}
  <2> TAKE i \in DOMAIN m
  <2>1. n[i].kids = {j \in DOMAIN n \ {Root} : n[j].parent = i}
    BY DEF TreeOK
  <2> QED BY <2>1, <1>1
<1> QED
  BY <1>1, <1>3, <1>4 DEF TreeOK

\* The fields of an inode written out.
LEMMA InodeRecord ==
    ASSUME NEW t, NEW a, NEW h, NEW q, NEW K, NEW A, NEW s,
           NEW r, r = [type |-> t, name |-> a, parent |-> h, path |-> q, kids |-> K, shared |-> A, size |-> s]
    PROVE  r.type = t /\ r.name = a /\ r.parent = h /\ r.path = q /\ r.kids = K /\ r.shared = A /\ r.size = s
  OBVIOUS

\* The updates the methods make give inodes again.
LEMMA InodeUpdates ==
    ASSUME NEW r \in InodeSet, NEW K \in SUBSET Ids, NEW A \in SUBSET Grantees, NEW s \in Nat,
           NEW q \in PathSet, NEW h \in Ids, NEW a \in NameSet
    PROVE  /\ [r EXCEPT !.kids = K] \in InodeSet /\ [r EXCEPT !.shared = A] \in InodeSet
           /\ [r EXCEPT !.size = s] \in InodeSet
           /\ [r EXCEPT !.kids = K, !.parent = h, !.name = a, !.path = q] \in InodeSet
  BY DEF InodeSet

\* The types of an inode's fields.
LEMMA InodeFields ==
    ASSUME NEW r \in InodeSet
    PROVE  /\ r.type \in {"file", "dir"} /\ r.name \in NameSet /\ r.parent \in Ids /\ r.path \in PathSet
           /\ r.kids \in SUBSET Ids /\ r.shared \in SUBSET Grantees /\ r.size \in Nat
  BY DEF InodeSet

\* An update of an inode changes the fields it names.
LEMMA InodeEqual ==
    ASSUME NEW r \in InodeSet, NEW K, NEW A, NEW s, NEW h, NEW a, NEW q,
           NEW x, x = [r EXCEPT !.kids = K], NEW y, y = [r EXCEPT !.shared = A], NEW z, z = [r EXCEPT !.size = s],
           NEW w, w = [r EXCEPT !.kids = K, !.parent = h, !.name = a, !.path = q]
    PROVE  /\ x.kids = K /\ x.type = r.type /\ x.name = r.name /\ x.parent = r.parent /\ x.path = r.path
           /\ x.shared = r.shared /\ x.size = r.size
           /\ y.shared = A /\ y.type = r.type /\ y.name = r.name /\ y.parent = r.parent /\ y.path = r.path
           /\ y.kids = r.kids /\ y.size = r.size
           /\ z.size = s /\ z.type = r.type /\ z.name = r.name /\ z.parent = r.parent /\ z.path = r.path
           /\ z.kids = r.kids /\ z.shared = r.shared
           /\ w.kids = K /\ w.parent = h /\ w.name = a /\ w.path = q /\ w.type = r.type
           /\ w.shared = r.shared /\ w.size = r.size
  BY DEF InodeSet

\* m is n with the inode i at p below d.
TreeAdded(n, m, i, d, name, p, type) ==
    /\ m \in [DOMAIN n \cup {i} -> InodeSet]
    /\ m[i].path = p /\ m[i].parent = d /\ m[i].name = name /\ m[i].kids = {}
    /\ m[i].type = type /\ m[i].shared = n[d].shared /\ m[i].size = 0
    /\ \A j \in DOMAIN n : /\ m[j].path = n[j].path /\ m[j].parent = n[j].parent /\ m[j].name = n[j].name
                           /\ m[j].type = n[j].type /\ m[j].shared = n[j].shared /\ m[j].size = n[j].size
                           /\ m[j].kids = IF j = d THEN n[j].kids \cup {i} ELSE n[j].kids

\* A new inode below a directory, at a path that is free.
LEMMA CreateTree ==
    ASSUME NEW n, TreeOK(n), NEW d \in DOMAIN n, n[d].type = "dir", NEW name \in NameSet,
           NEW i \in Ids \ DOMAIN n, \A k \in DOMAIN n : n[k].path # Append(n[d].path, name), NEW t,
           NEW m, TreeAdded(n, m, i, d, name, Append(n[d].path, name), t)
    PROVE  TreeOK(m)
<1>a. /\ m \in [DOMAIN n \cup {i} -> InodeSet]
      /\ m[i].path = Append(n[d].path, name) /\ m[i].parent = d /\ m[i].name = name /\ m[i].kids = {}
      /\ \A j \in DOMAIN n : /\ m[j].path = n[j].path /\ m[j].parent = n[j].parent /\ m[j].name = n[j].name
                             /\ m[j].type = n[j].type
                             /\ m[j].kids = IF j = d THEN n[j].kids \cup {i} ELSE n[j].kids
  BY DEF TreeAdded
<1> USE <1>a
<1>2. DOMAIN m = DOMAIN n \cup {i} /\ DOMAIN m \subseteq Ids /\ m \in [DOMAIN m -> InodeSet]
  BY DEF TreeOK
<1>8. i # Root /\ d # i
  BY DEF TreeOK
<1>9. ASSUME NEW j \in DOMAIN m \ {Root}
      PROVE  /\ m[j].parent \in DOMAIN m /\ m[m[j].parent].type = "dir"
             /\ m[j].path = Append(m[m[j].parent].path, m[j].name)
  <2>1. CASE j = i
    <3>1. m[d].type = "dir" /\ m[d].path = n[d].path
      OBVIOUS
    <3> QED BY <2>1, <3>1, <1>2
  <2>2. CASE j # i
    <3>1. j \in DOMAIN n \ {Root}
      BY <2>2, <1>2
    <3> DEFINE h == n[j].parent
    <3>2. h \in DOMAIN n /\ n[h].type = "dir" /\ n[j].path = Append(n[h].path, n[j].name)
      BY <3>1 DEF TreeOK
    <3>3. m[j].parent = h /\ m[h].type = n[h].type /\ m[h].path = n[h].path /\ m[j].path = n[j].path /\ m[j].name = n[j].name
      BY <3>1, <3>2
    <3> QED BY <1>2, <3>2, <3>3
  <2> QED BY <2>1, <2>2
<1>10. ASSUME NEW j \in DOMAIN m PROVE m[j].kids = {k \in DOMAIN m \ {Root} : m[k].parent = j}
  <2>1. CASE j = i
    <3>1. \A k \in DOMAIN n : n[k].parent \in DOMAIN n
      BY TreePaths
    <3>2. ASSUME NEW k \in DOMAIN m PROVE m[k].parent # i
      <4>1. CASE k = i
        BY <4>1, <1>8
      <4>2. CASE k # i
        <5>1. k \in DOMAIN n
          BY <1>2, <4>2
        <5>2. m[k].parent = n[k].parent /\ n[k].parent \in DOMAIN n
          BY <5>1, <3>1
        <5> QED BY <5>2
      <4> QED BY <4>1, <4>2
    <3> QED BY <2>1, <3>2
  <2>2. CASE j # i
    <3>1. j \in DOMAIN n
      BY <2>2, <1>2
    <3>2. n[j].kids = {k \in DOMAIN n \ {Root} : n[k].parent = j}
      BY <3>1 DEF TreeOK
    <3>3. m[j].kids = IF j = d THEN n[j].kids \cup {i} ELSE n[j].kids
      BY <3>1
    <3>4. \A k \in DOMAIN n : m[k].parent = n[k].parent
      OBVIOUS
    <3> QED BY <3>2, <3>3, <3>4, <1>2, <1>8
  <2> QED BY <2>1, <2>2
<1>11. ASSUME NEW j \in DOMAIN m, NEW k \in DOMAIN m, m[j].path = m[k].path PROVE j = k
  <2>1. \A a, b \in DOMAIN n : n[a].path = n[b].path => a = b
    BY DEF TreeOK
  <2>2. \A a \in DOMAIN n : m[a].path = n[a].path /\ n[a].path # m[i].path
    OBVIOUS
  <2>3. CASE j = i
    <3>1. k \in DOMAIN n => m[k].path # m[i].path
      BY <2>2
    <3> QED BY <2>3, <3>1, <1>11, <1>2
  <2>4. CASE k = i
    <3>1. j \in DOMAIN n => m[j].path # m[i].path
      BY <2>2
    <3> QED BY <2>4, <3>1, <1>11, <1>2
  <2>5. CASE j # i /\ k # i
    <3>1. j \in DOMAIN n /\ k \in DOMAIN n
      BY <2>5, <1>2
    <3>2. n[j].path = n[k].path
      BY <3>1, <2>2, <1>11
    <3> QED BY <3>1, <3>2, <2>1
  <2> QED BY <2>3, <2>4, <2>5
<1>12. \E h \in DOMAIN m : m[h].path = TrashPath /\ m[h].type = "dir"
  <2>1. PICK h \in DOMAIN n : n[h].path = TrashPath /\ n[h].type = "dir"
    BY DEF TreeOK
  <2> QED BY <2>1, <1>2
<1>13. Root \in DOMAIN m /\ m[Root].path = <<>> /\ m[Root].parent = Root /\ m[Root].type = "dir"
  <2>1. Root \in DOMAIN n /\ n[Root].path = <<>> /\ n[Root].parent = Root /\ n[Root].type = "dir"
    BY DEF TreeOK
  <2> QED BY <2>1, <1>2
<1> QED
  BY <1>2, <1>9, <1>10, <1>11, <1>12, <1>13 DEF TreeOK

\* Without a subtree that holds neither the root nor the trash.
LEMMA RemoveTree ==
    ASSUME NEW n, TreeOK(n), NEW i \in DOMAIN n, NEW gone, gone = {j \in DOMAIN n : IsPrefix(n[i].path, n[j].path)},
           i # Root, ~IsPrefix(n[i].path, TrashPath),
           NEW m, m \in [DOMAIN n \ gone -> InodeSet],
           \A j \in DOMAIN n \ gone : /\ m[j].path = n[j].path /\ m[j].parent = n[j].parent /\ m[j].name = n[j].name
                                      /\ m[j].type = n[j].type /\ m[j].kids = n[j].kids \ {i}
    PROVE  TreeOK(m)
<1>1. DOMAIN m = DOMAIN n \ gone /\ DOMAIN m \subseteq Ids
  BY DEF TreeOK
<1>2. Root \in DOMAIN n /\ n[Root].path = <<>> /\ n[Root].parent = Root /\ n[Root].type = "dir"
  BY DEF TreeOK
<1>3. Root \notin gone
  BY <1>2, TreePaths
<1>4. ASSUME NEW j \in DOMAIN m \ {Root} PROVE n[j].parent \in DOMAIN m
  <2>1. n[j].parent \in DOMAIN n /\ j \in DOMAIN n
    BY <1>1 DEF TreeOK
  <2> QED BY <1>1, <2>1, TreePaths
<1>5. ASSUME NEW j \in DOMAIN m \ {Root}
      PROVE  /\ m[j].parent \in DOMAIN m /\ m[m[j].parent].type = "dir"
             /\ m[j].path = Append(m[m[j].parent].path, m[j].name)
  <2> DEFINE h == n[j].parent
  <2>1. h \in DOMAIN m
    BY <1>4
  <2>2. n[h].type = "dir" /\ n[j].path = Append(n[h].path, n[j].name)
    BY <1>1 DEF TreeOK
  <2>3. m[j].parent = h /\ m[h].type = n[h].type /\ m[h].path = n[h].path /\ m[j].path = n[j].path /\ m[j].name = n[j].name
    BY <1>1, <2>1
  <2> QED BY <2>1, <2>2, <2>3
<1>6. ASSUME NEW j \in DOMAIN m PROVE m[j].kids = {k \in DOMAIN m \ {Root} : m[k].parent = j}
  <2>1. n[j].kids = {k \in DOMAIN n \ {Root} : n[k].parent = j} /\ m[j].kids = n[j].kids \ {i}
    BY <1>1 DEF TreeOK
  <2>2. ASSUME NEW k \in DOMAIN n \ {Root}, n[k].parent = j, k # i PROVE k \in DOMAIN m
    BY <1>1, <2>2, TreePaths
  <2>3. i \in gone
    BY TreePaths, PrefixOrder DEF PathSet
  <2>4. \A k \in DOMAIN m : m[k].parent = n[k].parent
    BY <1>1
  <2> QED BY <1>1, <2>1, <2>2, <2>3, <2>4
<1>7. ASSUME NEW j \in DOMAIN m, NEW k \in DOMAIN m, m[j].path = m[k].path PROVE j = k
  BY <1>1, <1>7 DEF TreeOK
<1>8. \E t \in DOMAIN m : m[t].path = TrashPath /\ m[t].type = "dir"
  <2>1. PICK t \in DOMAIN n : n[t].path = TrashPath /\ n[t].type = "dir"
    BY DEF TreeOK
  <2> QED BY <2>1, <1>1
<1>9. Root \in DOMAIN m /\ m[Root].path = <<>> /\ m[Root].parent = Root /\ m[Root].type = "dir"
  BY <1>1, <1>2, <1>3
<1>10. m \in [DOMAIN m -> InodeSet]
  BY <1>1
<1> QED
  BY <1>1, <1>5, <1>6, <1>7, <1>8, <1>9, <1>10 DEF TreeOK

\* m is n after inode i has moved to the directory d, its subtree with it.
Moved(n, m, i, d, name) ==
    /\ m \in [DOMAIN n -> InodeSet]
    /\ \A j \in DOMAIN n :
          /\ m[j].path = IF IsPrefix(n[i].path, n[j].path)
                         THEN Rebase(n[j].path, n[i].path, Append(n[d].path, name)) ELSE n[j].path
          /\ m[j].parent = (IF j = i THEN d ELSE n[j].parent)
          /\ m[j].name = (IF j = i THEN name ELSE n[j].name)
          /\ m[j].type = n[j].type
          /\ m[j].kids = (n[j].kids \ (IF j = n[i].parent THEN {i} ELSE {})) \cup (IF j = d THEN {i} ELSE {})
          /\ m[j].size = n[j].size /\ m[j].shared = n[j].shared
\* It may: it does not go below itself, and the path is free.
MayMove(n, i, d, name) ==
    /\ i \in DOMAIN n \ {Root} /\ d \in DOMAIN n /\ n[d].type = "dir" /\ name \in NameSet
    /\ ~IsPrefix(n[i].path, n[d].path) /\ ~IsPrefix(n[i].path, TrashPath)
    /\ \A k \in DOMAIN n : n[k].path # Append(n[d].path, name)

\* Nothing is below a path that is free.
LEMMA FreePath ==
    ASSUME NEW n, TreeOK(n), NEW new \in PathSet, \A k \in DOMAIN n : n[k].path # new
    PROVE  \A j \in DOMAIN n : ~IsPrefix(new, n[j].path)
  BY Ancestors

\* Where each path is before and after a move.
LEMMA MovedFacts ==
    ASSUME NEW n, TreeOK(n), NEW i, NEW d, NEW name, MayMove(n, i, d, name), NEW m, Moved(n, m, i, d, name)
    PROVE  LET old == n[i].path
               new == Append(n[d].path, name)
           IN  /\ old \in PathSet /\ new \in PathSet /\ DOMAIN m = DOMAIN n
               /\ m[i].path = new
               /\ \A j \in DOMAIN n : m[j].path \in PathSet /\ n[j].path \in PathSet /\ ~IsPrefix(new, n[j].path)
               /\ \A j \in DOMAIN n : ~IsPrefix(old, n[j].path) => m[j].path = n[j].path /\ ~IsPrefix(new, m[j].path)
               /\ \A j \in DOMAIN n : IsPrefix(old, n[j].path) =>
                     /\ m[j].path = Rebase(n[j].path, old, new) /\ IsPrefix(new, m[j].path)
                     /\ n[j].path = Rebase(m[j].path, new, old)
<1> DEFINE old == n[i].path
           new == Append(n[d].path, name)
<1>1. old \in PathSet /\ new \in PathSet /\ i \in DOMAIN n /\ d \in DOMAIN n
  BY TreePaths DEF PathSet, MayMove
<1>2. \A j \in DOMAIN n : n[j].path \in PathSet
  BY TreePaths
<1>3. \A j \in DOMAIN n : n[j].path # new
  BY DEF MayMove
<1>4. \A j \in DOMAIN n : m[j].path = IF IsPrefix(old, n[j].path) THEN Rebase(n[j].path, old, new) ELSE n[j].path
  BY DEF Moved
<1>5. DOMAIN m = DOMAIN n
  BY DEF Moved
<1> HIDE DEF old, new
<1>6. \A j \in DOMAIN n : ~IsPrefix(new, n[j].path)
  BY <1>1, <1>3, FreePath
<1>7. ASSUME NEW j \in DOMAIN n, IsPrefix(old, n[j].path)
      PROVE  /\ m[j].path = Rebase(n[j].path, old, new) /\ IsPrefix(new, m[j].path)
             /\ n[j].path = Rebase(m[j].path, new, old) /\ m[j].path \in PathSet
  BY <1>1, <1>2, <1>4, <1>7, RebaseBack DEF PathSet
<1>8. IsPrefix(old, n[i].path)
  BY <1>1, PrefixOrder DEF PathSet, old
<1>9. m[i].path = new
  BY <1>1, <1>4, <1>8, RebaseBack DEF PathSet, old
<1>10. ASSUME NEW j \in DOMAIN n, ~IsPrefix(old, n[j].path)
       PROVE  m[j].path = n[j].path /\ ~IsPrefix(new, m[j].path) /\ m[j].path \in PathSet
  BY <1>2, <1>4, <1>6, <1>10
<1> QED
  BY <1>1, <1>2, <1>5, <1>6, <1>7, <1>9, <1>10 DEF old, new

\* A move to a directory outside of what moves keeps the tree a tree.
LEMMA MoveTree ==
    ASSUME NEW n, TreeOK(n), NEW i, NEW d, NEW name, MayMove(n, i, d, name), NEW m, Moved(n, m, i, d, name)
    PROVE  TreeOK(m)
<1> DEFINE old == n[i].path
           new == Append(n[d].path, name)
<1>1. /\ old \in PathSet /\ new \in PathSet /\ DOMAIN m = DOMAIN n
      /\ m[i].path = new
      /\ \A j \in DOMAIN n : m[j].path \in PathSet /\ n[j].path \in PathSet /\ ~IsPrefix(new, n[j].path)
      /\ \A j \in DOMAIN n : ~IsPrefix(old, n[j].path) => m[j].path = n[j].path /\ ~IsPrefix(new, m[j].path)
      /\ \A j \in DOMAIN n : IsPrefix(old, n[j].path) =>
            /\ m[j].path = Rebase(n[j].path, old, new) /\ IsPrefix(new, m[j].path)
            /\ n[j].path = Rebase(m[j].path, new, old)
  BY MovedFacts
<1>2. /\ i \in DOMAIN n \ {Root} /\ d \in DOMAIN n /\ n[d].type = "dir" /\ name \in NameSet
      /\ ~IsPrefix(old, n[d].path) /\ ~IsPrefix(old, TrashPath)
  BY DEF MayMove
<1>3. m \in [DOMAIN m -> InodeSet] /\ DOMAIN m \subseteq Ids
  BY DEF Moved, TreeOK
<1>4. \A j \in DOMAIN n :
         /\ m[j].parent = (IF j = i THEN d ELSE n[j].parent)
         /\ m[j].name = (IF j = i THEN name ELSE n[j].name)
         /\ m[j].type = n[j].type
         /\ m[j].kids = (n[j].kids \ (IF j = n[i].parent THEN {i} ELSE {})) \cup (IF j = d THEN {i} ELSE {})
  BY DEF Moved
<1>5. new = Append(n[d].path, name)
  OBVIOUS
<1> HIDE DEF new, old
<1>6. Root \in DOMAIN m /\ m[Root].path = <<>> /\ m[Root].parent = Root /\ m[Root].type = "dir"
  <2>1. Root \in DOMAIN n /\ n[Root].path = <<>> /\ n[Root].parent = Root /\ n[Root].type = "dir"
    BY DEF TreeOK
  <2>2. ~IsPrefix(old, n[Root].path)
    BY <1>2, <2>1, TreePaths DEF old
  <2>3. m[Root].path = n[Root].path
    BY <1>1, <2>1, <2>2
  <2>4. m[Root].parent = Root /\ m[Root].type = "dir"
    BY <1>2, <1>4, <2>1
  <2> QED BY <1>1, <2>1, <2>3, <2>4
<1>7. ASSUME NEW j \in DOMAIN m \ {Root}
      PROVE  /\ m[j].parent \in DOMAIN m /\ m[m[j].parent].type = "dir"
             /\ m[j].path = Append(m[m[j].parent].path, m[j].name)
  <2>1. j \in DOMAIN n \ {Root}
    BY <1>1
  <2>2. CASE j = i
    <3>1. m[j].parent = d /\ m[d].type = "dir" /\ m[j].name = name
      BY <2>2, <1>2, <1>4
    <3>2. m[d].path = n[d].path
      BY <1>1, <1>2
    <3> QED BY <2>2, <3>1, <3>2, <1>1, <1>2, <1>5
  <2>3. CASE j # i
    <3> DEFINE h == n[j].parent
    <3>1. h \in DOMAIN n /\ n[h].type = "dir" /\ n[j].path = Append(n[h].path, n[j].name) /\ n[j].name \in NameSet
      BY <2>1, TreePaths DEF TreeOK
    <3>2. m[j].parent = h /\ m[h].type = n[h].type /\ m[j].name = n[j].name
      BY <2>1, <2>3, <3>1, <1>4
    <3> HIDE DEF h
    <3>3. IsPrefix(old, n[j].path) <=> IsPrefix(old, n[h].path)
      BY <2>1, <2>3, <3>1, <1>2, TreePaths DEF old, h
    <3>4. CASE IsPrefix(old, n[h].path)
      <4>1. m[j].path = Rebase(n[j].path, old, new) /\ m[h].path = Rebase(n[h].path, old, new)
        BY <1>1, <2>1, <3>1, <3>3, <3>4
      <4>2. Rebase(Append(n[h].path, n[j].name), old, new) = Append(Rebase(n[h].path, old, new), n[j].name)
        <5>1. n[h].path \in Seq(NameSet) /\ old \in Seq(NameSet) /\ new \in Seq(NameSet)
          BY <1>1, <3>1 DEF PathSet
        <5> QED BY <3>1, <3>4, <5>1, RebaseAppend
      <4> QED BY <1>1, <3>1, <3>2, <4>1, <4>2
    <3>5. CASE ~IsPrefix(old, n[h].path)
      BY <1>1, <2>1, <3>1, <3>2, <3>3, <3>5
    <3> QED BY <3>4, <3>5
  <2> QED BY <2>2, <2>3
<1>8. ASSUME NEW j \in DOMAIN m PROVE m[j].kids = {k \in DOMAIN m \ {Root} : m[k].parent = j}
  <2>1. n[j].kids = {k \in DOMAIN n \ {Root} : n[k].parent = j}
    BY <1>1 DEF TreeOK
  <2>2. m[j].kids = (n[j].kids \ (IF j = n[i].parent THEN {i} ELSE {})) \cup (IF j = d THEN {i} ELSE {})
    BY <1>1, <1>4
  <2>3. \A k \in DOMAIN n : m[k].parent = IF k = i THEN d ELSE n[k].parent
    BY <1>4
  <2> QED BY <1>1, <1>2, <2>1, <2>2, <2>3
<1>9. ASSUME NEW j \in DOMAIN m, NEW k \in DOMAIN m, m[j].path = m[k].path PROVE j = k
  <2>1. j \in DOMAIN n /\ k \in DOMAIN n
    BY <1>1
  <2>2. n[j].path = n[k].path
    BY <1>1, <1>9, <2>1
  <2> QED BY <2>1, <2>2 DEF TreeOK
<1>10. \E t \in DOMAIN m : m[t].path = TrashPath /\ m[t].type = "dir"
  <2>1. PICK t \in DOMAIN n : n[t].path = TrashPath /\ n[t].type = "dir"
    BY DEF TreeOK
  <2>2. m[t].path = TrashPath
    BY <2>1, <1>1, <1>2
  <2>3. m[t].type = "dir"
    BY <2>1, <1>4
  <2> QED BY <2>1, <2>2, <2>3, <1>1
<1> QED
  BY <1>3, <1>6, <1>7, <1>8, <1>9, <1>10 DEF TreeOK

\* g is f with every key at or below old taken to new, and the others left.
Renamed(f, g, old, new) ==
    /\ g = [q \in DOMAIN g |-> g[q]]
    /\ \A p \in DOMAIN f : IsPrefix(old, p) => Rebase(p, old, new) \in DOMAIN g /\ g[Rebase(p, old, new)] = f[p]
    /\ \A p \in DOMAIN f : ~IsPrefix(old, p) /\ ~IsPrefix(new, p) => p \in DOMAIN g /\ g[p] = f[p]
    /\ \A q \in DOMAIN g : q \in PathSet
    /\ \A q \in DOMAIN g : \E p \in DOMAIN f :
          g[q] = f[p] /\ IF IsPrefix(old, p) THEN q = Rebase(p, old, new) ELSE q = p

\* What RenamePrefix and os.Rename do to a map from paths.
LEMMA RenameKeysFacts ==
    ASSUME NEW f, DOMAIN f \subseteq PathSet, NEW old \in PathSet, NEW new \in PathSet
    PROVE  Renamed(f, RenameKeys(f, old, new), old, new)
<1> DEFINE g == RenameKeys(f, old, new)
<1> DEFINE moved == {p \in DOMAIN f : IsPrefix(old, p)}
           there == {Rebase(p, old, new) : p \in moved}
<1>1. moved = Below(DOMAIN f, old)
  BY DEF Below
<1>2. g = [q \in there \cup (DOMAIN f \ moved) |-> IF q \in there THEN f[Rebase(q, new, old)] ELSE f[q]]
  BY <1>1 DEF RenameKeys
<1> HIDE DEF g
<1>3. \A p \in moved : /\ Rebase(p, old, new) \in PathSet /\ IsPrefix(new, Rebase(p, old, new))
                       /\ Rebase(Rebase(p, old, new), new, old) = p
  BY RebaseBack DEF PathSet
<1>4. DOMAIN g = there \cup (DOMAIN f \ moved)
  BY <1>2
<1>5. ASSUME NEW p \in moved PROVE Rebase(p, old, new) \in there /\ g[Rebase(p, old, new)] = f[p]
  BY <1>2, <1>3
<1>6. ASSUME NEW p \in DOMAIN f \ moved, p \notin there PROVE g[p] = f[p]
  BY <1>2, <1>6
<1>7. \A q \in there : IsPrefix(new, q) /\ q \in PathSet
  BY <1>3
<1> HIDE DEF there
<1>8. ASSUME NEW q \in DOMAIN g
      PROVE  \E p \in DOMAIN f : g[q] = f[p] /\ IF IsPrefix(old, p) THEN q = Rebase(p, old, new) ELSE q = p
  <2>1. CASE q \in there
    <3>1. PICK p \in moved : q = Rebase(p, old, new)
      BY <2>1 DEF there
    <3> QED BY <3>1, <1>5
  <2>2. CASE q \notin there
    BY <2>2, <1>4, <1>6
  <2> QED BY <2>1, <2>2
<1>9. g = [q \in DOMAIN g |-> g[q]]
  BY <1>2
<1>10. \A q \in DOMAIN g : q \in PathSet
  BY <1>4, <1>7
<1>11. \A p \in DOMAIN f : IsPrefix(old, p) => Rebase(p, old, new) \in DOMAIN g /\ g[Rebase(p, old, new)] = f[p]
  BY <1>4, <1>5
<1>12. \A p \in DOMAIN f : ~IsPrefix(old, p) /\ ~IsPrefix(new, p) => p \in DOMAIN g /\ g[p] = f[p]
  BY <1>4, <1>6, <1>7
<1>13. Renamed(f, g, old, new)
  BY <1>8, <1>9, <1>10, <1>11, <1>12 DEF Renamed
<1> QED
  BY <1>13 DEF g

\* The files follow the inodes.
FilesMoved(n, m, files, g) ==
    /\ Match(m, g)
    /\ g = [q \in DOMAIN g |-> g[q]]
    /\ \A j \in DOMAIN n : g[m[j].path] = files[n[j].path]
    /\ \A q \in DOMAIN g : \E p \in DOMAIN files : g[q] = files[p]

\* Renaming on disk and moving in memory leave disk and memory matched.
LEMMA MoveFiles ==
    ASSUME NEW n, TreeOK(n), NEW i, NEW d, NEW name, MayMove(n, i, d, name), NEW m, Moved(n, m, i, d, name),
           NEW files, Match(n, files), NEW g, g = RenameKeys(files, n[i].path, Append(n[d].path, name))
    PROVE  FilesMoved(n, m, files, g)
<1> DEFINE old == n[i].path
           new == Append(n[d].path, name)
<1>1. /\ old \in PathSet /\ new \in PathSet /\ DOMAIN m = DOMAIN n
      /\ m[i].path = new
      /\ \A j \in DOMAIN n : m[j].path \in PathSet /\ n[j].path \in PathSet /\ ~IsPrefix(new, n[j].path)
      /\ \A j \in DOMAIN n : ~IsPrefix(old, n[j].path) => m[j].path = n[j].path /\ ~IsPrefix(new, m[j].path)
      /\ \A j \in DOMAIN n : IsPrefix(old, n[j].path) =>
            /\ m[j].path = Rebase(n[j].path, old, new) /\ IsPrefix(new, m[j].path)
            /\ n[j].path = Rebase(m[j].path, new, old)
  BY MovedFacts
<1>2. DOMAIN files = {n[j].path : j \in DOMAIN n} /\ DOMAIN files \subseteq PathSet
  BY <1>1 DEF Match
<1>3. g = RenameKeys(files, old, new)
  OBVIOUS
<1> HIDE DEF old, new
<1>4. /\ g = [q \in DOMAIN g |-> g[q]]
      /\ \A p \in DOMAIN files : IsPrefix(old, p) => Rebase(p, old, new) \in DOMAIN g /\ g[Rebase(p, old, new)] = files[p]
      /\ \A p \in DOMAIN files : ~IsPrefix(old, p) /\ ~IsPrefix(new, p) => p \in DOMAIN g /\ g[p] = files[p]
      /\ \A q \in DOMAIN g : \E p \in DOMAIN files :
            g[q] = files[p] /\ IF IsPrefix(old, p) THEN q = Rebase(p, old, new) ELSE q = p
  <2>1. old \in PathSet /\ new \in PathSet /\ DOMAIN files \subseteq PathSet
    BY <1>1, <1>2
  <2>2. Renamed(files, g, old, new)
    BY <2>1, <1>3, RenameKeysFacts
  <2> QED BY <2>2 DEF Renamed
<1>5. ASSUME NEW j \in DOMAIN n PROVE m[j].path \in DOMAIN g /\ g[m[j].path] = files[n[j].path]
  <2>1. n[j].path \in DOMAIN files
    BY <1>2
  <2> QED BY <2>1, <1>1, <1>4
<1>6. ASSUME NEW q \in DOMAIN g PROVE \E j \in DOMAIN m : q = m[j].path
  <2>1. PICK p \in DOMAIN files : g[q] = files[p] /\ IF IsPrefix(old, p) THEN q = Rebase(p, old, new) ELSE q = p
    BY <1>4
  <2>2. PICK j \in DOMAIN n : p = n[j].path
    BY <1>2
  <2> QED BY <2>1, <2>2, <1>1
<1>7. {m[j].path : j \in DOMAIN m} = DOMAIN g
  <2>1. DOMAIN m = DOMAIN n
    BY <1>1
  <2>2. \A j \in DOMAIN m : m[j].path \in DOMAIN g
    BY <2>1, <1>5
  <2>3. \A q \in DOMAIN g : \E j \in DOMAIN m : q = m[j].path
    BY <1>6
  <2> QED BY <2>2, <2>3
<1>8. ASSUME NEW j \in DOMAIN m
      PROVE  g[m[j].path].type = m[j].type /\ (m[j].type = "file" => g[m[j].path].size = m[j].size)
  <2>1. j \in DOMAIN n /\ m[j].type = n[j].type /\ m[j].size = n[j].size
    BY <1>1 DEF Moved
  <2>2. files[n[j].path].type = n[j].type /\ (n[j].type = "file" => files[n[j].path].size = n[j].size)
    BY <2>1 DEF Match
  <2> QED BY <2>1, <2>2, <1>5
<1>9. Match(m, g)
  BY <1>7, <1>8 DEF Match
<1> QED
  BY <1>4, <1>5, <1>9 DEF FilesMoved

\* And so do their numbers.
IndexMoved(m, ix, iy) ==
    /\ IndexOK(iy) /\ Numbered(m, iy) /\ iy.next = ix.next
    /\ \A q \in DOMAIN iy.ids : \E p \in DOMAIN ix.ids : iy.ids[q] = ix.ids[p]

\* RenamePrefix keeps every inode numbered by its new path.
LEMMA MoveIndex ==
    ASSUME NEW n, TreeOK(n), NEW i, NEW d, NEW name, MayMove(n, i, d, name), NEW m, Moved(n, m, i, d, name),
           NEW ix, IndexOK(ix), Numbered(n, ix), NEW iy, iy = RenamePrefix(ix, n[i].path, Append(n[d].path, name))
    PROVE  IndexMoved(m, ix, iy)
<1> DEFINE old == n[i].path
           new == Append(n[d].path, name)
           f == ix.ids
           g == iy.ids
<1>1. /\ old \in PathSet /\ new \in PathSet /\ DOMAIN m = DOMAIN n
      /\ m[i].path = new
      /\ \A j \in DOMAIN n : m[j].path \in PathSet /\ n[j].path \in PathSet /\ ~IsPrefix(new, n[j].path)
      /\ \A j \in DOMAIN n : ~IsPrefix(old, n[j].path) => m[j].path = n[j].path /\ ~IsPrefix(new, m[j].path)
      /\ \A j \in DOMAIN n : IsPrefix(old, n[j].path) =>
            /\ m[j].path = Rebase(n[j].path, old, new) /\ IsPrefix(new, m[j].path)
            /\ n[j].path = Rebase(m[j].path, new, old)
  BY MovedFacts
<1>2. /\ ix = [ids |-> ix.ids, next |-> ix.next] /\ ix.next \in 0 .. MaxId
      /\ f \in [DOMAIN f -> 0 .. ix.next - 1] /\ DOMAIN f \subseteq PathSet
      /\ \A p, q \in DOMAIN f : f[p] = f[q] => p = q
  BY DEF IndexOK
<1>3. iy = [ids |-> RenameKeys(f, old, new), next |-> ix.next]
  <2>1. \A a, b, c : [[ids |-> a, next |-> b] EXCEPT !.ids = c] = [ids |-> c, next |-> b]
    OBVIOUS
  <2>2. iy = [ix EXCEPT !.ids = RenameKeys(ix.ids, old, new)]
    BY DEF RenamePrefix
  <2> HIDE DEF old, new
  <2> QED BY <1>2, <2>1, <2>2
<1>4. g = RenameKeys(f, old, new) /\ iy.next = ix.next /\ iy = [ids |-> iy.ids, next |-> iy.next]
  BY <1>3
<1>5. /\ Root \in DOMAIN n /\ n[Root].path = <<>> /\ Root # i
      /\ \A j \in DOMAIN n : n[j].path \in DOMAIN f /\ f[n[j].path] = j
  BY DEF TreeOK, Numbered, MayMove
<1>6. ~IsPrefix(old, <<>>)
  <2>1. i \in DOMAIN n
    BY DEF MayMove
  <2> QED BY <1>5, <2>1, TreePaths
<1> HIDE DEF old, new, f, g
<1>7. /\ g = [q \in DOMAIN g |-> g[q]]
      /\ \A p \in DOMAIN f : IsPrefix(old, p) => Rebase(p, old, new) \in DOMAIN g /\ g[Rebase(p, old, new)] = f[p]
      /\ \A p \in DOMAIN f : ~IsPrefix(old, p) /\ ~IsPrefix(new, p) => p \in DOMAIN g /\ g[p] = f[p]
      /\ \A q \in DOMAIN g : q \in PathSet
      /\ \A q \in DOMAIN g : \E p \in DOMAIN f :
            g[q] = f[p] /\ IF IsPrefix(old, p) THEN q = Rebase(p, old, new) ELSE q = p
  <2>1. old \in PathSet /\ new \in PathSet /\ DOMAIN f \subseteq PathSet
    BY <1>1, <1>2
  <2>2. Renamed(f, g, old, new)
    BY <2>1, <1>4, RenameKeysFacts
  <2> QED BY <2>2 DEF Renamed
<1>8. ASSUME NEW j \in DOMAIN m PROVE m[j].path \in DOMAIN g /\ g[m[j].path] = j
  BY <1>1, <1>5, <1>7
<1>9. ASSUME NEW p \in DOMAIN g, NEW q \in DOMAIN g, g[p] = g[q] PROVE p = q
  <2>1. PICK a \in DOMAIN f : g[p] = f[a] /\ IF IsPrefix(old, a) THEN p = Rebase(a, old, new) ELSE p = a
    BY <1>7
  <2>2. PICK b \in DOMAIN f : g[q] = f[b] /\ IF IsPrefix(old, b) THEN q = Rebase(b, old, new) ELSE q = b
    BY <1>7
  <2>3. a = b
    BY <1>2, <1>9, <2>1, <2>2
  <2> QED BY <2>1, <2>2, <2>3
<1>10. \A q \in DOMAIN g : g[q] \in 0 .. ix.next - 1
  BY <1>2, <1>7
<1>11. <<>> \in DOMAIN g /\ g[<<>>] = Root
  BY <1>1, <1>5, <1>6, <1>7
<1>12. IndexOK(iy)
  BY <1>2, <1>4, <1>7, <1>9, <1>10, <1>11 DEF IndexOK, g
<1> QED
  BY <1>4, <1>7, <1>8, <1>12 DEF Numbered, g, f, IndexMoved

\* A tree of inodes makes a tree of files.
LEMMA FilesOfTree ==
    ASSUME NEW n, TreeOK(n), NEW files, Match(n, files), files \in [DOMAIN files -> Entry]
    PROVE  FilesOK(files)
<1>1. DOMAIN files = {n[i].path : i \in DOMAIN n}
  BY DEF Match
<1>2. \A i \in DOMAIN n : n[i].path \in DOMAIN files /\ files[n[i].path].type = n[i].type
  BY <1>1 DEF Match
<1>3. DOMAIN files \subseteq PathSet
  BY <1>1, TreePaths
<1>4. IsFiniteSet(DOMAIN files)
  <2>1. IsFiniteSet(DOMAIN n)
    <3>1. MaxId \in Nat /\ IsFiniteSet(0 .. MaxId - 1)
      <4>1. MaxId \in Nat
        BY FileServerAssumption
      <4>2. 0 \in Int /\ MaxId - 1 \in Int
        BY <4>1
      <4> QED BY <4>1, <4>2, FS_Interval
    <3> QED BY <3>1, FS_Subset DEF TreeOK, Ids
  <2> DEFINE f == [i \in DOMAIN n |-> n[i].path]
  <2>2. f \in Surjection(DOMAIN n, DOMAIN files)
    BY <1>1 DEF Surjection
  <2> QED BY <2>1, <2>2, FS_Surjection
<1>5. ASSUME NEW p \in {<<>>, TrashPath} PROVE p \in DOMAIN files /\ files[p].type = "dir"
  <2>1. \E i \in DOMAIN n : n[i].path = p /\ n[i].type = "dir"
    BY DEF TreeOK
  <2> QED BY <1>2, <2>1
<1>6. ASSUME NEW p \in DOMAIN files \ {<<>>} PROVE Front(p) \in DOMAIN files /\ files[Front(p)].type = "dir"
  <2>1. PICK i \in DOMAIN n : n[i].path = p
    BY <1>1
  <2>2. i # Root
    BY <2>1 DEF TreeOK
  <2>3. n[i].parent \in DOMAIN n /\ n[n[i].parent].type = "dir" /\ Front(p) = n[n[i].parent].path
    BY <2>1, <2>2, TreePaths DEF TreeOK
  <2> QED BY <2>3, <1>2
<1> QED
  BY <1>3, <1>4, <1>5, <1>6 DEF FilesOK

\* The other operations of the index.
LEMMA EmptyIndexOK == IndexOK(EmptyIndex)
<1>1. EmptyIndex.ids = <<>> /\ EmptyIndex.next = 0 /\ EmptyIndex = [ids |-> EmptyIndex.ids, next |-> EmptyIndex.next]
  BY DEF EmptyIndex
<1>2. DOMAIN <<>> = {} /\ <<>> \in [{} -> 0 .. -1]
  OBVIOUS
<1>3. 0 \in 0 .. MaxId /\ 0 - 1 = -1
  BY FileServerAssumption
<1> QED
  BY <1>1, <1>2, <1>3 DEF IndexOK

\* Remove keeps the numbers of the other paths and the counter.
LEMMA RemoveIndex ==
    ASSUME NEW ix, IndexOK(ix), NEW P, <<>> \notin P, NEW iy, iy = IndexRemove(ix, P)
    PROVE  /\ IndexOK(iy) /\ iy.next = ix.next /\ DOMAIN iy.ids = DOMAIN ix.ids \ P
           /\ \A q \in DOMAIN iy.ids : iy.ids[q] = ix.ids[q]
<1>1. ix = [ids |-> ix.ids, next |-> ix.next]
  BY DEF IndexOK
<1>2. iy = [ids |-> Without(ix.ids, P), next |-> ix.next]
  BY <1>1 DEF IndexRemove
<1>3. /\ iy.ids = Without(ix.ids, P) /\ iy.next = ix.next /\ iy = [ids |-> iy.ids, next |-> iy.next]
  BY <1>2
<1>4. DOMAIN iy.ids = DOMAIN ix.ids \ P /\ \A q \in DOMAIN iy.ids : iy.ids[q] = ix.ids[q]
  BY <1>3 DEF Without
<1>5. iy.ids \in [DOMAIN iy.ids -> 0 .. iy.next - 1]
  BY <1>3, <1>4 DEF IndexOK, Without
<1>6. IndexOK(iy)
  BY <1>3, <1>4, <1>5 DEF IndexOK
<1> QED
  BY <1>3, <1>4, <1>6

\* GetOrAssign gives a path the number it has or the next one.
LEMMA AssignIndex ==
    ASSUME NEW ix, IndexOK(ix), DOMAIN ix.ids # {}, NEW p \in PathSet, HasRoom(ix, p), NEW iy, iy = GetOrAssign(ix, p)
    PROVE  /\ IndexOK(iy) /\ iy.next \in {ix.next, ix.next + 1} /\ DOMAIN iy.ids = DOMAIN ix.ids \cup {p}
           /\ \A q \in DOMAIN ix.ids : iy.ids[q] = ix.ids[q]
           /\ iy.ids[p] < iy.next
           /\ (iy.ids[p] = ix.next /\ iy.next = ix.next + 1) \/ (p \in DOMAIN ix.ids /\ iy = ix)
<1>0. /\ ix.next \in Nat /\ ix.next <= MaxId /\ MaxId \in Nat
      /\ \A q \in DOMAIN ix.ids : ix.ids[q] \in 0 .. ix.next - 1
  BY FileServerAssumption DEF IndexOK
<1>1. CASE p \in DOMAIN ix.ids
  <2>1. iy = ix
    BY <1>1 DEF GetOrAssign
  <2>2. ix.ids[p] < ix.next
    BY <1>0, <1>1
  <2> QED BY <1>1, <2>1, <2>2
<1>2. CASE p \notin DOMAIN ix.ids
  <2>1. iy = [ids |-> With(ix.ids, p, ix.next), next |-> ix.next + 1]
    BY <1>2 DEF GetOrAssign
  <2>2. iy.ids = With(ix.ids, p, ix.next) /\ iy.next = ix.next + 1 /\ iy = [ids |-> iy.ids, next |-> iy.next]
    BY <2>1
  <2>3. /\ DOMAIN iy.ids = DOMAIN ix.ids \cup {p} /\ iy.ids[p] = ix.next
        /\ \A q \in DOMAIN ix.ids : iy.ids[q] = ix.ids[q]
        /\ iy.ids = [q \in DOMAIN iy.ids |-> iy.ids[q]]
    BY <1>2, <2>2 DEF With
  <2>4. ix.next < MaxId
    BY <1>2 DEF HasRoom
  <2>5. \A q \in DOMAIN iy.ids : iy.ids[q] \in 0 .. iy.next - 1
    <3>1. \A q \in DOMAIN ix.ids : iy.ids[q] \in 0 .. iy.next - 1
      BY <1>0, <2>2, <2>3
    <3>2. iy.ids[p] \in 0 .. iy.next - 1
      BY <1>0, <2>2, <2>3
    <3> QED BY <3>1, <3>2, <2>3
  <2>6. ASSUME NEW a \in DOMAIN iy.ids, NEW b \in DOMAIN iy.ids, iy.ids[a] = iy.ids[b] PROVE a = b
    <3>1. \A q \in DOMAIN ix.ids : iy.ids[q] # ix.next
      BY <1>0, <2>3
    <3>2. \A x, y \in DOMAIN ix.ids : ix.ids[x] = ix.ids[y] => x = y
      BY DEF IndexOK
    <3> QED BY <2>3, <2>6, <3>1, <3>2
  <2>7. <<>> \in DOMAIN ix.ids /\ ix.ids[<<>>] = Root
    BY DEF IndexOK
  <2>8. iy.next \in 0 .. MaxId /\ DOMAIN iy.ids \subseteq PathSet
    BY <1>0, <2>2, <2>3, <2>4 DEF IndexOK
  <2>9. IndexOK(iy)
    BY <2>2, <2>3, <2>5, <2>6, <2>7, <2>8 DEF IndexOK
  <2> QED BY <1>0, <2>2, <2>3, <2>9
<1> QED
  BY <1>1, <1>2

-----------------------------------------------------------------------------
(* Files, their sizes, and what a restart makes of them. *)

\* The paths above a file are directories.
LEMMA FileAncestors ==
    ASSUME NEW files, FilesOK(files), NEW q \in DOMAIN files, NEW p \in PathSet, IsPrefix(p, q)
    PROVE  p \in DOMAIN files /\ (p # q => files[p].type = "dir")
<1> DEFINE T == {r \in DOMAIN files : IsPrefix(p, r) /\ r # p}
<1>1. CASE p = q
  BY <1>1
<1>2. CASE p # q
  <2>1. T # {} /\ T \subseteq Seq(NameSet)
    BY <1>2 DEF FilesOK, PathSet
  <2> HIDE DEF T
  <2>2. PICK r \in T : \A s \in T : Len(r) <= Len(s)
    BY <2>1, Shortest
  <2>3. r \in DOMAIN files /\ IsPrefix(p, r) /\ r # p /\ r \in Seq(NameSet)
    BY <2>1 DEF T
  <2>4. r # <<>>
    <3> SUFFICES ASSUME r = <<>> PROVE FALSE
      OBVIOUS
    <3>1. IsPrefix(<<>>, p) /\ <<>> \in PathSet
      BY PrefixOrder, EmptyPath DEF PathSet
    <3> QED BY <3>1, <2>3, PrefixOrder DEF PathSet
  <2>5. /\ Front(r) \in Seq(NameSet) /\ Last(r) \in NameSet /\ r = Append(Front(r), Last(r))
        /\ Len(Front(r)) = Len(r) - 1
    BY <2>3, <2>4, FrontLast
  <2>6. Front(r) \in DOMAIN files /\ files[Front(r)].type = "dir"
    BY <2>3, <2>4 DEF FilesOK
  <2>7. IsPrefix(p, Front(r))
    BY <2>3, <2>5, PrefixAppend DEF PathSet
  <2>8. Front(r) \notin T
    <3>1. Len(r) \in Nat
      BY <2>3, LenProperties
    <3>2. ~(Len(r) <= Len(Front(r)))
      BY <3>1, <2>5
    <3> QED BY <3>2, <2>2
  <2>9. Front(r) = p
    BY <2>6, <2>7, <2>8 DEF T
  <2> QED BY <2>6, <2>9
<1> QED
  BY <1>1, <1>2

\* What is below a path has a size.
LEMMA BytesFinite ==
    ASSUME NEW files, FilesOK(files), NEW p
    PROVE  IsFiniteSet(Bytes(files, p)) /\ FileSize(files, p) \in Nat
<1> DEFINE F == {q \in Below(DOMAIN files, p) : files[q].type = "file"}
           B == {{q} \X (1 .. files[q].size) : q \in F}
<1>1. IsFiniteSet(F)
  <2>1. F \subseteq DOMAIN files /\ IsFiniteSet(DOMAIN files)
    BY DEF Below, FilesOK
  <2> QED BY <2>1, FS_Subset
<1>2. \A q \in F : IsFiniteSet({q} \X (1 .. files[q].size))
  <2> TAKE q \in F
  <2>1. files[q].size \in Nat
    BY DEF FilesOK, Entry, Below
  <2>2. IsFiniteSet(1 .. files[q].size) /\ IsFiniteSet({q})
    <3>1. 1 \in Int /\ files[q].size \in Int
      BY <2>1
    <3> QED BY <3>1, FS_Interval, FS_Singleton
  <2> QED BY <2>2, FS_Product
<1>3. IsFiniteSet(B)
  <2> DEFINE f == [q \in F |-> {q} \X (1 .. files[q].size)]
  <2>1. f \in Surjection(F, B)
    BY DEF Surjection
  <2> HIDE DEF B, f
  <2> QED BY <1>1, <2>1, FS_Surjection
<1>4. \A T \in B : IsFiniteSet(T)
  BY <1>2
<1> HIDE DEF B
<1>5. IsFiniteSet(UNION B)
  BY <1>3, <1>4, FS_UNION
<1>6. IsFiniteSet(Bytes(files, p))
  BY <1>5 DEF Bytes, B
<1> QED
  BY <1>6, FS_CardinalityType DEF FileSize

\* The size of a file is that of its path.
LEMMA SizeOfFile ==
    ASSUME NEW files, FilesOK(files), NEW p \in DOMAIN files, files[p].type = "file"
    PROVE  FileSize(files, p) = files[p].size
<1>0. p \in PathSet /\ files[p].size \in Nat
  BY DEF FilesOK, Entry
<1>1. {q \in Below(DOMAIN files, p) : files[q].type = "file"} = {p}
  <2>1. IsPrefix(p, p)
    BY <1>0, PrefixOrder DEF PathSet
  <2>2. ASSUME NEW q \in DOMAIN files, IsPrefix(p, q) PROVE q = p
    BY <1>0, <2>2, FileAncestors
  <2> QED BY <2>1, <2>2 DEF Below
<1>2. Bytes(files, p) = {p} \X (1 .. files[p].size)
  BY <1>1 DEF Bytes
<1>3. IsFiniteSet({p}) /\ Cardinality({p}) = 1
  BY FS_Singleton
<1>4. IsFiniteSet(1 .. files[p].size) /\ Cardinality(1 .. files[p].size) = files[p].size
  <2>1. 1 \in Int /\ files[p].size \in Int
    BY <1>0
  <2>2. /\ IsFiniteSet(1 .. files[p].size)
        /\ Cardinality(1 .. files[p].size) = IF 1 > files[p].size THEN 0 ELSE files[p].size - 1 + 1
    BY <2>1, FS_Interval
  <2> QED BY <2>2, <1>0
<1>5. Cardinality({p} \X (1 .. files[p].size)) = Cardinality({p}) * Cardinality(1 .. files[p].size)
  BY <1>3, <1>4, FS_Product
<1>6. Cardinality({p} \X (1 .. files[p].size)) = 1 * files[p].size
  BY <1>3, <1>4, <1>5
<1> QED
  BY <1>0, <1>2, <1>6 DEF FileSize

\* The numbers a restart gives.
NewNumbers(ix, files, ids, iy) ==
    /\ IndexOK(iy) /\ iy.ids = ids
    /\ DOMAIN ids = DOMAIN files \cup DOMAIN ix.ids /\ ids[<<>>] = Root
    /\ \A p \in DOMAIN ix.ids : ids[p] = ix.ids[p]
    /\ \A p \in DOMAIN files : ids[p] \in Ids

\* The scan keeps known numbers and gives the other paths new ones, once each.
LEMMA RestartNumbers ==
    ASSUME NEW ix, IndexOK(ix), NEW files, FilesOK(files),
           NEW U, U = {p \in DOMAIN files : p \notin DOMAIN ix.ids}, ix.next + Cardinality(U) <= MaxId,
           NEW new \in Numberings(ix, U),
           NEW ids, ids = [p \in DOMAIN new \cup DOMAIN ix.ids |-> IF p \in DOMAIN new THEN new[p] ELSE ix.ids[p]],
           NEW iy, iy = [ids |-> ids, next |-> ix.next + Cardinality(U)]
    PROVE  NewNumbers(ix, files, ids, iy)
<1>1. /\ ix.next \in Nat /\ \A q \in DOMAIN ix.ids : ix.ids[q] \in 0 .. ix.next - 1
      /\ DOMAIN ix.ids \subseteq PathSet /\ DOMAIN files \subseteq PathSet /\ MaxId \in Nat
      /\ <<>> \in DOMAIN files
      /\ \A p, q \in DOMAIN ix.ids : ix.ids[p] = ix.ids[q] => p = q
  BY FileServerAssumption DEF IndexOK, FilesOK
<1>2. IsFiniteSet(U) /\ Cardinality(U) \in Nat
  BY FS_Subset, FS_CardinalityType DEF FilesOK
<1> DEFINE N == ix.next + Cardinality(U)
<1>3. N \in Nat /\ N <= MaxId /\ ix.next <= N
  BY <1>1, <1>2
<1>4. new \in Bijection(U, ix.next .. N - 1) /\ \A p, q \in U : Len(p) < Len(q) => new[p] < new[q]
  <2>1. new \in {f \in Bijection(U, ix.next .. N - 1) : \A p, q \in U : Len(p) < Len(q) => f[p] < f[q]}
    <3>1. new \in {f \in Bijection(U, ix.next .. ix.next + Cardinality(U) - 1) : \A p, q \in U : Len(p) < Len(q) => f[p] < f[q]}
      BY Zenon DEF Numberings
    <3>2. ix.next + (Cardinality(U) - 1) = N - 1
      BY <1>1, <1>2
    <3> QED BY <3>1, <3>2
  <2> HIDE DEF N
  <2> QED BY <2>1, Zenon
<1>5. /\ new \in [U -> ix.next .. N - 1] /\ \A p, q \in U : new[p] = new[q] => p = q
      /\ \A k \in ix.next .. N - 1 : \E p \in U : new[p] = k
  BY <1>4 DEF Bijection, Injection, Surjection, IsInjective
<1> HIDE DEF N
<1>6. DOMAIN new = U
  BY <1>5
<1>7. /\ DOMAIN ids = DOMAIN files \cup DOMAIN ix.ids
      /\ \A p \in DOMAIN ix.ids : ids[p] = ix.ids[p]
      /\ \A p \in U : ids[p] = new[p]
      /\ \A p \in DOMAIN ids : p \in U \/ p \in DOMAIN ix.ids
      /\ ids = [p \in DOMAIN ids |-> ids[p]]
  BY <1>6
<1>8. \A p \in DOMAIN ids : ids[p] \in 0 .. N - 1
  <2>1. ASSUME NEW p \in DOMAIN ix.ids PROVE ids[p] \in 0 .. N - 1
    <3>1. ids[p] \in 0 .. ix.next - 1
      BY <1>1, <1>7
    <3> QED BY <3>1, <1>1, <1>3
  <2>2. \A p \in U : ids[p] \in 0 .. N - 1
    BY <1>1, <1>3, <1>5, <1>7
  <2> QED BY <1>7, <2>1, <2>2
<1>9. ASSUME NEW p \in DOMAIN ids, NEW q \in DOMAIN ids, ids[p] = ids[q] PROVE p = q
  <2>1. \A r \in DOMAIN ix.ids : ids[r] < ix.next
    <3> TAKE r \in DOMAIN ix.ids
    <3>1. ids[r] \in 0 .. ix.next - 1
      BY <1>1, <1>7
    <3> QED BY <3>1, <1>1
  <2>2. \A r \in U : ids[r] >= ix.next
    <3> TAKE r \in U
    <3>1. ids[r] \in ix.next .. N - 1
      BY <1>5, <1>7
    <3> QED BY <3>1, <1>1, <1>3
  <2>3. ASSUME NEW r \in DOMAIN ids PROVE ids[r] \in Int
    <3>1. ids[r] \in 0 .. N - 1
      BY <1>8
    <3> QED BY <3>1, <1>3
  <2>4. CASE p \in U /\ q \in U
    BY <2>4, <1>5, <1>7, <1>9
  <2>5. CASE p \in DOMAIN ix.ids /\ q \in DOMAIN ix.ids
    BY <2>5, <1>1, <1>7, <1>9
  <2>6. CASE p \in U /\ q \in DOMAIN ix.ids
    <3>1. ids[q] < ix.next /\ ids[p] >= ix.next /\ ids[p] \in Int /\ ids[q] \in Int
      BY <2>1, <2>2, <2>3, <2>6
    <3> QED BY <3>1, <1>1, <1>9
  <2>7. CASE q \in U /\ p \in DOMAIN ix.ids
    <3>1. ids[p] < ix.next /\ ids[q] >= ix.next /\ ids[p] \in Int /\ ids[q] \in Int
      BY <2>1, <2>2, <2>3, <2>7
    <3> QED BY <3>1, <1>1, <1>9
  <2> QED BY <2>4, <2>5, <2>6, <2>7, <1>7
<1>10. ids[<<>>] = Root
  <2>1. CASE <<>> \in DOMAIN ix.ids
    BY <2>1, <1>7 DEF IndexOK
  <2>2. CASE <<>> \notin DOMAIN ix.ids
    <3>1. ix.next = 0 /\ <<>> \in U
      BY <2>2, <1>1 DEF IndexOK
    <3>2. Cardinality(U) # 0
      BY <3>1, <1>2, FS_EmptySet
    <3>3. 0 \in ix.next .. N - 1
      BY <3>1, <3>2, <1>2 DEF N
    <3>4. PICK p \in U : new[p] = 0
      BY <3>3, <1>5
    <3>5. p = <<>>
      <4> SUFFICES ASSUME p # <<>> PROVE FALSE
        OBVIOUS
      <4>1. p \in Seq(NameSet)
        BY <1>1 DEF PathSet
      <4>2. Len(<<>>) < Len(p)
        BY <4>1, EmptySeq
      <4>3. new[<<>>] < new[p]
        BY <4>2, <3>1, <1>4
      <4>4. new[<<>>] \in 0 .. N - 1
        BY <3>1, <1>5
      <4> QED BY <4>3, <4>4, <3>4, <1>3
    <3> QED BY <3>1, <3>4, <3>5, <1>7 DEF Root
  <2> QED BY <2>1, <2>2
<1>11. iy.ids = ids /\ iy.next = N /\ iy = [ids |-> iy.ids, next |-> iy.next]
  BY DEF N
<1>12. IndexOK(iy)
  <2>1. ids \in [DOMAIN ids -> 0 .. N - 1]
    BY <1>7, <1>8
  <2>2. N \in 0 .. MaxId
    BY <1>1, <1>3
  <2>3. DOMAIN ids \subseteq PathSet /\ <<>> \in DOMAIN ids
    BY <1>1, <1>7
  <2> QED BY <1>9, <1>10, <1>11, <2>1, <2>2, <2>3 DEF IndexOK
<1>13. \A p \in DOMAIN files : ids[p] \in Ids
  <2> TAKE p \in DOMAIN files
  <2>1. ids[p] \in 0 .. N - 1
    BY <1>7, <1>8
  <2> QED BY <2>1, <1>1, <1>3 DEF Ids
<1> QED
  BY <1>7, <1>10, <1>11, <1>12, <1>13 DEF NewNumbers

\* n is what the scan makes of the files.
ScanOf(n, files, ids) ==
    /\ n \in [DOMAIN n -> InodeSet] /\ DOMAIN n = {ids[p] : p \in DOMAIN files}
    /\ \A p \in DOMAIN files :
          /\ n[ids[p]].type = files[p].type /\ n[ids[p]].path = p /\ n[ids[p]].shared = files[p].acl
          /\ n[ids[p]].name = (IF p = <<>> THEN Name("", <<>>) ELSE Last(p))
          /\ n[ids[p]].parent = ids[IF p = <<>> THEN <<>> ELSE Front(p)]
          /\ n[ids[p]].kids = {ids[q] : q \in {q \in DOMAIN files : q # <<>> /\ Front(q) = p}}
          /\ n[ids[p]].size = FileSize(files, p)

\* The inodes that the scan builds, field by field.
LEMMA ScanIs ==
    ASSUME NEW files, FilesOK(files), NEW ids, DOMAIN files \subseteq DOMAIN ids, ids[<<>>] = Root,
           \A p \in DOMAIN files : ids[p] \in Ids,
           \A p, q \in DOMAIN files : ids[p] = ids[q] => p = q,
           NEW n, n = [i \in {ids[p] : p \in DOMAIN files} |->
                         Scanned(files, ids, CHOOSE p \in DOMAIN files : ids[p] = i)]
    PROVE  ScanOf(n, files, ids)
<1>1. DOMAIN n = {ids[p] : p \in DOMAIN files}
  OBVIOUS
<1>2. \A p \in DOMAIN files : ids[p] \in DOMAIN n /\ n[ids[p]] = Scanned(files, ids, p)
  <2> TAKE p \in DOMAIN files
  <2>1. (CHOOSE q \in DOMAIN files : ids[q] = ids[p]) = p
    OBVIOUS
  <2> QED BY <2>1
<1>3. n = [i \in DOMAIN n |-> n[i]]
  OBVIOUS
<1>4. /\ <<>> \in DOMAIN files /\ files[<<>>].type = "dir" /\ TrashPath \in DOMAIN files /\ files[TrashPath].type = "dir"
      /\ DOMAIN files \subseteq PathSet
      /\ \A p \in DOMAIN files \ {<<>>} : Front(p) \in DOMAIN files /\ files[Front(p)].type = "dir"
  BY DEF FilesOK
<1>5. ASSUME NEW p \in DOMAIN files
      PROVE  /\ n[ids[p]].type = files[p].type /\ n[ids[p]].path = p /\ n[ids[p]].shared = files[p].acl
             /\ n[ids[p]].name = (IF p = <<>> THEN Name("", <<>>) ELSE Last(p))
             /\ n[ids[p]].parent = ids[IF p = <<>> THEN <<>> ELSE Front(p)]
             /\ n[ids[p]].kids = {ids[q] : q \in {q \in DOMAIN files : q # <<>> /\ Front(q) = p}}
             /\ n[ids[p]].size = FileSize(files, p)
             /\ n[ids[p]] \in InodeSet
  <2> DEFINE name == IF p = <<>> THEN Name("", <<>>) ELSE Last(p)
             h == ids[IF p = <<>> THEN <<>> ELSE Front(p)]
             K == {ids[q] : q \in {q \in DOMAIN files : q # <<>> /\ Front(q) = p}}
  <2>1. files[p].type \in {"file", "dir"} /\ files[p].acl \in SUBSET Grantees
    BY DEF FilesOK, Entry
  <2>2. name \in NameSet
    <3>1. CASE p = <<>>
      BY <3>1, EmptyPath
    <3>2. CASE p # <<>>
      BY <3>2, <1>4, FrontLast DEF PathSet
    <3> QED BY <3>1, <3>2
  <2>3. h \in Ids
    BY <1>4
  <2>4. K \in SUBSET Ids
    OBVIOUS
  <2>5. FileSize(files, p) \in Nat
    BY BytesFinite
  <2>6. p \in PathSet
    BY <1>4
  <2>7. n[ids[p]] = [NewInode(files[p].type, name, h, p, files[p].acl) EXCEPT !.kids = K, !.size = FileSize(files, p)]
    BY <1>2 DEF Scanned
  <2> HIDE DEF name, h, K
  <2>8. n[ids[p]] = [type |-> files[p].type, name |-> name, parent |-> h, path |-> p,
                     kids |-> K, shared |-> files[p].acl, size |-> FileSize(files, p)]
    BY <2>7 DEF NewInode
  <2>9. n[ids[p]] \in InodeSet
    <3>1. \A t \in {"file", "dir"}, z \in Nat, A \in SUBSET Grantees :
             [type |-> t, name |-> name, parent |-> h, path |-> p, kids |-> K, shared |-> A, size |-> z] \in InodeSet
      BY <2>2, <2>3, <2>4, <2>6 DEF InodeSet
    <3> QED BY <3>1, <2>1, <2>5, <2>8
  <2>10. /\ n[ids[p]].type = files[p].type /\ n[ids[p]].path = p /\ n[ids[p]].shared = files[p].acl
         /\ n[ids[p]].name = name /\ n[ids[p]].parent = h /\ n[ids[p]].kids = K
         /\ n[ids[p]].size = FileSize(files, p)
    BY <2>8, InodeRecord
  <2> QED BY <2>9, <2>10, Zenon DEF name, h, K
<1>6. \A i \in DOMAIN n : \E p \in DOMAIN files : i = ids[p]
  BY <1>1
<1>7. n \in [DOMAIN n -> InodeSet]
  <2>1. ASSUME NEW i \in DOMAIN n PROVE n[i] \in InodeSet
    <3>1. PICK p \in DOMAIN files : i = ids[p]
      BY <1>6
    <3>2. n[ids[p]] \in InodeSet
      BY <1>5
    <3> QED BY <3>1, <3>2
  <2> QED BY <1>3, <2>1
<1>8. \A p \in DOMAIN files :
          /\ n[ids[p]].type = files[p].type /\ n[ids[p]].path = p /\ n[ids[p]].shared = files[p].acl
          /\ n[ids[p]].name = (IF p = <<>> THEN Name("", <<>>) ELSE Last(p))
          /\ n[ids[p]].parent = ids[IF p = <<>> THEN <<>> ELSE Front(p)]
          /\ n[ids[p]].kids = {ids[q] : q \in {q \in DOMAIN files : q # <<>> /\ Front(q) = p}}
          /\ n[ids[p]].size = FileSize(files, p)
  BY <1>5
<1> QED
  BY <1>1, <1>7, <1>8, Zenon DEF ScanOf

\* The scan of well-formed files builds a tree that matches them.
LEMMA ScanTree ==
    ASSUME NEW files, FilesOK(files), NEW ids, DOMAIN files \subseteq DOMAIN ids, ids[<<>>] = Root,
           \A p \in DOMAIN files : ids[p] \in Ids,
           \A p, q \in DOMAIN files : ids[p] = ids[q] => p = q,
           NEW n, ScanOf(n, files, ids)
    PROVE  TreeOK(n) /\ Match(n, files)
<1>1. DOMAIN n = {ids[p] : p \in DOMAIN files}
  BY DEF ScanOf
<1>4. /\ <<>> \in DOMAIN files /\ files[<<>>].type = "dir" /\ TrashPath \in DOMAIN files /\ files[TrashPath].type = "dir"
      /\ DOMAIN files \subseteq PathSet
      /\ \A p \in DOMAIN files \ {<<>>} : Front(p) \in DOMAIN files /\ files[Front(p)].type = "dir"
  BY DEF FilesOK
<1>5. \A p \in DOMAIN files :
             /\ n[ids[p]].type = files[p].type /\ n[ids[p]].path = p
             /\ n[ids[p]].name = (IF p = <<>> THEN Name("", <<>>) ELSE Last(p))
             /\ n[ids[p]].parent = ids[IF p = <<>> THEN <<>> ELSE Front(p)]
             /\ n[ids[p]].kids = {ids[q] : q \in {q \in DOMAIN files : q # <<>> /\ Front(q) = p}}
             /\ n[ids[p]].size = FileSize(files, p)
  BY DEF ScanOf
<1>6. \A i \in DOMAIN n : \E p \in DOMAIN files : i = ids[p]
  BY <1>1
<1>7. n \in [DOMAIN n -> InodeSet] /\ DOMAIN n \subseteq Ids
  <2>1. n \in [DOMAIN n -> InodeSet]
    BY DEF ScanOf
  <2> QED BY <1>1, <2>1
<1>8. Root \in DOMAIN n /\ n[Root].path = <<>> /\ n[Root].parent = Root /\ n[Root].type = "dir"
  BY <1>1, <1>4, <1>5
<1>9. ASSUME NEW i \in DOMAIN n \ {Root}
      PROVE  /\ n[i].parent \in DOMAIN n /\ n[n[i].parent].type = "dir"
             /\ n[i].path = Append(n[n[i].parent].path, n[i].name)
  <2>1. PICK p \in DOMAIN files : i = ids[p]
    BY <1>6
  <2>2. p # <<>>
    BY <2>1
  <2>3. Front(p) \in DOMAIN files /\ files[Front(p)].type = "dir" /\ p \in Seq(NameSet)
    BY <1>4, <2>2 DEF PathSet
  <2>4. n[i].parent = ids[Front(p)] /\ n[i].path = p /\ n[i].name = Last(p)
    BY <1>5, <2>1, <2>2
  <2>5. n[ids[Front(p)]].type = "dir" /\ n[ids[Front(p)]].path = Front(p) /\ ids[Front(p)] \in DOMAIN n
    BY <1>1, <1>5, <2>3
  <2>6. p = Append(Front(p), Last(p))
    BY <2>2, <2>3, FrontLast
  <2> QED BY <2>4, <2>5, <2>6
<1>10. ASSUME NEW i \in DOMAIN n PROVE n[i].kids = {j \in DOMAIN n \ {Root} : n[j].parent = i}
  <2>1. PICK p \in DOMAIN files : i = ids[p]
    BY <1>6
  <2>2. n[i].kids = {ids[q] : q \in {q \in DOMAIN files : q # <<>> /\ Front(q) = p}}
    BY <1>5, <2>1
  <2>3. ASSUME NEW q \in DOMAIN files PROVE (q # <<>> /\ Front(q) = p) <=> (ids[q] # Root /\ n[ids[q]].parent = i)
    <3>1. q # <<>> <=> ids[q] # Root
      BY <1>4
    <3>2. CASE q # <<>>
      <4>1. n[ids[q]].parent = ids[Front(q)] /\ Front(q) \in DOMAIN files
        BY <1>4, <1>5, <3>2
      <4> QED BY <3>1, <4>1, <2>1
    <3> QED BY <3>1, <3>2
  <2> QED BY <1>1, <2>2, <2>3
<1>11. ASSUME NEW i \in DOMAIN n, NEW j \in DOMAIN n, n[i].path = n[j].path PROVE i = j
  <2>1. PICK p \in DOMAIN files : i = ids[p]
    BY <1>6
  <2>2. PICK q \in DOMAIN files : j = ids[q]
    BY <1>6
  <2>3. n[i].path = p /\ n[j].path = q
    BY <1>5, <2>1, <2>2
  <2> QED BY <1>11, <2>1, <2>2, <2>3
<1>12. \E t \in DOMAIN n : n[t].path = TrashPath /\ n[t].type = "dir"
  <2>1. ids[TrashPath] \in DOMAIN n /\ n[ids[TrashPath]].path = TrashPath /\ n[ids[TrashPath]].type = "dir"
    BY <1>1, <1>4, <1>5
  <2> QED BY <2>1
<1>13. TreeOK(n)
  BY <1>7, <1>8, <1>9, <1>10, <1>11, <1>12 DEF TreeOK
<1>14. {n[i].path : i \in DOMAIN n} = DOMAIN files
  <2>1. \A p \in DOMAIN files : n[ids[p]].path = p /\ ids[p] \in DOMAIN n
    BY <1>1, <1>5
  <2>2. ASSUME NEW i \in DOMAIN n PROVE n[i].path \in DOMAIN files
    <3>1. PICK p \in DOMAIN files : i = ids[p]
      BY <1>6
    <3> QED BY <3>1, <2>1
  <2>3. ASSUME NEW p \in DOMAIN files PROVE \E i \in DOMAIN n : p = n[i].path
    <3>1. ids[p] \in DOMAIN n /\ p = n[ids[p]].path
      BY <2>1
    <3> QED BY <3>1, Zenon
  <2>4. {n[i].path : i \in DOMAIN n} \subseteq DOMAIN files
    BY <2>2
  <2>5. DOMAIN files \subseteq {n[i].path : i \in DOMAIN n}
    BY <2>3
  <2> QED BY <2>4, <2>5, Zenon
<1>15. ASSUME NEW i \in DOMAIN n
       PROVE  files[n[i].path].type = n[i].type /\ (n[i].type = "file" => files[n[i].path].size = n[i].size)
  <2>1. PICK p \in DOMAIN files : i = ids[p]
    BY <1>6
  <2>2. n[i].path = p /\ n[i].type = files[p].type /\ n[i].size = FileSize(files, p)
    BY <1>5, <2>1
  <2> QED BY <2>2, SizeOfFile
<1>16. Match(n, files)
  BY <1>14, <1>15 DEF Match
<1> QED
  BY <1>13, <1>16

\* Steps joined as in DeleteSteps and RestoreSteps.
LEMMA JoinedOneTwoOne ==
    ASSUME NEW a, NEW b, NEW c, NEW d, NEW t, t = <<a>> \o <<b, c>> \o <<d>>
    PROVE  t = <<a, b, c, d>>
<1> DEFINE S == {a, b, c, d}
<1>1. /\ <<a>> \in Seq(S) /\ <<b>> \in Seq(S) /\ <<c>> \in Seq(S) /\ <<d>> \in Seq(S)
      /\ <<a, b>> \in Seq(S) /\ <<b, c>> \in Seq(S) /\ <<c, d>> \in Seq(S)
      /\ <<a, b, c>> \in Seq(S) /\ <<a, b, c, d>> \in Seq(S)
  OBVIOUS
<1>2. <<a>> \o <<b, c>> = <<a, b, c>>
  <2> DEFINE s == <<a>> \o <<b, c>>
  <2>1. s \in Seq(S) /\ Len(s) = 3
    BY <1>1, ConcatProperties
  <2>2. s[1] = a /\ s[2] = b /\ s[3] = c
    BY <1>1, ConcatProperties
  <2> HIDE DEF s
  <2>3. s = <<a, b, c>>
    BY <1>1, <2>1, <2>2, SeqEqual
  <2> QED BY <2>3 DEF s
<1>4. <<a, b, c>> \o <<d>> = <<a, b, c, d>>
  <2> DEFINE s == <<a, b, c>> \o <<d>>
  <2>1. s \in Seq(S) /\ Len(s) = 4
    BY <1>1, ConcatProperties
  <2>2. s[1] = a /\ s[2] = b /\ s[3] = c /\ s[4] = d
    BY <1>1, ConcatProperties
  <2> HIDE DEF s
  <2>3. s = <<a, b, c, d>>
    BY <1>1, <2>1, <2>2, SeqEqual
  <2> QED BY <2>3 DEF s
<1> QED
  BY <1>2, <1>4

\* Steps joined as in TrashSteps.
LEMMA JoinedOneOneTwo ==
    ASSUME NEW a, NEW b, NEW c, NEW d, NEW t, t = <<a>> \o <<b>> \o <<c, d>>
    PROVE  t = <<a, b, c, d>>
<1> DEFINE S == {a, b, c, d}
<1>1. /\ <<a>> \in Seq(S) /\ <<b>> \in Seq(S) /\ <<c>> \in Seq(S) /\ <<d>> \in Seq(S)
      /\ <<a, b>> \in Seq(S) /\ <<b, c>> \in Seq(S) /\ <<c, d>> \in Seq(S)
      /\ <<a, b, c>> \in Seq(S) /\ <<a, b, c, d>> \in Seq(S)
  OBVIOUS
<1>3. <<a>> \o <<b>> = <<a, b>>
  <2> DEFINE s == <<a>> \o <<b>>
  <2>1. s \in Seq(S) /\ Len(s) = 2
    BY <1>1, ConcatProperties
  <2>2. s[1] = a /\ s[2] = b
    BY <1>1, ConcatProperties
  <2> HIDE DEF s
  <2>3. s = <<a, b>>
    BY <1>1, <2>1, <2>2, SeqEqual
  <2> QED BY <2>3 DEF s
<1>5. <<a, b>> \o <<c, d>> = <<a, b, c, d>>
  <2> DEFINE s == <<a, b>> \o <<c, d>>
  <2>1. s \in Seq(S) /\ Len(s) = 4
    BY <1>1, ConcatProperties
  <2>2. s[1] = a /\ s[2] = b /\ s[3] = c /\ s[4] = d
    BY <1>1, ConcatProperties
  <2> HIDE DEF s
  <2>3. s = <<a, b, c, d>>
    BY <1>1, <2>1, <2>2, SeqEqual
  <2> QED BY <2>3 DEF s
<1> QED
  BY <1>3, <1>5

\* Steps joined as in SharingSteps.
LEMMA JoinedTwoOne ==
    ASSUME NEW a, NEW b, NEW c, NEW t, t = <<a, b>> \o <<c>>
    PROVE  t = <<a, b, c>>
<1> DEFINE S == {a, b, c}
<1>1. /\ <<a>> \in Seq(S) /\ <<b>> \in Seq(S) /\ <<c>> \in Seq(S)
      /\ <<a, b>> \in Seq(S) /\ <<b, c>> \in Seq(S)
      /\ <<a, b, c>> \in Seq(S)
  OBVIOUS
<1>6. <<a, b>> \o <<c>> = <<a, b, c>>
  <2> DEFINE s == <<a, b>> \o <<c>>
  <2>1. s \in Seq(S) /\ Len(s) = 3
    BY <1>1, ConcatProperties
  <2>2. s[1] = a /\ s[2] = b /\ s[3] = c
    BY <1>1, ConcatProperties
  <2> HIDE DEF s
  <2>3. s = <<a, b, c>>
    BY <1>1, <2>1, <2>2, SeqEqual
  <2> QED BY <2>3 DEF s
<1> QED
  BY <1>6

\* The last of a method's durable states, and those a crash may leave.
LEMMA Cuts ==
    ASSUME NEW a, NEW b, NEW c, NEW d
    PROVE  /\ Last(<<a, b, c, d>>) = d /\ CutShort(<<a, b, c, d>>) = {a, b, c}
           /\ Last(<<a, b, c>>) = c /\ CutShort(<<a, b, c>>) = {a, b}
           /\ Last(<<a, b>>) = b /\ Last(<<a>>) = a
           /\ <<a, b>>[1] = a /\ <<a, b>>[2] = b
  BY DEF Last, CutShort

\* The same for a method with four writes.
LEMMA LastOfFour ==
    ASSUME NEW a, NEW b, NEW c, NEW d, NEW s, s = <<a, b, c, d>>
    PROVE  Last(s) = d /\ CutShort(s) = {a, b, c}
  BY DEF Last, CutShort

\* The same for a method with three writes.
LEMMA LastOfThree ==
    ASSUME NEW a, NEW b, NEW c, NEW s, s = <<a, b, c>>
    PROVE  Last(s) = c /\ CutShort(s) = {a, b}
  BY DEF Last, CutShort

\* What is durable, field by field.
Durable(files, ix, S, q) == [files |-> files, index |-> ix, shares |-> S, quota |-> q]

\* An update of one part of the disk leaves the others.
LEMMA DurableUpdates ==
    ASSUME NEW f, NEW ix, NEW S, NEW q, NEW g, NEW iy, NEW T
    PROVE  /\ [Durable(f, ix, S, q) EXCEPT !.files = g] = Durable(g, ix, S, q)
           /\ [Durable(f, ix, S, q) EXCEPT !.index = iy] = Durable(f, iy, S, q)
           /\ [Durable(f, ix, S, q) EXCEPT !.shares = T] = Durable(f, ix, T, q)
<1>1. [Durable(f, ix, S, q) EXCEPT !.files = g] = Durable(g, ix, S, q)
  BY DEF Durable
<1>2. [Durable(f, ix, S, q) EXCEPT !.index = iy] = Durable(f, iy, S, q)
  BY DEF Durable
<1>3. [Durable(f, ix, S, q) EXCEPT !.shares = T] = Durable(f, ix, T, q)
  BY DEF Durable
<1> QED
  BY <1>1, <1>2, <1>3

\* The parts of a durable state.
LEMMA DurableFields ==
    ASSUME NEW f, NEW ix, NEW S, NEW q, NEW d, d = Durable(f, ix, S, q)
    PROVE  /\ d.files = f /\ d.index = ix /\ d.shares = S /\ d.quota = q
           /\ DurableOK(d) <=> FilesOK(f) /\ IndexOK(ix) /\ S \subseteq GrantSet /\ q \in Nat
<1>1. d.files = f /\ d.index = ix /\ d.shares = S /\ d.quota = q
  BY DEF Durable
<1>2. d = [files |-> d.files, index |-> d.index, shares |-> d.shares, quota |-> d.quota]
  BY <1>1 DEF Durable
<1> QED
  BY <1>1, <1>2 DEF DurableOK

\* A well-formed durable state is made of its four parts.
LEMMA DurableIs ==
    ASSUME NEW d, DurableOK(d)
    PROVE  /\ d = Durable(d.files, d.index, d.shares, d.quota)
           /\ FilesOK(d.files) /\ IndexOK(d.index) /\ d.shares \subseteq GrantSet /\ d.quota \in Nat
  BY DEF DurableOK, Durable

\* The server after a restart from d.
RestartedFrom(d) ==
    /\ TreeOK(inodes') /\ DurableOK(disk') /\ IndexOK(index') /\ disk'.index = index'
    /\ disk'.shares = d.shares /\ disk'.quota = d.quota
    /\ Numbered(inodes', index') /\ Match(inodes', disk'.files)
    /\ ScanOf(inodes', d.files, index'.ids)
    /\ DOMAIN disk'.files = DOMAIN d.files
    /\ \A p \in DOMAIN d.files :
          disk'.files[p] = IF d.files[p].fid = None THEN [d.files[p] EXCEPT !.fid = index'.ids[p]] ELSE d.files[p]
    /\ \A p \in DOMAIN d.index.ids : p \in DOMAIN index'.ids /\ index'.ids[p] = d.index.ids[p]
    /\ DOMAIN d.files \subseteq DOMAIN d.index.ids => index' = d.index

\* Recording a FID keeps the rest of an entry.
LEMMA EntryFid ==
    ASSUME NEW e \in Entry, NEW i \in Ids
    PROVE  /\ [e EXCEPT !.fid = i] \in Entry /\ [e EXCEPT !.fid = i].type = e.type /\ [e EXCEPT !.fid = i].size = e.size
           /\ [e EXCEPT !.fid = i].acl = e.acl /\ [e EXCEPT !.fid = i].fid = i
  BY DEF Entry

\* Files of the same types are a tree together.
LEMMA SameFiles ==
    ASSUME NEW f, FilesOK(f), NEW g, DOMAIN g = DOMAIN f, g \in [DOMAIN f -> Entry],
           \A p \in DOMAIN f : g[p].type = f[p].type
    PROVE  FilesOK(g)
<1>1. \A p \in {<<>>, TrashPath} : p \in DOMAIN g /\ g[p].type = "dir"
  BY DEF FilesOK
<1>2. \A p \in DOMAIN g \ {<<>>} : Front(p) \in DOMAIN g /\ g[Front(p)].type = "dir"
  BY DEF FilesOK
<1> QED
  BY <1>1, <1>2 DEF FilesOK

\* Files with the same types and sizes match the same tree.
LEMMA SameMatch ==
    ASSUME NEW n, NEW f, Match(n, f), NEW g, DOMAIN g = DOMAIN f,
           \A p \in DOMAIN f : g[p].type = f[p].type /\ g[p].size = f[p].size
    PROVE  Match(n, g)
<1>1. \A i \in DOMAIN n : n[i].path \in DOMAIN f
  BY DEF Match
<1> QED
  BY <1>1 DEF Match

\* On a disk without .acl files of clients a restart finds what is there.
LEMMA FoundAll ==
    ASSUME NEW f, FilesOK(f)
    PROVE  Found(f) = f
<1>1. f \in [DOMAIN f -> Entry] /\ \A p \in DOMAIN f : p \in PathSet
  BY DEF FilesOK
<1>2. \A p \in DOMAIN f : ~IsACLFile(p) /\ ACLFile(f, p) = p
  BY <1>1, NoACLFile DEF ACLFile
<1>3. \A e \in Entry : [e EXCEPT !.acl = e.acl] = e
  BY DEF Entry
<1>4. Found(f) = [p \in DOMAIN f |-> [f[p] EXCEPT !.acl = f[p].acl]]
  BY <1>2 DEF Found
<1> QED
  BY <1>1, <1>3, <1>4

LEMMA RestartIs ==
    ASSUME NEW d, DurableOK(d)
    PROVE  Restart(d) <=> RestartFrom(d)
<1> DEFINE f == d.files
           e == [d EXCEPT !.files = Found(d.files)]
<1>1. d = Durable(f, d.index, d.shares, d.quota) /\ FilesOK(f)
  BY DurableIs
<1>2. Found(f) = f
  BY <1>1, FoundAll
<1>3. e = d
  <2>1. [Durable(f, d.index, d.shares, d.quota) EXCEPT !.files = f] = Durable(f, d.index, d.shares, d.quota)
    BY DurableUpdates
  <2> QED BY <1>1, <1>2, <2>1
<1>4. Restart(d) <=> RestartFrom(e)
  BY DEF Restart
<1> QED
  BY <1>3, <1>4

\* NewFileServer rebuilds a well-formed server from any well-formed disk.
LEMMA RestartFacts ==
    ASSUME NEW d, DurableOK(d), Restart(d)
    PROVE  RestartedFrom(d)
<1> DEFINE files == d.files
           ix == d.index
           U == {p \in DOMAIN files : p \notin DOMAIN ix.ids}
<1>1. /\ d = Durable(files, ix, d.shares, d.quota)
      /\ FilesOK(files) /\ IndexOK(ix) /\ d.shares \subseteq GrantSet /\ d.quota \in Nat
  BY DurableIs
<1>2. ix.next + Cardinality(U) <= MaxId
  BY RestartIs DEF RestartFrom
<1>3. PICK new \in Numberings(ix, U) :
        LET ids == [p \in DOMAIN new \cup DOMAIN ix.ids |-> IF p \in DOMAIN new THEN new[p] ELSE ix.ids[p]] IN
        /\ index' = [ids |-> ids, next |-> ix.next + Cardinality(U)]
        /\ inodes' = [i \in {ids[p] : p \in DOMAIN files} |-> Scanned(files, ids, CHOOSE p \in DOMAIN files : ids[p] = i)]
        /\ disk' = [files |-> [p \in DOMAIN files |->
                                IF files[p].fid = None THEN [files[p] EXCEPT !.fid = ids[p]] ELSE files[p]],
                    index |-> index', shares |-> d.shares, quota |-> d.quota]
  BY RestartIs DEF RestartFrom
<1> DEFINE ids == [p \in DOMAIN new \cup DOMAIN ix.ids |-> IF p \in DOMAIN new THEN new[p] ELSE ix.ids[p]]
           g == [p \in DOMAIN files |-> IF files[p].fid = None THEN [files[p] EXCEPT !.fid = ids[p]] ELSE files[p]]
<1>4. /\ index' = [ids |-> ids, next |-> ix.next + Cardinality(U)]
      /\ inodes' = [i \in {ids[p] : p \in DOMAIN files} |-> Scanned(files, ids, CHOOSE p \in DOMAIN files : ids[p] = i)]
      /\ disk' = [files |-> g, index |-> index', shares |-> d.shares, quota |-> d.quota]
  BY <1>3
<1>5. new \in Numberings(ix, U)
  OBVIOUS
<1>6. U = {p \in DOMAIN files : p \notin DOMAIN ix.ids}
  OBVIOUS
<1>7. ids = [p \in DOMAIN new \cup DOMAIN ix.ids |-> IF p \in DOMAIN new THEN new[p] ELSE ix.ids[p]]
  OBVIOUS
<1>8. g = [p \in DOMAIN files |-> IF files[p].fid = None THEN [files[p] EXCEPT !.fid = ids[p]] ELSE files[p]]
  OBVIOUS
<1> HIDE DEF ids, g, U, files, ix
<1>9. /\ IndexOK(index') /\ index'.ids = ids
      /\ DOMAIN ids = DOMAIN files \cup DOMAIN ix.ids /\ ids[<<>>] = Root
      /\ \A p \in DOMAIN ix.ids : ids[p] = ix.ids[p]
      /\ \A p \in DOMAIN files : ids[p] \in Ids
  <2>1. NewNumbers(ix, files, ids, index')
    BY <1>1, <1>2, <1>4, <1>5, <1>6, <1>7, RestartNumbers
  <2> QED BY <2>1 DEF NewNumbers
<1>10. \A p, q \in DOMAIN files : ids[p] = ids[q] => p = q
  BY <1>9 DEF IndexOK
<1>11. ScanOf(inodes', files, ids)
  <2>1. DOMAIN files \subseteq DOMAIN ids
    BY <1>9
  <2> QED BY <2>1, <1>1, <1>4, <1>9, <1>10, ScanIs
<1>12. TreeOK(inodes') /\ Match(inodes', files)
  <2>1. DOMAIN files \subseteq DOMAIN ids
    BY <1>9
  <2> QED BY <2>1, <1>1, <1>9, <1>10, <1>11, ScanTree
<1>13. disk' = Durable(g, index', d.shares, d.quota)
  BY <1>4 DEF Durable
<1>14. DOMAIN g = DOMAIN files /\ g \in [DOMAIN files -> Entry]
       /\ \A p \in DOMAIN files : g[p].type = files[p].type /\ g[p].size = files[p].size
  <2>1. \A p \in DOMAIN files : files[p] \in Entry
    BY <1>1 DEF FilesOK
  <2>2. ASSUME NEW p \in DOMAIN files
        PROVE  /\ g[p] = IF files[p].fid = None THEN [files[p] EXCEPT !.fid = ids[p]] ELSE files[p]
               /\ g[p] \in Entry /\ g[p].type = files[p].type /\ g[p].size = files[p].size
    <3>1. g[p] = IF files[p].fid = None THEN [files[p] EXCEPT !.fid = ids[p]] ELSE files[p]
      BY <1>8
    <3>2. files[p] \in Entry /\ ids[p] \in Ids
      BY <1>9, <2>1
    <3> QED BY <3>1, <3>2, EntryFid
  <2>3. g = [p \in DOMAIN files |-> g[p]]
    BY <1>8
  <2> QED BY <2>2, <2>3
<1>15. FilesOK(g)
  BY <1>1, <1>14, SameFiles
<1>16. Match(inodes', g)
  BY <1>12, <1>14, SameMatch
<1>17. DurableOK(disk') /\ disk'.files = g /\ disk'.index = index' /\ disk'.shares = d.shares /\ disk'.quota = d.quota
  BY <1>1, <1>9, <1>13, <1>15, DurableFields
<1>18. Numbered(inodes', index')
  <2>1. DOMAIN inodes' = {ids[p] : p \in DOMAIN files} /\ \A p \in DOMAIN files : inodes'[ids[p]].path = p
    BY <1>11 DEF ScanOf
  <2> SUFFICES ASSUME NEW i \in DOMAIN inodes' PROVE inodes'[i].path \in DOMAIN index'.ids /\ index'.ids[inodes'[i].path] = i
    BY DEF Numbered
  <2>2. PICK p \in DOMAIN files : i = ids[p]
    BY <2>1
  <2>3. inodes'[i].path = p
    BY <2>1, <2>2
  <2> QED BY <2>2, <2>3, <1>9
<1>19. DOMAIN files \subseteq DOMAIN ix.ids => index' = ix
  <2> HAVE DOMAIN files \subseteq DOMAIN ix.ids
  <2>1. U = {}
    BY <1>6
  <2>2. Cardinality(U) = 0
    BY <2>1, FS_EmptySet
  <2>3. ix = [ids |-> ix.ids, next |-> ix.next] /\ ix.next \in Nat /\ ix.ids = [p \in DOMAIN ix.ids |-> ix.ids[p]]
    BY <1>1, FileServerAssumption DEF IndexOK
  <2>4. DOMAIN ids = DOMAIN ix.ids
    BY <1>9
  <2>5. ids = [p \in DOMAIN ids |-> ids[p]]
    BY <1>7
  <2>6. ids = ix.ids
    BY <1>9, <2>3, <2>4, <2>5
  <2>7. ix.next + Cardinality(U) = ix.next
    BY <2>2, <2>3
  <2> QED BY <1>4, <2>3, <2>6, <2>7
<1>20. \A p \in DOMAIN files : g[p] = IF files[p].fid = None THEN [files[p] EXCEPT !.fid = ids[p]] ELSE files[p]
  BY <1>8
<1> QED
  BY <1>9, <1>11, <1>12, <1>14, <1>16, <1>17, <1>18, <1>19, <1>20 DEF RestartedFrom, files, ix

-----------------------------------------------------------------------------
(* The invariant of the running server. *)

\* Where an inode belongs: where it is, or where it was before it was trashed.
Home(n, meta, i) == IF i \in DOMAIN meta THEN meta[i].parent ELSE n[i].parent
\* Homes lead to the root, so nothing in the trash belongs below itself.
Homely(n, meta) ==
    \A S \in SUBSET DOMAIN n : S # {} /\ (\A i \in S : Home(n, meta, i) \in S) => Root \in S
\* The home of something in the trash is a directory outside it, or it is gone
\* and does not come back.
MetaOK(n, ix, meta) ==
    /\ meta \in [DOMAIN meta -> MetaSet] /\ DOMAIN meta \subseteq DOMAIN n
    /\ \A i \in DOMAIN meta :
          /\ n[n[i].parent].path = TrashPath /\ i # Root
          /\ meta[i].parent < ix.next
          /\ IF meta[i].parent \in DOMAIN n
             THEN n[meta[i].parent].type = "dir" /\ n[meta[i].parent].path # TrashPath
             ELSE \A p \in DOMAIN ix.ids : ix.ids[p] # meta[i].parent
    /\ Homely(n, meta)

\* A request q of a handler at k.
RequestOK(n, k, q) ==
    /\ k = "create" => /\ q.name \in NameSet \cup {aclFileName} /\ q.name.base \in Bases /\ q.type \in {"file", "dir"}
                       /\ q.user \in Users
    /\ k = "write" => q.end \in Nat
    /\ k \in {"share", "unshare"} =>
          /\ q = [op |-> q.op, user |-> q.user, fid |-> q.fid, gone |-> q.gone]
          /\ q.op = k /\ q.user \in Grantees
          /\ q.fid \notin DOMAIN n => q.gone \in InodeSet

TreeInv == TreeOK(inodes)
DiskInv ==
    /\ DurableOK(disk) /\ disk.index = index /\ disk.shares = shares
    /\ Numbered(inodes, index) /\ Match(inodes, disk.files)
MetaInv == MetaOK(inodes, index, trashMeta)
RequestInv ==
    /\ DOMAIN pc = Callers /\ DOMAIN req = Callers
    /\ \A c \in Callers : RequestOK(inodes, pc[c], req[c])
CoreInv ==
    /\ TreeInv /\ DiskInv /\ MetaInv /\ RequestInv
    /\ quota \in Nat /\ retired \subseteq Ids

\* The same of the next state, with the names of this one.
NextTree ==
    /\ TreeOK(inodes') /\ DurableOK(disk') /\ disk'.index = index' /\ disk'.shares = shares'
    /\ Numbered(inodes', index') /\ Match(inodes', disk'.files) /\ MetaOK(inodes', index', trashMeta')

\* A step that leaves tree, disk, index and requests well formed keeps CoreInv.
LEMMA NextCore ==
    ASSUME workload' = workload, NextTree, DOMAIN pc' = Callers, DOMAIN req' = Callers,
           \A c \in Callers : RequestOK(inodes', pc'[c], req'[c]), quota' \in Nat, retired' \subseteq Ids
    PROVE  CoreInv'
<1>1. NameSet' = NameSet
  BY DEF NameSet, Bases
<1>2. PathSet' = PathSet /\ Bases' = Bases
  BY <1>1 DEF PathSet, Bases
<1>3. InodeSet' = InodeSet /\ GrantSet' = GrantSet
  BY <1>1, <1>2 DEF InodeSet, GrantSet
<1>4. MetaSet' = MetaSet
  BY <1>1, <1>2, <1>3 DEF MetaSet
<1>5. TreeInv'
  BY <1>3 DEF TreeInv, TreeOK, NextTree
<1>6. DiskInv'
  <2>1. FilesOK(disk.files)'
    BY <1>2 DEF NextTree, DurableOK, FilesOK
  <2>2. IndexOK(disk.index)'
    BY <1>2 DEF NextTree, DurableOK, IndexOK
  <2>3. DurableOK(disk)'
    BY <1>3, <2>1, <2>2 DEF NextTree, DurableOK
  <2> QED BY <2>3 DEF NextTree, DiskInv, Numbered, Match
<1>7. MetaInv'
  BY <1>4 DEF NextTree, MetaInv, MetaOK, Homely, Home
<1>8. RequestInv'
  BY <1>1, <1>2, <1>3 DEF RequestInv, RequestOK
<1> QED
  BY <1>5, <1>6, <1>7, <1>8 DEF CoreInv

\* What CoreInv says, in the form the lemmas use.
LEMMA CoreFacts ==
    ASSUME CoreInv
    PROVE  /\ TreeOK(inodes) /\ DurableOK(disk) /\ disk.index = index /\ disk.shares = shares
           /\ disk = Durable(disk.files, index, shares, disk.quota)
           /\ FilesOK(disk.files) /\ IndexOK(index) /\ shares \subseteq GrantSet /\ disk.quota \in Nat
           /\ Numbered(inodes, index) /\ Match(inodes, disk.files) /\ MetaOK(inodes, index, trashMeta)
           /\ \A i \in Live : Path(i) \in DOMAIN disk.files /\ disk.files[Path(i)].type = inodes[i].type
           /\ Paths(Live) = DOMAIN disk.files
           /\ DOMAIN index.ids # {}
<1>1. /\ TreeOK(inodes) /\ DurableOK(disk) /\ disk.index = index /\ disk.shares = shares
      /\ Numbered(inodes, index) /\ Match(inodes, disk.files) /\ MetaOK(inodes, index, trashMeta)
  BY DEF CoreInv, TreeInv, DiskInv, MetaInv
<1>2. /\ disk = Durable(disk.files, index, shares, disk.quota)
      /\ FilesOK(disk.files) /\ IndexOK(index) /\ shares \subseteq GrantSet /\ disk.quota \in Nat
  BY <1>1, DurableIs
<1>3. \A i \in Live : Path(i) \in DOMAIN disk.files /\ disk.files[Path(i)].type = inodes[i].type
  BY <1>1 DEF Match, Live, Path
<1>4. DOMAIN index.ids # {}
  BY <1>1 DEF Numbered, TreeOK
<1>5. Paths(Live) = DOMAIN disk.files
  BY <1>1 DEF Match, Live, Path, Paths
<1> QED
  BY <1>1, <1>2, <1>3, <1>4, <1>5

\* Homes in a tree without a trash: the root is above everything.
LEMMA TreeHomely ==
    ASSUME NEW n, TreeOK(n), NEW meta, DOMAIN meta = {}
    PROVE  Homely(n, meta)
<1> SUFFICES ASSUME NEW S \in SUBSET DOMAIN n, S # {}, \A i \in S : n[i].parent \in S, Root \notin S PROVE FALSE
  BY DEF Homely, Home
<1> DEFINE Q == {n[i].path : i \in S}
<1>1. Q # {} /\ Q \subseteq Seq(NameSet)
  BY TreePaths DEF PathSet
<1> HIDE DEF Q
<1>2. PICK q \in Q : \A r \in Q : Len(q) <= Len(r)
  BY <1>1, Shortest
<1>3. PICK k \in S : q = n[k].path
  BY DEF Q
<1> DEFINE h == n[k].parent
<1>4. h \in S /\ k # Root /\ n[h].path \in Q
  BY <1>3 DEF Q
<1>5. Len(n[k].path) = Len(n[h].path) + 1 /\ Len(n[h].path) \in Nat
  <2>1. n[h].path \in Seq(NameSet)
    BY <1>4, TreePaths DEF PathSet
  <2> QED BY <1>4, <2>1, TreePaths, LenProperties
<1>6. Len(q) <= Len(n[h].path)
  BY <1>2, <1>4
<1> HIDE DEF h
<1> QED
  BY <1>3, <1>5, <1>6

-----------------------------------------------------------------------------
(* What the writes of the operations leave behind. *)

\* A new index, in the two steps of Save.
LEMMA SaveIs ==
    ASSUME NEW f, NEW ix, NEW S, NEW q, NEW iy
    PROVE  Save(Durable(f, ix, S, q), iy) = <<Durable(f, EmptyIndex, S, q), Durable(f, iy, S, q)>>
  BY DurableUpdates DEF Save

\* The files once some ACLs are written.
Acled(f, acls) ==
    [p \in DOMAIN f |-> IF p \in DOMAIN acls /\ f[p].type = "dir" THEN [f[p] EXCEPT !.acl = acls[p]] ELSE f[p]]

\* SaveACL changes the files of the disk only.
LEMMA SaveACLIs ==
    ASSUME NEW f, FilesOK(f), NEW ix, NEW S, NEW q, NEW acls
    PROVE  SaveACL(Durable(f, ix, S, q), acls) = Durable(Acled(f, acls), ix, S, q)
<1> DEFINE d == Durable(f, ix, S, q)
<1>1. d.files = f
  BY DurableFields
<1>2. \A p \in DOMAIN f : ~IsACLFile(p) /\ ACLFile(f, p) = p
  <2>1. \A p \in DOMAIN f : p \in PathSet
    BY DEF FilesOK
  <2> QED BY <2>1, NoACLFile DEF ACLFile
<1> HIDE DEF d
<1>3. SaveACL(d, acls) = [d EXCEPT !.files = Acled(f, acls)]
  BY <1>1, <1>2 DEF SaveACL, Acled
<1> QED
  BY <1>3, DurableUpdates DEF d

\* Writing an ACL keeps the rest of an entry.
LEMMA EntryAcl ==
    ASSUME NEW e \in Entry, NEW A \in SUBSET Grantees, NEW x, x = [e EXCEPT !.acl = A]
    PROVE  x \in Entry /\ x.type = e.type /\ x.size = e.size /\ x.acl = A /\ x.fid = e.fid
  BY DEF Entry

\* SaveACL changes the ACLs of the directories it names only.
LEMMA AcledFacts ==
    ASSUME NEW f, FilesOK(f), NEW acls, \A p \in DOMAIN acls : acls[p] \in SUBSET Grantees,
           NEW g, g = Acled(f, acls)
    PROVE  /\ FilesOK(g) /\ DOMAIN g = DOMAIN f
           /\ \A p \in DOMAIN f :
                 /\ g[p].type = f[p].type /\ g[p].size = f[p].size /\ g[p].fid = f[p].fid
                 /\ g[p].acl = IF p \in DOMAIN acls /\ f[p].type = "dir" THEN acls[p] ELSE f[p].acl
<1>1. DOMAIN g = DOMAIN f /\ g = [p \in DOMAIN f |-> g[p]]
  BY DEF Acled
<1>2. ASSUME NEW p \in DOMAIN f
      PROVE  /\ g[p] \in Entry
             /\ g[p].type = f[p].type /\ g[p].size = f[p].size /\ g[p].fid = f[p].fid
             /\ g[p].acl = IF p \in DOMAIN acls /\ f[p].type = "dir" THEN acls[p] ELSE f[p].acl
  <2>1. f[p] \in Entry
    BY DEF FilesOK
  <2>2. CASE p \in DOMAIN acls /\ f[p].type = "dir"
    <3>1. g[p] = [f[p] EXCEPT !.acl = acls[p]] /\ acls[p] \in SUBSET Grantees
      BY <2>2 DEF Acled
    <3> QED BY <2>1, <2>2, <3>1, EntryAcl
  <2>3. CASE ~(p \in DOMAIN acls /\ f[p].type = "dir")
    <3>1. g[p] = f[p]
      BY <2>3 DEF Acled
    <3> QED BY <2>1, <2>3, <3>1
  <2> QED BY <2>2, <2>3
<1>3. g \in [DOMAIN f -> Entry]
  BY <1>1, <1>2
<1>4. FilesOK(g)
  BY <1>1, <1>2, <1>3, SameFiles
<1> QED
  BY <1>1, <1>2, <1>4

\* g is f with a file or directory more.
Added(f, g, p, e) == FilesOK(g) /\ DOMAIN g = DOMAIN f \cup {p} /\ g[p] = e /\ \A q \in DOMAIN f : g[q] = f[q]

\* A new entry in an existing directory keeps the files well formed.
LEMMA AddFile ==
    ASSUME NEW f, FilesOK(f), NEW d \in DOMAIN f, f[d].type = "dir", NEW name \in NameSet,
           NEW p, p = Append(d, name), p \notin DOMAIN f, NEW e \in Entry, NEW g, g = With(f, p, e)
    PROVE  Added(f, g, p, e)
<1>1. DOMAIN g = DOMAIN f \cup {p} /\ g[p] = e /\ (\A q \in DOMAIN f : g[q] = f[q]) /\ g = [q \in DOMAIN g |-> g[q]]
  BY DEF With
<1>2. /\ \A q \in DOMAIN f : f[q] \in Entry
      /\ IsFiniteSet(DOMAIN f) /\ DOMAIN f \subseteq PathSet
      /\ \A q \in {<<>>, TrashPath} : q \in DOMAIN f /\ f[q].type = "dir"
      /\ \A q \in DOMAIN f \ {<<>>} : Front(q) \in DOMAIN f /\ f[Front(q)].type = "dir"
  BY DEF FilesOK
<1>3. p \in PathSet /\ p # <<>> /\ d \in PathSet
  <2>1. d \in Seq(NameSet)
    BY <1>2 DEF PathSet
  <2>2. Append(d, name) \in Seq(NameSet) /\ Append(d, name) # <<>>
    BY <2>1, AppendFacts
  <2> QED BY <2>1, <2>2 DEF PathSet
<1>4. Front(p) = d
  <2>1. Front(p) \in PathSet /\ Last(p) \in NameSet /\ p = Append(Front(p), Last(p))
    BY <1>3, FrontLast DEF PathSet
  <2> QED BY <1>3, <2>1, PathAppend
<1>5. IsFiniteSet(DOMAIN g)
  <2>1. IsFiniteSet(DOMAIN f)
    BY <1>2
  <2>2. IsFiniteSet(DOMAIN f \cup {p})
    BY <2>1, FS_AddElement
  <2> QED BY <1>1, <2>2
<1>6. \A q \in DOMAIN g : g[q] \in Entry
  BY <1>1, <1>2
<1>7. g \in [DOMAIN g -> Entry]
  BY <1>1, <1>6
<1>8. \A q \in DOMAIN g \ {<<>>} : Front(q) \in DOMAIN g /\ g[Front(q)].type = "dir"
  BY <1>1, <1>2, <1>4
<1>9. FilesOK(g)
  BY <1>1, <1>2, <1>3, <1>5, <1>7, <1>8 DEF FilesOK
<1> QED
  BY <1>1, <1>9 DEF Added

\* g is f without the files of P.
Kept(f, g, P) == FilesOK(g) /\ DOMAIN g = DOMAIN f \ P /\ \A q \in DOMAIN g : g[q] = f[q]

\* Files without some of them, a directory with all that is below it.
LEMMA RemoveFiles ==
    ASSUME NEW f, FilesOK(f), NEW P, <<>> \notin P, TrashPath \notin P,
           \A p, q \in DOMAIN f : p \in P /\ IsPrefix(p, q) => q \in P,
           NEW g, g = Without(f, P)
    PROVE  Kept(f, g, P)
<1>1. DOMAIN g = DOMAIN f \ P /\ (\A q \in DOMAIN g : g[q] = f[q]) /\ g = [q \in DOMAIN g |-> g[q]]
  BY DEF Without
<1>2. /\ \A q \in DOMAIN f : f[q] \in Entry
      /\ IsFiniteSet(DOMAIN f) /\ DOMAIN f \subseteq PathSet
      /\ \A q \in {<<>>, TrashPath} : q \in DOMAIN f /\ f[q].type = "dir"
      /\ \A q \in DOMAIN f \ {<<>>} : Front(q) \in DOMAIN f /\ f[Front(q)].type = "dir"
  BY DEF FilesOK
<1>3. IsFiniteSet(DOMAIN g)
  BY <1>1, <1>2, FS_Subset
<1>4. g \in [DOMAIN g -> Entry]
  BY <1>1, <1>2
<1>5. ASSUME NEW q \in DOMAIN g \ {<<>>} PROVE Front(q) \in DOMAIN g /\ g[Front(q)].type = "dir"
  <2>1. q \in DOMAIN f \ {<<>>} /\ Front(q) \in DOMAIN f /\ f[Front(q)].type = "dir" /\ q \notin P
    BY <1>1, <1>2
  <2>2. q \in Seq(NameSet) /\ q # <<>>
    BY <1>2, <2>1 DEF PathSet
  <2>3. Front(q) \in Seq(NameSet) /\ Last(q) \in NameSet /\ q = Append(Front(q), Last(q))
    BY <2>2, FrontLast
  <2>4. IsPrefix(Front(q), Front(q))
    BY <2>3, PrefixOrder
  <2>5. IsPrefix(Front(q), Append(Front(q), Last(q)))
    BY <2>3, <2>4, PrefixAppend
  <2>6. IsPrefix(Front(q), q)
    BY <2>3, <2>5
  <2> QED BY <1>1, <2>1, <2>6
<1>6. FilesOK(g)
  BY <1>1, <1>2, <1>3, <1>4, <1>5 DEF FilesOK
<1> QED
  BY <1>1, <1>6 DEF Kept

\* The old prefix itself becomes the new one.
LEMMA PathItself ==
    \A old, new \in PathSet : IsPrefix(old, old) /\ Rebase(old, old, new) = new
<1> SUFFICES ASSUME NEW old \in Seq(NameSet), NEW new \in Seq(NameSet) PROVE IsPrefix(old, old) /\ Rebase(old, old, new) = new
  BY DEF PathSet
<1>1. IsPrefix(old, old)
  BY PrefixOrder
<1> QED
  BY <1>1, RebaseBack

\* RebaseBack and RebaseAppend for paths.
LEMMA PathRebase ==
    \A p, old, new \in PathSet : IsPrefix(old, p) =>
        /\ Rebase(p, old, new) \in PathSet /\ IsPrefix(new, Rebase(p, old, new)) /\ Rebase(old, old, new) = new
        /\ \A n \in NameSet : Rebase(Append(p, n), old, new) = Append(Rebase(p, old, new), n)
<1> SUFFICES ASSUME NEW p \in Seq(NameSet), NEW old \in Seq(NameSet), NEW new \in Seq(NameSet), IsPrefix(old, p)
             PROVE  /\ Rebase(p, old, new) \in Seq(NameSet) /\ IsPrefix(new, Rebase(p, old, new)) /\ Rebase(old, old, new) = new
                    /\ \A n \in NameSet : Rebase(Append(p, n), old, new) = Append(Rebase(p, old, new), n)
  BY DEF PathSet
<1>1. \A n \in NameSet : Rebase(Append(p, n), old, new) = Append(Rebase(p, old, new), n)
  BY RebaseAppend
<1> QED
  BY <1>1, RebaseBack

\* A rename, also of one file over another.
LEMMA RenameFiles ==
    ASSUME NEW f, FilesOK(f), NEW old \in DOMAIN f, old # <<>>, ~IsPrefix(old, TrashPath),
           NEW d \in DOMAIN f, f[d].type = "dir", ~IsPrefix(old, d), NEW name \in NameSet,
           NEW new, new = Append(d, name),
           new \in DOMAIN f => f[old].type = "file" /\ f[new].type = "file",
           NEW g, g = RenameKeys(f, old, new)
    PROVE  FilesOK(g)
<1>1. /\ \A q \in DOMAIN f : f[q] \in Entry
      /\ IsFiniteSet(DOMAIN f) /\ DOMAIN f \subseteq PathSet
      /\ \A q \in {<<>>, TrashPath} : q \in DOMAIN f /\ f[q].type = "dir"
      /\ \A q \in DOMAIN f \ {<<>>} : Front(q) \in DOMAIN f /\ f[Front(q)].type = "dir"
  BY DEF FilesOK
<1>2. d \in Seq(NameSet) /\ old \in Seq(NameSet) /\ new \in Seq(NameSet) /\ new # <<>>
  <2>1. d \in Seq(NameSet) /\ old \in Seq(NameSet)
    BY <1>1 DEF PathSet
  <2>2. Append(d, name) \in Seq(NameSet) /\ Append(d, name) # <<>>
    BY <2>1, AppendFacts
  <2> QED BY <2>1, <2>2
<1>3. /\ g = [q \in DOMAIN g |-> g[q]]
      /\ \A p \in DOMAIN f : IsPrefix(old, p) => Rebase(p, old, new) \in DOMAIN g /\ g[Rebase(p, old, new)] = f[p]
      /\ \A p \in DOMAIN f : ~IsPrefix(old, p) /\ ~IsPrefix(new, p) => p \in DOMAIN g /\ g[p] = f[p]
      /\ \A q \in DOMAIN g : q \in PathSet
      /\ \A q \in DOMAIN g : \E p \in DOMAIN f :
            g[q] = f[p] /\ IF IsPrefix(old, p) THEN q = Rebase(p, old, new) ELSE q = p
  <2>1. old \in PathSet /\ new \in PathSet
    BY <1>2 DEF PathSet
  <2>2. Renamed(f, g, old, new)
    BY <1>1, <2>1, RenameKeysFacts
  <2> QED BY <2>2 DEF Renamed
\* What is a directory and is not below old stays.
<1>4. ASSUME NEW p \in DOMAIN f, f[p].type = "dir", ~IsPrefix(old, p)
      PROVE  p \in DOMAIN g /\ g[p] = f[p]
  <2>1. ~IsPrefix(new, p)
    <3> SUFFICES ASSUME IsPrefix(new, p) PROVE FALSE
      OBVIOUS
    <3>1. new \in DOMAIN f /\ (new # p => f[new].type = "dir")
      BY <1>2, FileAncestors DEF PathSet
    <3> QED BY <1>4, <3>1
  <2> QED BY <1>3, <1>4, <2>1
<1>5. \A p \in {<<>>, TrashPath} : p \in DOMAIN g /\ g[p].type = "dir"
  <2>1. ~IsPrefix(old, <<>>)
    <3>1. <<>> \in Seq(NameSet)
      BY EmptyPath DEF PathSet
    <3> QED BY <1>2, <3>1, PrefixOrder
  <2> QED BY <1>1, <1>4, <2>1
<1>6. ASSUME NEW q \in DOMAIN g, q # <<>> PROVE Front(q) \in DOMAIN g /\ g[Front(q)].type = "dir"
  <2>1. PICK p \in DOMAIN f : g[q] = f[p] /\ IF IsPrefix(old, p) THEN q = Rebase(p, old, new) ELSE q = p
    BY <1>3
  <2>2. p \in Seq(NameSet) /\ q \in Seq(NameSet)
    BY <1>1, <1>3 DEF PathSet
  <2>3. Front(q) \in Seq(NameSet) /\ Last(q) \in NameSet /\ q = Append(Front(q), Last(q))
    BY <1>6, <2>2, FrontLast
  <2>4. CASE p = old
    <3>1. IsPrefix(old, old) /\ Rebase(old, old, new) = new
      <4>1. old \in PathSet /\ new \in PathSet
        BY <1>2 DEF PathSet
      <4> QED BY <4>1, PathItself
    <3>2. q = Append(d, name)
      BY <2>1, <2>4, <3>1
    <3>3. Front(q) = d
      BY <1>2, <2>3, <3>2, AppendsEqual
    <3> QED BY <1>4, <3>3
  <2>5. CASE p # <<>> /\ p # old
    <3>1. Front(p) \in Seq(NameSet) /\ Last(p) \in NameSet /\ p = Append(Front(p), Last(p))
      BY <2>2, <2>5, FrontLast
    <3>2. Front(p) \in DOMAIN f /\ f[Front(p)].type = "dir"
      BY <1>1, <2>5
    <3>3. IsPrefix(old, Append(Front(p), Last(p))) <=> old = Append(Front(p), Last(p)) \/ IsPrefix(old, Front(p))
      BY <1>2, <3>1, PrefixAppend
    <3>4. IsPrefix(old, p) <=> IsPrefix(old, Front(p))
      BY <2>5, <3>1, <3>3
    <3>5. CASE IsPrefix(old, p)
      <4>1. Rebase(Append(Front(p), Last(p)), old, new) = Append(Rebase(Front(p), old, new), Last(p))
        <5>1. IsPrefix(old, Front(p))
          BY <3>4, <3>5
        <5>2. old \in PathSet /\ new \in PathSet /\ Front(p) \in PathSet /\ Last(p) \in NameSet
          BY <1>2, <3>1 DEF PathSet
        <5> QED BY <5>1, <5>2, PathRebase
      <4>2. Rebase(Front(p), old, new) \in Seq(NameSet)
        BY <1>2, <3>1, <3>4, <3>5, RebaseBack
      <4>3. q = Append(Rebase(Front(p), old, new), Last(p))
        BY <2>1, <3>1, <3>5, <4>1
      <4>4. Front(q) = Rebase(Front(p), old, new)
        BY <2>3, <3>1, <4>2, <4>3, AppendsEqual
      <4> QED BY <1>3, <3>2, <3>4, <3>5, <4>4
    <3>6. CASE ~IsPrefix(old, p)
      <4>1. q = p
        BY <2>1, <3>6
      <4> QED BY <1>4, <3>2, <3>4, <3>6, <4>1
    <3> QED BY <3>5, <3>6
  <2>6. CASE p = <<>> /\ p # old
    <3>1. ~IsPrefix(old, p)
      BY <1>2, <2>2, <2>6, PrefixOrder
    <3> QED BY <1>6, <2>1, <2>6, <3>1
  <2> QED BY <2>4, <2>5, <2>6
<1>7. g \in [DOMAIN g -> Entry]
  BY <1>1, <1>3
<1>8. IsFiniteSet(DOMAIN g)
  <2> DEFINE h == [p \in DOMAIN f |-> IF IsPrefix(old, p) THEN Rebase(p, old, new) ELSE p]
             T == {h[p] : p \in DOMAIN f}
  <2>3. h \in Surjection(DOMAIN f, T)
    BY DEF Surjection
  <2>4. IsFiniteSet(DOMAIN f)
    BY <1>1
  <2> HIDE DEF T, h
  <2>1. IsFiniteSet(T)
    BY <2>3, <2>4, FS_Surjection
  <2>2. DOMAIN g \subseteq T
    BY <1>3 DEF T, h
  <2> QED BY <2>1, <2>2, FS_Subset
<1> QED
  BY <1>3, <1>5, <1>6, <1>7, <1>8 DEF FilesOK

\* The index after a rename, also when an old number is lost with it.
LEMMA RenameIndex ==
    ASSUME NEW ix, IndexOK(ix), DOMAIN ix.ids # {}, NEW old \in PathSet, old # <<>>, NEW new \in PathSet, new # <<>>,
           NEW iy, iy = RenamePrefix(ix, old, new)
    PROVE  IndexOK(iy)
<1> DEFINE f == ix.ids
           g == iy.ids
<1>1. /\ ix = [ids |-> ix.ids, next |-> ix.next] /\ ix.next \in 0 .. MaxId
      /\ f \in [DOMAIN f -> 0 .. ix.next - 1] /\ DOMAIN f \subseteq PathSet
      /\ \A p, q \in DOMAIN f : f[p] = f[q] => p = q
      /\ <<>> \in DOMAIN f /\ f[<<>>] = Root
  BY DEF IndexOK
<1>2. iy = [ids |-> RenameKeys(f, old, new), next |-> ix.next]
  <2>1. \A a, b, c : [[ids |-> a, next |-> b] EXCEPT !.ids = c] = [ids |-> c, next |-> b]
    OBVIOUS
  <2>2. iy = [ix EXCEPT !.ids = RenameKeys(ix.ids, old, new)]
    BY DEF RenamePrefix
  <2> QED BY <1>1, <2>1, <2>2
<1>3. g = RenameKeys(f, old, new) /\ iy.next = ix.next /\ iy = [ids |-> iy.ids, next |-> iy.next]
  BY <1>2
<1> HIDE DEF f, g
<1>4. /\ g = [q \in DOMAIN g |-> g[q]]
      /\ \A p \in DOMAIN f : IsPrefix(old, p) => Rebase(p, old, new) \in DOMAIN g /\ g[Rebase(p, old, new)] = f[p]
      /\ \A p \in DOMAIN f : ~IsPrefix(old, p) /\ ~IsPrefix(new, p) => p \in DOMAIN g /\ g[p] = f[p]
      /\ \A q \in DOMAIN g : q \in PathSet
      /\ \A q \in DOMAIN g : \E p \in DOMAIN f :
            g[q] = f[p] /\ IF IsPrefix(old, p) THEN q = Rebase(p, old, new) ELSE q = p
  <2>1. Renamed(f, g, old, new)
    BY <1>1, <1>3, RenameKeysFacts
  <2> QED BY <2>1 DEF Renamed
<1>5. ASSUME NEW p \in DOMAIN g, NEW q \in DOMAIN g, g[p] = g[q] PROVE p = q
  <2>1. PICK a \in DOMAIN f : g[p] = f[a] /\ IF IsPrefix(old, a) THEN p = Rebase(a, old, new) ELSE p = a
    BY <1>4
  <2>2. PICK b \in DOMAIN f : g[q] = f[b] /\ IF IsPrefix(old, b) THEN q = Rebase(b, old, new) ELSE q = b
    BY <1>4
  <2>3. a = b
    BY <1>1, <1>5, <2>1, <2>2
  <2> QED BY <2>1, <2>2, <2>3
<1>6. \A q \in DOMAIN g : g[q] \in 0 .. ix.next - 1
  BY <1>1, <1>4
<1>7. <<>> \in DOMAIN g /\ g[<<>>] = Root
  <2>1. ~IsPrefix(old, <<>>) /\ ~IsPrefix(new, <<>>)
    <3>1. <<>> \in Seq(NameSet) /\ old \in Seq(NameSet) /\ new \in Seq(NameSet)
      BY EmptyPath DEF PathSet
    <3> QED BY <3>1, PrefixOrder
  <2> QED BY <1>1, <1>4, <2>1
<1> QED
  BY <1>1, <1>3, <1>4, <1>5, <1>6, <1>7 DEF IndexOK, g

-----------------------------------------------------------------------------
(* The steps, one operation at a time. *)

\* The parts of NextTree put together.
LEMMA NextTreeFrom ==
    ASSUME TreeOK(inodes'), NEW f, NEW q, disk' = Durable(f, index', shares', q), FilesOK(f), IndexOK(index'),
           shares' \subseteq GrantSet, q \in Nat, Numbered(inodes', index'), Match(inodes', f),
           MetaOK(inodes', index', trashMeta')
    PROVE  NextTree /\ disk'.files = f
  BY DurableFields DEF NextTree

\* An operation that leaves the tree and the disk alone.
LEMMA QuietTree ==
    ASSUME CoreInv, disk' = disk, inodes' = inodes, index' = index, shares' = shares, trashMeta' = trashMeta
    PROVE  NextTree
  BY DEF CoreInv, TreeInv, DiskInv, MetaInv, NextTree

\* Requests only look at what has been deleted.
LEMMA RequestKept ==
    ASSUME NEW n, NEW m, NEW k, NEW q, RequestOK(n, k, q), DOMAIN n \subseteq DOMAIN m
    PROVE  RequestOK(m, k, q)
  BY DEF RequestOK

MadeFiles(r) == With(disk.files, NewPath(r), NewEntry(r.type, None))
AcledFiles(r) == Acled(MadeFiles(r), [p \in {NewPath(r)} |-> inodes[r.dir].shared])
NewIndex(r) == GetOrAssign(index, NewPath(r))
NewId(r) == NewIndex(r).ids[NewPath(r)]
CreatedFiles(r) == [AcledFiles(r) EXCEPT ![NewPath(r)] = [@ EXCEPT !.fid = NewId(r)]]

\* The path of a new file is free, and so is its number.
LEMMA CreateTarget ==
    ASSUME CoreInv, NEW r, RequestOK(inodes, "create", r), r.name # aclFileName, CanCreate(r)
    PROVE  /\ r.dir \in Live /\ inodes[r.dir].type = "dir" /\ r.name \in NameSet /\ r.type \in {"file", "dir"}
           /\ NewPath(r) = Append(Path(r.dir), r.name) /\ NewPath(r) \in PathSet
           /\ NewPath(r) \notin DOMAIN disk.files /\ (\A k \in Live : Path(k) # NewPath(r))
           /\ Path(r.dir) \in DOMAIN disk.files /\ disk.files[Path(r.dir)].type = "dir"
           /\ IndexOK(NewIndex(r)) /\ NewId(r) \in Ids \ Live
           /\ DOMAIN NewIndex(r).ids = DOMAIN index.ids \cup {NewPath(r)}
           /\ \A p \in DOMAIN index.ids : NewIndex(r).ids[p] = index.ids[p]
           /\ index.next <= NewIndex(r).next
           /\ \A i \in DOMAIN trashMeta : trashMeta[i].parent # NewId(r)
           /\ inodes[r.dir].shared \in SUBSET Grantees
<1> DEFINE path == NewPath(r)
           ix == NewIndex(r)
           i == NewId(r)
<1>1. /\ TreeOK(inodes) /\ IndexOK(index) /\ DOMAIN index.ids # {} /\ Numbered(inodes, index)
      /\ Paths(Live) = DOMAIN disk.files /\ MetaOK(inodes, index, trashMeta)
      /\ \A j \in Live : Path(j) \in DOMAIN disk.files /\ disk.files[Path(j)].type = inodes[j].type
  BY CoreFacts
<1>2. /\ r.dir \in Live /\ inodes[r.dir].type = "dir" /\ r.name \in NameSet /\ r.type \in {"file", "dir"}
      /\ path = Append(Path(r.dir), r.name)
      /\ GetChildInodeByName(r.dir, r.name) = {} /\ HasRoom(index, path)
  BY DEF CanCreate, RequestOK, NewPath, Child
<1>3. path \in PathSet /\ \A k \in Live : Path(k) # path
  <2>1. /\ \A k \in Live : Path(k) = Append(Path(r.dir), r.name) <=> k \in GetChildInodeByName(r.dir, r.name)
        /\ Append(Path(r.dir), r.name) \in PathSet
    BY <1>1, <1>2, ChildPath
  <2> QED BY <1>2, <2>1
<1>4. path \notin DOMAIN disk.files
  BY <1>1, <1>3 DEF Paths
<1>5. /\ IndexOK(ix) /\ ix.next \in {index.next, index.next + 1} /\ DOMAIN ix.ids = DOMAIN index.ids \cup {path}
      /\ \A q \in DOMAIN index.ids : ix.ids[q] = index.ids[q]
      /\ ix.ids[path] < ix.next
      /\ (ix.ids[path] = index.next /\ ix.next = index.next + 1) \/ (path \in DOMAIN index.ids /\ ix = index)
  <2>1. ix = GetOrAssign(index, path)
    BY DEF NewIndex
  <2> HIDE DEF ix, path
  <2>2. IndexOK(index) /\ DOMAIN index.ids # {} /\ path \in PathSet /\ HasRoom(index, path)
    BY <1>1, <1>2, <1>3
  <2> QED BY <2>1, <2>2, AssignIndex
<1>6. i = ix.ids[path]
  BY DEF NewId
<1> HIDE DEF path, ix, i
<1>7. i \in Ids /\ index.next \in Nat /\ index.next <= ix.next
  <2>1. MaxId \in Nat /\ index.next \in 0 .. MaxId /\ ix.next \in 0 .. MaxId /\ ix.ids \in [DOMAIN ix.ids -> 0 .. ix.next - 1]
    BY <1>1, <1>5, FileServerAssumption DEF IndexOK
  <2>2. ix.ids[path] \in 0 .. ix.next - 1
    BY <1>5, <2>1
  <2> QED BY <1>5, <1>6, <2>1, <2>2 DEF Ids
<1>8. \A q \in DOMAIN index.ids : index.ids[q] = i => q = path
  <2>1. \A q \in DOMAIN index.ids : q \in DOMAIN ix.ids /\ ix.ids[q] = index.ids[q]
    BY <1>5
  <2>2. path \in DOMAIN ix.ids
    BY <1>5
  <2>3. \A q \in DOMAIN ix.ids : ix.ids[q] = ix.ids[path] => q = path
    BY <1>5, <2>2 DEF IndexOK
  <2> QED BY <1>6, <2>1, <2>3
<1>9. i \notin Live
  BY <1>1, <1>3, <1>8 DEF Numbered, Live, Path
<1>10. ASSUME NEW j \in DOMAIN trashMeta PROVE trashMeta[j].parent # i
  <2>1. trashMeta[j].parent < index.next
    BY <1>1 DEF MetaOK
  <2>2. trashMeta[j].parent \in Live \/ \A p \in DOMAIN index.ids : index.ids[p] # trashMeta[j].parent
    BY <1>1 DEF MetaOK, Live
  <2>3. CASE i = index.next
    BY <1>7, <2>1, <2>3
  <2>4. CASE i # index.next
    BY <1>5, <1>6, <1>9, <2>2, <2>4
  <2> QED BY <2>3, <2>4
<1>11. inodes[r.dir].shared \in SUBSET Grantees
  <2>1. inodes[r.dir] \in InodeSet
    BY <1>1, <1>2 DEF TreeOK, Live
  <2> QED BY <2>1, InodeFields
<1>12. Path(r.dir) \in DOMAIN disk.files /\ disk.files[Path(r.dir)].type = "dir"
  BY <1>1, <1>2
<1> QED
  BY <1>2, <1>3, <1>4, <1>5, <1>7, <1>9, <1>10, <1>11, <1>12 DEF path, ix, i

\* The fields of a new entry.
LEMMA NewEntryIs ==
    ASSUME NEW t \in {"file", "dir"}, NEW i \in Ids \cup {None}, NEW e, e = NewEntry(t, i)
    PROVE  e \in Entry /\ e.type = t /\ e.size = 0 /\ e.acl = {} /\ e.fid = i
  BY DEF NewEntry, Entry

\* What a creation leaves on disk, write by write.
LEMMA CreateDisk ==
    ASSUME CoreInv, NEW r, RequestOK(inodes, "create", r), r.name # aclFileName, CanCreate(r)
    PROVE  /\ CreateSteps(r) = <<Durable(MadeFiles(r), index, shares, disk.quota), Durable(AcledFiles(r), index, shares, disk.quota),
                                 Durable(AcledFiles(r), EmptyIndex, shares, disk.quota),
                                 Durable(CreatedFiles(r), NewIndex(r), shares, disk.quota)>>
           /\ FilesOK(MadeFiles(r)) /\ FilesOK(AcledFiles(r)) /\ FilesOK(CreatedFiles(r))
           /\ DOMAIN CreatedFiles(r) = DOMAIN disk.files \cup {NewPath(r)}
           /\ \A p \in DOMAIN disk.files : CreatedFiles(r)[p] = disk.files[p]
           /\ CreatedFiles(r)[NewPath(r)].type = r.type /\ CreatedFiles(r)[NewPath(r)].size = 0
           /\ CreatedFiles(r)[NewPath(r)].fid = NewId(r)
           /\ CreatedFiles(r)[NewPath(r)].acl = IF r.type = "dir" THEN inodes[r.dir].shared ELSE {}
<1> DEFINE f == disk.files
           path == NewPath(r)
           e == NewEntry(r.type, None)
           acls == [p \in {NewPath(r)} |-> inodes[r.dir].shared]
           f1 == MadeFiles(r)
           f2 == AcledFiles(r)
           f3 == CreatedFiles(r)
           id == NewId(r)
<1>1. /\ r.dir \in Live /\ r.name \in NameSet /\ r.type \in {"file", "dir"}
      /\ path = Append(Path(r.dir), r.name) /\ path \in PathSet /\ path \notin DOMAIN f
      /\ Path(r.dir) \in DOMAIN f /\ f[Path(r.dir)].type = "dir"
      /\ id \in Ids /\ inodes[r.dir].shared \in SUBSET Grantees
  BY CreateTarget
<1>2. disk = Durable(f, index, shares, disk.quota) /\ FilesOK(f) /\ \A p \in DOMAIN f : f[p] \in Entry
  BY CoreFacts DEF FilesOK
<1>3. e \in Entry /\ e.type = r.type /\ e.size = 0 /\ e.acl = {} /\ e.fid = None
  BY <1>1, NewEntryIs
<1>4. f1 = With(f, path, e) /\ f2 = Acled(f1, acls) /\ f3 = [f2 EXCEPT ![path] = [@ EXCEPT !.fid = id]]
  BY DEF MadeFiles, AcledFiles, CreatedFiles
<1>5. DOMAIN acls = {path} /\ acls[path] = inodes[r.dir].shared /\ \A p \in DOMAIN acls : acls[p] \in SUBSET Grantees
  BY <1>1
<1>6. CreateSteps(r) = LET made == [disk EXCEPT !.files = With(@, path, e)]
                           acld == SaveACL(made, acls)
                           saved == Save(acld, NewIndex(r))
                       IN  <<made, acld, saved[1], [saved[2] EXCEPT !.files[path].fid = id]>>
  <2>1. ReplaceACL(disk.files, path) = disk.files
    BY <1>1, NoACLFile DEF ReplaceACL
  <2> QED BY <2>1 DEF CreateSteps, NewIndex, NewId
<1> HIDE DEF e, acls, f1, f2, f3, id, path, f
<1>7. FilesOK(f1) /\ DOMAIN f1 = DOMAIN f \cup {path} /\ f1[path] = e /\ \A p \in DOMAIN f : f1[p] = f[p]
  <2> DEFINE n == r.name
             h == Path(r.dir)
  <2>1. FilesOK(f) /\ h \in DOMAIN f /\ f[h].type = "dir" /\ n \in NameSet
    BY <1>1, <1>2
  <2>2. path = Append(h, n) /\ path \notin DOMAIN f /\ e \in Entry /\ f1 = With(f, path, e)
    BY <1>1, <1>3, <1>4
  <2> HIDE DEF n, h
  <2>3. Added(f, f1, path, e)
    BY <2>1, <2>2, AddFile
  <2> QED BY <2>3 DEF Added
<1>8. /\ FilesOK(f2) /\ DOMAIN f2 = DOMAIN f1
      /\ \A p \in DOMAIN f1 :
                 /\ f2[p].type = f1[p].type /\ f2[p].size = f1[p].size /\ f2[p].fid = f1[p].fid
                 /\ f2[p].acl = IF p \in DOMAIN acls /\ f1[p].type = "dir" THEN acls[p] ELSE f1[p].acl
  BY <1>4, <1>5, <1>7, AcledFacts
<1>9. \A p \in DOMAIN f : f2[p] = f[p]
  <2>1. \A p \in DOMAIN f : p \in DOMAIN f1 /\ p \notin DOMAIN acls
    BY <1>1, <1>5, <1>7
  <2>2. \A p \in DOMAIN f1 : p \notin DOMAIN acls => f2[p] = f1[p]
    BY <1>4 DEF Acled
  <2> QED BY <1>7, <2>1, <2>2
<1>10. /\ DOMAIN f3 = DOMAIN f2 /\ f3[path] = [f2[path] EXCEPT !.fid = id] /\ f3 = [p \in DOMAIN f3 |-> f3[p]]
       /\ \A p \in DOMAIN f : f3[p] = f[p]
  BY <1>1, <1>4, <1>7, <1>8, <1>9
<1>11. f2[path] \in Entry /\ path \in DOMAIN f1
  BY <1>7, <1>8 DEF FilesOK
<1>12. /\ f3[path] \in Entry /\ f3[path].type = f2[path].type /\ f3[path].size = f2[path].size
       /\ f3[path].acl = f2[path].acl /\ f3[path].fid = id
  <2>1. id \in Ids
    BY <1>1
  <2> QED BY <1>10, <1>11, <2>1, EntryFid
<1>13. FilesOK(f3)
  <2>1. \A p \in DOMAIN f2 : f3[p] \in Entry /\ f3[p].type = f2[p].type
    <3>1. DOMAIN f2 = DOMAIN f \cup {path}
      BY <1>7, <1>8
    <3>2. \A p \in DOMAIN f : f[p] \in Entry
      BY <1>2 DEF FilesOK
    <3>3. \A p \in DOMAIN f : f3[p] \in Entry /\ f3[p].type = f2[p].type
      BY <1>9, <1>10, <3>2
    <3> QED BY <1>12, <3>1, <3>3
  <2>2. f3 \in [DOMAIN f2 -> Entry]
    BY <1>10, <2>1
  <2>3. DOMAIN f3 = DOMAIN f2
    BY <1>10
  <2> QED BY <1>8, <2>1, <2>2, <2>3, SameFiles
<1>14. [disk EXCEPT !.files = With(@, path, e)] = Durable(f1, index, shares, disk.quota)
  <2>1. [disk EXCEPT !.files = With(@, path, e)] = [disk EXCEPT !.files = f1]
    BY <1>4 DEF f
  <2>2. [Durable(f, index, shares, disk.quota) EXCEPT !.files = f1] = Durable(f1, index, shares, disk.quota)
    BY DurableUpdates
  <2> QED BY <1>2, <2>1, <2>2
<1>15. SaveACL(Durable(f1, index, shares, disk.quota), acls) = Durable(f2, index, shares, disk.quota)
  BY <1>4, <1>7, SaveACLIs
<1>16. Save(Durable(f2, index, shares, disk.quota), NewIndex(r))
         = <<Durable(f2, EmptyIndex, shares, disk.quota), Durable(f2, NewIndex(r), shares, disk.quota)>>
  BY SaveIs
<1>17. [Durable(f2, NewIndex(r), shares, disk.quota) EXCEPT !.files[path].fid = id] = Durable(f3, NewIndex(r), shares, disk.quota)
  <2> DEFINE D == Durable(f2, NewIndex(r), shares, disk.quota)
  <2>1. D.files = f2
    BY DurableFields
  <2>2. [D EXCEPT !.files[path].fid = id] = [D EXCEPT !.files = [D.files EXCEPT ![path] = [D.files[path] EXCEPT !.fid = id]]]
    BY DEF Durable
  <2>3. [D EXCEPT !.files = f3] = Durable(f3, NewIndex(r), shares, disk.quota)
    BY DurableUpdates
  <2> HIDE DEF D
  <2>4. f3 = [f2 EXCEPT ![path] = [f2[path] EXCEPT !.fid = id]]
    BY <1>4
  <2>5. [D EXCEPT !.files[path].fid = id] = [D EXCEPT !.files = [f2 EXCEPT ![path] = [f2[path] EXCEPT !.fid = id]]]
    BY <2>1, <2>2
  <2>6. [D EXCEPT !.files[path].fid = id] = [D EXCEPT !.files = f3]
    BY <2>4, <2>5
  <2> QED BY <2>3, <2>6 DEF D
<1>18. CreateSteps(r) = <<Durable(f1, index, shares, disk.quota), Durable(f2, index, shares, disk.quota),
                          Durable(f2, EmptyIndex, shares, disk.quota), Durable(f3, NewIndex(r), shares, disk.quota)>>
  BY <1>6, <1>14, <1>15, <1>16, <1>17
<1> QED
  BY <1>3, <1>5, <1>7, <1>8, <1>10, <1>11, <1>12, <1>13, <1>18 DEF f, path, f1, f2, f3, id

\* What is in the trash, when the tree gains an inode or keeps its shape.
LEMMA AddMeta ==
    ASSUME NEW n, TreeOK(n), NEW ix, IndexOK(ix), NEW meta, MetaOK(n, ix, meta), NEW i, i \notin DOMAIN n, NEW d \in DOMAIN n,
           NEW m, DOMAIN m = DOMAIN n \cup {i}, m[i].parent = d,
           \A j \in DOMAIN n : m[j].path = n[j].path /\ m[j].parent = n[j].parent /\ m[j].type = n[j].type,
           NEW iy, iy.next \in Nat, ix.next <= iy.next,
           \A q \in DOMAIN iy.ids : iy.ids[q] = i \/ \E p \in DOMAIN ix.ids : iy.ids[q] = ix.ids[p],
           \A j \in DOMAIN meta : meta[j].parent # i
    PROVE  MetaOK(m, iy, meta)
<1>1. /\ meta \in [DOMAIN meta -> MetaSet] /\ DOMAIN meta \subseteq DOMAIN n
      /\ \A j \in DOMAIN meta :
            /\ n[n[j].parent].path = TrashPath /\ j # Root
            /\ meta[j].parent < ix.next
            /\ IF meta[j].parent \in DOMAIN n
               THEN n[meta[j].parent].type = "dir" /\ n[meta[j].parent].path # TrashPath
               ELSE \A p \in DOMAIN ix.ids : ix.ids[p] # meta[j].parent
  BY DEF MetaOK
<1>2. \A j \in DOMAIN n : n[j].parent \in DOMAIN n
  BY TreePaths
<1>3. ASSUME NEW j \in DOMAIN meta
      PROVE  /\ m[m[j].parent].path = TrashPath /\ j # Root
             /\ meta[j].parent < iy.next
             /\ IF meta[j].parent \in DOMAIN m
                THEN m[meta[j].parent].type = "dir" /\ m[meta[j].parent].path # TrashPath
                ELSE \A p \in DOMAIN iy.ids : iy.ids[p] # meta[j].parent
  <2>1. j \in DOMAIN n /\ n[j].parent \in DOMAIN n
    BY <1>1, <1>2
  <2>2. m[m[j].parent].path = TrashPath /\ j # Root
    BY <1>1, <2>1
  <2>3. meta[j].parent \in Nat /\ ix.next \in Nat
    <3>1. meta[j] \in MetaSet
      BY <1>1
    <3> QED BY <3>1, FileServerAssumption DEF MetaSet, Ids, IndexOK
  <2>4. meta[j].parent < ix.next
    BY <1>1
  <2>5. meta[j].parent < iy.next
    BY <2>3, <2>4
  <2>6. meta[j].parent # i
    OBVIOUS
  <2>7. CASE meta[j].parent \in DOMAIN n
    BY <1>1, <2>2, <2>5, <2>7
  <2>8. CASE meta[j].parent \notin DOMAIN n
    BY <1>1, <2>2, <2>5, <2>6, <2>8
  <2> QED BY <2>7, <2>8
<1>4. Homely(m, meta)
  <2> SUFFICES ASSUME NEW S \in SUBSET DOMAIN m, S # {}, \A j \in S : Home(m, meta, j) \in S PROVE Root \in S
    BY DEF Homely
  <2> DEFINE T == S \ {i}
  <2>1. \A j \in T : j \in DOMAIN n /\ Home(m, meta, j) = Home(n, meta, j) /\ Home(n, meta, j) # i
    BY <1>2 DEF Home
  <2>2. T \in SUBSET DOMAIN n /\ \A j \in T : Home(n, meta, j) \in T
    BY <2>1
  <2>3. T # {}
    <3>1. i \notin DOMAIN meta
      BY <1>1
    <3>2. Home(m, meta, i) = d /\ d # i
      BY <3>1 DEF Home
    <3> QED BY <3>2
  <2>4. Homely(n, meta)
    BY DEF MetaOK
  <2> QED BY <2>2, <2>3, <2>4 DEF Homely
<1>5. DOMAIN meta \subseteq DOMAIN m
  BY <1>1
<1> QED
  BY <1>1, <1>3, <1>4, <1>5 DEF MetaOK

\* What is remembered of the trash stays right while paths and parents do.
LEMMA SameMeta ==
    ASSUME NEW n, TreeOK(n), NEW ix, NEW meta, MetaOK(n, ix, meta), NEW m, DOMAIN m = DOMAIN n,
           \A j \in DOMAIN n : m[j].path = n[j].path /\ m[j].parent = n[j].parent /\ m[j].type = n[j].type
    PROVE  MetaOK(m, ix, meta)
<1>1. \A j \in DOMAIN n : n[j].parent \in DOMAIN n
  BY TreePaths
<1>2. DOMAIN meta \subseteq DOMAIN n
  BY DEF MetaOK
<1>3. \A j \in DOMAIN n : Home(m, meta, j) = Home(n, meta, j)
  BY DEF Home
<1>4. Homely(m, meta)
  BY <1>3 DEF MetaOK, Homely
<1> QED
  BY <1>1, <1>2, <1>4 DEF MetaOK

\* The tree a creation makes.
CreatedTree(r) ==
    With([inodes EXCEPT ![r.dir].kids = @ \cup {NewId(r)}], NewId(r),
         NewInode(r.type, r.name, r.dir, NewPath(r), inodes[r.dir].shared))

\* CreateFile adds one inode below its directory.
LEMMA TreeAddedBy ==
    ASSUME NEW n, TreeOK(n), NEW d \in DOMAIN n, NEW i \in Ids \ DOMAIN n, NEW name \in NameSet, NEW p \in PathSet,
           NEW t \in {"file", "dir"},
           NEW m, m = With([n EXCEPT ![d].kids = @ \cup {i}], i, NewInode(t, name, d, p, n[d].shared))
    PROVE  TreeAdded(n, m, i, d, name, p, t)
<1> DEFINE u == [n EXCEPT ![d].kids = @ \cup {i}]
           x == NewInode(t, name, d, p, n[d].shared)
           y == [n[d] EXCEPT !.kids = @ \cup {i}]
<1>1. /\ \A j \in DOMAIN n : n[j] \in InodeSet
      /\ DOMAIN n \subseteq Ids /\ n = [j \in DOMAIN n |-> n[j]]
  BY DEF TreeOK
<1>2. DOMAIN u = DOMAIN n /\ u[d] = y /\ \A j \in DOMAIN n \ {d} : u[j] = n[j]
  BY <1>1
<1>3. n[d].kids \in SUBSET Ids /\ n[d].shared \in SUBSET Grantees /\ n[d] \in InodeSet /\ d \in Ids
  BY <1>1, InodeFields
<1>4. y \in InodeSet /\ y.kids = n[d].kids \cup {i} /\ y.type = n[d].type /\ y.name = n[d].name /\ y.parent = n[d].parent
      /\ y.path = n[d].path /\ y.shared = n[d].shared /\ y.size = n[d].size
  <2>1. n[d].kids \cup {i} \in SUBSET Ids
    BY <1>3
  <2>2. y = [n[d] EXCEPT !.kids = n[d].kids \cup {i}]
    OBVIOUS
  <2> HIDE DEF y
  <2>3. y \in InodeSet
    <3>1. [n[d] EXCEPT !.kids = n[d].kids \cup {i}] \in InodeSet
      BY <1>3, <2>1 DEF InodeSet
    <3> QED BY <2>2, <3>1
  <2>4. y.kids = n[d].kids \cup {i} /\ y.type = n[d].type /\ y.name = n[d].name /\ y.parent = n[d].parent
        /\ y.path = n[d].path /\ y.shared = n[d].shared /\ y.size = n[d].size
    BY <1>3, <2>2 DEF InodeSet
  <2> QED BY <2>3, <2>4
<1>5. /\ x.type = t /\ x.name = name /\ x.parent = d /\ x.path = p /\ x.kids = {} /\ x.shared = n[d].shared /\ x.size = 0
  BY DEF NewInode
<1>6. x \in InodeSet
  BY <1>3 DEF NewInode, InodeSet
<1>7. DOMAIN m = DOMAIN n \cup {i} /\ m[i] = x /\ (\A j \in DOMAIN n : m[j] = u[j]) /\ m = [j \in DOMAIN m |-> m[j]]
  BY <1>2 DEF With
<1> HIDE DEF u, x, y
<1>8. \A j \in DOMAIN n : m[j] = IF j = d THEN y ELSE n[j]
  BY <1>2, <1>7
<1>9. m \in [DOMAIN n \cup {i} -> InodeSet]
  <2>1. \A j \in DOMAIN n \cup {i} : m[j] \in InodeSet
    BY <1>1, <1>4, <1>6, <1>7, <1>8
  <2> QED BY <1>7, <2>1
<1>10. ASSUME NEW j \in DOMAIN n
       PROVE  /\ m[j].path = n[j].path /\ m[j].parent = n[j].parent /\ m[j].name = n[j].name
              /\ m[j].type = n[j].type /\ m[j].shared = n[j].shared /\ m[j].size = n[j].size
              /\ m[j].kids = IF j = d THEN n[j].kids \cup {i} ELSE n[j].kids
  BY <1>4, <1>8
<1>11. /\ m[i].path = p /\ m[i].parent = d /\ m[i].name = name /\ m[i].kids = {}
       /\ m[i].type = t /\ m[i].shared = n[d].shared /\ m[i].size = 0
  BY <1>5, <1>7
<1> QED
  BY <1>9, <1>10, <1>11 DEF TreeAdded

IndexAdded(ix, iy, p, i) ==
    DOMAIN iy.ids = DOMAIN ix.ids \cup {p} /\ (\A a \in DOMAIN ix.ids : iy.ids[a] = ix.ids[a]) /\ iy.ids[p] = i

\* The new inode is numbered by its path.
LEMMA TreeAddedIndex ==
    ASSUME NEW n, NEW d, NEW i, NEW name, NEW p, NEW t, NEW m, TreeAdded(n, m, i, d, name, p, t),
           NEW ix, Numbered(n, ix), NEW iy, IndexAdded(ix, iy, p, i)
    PROVE  Numbered(m, iy)
<1>a. DOMAIN iy.ids = DOMAIN ix.ids \cup {p} /\ (\A a \in DOMAIN ix.ids : iy.ids[a] = ix.ids[a]) /\ iy.ids[p] = i
  BY DEF IndexAdded
<1> USE <1>a
<1>1. m \in [DOMAIN n \cup {i} -> InodeSet] /\ m[i].path = p /\ \A j \in DOMAIN n : m[j].path = n[j].path
  BY DEF TreeAdded
<1>2. DOMAIN m = DOMAIN n \cup {i}
  BY <1>1
<1>3. \A j \in DOMAIN n : n[j].path \in DOMAIN ix.ids /\ ix.ids[n[j].path] = j
  BY DEF Numbered
<1>4. ASSUME NEW j \in DOMAIN m PROVE m[j].path \in DOMAIN iy.ids /\ iy.ids[m[j].path] = j
  <2>1. CASE j = i
    BY <1>1, <2>1
  <2>2. CASE j \in DOMAIN n
    BY <1>1, <1>3, <2>2
  <2> QED BY <1>2, <2>1, <2>2
<1> QED
  BY <1>2, <1>4 DEF Numbered

\* The new inode matches its new file.
LEMMA TreeAddedFiles ==
    ASSUME NEW n, NEW d, NEW i, NEW name, NEW p, NEW t, NEW m, TreeAdded(n, m, i, d, name, p, t),
           NEW f, Match(n, f), NEW g, DOMAIN g = DOMAIN f \cup {p}, \A a \in DOMAIN f : g[a] = f[a],
           g[p].type = t, g[p].size = 0
    PROVE  Match(m, g)
<1>1. m \in [DOMAIN n \cup {i} -> InodeSet] /\ m[i].path = p /\ m[i].type = t /\ m[i].size = 0
      /\ \A j \in DOMAIN n : m[j].path = n[j].path /\ m[j].type = n[j].type /\ m[j].size = n[j].size
  BY DEF TreeAdded
<1>2. DOMAIN m = DOMAIN n \cup {i}
  BY <1>1
<1>3. /\ \A j \in DOMAIN n : /\ n[j].path \in DOMAIN f /\ f[n[j].path].type = n[j].type
                             /\ n[j].type = "file" => f[n[j].path].size = n[j].size
      /\ DOMAIN f = {n[j].path : j \in DOMAIN n}
  BY DEF Match
<1>4. ASSUME NEW j \in DOMAIN m
      PROVE  /\ m[j].path \in DOMAIN g /\ g[m[j].path].type = m[j].type
             /\ m[j].type = "file" => g[m[j].path].size = m[j].size
  <2>1. CASE j = i
    BY <1>1, <2>1
  <2>2. CASE j \in DOMAIN n
    <3>1. m[j].path = n[j].path /\ m[j].type = n[j].type /\ m[j].size = n[j].size /\ n[j].path \in DOMAIN f
      BY <1>1, <1>3, <2>2
    <3>2. g[n[j].path] = f[n[j].path] /\ n[j].path \in DOMAIN g
      BY <3>1
    <3> QED BY <1>3, <2>2, <3>1, <3>2
  <2> QED BY <1>2, <2>1, <2>2
<1>5. ASSUME NEW a \in DOMAIN g PROVE \E j \in DOMAIN m : m[j].path = a
  <2>1. CASE a = p
    BY <1>1, <1>2, <2>1
  <2>2. CASE a \in DOMAIN f
    BY <1>1, <1>2, <1>3, <2>2
  <2> QED BY <2>1, <2>2
<1>6. {m[j].path : j \in DOMAIN m} = DOMAIN g
  BY <1>4, <1>5
<1> QED
  BY <1>4, <1>6 DEF Match

\* CreateFile: the new inode and the new file, and nothing else.
LEMMA CreateStep ==
    ASSUME CoreInv, NEW r, RequestOK(inodes, "create", r), r.name # aclFileName, CanCreate(r),
           index' = NewIndex(r), inodes' = CreatedTree(r), disk' = Last(CreateSteps(r)),
           shares' = shares, trashMeta' = trashMeta
    PROVE  NextTree /\ disk'.files = CreatedFiles(r)
           /\ TreeAdded(inodes, inodes', NewId(r), r.dir, r.name, NewPath(r), r.type)
<1> DEFINE i == NewId(r)
           p == NewPath(r)
           f == CreatedFiles(r)
           d == r.dir
           name == r.name
           ix == NewIndex(r)
           type == r.type
           qq == disk.quota
<1>1. /\ d \in Live /\ inodes[d].type = "dir" /\ name \in NameSet /\ type \in {"file", "dir"}
      /\ p = Append(Path(d), name) /\ p \in PathSet
      /\ p \notin DOMAIN disk.files /\ (\A k \in Live : Path(k) # p)
      /\ IndexOK(ix) /\ i \in Ids \ Live
      /\ DOMAIN ix.ids = DOMAIN index.ids \cup {p}
      /\ \A a \in DOMAIN index.ids : ix.ids[a] = index.ids[a]
      /\ index.next <= ix.next
      /\ \A a \in DOMAIN trashMeta : trashMeta[a].parent # i
      /\ i = ix.ids[p]
  BY CreateTarget DEF NewId
<1>2. /\ TreeOK(inodes) /\ IndexOK(index) /\ DOMAIN index.ids # {} /\ Numbered(inodes, index)
      /\ Match(inodes, disk.files) /\ MetaOK(inodes, index, trashMeta) /\ shares \subseteq GrantSet /\ qq \in Nat
  BY CoreFacts
<1>3. /\ Last(CreateSteps(r)) = Durable(f, ix, shares, qq)
      /\ FilesOK(f) /\ DOMAIN f = DOMAIN disk.files \cup {p}
      /\ \A a \in DOMAIN disk.files : f[a] = disk.files[a]
      /\ f[p].type = type /\ f[p].size = 0
  <2>1. CreateSteps(r) = <<Durable(MadeFiles(r), index, shares, qq), Durable(AcledFiles(r), index, shares, qq),
                           Durable(AcledFiles(r), EmptyIndex, shares, qq), Durable(f, ix, shares, qq)>>
    BY CreateDisk
  <2>2. Last(CreateSteps(r)) = Durable(f, ix, shares, qq)
    <3> DEFINE a == Durable(MadeFiles(r), index, shares, qq)
               b == Durable(AcledFiles(r), index, shares, qq)
               e == Durable(AcledFiles(r), EmptyIndex, shares, qq)
               z == Durable(f, ix, shares, qq)
    <3>1. CreateSteps(r) = <<a, b, e, z>>
      BY <2>1
    <3> HIDE DEF a, b, e, z
    <3>2. Last(CreateSteps(r)) = z
      BY <3>1, LastOfFour
    <3> QED BY <3>2 DEF z
  <2> QED BY <2>2, CreateDisk
<1>4. inodes' = With([inodes EXCEPT ![d].kids = @ \cup {i}], i, NewInode(type, name, d, p, inodes[d].shared))
  BY DEF CreatedTree
<1>5. index' = ix /\ disk' = Durable(f, index', shares', qq)
  BY <1>3
<1> HIDE DEF i, p, f, d, name, ix, type, qq
<1>6. TreeAdded(inodes, inodes', i, d, name, p, type)
  <2>1. i \in Ids \ DOMAIN inodes /\ d \in DOMAIN inodes
    BY <1>1 DEF Live
  <2>2. TreeOK(inodes) /\ name \in NameSet /\ p \in PathSet /\ type \in {"file", "dir"}
    BY <1>1, <1>2
  <2> QED BY <1>4, <2>1, <2>2, TreeAddedBy
<1>7. TreeOK(inodes') /\ Numbered(inodes', ix) /\ Match(inodes', f) /\ DOMAIN inodes' = DOMAIN inodes \cup {i}
  <2>1. i \in Ids \ DOMAIN inodes /\ d \in DOMAIN inodes /\ p = Append(inodes[d].path, name)
        /\ \A k \in DOMAIN inodes : inodes[k].path # p
    BY <1>1 DEF Live, Path
  <2>2. TreeOK(inodes) /\ name \in NameSet /\ inodes[d].type = "dir" /\ Numbered(inodes, index) /\ Match(inodes, disk.files)
    BY <1>1, <1>2
  <2>3. DOMAIN ix.ids = DOMAIN index.ids \cup {p} /\ (\A a \in DOMAIN index.ids : ix.ids[a] = index.ids[a]) /\ ix.ids[p] = i
    BY <1>1
  <2>4. TreeOK(inodes')
    <3>1. TreeAdded(inodes, inodes', i, d, name, Append(inodes[d].path, name), type)
      BY <1>6, <2>1
    <3>2. \A k \in DOMAIN inodes : inodes[k].path # Append(inodes[d].path, name)
      BY <2>1
    <3> QED BY <2>1, <2>2, <3>1, <3>2, CreateTree
  <2>5. Numbered(inodes', ix) /\ DOMAIN inodes' = DOMAIN inodes \cup {i}
    <3>1. Numbered(inodes, index)
      BY <2>2
    <3>2. IndexAdded(index, ix, p, i)
      BY <2>3 DEF IndexAdded
    <3>3. Numbered(inodes', ix)
      BY <1>6, <3>1, <3>2, TreeAddedIndex
    <3>4. inodes' \in [DOMAIN inodes \cup {i} -> InodeSet]
      BY <1>6 DEF TreeAdded
    <3> QED BY <3>3, <3>4
  <2>6. Match(inodes', f)
    BY <1>3, <1>6, <2>2, TreeAddedFiles
  <2> QED BY <2>4, <2>5, <2>6
<1>11. MetaOK(inodes', ix, trashMeta)
  <2>1. i \notin DOMAIN inodes /\ d \in DOMAIN inodes
    BY <1>1 DEF Live
  <2>2. ix.next \in Nat /\ index.next <= ix.next
    BY <1>1, FileServerAssumption DEF IndexOK
  <2>3. \A a \in DOMAIN ix.ids : ix.ids[a] = i \/ \E b \in DOMAIN index.ids : ix.ids[a] = index.ids[b]
    BY <1>1
  <2>4. \A j \in DOMAIN inodes : inodes'[j].path = inodes[j].path /\ inodes'[j].parent = inodes[j].parent /\ inodes'[j].type = inodes[j].type
    BY <1>6 DEF TreeAdded
  <2>5. DOMAIN inodes' = DOMAIN inodes \cup {i} /\ inodes'[i].parent = d /\ \A j \in DOMAIN trashMeta : trashMeta[j].parent # i
    BY <1>1, <1>6, <1>7 DEF TreeAdded
  <2> QED BY <1>2, <2>1, <2>2, <2>3, <2>4, <2>5, AddMeta
<1>12. NextTree /\ disk'.files = f
  BY <1>1, <1>2, <1>3, <1>5, <1>7, <1>11, NextTreeFrom
<1> QED
  BY <1>6, <1>12 DEF i, p, f, d, name, type

\* m is n after the file i has grown to e bytes.
Written(n, m, i, e) ==
    /\ m \in [DOMAIN n -> InodeSet]
    /\ \A j \in DOMAIN n :
          /\ m[j].path = n[j].path /\ m[j].parent = n[j].parent /\ m[j].name = n[j].name
          /\ m[j].kids = n[j].kids /\ m[j].type = n[j].type /\ m[j].shared = n[j].shared
          /\ m[j].size = IF IsPrefix(n[j].path, n[i].path) THEN n[j].size + (e - n[i].size) ELSE n[j].size

\* Writing keeps the rest of an entry.
LEMMA EntrySize ==
    ASSUME NEW x \in Entry, NEW s \in Nat, NEW y, y = [x EXCEPT !.size = s]
    PROVE  y \in Entry /\ y.type = x.type /\ y.size = s /\ y.acl = x.acl /\ y.fid = x.fid
  BY DEF Entry

\* Writing keeps the rest of an inode.
LEMMA InodeSize ==
    ASSUME NEW r \in InodeSet, NEW s \in Nat, NEW z, z = [r EXCEPT !.size = s]
    PROVE  /\ z \in InodeSet
           /\ z.size = s /\ z.type = r.type /\ z.name = r.name /\ z.parent = r.parent /\ z.path = r.path
           /\ z.kids = r.kids /\ z.shared = r.shared
  BY DEF InodeSet

\* Grow adds to the file and to all its ancestors, and to nothing else.
LEMMA GrowIs ==
    ASSUME TreeOK(inodes), NEW i \in Live, NEW e \in Nat, inodes[i].size <= e, NEW m, m = Grow(i, e - inodes[i].size)
    PROVE  Written(inodes, m, i, e)
<1>1. /\ \A j \in Live : inodes[j] \in InodeSet
  BY DEF TreeOK, Live
<1>2. Chain(i) = {j \in Live : IsPrefix(Path(j), Path(i))}
  BY ChainIs
<1> DEFINE more == e - inodes[i].size
<1>3. more \in Nat
  BY <1>1, InodeFields
<1>4. m = [j \in Live |-> IF j \in Chain(i) THEN [inodes[j] EXCEPT !.size = @ + more] ELSE inodes[j]]
  BY DEF Grow
<1> HIDE DEF more
<1>5. ASSUME NEW j \in Live
      PROVE  /\ m[j] \in InodeSet
             /\ m[j].path = inodes[j].path /\ m[j].parent = inodes[j].parent /\ m[j].name = inodes[j].name
             /\ m[j].kids = inodes[j].kids /\ m[j].type = inodes[j].type /\ m[j].shared = inodes[j].shared
             /\ m[j].size = IF IsPrefix(inodes[j].path, inodes[i].path) THEN inodes[j].size + more ELSE inodes[j].size
  <2>1. inodes[j] \in InodeSet /\ inodes[j].size \in Nat
    BY <1>1, InodeFields
  <2>2. j \in Chain(i) <=> IsPrefix(inodes[j].path, inodes[i].path)
    BY <1>2 DEF Path
  <2>3. CASE j \in Chain(i)
    <3>1. m[j] = [inodes[j] EXCEPT !.size = inodes[j].size + more] /\ inodes[j].size + more \in Nat
      BY <1>3, <1>4, <2>1, <2>3
    <3> QED BY <2>1, <2>2, <2>3, <3>1, InodeSize
  <2>4. CASE j \notin Chain(i)
    <3>1. m[j] = inodes[j]
      BY <1>4, <2>4
    <3> QED BY <2>1, <2>2, <2>4, <3>1
  <2> QED BY <2>3, <2>4
<1>6. m \in [Live -> InodeSet]
  BY <1>4, <1>5
<1> QED
  BY <1>5, <1>6 DEF Written, Live, more

\* The file on disk grows with it.
GrownFiles(f, p, e) == [f EXCEPT ![p] = [@ EXCEPT !.size = e]]

\* A write on disk changes the size of one file.
LEMMA GrownIs ==
    ASSUME NEW f, FilesOK(f), NEW p \in DOMAIN f, NEW e \in Nat, NEW g, g = GrownFiles(f, p, e)
    PROVE  /\ FilesOK(g) /\ DOMAIN g = DOMAIN f
           /\ \A q \in DOMAIN f :
                 /\ g[q].type = f[q].type /\ g[q].acl = f[q].acl /\ g[q].fid = f[q].fid
                 /\ g[q].size = IF q = p THEN e ELSE f[q].size
<1>1. \A q \in DOMAIN f : f[q] \in Entry
  BY DEF FilesOK
<1>2. f = [q \in DOMAIN f |-> f[q]]
  BY DEF FilesOK
<1>3. /\ DOMAIN g = DOMAIN f /\ g[p] = [f[p] EXCEPT !.size = e]
      /\ \A q \in DOMAIN f \ {p} : g[q] = f[q]
      /\ g = [q \in DOMAIN g |-> g[q]]
  BY <1>2 DEF GrownFiles
<1>4. ASSUME NEW q \in DOMAIN f
      PROVE  /\ g[q] \in Entry /\ g[q].type = f[q].type /\ g[q].acl = f[q].acl /\ g[q].fid = f[q].fid
             /\ g[q].size = IF q = p THEN e ELSE f[q].size
  <2>1. CASE q = p
    BY <1>1, <1>3, <2>1, EntrySize
  <2>2. CASE q # p
    BY <1>1, <1>3, <2>2
  <2> QED BY <2>1, <2>2
<1>5. g \in [DOMAIN f -> Entry]
  BY <1>3, <1>4
<1>6. FilesOK(g)
  <2>1. DOMAIN g = DOMAIN f /\ \A q \in DOMAIN f : g[q].type = f[q].type
    BY <1>3, <1>4
  <2> QED BY <2>1, <1>5, SameFiles
<1> QED
  BY <1>3, <1>4, <1>6

\* A write leaves disk and memory matched.
LEMMA WrittenMatch ==
    ASSUME NEW n, TreeOK(n), NEW i \in DOMAIN n, n[i].type = "file", NEW e \in Nat, NEW m, Written(n, m, i, e),
           NEW f, FilesOK(f), Match(n, f), NEW g, g = GrownFiles(f, n[i].path, e)
    PROVE  Match(m, g)
<1>1. n[i].path \in DOMAIN f /\ \A j \in DOMAIN n : n[j].path \in DOMAIN f /\ f[n[j].path].type = n[j].type
        /\ (n[j].type = "file" => f[n[j].path].size = n[j].size)
  BY DEF Match
<1>2. /\ DOMAIN g = DOMAIN f
      /\ \A q \in DOMAIN f : g[q].type = f[q].type /\ g[q].size = IF q = n[i].path THEN e ELSE f[q].size
  BY <1>1, GrownIs
<1>3. DOMAIN m = DOMAIN n /\ \A j \in DOMAIN n : m[j].path = n[j].path /\ m[j].type = n[j].type
  BY DEF Written
<1>4. {m[j].path : j \in DOMAIN m} = DOMAIN g
  <2>1. {m[j].path : j \in DOMAIN m} = {n[j].path : j \in DOMAIN n}
    BY <1>3
  <2> QED BY <1>2, <2>1 DEF Match
<1>5. ASSUME NEW j \in DOMAIN n, n[j].type = "file" PROVE g[n[j].path].size = m[j].size
  <2>1. CASE j = i
    <3>1. n[i].path \in Seq(NameSet) /\ n[i].size \in Nat
      <4>1. n[i] \in InodeSet
        BY DEF TreeOK
      <4> QED BY <4>1, InodeFields DEF PathSet
    <3>2. IsPrefix(n[i].path, n[i].path)
      BY <3>1, PrefixOrder
    <3>3. m[i].size = n[i].size + (e - n[i].size)
      BY <3>2 DEF Written
    <3> QED BY <1>1, <1>2, <2>1, <3>1, <3>3
  <2>2. CASE j # i
    <3>1. n[j].path # n[i].path /\ n[j].path \in PathSet
      BY <2>2, TreePaths DEF TreeOK
    <3>2. ~IsPrefix(n[j].path, n[i].path)
      <4> SUFFICES ASSUME IsPrefix(n[j].path, n[i].path) PROVE FALSE
        OBVIOUS
      <4>1. \E k \in DOMAIN n : n[k].path = n[j].path /\ (k # i => n[k].type = "dir")
        BY <3>1, Ancestors
      <4>2. \A k \in DOMAIN n : n[k].path = n[j].path => k = j
        BY DEF TreeOK
      <4> QED BY <1>5, <2>2, <4>1, <4>2
    <3>3. m[j].size = n[j].size
      BY <3>2 DEF Written
    <3> QED BY <1>1, <1>2, <1>5, <3>1, <3>3
  <2> QED BY <2>1, <2>2
<1>6. \A j \in DOMAIN m : g[m[j].path].type = m[j].type /\ (m[j].type = "file" => g[m[j].path].size = m[j].size)
  BY <1>1, <1>2, <1>3, <1>5
<1> QED
  BY <1>4, <1>6 DEF Match

\* A directory has at most one child of a name.
LEMMA ChildIs ==
    ASSUME TreeOK(inodes), NEW d, NEW name, NEW i \in GetChildInodeByName(d, name), d \in Live
    PROVE  i \in Live \ {Root} /\ \A k \in GetChildInodeByName(d, name) : k = i
<1>1. i \in Live /\ inodes[i].name = name /\ i \in inodes[d].kids
  BY DEF GetChildInodeByName
<1>2. inodes[i].name \in NameSet /\ i # Root
  BY <1>1, TreePaths DEF TreeOK, Live
<1>3. \A k \in Live : Path(k) = Append(Path(d), name) <=> k \in GetChildInodeByName(d, name)
  BY <1>1, <1>2, ChildPath
<1>4. \A j, k \in Live : Path(j) = Path(k) => j = k
  BY DEF TreeOK, Live, Path
<1>5. \A k \in GetChildInodeByName(d, name) : k \in Live
  BY DEF GetChildInodeByName
<1> QED
  BY <1>1, <1>2, <1>3, <1>4, <1>5

\* What a write does, and to what.
Wrote(i, e) ==
    /\ i \in Live /\ inodes[i].type = "file" /\ e \in Nat /\ inodes[i].size <= e
    /\ e > inodes[i].size => FitsQuota(e - inodes[i].size)
    /\ Written(inodes, inodes', i, e)
    /\ disk'.files = GrownFiles(disk.files, Path(i), e)

\* WriteFile keeps tree, disk and index well formed.
LEMMA WriteStep ==
    ASSUME CoreInv, NEW r, NEW end \in Nat, CanWrite(r, end), WriteTo(r, end),
           index' = index, shares' = shares, trashMeta' = trashMeta
    PROVE  NextTree /\ disk'.quota = disk.quota /\ \E i, e : i \in Child(r) /\ Wrote(i, e)
<1>1. PICK i \in Child(r) :
        /\ inodes' = IF end > inodes[i].size THEN Grow(i, end - inodes[i].size) ELSE inodes
        /\ \E acl \in Contents(i) :
              disk' = [disk EXCEPT !.files[Path(i)].size = IF end > @ THEN end ELSE @,
                                   !.files[Path(i)].acl = acl]
  BY DEF WriteTo
<1>2. /\ TreeOK(inodes) /\ IndexOK(index) /\ Numbered(inodes, index) /\ FilesOK(disk.files)
      /\ disk = Durable(disk.files, index, shares, disk.quota)
      /\ Match(inodes, disk.files) /\ MetaOK(inodes, index, trashMeta) /\ shares \subseteq GrantSet /\ disk.quota \in Nat
  BY CoreFacts
<1>3. r.dir \in Live /\ i \in GetChildInodeByName(r.dir, r.name)
  BY DEF CanWrite, Child
<1>4. i \in Live /\ \A k \in Child(r) : k = i
  BY <1>2, <1>3, ChildIs DEF Child
<1>5. inodes[i].type = "file" /\ (end > inodes[i].size => FitsQuota(end - inodes[i].size))
  BY <1>4 DEF CanWrite
<1>6. /\ inodes[i].size \in Nat /\ Path(i) \in DOMAIN disk.files /\ disk.files[Path(i)].size = inodes[i].size
      /\ i \in DOMAIN inodes
  <2>1. inodes[i] \in InodeSet
    BY <1>2, <1>4 DEF TreeOK, Live
  <2> QED BY <1>2, <1>4, <1>5, <2>1, InodeFields DEF Match, Live, Path
<1> DEFINE s == inodes[i].size
           e == IF end > s THEN end ELSE s
           p == Path(i)
           f == GrownFiles(disk.files, p, e)
<1>7. e \in Nat /\ s <= e /\ (e > s => FitsQuota(e - s))
  BY <1>5, <1>6
<1>8. Written(inodes, inodes', i, e)
  <2>1. CASE end > s
    <3>1. inodes' = Grow(i, e - inodes[i].size)
      BY <1>1, <2>1
    <3> HIDE DEF e, s
    <3>2. inodes[i].size <= e
      BY <1>7 DEF s
    <3> QED BY <1>2, <1>4, <1>7, <3>1, <3>2, GrowIs
  <2>2. CASE ~(end > s)
    <3>1. inodes' = inodes /\ e = inodes[i].size
      BY <1>1, <2>2
    <3>2. e - inodes[i].size = 0
      BY <1>6, <3>1
    <3>3. \A j \in DOMAIN inodes : inodes[j].size + 0 = inodes[j].size
      <4>1. \A j \in DOMAIN inodes : inodes[j].size \in Nat
        BY <1>2, InodeFields DEF TreeOK
      <4> QED BY <4>1
    <3>4. inodes \in [DOMAIN inodes -> InodeSet]
      BY <1>2 DEF TreeOK
    <3> HIDE DEF e
    <3> QED BY <3>1, <3>2, <3>3, <3>4 DEF Written
  <2> QED BY <2>1, <2>2
<1>9. disk' = Durable(f, index, shares, disk.quota)
  <2> DEFINE x == disk.files
             y == disk.files[p]
             z == [disk EXCEPT !.files[p].size = IF end > @ THEN end ELSE @]
  <2>1. z = [disk EXCEPT !.files = [x EXCEPT ![p] = [y EXCEPT !.size = IF end > y.size THEN end ELSE y.size]]]
    OBVIOUS
  <2>2. (IF end > y.size THEN end ELSE y.size) = e
    BY <1>6
  <2>3. f = [x EXCEPT ![p] = [y EXCEPT !.size = e]]
    BY DEF GrownFiles
  <2>4. disk' = [z EXCEPT !.files[p].acl = y.acl]
    <3>1. inodes[i].name \in NameSet
      BY <1>2, <1>4, TreePaths DEF TreeOK, Live
    <3>2. Contents(i) = {y.acl}
      BY <3>1 DEF Contents, NameSet
    <3> QED BY <1>1, <3>2
  <2>5. p \in DOMAIN x /\ y \in Entry /\ y = x[p] /\ e \in Nat /\ x \in [DOMAIN x -> Entry]
    BY <1>2, <1>6, <1>7 DEF FilesOK
  <2> HIDE DEF e, p, x, y
  <2>6. f = [q \in DOMAIN x |-> IF q = p THEN [y EXCEPT !.size = e] ELSE x[q]]
    BY <2>3, <2>5
  <2> HIDE DEF f
  <2>7. f[p] = [y EXCEPT !.size = e] /\ p \in DOMAIN f
    BY <2>5, <2>6
  <2>8. [f[p] EXCEPT !.acl = y.acl] = f[p]
    BY <2>5, <2>7 DEF Entry
  <2>9. [f EXCEPT ![p] = f[p]] = f
    BY <2>6
  <2>10. z = Durable(f, index, shares, disk.quota)
    <3>1. z = [disk EXCEPT !.files = f]
      BY <2>1, <2>2, <2>3
    <3>2. disk = Durable(x, index, shares, disk.quota)
      BY <1>2 DEF x
    <3>3. [Durable(x, index, shares, disk.quota) EXCEPT !.files = f] = Durable(f, index, shares, disk.quota)
      BY DurableUpdates
    <3> QED BY <3>1, <3>2, <3>3
  <2> HIDE DEF z
  <2>11. z.files = f
    BY <2>10, DurableFields
  <2>12. disk' = [z EXCEPT !.files = [z.files EXCEPT ![p] = [z.files[p] EXCEPT !.acl = y.acl]]]
    BY <2>4
  <2>13. disk' = [z EXCEPT !.files = f]
    BY <2>8, <2>9, <2>11, <2>12
  <2>14. [Durable(f, index, shares, disk.quota) EXCEPT !.files = f] = Durable(f, index, shares, disk.quota)
    BY DurableUpdates
  <2> QED BY <2>10, <2>13, <2>14
<1>10. FilesOK(f)
  <2> HIDE DEF e, f, p
  <2>1. f = GrownFiles(disk.files, p, e) /\ p \in DOMAIN disk.files /\ e \in Nat /\ FilesOK(disk.files)
    BY <1>2, <1>6, <1>7 DEF f, p
  <2> QED BY <2>1, GrownIs
<1>11. Match(inodes', f)
  <2> HIDE DEF e, f
  <2>1. f = GrownFiles(disk.files, inodes[i].path, e)
    BY DEF f, Path
  <2>2. TreeOK(inodes) /\ i \in DOMAIN inodes /\ inodes[i].type = "file" /\ FilesOK(disk.files) /\ Match(inodes, disk.files)
    BY <1>2, <1>5, <1>6
  <2> QED BY <1>7, <1>8, <2>1, <2>2, WrittenMatch
<1>12. inodes' \in [DOMAIN inodes -> InodeSet] /\ DOMAIN inodes' = DOMAIN inodes
       /\ \A j \in DOMAIN inodes :
             /\ inodes'[j].path = inodes[j].path /\ inodes'[j].parent = inodes[j].parent /\ inodes'[j].name = inodes[j].name
             /\ inodes'[j].kids = inodes[j].kids /\ inodes'[j].type = inodes[j].type
  <2> HIDE DEF e
  <2> QED BY <1>8 DEF Written
<1> HIDE DEF e, s, f, p
<1>13. TreeOK(inodes')
  BY <1>2, <1>12, SameTree
<1>14. MetaOK(inodes', index, trashMeta)
  BY <1>2, <1>12, SameMeta
<1>15. Numbered(inodes', index)
  BY <1>2, <1>12 DEF Numbered
<1>16. NextTree /\ disk'.files = f
  BY <1>2, <1>9, <1>10, <1>11, <1>13, <1>14, <1>15, NextTreeFrom
<1>17. disk'.quota = disk.quota
  BY <1>9, DurableFields
<1>18. Wrote(i, e)
  BY <1>4, <1>5, <1>7, <1>8, <1>16 DEF Wrote, s, f, p
<1> QED
  BY <1>16, <1>17, <1>18

\* DeleteFile.
Gone(i) == Paths(Subtree(i))
RemovedFiles(i) == Without(disk.files, Gone(i))

\* The subtree of what may be removed, by paths and on disk.
LEMMA SubtreePaths ==
    ASSUME CoreInv, NEW i \in Live \ {Root, Trash}
    PROVE  /\ Subtree(i) = {j \in Live : IsPrefix(Path(i), Path(j))} /\ i \in Subtree(i)
           /\ Root \notin Subtree(i) /\ Trash \notin Subtree(i) /\ ~IsPrefix(Path(i), TrashPath) /\ ~IsPrefix(Path(i), <<>>)
           /\ Gone(i) = {p \in DOMAIN disk.files : IsPrefix(Path(i), p)}
           /\ <<>> \notin Gone(i) /\ TrashPath \notin Gone(i) /\ Path(i) \in PathSet /\ Path(i) # <<>>
           /\ \A j \in Live : Path(j) \in Gone(i) <=> j \in Subtree(i)
<1>1. TreeOK(inodes) /\ Paths(Live) = DOMAIN disk.files
  BY CoreFacts
<1>2. Subtree(i) = {j \in Live : IsPrefix(Path(i), Path(j))}
  BY <1>1, SubtreeIs
<1>3. ~IsPrefix(Path(i), TrashPath)
  BY <1>1, TrashIs
<1>4. Path(i) \in PathSet /\ Path(i) # <<>>
  BY <1>1, TreePaths DEF Live, Path
<1>5. Path(i) \in Seq(NameSet) /\ <<>> \in Seq(NameSet)
  BY <1>4, EmptyPath DEF PathSet
<1>6. ~IsPrefix(Path(i), <<>>) /\ IsPrefix(Path(i), Path(i))
  BY <1>4, <1>5, PrefixOrder
<1>7. Gone(i) = {p \in DOMAIN disk.files : IsPrefix(Path(i), p)}
  BY <1>1, <1>2 DEF Gone, Paths
<1>8. Path(Root) = <<>> /\ Path(Trash) = TrashPath
  BY <1>1, TrashIs DEF TreeOK, Path
<1>9. \A j \in Live : Path(j) \in Gone(i) <=> j \in Subtree(i)
  BY <1>1, <1>2, <1>7 DEF Paths
<1> QED
  BY <1>2, <1>3, <1>4, <1>6, <1>7, <1>8, <1>9

\* A crash while the files of a deletion go, one by one, a directory last.
LEMMA HalfRemovedOK ==
    ASSUME CoreInv, NEW i \in Live \ {Root, Trash}, NEW P, P \subseteq Gone(i), \A p \in P : Below(Gone(i), p) \subseteq P,
           NEW g, g = Without(disk.files, P)
    PROVE  Kept(disk.files, g, P)
<1>1. /\ Gone(i) = {p \in DOMAIN disk.files : IsPrefix(Path(i), p)}
      /\ <<>> \notin Gone(i) /\ TrashPath \notin Gone(i) /\ Path(i) \in PathSet
  BY SubtreePaths
<1>2. FilesOK(disk.files) /\ DOMAIN disk.files \subseteq PathSet
  BY CoreFacts DEF FilesOK
<1>3. ASSUME NEW p \in DOMAIN disk.files, NEW q \in DOMAIN disk.files, p \in P, IsPrefix(p, q) PROVE q \in P
  <2>1. p \in Seq(NameSet) /\ q \in Seq(NameSet) /\ Path(i) \in Seq(NameSet) /\ IsPrefix(Path(i), p)
    BY <1>1, <1>2, <1>3 DEF PathSet
  <2>2. IsPrefix(Path(i), q)
    BY <1>3, <2>1, PrefixOrder
  <2>3. q \in Gone(i)
    BY <1>1, <2>2
  <2>4. q \in Below(Gone(i), p)
    BY <1>3, <2>3 DEF Below
  <2> QED BY <1>3, <2>4
<1>4. <<>> \notin P /\ TrashPath \notin P
  BY <1>1
<1> QED
  BY <1>2, <1>3, <1>4, RemoveFiles

\* The durable states DeleteFile goes through.
LEMMA DeleteDisk ==
    ASSUME CoreInv, NEW i \in Live \ {Root, Trash}
    PROVE  LET g == RemovedFiles(i)
               iy == IndexRemove(index, Gone(i))
               S == shares \ SharesBelow(Path(i))
           IN  /\ DeleteSteps(i) = <<Durable(g, index, shares, disk.quota), Durable(g, EmptyIndex, shares, disk.quota),
                                     Durable(g, iy, shares, disk.quota), Durable(g, iy, S, disk.quota)>>
               /\ FilesOK(g) /\ DOMAIN g = DOMAIN disk.files \ Gone(i) /\ \A q \in DOMAIN g : g[q] = disk.files[q]
               /\ IndexOK(iy) /\ iy.next = index.next /\ DOMAIN iy.ids = DOMAIN index.ids \ Gone(i)
               /\ \A q \in DOMAIN iy.ids : iy.ids[q] = index.ids[q]
<1> DEFINE g == RemovedFiles(i)
           iy == IndexRemove(index, Gone(i))
           S == shares \ SharesBelow(Path(i))
           qq == disk.quota
           f == disk.files
<1>1. FilesOK(g) /\ DOMAIN g = DOMAIN f \ Gone(i) /\ \A q \in DOMAIN g : g[q] = f[q]
  <2>1. \A p \in Gone(i) : Below(Gone(i), p) \subseteq Gone(i)
    BY DEF Below
  <2>2. g = Without(disk.files, Gone(i))
    BY DEF RemovedFiles
  <2> HIDE DEF g
  <2>3. Kept(disk.files, g, Gone(i))
    BY <2>1, <2>2, HalfRemovedOK
  <2> QED BY <2>3 DEF Kept
<1>2. /\ IndexOK(iy) /\ iy.next = index.next /\ DOMAIN iy.ids = DOMAIN index.ids \ Gone(i)
      /\ \A q \in DOMAIN iy.ids : iy.ids[q] = index.ids[q]
  <2>1. IndexOK(index) /\ <<>> \notin Gone(i)
    BY CoreFacts, SubtreePaths
  <2>2. iy = IndexRemove(index, Gone(i))
    OBVIOUS
  <2> HIDE DEF iy
  <2> QED BY <2>1, <2>2, RemoveIndex
<1>3. disk = Durable(f, index, shares, qq)
  BY CoreFacts
<1>4. DeleteSteps(i) = LET removed == [disk EXCEPT !.files = g]
                           saved == Save(removed, iy)
                       IN  <<removed>> \o saved \o SaveDirShares(Last(saved), S)
  BY DEF DeleteSteps, Gone, RemovedFiles
<1> HIDE DEF g, iy, S, qq, f
<1>5. [disk EXCEPT !.files = g] = Durable(g, index, shares, qq)
  <2>1. [Durable(f, index, shares, qq) EXCEPT !.files = g] = Durable(g, index, shares, qq)
    BY DurableUpdates
  <2> QED BY <1>3, <2>1
<1>6. Save(Durable(g, index, shares, qq), iy) = <<Durable(g, EmptyIndex, shares, qq), Durable(g, iy, shares, qq)>>
  BY SaveIs
<1>7. SaveDirShares(Durable(g, iy, shares, qq), S) = <<Durable(g, iy, S, qq)>>
  BY DurableUpdates DEF SaveDirShares
<1> DEFINE a == Durable(g, index, shares, qq)
           b == Durable(g, EmptyIndex, shares, qq)
           c == Durable(g, iy, shares, qq)
           z == Durable(g, iy, S, qq)
<1> HIDE DEF a, b, c, z
<1>8. Last(<<b, c>>) = c
  BY DEF Last
<1>9. DeleteSteps(i) = <<a>> \o <<b, c>> \o <<z>>
  BY <1>4, <1>5, <1>6, <1>7, <1>8 DEF a, b, c, z
<1>10. DeleteSteps(i) = <<a, b, c, z>>
  BY <1>9, JoinedOneTwoOne
<1> QED
  BY <1>1, <1>2, <1>10 DEF a, b, c, z, g, iy, S, qq, f

\* m is n without the subtree of i, its bytes taken off what is above it.
Removed(n, m, i, gone) ==
    /\ m \in [DOMAIN n \ gone -> InodeSet]
    /\ \A j \in DOMAIN n \ gone :
          /\ m[j].path = n[j].path /\ m[j].parent = n[j].parent /\ m[j].name = n[j].name
          /\ m[j].type = n[j].type /\ m[j].shared = n[j].shared /\ m[j].kids = n[j].kids \ {i}
          /\ m[j].size = IF IsPrefix(n[j].path, n[n[i].parent].path)
                         THEN (IF n[j].size > n[i].size THEN n[j].size - n[i].size ELSE 0) ELSE n[j].size

\* DeleteFile takes the subtree out and detaches it from its parent.
LEMMA DeleteTree ==
    ASSUME TreeOK(inodes), NEW i \in Live, i # Root, NEW gone,
           NEW m, m = [j \in Live \ gone |-> [Deduct(i)[j] EXCEPT !.kids = @ \ {i}]]
    PROVE  Removed(inodes, m, i, gone)
<1>1. \A j \in Live : inodes[j] \in InodeSet
  BY DEF TreeOK, Live
<1> DEFINE h == inodes[i].parent
           Less(j) == IF inodes[j].size > inodes[i].size THEN inodes[j].size - inodes[i].size ELSE 0
<1>2. h \in Live
  BY DEF TreeOK, Live
<1>3. Chain(h) = {j \in Live : IsPrefix(Path(j), Path(h))}
  BY <1>2, ChainIs
<1>4. Deduct(i) = [j \in Live |-> IF j \in Chain(h) THEN [inodes[j] EXCEPT !.size = Less(j)] ELSE inodes[j]]
  BY DEF Deduct
<1> DEFINE D == Deduct(i)
<1>5. ASSUME NEW j \in Live
      PROVE  /\ D[j] \in InodeSet
             /\ D[j].path = inodes[j].path /\ D[j].parent = inodes[j].parent /\ D[j].name = inodes[j].name
             /\ D[j].kids = inodes[j].kids /\ D[j].type = inodes[j].type /\ D[j].shared = inodes[j].shared
             /\ D[j].size = IF IsPrefix(inodes[j].path, inodes[h].path) THEN Less(j) ELSE inodes[j].size
  <2>1. inodes[j] \in InodeSet /\ inodes[j].size \in Nat /\ inodes[i].size \in Nat
    BY <1>1, InodeFields
  <2>2. j \in Chain(h) <=> IsPrefix(inodes[j].path, inodes[h].path)
    BY <1>3 DEF Path
  <2>3. Less(j) \in Nat
    BY <2>1
  <2> HIDE DEF Less, h
  <2>4. CASE j \in Chain(h)
    <3>1. D[j] = [inodes[j] EXCEPT !.size = Less(j)]
      BY <1>4, <2>4
    <3> QED BY <2>1, <2>2, <2>3, <2>4, <3>1, InodeSize
  <2>5. CASE j \notin Chain(h)
    <3>1. D[j] = inodes[j]
      BY <1>4, <2>5
    <3> QED BY <2>1, <2>2, <2>5, <3>1
  <2> QED BY <2>4, <2>5
<1> HIDE DEF h, D, Less
<1>6. ASSUME NEW j \in Live \ gone
      PROVE  /\ m[j] \in InodeSet
             /\ m[j].path = inodes[j].path /\ m[j].parent = inodes[j].parent /\ m[j].name = inodes[j].name
             /\ m[j].kids = inodes[j].kids \ {i} /\ m[j].type = inodes[j].type /\ m[j].shared = inodes[j].shared
             /\ m[j].size = IF IsPrefix(inodes[j].path, inodes[h].path) THEN Less(j) ELSE inodes[j].size
  <2>1. m[j] = [D[j] EXCEPT !.kids = D[j].kids \ {i}]
    BY DEF D
  <2>2. D[j] \in InodeSet /\ D[j].kids \ {i} \in SUBSET Ids
    BY <1>5, InodeFields
  <2>3. m[j] \in InodeSet
        /\ m[j].kids = D[j].kids \ {i} /\ m[j].type = D[j].type /\ m[j].name = D[j].name /\ m[j].parent = D[j].parent
        /\ m[j].path = D[j].path /\ m[j].size = D[j].size /\ m[j].shared = D[j].shared
    <3> DEFINE x == D[j]
               y == m[j]
               K == D[j].kids \ {i}
    <3>1. x \in InodeSet /\ K \in SUBSET Ids /\ y = [x EXCEPT !.kids = K]
      BY <2>1, <2>2
    <3> HIDE DEF x, y, K
    <3>2. /\ y \in InodeSet
          /\ y.kids = K /\ y.type = x.type /\ y.name = x.name /\ y.parent = x.parent /\ y.path = x.path
          /\ y.size = x.size /\ y.shared = x.shared
      BY <3>1 DEF InodeSet
    <3> QED BY <3>2 DEF x, y, K
  <2> QED BY <1>5, <2>3
<1>7. m \in [Live \ gone -> InodeSet]
  <2>1. m = [j \in Live \ gone |-> m[j]]
    OBVIOUS
  <2> QED BY <1>6, <2>1
<1> QED
  BY <1>6, <1>7 DEF Removed, Live, h, Less

\* What is remembered of the trash stays right when a subtree is deleted.
LEMMA RemoveMeta ==
    ASSUME NEW n, TreeOK(n), NEW ix, IndexOK(ix), Numbered(n, ix), NEW meta, MetaOK(n, ix, meta), NEW i,
           NEW gone, \A j \in gone : j \in DOMAIN n /\ n[j].path # TrashPath,
           NEW m, Removed(n, m, i, gone),
           NEW iy, iy.next = ix.next, \A q \in DOMAIN iy.ids : q \in DOMAIN ix.ids /\ iy.ids[q] = ix.ids[q],
           \A j \in gone : n[j].path \notin DOMAIN iy.ids
    PROVE  MetaOK(m, iy, Without(meta, gone))
<1> DEFINE w == Without(meta, gone)
<1>1. /\ \A j \in DOMAIN meta : meta[j] \in MetaSet
      /\ DOMAIN meta \subseteq DOMAIN n
      /\ \A j \in DOMAIN meta :
            /\ n[n[j].parent].path = TrashPath /\ j # Root
            /\ meta[j].parent < ix.next
            /\ IF meta[j].parent \in DOMAIN n
               THEN n[meta[j].parent].type = "dir" /\ n[meta[j].parent].path # TrashPath
               ELSE \A p \in DOMAIN ix.ids : ix.ids[p] # meta[j].parent
  BY DEF MetaOK
<1>2. DOMAIN w = DOMAIN meta \ gone /\ (\A j \in DOMAIN w : w[j] = meta[j]) /\ w = [j \in DOMAIN w |-> w[j]]
  BY DEF Without
<1>3. /\ DOMAIN m = DOMAIN n \ gone
      /\ \A j \in DOMAIN m : m[j].path = n[j].path /\ m[j].parent = n[j].parent /\ m[j].type = n[j].type
  BY DEF Removed
<1>4. \A j \in DOMAIN n : n[j].parent \in DOMAIN n
  BY TreePaths
<1>5. \A j \in DOMAIN n : n[j].path \in DOMAIN ix.ids /\ ix.ids[n[j].path] = j
  BY DEF Numbered
<1> HIDE DEF w
<1>6. ASSUME NEW j \in DOMAIN w
      PROVE  /\ m[m[j].parent].path = TrashPath /\ j # Root
             /\ w[j].parent < iy.next
             /\ IF w[j].parent \in DOMAIN m
                THEN m[w[j].parent].type = "dir" /\ m[w[j].parent].path # TrashPath
                ELSE \A p \in DOMAIN iy.ids : iy.ids[p] # w[j].parent
  <2>1. j \in DOMAIN meta /\ j \in DOMAIN m /\ j \in DOMAIN n /\ w[j] = meta[j]
    BY <1>1, <1>2, <1>3
  <2>2. n[j].parent \in DOMAIN n \ gone
    BY <1>1, <1>4, <2>1
  <2>3. m[m[j].parent].path = TrashPath /\ j # Root /\ w[j].parent < iy.next
    BY <1>1, <1>3, <2>1, <2>2
  <2>4. CASE meta[j].parent \in DOMAIN m
    BY <1>1, <1>3, <2>1, <2>3, <2>4
  <2>5. CASE meta[j].parent \in DOMAIN n /\ meta[j].parent \notin DOMAIN m
    <3>1. meta[j].parent \in gone
      BY <1>3, <2>5
    <3>2. ASSUME NEW p \in DOMAIN iy.ids PROVE iy.ids[p] # meta[j].parent
      <4>1. p \in DOMAIN ix.ids /\ iy.ids[p] = ix.ids[p] /\ p # n[meta[j].parent].path
        BY <3>1
      <4>2. \A a, b \in DOMAIN ix.ids : ix.ids[a] = ix.ids[b] => a = b
        BY DEF IndexOK
      <4> QED BY <1>5, <2>5, <4>1, <4>2
    <3> QED BY <2>1, <2>3, <2>5, <3>2
  <2>6. CASE meta[j].parent \notin DOMAIN n
    <3>1. \A p \in DOMAIN iy.ids : iy.ids[p] # meta[j].parent
      BY <1>1, <2>1, <2>6
    <3>2. meta[j].parent \notin DOMAIN m
      BY <1>3, <2>6
    <3> QED BY <2>1, <2>3, <3>1, <3>2
  <2> QED BY <2>4, <2>5, <2>6
<1>7. Homely(m, w)
  <2> SUFFICES ASSUME NEW S \in SUBSET DOMAIN m, S # {}, \A j \in S : Home(m, w, j) \in S PROVE Root \in S
    BY DEF Homely
  <2>1. S \in SUBSET DOMAIN n
    BY <1>3
  <2>2. \A j \in S : Home(n, meta, j) = Home(m, w, j)
    BY <1>2, <1>3 DEF Home
  <2>3. Homely(n, meta)
    BY DEF MetaOK
  <2> QED BY <2>1, <2>2, <2>3 DEF Homely
<1>8. DOMAIN w \subseteq DOMAIN m /\ w \in [DOMAIN w -> MetaSet]
  BY <1>1, <1>2, <1>3
<1>9. MetaOK(m, iy, w)
  BY <1>6, <1>7, <1>8 DEF MetaOK
<1> QED
  BY <1>9 DEF w

\* The disk and the tree after a deletion.
LEMMA DeleteStep ==
    ASSUME CoreInv, NEW i \in Live \ {Root, Trash}, Delete(i)
    PROVE  /\ NextTree /\ disk'.files = RemovedFiles(i) /\ disk'.quota = disk.quota
           /\ Removed(inodes, inodes', i, Subtree(i)) /\ retired' = retired \cup Subtree(i) /\ Subtree(i) \subseteq Live
<1> DEFINE gone == Subtree(i)
           g == RemovedFiles(i)
           iy == IndexRemove(index, Gone(i))
           S == shares \ SharesBelow(Path(i))
           qq == disk.quota
<1>1. /\ TreeOK(inodes) /\ IndexOK(index) /\ Numbered(inodes, index) /\ shares \subseteq GrantSet /\ qq \in Nat
      /\ Match(inodes, disk.files) /\ MetaOK(inodes, index, trashMeta)
  BY CoreFacts
<1>2. /\ gone = {j \in Live : IsPrefix(Path(i), Path(j))}
      /\ Trash \notin gone /\ ~IsPrefix(Path(i), TrashPath)
      /\ \A j \in Live : Path(j) \in Gone(i) <=> j \in gone
  BY SubtreePaths
<1>3. /\ inodes' = [j \in Live \ gone |-> [Deduct(i)[j] EXCEPT !.kids = @ \ {i}]]
      /\ index' = iy /\ shares' = S /\ trashMeta' = Without(trashMeta, gone)
      /\ disk' = Last(DeleteSteps(i)) /\ retired' = retired \cup gone
  BY DEF Delete, Gone
<1>4. /\ DeleteSteps(i) = <<Durable(g, index, shares, qq), Durable(g, EmptyIndex, shares, qq),
                            Durable(g, iy, shares, qq), Durable(g, iy, S, qq)>>
      /\ FilesOK(g) /\ DOMAIN g = DOMAIN disk.files \ Gone(i) /\ \A q \in DOMAIN g : g[q] = disk.files[q]
      /\ IndexOK(iy) /\ iy.next = index.next /\ DOMAIN iy.ids = DOMAIN index.ids \ Gone(i)
      /\ \A q \in DOMAIN iy.ids : iy.ids[q] = index.ids[q]
  BY DeleteDisk
<1>5. S \subseteq GrantSet
  BY <1>1
<1> HIDE DEF gone, g, iy, S, qq
<1>6. disk' = Durable(g, index', shares', qq)
  <2>1. Last(DeleteSteps(i)) = Durable(g, iy, S, qq)
    BY <1>4, LastOfFour
  <2> QED BY <1>3, <2>1
<1>7. Removed(inodes, inodes', i, gone)
  BY <1>1, <1>3, DeleteTree
<1>8. /\ inodes' \in [DOMAIN inodes \ gone -> InodeSet] /\ DOMAIN inodes' = Live \ gone
      /\ \A j \in Live \ gone :
            /\ inodes'[j].path = inodes[j].path /\ inodes'[j].parent = inodes[j].parent /\ inodes'[j].name = inodes[j].name
            /\ inodes'[j].type = inodes[j].type /\ inodes'[j].kids = inodes[j].kids \ {i}
            /\ inodes[j].type = "file" => inodes'[j].size = inodes[j].size
  <2>1. inodes' \in [DOMAIN inodes \ gone -> InodeSet]
    BY <1>7 DEF Removed
  <2>2. DOMAIN inodes' = Live \ gone
    BY <2>1 DEF Live
  <2>3. ASSUME NEW j \in Live \ gone, inodes[j].type = "file" PROVE inodes'[j].size = inodes[j].size
    <3> DEFINE h == inodes[i].parent
    <3>1. h \in DOMAIN inodes /\ inodes[h].type = "dir" /\ inodes[j].path \in PathSet
      BY <1>1, TreePaths DEF TreeOK, Live
    <3>2. ~IsPrefix(inodes[j].path, inodes[h].path)
      <4> SUFFICES ASSUME IsPrefix(inodes[j].path, inodes[h].path) PROVE FALSE
        OBVIOUS
      <4>1. \E k \in DOMAIN inodes : inodes[k].path = inodes[j].path /\ (k # h => inodes[k].type = "dir")
        BY <1>1, <3>1, Ancestors
      <4>2. \A k \in DOMAIN inodes : inodes[k].path = inodes[j].path => k = j
        BY <1>1 DEF TreeOK, Live
      <4> QED BY <2>3, <3>1, <4>1, <4>2
    <3> QED BY <1>7, <3>2 DEF Removed, Live
  <2> QED BY <1>7, <2>1, <2>2, <2>3 DEF Removed, Live
<1>9. TreeOK(inodes')
  <2>1. gone = {j \in DOMAIN inodes : IsPrefix(inodes[i].path, inodes[j].path)} /\ ~IsPrefix(inodes[i].path, TrashPath)
        /\ i \in DOMAIN inodes /\ i # Root
    BY <1>2 DEF Live, Path
  <2>2. /\ inodes' \in [DOMAIN inodes \ gone -> InodeSet]
        /\ \A j \in DOMAIN inodes \ gone :
              /\ inodes'[j].path = inodes[j].path /\ inodes'[j].parent = inodes[j].parent /\ inodes'[j].name = inodes[j].name
              /\ inodes'[j].type = inodes[j].type /\ inodes'[j].kids = inodes[j].kids \ {i}
    BY <1>8 DEF Live
  <2> QED BY <1>1, <2>1, <2>2, RemoveTree
<1>10. Numbered(inodes', iy)
  <2> SUFFICES ASSUME NEW j \in DOMAIN inodes' PROVE inodes'[j].path \in DOMAIN iy.ids /\ iy.ids[inodes'[j].path] = j
    BY DEF Numbered
  <2>1. j \in Live \ gone /\ inodes'[j].path = Path(j)
    BY <1>8 DEF Path
  <2>2. Path(j) \in DOMAIN index.ids /\ index.ids[Path(j)] = j /\ Path(j) \notin Gone(i)
    BY <1>1, <1>2, <2>1 DEF Numbered, Live, Path
  <2> QED BY <1>4, <2>1, <2>2
<1>11. Match(inodes', g)
  <2>1. /\ \A j \in Live : /\ Path(j) \in DOMAIN disk.files /\ disk.files[Path(j)].type = inodes[j].type
                           /\ inodes[j].type = "file" => disk.files[Path(j)].size = inodes[j].size
        /\ DOMAIN disk.files = {Path(j) : j \in Live}
    BY <1>1 DEF Match, Live, Path
  <2>2. ASSUME NEW j \in DOMAIN inodes'
        PROVE  /\ inodes'[j].path \in DOMAIN g /\ g[inodes'[j].path].type = inodes'[j].type
               /\ inodes'[j].type = "file" => g[inodes'[j].path].size = inodes'[j].size
    <3>1. j \in Live \ gone /\ inodes'[j].path = Path(j) /\ inodes'[j].type = inodes[j].type
          /\ (inodes[j].type = "file" => inodes'[j].size = inodes[j].size)
      BY <1>8 DEF Path
    <3>2. Path(j) \in DOMAIN g /\ g[Path(j)] = disk.files[Path(j)]
      BY <1>2, <1>4, <2>1, <3>1
    <3> QED BY <2>1, <3>1, <3>2
  <2>3. ASSUME NEW p \in DOMAIN g PROVE \E j \in DOMAIN inodes' : inodes'[j].path = p
    <3>1. p \in DOMAIN disk.files /\ p \notin Gone(i)
      BY <1>4
    <3>2. PICK j \in Live : p = Path(j)
      BY <2>1, <3>1
    <3> QED BY <1>2, <1>8, <3>1, <3>2 DEF Path
  <2>4. {inodes'[j].path : j \in DOMAIN inodes'} = DOMAIN g
    BY <2>2, <2>3
  <2> QED BY <2>2, <2>4 DEF Match
<1>12. MetaOK(inodes', iy, trashMeta')
  <2>1. \A j \in gone : j \in DOMAIN inodes /\ inodes[j].path # TrashPath
    <3>1. \A j \in Live : Path(j) = TrashPath => j = Trash
      BY <1>1, TrashIs
    <3> QED BY <1>2, <3>1 DEF Live, Path
  <2>2. iy.next = index.next /\ \A q \in DOMAIN iy.ids : q \in DOMAIN index.ids /\ iy.ids[q] = index.ids[q]
    BY <1>4
  <2>3. \A j \in gone : inodes[j].path \notin DOMAIN iy.ids
    BY <1>2, <1>4 DEF Path
  <2>4. MetaOK(inodes', iy, Without(trashMeta, gone))
    BY <1>1, <1>7, <2>1, <2>2, <2>3, RemoveMeta
  <2> QED BY <1>3, <2>4
<1>13. NextTree /\ disk'.files = g
  <2>1. index' = iy /\ shares' = S
    BY <1>3
  <2> QED BY <1>1, <1>4, <1>5, <1>6, <1>9, <1>10, <1>11, <1>12, <2>1, NextTreeFrom
<1>14. disk'.quota = qq
  BY <1>6, DurableFields
<1>15. gone \subseteq Live
  BY <1>2
<1> QED
  BY <1>3, <1>7, <1>13, <1>14, <1>15 DEF gone, g, qq

\* TrashFile and RestoreFile.
LEMMA MoveIs ==
    ASSUME TreeOK(inodes), NEW i \in Live, NEW d \in Live, NEW name \in NameSet, NEW m, m = Move(i, d, name)
    PROVE  Moved(inodes, m, i, d, name)
<1> DEFINE new == Append(Path(d), name)
           from == inodes[i].parent
           Kids(j) == (inodes[j].kids \ (IF j = from THEN {i} ELSE {})) \cup (IF j = d THEN {i} ELSE {})
           Parent(j) == IF j = i THEN d ELSE inodes[j].parent
           Called(j) == IF j = i THEN name ELSE inodes[j].name
           Goes(j) == IF j \in Subtree(i) THEN Rebase(inodes[j].path, Path(i), new) ELSE inodes[j].path
<1>1. m = [j \in Live |-> [inodes[j] EXCEPT !.kids = Kids(j), !.parent = Parent(j), !.name = Called(j), !.path = Goes(j)]]
  BY DEF Move
<1>2. \A j \in Live : j \in Subtree(i) <=> IsPrefix(Path(i), Path(j))
  BY SubtreeIs
<1>3. new \in PathSet
  BY ChildPath
<1>4. \A j \in Live : inodes[j] \in InodeSet
  BY DEF TreeOK, Live
<1>5. i \in Ids /\ d \in Ids
  BY DEF TreeOK, Live
<1>6. ASSUME NEW j \in Live
      PROVE  /\ m[j] \in InodeSet
             /\ m[j].kids = Kids(j) /\ m[j].parent = Parent(j) /\ m[j].name = Called(j) /\ m[j].path = Goes(j)
             /\ m[j].type = inodes[j].type /\ m[j].shared = inodes[j].shared /\ m[j].size = inodes[j].size
  <2>1. inodes[j] \in InodeSet
    BY <1>4
  <2>2. inodes[j].kids \in SUBSET Ids /\ inodes[j].parent \in Ids /\ inodes[j].name \in NameSet /\ inodes[j].path \in PathSet
    BY <2>1, InodeFields
  <2>3. Kids(j) \in SUBSET Ids
    BY <1>5, <2>2
  <2>4. Parent(j) \in Ids /\ Called(j) \in NameSet
    BY <1>5, <2>2
  <2>5. Goes(j) \in PathSet
    <3>1. Path(i) \in PathSet
      BY TreePaths DEF Live, Path
    <3>2. CASE j \in Subtree(i)
      <4>1. IsPrefix(Path(i), inodes[j].path)
        BY <1>2, <3>2 DEF Path
      <4> HIDE DEF new
      <4>2. Rebase(inodes[j].path, Path(i), new) \in PathSet
        BY <1>3, <2>2, <3>1, <4>1, PathRebase
      <4> QED BY <3>2, <4>2
    <3> QED BY <2>2, <3>2
  <2>6. m[j] = [inodes[j] EXCEPT !.kids = Kids(j), !.parent = Parent(j), !.name = Called(j), !.path = Goes(j)]
    BY <1>1
  <2> HIDE DEF Kids, Parent, Called, Goes
  <2> DEFINE x == inodes[j]
             w == m[j]
             K == Kids(j)
             h == Parent(j)
             a == Called(j)
             q == Goes(j)
  <2>7. x \in InodeSet /\ K \in SUBSET Ids /\ q \in PathSet /\ h \in Ids /\ a \in NameSet
        /\ w = [x EXCEPT !.kids = K, !.parent = h, !.name = a, !.path = q]
    BY <2>1, <2>3, <2>4, <2>5, <2>6
  <2> HIDE DEF x, w, K, h, a, q
  <2>8. w \in InodeSet
    BY <2>7 DEF InodeSet
  <2>9. /\ w.kids = K /\ w.parent = h /\ w.name = a /\ w.path = q /\ w.type = x.type
        /\ w.shared = x.shared /\ w.size = x.size
    BY <2>7 DEF InodeSet
  <2> QED BY <2>8, <2>9 DEF x, w, K, h, a, q
<1>7. m \in [Live -> InodeSet]
  <2> HIDE DEF Kids, Parent, Called, Goes
  <2> QED BY <1>1, <1>6
<1>8. ASSUME NEW j \in Live
      PROVE  /\ m[j].path = IF IsPrefix(inodes[i].path, inodes[j].path)
                            THEN Rebase(inodes[j].path, inodes[i].path, Append(inodes[d].path, name)) ELSE inodes[j].path
             /\ m[j].parent = (IF j = i THEN d ELSE inodes[j].parent)
             /\ m[j].name = (IF j = i THEN name ELSE inodes[j].name)
             /\ m[j].type = inodes[j].type
             /\ m[j].kids = (inodes[j].kids \ (IF j = inodes[i].parent THEN {i} ELSE {})) \cup (IF j = d THEN {i} ELSE {})
             /\ m[j].size = inodes[j].size /\ m[j].shared = inodes[j].shared
  BY <1>2, <1>6 DEF Path
<1> QED
  BY <1>7, <1>8 DEF Moved, Live

MovedFiles(i, new) == RenameKeys(disk.files, Path(i), new)

\* The tree, the files and the index move together.
LEMMA MoveStep ==
    ASSUME CoreInv, NEW i, NEW d, NEW name, MayMove(inodes, i, d, name), NEW new, new = Append(Path(d), name),
           inodes' = Move(i, d, name), index' = RenamePrefix(index, Path(i), new), shares' \subseteq GrantSet,
           disk' = Durable(MovedFiles(i, new), index', shares', disk.quota), MetaOK(inodes', index', trashMeta')
    PROVE  NextTree /\ disk'.files = MovedFiles(i, new)
<1> DEFINE g == MovedFiles(i, new)
<1>1. /\ TreeOK(inodes) /\ IndexOK(index) /\ Numbered(inodes, index) /\ disk.quota \in Nat
      /\ Match(inodes, disk.files) /\ FilesOK(disk.files)
  BY CoreFacts
<1>2. i \in Live /\ d \in Live /\ name \in NameSet
  BY DEF MayMove, Live
<1>3. Moved(inodes, inodes', i, d, name)
  BY <1>1, <1>2, MoveIs
<1>4. TreeOK(inodes')
  BY <1>1, <1>3, MoveTree
<1>5. g = RenameKeys(disk.files, inodes[i].path, Append(inodes[d].path, name))
  BY DEF MovedFiles, Path
<1>6. index' = RenamePrefix(index, inodes[i].path, Append(inodes[d].path, name))
  BY DEF Path
<1> HIDE DEF g
<1>7. Match(inodes', g) /\ g = [q \in DOMAIN g |-> g[q]] /\ \A q \in DOMAIN g : \E p \in DOMAIN disk.files : g[q] = disk.files[p]
  <2>1. FilesMoved(inodes, inodes', disk.files, g)
    BY <1>1, <1>3, <1>5, MoveFiles
  <2> QED BY <2>1 DEF FilesMoved
<1>8. IndexOK(index') /\ Numbered(inodes', index')
  <2>1. IndexMoved(inodes', index, index')
    <3> DEFINE nn == Append(inodes[d].path, name)
               m == inodes'
               iy == index'
    <3>1. TreeOK(inodes) /\ IndexOK(index) /\ Numbered(inodes, index) /\ MayMove(inodes, i, d, name)
      BY <1>1
    <3>2. Moved(inodes, m, i, d, name) /\ iy = RenamePrefix(index, inodes[i].path, Append(inodes[d].path, name))
      BY <1>3, <1>6
    <3> HIDE DEF m, iy
    <3>3. IndexMoved(m, index, iy)
      BY <3>1, <3>2, MoveIndex
    <3> QED BY <3>3 DEF m, iy
  <2> QED BY <2>1 DEF IndexMoved
<1>9. g \in [DOMAIN g -> Entry]
  <2>1. \A p \in DOMAIN disk.files : disk.files[p] \in Entry
    BY <1>1 DEF FilesOK
  <2> QED BY <1>7, <2>1
<1>10. FilesOK(g)
  BY <1>4, <1>7, <1>9, FilesOfTree
<1>11. disk' = Durable(g, index', shares', disk.quota)
  BY DEF g
<1>12. NextTree /\ disk'.files = g
  BY <1>1, <1>4, <1>7, <1>8, <1>10, <1>11, NextTreeFrom
<1> QED
  BY <1>12 DEF g

\* Move and RenamePrefix change memory, disk and index alike.
LEMMA MoveParts ==
    ASSUME CoreInv, NEW i, NEW d, NEW name, MayMove(inodes, i, d, name), NEW new, new = Append(Path(d), name),
           NEW m, m = Move(i, d, name), NEW iy, iy = RenamePrefix(index, Path(i), new)
    PROVE  Moved(inodes, m, i, d, name) /\ IndexMoved(m, index, iy) /\ TreeOK(m)
           /\ FilesMoved(inodes, m, disk.files, MovedFiles(i, new))
<1> DEFINE g == MovedFiles(i, new)
<1>1. /\ TreeOK(inodes) /\ IndexOK(index) /\ Numbered(inodes, index) /\ Match(inodes, disk.files)
  BY CoreFacts
<1>2. i \in Live /\ d \in Live /\ name \in NameSet
  BY DEF MayMove, Live
<1>3. Moved(inodes, m, i, d, name)
  BY <1>1, <1>2, MoveIs
<1>4. TreeOK(m)
  BY <1>1, <1>3, MoveTree
<1>5. iy = RenamePrefix(index, inodes[i].path, Append(inodes[d].path, name))
  BY DEF Path
<1>6. IndexMoved(m, index, iy)
  BY <1>1, <1>3, <1>5, MoveIndex
<1>7. g = RenameKeys(disk.files, inodes[i].path, Append(inodes[d].path, name))
  BY DEF MovedFiles, Path
<1> HIDE DEF g
<1>8. FilesMoved(inodes, m, disk.files, g)
  BY <1>1, <1>3, <1>7, MoveFiles
<1> QED
  BY <1>3, <1>4, <1>6, <1>8 DEF g

\* The homes of what is in the trash, when something moves.
LEMMA MoveMeta ==
    ASSUME NEW n, TreeOK(n), NEW ix, IndexOK(ix), NEW meta, MetaOK(n, ix, meta),
           NEW i, NEW d, NEW name, MayMove(n, i, d, name), NEW m, Moved(n, m, i, d, name), TreeOK(m),
           NEW iy, IndexMoved(m, ix, iy), NEW j \in DOMAIN meta, j # i
    PROVE  /\ m[m[j].parent].path = TrashPath /\ j # Root
           /\ meta[j].parent < iy.next
           /\ IF meta[j].parent \in DOMAIN m
              THEN m[meta[j].parent].type = "dir" /\ m[meta[j].parent].path # TrashPath
              ELSE \A p \in DOMAIN iy.ids : iy.ids[p] # meta[j].parent
<1>1. /\ j \in DOMAIN n /\ n[n[j].parent].path = TrashPath /\ j # Root
      /\ meta[j].parent < ix.next
      /\ IF meta[j].parent \in DOMAIN n
         THEN n[meta[j].parent].type = "dir" /\ n[meta[j].parent].path # TrashPath
         ELSE \A p \in DOMAIN ix.ids : ix.ids[p] # meta[j].parent
  BY DEF MetaOK
<1>2. DOMAIN m = DOMAIN n /\ \A k \in DOMAIN n : m[k].type = n[k].type
  BY DEF Moved
<1>3. n[j].parent \in DOMAIN n /\ m[j].parent = n[j].parent
  BY <1>1, TreePaths DEF Moved
<1>4. \A k \in DOMAIN n : n[k].path = TrashPath => m[k].path = TrashPath
  BY DEF Moved, MayMove
<1>5. m[m[j].parent].path = TrashPath
  BY <1>1, <1>3, <1>4
<1>6. \A k \in DOMAIN n : m[k].path = TrashPath => k = n[j].parent
  <2>1. \A a, b \in DOMAIN m : m[a].path = m[b].path => a = b
    BY DEF TreeOK
  <2> QED BY <1>2, <1>3, <1>5, <2>1
<1>7. iy.next = ix.next /\ \A q \in DOMAIN iy.ids : \E p \in DOMAIN ix.ids : iy.ids[q] = ix.ids[p]
  BY DEF IndexMoved
<1>8. CASE meta[j].parent \in DOMAIN n
  <2>1. n[meta[j].parent].type = "dir" /\ n[meta[j].parent].path # TrashPath
    BY <1>1, <1>8
  <2>2. m[meta[j].parent].path # TrashPath
    BY <1>1, <1>6, <1>8, <2>1
  <2> QED BY <1>1, <1>2, <1>5, <1>7, <1>8, <2>1, <2>2
<1>9. CASE meta[j].parent \notin DOMAIN n
  <2>1. \A p \in DOMAIN ix.ids : ix.ids[p] # meta[j].parent
    BY <1>1, <1>9
  <2>2. \A p \in DOMAIN iy.ids : iy.ids[p] # meta[j].parent
    BY <1>7, <2>1
  <2> QED BY <1>1, <1>2, <1>5, <1>7, <1>9, <2>2
<1> QED
  BY <1>8, <1>9

\* What TrashFile remembers is right.
LEMMA TrashMeta ==
    ASSUME NEW n, TreeOK(n), NEW ix, IndexOK(ix), Numbered(n, ix), NEW meta, MetaOK(n, ix, meta),
           NEW i, NEW d, NEW name, MayMove(n, i, d, name), NEW m, Moved(n, m, i, d, name), TreeOK(m),
           NEW iy, IndexMoved(m, ix, iy), n[d].path = TrashPath, n[i].parent # d,
           NEW e \in MetaSet, e.parent = n[i].parent, NEW w, w = With(meta, i, e)
    PROVE  MetaOK(m, iy, w)
<1>1. DOMAIN w = DOMAIN meta \cup {i} /\ w[i] = e /\ (\A j \in DOMAIN meta \ {i} : w[j] = meta[j]) /\ w = [j \in DOMAIN w |-> w[j]]
  BY DEF With
<1>2. (\A j \in DOMAIN meta : meta[j] \in MetaSet) /\ DOMAIN meta \subseteq DOMAIN n
  BY DEF MetaOK
<1>3. i \in DOMAIN n /\ i # Root /\ d \in DOMAIN n /\ ~IsPrefix(n[i].path, TrashPath)
  BY DEF MayMove
<1>4. DOMAIN m = DOMAIN n /\ m[i].parent = d /\ m[d].path = TrashPath /\ \A k \in DOMAIN n : m[k].type = n[k].type
  BY <1>3 DEF Moved
<1>5. \A j \in DOMAIN n : n[j].path = TrashPath => j = d
  BY <1>3 DEF TreeOK
<1>6. i \notin DOMAIN meta
  <2> SUFFICES ASSUME i \in DOMAIN meta PROVE FALSE
    OBVIOUS
  <2>1. n[n[i].parent].path = TrashPath
    BY DEF MetaOK
  <2>2. n[i].parent \in DOMAIN n
    BY <1>3, TreePaths
  <2> QED BY <1>5, <2>1, <2>2
<1>7. n[i].parent \in DOMAIN n /\ n[n[i].parent].type = "dir" /\ n[i].parent < iy.next
  <2>1. n[i].parent \in DOMAIN n /\ n[n[i].parent].type = "dir"
    BY <1>3 DEF TreeOK
  <2>2. n[n[i].parent].path \in DOMAIN ix.ids /\ ix.ids[n[n[i].parent].path] = n[i].parent
    BY <2>1 DEF Numbered
  <2>3. ix.next \in Nat /\ n[i].parent \in 0 .. ix.next - 1
    BY <2>2, FileServerAssumption DEF IndexOK
  <2>4. iy.next = ix.next
    BY DEF IndexMoved
  <2> QED BY <2>1, <2>3, <2>4
<1>8. m[n[i].parent].path # TrashPath
  <2>1. \A a, b \in DOMAIN m : m[a].path = m[b].path => a = b
    BY DEF TreeOK
  <2> QED BY <1>3, <1>4, <1>7, <2>1
<1>9. ASSUME NEW j \in DOMAIN w
      PROVE  /\ m[m[j].parent].path = TrashPath /\ j # Root
             /\ w[j].parent < iy.next
             /\ IF w[j].parent \in DOMAIN m
                THEN m[w[j].parent].type = "dir" /\ m[w[j].parent].path # TrashPath
                ELSE \A p \in DOMAIN iy.ids : iy.ids[p] # w[j].parent
  <2>1. CASE j = i
    BY <1>1, <1>3, <1>4, <1>7, <1>8, <2>1
  <2>2. CASE j # i
    <3>1. j \in DOMAIN meta /\ w[j] = meta[j]
      BY <1>1, <2>2
    <3>2. /\ m[m[j].parent].path = TrashPath /\ j # Root
          /\ meta[j].parent < iy.next
          /\ IF meta[j].parent \in DOMAIN m
             THEN m[meta[j].parent].type = "dir" /\ m[meta[j].parent].path # TrashPath
             ELSE \A p \in DOMAIN iy.ids : iy.ids[p] # meta[j].parent
      BY <2>2, <3>1, MoveMeta
    <3> QED BY <3>1, <3>2
  <2> QED BY <2>1, <2>2
<1>10. Homely(m, w)
  <2> SUFFICES ASSUME NEW S \in SUBSET DOMAIN m, S # {}, \A j \in S : Home(m, w, j) \in S PROVE Root \in S
    BY DEF Homely
  <2>1. \A j \in S : j # i => m[j].parent = n[j].parent
    BY <1>4 DEF Moved
  <2>2. \A j \in S : Home(n, meta, j) = Home(m, w, j)
    BY <1>1, <1>6, <2>1 DEF Home
  <2>3. Homely(n, meta) /\ S \in SUBSET DOMAIN n
    BY <1>4 DEF MetaOK
  <2> QED BY <2>2, <2>3 DEF Homely
<1>11. DOMAIN w \subseteq DOMAIN m
  BY <1>1, <1>2, <1>3, <1>4
<1>12. w \in [DOMAIN w -> MetaSet]
  BY <1>1, <1>2
<1> QED
  BY <1>9, <1>10, <1>11, <1>12 DEF MetaOK

\* What is remembered of the rest stays right when one inode is restored.
LEMMA RestoreMeta ==
    ASSUME NEW n, TreeOK(n), NEW ix, IndexOK(ix), NEW meta, MetaOK(n, ix, meta), NEW i \in DOMAIN meta,
           NEW d, d = (IF meta[i].parent \in DOMAIN n THEN meta[i].parent ELSE Root), NEW name, MayMove(n, i, d, name),
           NEW m, Moved(n, m, i, d, name), TreeOK(m), NEW iy, IndexMoved(m, ix, iy), NEW w, w = Without(meta, {i})
    PROVE  MetaOK(m, iy, w)
<1>1. DOMAIN w = DOMAIN meta \ {i} /\ (\A j \in DOMAIN w : w[j] = meta[j]) /\ w = [j \in DOMAIN w |-> w[j]]
  BY DEF Without
<1>2. (\A j \in DOMAIN meta : meta[j] \in MetaSet) /\ DOMAIN meta \subseteq DOMAIN n
  BY DEF MetaOK
<1>3. DOMAIN m = DOMAIN n /\ m[i].parent = d /\ \A j \in DOMAIN n : j # i => m[j].parent = n[j].parent
  BY <1>2 DEF Moved
<1>4. ASSUME NEW j \in DOMAIN w
      PROVE  /\ m[m[j].parent].path = TrashPath /\ j # Root
             /\ w[j].parent < iy.next
             /\ IF w[j].parent \in DOMAIN m
                THEN m[w[j].parent].type = "dir" /\ m[w[j].parent].path # TrashPath
                ELSE \A p \in DOMAIN iy.ids : iy.ids[p] # w[j].parent
  <2>1. j \in DOMAIN meta /\ j # i /\ w[j] = meta[j]
    BY <1>1
  <2>2. /\ m[m[j].parent].path = TrashPath /\ j # Root
        /\ meta[j].parent < iy.next
        /\ IF meta[j].parent \in DOMAIN m
           THEN m[meta[j].parent].type = "dir" /\ m[meta[j].parent].path # TrashPath
           ELSE \A p \in DOMAIN iy.ids : iy.ids[p] # meta[j].parent
    BY <2>1, MoveMeta
  <2> QED BY <2>1, <2>2
<1>5. Homely(m, w)
  <2> SUFFICES ASSUME NEW S \in SUBSET DOMAIN m, S # {}, \A j \in S : Home(m, w, j) \in S, Root \notin S PROVE FALSE
    BY DEF Homely
  <2>1. \A j \in S : j # i => Home(n, meta, j) = Home(m, w, j)
    BY <1>1, <1>3 DEF Home
  <2>2. i \in S => Home(m, w, i) = d /\ d \in S
    BY <1>1, <1>3 DEF Home
  <2>3. i \in S => Home(n, meta, i) = d
    BY <2>2 DEF Home
  <2>4. \A j \in S : Home(n, meta, j) \in S
    BY <2>1, <2>2, <2>3
  <2>5. Homely(n, meta) /\ S \in SUBSET DOMAIN n
    BY <1>3 DEF MetaOK
  <2> QED BY <2>4, <2>5 DEF Homely
<1>6. DOMAIN w \subseteq DOMAIN m /\ w \in [DOMAIN w -> MetaSet]
  BY <1>1, <1>2, <1>3
<1> QED
  BY <1>4, <1>5, <1>6 DEF MetaOK

\* uniqueNameInDir gives a name.
LEMMA UniqueName ==
    ASSUME NEW d, NEW name \in NameSet, NEW i \in Ids
    PROVE  uniqueNameInDir(d, name, i) \in NameSet
<1>1. i \in Nat
  BY FileServerAssumption DEF Ids
<1>2. name.tags \in Seq(Nat) /\ name.base \in Bases \cup {"", ".trash"}
  BY DEF NameSet
<1>3. Append(name.tags, i) \in Seq(Nat)
  <2> DEFINE t == name.tags
  <2>1. t \in Seq(Nat)
    BY <1>2
  <2> HIDE DEF t
  <2>2. Append(t, i) \in Seq(Nat)
    BY <1>1, <2>1, AppendFacts
  <2> QED BY <2>2 DEF t
<1>4. Name(name.base, Append(name.tags, i)) \in NameSet
  <2>1. Append(name.tags, i) # <<>>
    <3> DEFINE t == name.tags
    <3>1. t \in Seq(Nat)
      BY <1>2
    <3> HIDE DEF t
    <3>2. Len(Append(t, i)) = Len(t) + 1 /\ Len(t) \in Nat /\ Len(<<>>) = 0
      BY <3>1
    <3>3. Append(t, i) # <<>>
      BY <3>2
    <3> QED BY <3>3 DEF t
  <2> QED BY <1>2, <1>3, <2>1 DEF NameSet, Name, aclFileName
<1> QED
  BY <1>4 DEF uniqueNameInDir

\* Rebase gives a path.
LEMMA RebasePath ==
    \A p, old, new \in PathSet : Rebase(p, old, new) \in PathSet
<1> SUFFICES ASSUME NEW p \in PathSet, NEW old \in PathSet, NEW new \in PathSet PROVE Rebase(p, old, new) \in PathSet
  OBVIOUS
<1>1. p \in Seq(NameSet) /\ old \in Seq(NameSet) /\ new \in Seq(NameSet)
  BY DEF PathSet
<1>2. Len(old) \in Nat /\ Len(p) \in Nat
  BY <1>1
<1>3. SubSeq(p, Len(old) + 1, Len(p)) \in Seq(NameSet)
  <2>1. \A k \in (Len(old) + 1) .. Len(p) : k \in 1 .. Len(p)
    BY <1>2
  <2> QED BY <1>1, <1>2, <2>1
<1> QED
  BY <1>1, <1>3 DEF Rebase, PathSet

\* What a move needs to know of its source and its destination.
LEMMA MoveTarget ==
    ASSUME CoreInv, NEW i \in Live \ {Root, Trash}, NEW d \in Live, inodes[d].type = "dir", ~IsPrefix(Path(i), Path(d)),
           NEW name \in NameSet, NEW new, new = Append(Path(d), name), CanRename(Path(i), new)
    PROVE  /\ Path(i) \in PathSet /\ new \in PathSet /\ Path(i) # <<>> /\ new # <<>>
           /\ FilesOK(MovedFiles(i, new)) /\ IndexOK(RenamePrefix(index, Path(i), new))
           /\ new \notin DOMAIN disk.files => MayMove(inodes, i, d, name)
<1>1. /\ TreeOK(inodes) /\ FilesOK(disk.files) /\ IndexOK(index) /\ DOMAIN index.ids # {}
      /\ (\A j \in Live : Path(j) \in DOMAIN disk.files /\ disk.files[Path(j)].type = inodes[j].type)
  BY CoreFacts
<1>2. Path(i) \in PathSet /\ Path(i) # <<>> /\ ~IsPrefix(Path(i), TrashPath)
  BY SubtreePaths
<1>3. Path(d) \in PathSet
  BY <1>1, TreePaths DEF Live, Path
<1>4. new \in PathSet /\ new # <<>>
  BY <1>3, AppendFacts DEF PathSet
<1>5. Path(i) \in DOMAIN disk.files /\ Path(d) \in DOMAIN disk.files /\ disk.files[Path(d)].type = "dir"
  BY <1>1
<1>6. new \in DOMAIN disk.files => disk.files[Path(i)].type = "file" /\ disk.files[new].type = "file"
  BY DEF CanRename
<1>7. FilesOK(MovedFiles(i, new))
  <2> DEFINE g == MovedFiles(i, new)
              f == disk.files
  <2>1. g = RenameKeys(f, Path(i), new)
    BY DEF MovedFiles
  <2> HIDE DEF g, f
  <2>2. FilesOK(f) /\ Path(i) \in DOMAIN f /\ Path(d) \in DOMAIN f /\ f[Path(d)].type = "dir"
        /\ (new \in DOMAIN f => f[Path(i)].type = "file" /\ f[new].type = "file")
    BY <1>1, <1>5, <1>6 DEF f
  <2>3. FilesOK(g)
    BY <1>2, <2>1, <2>2, RenameFiles
  <2> QED BY <2>3 DEF g
<1>8. IndexOK(RenamePrefix(index, Path(i), new))
  BY <1>1, <1>2, <1>4, RenameIndex
<1>9. ASSUME new \notin DOMAIN disk.files PROVE MayMove(inodes, i, d, name)
  <2>1. \A k \in Live : Path(k) # new
    BY <1>1, <1>9
  <2> QED BY <1>2, <2>1 DEF MayMove, Live, Path
<1> QED
  BY <1>2, <1>4, <1>7, <1>8, <1>9

\* Where TrashFile moves to, and that it may unless something is in the way.
LEMMA TrashTarget ==
    ASSUME CoreInv, NEW i, NEW user, CanTrash(i, user), NEW new, new = Append(Path(Trash), TrashedAs(i))
    PROVE  /\ i \in Live \ {Root, Trash} /\ inodes[i].parent # Trash /\ TrashedAs(i) \in NameSet
           /\ Path(i) \in PathSet /\ new \in PathSet /\ Trash \in Live /\ Path(Trash) = TrashPath
           /\ FilesOK(MovedFiles(i, new)) /\ IndexOK(RenamePrefix(index, Path(i), new))
           /\ new \notin DOMAIN disk.files => MayMove(inodes, i, Trash, TrashedAs(i))
<1>1. i \in Live \ {Root, Trash} /\ inodes[i].parent # Trash /\ CanRename(Path(i), new)
  BY DEF CanTrash, CanRemove
<1>2. TreeOK(inodes)
  BY CoreFacts
<1>3. Trash \in Live /\ Path(Trash) = TrashPath /\ inodes[Trash].type = "dir" /\ ~IsPrefix(Path(i), TrashPath)
  BY <1>1, <1>2, TrashIs
<1>4. inodes[i].name \in NameSet /\ i \in Ids
  BY <1>1, <1>2, TreePaths DEF Live, TreeOK
<1>5. TrashedAs(i) \in NameSet
  BY <1>4, UniqueName DEF TrashedAs
<1> QED
  BY <1>1, <1>3, <1>5, MoveTarget

\* os.Rename changes the files of the disk only.
LEMMA RenameIs ==
    ASSUME CoreInv, NEW i, NEW new \in PathSet
    PROVE  Rename(disk, Path(i), new) = Durable(MovedFiles(i, new), index, shares, disk.quota)
<1> DEFINE g == MovedFiles(i, new)
           qq == disk.quota
           f == disk.files
<1>1. disk = Durable(f, index, shares, qq)
  BY CoreFacts
<1>2. Rename(disk, Path(i), new) = [disk EXCEPT !.files = g]
  <2>1. ReplaceACL(g, new) = g
    BY NoACLFile DEF ReplaceACL
  <2> QED BY <2>1 DEF Rename, MovedFiles
<1> HIDE DEF g, qq, f
<1>3. [Durable(f, index, shares, qq) EXCEPT !.files = g] = Durable(g, index, shares, qq)
  BY DurableUpdates
<1> QED
  BY <1>1, <1>2, <1>3 DEF g, qq

\* The durable states TrashFile goes through.
LEMMA TrashDisk ==
    ASSUME CoreInv, NEW i, NEW new \in PathSet, new = Append(Path(Trash), TrashedAs(i))
    PROVE  LET g == MovedFiles(i, new)
               iy == RenamePrefix(index, Path(i), new)
               S == shares \ SharesBelow(Path(i))
           IN  TrashSteps(i) = <<Durable(g, index, shares, disk.quota), Durable(g, index, S, disk.quota),
                                 Durable(g, EmptyIndex, S, disk.quota), Durable(g, iy, S, disk.quota)>>
<1> DEFINE g == MovedFiles(i, new)
           iy == RenamePrefix(index, Path(i), new)
           S == shares \ SharesBelow(Path(i))
           qq == disk.quota
           a == Durable(g, index, shares, qq)
           b == Durable(g, index, S, qq)
           c == Durable(g, EmptyIndex, S, qq)
           z == Durable(g, iy, S, qq)
<1>1. Rename(disk, Path(i), new) = a
  BY RenameIs
<1>2. TrashSteps(i) = LET detached == SaveDirShares(Rename(disk, Path(i), new), S)
                      IN  <<Rename(disk, Path(i), new)>> \o detached \o Save(Last(detached), iy)
  BY DEF TrashSteps
<1> HIDE DEF g, iy, S, qq
<1>3. SaveDirShares(a, S) = <<b>>
  BY DurableUpdates DEF SaveDirShares
<1>4. Save(b, iy) = <<c, z>>
  BY SaveIs
<1> HIDE DEF a, b, c, z
<1>5. Last(<<b>>) = b
  BY DEF Last
<1>6. TrashSteps(i) = <<a>> \o <<b>> \o <<c, z>>
  BY <1>1, <1>2, <1>3, <1>4, <1>5
<1>7. TrashSteps(i) = <<a, b, c, z>>
  BY <1>6, JoinedOneOneTwo
<1> QED
  BY <1>7 DEF a, b, c, z, g, iy, S, qq

\* The durable states RestoreFile goes through.
LEMMA RestoreDisk ==
    ASSUME CoreInv, NEW i, NEW new \in PathSet, new = RestoredPath(i)
    PROVE  LET g == MovedFiles(i, new)
               iy == RenamePrefix(index, Path(i), new)
               S == shares \cup Reattached(i)
           IN  RestoreSteps(i) = <<Durable(g, index, shares, disk.quota), Durable(g, EmptyIndex, shares, disk.quota),
                                   Durable(g, iy, shares, disk.quota), Durable(g, iy, S, disk.quota)>>
<1> DEFINE g == MovedFiles(i, new)
           iy == RenamePrefix(index, Path(i), new)
           S == shares \cup Reattached(i)
           qq == disk.quota
           a == Durable(g, index, shares, qq)
           b == Durable(g, EmptyIndex, shares, qq)
           c == Durable(g, iy, shares, qq)
           z == Durable(g, iy, S, qq)
<1>1. Rename(disk, Path(i), new) = a
  BY RenameIs
<1>2. RestoreSteps(i) = LET saved == Save(Rename(disk, Path(i), new), iy)
                        IN  <<Rename(disk, Path(i), new)>> \o saved \o SaveDirShares(Last(saved), S)
  BY DEF RestoreSteps
<1> HIDE DEF g, iy, S, qq
<1>3. Save(a, iy) = <<b, c>>
  BY SaveIs
<1>4. SaveDirShares(c, S) = <<z>>
  BY DurableUpdates DEF SaveDirShares
<1> HIDE DEF a, b, c, z
<1>5. Last(<<b, c>>) = c
  BY DEF Last
<1>6. RestoreSteps(i) = <<a>> \o <<b, c>> \o <<z>>
  BY <1>1, <1>2, <1>3, <1>4, <1>5
<1>7. RestoreSteps(i) = <<a, b, c, z>>
  BY <1>6, JoinedOneTwoOne
<1> QED
  BY <1>7 DEF a, b, c, z, g, iy, S, qq

\* TrashFile keeps tree, disk and index well formed, if it replaces nothing.
LEMMA TrashStep ==
    ASSUME CoreInv, NEW i, NEW user, CanTrash(i, user), NEW new, new = Append(Path(Trash), TrashedAs(i)),
           new \notin DOMAIN disk.files,
           inodes' = Move(i, Trash, TrashedAs(i)), index' = RenamePrefix(index, Path(i), new),
           shares' = shares \ SharesBelow(Path(i)), disk' = Last(TrashSteps(i)),
           trashMeta' = With(trashMeta, i, [parent |-> inodes[i].parent, name |-> inodes[i].name,
                                            path |-> Path(i), shares |-> SharesBelow(Path(i))])
    PROVE  /\ NextTree /\ disk'.files = MovedFiles(i, new) /\ disk'.quota = disk.quota
           /\ MayMove(inodes, i, Trash, TrashedAs(i)) /\ Moved(inodes, inodes', i, Trash, TrashedAs(i))
           /\ IndexMoved(inodes', index, index')
<1> DEFINE g == MovedFiles(i, new)
           S == shares \ SharesBelow(Path(i))
           qq == disk.quota
           e == [parent |-> inodes[i].parent, name |-> inodes[i].name, path |-> Path(i), shares |-> SharesBelow(Path(i))]
           name == TrashedAs(i)
<1>1. /\ i \in Live \ {Root, Trash} /\ inodes[i].parent # Trash /\ Path(i) \in PathSet /\ Path(Trash) = TrashPath
      /\ MayMove(inodes, i, Trash, name) /\ new \in PathSet
  BY TrashTarget
<1>2. /\ TreeOK(inodes) /\ IndexOK(index) /\ Numbered(inodes, index) /\ shares \subseteq GrantSet /\ qq \in Nat
      /\ MetaOK(inodes, index, trashMeta)
  BY CoreFacts
<1>3. Moved(inodes, inodes', i, Trash, name) /\ IndexMoved(inodes', index, index') /\ TreeOK(inodes')
  BY <1>1, MoveParts
<1>4. e \in MetaSet /\ e.parent = inodes[i].parent
  <2>1. inodes[i].parent \in Ids /\ inodes[i].name \in NameSet
    BY <1>1, <1>2, TreePaths DEF TreeOK, Live
  <2>2. SharesBelow(Path(i)) \in SUBSET GrantSet
    BY <1>2 DEF SharesBelow
  <2> QED BY <1>1, <2>1, <2>2 DEF MetaSet
<1>5. shares' \subseteq GrantSet
  BY <1>2
<1>6. disk' = Durable(g, index', shares', qq)
  <2>1. TrashSteps(i) = <<Durable(g, index, shares, qq), Durable(g, index, S, qq),
                          Durable(g, EmptyIndex, S, qq), Durable(g, index', S, qq)>>
    BY <1>1, TrashDisk
  <2> HIDE DEF g, S, qq
  <2>2. Last(TrashSteps(i)) = Durable(g, index', S, qq)
    BY <2>1, LastOfFour
  <2> QED BY <2>2 DEF S
<1>7. MetaOK(inodes', index', trashMeta')
  <2>1. trashMeta' = With(trashMeta, i, e) /\ inodes[Trash].path = TrashPath
    BY <1>1 DEF Path
  <2> HIDE DEF e, name
  <2> QED BY <1>1, <1>2, <1>3, <1>4, <2>1, TrashMeta
<1>8. NextTree /\ disk'.files = g
  BY <1>1, <1>5, <1>6, <1>7, MoveStep
<1>9. disk'.quota = disk.quota
  <2> HIDE DEF g, qq
  <2>1. disk'.quota = qq
    BY <1>6, DurableFields
  <2> QED BY <2>1 DEF qq
<1> QED
  BY <1>1, <1>3, <1>8, <1>9

\* Where RestoreFile moves to, and that it may unless something is in the way.
LEMMA RestoreTarget ==
    ASSUME CoreInv, NEW i, CanRestore(i), NEW new, new = RestoredPath(i)
    PROVE  /\ i \in Live \ {Root, Trash} /\ i \in DOMAIN trashMeta /\ RestoredAs(i) \in NameSet
           /\ RestoreTo(i) \in Live /\ inodes[RestoreTo(i)].type = "dir" /\ new = Append(Path(RestoreTo(i)), RestoredAs(i))
           /\ Path(i) \in PathSet /\ new \in PathSet /\ Reattached(i) \subseteq GrantSet
           /\ FilesOK(MovedFiles(i, new)) /\ IndexOK(RenamePrefix(index, Path(i), new))
           /\ new \notin DOMAIN disk.files => MayMove(inodes, i, RestoreTo(i), RestoredAs(i))
<1> DEFINE d == RestoreTo(i)
           S == Subtree(i)
<1>1. i \in Live /\ inodes[i].parent = Trash /\ i \in DOMAIN trashMeta /\ CanRename(Path(i), new)
  BY DEF CanRestore
<1>2. TreeOK(inodes) /\ MetaOK(inodes, index, trashMeta)
  BY CoreFacts
<1>3. Trash \in Live /\ Path(Trash) = TrashPath /\ Trash # Root /\ inodes[Trash].parent = Root
      /\ \A j \in Live : Path(j) = TrashPath => j = Trash
  BY <1>2, TrashIs
<1>4. trashMeta[i] \in MetaSet /\ DOMAIN trashMeta \subseteq Live
      /\ i # Root /\ (trashMeta[i].parent \in Live => inodes[trashMeta[i].parent].type = "dir")
      /\ (\A j \in DOMAIN trashMeta : inodes[inodes[j].parent].path = TrashPath /\ j # Root)
  BY <1>1, <1>2 DEF MetaOK, Live
<1>5. i \in Live \ {Root, Trash}
  BY <1>1, <1>3, <1>4
<1>6. Root \in Live /\ inodes[Root].type = "dir" /\ inodes[Root].path = <<>>
  BY <1>2 DEF TreeOK, Live
<1>7. d \in Live /\ inodes[d].type = "dir"
  BY <1>4, <1>6 DEF RestoreTo
<1>8. /\ S = {j \in Live : IsPrefix(Path(i), Path(j))} /\ i \in S
      /\ Root \notin S /\ ~IsPrefix(Path(i), TrashPath) /\ Path(i) \in PathSet
  BY <1>5, SubtreePaths
<1>9. ~IsPrefix(Path(i), Path(d))
  <2> SUFFICES ASSUME IsPrefix(Path(i), Path(d)) PROVE FALSE
    OBVIOUS
  <2>1. d \in S /\ d # Root
    BY <1>7, <1>8
  <2>2. Home(inodes, trashMeta, i) = d
    BY <1>1, <2>1 DEF RestoreTo, Home
  <2>3. ASSUME NEW j \in S, j # i PROVE Home(inodes, trashMeta, j) \in S
    <3>1. j \in Live /\ IsPrefix(Path(i), Path(j))
      BY <1>8
    <3>2. j # Root /\ IsPrefix(Path(i), Path(inodes[j].parent)) /\ inodes[j].parent \in Live
      BY <1>1, <1>2, <2>3, <3>1, TreePaths DEF Live, Path
    <3>3. j \notin DOMAIN trashMeta
      BY <1>4, <1>8, <3>2 DEF Path
    <3>4. inodes[j].parent \in S
      BY <1>8, <3>2
    <3> QED BY <3>3, <3>4 DEF Home
  <2>4. \A j \in S : Home(inodes, trashMeta, j) \in S
    BY <2>1, <2>2, <2>3
  <2>5. S \in SUBSET DOMAIN inodes /\ S # {}
    BY <1>8 DEF Live
  <2>6. Homely(inodes, trashMeta)
    BY <1>2 DEF MetaOK
  <2>7. Root \in S
    BY <2>4, <2>5, <2>6 DEF Homely
  <2> QED BY <1>8, <2>7
<1>10. trashMeta[i].name \in NameSet /\ trashMeta[i].path \in PathSet /\ trashMeta[i].shares \in SUBSET GrantSet
  BY <1>4 DEF MetaSet
<1>11. i \in Ids
  BY <1>1, <1>2 DEF TreeOK, Live
<1>12. RestoredAs(i) \in NameSet
  BY <1>10, <1>11, UniqueName DEF RestoredAs
<1>13. new = Append(Path(d), RestoredAs(i))
  BY DEF RestoredPath
<1> HIDE DEF d, S
<1>14. /\ new \in PathSet /\ FilesOK(MovedFiles(i, new)) /\ IndexOK(RenamePrefix(index, Path(i), new))
       /\ new \notin DOMAIN disk.files => MayMove(inodes, i, d, RestoredAs(i))
  BY <1>1, <1>5, <1>7, <1>9, <1>12, <1>13, MoveTarget
<1>15. Reattached(i) \subseteq GrantSet
  <2> SUFFICES ASSUME NEW g \in trashMeta[i].shares PROVE Grant(Rebase(g.path, trashMeta[i].path, new), g.user) \in GrantSet
    BY DEF Reattached
  <2>1. g.path \in PathSet /\ g.user \in Grantees
    BY <1>10 DEF GrantSet
  <2>2. Rebase(g.path, trashMeta[i].path, new) \in PathSet
    BY <1>10, <1>14, <2>1, RebasePath
  <2> QED BY <2>1, <2>2 DEF Grant, GrantSet
<1> QED
  BY <1>1, <1>5, <1>7, <1>8, <1>12, <1>13, <1>14, <1>15 DEF d

\* RestoreFile keeps tree, disk and index well formed, if it replaces nothing.
LEMMA RestoreStep ==
    ASSUME CoreInv, NEW i, CanRestore(i), NEW new, new = RestoredPath(i), new \notin DOMAIN disk.files,
           inodes' = Move(i, RestoreTo(i), RestoredAs(i)), index' = RenamePrefix(index, Path(i), new),
           shares' = shares \cup Reattached(i), disk' = Last(RestoreSteps(i)), trashMeta' = Without(trashMeta, {i})
    PROVE  /\ NextTree /\ disk'.files = MovedFiles(i, new) /\ disk'.quota = disk.quota
           /\ MayMove(inodes, i, RestoreTo(i), RestoredAs(i)) /\ Moved(inodes, inodes', i, RestoreTo(i), RestoredAs(i))
           /\ IndexMoved(inodes', index, index')
<1> DEFINE g == MovedFiles(i, new)
           S == shares \cup Reattached(i)
           qq == disk.quota
           d == RestoreTo(i)
           name == RestoredAs(i)
<1>1. /\ i \in DOMAIN trashMeta /\ new = Append(Path(d), name) /\ Reattached(i) \subseteq GrantSet
      /\ MayMove(inodes, i, d, name) /\ new \in PathSet
  BY RestoreTarget
<1>2. /\ TreeOK(inodes) /\ IndexOK(index) /\ shares \subseteq GrantSet /\ qq \in Nat
      /\ MetaOK(inodes, index, trashMeta)
  BY CoreFacts
<1>3. Moved(inodes, inodes', i, d, name) /\ IndexMoved(inodes', index, index') /\ TreeOK(inodes')
  BY <1>1, MoveParts
<1>5. shares' \subseteq GrantSet
  BY <1>1, <1>2
<1>6. disk' = Durable(g, index', shares', qq)
  <2>1. RestoreSteps(i) = <<Durable(g, index, shares, qq), Durable(g, EmptyIndex, shares, qq),
                            Durable(g, index', shares, qq), Durable(g, index', S, qq)>>
    BY <1>1, RestoreDisk
  <2> HIDE DEF g, S, qq
  <2>2. Last(RestoreSteps(i)) = Durable(g, index', S, qq)
    BY <2>1, LastOfFour
  <2> QED BY <2>2 DEF S
<1>7. MetaOK(inodes', index', trashMeta')
  <2>1. d = IF trashMeta[i].parent \in DOMAIN inodes THEN trashMeta[i].parent ELSE Root
    BY DEF RestoreTo, Live
  <2> HIDE DEF d, name
  <2> QED BY <1>1, <1>2, <1>3, <2>1, RestoreMeta
<1>8. NextTree /\ disk'.files = g
  <2>1. inodes' = Move(i, d, name)
    OBVIOUS
  <2> HIDE DEF d, name
  <2> QED BY <1>1, <1>5, <1>6, <1>7, <2>1, MoveStep
<1>9. disk'.quota = disk.quota
  <2> HIDE DEF g, qq
  <2>1. disk'.quota = qq
    BY <1>6, DurableFields
  <2> QED BY <2>1 DEF qq
<1> QED
  BY <1>1, <1>3, <1>8, <1>9

\* The .acl files of Share and Unshare: the target's, and those below it.
TopFiles(r) == Acled(disk.files, TopACL(r))
SharedFiles(r) == Acled(TopFiles(r), LowerACLs(r))

\* What Share and Unshare work on, also when the inode they hold is deleted.
LEMMA ShareTarget ==
    ASSUME CoreInv, NEW k \in {"share", "unshare"}, NEW r, RequestOK(inodes, k, r)
    PROVE  /\ Target(r) \in InodeSet /\ Target(r).path \in PathSet /\ Target(r).shared \in SUBSET Grantees
           /\ r.user \in Grantees /\ r.op = k /\ Covered(r) \subseteq Live
           /\ (\A p \in DOMAIN TopACL(r) : TopACL(r)[p] \in SUBSET Grantees)
           /\ (\A p \in DOMAIN LowerACLs(r) : LowerACLs(r)[p] \in SUBSET Grantees)
           /\ \A j \in Live : Changed(r, inodes[j].shared) \in SUBSET Grantees
<1>1. TreeOK(inodes)
  BY CoreFacts
<1>2. r.user \in Grantees /\ r.op = k /\ (r.fid \notin Live => r.gone \in InodeSet)
  BY DEF RequestOK, Live
<1>3. \A j \in Live : inodes[j] \in InodeSet
  BY <1>1 DEF TreeOK, Live
<1>4. Target(r) \in InodeSet
  BY <1>2, <1>3 DEF Target
<1>5. Target(r).path \in PathSet /\ Target(r).shared \in SUBSET Grantees
  BY <1>4 DEF InodeSet
<1>6. \A A \in SUBSET Grantees : Changed(r, A) \in SUBSET Grantees
  BY <1>2 DEF Changed
<1>7. \A j \in Live : Changed(r, inodes[j].shared) \in SUBSET Grantees
  BY <1>3, <1>6, InodeFields
<1>8. Covered(r) \subseteq Live
  BY DEF Covered, Subtree
<1>9. \A p \in DOMAIN TopACL(r) : TopACL(r)[p] \in SUBSET Grantees
  BY <1>5, <1>6 DEF TopACL
<1>10. ASSUME NEW p \in DOMAIN LowerACLs(r) PROVE LowerACLs(r)[p] \in SUBSET Grantees
  <2> DEFINE j == CHOOSE j \in Rewritten(r) : Path(j) = p
  <2>1. p \in Paths(Rewritten(r)) /\ LowerACLs(r)[p] = Changed(r, inodes[j].shared)
    BY DEF LowerACLs
  <2>2. \E h \in Rewritten(r) : Path(h) = p
    BY <2>1 DEF Paths
  <2>3. j \in Rewritten(r)
    BY <2>2
  <2>4. j \in Live
    BY <1>8, <2>3 DEF Rewritten
  <2> QED BY <1>7, <2>1, <2>4
<1> QED
  BY <1>2, <1>4, <1>5, <1>7, <1>8, <1>9, <1>10

\* The durable states Share and Unshare go through.
LEMMA ShareDisk ==
    ASSUME CoreInv, NEW k \in {"share", "unshare"}, NEW r, RequestOK(inodes, k, r), NEW S
    PROVE  /\ SharingSteps(r, S) = <<Durable(TopFiles(r), index, shares, disk.quota),
                                     Durable(SharedFiles(r), index, shares, disk.quota),
                                     Durable(SharedFiles(r), index, S, disk.quota)>>
           /\ FilesOK(TopFiles(r)) /\ FilesOK(SharedFiles(r)) /\ Match(inodes, SharedFiles(r))
           /\ DOMAIN SharedFiles(r) = DOMAIN disk.files
           /\ \A p \in DOMAIN disk.files :
                 /\ SharedFiles(r)[p].type = disk.files[p].type /\ SharedFiles(r)[p].size = disk.files[p].size
                 /\ SharedFiles(r)[p].fid = disk.files[p].fid
                 /\ SharedFiles(r)[p].acl =
                      IF disk.files[p].type # "dir" THEN disk.files[p].acl
                      ELSE IF p \in DOMAIN LowerACLs(r) THEN LowerACLs(r)[p]
                      ELSE IF p \in DOMAIN TopACL(r) THEN TopACL(r)[p] ELSE disk.files[p].acl
<1> DEFINE f == disk.files
           g == TopFiles(r)
           h == SharedFiles(r)
           A == TopACL(r)
           B == LowerACLs(r)
           qq == disk.quota
<1>1. FilesOK(f) /\ disk = Durable(f, index, shares, qq) /\ Match(inodes, f)
  BY CoreFacts
<1>2. (\A p \in DOMAIN A : A[p] \in SUBSET Grantees) /\ (\A p \in DOMAIN B : B[p] \in SUBSET Grantees)
  BY ShareTarget
<1>3. g = Acled(f, A) /\ h = Acled(g, B)
  BY DEF TopFiles, SharedFiles
<1>4. SharingSteps(r, S) = LET top == SaveACL(disk, A)
                               all == SaveACL(top, B)
                           IN  <<top, all>> \o SaveDirShares(all, S)
  BY DEF SharingSteps
<1> HIDE DEF f, g, h, A, B, qq
<1>5. SaveACL(Durable(f, index, shares, qq), A) = Durable(g, index, shares, qq)
  BY <1>1, <1>3, SaveACLIs
<1>6. SaveACL(Durable(g, index, shares, qq), B) = Durable(h, index, shares, qq)
  BY <1>2, <1>1, <1>3, AcledFacts, SaveACLIs
<1>7. SaveDirShares(Durable(h, index, shares, qq), S) = <<Durable(h, index, S, qq)>>
  BY DurableUpdates DEF SaveDirShares
<1> DEFINE a == Durable(g, index, shares, qq)
           b == Durable(h, index, shares, qq)
           z == Durable(h, index, S, qq)
<1> HIDE DEF a, b, z
<1>8. SharingSteps(r, S) = <<a, b>> \o <<z>>
  BY <1>1, <1>4, <1>5, <1>6, <1>7 DEF a, b, z
<1>9. SharingSteps(r, S) = <<a, b, z>>
  BY <1>8, JoinedTwoOne
<1>10. /\ FilesOK(g) /\ DOMAIN g = DOMAIN f
       /\ \A p \in DOMAIN f :
             /\ g[p].type = f[p].type /\ g[p].size = f[p].size /\ g[p].fid = f[p].fid
             /\ g[p].acl = IF p \in DOMAIN A /\ f[p].type = "dir" THEN A[p] ELSE f[p].acl
  BY <1>1, <1>2, <1>3, AcledFacts
<1>11. /\ FilesOK(h) /\ DOMAIN h = DOMAIN g
       /\ \A p \in DOMAIN g :
             /\ h[p].type = g[p].type /\ h[p].size = g[p].size /\ h[p].fid = g[p].fid
             /\ h[p].acl = IF p \in DOMAIN B /\ g[p].type = "dir" THEN B[p] ELSE g[p].acl
  BY <1>2, <1>3, <1>10, AcledFacts
<1>12. /\ DOMAIN h = DOMAIN f
       /\ \A p \in DOMAIN f :
             /\ h[p].type = f[p].type /\ h[p].size = f[p].size /\ h[p].fid = f[p].fid
             /\ h[p].acl = IF f[p].type # "dir" THEN f[p].acl
                           ELSE IF p \in DOMAIN B THEN B[p] ELSE IF p \in DOMAIN A THEN A[p] ELSE f[p].acl
  BY <1>10, <1>11
<1>13. Match(inodes, h)
  BY <1>1, <1>12, SameMatch
<1> QED
  BY <1>9, <1>10, <1>11, <1>12, <1>13 DEF a, b, z, f, g, h, A, B, qq

\* Only the ACLs below the target change.
Opened(n, m, r) ==
    /\ m \in [DOMAIN n -> InodeSet]
    /\ \A j \in DOMAIN n :
          /\ m[j].path = n[j].path /\ m[j].parent = n[j].parent /\ m[j].name = n[j].name
          /\ m[j].kids = n[j].kids /\ m[j].type = n[j].type /\ m[j].size = n[j].size
          /\ m[j].shared = IF j \in Covered(r) THEN Changed(r, n[j].shared) ELSE n[j].shared

\* Changing an ACL keeps the rest of an inode.
LEMMA InodeShared ==
    ASSUME NEW x \in InodeSet, NEW A \in SUBSET Grantees, NEW y, y = [x EXCEPT !.shared = A]
    PROVE  /\ y \in InodeSet
           /\ y.shared = A /\ y.type = x.type /\ y.name = x.name /\ y.parent = x.parent /\ y.path = x.path
           /\ y.kids = x.kids /\ y.size = x.size
BY DEF InodeSet

\* Share and Unshare change the ACLs of the subtree only.
LEMMA ShareTree ==
    ASSUME CoreInv, NEW k \in {"share", "unshare"}, NEW r, RequestOK(inodes, k, r), NEW m, m = WithACL(r)
    PROVE  Opened(inodes, m, r)
<1>1. \A j \in Live : inodes[j] \in InodeSet
  BY CoreFacts DEF TreeOK, Live
<1>2. m = [j \in Live |-> IF j \in Covered(r) THEN [inodes[j] EXCEPT !.shared = Changed(r, inodes[j].shared)] ELSE inodes[j]]
  BY DEF WithACL
<1>3. ASSUME NEW j \in Live
      PROVE  /\ m[j] \in InodeSet
             /\ m[j].path = inodes[j].path /\ m[j].parent = inodes[j].parent /\ m[j].name = inodes[j].name
             /\ m[j].kids = inodes[j].kids /\ m[j].type = inodes[j].type /\ m[j].size = inodes[j].size
             /\ m[j].shared = IF j \in Covered(r) THEN Changed(r, inodes[j].shared) ELSE inodes[j].shared
  <2> DEFINE x == inodes[j]
             A == Changed(r, inodes[j].shared)
             y == m[j]
  <2>1. x \in InodeSet /\ A \in SUBSET Grantees
    BY <1>1, ShareTarget
  <2>2. y = IF j \in Covered(r) THEN [x EXCEPT !.shared = A] ELSE x
    BY <1>2
  <2> HIDE DEF x, A, y
  <2>3. CASE j \in Covered(r)
    <3>1. y = [x EXCEPT !.shared = A]
      BY <2>2, <2>3
    <3>2. /\ y \in InodeSet
          /\ y.shared = A /\ y.type = x.type /\ y.name = x.name /\ y.parent = x.parent /\ y.path = x.path
          /\ y.kids = x.kids /\ y.size = x.size
      BY <2>1, <3>1, InodeShared
    <3> QED BY <2>3, <3>2 DEF x, A, y
  <2>4. CASE j \notin Covered(r)
    BY <2>1, <2>2, <2>4 DEF x, A, y
  <2> QED BY <2>3, <2>4
<1>4. m \in [DOMAIN inodes -> InodeSet]
  BY <1>2, <1>3 DEF Live
<1> QED
  BY <1>3, <1>4 DEF Opened, Live

\* Share and Unshare keep tree, disk and index well formed.
LEMMA ShareStep ==
    ASSUME CoreInv, NEW k \in {"share", "unshare"}, NEW r, RequestOK(inodes, k, r), NEW S, S \subseteq GrantSet,
           inodes' = WithACL(r), shares' = S, disk' = Last(SharingSteps(r, S)), index' = index, trashMeta' = trashMeta
    PROVE  NextTree /\ disk'.files = SharedFiles(r) /\ disk'.quota = disk.quota /\ Opened(inodes, inodes', r)
<1> DEFINE h == SharedFiles(r)
           g == TopFiles(r)
           qq == disk.quota
<1>1. /\ TreeOK(inodes) /\ IndexOK(index) /\ Numbered(inodes, index) /\ qq \in Nat /\ MetaOK(inodes, index, trashMeta)
  BY CoreFacts
<1>2. /\ SharingSteps(r, S) = <<Durable(g, index, shares, qq), Durable(h, index, shares, qq), Durable(h, index, S, qq)>>
      /\ FilesOK(h) /\ Match(inodes, h)
  BY ShareDisk
<1> HIDE DEF h, g, qq
<1>3. Last(SharingSteps(r, S)) = Durable(h, index, S, qq)
  BY <1>2, LastOfThree
<1>4. disk' = Durable(h, index', shares', qq)
  BY <1>3
<1>5. Opened(inodes, inodes', r)
  BY ShareTree
<1>6. /\ inodes' \in [DOMAIN inodes -> InodeSet]
      /\ \A j \in DOMAIN inodes :
          /\ inodes'[j].path = inodes[j].path /\ inodes'[j].parent = inodes[j].parent /\ inodes'[j].name = inodes[j].name
          /\ inodes'[j].kids = inodes[j].kids /\ inodes'[j].type = inodes[j].type /\ inodes'[j].size = inodes[j].size
  BY <1>5 DEF Opened
<1>7. TreeOK(inodes')
  BY <1>1, <1>6, SameTree
<1>8. MetaOK(inodes', index', trashMeta')
  BY <1>1, <1>6, SameMeta
<1>9. Numbered(inodes', index')
  BY <1>1, <1>6 DEF Numbered
<1>10. Match(inodes', h)
  <2>1. DOMAIN inodes' = DOMAIN inodes
    BY <1>6
  <2>2. {inodes'[j].path : j \in DOMAIN inodes'} = {inodes[j].path : j \in DOMAIN inodes}
    BY <1>6, <2>1
  <2>3. \A j \in DOMAIN inodes : inodes'[j].path = inodes[j].path /\ inodes'[j].type = inodes[j].type /\ inodes'[j].size = inodes[j].size
    BY <1>6
  <2>4. /\ {inodes[j].path : j \in DOMAIN inodes} = DOMAIN h
        /\ \A j \in DOMAIN inodes : /\ h[inodes[j].path].type = inodes[j].type
                                    /\ inodes[j].type = "file" => h[inodes[j].path].size = inodes[j].size
    BY <1>2 DEF Match
  <2>5. ASSUME NEW j \in DOMAIN inodes'
        PROVE  h[inodes'[j].path].type = inodes'[j].type /\ (inodes'[j].type = "file" => h[inodes'[j].path].size = inodes'[j].size)
    BY <2>1, <2>3, <2>4
  <2> QED BY <2>2, <2>4, <2>5 DEF Match
<1>11. NextTree /\ disk'.files = h
  BY <1>1, <1>2, <1>4, <1>7, <1>8, <1>9, <1>10, NextTreeFrom
<1>12. disk'.quota = qq
  BY <1>4, DurableFields
<1> QED
  BY <1>5, <1>11, <1>12 DEF h, qq

\* Nothing is asked of the locals of other requests.
LEMMA OtherRequest ==
    ASSUME NEW n, NEW k, NEW q, k \notin {"create", "write", "share", "unshare"}
    PROVE  RequestOK(n, k, q)
BY DEF RequestOK

Requests == /\ DOMAIN pc' = Callers /\ DOMAIN req' = Callers
            /\ \A b \in Callers : RequestOK(inodes', pc'[b], req'[b])

\* A handler that moves on with a well-formed request leaves all well formed.
LEMMA RequestsNow ==
    ASSUME CoreInv, NEW c \in Callers, NEW k, NEW q, RequestOK(inodes', k, q), Live \subseteq DOMAIN inodes',
           pc' = [pc EXCEPT ![c] = k], req' = [req EXCEPT ![c] = q]
    PROVE  Requests
<1>1. DOMAIN pc = Callers /\ DOMAIN req = Callers /\ \A b \in Callers : RequestOK(inodes, pc[b], req[b])
  BY DEF CoreInv, RequestInv
<1>2. DOMAIN pc' = Callers /\ DOMAIN req' = Callers
  BY <1>1
<1>3. ASSUME NEW b \in Callers, b # c PROVE RequestOK(inodes', pc'[b], req'[b])
  <2>1. pc'[b] = pc[b] /\ req'[b] = req[b]
    BY <1>1, <1>3
  <2>2. RequestOK(inodes, pc[b], req[b]) /\ DOMAIN inodes \subseteq DOMAIN inodes'
    BY <1>1 DEF Live
  <2>3. RequestOK(inodes', pc[b], req[b])
    BY <2>2, RequestKept
  <2> QED BY <2>1, <2>3
<1>4. pc'[c] = k /\ req'[c] = q
  BY <1>1
<1> QED
  BY <1>2, <1>3, <1>4 DEF Requests

\* So does one that ends.
LEMMA RequestsDone ==
    ASSUME CoreInv, NEW c \in Callers, Live \subseteq DOMAIN inodes', Finish(c)
    PROVE  Requests
<1>1. RequestOK(inodes', "idle", None)
  BY OtherRequest
<1>2. pc' = [pc EXCEPT ![c] = "idle"] /\ req' = [req EXCEPT ![c] = None]
  BY DEF Finish
<1> QED
  BY <1>1, <1>2, RequestsNow

\* So does one that goes on to tell the metaserver.
LEMMA RequestsTold ==
    ASSUME CoreInv, NEW c \in Callers, Live \subseteq DOMAIN inodes', NEW kind \in {"RootShare", "RootUnshare"},
           NEW grants, Notify(c, req, kind, grants)
    PROVE  Requests
<1>1. RequestOK(inodes', "idle", None) /\ RequestOK(inodes', kind, [op |-> kind, grants |-> grants])
  BY OtherRequest
<1>2. CASE grants = {}
  <2>1. pc' = [pc EXCEPT ![c] = "idle"] /\ req' = [req EXCEPT ![c] = None]
    BY <1>2 DEF Notify
  <2> QED BY <1>1, <2>1, RequestsNow
<1>3. CASE grants # {}
  <2>1. pc' = [pc EXCEPT ![c] = kind] /\ req' = [req EXCEPT ![c] = [op |-> kind, grants |-> grants]]
    BY <1>3 DEF Notify
  <2> QED BY <1>1, <2>1, RequestsNow
<1> QED
  BY <1>2, <1>3

\* NextCore from an earlier CoreInv.
LEMMA CoreNow ==
    ASSUME CoreInv, workload' = workload, NextTree, Requests, quota' \in Nat, retired' \subseteq Ids
    PROVE  CoreInv'
BY NextCore DEF Requests

\* A request that changes no more than itself.
LEMMA QuietStep ==
    ASSUME CoreInv, UNCHANGED <<disk, memory, workload, retired>>, quota' \in Nat, Requests
    PROVE  CoreInv'
<1>1. disk' = disk /\ inodes' = inodes /\ index' = index /\ shares' = shares /\ trashMeta' = trashMeta
      /\ workload' = workload /\ retired' = retired
  BY DEF memory
<1>2. NextTree
  BY <1>1, QuietTree
<1>3. retired' \subseteq Ids
  BY <1>1 DEF CoreInv
<1> QED
  BY <1>1, <1>2, <1>3, CoreNow

\* What FileServerAssumption says of a workload.
LEMMA WorkloadFacts ==
    ASSUME workload \in Workloads
    PROVE  /\ workload.quota \in Nat /\ workload.callers \in Nat /\ workload.crashes \in Nat /\ ".trash" \notin Bases
           /\ Ops \subseteq Operations
BY FileServerAssumption DEF Bases, Ops

\* The quota in force is a number.
LEMMA QuotaNat ==
    ASSUME workload \in Workloads, quota \in Nat
    PROVE  Quota \in Nat
BY WorkloadFacts DEF Quota

\* The first half of a handler keeps CoreInv.
LEMMA BeginCore ==
    ASSUME CoreInv, NEW c \in Callers, NEW r, Begin(c, r), RequestOK(inodes, r.op, r)
    PROVE  CoreInv'
<1>1. /\ pc' = [pc EXCEPT ![c] = r.op] /\ req' = [req EXCEPT ![c] = r]
      /\ UNCHANGED <<disk, memory, workload, retired>> /\ quota' = quota /\ inodes' = inodes
  BY DEF Begin, memory, process, history
<1>2. quota' \in Nat
  BY <1>1 DEF CoreInv
<1>3. Live \subseteq DOMAIN inodes' /\ RequestOK(inodes', r.op, r)
  BY <1>1 DEF Live
<1>4. Requests
  BY <1>1, <1>3, RequestsNow
<1> QED
  BY <1>1, <1>2, <1>4, QuietStep

\* So do all requests.
LEMMA SendCore ==
    ASSUME CoreInv, workload \in Workloads, NEW c \in Callers, Send(c)
    PROVE  CoreInv'
<1>1. CASE SendCreate(c)
  <2>1. PICK user \in Users, d \in Live, base \in Bases, tags \in {<<>>} \cup {<<i>> : i \in ChosenIds}, type \in {"file", "dir"} :
           Begin(c, [op |-> "create", user |-> user, dir |-> d, name |-> Name(base, tags), type |-> type])
    BY <1>1 DEF SendCreate
  <2>2. tags \in Seq(Nat)
    <3>1. CASE tags = <<>>
      BY <3>1
    <3>2. ASSUME NEW i \in ChosenIds, tags = <<i>> PROVE tags \in Seq(Nat)
      <4>1. i \in Nat
        BY FileServerAssumption
      <4> QED BY <3>2, <4>1
    <3> QED BY <3>1, <3>2
  <2>3. Name(base, tags) \in NameSet \cup {aclFileName} /\ Name(base, tags).base = base
    BY <2>2 DEF Name, NameSet
  <2> DEFINE r == [op |-> "create", user |-> user, dir |-> d, name |-> Name(base, tags), type |-> type]
  <2>4. RequestOK(inodes, "create", r) /\ r.op = "create"
    BY <2>3 DEF RequestOK
  <2> HIDE DEF r
  <2> QED BY <2>1, <2>4, BeginCore DEF r
<1>2. CASE SendWrite(c)
  <2>1. PICK d \in Live, end \in 1 .. Quota + 1, k \in Live :
           Begin(c, [op |-> "write", dir |-> d, name |-> inodes[k].name, end |-> end])
    BY <1>2 DEF SendWrite
  <2>2. end \in Nat
    BY QuotaNat DEF CoreInv
  <2> DEFINE r == [op |-> "write", dir |-> d, name |-> inodes[k].name, end |-> end]
  <2>4. RequestOK(inodes, "write", r) /\ r.op = "write"
    BY <2>2 DEF RequestOK
  <2> HIDE DEF r
  <2> QED BY <2>1, <2>4, BeginCore DEF r
<1>3. CASE SendUpload(c)
  <2>1. PICK user \in Users, d \in Live, k \in Live :
           Begin(c, [op |-> "upload", user |-> user, dir |-> d, name |-> inodes[k].name, before |-> inodes[Root].size, fid |-> None])
    BY <1>3 DEF SendUpload
  <2> DEFINE r == [op |-> "upload", user |-> user, dir |-> d, name |-> inodes[k].name, before |-> inodes[Root].size, fid |-> None]
  <2>4. RequestOK(inodes, "upload", r) /\ r.op = "upload"
    BY OtherRequest
  <2> HIDE DEF r
  <2> QED BY <2>1, <2>4, BeginCore DEF r
<1>4. CASE SendRemove(c)
  <2>1. PICK op \in {"delete", "trash", "restore"}, i \in Live : Begin(c, [op |-> op, user |-> Owner, fid |-> i])
    BY <1>4 DEF SendRemove
  <2> DEFINE r == [op |-> op, user |-> Owner, fid |-> i]
  <2>4. RequestOK(inodes, op, r) /\ r.op = op
    BY OtherRequest
  <2> HIDE DEF r
  <2> QED BY <2>1, <2>4, BeginCore DEF r
<1>5. CASE SendShare(c)
  <2>1. PICK op \in {"share", "unshare"}, i \in Live \ {Trash}, user \in Grantees :
           Begin(c, [op |-> op, user |-> user, fid |-> i, gone |-> None])
    BY <1>5 DEF SendShare
  <2> DEFINE r == [op |-> op, user |-> user, fid |-> i, gone |-> None]
  <2>4. RequestOK(inodes, op, r) /\ r.op = op
    BY DEF RequestOK, Live
  <2> HIDE DEF r
  <2> QED BY <2>1, <2>4, BeginCore DEF r
<1> QED
  BY <1>1, <1>2, <1>3, <1>4, <1>5 DEF Send

\* What CoreInv says of a handler's own request.
LEMMA MyRequest ==
    ASSUME CoreInv, NEW c \in Callers
    PROVE  RequestOK(inodes, pc[c], req[c]) /\ quota \in Nat /\ retired \subseteq Ids
BY DEF CoreInv, RequestInv

\* CreateFile keeps CoreInv.
LEMMA CreateCore ==
    ASSUME CoreInv, NEW c \in Callers, CreateFile(c), ~replaced'
    PROVE  CoreInv'
<1> DEFINE r == req[c]
<1>1. /\ CanCreate(r) /\ index' = NewIndex(r) /\ inodes' = CreatedTree(r) /\ disk' = Last(CreateSteps(r))
      /\ shares' = shares /\ trashMeta' = trashMeta /\ Finish(c) /\ quota' = quota /\ workload' = workload /\ retired' = retired
      /\ r.name # aclFileName
  BY DEF CreateFile, NewIndex, NewId, CreatedTree, process
<1>2. RequestOK(inodes, "create", r) /\ quota \in Nat /\ retired \subseteq Ids
  BY MyRequest DEF CreateFile
<1> HIDE DEF r
<1>3. NextTree /\ TreeAdded(inodes, inodes', NewId(r), r.dir, r.name, NewPath(r), r.type)
  BY <1>1, <1>2, CreateStep
<1>4. Live \subseteq DOMAIN inodes'
  BY <1>3 DEF TreeAdded, Live
<1>5. Requests
  BY <1>1, <1>4, RequestsDone
<1> QED
  BY <1>1, <1>2, <1>3, <1>5, CoreNow

\* WriteFile keeps CoreInv.
LEMMA WriteCore ==
    ASSUME CoreInv, NEW c \in Callers, WriteFile(c)
    PROVE  CoreInv'
<1> DEFINE r == req[c]
           end == req[c].end
<1>1. /\ CanWrite(r, end) /\ WriteTo(r, end) /\ index' = index
      /\ shares' = shares /\ trashMeta' = trashMeta /\ Finish(c) /\ quota' = quota /\ workload' = workload /\ retired' = retired
  BY DEF WriteFile, process, history
<1>2. end \in Nat /\ quota \in Nat /\ retired \subseteq Ids
  BY MyRequest DEF WriteFile, RequestOK
<1> HIDE DEF r, end
<1>3. NextTree /\ \E i, e : Wrote(i, e)
  BY <1>1, <1>2, WriteStep
<1>4. Live \subseteq DOMAIN inodes'
  BY <1>3 DEF Wrote, Written, Live
<1>5. Requests
  BY <1>1, <1>4, RequestsDone
<1> QED
  BY <1>1, <1>2, <1>3, <1>5, CoreNow

\* Requests stay well formed as long as no inode goes.
LEMMA RequestsSame ==
    ASSUME CoreInv, Live \subseteq DOMAIN inodes', pc' = pc, req' = req
    PROVE  Requests
<1>1. DOMAIN pc = Callers /\ DOMAIN req = Callers /\ \A b \in Callers : RequestOK(inodes, pc[b], req[b])
  BY DEF CoreInv, RequestInv
<1>2. ASSUME NEW b \in Callers PROVE RequestOK(inodes', pc[b], req[b])
  <2>1. RequestOK(inodes, pc[b], req[b]) /\ DOMAIN inodes \subseteq DOMAIN inodes'
    BY <1>1 DEF Live
  <2> QED BY <2>1, RequestKept
<1> QED
  BY <1>1, <1>2 DEF Requests

\* A chunk of an upload keeps CoreInv.
LEMMA UploadCore ==
    ASSUME CoreInv, workload \in Workloads, NEW c \in Callers, UploadChunk(c)
    PROVE  CoreInv'
<1> DEFINE r == req[c]
<1>1. PICK end \in 1 .. Quota : CanWrite(r, end) /\ WriteTo(r, end)
  BY DEF UploadChunk
<1>2. /\ index' = index /\ shares' = shares /\ trashMeta' = trashMeta /\ pc' = pc /\ req' = req
      /\ quota' = quota /\ workload' = workload /\ retired' = retired
  BY DEF UploadChunk, process, history
<1>3. quota \in Nat /\ retired \subseteq Ids
  BY DEF CoreInv
<1>4. end \in Nat
  BY <1>3, QuotaNat
<1> HIDE DEF r
<1>5. NextTree /\ \E i, e : Wrote(i, e)
  BY <1>1, <1>2, <1>4, WriteStep
<1>6. Live \subseteq DOMAIN inodes'
  BY <1>5 DEF Wrote, Written, Live
<1>7. Requests
  BY <1>2, <1>6, RequestsSame
<1> QED
  BY <1>2, <1>3, <1>5, <1>7, CoreNow

Quiet == UNCHANGED <<disk, memory, history, quota, workload>>

\* What a step leaves alone that touches neither tree nor disk.
LEMMA QuietFacts ==
    ASSUME CoreInv, Quiet
    PROVE  /\ UNCHANGED <<disk, memory, workload, retired>> /\ quota' \in Nat
           /\ inodes' = inodes /\ Live \subseteq DOMAIN inodes'
<1>1. UNCHANGED <<disk, memory, workload, retired>> /\ quota' = quota /\ inodes' = inodes
  BY DEF Quiet, memory, history
<1> QED
  BY <1>1 DEF CoreInv, Live

\* The steps of a handler that touch neither the tree nor the disk.
LEMMA QuietServe ==
    ASSUME CoreInv, NEW c \in Callers,
           UploadFails(c) \/ UploadDone(c) \/ ScrapLookup(c) \/ Tell(c) \/ Refuse(c)
    PROVE  CoreInv' /\ Quiet
<1>1. Quiet
  BY DEF UploadFails, UploadDone, ScrapLookup, Tell, Refuse, Quiet, process
<1>2. Live \subseteq DOMAIN inodes' /\ DOMAIN req = Callers
  BY <1>1, QuietFacts DEF CoreInv, RequestInv
<1>3. Requests
  <2>1. CASE UploadFails(c)
    <3>1. pc' = [pc EXCEPT ![c] = "scrap"] /\ req' = req
      BY <2>1 DEF UploadFails
    <3>2. DOMAIN pc = Callers /\ \A b \in Callers : RequestOK(inodes, pc[b], req[b])
      BY DEF CoreInv, RequestInv
    <3>3. ASSUME NEW b \in Callers PROVE RequestOK(inodes', pc'[b], req'[b])
      <4>1. inodes' = inodes /\ pc'[b] = (IF b = c THEN "scrap" ELSE pc[b])
        BY <1>1, <3>1, <3>2, QuietFacts
      <4>2. RequestOK(inodes, "scrap", req[b])
        BY OtherRequest
      <4>3. CASE b = c
        BY <3>1, <4>1, <4>2, <4>3
      <4>4. CASE b # c
        BY <3>1, <3>2, <4>1, <4>4
      <4> QED BY <4>3, <4>4
    <3> QED BY <1>2, <3>1, <3>2, <3>3 DEF Requests
  <2>2. CASE UploadDone(c) \/ Refuse(c)
    BY <1>2, <2>2, RequestsDone DEF UploadDone, Refuse
  <2>3. CASE ScrapLookup(c)
    <3>1. CASE Finish(c)
      BY <1>2, <3>1, RequestsDone
    <3>2. ASSUME NEW k, req' = [req EXCEPT ![c].fid = k], pc' = [pc EXCEPT ![c] = "scrapDelete"] PROVE Requests
      <4>1. req' = [req EXCEPT ![c] = [req[c] EXCEPT !.fid = k]]
        BY <3>2
      <4>2. RequestOK(inodes', "scrapDelete", [req[c] EXCEPT !.fid = k])
        BY OtherRequest
      <4> QED BY <1>2, <3>2, <4>1, <4>2, RequestsNow
    <3> QED BY <2>3, <3>1, <3>2 DEF ScrapLookup
  <2>4. CASE Tell(c)
    <3>1. PICK g : Notify(c, req, pc[c], req[c].grants \ {g}) /\ pc[c] \in {"RootShare", "RootUnshare"}
      BY <2>4 DEF Tell
    <3> DEFINE kind == pc[c]
               grants == req[c].grants \ {g}
    <3> HIDE DEF kind, grants
    <3>2. Notify(c, req, kind, grants) /\ kind \in {"RootShare", "RootUnshare"}
      BY <3>1 DEF kind, grants
    <3> QED BY <1>2, <3>2, RequestsTold
  <2> QED BY <2>1, <2>2, <2>3, <2>4
<1> QED
  BY <1>1, <1>3, QuietFacts, QuietStep

\* The sync loop touches neither tree nor disk.
LEMMA QuietSync ==
    ASSUME CoreInv, HeartbeatFails \/ SendRegistration \/ Register \/ RegistrationFails
    PROVE  CoreInv' /\ Quiet
<1>1. Quiet /\ pc' = pc /\ req' = req
  BY DEF HeartbeatFails, SendRegistration, Register, RegistrationFails, Quiet, process
<1>2. Requests
  BY <1>1, QuietFacts, RequestsSame
<1> QED
  BY <1>1, <1>2, QuietFacts, QuietStep

\* SetQuota keeps CoreInv, and files, index and shares as they are.
LEMMA SetQuotaCore ==
    ASSUME CoreInv, workload \in Workloads, SetQuota
    PROVE  CoreInv' /\ UNCHANGED <<memory, history, workload>> /\ disk'.files = disk.files /\ disk'.shares = disk.shares
           /\ disk'.index = disk.index
<1>1. PICK q \in 1 .. workload.quota : SetUserQuota(q)
  BY DEF SetQuota
<1>2. /\ quota' = q /\ disk' \in {disk, [disk EXCEPT !.quota = q]} /\ UNCHANGED memory /\ pc' = pc /\ req' = req
      /\ UNCHANGED history /\ workload' = workload
  BY <1>1 DEF SetUserQuota
<1>3. q \in Nat
  BY WorkloadFacts
<1>4. inodes' = inodes /\ index' = index /\ shares' = shares /\ trashMeta' = trashMeta /\ retired' = retired
  BY <1>2 DEF memory, history
<1> DEFINE f == disk.files
           qq == disk.quota
<1>5. /\ disk = Durable(f, index, shares, qq) /\ FilesOK(f) /\ IndexOK(index) /\ shares \subseteq GrantSet /\ qq \in Nat
      /\ TreeOK(inodes) /\ Numbered(inodes, index) /\ Match(inodes, f) /\ MetaOK(inodes, index, trashMeta)
  BY CoreFacts
<1> HIDE DEF f, qq
<1>6. \E z \in Nat : disk' = Durable(f, index, shares, z)
  <2>1. [Durable(f, index, shares, qq) EXCEPT !.quota = q] = Durable(f, index, shares, q)
    BY DEF Durable
  <2> QED BY <1>2, <1>3, <1>5, <2>1
<1>7. PICK z \in Nat : disk' = Durable(f, index', shares', z)
  BY <1>4, <1>6
<1>8. NextTree /\ disk'.files = f
  BY <1>4, <1>5, <1>7, NextTreeFrom
<1>9. Requests
  BY <1>2, <1>4, RequestsSame DEF Live
<1>10. CoreInv'
  BY <1>2, <1>3, <1>4, <1>8, <1>9, CoreNow DEF CoreInv
<1>11. disk'.shares = shares /\ disk'.index = index
  BY <1>4, <1>7, DurableFields
<1>12. disk.shares = shares /\ disk.index = index
  BY CoreFacts
<1> QED
  BY <1>2, <1>8, <1>10, <1>11, <1>12 DEF f

\* A request whose inode is deleted keeps a copy of it.
LEMMA OutliveIs ==
    ASSUME CoreInv, NEW I, I \subseteq Live, NEW b \in Callers, DOMAIN inodes' = Live \ I
    PROVE  RequestOK(inodes', pc[b], Outlive(I, req)[b])
<1> DEFINE q == req[b]
           x == Outlive(I, req)[b]
           k == pc[b]
<1>1. RequestOK(inodes, k, q)
  BY MyRequest
<1>2. x = IF k \in {"share", "unshare"} /\ q.fid \in I THEN [q EXCEPT !.gone = inodes[q.fid]] ELSE q
  BY DEF Outlive
<1>3. \A j \in Live : inodes[j] \in InodeSet
  BY CoreFacts DEF TreeOK, Live
<1> HIDE DEF q, x, k
<1>4. CASE k \in {"share", "unshare"} /\ q.fid \in I
  <2>1. /\ q = [op |-> q.op, user |-> q.user, fid |-> q.fid, gone |-> q.gone]
        /\ q.op = k /\ q.user \in Grantees
    BY <1>1, <1>4 DEF RequestOK
  <2>2. x = [q EXCEPT !.gone = inodes[q.fid]]
    BY <1>2, <1>4
  <2>3. x = [op |-> x.op, user |-> x.user, fid |-> x.fid, gone |-> x.gone] /\ x.op = q.op /\ x.user = q.user /\ x.gone = inodes[q.fid]
    BY <2>1, <2>2
  <2>4. x.gone \in InodeSet
    BY <1>3, <1>4, <2>3
  <2>5. RequestOK(inodes', k, x)
    BY <1>4, <2>1, <2>3, <2>4 DEF RequestOK
  <2> QED BY <2>5 DEF x, k
<1>5. CASE ~(k \in {"share", "unshare"} /\ q.fid \in I)
  <2>1. x = q
    BY <1>2, <1>5
  <2>2. k \in {"share", "unshare"} => q.fid \notin I
    BY <1>5
  <2>3. RequestOK(inodes', k, q)
    BY <1>1, <2>2 DEF RequestOK, Live
  <2> QED BY <2>1, <2>3 DEF x, k
<1> QED
  BY <1>4, <1>5

\* Requests stay well formed through a deletion.
LEMMA RequestsOutlive ==
    ASSUME CoreInv, NEW I, I \subseteq Live, NEW c \in Callers, DOMAIN inodes' = Live \ I, NEW i,
           NotifyDeleted(c, Outlive(I, req), i)
    PROVE  Requests
<1> DEFINE o == Outlive(I, req)
<1>1. DOMAIN pc = Callers /\ DOMAIN o = Callers
  BY DEF CoreInv, RequestInv, Outlive
<1>2. PICK k, q : k \in {"idle", "RootUnshare"} /\ pc' = [pc EXCEPT ![c] = k] /\ req' = [o EXCEPT ![c] = q]
  BY DEF NotifyDeleted, Notify
<1>3. ASSUME NEW b \in Callers PROVE RequestOK(inodes', pc'[b], req'[b])
  <2>1. CASE b = c
    <3>1. pc'[b] = k
      BY <1>1, <1>2, <2>1
    <3> QED BY <1>2, <3>1, OtherRequest
  <2>2. CASE b # c
    <3>1. pc'[b] = pc[b] /\ req'[b] = o[b]
      BY <1>1, <1>2, <2>2
    <3>2. RequestOK(inodes', pc[b], o[b])
      BY OutliveIs
    <3> QED BY <3>1, <3>2
  <2> QED BY <2>1, <2>2
<1>4. DOMAIN pc' = Callers /\ DOMAIN req' = Callers
  BY <1>1, <1>2
<1> QED
  BY <1>3, <1>4 DEF Requests

\* A directory without entries, or a file, has nothing below it.
LEMMA LonelyInode ==
    ASSUME NEW i \in Live, inodes[i].kids = {}
    PROVE  Subtree(i) = {i}
<1> DEFINE closed == {S \in SUBSET Live : i \in S /\ \A k \in S : inodes[k].kids \cap Live \subseteq S}
<1>1. {i} \in closed
  OBVIOUS
<1>2. Subtree(i) = {j \in Live : \A S \in closed : j \in S}
  BY DEF Subtree
<1>3. \A S \in closed : i \in S
  OBVIOUS
<1> HIDE DEF closed
<1> QED
  BY <1>1, <1>2, <1>3

\* A deletion keeps CoreInv.
LEMMA DeleteCore ==
    ASSUME CoreInv, NEW c \in Callers, NEW i, NEW I, CanRemove(i, req[c].user, TRUE), Delete(i),
           I = Subtree(i), NotifyDeleted(c, Outlive(I, req), i)
    PROVE  CoreInv' /\ I \subseteq Live /\ Removed(inodes, inodes', i, I) /\ disk'.files = RemovedFiles(i)
<1>1. i \in Live \ {Root, Trash}
  BY DEF CanRemove
<1>2. /\ NextTree /\ Removed(inodes, inodes', i, I) /\ retired' = retired \cup I /\ I \subseteq Live
      /\ disk'.files = RemovedFiles(i)
  BY <1>1, DeleteStep
<1>3. DOMAIN inodes' = Live \ I
  BY <1>2 DEF Removed, Live
<1>4. Requests
  BY <1>2, <1>3, RequestsOutlive
<1>5. quota' = quota /\ workload' = workload
  BY DEF Delete, process
<1>6. quota \in Nat /\ retired \subseteq Ids /\ Live \subseteq Ids
  BY CoreFacts, MyRequest DEF TreeOK, Live
<1>7. retired' \subseteq Ids
  BY <1>2, <1>6
<1> QED
  BY <1>2, <1>4, <1>5, <1>6, <1>7, CoreNow

Deleted(i) ==
    /\ i \in Live \ {Root, Trash} /\ Subtree(i) \subseteq Live /\ Delete(i)
    /\ Removed(inodes, inodes', i, Subtree(i)) /\ disk'.files = RemovedFiles(i)

\* DeleteFile and the cleanup of an upload keep CoreInv.
LEMMA DeletesCore ==
    ASSUME CoreInv, NEW c \in Callers, DeleteFile(c) \/ ScrapDelete(c)
    PROVE  CoreInv' /\ Deleted(req[c].fid) /\ NotifyDeleted(c, Outlive(Subtree(req[c].fid), req), req[c].fid)
<1> DEFINE i == req[c].fid
           I == Subtree(i)
<1>1. CanRemove(i, req[c].user, TRUE) /\ Delete(i) /\ i \in Live \ {Root, Trash}
  BY DEF DeleteFile, ScrapDelete, CanRemove
<1>2. NotifyDeleted(c, Outlive(I, req), i)
  <2>1. CASE DeleteFile(c)
    BY <2>1 DEF DeleteFile
  <2>2. CASE ScrapDelete(c)
    <3>1. inodes[i].kids = {} /\ NotifyDeleted(c, Outlive({i}, req), i)
      BY <2>2 DEF ScrapDelete, CanRemove
    <3>2. I = {i}
      BY <1>1, <3>1, LonelyInode
    <3> QED BY <3>1, <3>2
  <2> QED BY <2>1, <2>2
<1> HIDE DEF i, I
<1>3. I = Subtree(i)
  BY DEF I
<1>4. CoreInv' /\ I \subseteq Live /\ Removed(inodes, inodes', i, I) /\ disk'.files = RemovedFiles(i)
  BY <1>1, <1>2, <1>3, DeleteCore
<1> QED
  BY <1>1, <1>2, <1>3, <1>4 DEF i, I, Deleted

TrashNew(i) == Append(Path(Trash), TrashedAs(i))
Trashed(i) ==
    /\ i \in Live \ {Root, Trash} /\ disk'.files = MovedFiles(i, TrashNew(i))
    /\ MayMove(inodes, i, Trash, TrashedAs(i)) /\ Moved(inodes, inodes', i, Trash, TrashedAs(i))
    /\ IndexMoved(inodes', index, index') /\ TrashNew(i) \notin DOMAIN disk.files

\* TrashFile keeps CoreInv, if it replaces nothing.
LEMMA TrashCore ==
    ASSUME CoreInv, NEW c \in Callers, TrashFile(c), ~replaced'
    PROVE  CoreInv' /\ Trashed(req[c].fid)
<1> DEFINE i == req[c].fid
           new == TrashNew(i)
<1>1. /\ CanTrash(i, req[c].user) /\ inodes' = Move(i, Trash, TrashedAs(i)) /\ index' = RenamePrefix(index, Path(i), new)
      /\ shares' = shares \ SharesBelow(Path(i)) /\ disk' = Last(TrashSteps(i))
      /\ trashMeta' = With(trashMeta, i, [parent |-> inodes[i].parent, name |-> inodes[i].name,
                                          path |-> Path(i), shares |-> SharesBelow(Path(i))])
      /\ Replace(new) /\ Finish(c) /\ quota' = quota /\ workload' = workload /\ retired' = retired
  BY DEF TrashFile, TrashNew, process, history
<1>2. new \notin DOMAIN disk.files
  BY <1>1 DEF Replace
<1>3. new = Append(Path(Trash), TrashedAs(i))
  BY DEF TrashNew
<1> HIDE DEF i, new
<1>4. /\ NextTree /\ disk'.files = MovedFiles(i, new)
      /\ MayMove(inodes, i, Trash, TrashedAs(i)) /\ Moved(inodes, inodes', i, Trash, TrashedAs(i))
      /\ IndexMoved(inodes', index, index')
  BY <1>1, <1>2, <1>3, TrashStep
<1>5. i \in Live \ {Root, Trash}
  BY <1>1 DEF CanTrash, CanRemove
<1>6. Live \subseteq DOMAIN inodes'
  BY <1>4 DEF Moved, Live
<1>7. Requests
  BY <1>1, <1>6, RequestsDone
<1>8. quota' \in Nat /\ retired' \subseteq Ids
  BY <1>1, MyRequest
<1>9. CoreInv'
  BY <1>1, <1>4, <1>7, <1>8, CoreNow
<1>10. Trashed(i)
  BY <1>2, <1>4, <1>5 DEF Trashed, new
<1> QED
  BY <1>9, <1>10 DEF i

Restored(i) ==
    /\ i \in Live \ {Root, Trash} /\ i \in DOMAIN trashMeta /\ disk'.files = MovedFiles(i, RestoredPath(i))
    /\ MayMove(inodes, i, RestoreTo(i), RestoredAs(i)) /\ Moved(inodes, inodes', i, RestoreTo(i), RestoredAs(i))
    /\ IndexMoved(inodes', index, index') /\ RestoredPath(i) \notin DOMAIN disk.files

\* RestoreFile keeps CoreInv, if it replaces nothing.
LEMMA RestoreCore ==
    ASSUME CoreInv, NEW c \in Callers, RestoreFile(c), ~replaced'
    PROVE  CoreInv' /\ Restored(req[c].fid)
<1> DEFINE i == req[c].fid
           new == RestoredPath(i)
<1>1. /\ CanRestore(i) /\ inodes' = Move(i, RestoreTo(i), RestoredAs(i)) /\ index' = RenamePrefix(index, Path(i), new)
      /\ shares' = shares \cup Reattached(i) /\ disk' = Last(RestoreSteps(i))
      /\ trashMeta' = Without(trashMeta, {i})
      /\ Replace(new) /\ Finish(c) /\ quota' = quota /\ workload' = workload /\ retired' = retired
  BY DEF RestoreFile, process, history
<1>2. new \notin DOMAIN disk.files
  BY <1>1 DEF Replace
<1>3. new = RestoredPath(i)
  OBVIOUS
<1> HIDE DEF i, new
<1>4. /\ NextTree /\ disk'.files = MovedFiles(i, new)
      /\ MayMove(inodes, i, RestoreTo(i), RestoredAs(i)) /\ Moved(inodes, inodes', i, RestoreTo(i), RestoredAs(i))
      /\ IndexMoved(inodes', index, index')
  BY <1>1, <1>2, <1>3, RestoreStep
<1>5. i \in Live \ {Root, Trash} /\ i \in DOMAIN trashMeta
  BY <1>1, RestoreTarget
<1>6. Live \subseteq DOMAIN inodes'
  BY <1>4 DEF Moved, Live
<1>7. Requests
  BY <1>1, <1>6, RequestsDone
<1>8. quota' \in Nat /\ retired' \subseteq Ids
  BY <1>1, MyRequest
<1>9. CoreInv'
  BY <1>1, <1>4, <1>7, <1>8, CoreNow
<1>10. Restored(i)
  BY <1>2, <1>3, <1>4, <1>5 DEF Restored
<1> QED
  BY <1>9, <1>10 DEF i

\* Share and Unshare keep CoreInv.
LEMMA ShareCore ==
    ASSUME CoreInv, NEW c \in Callers, Share(c) \/ Unshare(c)
    PROVE  CoreInv' /\ Opened(inodes, inodes', req[c]) /\ disk'.files = SharedFiles(req[c])
           /\ pc[c] \in {"share", "unshare"} /\ req[c].op = pc[c] /\ req[c].user \in Grantees
<1> DEFINE r == req[c]
           k == pc[c]
           g == Grant(Target(r).path, r.user)
<1>1. PICK S \in {shares \cup {g}, shares \ {g}} :
        /\ inodes' = WithACL(r) /\ shares' = S /\ disk' = Last(SharingSteps(r, S))
        /\ index' = index /\ trashMeta' = trashMeta /\ quota' = quota /\ workload' = workload /\ retired' = retired
  BY DEF Share, Unshare, ShareSteps, UnshareSteps, process
<1>2. PICK kind \in {"RootShare", "RootUnshare"} : Notify(c, req, kind, {g})
  BY DEF Share, Unshare
<1>3. k \in {"share", "unshare"} /\ RequestOK(inodes, k, r)
  BY MyRequest DEF Share, Unshare
<1> HIDE DEF r, k
<1>4. Target(r).path \in PathSet /\ r.user \in Grantees /\ r.op = k
  BY <1>3, ShareTarget
<1>5. S \subseteq GrantSet
  <2>1. g \in GrantSet
    BY <1>4 DEF Grant, GrantSet
  <2> QED BY <1>1, <2>1, CoreFacts
<1> HIDE DEF g
<1>6. NextTree /\ disk'.files = SharedFiles(r) /\ Opened(inodes, inodes', r)
  BY <1>1, <1>3, <1>5, ShareStep
<1>7. Live \subseteq DOMAIN inodes'
  BY <1>6 DEF Opened, Live
<1>8. Requests
  BY <1>2, <1>7, RequestsTold
<1>9. quota' \in Nat /\ retired' \subseteq Ids
  BY <1>1, MyRequest
<1>10. CoreInv'
  BY <1>1, <1>6, <1>8, <1>9, CoreNow
<1> QED
  BY <1>3, <1>4, <1>6, <1>10 DEF r, k

\* A restart forgets where trashed files came from.
LEMMA EmptyMeta ==
    ASSUME NEW n, TreeOK(n), NEW ix
    PROVE  MetaOK(n, ix, <<>>)
<1>1. DOMAIN <<>> = {}
  OBVIOUS
<1>2. Homely(n, <<>>)
  BY <1>1, TreeHomely
<1>3. <<>> \in [DOMAIN <<>> -> MetaSet]
  OBVIOUS
<1> QED
  BY <1>1, <1>2, <1>3 DEF MetaOK

\* A restart from any well-formed disk establishes CoreInv.
LEMMA RestartCore ==
    ASSUME CoreInv, NEW d, DurableOK(d), Restart(d), retired' \subseteq Ids
    PROVE  CoreInv' /\ RestartedFrom(d)
<1>1. RestartedFrom(d)
  BY RestartFacts
<1>2. /\ shares' = d.shares /\ trashMeta' = <<>> /\ quota' = d.quota /\ workload' = workload
      /\ pc' = [c \in Callers |-> "idle"] /\ req' = [c \in Callers |-> None]
  BY RestartIs DEF RestartFrom
<1>3. d.quota \in Nat
  BY DurableIs
<1>4. NextTree
  <2>1. TreeOK(inodes')
    BY <1>1 DEF RestartedFrom
  <2>2. MetaOK(inodes', index', trashMeta')
    BY <1>2, <2>1, EmptyMeta
  <2> QED BY <1>1, <1>2, <2>2 DEF RestartedFrom, NextTree
<1>5. Requests
  <2>1. \A c \in Callers : pc'[c] = "idle"
    BY <1>2
  <2>2. \A c \in Callers : RequestOK(inodes', pc'[c], req'[c])
    BY <2>1, OtherRequest
  <2> QED BY <1>2, <2>2 DEF Requests
<1> QED
  BY <1>1, <1>2, <1>3, <1>4, <1>5, CoreNow

\* A crash inside CreateFile leaves a well-formed disk.
LEMMA CutCreate ==
    ASSUME CoreInv, NEW r, RequestOK(inodes, "create", r), r.name # aclFileName, CanCreate(r), NEW d \in CutShort(CreateSteps(r))
    PROVE  DurableOK(d)
<1> DEFINE f == MadeFiles(r)
           g == AcledFiles(r)
           h == CreatedFiles(r)
           qq == disk.quota
<1>1. /\ CreateSteps(r) = <<Durable(f, index, shares, qq), Durable(g, index, shares, qq),
                            Durable(g, EmptyIndex, shares, qq), Durable(h, NewIndex(r), shares, qq)>>
      /\ FilesOK(f) /\ FilesOK(g)
  BY CreateDisk
<1>2. IndexOK(index) /\ shares \subseteq GrantSet /\ qq \in Nat /\ IndexOK(EmptyIndex)
  BY CoreFacts, EmptyIndexOK
<1> HIDE DEF f, g, h, qq
<1>3. d \in {Durable(f, index, shares, qq), Durable(g, index, shares, qq), Durable(g, EmptyIndex, shares, qq)}
  BY <1>1, LastOfFour
<1> QED
  BY <1>1, <1>2, <1>3, DurableFields

\* A crash inside DeleteFile leaves a well-formed disk.
LEMMA CutDelete ==
    ASSUME CoreInv, NEW i \in Live \ {Root, Trash}, NEW d \in CutShort(DeleteSteps(i))
    PROVE  DurableOK(d)
<1> DEFINE g == RemovedFiles(i)
           iy == IndexRemove(index, Gone(i))
           S == shares \ SharesBelow(Path(i))
           qq == disk.quota
<1>1. /\ DeleteSteps(i) = <<Durable(g, index, shares, qq), Durable(g, EmptyIndex, shares, qq),
                            Durable(g, iy, shares, qq), Durable(g, iy, S, qq)>>
      /\ FilesOK(g) /\ IndexOK(iy)
  BY DeleteDisk
<1>2. IndexOK(index) /\ shares \subseteq GrantSet /\ qq \in Nat /\ IndexOK(EmptyIndex)
  BY CoreFacts, EmptyIndexOK
<1> HIDE DEF g, iy, S, qq
<1>3. d \in {Durable(g, index, shares, qq), Durable(g, EmptyIndex, shares, qq), Durable(g, iy, shares, qq)}
  BY <1>1, LastOfFour
<1> QED
  BY <1>1, <1>2, <1>3, DurableFields

\* A crash inside TrashFile leaves a well-formed disk.
LEMMA CutTrash ==
    ASSUME CoreInv, NEW i, NEW user, CanTrash(i, user), NEW d \in CutShort(TrashSteps(i))
    PROVE  DurableOK(d)
<1> DEFINE new == TrashNew(i)
           g == MovedFiles(i, new)
           iy == RenamePrefix(index, Path(i), new)
           S == shares \ SharesBelow(Path(i))
           qq == disk.quota
<1>1. new = Append(Path(Trash), TrashedAs(i))
  BY DEF TrashNew
<1>2. FilesOK(g) /\ new \in PathSet
  BY <1>1, TrashTarget
<1>3. TrashSteps(i) = <<Durable(g, index, shares, qq), Durable(g, index, S, qq),
                        Durable(g, EmptyIndex, S, qq), Durable(g, iy, S, qq)>>
  BY <1>1, <1>2, TrashDisk
<1>4. IndexOK(index) /\ shares \subseteq GrantSet /\ S \subseteq GrantSet /\ qq \in Nat /\ IndexOK(EmptyIndex)
  BY CoreFacts, EmptyIndexOK
<1> HIDE DEF g, iy, S, qq
<1>5. d \in {Durable(g, index, shares, qq), Durable(g, index, S, qq), Durable(g, EmptyIndex, S, qq)}
  BY <1>3, LastOfFour
<1> QED
  BY <1>2, <1>4, <1>5, DurableFields

\* A crash inside RestoreFile leaves a well-formed disk.
LEMMA CutRestore ==
    ASSUME CoreInv, NEW i, CanRestore(i), NEW d \in CutShort(RestoreSteps(i))
    PROVE  DurableOK(d)
<1> DEFINE new == RestoredPath(i)
           g == MovedFiles(i, new)
           iy == RenamePrefix(index, Path(i), new)
           S == shares \cup Reattached(i)
           qq == disk.quota
<1>2. FilesOK(g) /\ IndexOK(iy) /\ new \in PathSet
  BY RestoreTarget
<1>3. RestoreSteps(i) = <<Durable(g, index, shares, qq), Durable(g, EmptyIndex, shares, qq),
                          Durable(g, iy, shares, qq), Durable(g, iy, S, qq)>>
  BY <1>2, RestoreDisk
<1>4. IndexOK(index) /\ shares \subseteq GrantSet /\ qq \in Nat /\ IndexOK(EmptyIndex)
  BY CoreFacts, EmptyIndexOK
<1> HIDE DEF g, iy, S, qq
<1>5. d \in {Durable(g, index, shares, qq), Durable(g, EmptyIndex, shares, qq), Durable(g, iy, shares, qq)}
  BY <1>3, LastOfFour
<1> QED
  BY <1>2, <1>4, <1>5, DurableFields

\* A crash inside Share or Unshare leaves a well-formed disk.
LEMMA CutShare ==
    ASSUME CoreInv, NEW k \in {"share", "unshare"}, NEW r, RequestOK(inodes, k, r), NEW S,
           NEW d \in CutShort(SharingSteps(r, S))
    PROVE  DurableOK(d)
<1> DEFINE g == TopFiles(r)
           h == SharedFiles(r)
           qq == disk.quota
<1>1. /\ SharingSteps(r, S) = <<Durable(g, index, shares, qq), Durable(h, index, shares, qq), Durable(h, index, S, qq)>>
      /\ FilesOK(g) /\ FilesOK(h)
  BY ShareDisk
<1>2. IndexOK(index) /\ shares \subseteq GrantSet /\ qq \in Nat
  BY CoreFacts
<1> HIDE DEF g, h, qq
<1>3. d \in {Durable(g, index, shares, qq), Durable(h, index, shares, qq)}
  BY <1>1, LastOfThree
<1> QED
  BY <1>1, <1>2, <1>3, DurableFields

\* A crash among the removals of DeleteFile leaves a well-formed disk.
LEMMA CutHalfRemoved ==
    ASSUME CoreInv, NEW c \in Callers, CanRun(c), NEW d \in HalfRemoved(c)
    PROVE  DurableOK(d)
<1> DEFINE i == req[c].fid
           qq == disk.quota
           f == disk.files
<1>1. pc[c] \in {"delete", "scrapDelete"}
  BY DEF HalfRemoved
<1>2. i \in Live \ {Root, Trash}
  BY <1>1 DEF CanRun, CanRemove
<1>3. PICK P \in SUBSET Gone(i) : d = [disk EXCEPT !.files = Without(f, P)] /\ \A p \in P : Below(Gone(i), p) \subseteq P
  BY <1>1 DEF HalfRemoved, Gone
<1> DEFINE g == Without(f, P)
<1>4. Kept(f, g, P)
  BY <1>2, <1>3, HalfRemovedOK
<1>5. FilesOK(g)
  BY <1>4 DEF Kept
<1>6. IndexOK(index) /\ shares \subseteq GrantSet /\ qq \in Nat /\ disk = Durable(f, index, shares, qq)
  BY CoreFacts
<1> HIDE DEF g, f, qq
<1>7. d = Durable(g, index, shares, qq)
  <2>1. [Durable(f, index, shares, qq) EXCEPT !.files = g] = Durable(g, index, shares, qq)
    BY DurableUpdates
  <2>2. d = [disk EXCEPT !.files = g]
    BY <1>3 DEF g
  <2> QED BY <1>6, <2>1, <2>2
<1> QED
  BY <1>5, <1>6, <1>7, DurableFields

\* A crash among the .acl files that Share and Unshare write leaves a well-formed disk.
LEMMA CutHalfShared ==
    ASSUME CoreInv, NEW c \in Callers, NEW d \in HalfShared(c)
    PROVE  /\ DurableOK(d)
           /\ \E P \in SUBSET DOMAIN LowerACLs(req[c]) :
                 d = Durable(Acled(TopFiles(req[c]), [p \in P |-> LowerACLs(req[c])[p]]), index, shares, disk.quota)
<1> DEFINE r == req[c]
           A == TopACL(r)
           B == LowerACLs(r)
           f == disk.files
           g == TopFiles(r)
           qq == disk.quota
<1>1. pc[c] \in {"share", "unshare"}
  BY DEF HalfShared
<1>2. PICK P \in SUBSET DOMAIN B : d = SaveACL(SaveACL(disk, A), [p \in P |-> B[p]])
  BY <1>1 DEF HalfShared
<1> DEFINE C == [p \in P |-> B[p]]
           h == Acled(g, C)
<1>3. RequestOK(inodes, pc[c], r)
  BY MyRequest
<1>4. (\A p \in DOMAIN A : A[p] \in SUBSET Grantees) /\ (\A p \in DOMAIN B : B[p] \in SUBSET Grantees)
  BY <1>1, <1>3, ShareTarget
<1>5. /\ FilesOK(f) /\ disk = Durable(f, index, shares, qq)
      /\ IndexOK(index) /\ shares \subseteq GrantSet /\ qq \in Nat
  BY CoreFacts
<1>6. g = Acled(f, A) /\ DOMAIN C = P /\ \A p \in DOMAIN C : C[p] \in SUBSET Grantees
  BY <1>4 DEF TopFiles
<1>7. d = SaveACL(SaveACL(disk, A), C)
  BY <1>2
<1> HIDE DEF A, B, f, g, qq, C, h
<1>8. FilesOK(g)
  BY <1>4, <1>5, <1>6, AcledFacts
<1>9. FilesOK(h)
  BY <1>6, <1>8, AcledFacts DEF h
<1>10. SaveACL(Durable(f, index, shares, qq), A) = Durable(g, index, shares, qq)
  BY <1>5, <1>6, SaveACLIs
<1>11. SaveACL(Durable(g, index, shares, qq), C) = Durable(h, index, shares, qq)
  BY <1>8, SaveACLIs DEF h
<1>12. d = Durable(h, index, shares, qq)
  BY <1>5, <1>7, <1>10, <1>11
<1>13. DurableOK(d)
  BY <1>5, <1>9, <1>12, DurableFields
<1> QED
  BY <1>2, <1>12, <1>13 DEF h, C, g, B, qq

\* Whatever point of whatever method a crash strikes, the disk is one a restart
\* can be made from.
LEMMA CutOK ==
    ASSUME CoreInv, NEW c \in Callers, CanRun(c), pc[c] = "create" => req[c].name # aclFileName,
           NEW d \in CutShort(Steps(c)) \cup HalfRemoved(c) \cup HalfShared(c)
    PROVE  DurableOK(d)
<1> DEFINE r == req[c]
           s == Steps(c)
<1>1. CASE d \in HalfRemoved(c)
  BY <1>1, CutHalfRemoved
<1>3. CASE d \in HalfShared(c)
  BY <1>3, CutHalfShared
<1>2. CASE d \in CutShort(s)
  <2>1. RequestOK(inodes, pc[c], r)
    BY MyRequest
  <2>2. CASE pc[c] = "create"
    <3>1. s = CreateSteps(r) /\ CanCreate(r) /\ RequestOK(inodes, "create", r) /\ r.name # aclFileName
      BY <2>1, <2>2 DEF Steps, CanRun
    <3> QED BY <1>2, <3>1, CutCreate
  <2>3. CASE pc[c] \in {"delete", "scrapDelete"}
    <3>1. s = DeleteSteps(r.fid) /\ r.fid \in Live \ {Root, Trash}
      BY <2>3 DEF Steps, CanRun, CanRemove
    <3> QED BY <1>2, <3>1, CutDelete
  <2>4. CASE pc[c] = "trash"
    <3>1. s = TrashSteps(r.fid) /\ CanTrash(r.fid, r.user)
      BY <2>4 DEF Steps, CanRun
    <3> QED BY <1>2, <3>1, CutTrash
  <2>5. CASE pc[c] = "restore"
    <3>1. s = RestoreSteps(r.fid) /\ CanRestore(r.fid)
      BY <2>5 DEF Steps, CanRun
    <3> QED BY <1>2, <3>1, CutRestore
  <2>6. CASE pc[c] \in {"share", "unshare"}
    <3>1. \E S : s = SharingSteps(r, S)
      BY <2>6 DEF Steps, ShareSteps, UnshareSteps
    <3> QED BY <1>2, <2>1, <2>6, <3>1, CutShare
  <2>7. CASE pc[c] \notin {"create", "delete", "scrapDelete", "trash", "restore", "share", "unshare"}
    <3>1. s = <<>>
      BY <2>7 DEF Steps
    <3>2. CutShort(<<>>) = {}
      BY DEF CutShort
    <3> HIDE DEF s
    <3> QED BY <1>2, <3>1, <3>2
  <2> QED BY <2>2, <2>3, <2>4, <2>5, <2>6, <2>7
<1> QED
  BY <1>1, <1>2, <1>3

\* A crash between methods keeps CoreInv.
LEMMA CrashCore ==
    ASSUME CoreInv, Crash
    PROVE  CoreInv' /\ RestartedFrom(disk)
<1>1. DurableOK(disk) /\ retired \subseteq Ids
  BY CoreFacts DEF CoreInv
<1>2. Restart(disk) /\ retired' = retired
  BY DEF Crash, history
<1> QED
  BY <1>1, <1>2, RestartCore

\* A crash inside a method keeps CoreInv.
LEMMA CrashInsideCore ==
    ASSUME CoreInv, NEW c \in Callers, CrashInside(c), ~replaced'
    PROVE  CoreInv' /\ torn'
<1>1. CanRun(c) /\ torn' = TRUE /\ (pc[c] = "create" => req[c].name # aclFileName)
  BY DEF CrashInside
<1>2. PICK d \in CutShort(Steps(c)) \cup HalfRemoved(c) \cup HalfShared(c) :
        Restart(d) /\ retired' = retired \cup {i \in Live : \A p \in DOMAIN d.files : d.files[p].fid # i}
  BY DEF CrashInside
<1>3. DurableOK(d)
  BY <1>1, CutOK
<1>4. retired' \subseteq Ids
  <2>1. retired \subseteq Ids /\ Live \subseteq Ids
    BY CoreFacts DEF CoreInv, TreeOK, Live
  <2> QED BY <1>2, <2>1
<1> QED
  BY <1>1, <1>2, <1>3, <1>4, RestartCore

-----------------------------------------------------------------------------
(* The specification. *)

\* The first tree: a root and its trash.
LEMMA InitTree ==
    ASSUME Init
    PROVE  /\ DOMAIN inodes = {Root, 1} /\ TreeOK(inodes)
           /\ \A i \in Live : /\ inodes[i].type = "dir" /\ inodes[i].size = 0 /\ inodes[i].shared = {}
                              /\ inodes[i].path = IF i = Root THEN <<>> ELSE TrashPath
<1> DEFINE a == inodes[Root]
           b == inodes[1]
<1>1. /\ a = [type |-> "dir", name |-> Name("", <<>>), parent |-> Root, path |-> <<>>, kids |-> {1}, shared |-> {}, size |-> 0]
      /\ b = [type |-> "dir", name |-> trashDirName, parent |-> Root, path |-> TrashPath, kids |-> {}, shared |-> {}, size |-> 0]
      /\ DOMAIN inodes = {Root, 1} /\ inodes = [i \in {Root, 1} |-> inodes[i]]
  <2>1. inodes = [i \in {Root, 1} |->
                     IF i = Root THEN [NewInode("dir", Name("", <<>>), Root, <<>>, {}) EXCEPT !.kids = {1}]
                     ELSE NewInode("dir", trashDirName, Root, TrashPath, {})]
    BY DEF Init
  <2>2. Root # 1
    BY DEF Root
  <2>3. DOMAIN inodes = {Root, 1} /\ inodes = [i \in {Root, 1} |-> inodes[i]]
    BY <2>1
  <2>4. b = NewInode("dir", trashDirName, Root, TrashPath, {}) /\ a = [NewInode("dir", Name("", <<>>), Root, <<>>, {}) EXCEPT !.kids = {1}]
    BY <2>1, <2>2
  <2>5. a = [type |-> "dir", name |-> Name("", <<>>), parent |-> Root, path |-> <<>>, kids |-> {1}, shared |-> {}, size |-> 0]
    <3> DEFINE x == NewInode("dir", Name("", <<>>), Root, <<>>, {})
    <3>1. a = [x EXCEPT !.kids = {1}]
      BY <2>4
    <3>2. x = [type |-> "dir", name |-> Name("", <<>>), parent |-> Root, path |-> <<>>, kids |-> {}, shared |-> {}, size |-> 0]
      BY DEF NewInode
    <3> HIDE DEF x
    <3> QED BY <3>1, <3>2
  <2> QED BY <2>3, <2>4, <2>5 DEF NewInode
<1>2. Root \in Ids /\ 1 \in Ids /\ Root # 1
  BY FileServerAssumption DEF Ids, Root
<1> HIDE DEF a, b
<1>3. /\ a.type = "dir" /\ a.name = Name("", <<>>) /\ a.parent = Root /\ a.path = <<>> /\ a.kids = {1} /\ a.shared = {} /\ a.size = 0
  BY <1>1, InodeRecord
<1>4. /\ b.type = "dir" /\ b.name = trashDirName /\ b.parent = Root /\ b.path = TrashPath /\ b.kids = {} /\ b.shared = {} /\ b.size = 0
  BY <1>1, InodeRecord
<1>5. a \in InodeSet
  BY <1>1, <1>2, EmptyPath DEF InodeSet
<1>6. b \in InodeSet
  BY <1>1, <1>2, EmptyPath DEF InodeSet
<1>7. inodes \in [DOMAIN inodes -> InodeSet]
  BY <1>1, <1>5, <1>6 DEF a, b
<1>8. \A i \in DOMAIN inodes \ {Root} : i = 1
  BY <1>1
<1>9. {j \in DOMAIN inodes \ {Root} : inodes[j].parent = Root} = {1} /\ {j \in DOMAIN inodes \ {Root} : inodes[j].parent = 1} = {}
  BY <1>1, <1>2, <1>4, <1>8 DEF b
<1>10. TreeOK(inodes)
  <2>1. DOMAIN inodes \subseteq Ids /\ Root \in DOMAIN inodes
    BY <1>1, <1>2
  <2>2. inodes[Root].path = <<>> /\ inodes[Root].parent = Root /\ inodes[Root].type = "dir"
    BY <1>3 DEF a
  <2>3. ASSUME NEW i \in DOMAIN inodes \ {Root}
        PROVE  /\ inodes[i].parent \in DOMAIN inodes /\ inodes[inodes[i].parent].type = "dir"
               /\ inodes[i].path = Append(inodes[inodes[i].parent].path, inodes[i].name)
    <3>1. i = 1 /\ inodes[i] = b
      BY <1>8 DEF b
    <3>2. TrashPath = Append(<<>>, trashDirName)
      BY EmptyPath
    <3> QED BY <1>4, <2>1, <2>2, <3>1, <3>2
  <2>4. \A i \in DOMAIN inodes : inodes[i].kids = {j \in DOMAIN inodes \ {Root} : inodes[j].parent = i}
    <3>1. ASSUME NEW i \in DOMAIN inodes PROVE inodes[i].kids = {j \in DOMAIN inodes \ {Root} : inodes[j].parent = i}
      <4>1. CASE i = Root
        BY <1>3, <1>9, <4>1 DEF a
      <4>2. CASE i = 1
        BY <1>4, <1>9, <4>2 DEF b
      <4> QED BY <1>1, <4>1, <4>2
    <3> QED BY <3>1
  <2>5. \A i, j \in DOMAIN inodes : inodes[i].path = inodes[j].path => i = j
    BY <1>1, <1>3, <1>4, <1>8, EmptyPath DEF a, b
  <2>6. inodes[1].path = TrashPath /\ inodes[1].type = "dir" /\ 1 \in DOMAIN inodes
    BY <1>1, <1>4 DEF b
  <2> QED BY <1>7, <2>1, <2>2, <2>3, <2>4, <2>5, <2>6 DEF TreeOK
<1>11. ASSUME NEW i \in Live
       PROVE  /\ inodes[i].type = "dir" /\ inodes[i].size = 0 /\ inodes[i].shared = {}
              /\ inodes[i].path = IF i = Root THEN <<>> ELSE TrashPath
  <2>1. i = Root \/ i = 1
    BY <1>1 DEF Live
  <2> QED BY <1>2, <1>3, <1>4, <2>1 DEF a, b
<1> QED
  BY <1>1, <1>10, <1>11

\* The first index.
LEMMA FirstIndexOK ==
    /\ IndexOK(FirstIndex) /\ DOMAIN FirstIndex.ids = {<<>>, TrashPath} /\ FirstIndex.next = 2
    /\ FirstIndex.ids[<<>>] = Root /\ FirstIndex.ids[TrashPath] = 1
<1> DEFINE f == FirstIndex.ids
<1>1. FirstIndex = [ids |-> RootAndTrash(Root, 1), next |-> 2]
  BY DEF FirstIndex
<1>2. f = RootAndTrash(Root, 1) /\ FirstIndex.next = 2 /\ FirstIndex = [ids |-> f, next |-> 2]
  BY <1>1
<1>3. f = [p \in {<<>>, TrashPath} |-> IF p = <<>> THEN Root ELSE 1]
  BY <1>2 DEF RootAndTrash
<1> HIDE DEF f
<1>4. DOMAIN f = {<<>>, TrashPath} /\ f[<<>>] = Root /\ f[TrashPath] = 1
  BY <1>3, EmptyPath
<1>5. f \in [DOMAIN f -> 0 .. 2 - 1]
  BY <1>3 DEF Root
<1>6. \A p, q \in DOMAIN f : f[p] = f[q] => p = q
  BY <1>4 DEF Root
<1>7. 2 \in 0 .. MaxId
  BY FileServerAssumption
<1>8. IndexOK(FirstIndex)
  BY <1>2, <1>4, <1>5, <1>6, <1>7, EmptyPath DEF IndexOK, f
<1> QED
  BY <1>2, <1>4, <1>8 DEF f

\* CoreInv holds at first.
LEMMA InitCore ==
    ASSUME Init
    PROVE  CoreInv
<1>1. /\ DOMAIN inodes = {Root, 1} /\ TreeOK(inodes)
      /\ \A i \in Live : /\ inodes[i].type = "dir" /\ inodes[i].size = 0
                         /\ inodes[i].path = IF i = Root THEN <<>> ELSE TrashPath
  BY InitTree
<1> DEFINE f == RootAndTrash(NewEntry("dir", Root), NewEntry("dir", 1))
<1>2. disk = Durable(f, FirstIndex, {}, 0)
  BY DEF Init, Durable
<1>3. index = FirstIndex /\ shares = {} /\ trashMeta = <<>>
  BY DEF Init
<1>4. f = [p \in {<<>>, TrashPath} |-> IF p = <<>> THEN NewEntry("dir", Root) ELSE NewEntry("dir", 1)]
  BY DEF RootAndTrash
<1> HIDE DEF f
<1>5. Root \in Ids /\ 1 \in Ids /\ Root # 1
  BY FileServerAssumption DEF Ids, Root
<1>6. NewEntry("dir", Root) \in Entry /\ NewEntry("dir", 1) \in Entry /\ NewEntry("dir", Root).type = "dir" /\ NewEntry("dir", 1).type = "dir"
  BY <1>5, NewEntryIs
<1>7. f \in [DOMAIN f -> Entry] /\ DOMAIN f = {<<>>, TrashPath} /\ \A p \in DOMAIN f : f[p].type = "dir"
  BY <1>4, <1>6
<1>8. Match(inodes, f)
  <2>1. Root \in Live /\ 1 \in Live
    BY <1>1 DEF Live
  <2>2. {inodes[i].path : i \in DOMAIN inodes} = {<<>>, TrashPath}
    BY <1>1, <1>5, <2>1 DEF Live
  <2> QED BY <1>1, <1>7, <2>2 DEF Match, Live
<1>9. FilesOK(f)
  BY <1>1, <1>7, <1>8, FilesOfTree
<1>10. IndexOK(FirstIndex) /\ Numbered(inodes, FirstIndex)
  <2>1. ASSUME NEW i \in DOMAIN inodes PROVE inodes[i].path \in DOMAIN FirstIndex.ids /\ FirstIndex.ids[inodes[i].path] = i
    <3>1. i \in Live /\ (i = Root \/ i = 1)
      BY <1>1 DEF Live
    <3> QED BY <1>1, <1>5, <3>1, FirstIndexOK
  <2> QED BY <2>1, FirstIndexOK DEF Numbered
<1>11. DiskInv
  <2>1. disk.files = f /\ disk.index = FirstIndex /\ disk.shares = {} /\ DurableOK(disk)
    BY <1>2, <1>9, <1>10, DurableFields
  <2> QED BY <1>3, <1>8, <1>10, <2>1 DEF DiskInv
<1>12. MetaInv
  BY <1>1, <1>3, EmptyMeta DEF MetaInv
<1>13. RequestInv
  <2>1. \A c \in Callers : pc[c] = "idle"
    BY DEF Init
  <2>2. \A c \in Callers : RequestOK(inodes, pc[c], req[c])
    BY <2>1, OtherRequest
  <2> QED BY <2>2 DEF RequestInv, Init
<1>14. quota \in Nat /\ retired \subseteq Ids
  BY DEF Init
<1> QED
  BY <1>1, <1>11, <1>12, <1>13, <1>14 DEF CoreInv, TreeInv

\* The inductive invariant.
FileServerInv == workload \in Workloads /\ crashes \in Nat /\ (~replaced => CoreInv)

\* The steps of the fileserver, one by one.
LEMMA NextServes ==
    ASSUME Next
    PROVE  \/ \E c \in Callers : Send(c)
           \/ \E c \in Callers : CreateFile(c)
           \/ \E c \in Callers : WriteFile(c)
           \/ \E c \in Callers : UploadChunk(c)
           \/ \E c \in Callers : UploadFails(c) \/ UploadDone(c) \/ ScrapLookup(c) \/ Tell(c) \/ Refuse(c)
           \/ \E c \in Callers : DeleteFile(c) \/ ScrapDelete(c)
           \/ \E c \in Callers : TrashFile(c)
           \/ \E c \in Callers : RestoreFile(c)
           \/ \E c \in Callers : Share(c) \/ Unshare(c)
           \/ \E c \in Callers : CrashInside(c)
           \/ SetQuota
           \/ HeartbeatFails \/ SendRegistration \/ Register \/ RegistrationFails
           \/ Crash
BY DEF Next, Serve

\* Sending a request changes nothing but the handler.
LEMMA SendKeeps ==
    ASSUME NEW c \in Callers, Send(c)
    PROVE  UNCHANGED <<disk, memory, published, sync, history, process, lost>>
<1>1. SendCreate(c) => \E r : Begin(c, r)
  BY Zenon DEF SendCreate
<1>2. SendWrite(c) => \E r : Begin(c, r)
  BY Zenon DEF SendWrite
<1>3. SendUpload(c) => \E r : Begin(c, r)
  BY Zenon DEF SendUpload
<1>4. SendRemove(c) \/ SendShare(c) => \E r : Begin(c, r)
  BY Zenon DEF SendRemove, SendShare
<1>5. \A r : Begin(c, r) => UNCHANGED <<disk, memory, published, sync, history, process, lost>>
  BY Zenon DEF Begin
<1> QED
  BY <1>1, <1>2, <1>3, <1>4, <1>5, Zenon DEF Send

\* A workload stays, and a replaced file stays replaced.
LEMMA NextKeeps ==
    ASSUME Next
    PROVE  workload' = workload /\ (~replaced' => ~replaced) /\ crashes' \in {crashes, crashes + 1}
<1>1. CASE \E c \in Callers : Send(c)
  BY <1>1, SendKeeps DEF process, history
<1>2. ASSUME NEW c \in Callers,
             WriteFile(c) \/ UploadChunk(c) \/ UploadFails(c) \/ UploadDone(c) \/ ScrapLookup(c)
               \/ Tell(c) \/ Refuse(c)
      PROVE  workload' = workload /\ (~replaced' => ~replaced) /\ crashes' \in {crashes, crashes + 1}
  <2>1. UNCHANGED <<history, process>>
    BY <1>2, Zenon DEF WriteFile, UploadChunk, UploadFails, UploadDone, ScrapLookup, Tell, Refuse
  <2> QED BY <2>1 DEF process, history
<1>3. ASSUME NEW c \in Callers, DeleteFile(c) \/ ScrapDelete(c) \/ Share(c) \/ Unshare(c) PROVE workload' = workload /\ (~replaced' => ~replaced) /\ crashes' \in {crashes, crashes + 1}
  <2>1. UNCHANGED process /\ replaced' = replaced
    <3>1. \A i : Delete(i) => UNCHANGED <<replaced, process>>
      BY Zenon DEF Delete
    <3>2. DeleteFile(c) \/ ScrapDelete(c) => UNCHANGED <<replaced, process>>
      BY <3>1, Zenon DEF DeleteFile, ScrapDelete
    <3>3. Share(c) \/ Unshare(c) => UNCHANGED <<replaced, process>>
      BY Zenon DEF Share, Unshare
    <3> QED BY <1>3, <3>2, <3>3
  <2> QED BY <2>1 DEF process
<1>4. ASSUME NEW c \in Callers, TrashFile(c) \/ RestoreFile(c) PROVE workload' = workload /\ (~replaced' => ~replaced) /\ crashes' \in {crashes, crashes + 1}
  BY <1>4 DEF TrashFile, RestoreFile, Replace, process
<1>5. ASSUME NEW c \in Callers, CrashInside(c) PROVE workload' = workload /\ (~replaced' => ~replaced) /\ crashes' \in {crashes, crashes + 1}
  BY <1>5 DEF CrashInside, Restart, RestartFrom
<1>6. CASE Crash
  BY <1>6 DEF Crash, Restart, RestartFrom, history
<1>7. CASE SetQuota \/ HeartbeatFails \/ SendRegistration \/ Register \/ RegistrationFails
  BY <1>7 DEF SetQuota, SetUserQuota, HeartbeatFails, SendRegistration, Register, RegistrationFails, process, history
<1>8. ASSUME NEW c \in Callers, CreateFile(c) PROVE workload' = workload /\ (~replaced' => ~replaced) /\ crashes' \in {crashes, crashes + 1}
  <2>1. UNCHANGED process /\ replaced' = (replaced \/ req[c].name = aclFileName)
    BY <1>8 DEF CreateFile
  <2> QED BY <2>1 DEF process
<1> QED
  BY <1>1, <1>2, <1>3, <1>4, <1>5, <1>6, <1>7, <1>8, NextServes

\* Every step that replaces nothing keeps CoreInv.
LEMMA NextInv ==
    ASSUME CoreInv, workload \in Workloads, Next, ~replaced'
    PROVE  CoreInv'
<1>1. CASE \E c \in Callers : Send(c)
  BY <1>1, SendCore
<1>2. CASE \E c \in Callers : CreateFile(c)
  BY <1>2, CreateCore
<1>3. CASE \E c \in Callers : WriteFile(c)
  BY <1>3, WriteCore
<1>4. CASE \E c \in Callers : UploadChunk(c)
  BY <1>4, UploadCore
<1>5. CASE \E c \in Callers : UploadFails(c) \/ UploadDone(c) \/ ScrapLookup(c) \/ Tell(c) \/ Refuse(c)
  BY <1>5, QuietServe
<1>6. CASE \E c \in Callers : DeleteFile(c) \/ ScrapDelete(c)
  BY <1>6, DeletesCore
<1>7. CASE \E c \in Callers : TrashFile(c)
  BY <1>7, TrashCore
<1>8. CASE \E c \in Callers : RestoreFile(c)
  BY <1>8, RestoreCore
<1>9. CASE \E c \in Callers : Share(c) \/ Unshare(c)
  BY <1>9, ShareCore
<1>10. CASE \E c \in Callers : CrashInside(c)
  BY <1>10, CrashInsideCore
<1>11. CASE SetQuota
  BY <1>11, SetQuotaCore
<1>12. CASE HeartbeatFails \/ SendRegistration \/ Register \/ RegistrationFails
  BY <1>12, QuietSync
<1>13. CASE Crash
  BY <1>13, CrashCore
<1> QED
  BY <1>1, <1>2, <1>3, <1>4, <1>5, <1>6, <1>7, <1>8, <1>9, <1>10, <1>11, <1>12, <1>13, NextServes

\* Every reachable state of the fileserver, as long as no rename has replaced a
\* file and no client's file the .acl file of a directory, has a well-formed tree and index, a disk that matches memory, homes for
\* what is in the trash and well-formed requests.
THEOREM FileServerInvariant == Spec => []FileServerInv
<1>1. Init => FileServerInv
  <2>1. Init => workload \in Workloads /\ crashes = 0
    BY DEF Init
  <2>2. crashes = 0 => crashes \in Nat
    OBVIOUS
  <2> QED BY <2>1, <2>2, InitCore DEF FileServerInv
<1>2. FileServerInv /\ [Next]_vars => FileServerInv'
  <2> SUFFICES ASSUME FileServerInv, [Next]_vars PROVE FileServerInv'
    OBVIOUS
  <2>1. CASE Next
    <3>1. workload' = workload /\ (~replaced' => ~replaced) /\ crashes' \in {crashes, crashes + 1}
      BY <2>1, NextKeeps
    <3>2. ~replaced' => CoreInv'
      BY <2>1, <3>1, NextInv DEF FileServerInv
    <3>3. crashes' \in Nat
      BY <3>1 DEF FileServerInv
    <3>4. workload' \in Workloads
      BY <3>1 DEF FileServerInv
    <3> QED BY <3>2, <3>3, <3>4 DEF FileServerInv
  <2>2. CASE UNCHANGED vars
    <3>1. workload' = workload /\ crashes' = crashes /\ replaced' = replaced /\ Quiet /\ pc' = pc /\ req' = req
      BY <2>2 DEF vars, history, process, Quiet
    <3>2. ASSUME CoreInv PROVE CoreInv'
      <4>1. Requests
        BY <3>1, <3>2, QuietFacts, RequestsSame
      <4> QED BY <3>1, <3>2, <4>1, QuietFacts, QuietStep
    <3> QED BY <3>1, <3>2 DEF FileServerInv
  <2> QED BY <2>1, <2>2
<1> QED
  BY <1>1, <1>2, PTL DEF Spec

\* CoreInv gives the type invariant.
LEMMA CoreTypes ==
    ASSUME CoreInv
    PROVE  TypeOK
<1>1. TreeOK(inodes) /\ IndexOK(index) /\ disk.index = index /\ FilesOK(disk.files) /\ MetaOK(inodes, index, trashMeta)
  BY CoreFacts
<1>2. IsIndex(index) /\ IsIndex(disk.index)
  <2>1. index.next \in 0 .. MaxId /\ index.ids \in [DOMAIN index.ids -> 0 .. index.next - 1]
    BY <1>1 DEF IndexOK
  <2>2. \A p \in DOMAIN index.ids : index.ids[p] < index.next
    BY <2>1, FileServerAssumption
  <2> QED BY <1>1, <2>1, <2>2 DEF IsIndex
<1>3. \A p \in DOMAIN disk.files : disk.files[p] \in Entry
  BY <1>1 DEF FilesOK
<1>4. Live \subseteq Ids
  BY <1>1 DEF TreeOK, Live
<1>5. ASSUME NEW i \in Live
      PROVE  /\ inodes[i].type \in {"file", "dir"} /\ IsName(inodes[i].name)
             /\ inodes[i].kids \subseteq Ids /\ inodes[i].parent \in Ids
             /\ inodes[i].shared \subseteq Grantees /\ inodes[i].size \in Nat
  <2>1. inodes[i] \in InodeSet
    BY <1>1 DEF TreeOK, Live
  <2>2. /\ inodes[i].type \in {"file", "dir"} /\ inodes[i].name \in NameSet /\ inodes[i].parent \in Ids
        /\ inodes[i].kids \in SUBSET Ids /\ inodes[i].shared \in SUBSET Grantees /\ inodes[i].size \in Nat
    BY <2>1, InodeFields
  <2>3. IsName(inodes[i].name)
    BY <2>2 DEF NameSet, IsName
  <2> QED BY <2>2, <2>3
<1>6. DOMAIN trashMeta \subseteq Live
  BY <1>1 DEF MetaOK, Live
<1>7. retired \subseteq Ids
  BY DEF CoreInv
<1> QED
  BY <1>2, <1>3, <1>4, <1>5, <1>6, <1>7 DEF TypeOK

\* Memory and disk stay well formed, whatever the requests, the faults and the
\* crashes: what the handlers of fileserver.go and the startup scan rely on.
THEOREM FileServerTypes == Spec => []TypeOK
<1>1. FileServerInv => TypeOK
  BY CoreTypes DEF FileServerInv, TypeOK
<1> QED
  BY <1>1, FileServerInvariant, PTL

\* The inodes in memory are exactly the files on disk, at their paths, with
\* their types and the sizes of the files.
THEOREM FileServerDisk == Spec => []DiskMatchesMemory
<1>1. ASSUME CoreInv PROVE DiskMatchesMemory
  BY <1>1, CoreFacts DEF Match, DiskMatchesMemory, Live, Path
<1>2. FileServerInv => DiskMatchesMemory
  BY <1>1 DEF FileServerInv, DiskMatchesMemory
<1> QED
  BY <1>2, FileServerInvariant, PTL
=============================================================================
