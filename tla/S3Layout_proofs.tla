--------------------------- MODULE S3Layout_proofs ---------------------------
(***************************************************************************)
(* What s3_layout promises, for every set of names and aliases of any      *)
(* length: where the blobs of a run are and that its reference reaches     *)
(* them all (Layout), and what upload_verified promises of the file and    *)
(* its object, for files of any length, any number of attempts and any     *)
(* number of edits (UploadVerified).                                       *)
(***************************************************************************)
EXTENDS UploadVerified, Layout, SequenceTheorems, FiniteSetTheorems, TLAPS

-----------------------------------------------------------------------------
(* Layout: sequences *)

UpTo(kept, i) == {j \in kept : j <= i}

\* The places of s in kept are counted one by one: the k-th is the one with k of them up to it.
LEMMA PickedAt ==
    ASSUME NEW s, NEW n \in Nat, NEW kept \in SUBSET (1..n)
    PROVE  \A i \in kept, k \in 1..Cardinality(kept) :
              Cardinality(UpTo(kept, i)) = k => Picked(s, kept)[k] = s[i]
<1> SUFFICES ASSUME NEW i \in kept, NEW k \in 1..Cardinality(kept),
                    Cardinality(UpTo(kept, i)) = k
             PROVE  Picked(s, kept)[k] = s[i]
  OBVIOUS
<1>1. IsFiniteSet(kept)
  <2>1. 1 \in Int /\ n \in Int
    OBVIOUS
  <2>2. IsFiniteSet(1..n)
    BY <2>1, FS_Interval
  <2> QED
    BY <2>2, FS_Subset
<1>2. ASSUME NEW a \in kept, NEW b \in kept, a < b
      PROVE  Cardinality(UpTo(kept, a)) # Cardinality(UpTo(kept, b))
  <2>1. PICK A : A = UpTo(kept, a)
    OBVIOUS
  <2>2. PICK B : B = UpTo(kept, b)
    OBVIOUS
  <2>3. IsFiniteSet(B)
    BY <1>1, <2>2, FS_Subset DEF UpTo
  <2>4. a \in Int /\ b \in Int /\ \A j \in kept : j \in Int
    OBVIOUS
  <2>5. b \in B
    BY <2>2, <2>4 DEF UpTo
  <2>6. b \notin A
    BY <1>2, <2>1, <2>4 DEF UpTo
  <2>7. A \in SUBSET B
    <3>1. ASSUME NEW j \in A PROVE j \in B
      <4>1. j \in kept /\ j <= a
        BY <2>1 DEF UpTo
      <4>2. j <= b
        BY <1>2, <2>4, <4>1
      <4> QED
        BY <2>2, <4>1, <4>2 DEF UpTo
    <3> QED
      BY <3>1
  <2>8. A # B
    BY <2>5, <2>6
  <2>9. Cardinality(A) # Cardinality(B)
    BY <2>3, <2>7, <2>8, FS_Subset
  <2> QED
    BY <2>1, <2>2, <2>9
<1>3. ASSUME NEW b \in kept, Cardinality(UpTo(kept, b)) = k PROVE b = i
  <2>1. b \in Int /\ i \in Int
    OBVIOUS
  <2>2. b < i \/ i < b \/ b = i
    BY <2>1
  <2> QED
    BY <1>2, <1>3, <2>2
<1>4. (CHOOSE b \in kept : Cardinality(UpTo(kept, b)) = k) = i
  BY <1>3
<1> QED
  BY <1>4 DEF Picked, UpTo

\* There are i places up to the i-th.
LEMMA CountUpTo ==
    ASSUME NEW i, i \in Nat
    PROVE  IsFiniteSet(1..i) /\ Cardinality(1..i) = i
<1>1. 1 \in Int /\ i \in Int
  OBVIOUS
<1>2. IsFiniteSet(1..i) /\ Cardinality(1..i) = IF 1 > i THEN 0 ELSE i - 1 + 1
  BY <1>1, FS_Interval
<1> QED
  BY <1>2

\* The places of s that stay, in their order: m says which place of s the k-th of what was picked
\* had, and no place that stays is left out.
Order(m, kept) ==
    /\ m \in [1..Cardinality(kept) -> kept]
    /\ \A i \in kept : \E k \in 1..Cardinality(kept) : m[k] = i
    /\ \A k, l \in 1..Cardinality(kept) : k < l => m[k] < m[l]

\* What is picked from a string is its kept places, listed in increasing order.
LEMMA PickedInOrder ==
    ASSUME NEW n \in Nat, NEW kept \in SUBSET (1..n)
    PROVE  /\ Cardinality(kept) \in Nat
           /\ \E m : /\ Order(m, kept)
                    /\ \A s : Picked(s, kept) = [k \in 1..Cardinality(kept) |-> s[m[k]]]
<1>1. IsFiniteSet(kept) /\ \A i \in kept : i \in Int
  <2>1. 1 \in Int /\ n \in Int
    OBVIOUS
  <2>2. IsFiniteSet(1..n)
    BY <2>1, FS_Interval
  <2>3. IsFiniteSet(kept)
    BY <2>2, FS_Subset
  <2> QED
    BY <2>3
<1>2. PICK c \in Nat : c = Cardinality(kept)
  BY <1>1, FS_CardinalityType
<1>3. PICK r : r = [i \in kept |-> Cardinality(UpTo(kept, i))]
  OBVIOUS
<1>4. ASSUME NEW a \in kept, NEW b \in kept, a <= b
      PROVE  /\ r[a] \in 1..c /\ r[b] \in 1..c
             /\ r[a] <= r[b]
             /\ a # b => r[a] # r[b]
  <2>1. PICK A : A = UpTo(kept, a)
    OBVIOUS
  <2>2. PICK B : B = UpTo(kept, b)
    OBVIOUS
  <2>3. A \in SUBSET B /\ B \in SUBSET kept /\ a \in A /\ b \in B
    <3>1. a \in Int /\ b \in Int
      BY <1>1
    <3>2. \A j \in Int : j <= a => j <= b
      BY <1>4, <3>1
    <3>3. a <= a /\ b <= b
      BY <3>1
    <3>4. \A j \in A : j \in B
      BY <1>1, <2>1, <2>2, <3>2 DEF UpTo
    <3> QED
      BY <2>1, <2>2, <3>3, <3>4 DEF UpTo
  <2>4. IsFiniteSet(B) /\ IsFiniteSet(A)
    BY <1>1, <2>3, FS_Subset
  <2>5. Cardinality(A) \in Nat /\ Cardinality(B) \in Nat
    BY <2>4, FS_CardinalityType
  <2>6. Cardinality(A) <= Cardinality(B) /\ Cardinality(B) <= c
    BY <1>1, <1>2, <2>3, <2>4, FS_Subset
  <2>7. Cardinality(A) # 0 /\ Cardinality(B) # 0
    BY <2>3, <2>4, FS_EmptySet
  <2>8. a # b => Cardinality(A) # Cardinality(B)
    <3>1. ASSUME a # b PROVE b \notin A
      BY <1>1, <1>4, <2>1, <3>1 DEF UpTo
    <3> QED
      BY <2>3, <2>4, <3>1, FS_Subset
  <2>9. r[a] = Cardinality(A) /\ r[b] = Cardinality(B)
    BY <1>3, <2>1, <2>2
  <2> QED
    BY <2>5, <2>6, <2>7, <2>8, <2>9
<1>5. r \in Surjection(kept, 1..c)
  <2>1. \A i \in kept : r[i] \in 1..c
    BY <1>1, <1>4
  <2>2. r \in [kept -> 1..c]
    BY <1>3, <2>1
  <2>3. \A a, b \in kept : r[a] = r[b] => a = b
    <3>1. \A a, b \in kept : a <= b \/ b <= a
      BY <1>1
    <3> QED
      BY <1>4, <3>1
  <2>4. r \in Injection(kept, 1..c)
    BY <2>2, <2>3 DEF Injection, IsInjective
  <2>5. IsFiniteSet(1..c) /\ Cardinality(1..c) = c
    BY CountUpTo
  <2> QED
    BY <1>2, <2>4, <2>5, FS_Injection
<1>6. \A k \in 1..c : \E i \in kept : r[i] = k
  BY <1>5 DEF Surjection
<1>7. PICK m : m = [k \in 1..c |-> CHOOSE i \in kept : r[i] = k]
  OBVIOUS
<1>8. ASSUME NEW k \in 1..c PROVE m[k] \in kept /\ r[m[k]] = k
  BY <1>6, <1>7
<1>9. Order(m, kept)
  <2>1. m \in [1..c -> kept]
    BY <1>7, <1>8
  <2>2. ASSUME NEW i \in kept PROVE r[i] \in 1..c /\ m[r[i]] = i
    <3>1. r[i] \in 1..c
      BY <1>1, <1>4
    <3>2. PICK j : j = m[r[i]]
      OBVIOUS
    <3>3. j \in kept /\ r[j] = r[i]
      BY <1>8, <3>1, <3>2
    <3>4. j <= i \/ i <= j
      BY <1>1, <3>3
    <3> QED
      BY <1>4, <3>1, <3>2, <3>3, <3>4
  <2>3. ASSUME NEW k \in 1..c, NEW l \in 1..c, k < l PROVE m[k] < m[l]
    <3>1. PICK a \in kept : a = m[k] /\ r[a] = k
      BY <1>8
    <3>2. PICK b \in kept : b = m[l] /\ r[b] = l
      BY <1>8
    <3>3. ~(b <= a)
      <4>1. ASSUME b <= a PROVE l <= k
        BY <1>4, <3>1, <3>2, <4>1
      <4> QED
        BY <2>3, <4>1
    <3> QED
      BY <1>1, <3>1, <3>2, <3>3
  <2> QED
    BY <1>2, <2>1, <2>2, <2>3 DEF Order
<1>10. ASSUME NEW s PROVE Picked(s, kept) = [k \in 1..Cardinality(kept) |-> s[m[k]]]
  <2>1. ASSUME NEW k \in 1..c
        PROVE  (CHOOSE i \in kept : Cardinality(UpTo(kept, i)) = k) = m[k]
    <3>1. m[k] = CHOOSE i \in kept : r[i] = k
      BY <1>7
    <3>2. \A i \in kept : r[i] = Cardinality(UpTo(kept, i))
      BY <1>3
    <3>3. m[k] \in kept /\ Cardinality(UpTo(kept, m[k])) = k
      BY <1>8, <3>2
    <3>4. \A i \in kept : Cardinality(UpTo(kept, i)) = k => i = m[k]
      <4>1. ASSUME NEW i \in kept, Cardinality(UpTo(kept, i)) = k PROVE i = m[k]
        <5>1. r[i] = k /\ r[m[k]] = k
          BY <1>8, <3>2, <4>1
        <5>2. \A j \in kept : i <= j \/ j <= i
          BY <1>1
        <5> QED
          BY <1>4, <3>3, <5>1, <5>2, Zenon
      <4> QED
        BY <4>1
    <3> QED
      BY <3>3, <3>4
  <2>2. \A k \in 1..c : s[CHOOSE i \in kept : Cardinality(UpTo(kept, i)) = k] = s[m[k]]
    BY <2>1, Zenon
  <2>3. [k \in 1..c |-> s[CHOOSE i \in kept : Cardinality(UpTo(kept, i)) = k]]
           = [k \in 1..c |-> s[m[k]]]
    BY <2>2, Zenon
  <2> QED
    BY <1>2, <2>3, Zenon DEF Picked, UpTo
<1> QED
  BY <1>2, <1>9, <1>10

\* Without a newline nothing is dropped.
LEMMA NothingDropped ==
    ASSUME NEW S, NEW s \in Seq(S), NEW kept, \A i : i \in kept <=> i \in 1..Len(s)
    PROVE  Picked(s, kept) = s
<1>1. Len(s) \in Nat
  BY LenProperties
<1>2. Cardinality(kept) = Len(s)
  <2>1. kept = 1..Len(s)
    OBVIOUS
  <2> QED
    BY <1>1, <2>1, CountUpTo
<1>3. ASSUME NEW k \in 1..Len(s) PROVE Picked(s, kept)[k] = s[k]
  <2>1. PICK upTo : upTo = UpTo(kept, k)
    OBVIOUS
  <2>2. k \in Nat /\ k \in kept /\ upTo = 1..k
    BY <1>1, <2>1 DEF UpTo
  <2>3. Cardinality(upTo) = k
    BY <2>2, CountUpTo
  <2>4. k \in 1..Cardinality(kept)
    BY <1>2
  <2>5. \A i \in kept, m \in 1..Cardinality(kept) :
           Cardinality(UpTo(kept, i)) = m => Picked(s, kept)[m] = s[i]
    <3>1. kept \in SUBSET (1..Len(s))
      OBVIOUS
    <3> QED
      BY <1>1, <3>1, PickedAt
  <2> QED
    BY <2>1, <2>2, <2>3, <2>4, <2>5, Zenon
<1>4. Picked(s, kept) \in Seq(S) /\ Len(Picked(s, kept)) = Len(s)
  <2>1. PICK p : p = Picked(s, kept)
    OBVIOUS
  <2>2. p = [k \in 1..Len(s) |-> p[k]]
    BY <1>2, <2>1 DEF Picked
  <2>3. \A k \in 1..Len(s) : p[k] \in S
    BY <1>3, <2>1, ElementOfSeq
  <2>4. p \in [1..Len(s) -> S]
    BY <2>2, <2>3
  <2>5. p \in Seq(S) /\ Len(p) = Len(s)
    BY <1>1, <2>4
  <2> QED
    BY <2>1, <2>5
<1> QED
  BY <1>3, <1>4, SeqEqual

\* What is behind a newline that is dropped moves up.
LEMMA OneDropped ==
    ASSUME NEW S, NEW s \in Seq(S), NEW p \in 1..Len(s), NEW kept,
           \A i : i \in kept <=> i \in 1..Len(s) /\ i # p
    PROVE  /\ Picked(s, kept) \in Seq(S)
           /\ Len(Picked(s, kept)) = Len(s) - 1
           /\ \A k \in 1..(Len(s) - 1) : Picked(s, kept)[k] = IF k < p THEN s[k] ELSE s[k + 1]
<1>1. Len(s) \in Nat
  BY LenProperties
<1>2. Cardinality(kept) = Len(s) - 1
  <2>1. PICK all : all = 1..Len(s)
    OBVIOUS
  <2>2. kept = all \ {p} /\ p \in all
    BY <2>1
  <2>3. IsFiniteSet(all) /\ Cardinality(all) = Len(s)
    BY <1>1, <2>1, CountUpTo
  <2> QED
    BY <2>2, <2>3, FS_RemoveElement
<1>3. \A i \in kept, k \in 1..Cardinality(kept) :
         Cardinality(UpTo(kept, i)) = k => Picked(s, kept)[k] = s[i]
  <2>1. kept \in SUBSET (1..Len(s))
    OBVIOUS
  <2> QED
    BY <1>1, <2>1, PickedAt
<1>4. ASSUME NEW k \in 1..(Len(s) - 1), k < p PROVE Picked(s, kept)[k] = s[k]
  <2>1. PICK upTo : upTo = UpTo(kept, k)
    OBVIOUS
  <2>2. k \in Nat /\ k \in kept /\ upTo = 1..k
    BY <1>1, <1>4, <2>1 DEF UpTo
  <2>3. Cardinality(upTo) = k
    BY <2>2, CountUpTo
  <2>4. k \in 1..Cardinality(kept)
    BY <1>2
  <2> QED
    BY <1>3, <2>1, <2>2, <2>3, <2>4, Zenon
<1>5. ASSUME NEW k \in 1..(Len(s) - 1), ~(k < p) PROVE Picked(s, kept)[k] = s[k + 1]
  <2>1. PICK upTo : upTo = UpTo(kept, k + 1)
    OBVIOUS
  <2>2. PICK all : all = 1..(k + 1)
    OBVIOUS
  <2>3. k + 1 \in Nat /\ k + 1 \in kept /\ p \in all /\ upTo = all \ {p}
    BY <1>1, <1>5, <2>1, <2>2 DEF UpTo
  <2>4. IsFiniteSet(all) /\ Cardinality(all) = k + 1
    BY <2>2, <2>3, CountUpTo
  <2>5. Cardinality(all \ {p}) = Cardinality(all) - 1
    BY <2>3, <2>4, FS_RemoveElement
  <2>6. Cardinality(upTo) = k
    BY <2>3, <2>4, <2>5
  <2>7. k \in 1..Cardinality(kept)
    BY <1>2
  <2> QED
    BY <1>3, <2>1, <2>3, <2>6, <2>7, Zenon
<1>6. Picked(s, kept) \in Seq(S) /\ Len(Picked(s, kept)) = Len(s) - 1
  <2>1. PICK t : t = Picked(s, kept)
    OBVIOUS
  <2>2. t = [k \in 1..(Len(s) - 1) |-> t[k]]
    BY <1>2, <2>1 DEF Picked
  <2>3. \A k \in 1..Len(s) : s[k] \in S
    BY ElementOfSeq
  <2>4. ASSUME NEW k \in 1..(Len(s) - 1) PROVE t[k] \in S
    <3>1. k \in 1..Len(s) /\ k + 1 \in 1..Len(s)
      BY <1>1
    <3> QED
      BY <1>4, <1>5, <2>1, <2>3, <3>1
  <2>5. t \in [1..(Len(s) - 1) -> S]
    BY <2>2, <2>4
  <2>6. Len(s) - 1 \in Nat
    BY <1>1
  <2>7. t \in Seq(S) /\ Len(t) = Len(s) - 1
    BY <2>5, <2>6
  <2> QED
    BY <2>1, <2>7
<1> QED
  BY <1>4, <1>5, <1>6

-----------------------------------------------------------------------------
(* Layout: keys and prefixes *)

Symbols == Chars \cup Names \cup {"slash", "run", "newline"}

\* Aliases and relative paths are sequences of symbols.
LEMMA AliasesAreSequences == \A alias \in Aliases : alias \in Seq(Symbols)
<1>1. ASSUME NEW alias \in Aliases PROVE alias \in Seq(Symbols)
  <2>1. PICK n \in 0..MaxAlias : alias \in [1..n -> Chars]
    BY DEF Aliases
  <2>2. n \in Nat /\ alias \in [1..n -> Symbols]
    BY <2>1, LayoutAssumption DEF Symbols
  <2> QED
    BY <2>2
<1> QED
  BY <1>1

\* A relative path is a string.
LEMMA RelsAreSequences == \A rel \in Rels : rel \in Seq(Symbols)
<1>1. ASSUME NEW n \in Names PROVE <<n>> \in Seq(Symbols)
  BY DEF Symbols
<1>2. ASSUME NEW d \in Names, NEW n \in Names PROVE <<d, "slash", n>> \in Seq(Symbols)
  BY DEF Symbols
<1>3. ASSUME NEW rel \in Rels PROVE rel \in Seq(Symbols)
  <2>1. \/ \E n \in Names : rel = <<n>>
        \/ \E d, n \in Names : rel = <<d, "slash", n>>
    <3>1. CASE rel \in {<<n>> : n \in Names}
      BY <3>1
    <3>2. CASE rel \in {<<d, "slash", n>> : d, n \in Names}
      BY <3>2
    <3> QED
      BY <3>1, <3>2 DEF Rels
  <2> QED
    BY <1>1, <1>2, <2>1, Zenon
<1> QED
  BY <1>3

\* What is joined to a prefix comes behind it.
LEMMA JoinedBehind ==
    ASSUME NEW p, p \in Seq(Symbols), NEW r, r \in Seq(Symbols), NEW key, key = p \o r
    PROVE  /\ key \in Seq(Symbols)
           /\ Len(key) = Len(p) + Len(r)
           /\ \A i \in 1..(Len(p) + Len(r)) :
                 key[i] = IF i <= Len(p) THEN p[i] ELSE r[i - Len(p)]
BY ConcatProperties, Zenon

\* What is at which place of a run's prefix.
LEMMA PrefixPlaces ==
    ASSUME NEW alias, alias \in Seq(Symbols)
    PROVE  /\ RunPrefix(alias) \in Seq(Symbols)
           /\ Len(RunPrefix(alias)) = Len(alias) + 3
           /\ \A i \in 1..Len(alias) : RunPrefix(alias)[i] = alias[i]
           /\ RunPrefix(alias)[Len(alias) + 1] = "slash"
           /\ RunPrefix(alias)[Len(alias) + 2] = "run"
           /\ RunPrefix(alias)[Len(alias) + 3] = "slash"
<1>1. PICK tail : tail = <<"slash", "run", "slash">>
  OBVIOUS
<1>2. tail \in Seq(Symbols) /\ Len(tail) = 3
  BY <1>1 DEF Symbols
<1>3. tail[1] = "slash" /\ tail[2] = "run" /\ tail[3] = "slash"
  BY <1>1
<1>4. Len(alias) \in Nat
  BY LenProperties
<1>5. /\ alias \o tail \in Seq(Symbols)
      /\ Len(alias \o tail) = Len(alias) + 3
      /\ \A i \in 1..(Len(alias) + 3) :
            (alias \o tail)[i] = IF i <= Len(alias) THEN alias[i] ELSE tail[i - Len(alias)]
  <2>1. PICK both : both = alias \o tail
    OBVIOUS
  <2>2. /\ both \in Seq(Symbols)
        /\ Len(both) = Len(alias) + Len(tail)
        /\ \A i \in 1..(Len(alias) + Len(tail)) :
              both[i] = IF i <= Len(alias) THEN alias[i] ELSE tail[i - Len(alias)]
    BY <1>2, <2>1, JoinedBehind
  <2> QED
    BY <1>2, <2>1, <2>2
<1>6. RunPrefix(alias) = alias \o tail
  BY <1>1 DEF RunPrefix
<1>7. PICK n \in Nat : n = Len(alias)
  BY <1>4
<1>8. /\ (alias \o tail)[n + 1] = tail[1]
      /\ (alias \o tail)[n + 2] = tail[2]
      /\ (alias \o tail)[n + 3] = tail[3]
  BY <1>5, <1>7
<1>9. \A i \in 1..n : (alias \o tail)[i] = alias[i]
  BY <1>5, <1>7
<1> QED
  BY <1>3, <1>5, <1>6, <1>7, <1>8, <1>9

Leading(s, n) ==
    /\ \A i \in 1..n : s[i] = "slash"
    /\ n < Len(s) => s[n + 1] # "slash"

\* Nothing is stripped from the left of what begins with no slash.
LEMMA StrippedLeftKeeps ==
    ASSUME NEW S, NEW s \in Seq(S), Len(s) > 0, s[1] # "slash"
    PROVE  StrippedLeft(s) = s
<1>1. Len(s) \in Nat
  BY LenProperties
<1>2. Leading(s, 0)
  BY <1>1 DEF Leading
<1>3. PICK n : n = CHOOSE k \in 0..Len(s) : Leading(s, k)
  OBVIOUS
<1>4. n \in 0..Len(s) /\ Leading(s, n)
  <2>1. 0 \in 0..Len(s)
    BY <1>1
  <2> QED
    BY <1>2, <1>3, <2>1, Zenon
<1>5. n = 0
  BY <1>1, <1>4 DEF Leading
<1>6. StrippedLeft(s) = SubSeq(s, n + 1, Len(s))
  BY <1>3 DEF StrippedLeft, Leading
<1>7. SubSeq(s, 1, Len(s)) = s
  BY SubSeqFull
<1> QED
  BY <1>5, <1>6, <1>7

\* One slash is stripped from the right.
LEMMA StrippedRightTakesOne ==
    ASSUME NEW S, NEW s \in Seq(S), Len(s) > 1,
           s[Len(s)] = "slash", s[Len(s) - 1] # "slash"
    PROVE  StrippedRight(s) = SubSeq(s, 1, Len(s) - 1)
<1>1. Len(s) \in Nat
  BY LenProperties
<1>2. PICK n : n = CHOOSE k \in 0..Len(s) : /\ k > 0 => s[k] # "slash"
                                            /\ \A i \in (k + 1)..Len(s) : s[i] = "slash"
  OBVIOUS
<1>3. \E m \in 0..Len(s) : /\ m > 0 => s[m] # "slash"
                           /\ \A i \in (m + 1)..Len(s) : s[i] = "slash"
  <2>1. PICK m : m = Len(s) - 1
    OBVIOUS
  <2>2. m \in 0..Len(s) /\ s[m] # "slash"
    BY <1>1, <2>1
  <2>3. \A i \in (m + 1)..Len(s) : s[i] = "slash"
    BY <1>1, <2>1
  <2> QED
    BY <2>2, <2>3
<1>4. /\ n \in 0..Len(s)
      /\ n > 0 => s[n] # "slash"
      /\ \A i \in (n + 1)..Len(s) : s[i] = "slash"
  BY <1>2, <1>3
<1>5. n = Len(s) - 1
  BY <1>1, <1>4
<1> QED
  BY <1>2, <1>5 DEF StrippedRight

\* What a prefix looks like: no slash before it, one behind it.
PrefixLike(p) ==
    /\ p \in Seq(Symbols)
    /\ Len(p) > 2
    /\ p[1] # "slash"
    /\ p[Len(p) - 1] = "run"
    /\ p[Len(p)] = "slash"

\* The marker of such a prefix is directly below it.
LEMMA MarkerIsBelow ==
    ASSUME NEW p, PrefixLike(p)
    PROVE  StrippedRight(p) \o <<"slash", MarkerName>> = p \o <<MarkerName>>
<1>1. p \in Seq(Symbols) /\ Len(p) \in Nat /\ Len(p) > 2 /\ p[Len(p)] = "slash"
      /\ p[Len(p) - 1] # "slash"
  <2>1. p \in Seq(Symbols) /\ Len(p) > 2 /\ p[Len(p)] = "slash" /\ p[Len(p) - 1] = "run"
    BY DEF PrefixLike
  <2> QED
    BY <2>1, LenProperties
<1>2. PICK n \in Nat : n = Len(p)
  BY <1>1
<1>3. StrippedRight(p) = SubSeq(p, 1, n - 1)
  BY <1>1, <1>2, StrippedRightTakesOne
<1>4. PICK q : q = SubSeq(p, 1, n - 1)
  OBVIOUS
<1>5. q \in Seq(Symbols) /\ Len(q) = n - 1 /\ \A i \in 1..(n - 1) : q[i] = p[i]
  <2>1. /\ q \in Seq(Symbols)
        /\ Len(q) = IF 1 <= n - 1 THEN n - 1 - 1 + 1 ELSE 0
        /\ \A i \in 1..(n - 1 - 1 + 1) : q[i] = p[1 + i - 1]
    <3>1. /\ 1 \in 1..(Len(p) + 1)
          /\ n - 1 \in 0..Len(p)
      BY <1>1, <1>2
    <3> QED
      BY <1>1, <1>4, <3>1, SubSeqProperties
  <2> QED
    BY <1>1, <1>2, <2>1
<1>6. MarkerName \in Symbols /\ "slash" \in Symbols
  BY LayoutAssumption DEF Symbols
<1>7. PICK t : t = <<"slash", MarkerName>>
  OBVIOUS
<1>8. PICK u : u = <<MarkerName>>
  OBVIOUS
<1>9. /\ t \in Seq(Symbols) /\ Len(t) = 2 /\ t[1] = "slash" /\ t[2] = MarkerName
      /\ u \in Seq(Symbols) /\ Len(u) = 1 /\ u[1] = MarkerName
  BY <1>6, <1>7, <1>8
<1>10. /\ q \o t \in Seq(Symbols) /\ Len(q \o t) = n + 1
       /\ \A i \in 1..(n + 1) : (q \o t)[i] = IF i <= n - 1 THEN q[i] ELSE t[i - (n - 1)]
  <2>1. PICK both : both = q \o t
    OBVIOUS
  <2>2. /\ both \in Seq(Symbols)
        /\ Len(both) = Len(q) + Len(t)
        /\ \A i \in 1..(Len(q) + Len(t)) :
              both[i] = IF i <= Len(q) THEN q[i] ELSE t[i - Len(q)]
    <3>1. q \in Seq(Symbols) /\ t \in Seq(Symbols)
      BY <1>5, <1>9
    <3> QED
      BY <2>1, <3>1, JoinedBehind
  <2>3. Len(q) + Len(t) = n + 1
    BY <1>2, <1>5, <1>9
  <2> QED
    BY <1>5, <2>1, <2>2, <2>3
<1>11. /\ p \o u \in Seq(Symbols) /\ Len(p \o u) = n + 1
       /\ \A i \in 1..(n + 1) : (p \o u)[i] = IF i <= n THEN p[i] ELSE u[i - n]
  <2>1. PICK both : both = p \o u
    OBVIOUS
  <2>2. /\ both \in Seq(Symbols)
        /\ Len(both) = Len(p) + Len(u)
        /\ \A i \in 1..(Len(p) + Len(u)) :
              both[i] = IF i <= Len(p) THEN p[i] ELSE u[i - Len(p)]
    <3>1. p \in Seq(Symbols) /\ u \in Seq(Symbols)
      BY <1>1, <1>9
    <3> QED
      BY <2>1, <3>1, JoinedBehind
  <2>3. Len(p) = n /\ Len(u) = 1
    BY <1>2, <1>9
  <2> QED
    BY <2>1, <2>2, <2>3
<1>12. ASSUME NEW i \in 1..(n + 1) PROVE (q \o t)[i] = (p \o u)[i]
  <2>1. CASE i <= n - 1
    BY <1>5, <1>10, <1>11, <2>1
  <2>2. CASE i = n
    <3>1. (q \o t)[i] = t[1]
      BY <1>2, <1>10, <2>2
    <3>2. (p \o u)[i] = p[n]
      BY <1>2, <1>11, <2>2
    <3> QED
      BY <1>1, <1>2, <1>9, <3>1, <3>2
  <2>3. CASE i = n + 1
    <3>1. (q \o t)[i] = t[2]
      BY <1>2, <1>10, <2>3
    <3>2. (p \o u)[i] = u[1]
      BY <1>2, <1>11, <2>3
    <3> QED
      BY <1>9, <3>1, <3>2
  <2>4. i <= n - 1 \/ i = n \/ i = n + 1
    BY <1>2
  <2> QED
    BY <2>1, <2>2, <2>3, <2>4, Zenon
<1>13. q \o t = p \o u
  BY <1>10, <1>11, <1>12, SeqEqual
<1> QED
  BY <1>3, <1>4, <1>7, <1>8, <1>13

\* What the store accepts as an alias begins with a character that is kept and holds no other
\* newline than one at its end.
LEMMA SafeAliasShape ==
    ASSUME NEW alias, alias \in Seq(Symbols), SafeAlias(alias)
    PROVE  /\ Len(alias) \in Nat /\ Len(alias) > 0
           /\ alias[1] = "alnum"
           /\ \A i \in 1..Len(alias) :
                 alias[i] \in Safe \/ (alias[i] = "newline" /\ i = Len(alias) /\ i > 1)
<1>1. Len(alias) \in Nat /\ alias # <<>>
  BY LenProperties DEF SafeAlias
<1>2. Len(alias) > 0
  BY <1>1
<1>3. /\ alias[1] = "alnum"
      /\ \A i \in 2..Len(alias) :
            alias[i] \in Safe \/ (alias[i] = "newline" /\ i = Len(alias))
  BY DEF SafeAlias
<1>4. ASSUME NEW i \in 1..Len(alias)
      PROVE  alias[i] \in Safe \/ (alias[i] = "newline" /\ i = Len(alias) /\ i > 1)
  <2>1. CASE i = 1
    BY <1>3, <2>1 DEF Safe
  <2>2. CASE i # 1
    BY <1>1, <1>3, <2>2
  <2> QED
    BY <2>1, <2>2
<1> QED
  BY <1>1, <1>2, <1>3, <1>4

\* The prefix that a reader of the URI has: the one the files were uploaded to, unless the
\* newline at the end of the alias got lost.
LEMMA ParsedShape ==
    ASSUME NEW alias \in Aliases, SafeAlias(alias),
           NEW run, run = RunPrefix(alias),
           NEW parsed, parsed = ParsedKey(RunPrefix(alias))
    PROVE  /\ Parses(run)
           /\ PrefixLike(run)
           /\ PrefixLike(parsed)
           /\ ~Broken(alias) => parsed = run
           /\ Broken(alias) => \E i \in 1..Len(run) :
                                  i <= Len(parsed) /\ run[i] # parsed[i]
<1>1. alias \in Seq(Symbols)
  BY AliasesAreSequences
<1>2. PICK n : n = Len(alias)
  OBVIOUS
<1>3. /\ n \in Nat /\ n > 0 /\ alias[1] = "alnum"
      /\ \A i \in 1..n : alias[i] \in Safe \/ (alias[i] = "newline" /\ i = n /\ i > 1)
  BY <1>1, <1>2, SafeAliasShape
<1>4. /\ run \in Seq(Symbols) /\ Len(run) = n + 3
      /\ \A i \in 1..n : run[i] = alias[i]
      /\ run[n + 1] = "slash" /\ run[n + 2] = "run" /\ run[n + 3] = "slash"
  BY <1>1, <1>2, PrefixPlaces
<1>5. ASSUME NEW i \in 1..(n + 3)
      PROVE  /\ run[i] # "query"
             /\ run[i] = "newline" => i = n /\ n > 1 /\ alias[n] = "newline"
  <2>1. CASE i <= n
    <3>1. i \in 1..n /\ run[i] = alias[i]
      BY <1>3, <1>4, <2>1
    <3> QED
      BY <1>3, <3>1 DEF Safe
  <2>2. CASE i = n + 1 \/ i = n + 2 \/ i = n + 3
    BY <1>4, <2>2
  <2>3. i <= n \/ i = n + 1 \/ i = n + 2 \/ i = n + 3
    BY <1>3
  <2> QED
    BY <2>1, <2>2, <2>3
<1>6. Parses(run)
  BY <1>4, <1>5 DEF Parses
<1>7. run[1] = "alnum"
  BY <1>3, <1>4
<1>8. PrefixLike(run)
  <2>1. Len(run) - 1 = n + 2 /\ Len(run) > 2
    BY <1>3, <1>4
  <2> QED
    BY <1>4, <1>7, <2>1 DEF PrefixLike
<1>9. PICK kept : kept = {i \in 1..Len(run) : run[i] # "newline"}
  OBVIOUS
<1>10. PICK read : read = Picked(run, kept)
  OBVIOUS
<1>11. parsed = StrippedLeft(read)
  BY <1>9, <1>10 DEF ParsedKey
<1>12. CASE ~Broken(alias)
  <2>1. alias[n] # "newline"
    BY <1>2, <1>3, <1>12 DEF Broken
  <2>2. kept = 1..Len(run)
    BY <1>4, <1>5, <1>9, <2>1
  <2>3. read = run
    BY <1>4, <1>10, <2>2, NothingDropped
  <2>4. StrippedLeft(run) = run
    BY <1>3, <1>4, <1>7, StrippedLeftKeeps
  <2> QED
    BY <1>6, <1>8, <1>11, <1>12, <2>3, <2>4
<1>13. CASE Broken(alias)
  <2>1. alias[n] = "newline" /\ n > 1
    <3>1. alias[n] = "newline"
      BY <1>2, <1>13 DEF Broken
    <3> QED
      BY <1>3, <3>1
  <2>2. run[n] = "newline" /\ n \in 1..Len(run)
    BY <1>3, <1>4, <2>1
  <2>3. \A i : i \in kept <=> i \in 1..Len(run) /\ i # n
    BY <1>4, <1>5, <1>9, <2>2
  <2>4. /\ read \in Seq(Symbols)
        /\ Len(read) = Len(run) - 1
        /\ \A k \in 1..(Len(run) - 1) : read[k] = IF k < n THEN run[k] ELSE run[k + 1]
    BY <1>4, <1>10, <2>2, <2>3, OneDropped
  <2>5. Len(read) = n + 2
    BY <1>3, <1>4, <2>4
  <2>6. read[1] = "alnum"
    BY <1>3, <1>4, <1>7, <2>1, <2>4
  <2>7. read[n] = "slash" /\ read[n + 1] = "run" /\ read[n + 2] = "slash"
    <3>1. n \in 1..(Len(run) - 1) /\ n + 1 \in 1..(Len(run) - 1) /\ n + 2 \in 1..(Len(run) - 1)
      BY <1>3, <1>4
    <3>2. ~(n < n) /\ ~(n + 1 < n) /\ ~(n + 2 < n) /\ n + 1 + 1 = n + 2 /\ n + 2 + 1 = n + 3
      BY <1>3
    <3>3. read[n] = run[n + 1] /\ read[n + 1] = run[n + 1 + 1] /\ read[n + 2] = run[n + 2 + 1]
      BY <2>4, <3>1, <3>2
    <3> QED
      BY <1>4, <3>2, <3>3
  <2>8. parsed = read
    BY <1>3, <1>11, <2>4, <2>5, <2>6, StrippedLeftKeeps
  <2>9. PrefixLike(read)
    <3>1. Len(read) - 1 = n + 1 /\ Len(read) > 2
      BY <1>3, <2>1, <2>5
    <3> QED
      BY <2>4, <2>5, <2>6, <2>7, <3>1 DEF PrefixLike
  <2>10. n \in 1..Len(run) /\ n <= Len(read) /\ run[n] # read[n]
    BY <1>3, <2>2, <2>5, <2>7
  <2> QED
    BY <1>6, <1>8, <1>13, <2>8, <2>9, <2>10
<1> QED
  BY <1>12, <1>13

\* What is below a prefix has its own path back, and no two paths share a key.
OwnKeys(p) ==
    \A rel \in Rels : /\ Seqs!IsPrefix(p, p \o rel)
                      /\ SubSeq(p \o rel, Len(p) + 1, Len(p \o rel)) = rel
                      /\ \A other \in Rels : p \o rel = p \o other => rel = other

\* Below a prefix no two relative paths have one key, and each key gives its path back.
LEMMA KeysAreOwn ==
    ASSUME NEW p, p \in Seq(Symbols)
    PROVE  OwnKeys(p)
<1> SUFFICES ASSUME NEW rel \in Rels
             PROVE  /\ Seqs!IsPrefix(p, p \o rel)
                    /\ SubSeq(p \o rel, Len(p) + 1, Len(p \o rel)) = rel
                    /\ \A other \in Rels : p \o rel = p \o other => rel = other
  BY DEF OwnKeys
<1>1. rel \in Seq(Symbols)
  BY RelsAreSequences
<1>2. PICK m : m = Len(p)
  OBVIOUS
<1>3. PICK n : n = Len(rel)
  OBVIOUS
<1>4. m \in Nat /\ n \in Nat
  BY <1>1, <1>2, <1>3, LenProperties
<1>5. PICK key : key = p \o rel
  OBVIOUS
<1>6. /\ key \in Seq(Symbols) /\ Len(key) = m + n
      /\ \A i \in 1..(m + n) : key[i] = IF i <= m THEN p[i] ELSE rel[i - m]
  <2>1. /\ key \in Seq(Symbols) /\ Len(key) = Len(p) + Len(rel)
        /\ \A i \in 1..(Len(p) + Len(rel)) :
              key[i] = IF i <= Len(p) THEN p[i] ELSE rel[i - Len(p)]
    BY <1>1, <1>5, JoinedBehind
  <2> QED
    BY <1>2, <1>3, <2>1, Zenon
<1>7. \A i \in 1..(m + n) : key[i] \in Symbols
  BY <1>6, ElementOfSeq
<1>8. SubSeq(key, 1, m) = p
  <2>1. PICK q : q = SubSeq(key, 1, m)
    OBVIOUS
  <2>2. 1 \in Int /\ m \in Int /\ \A i \in 1..m : key[i] \in Symbols
    BY <1>4, <1>7
  <2>3. /\ q \in Seq(Symbols)
        /\ Len(q) = IF 1 <= m THEN m - 1 + 1 ELSE 0
        /\ \A i \in 1..(m - 1 + 1) : q[i] = key[1 + i - 1]
    BY <2>1, <2>2, SubSeqProperties
  <2>4. Len(q) = Len(p)
    BY <1>2, <1>4, <2>3
  <2>5. \A i \in 1..Len(q) : q[i] = p[i]
    BY <1>2, <1>4, <1>6, <2>3, <2>4
  <2> QED
    BY <2>1, <2>3, <2>4, <2>5, SeqEqual
<1>9. SubSeq(key, m + 1, m + n) = rel
  <2>1. PICK q : q = SubSeq(key, m + 1, m + n)
    OBVIOUS
  <2>2. m + 1 \in Int /\ m + n \in Int /\ \A i \in (m + 1)..(m + n) : key[i] \in Symbols
    BY <1>4, <1>7
  <2>3. /\ q \in Seq(Symbols)
        /\ Len(q) = IF m + 1 <= m + n THEN (m + n) - (m + 1) + 1 ELSE 0
        /\ \A i \in 1..((m + n) - (m + 1) + 1) : q[i] = key[(m + 1) + i - 1]
    BY <2>1, <2>2, SubSeqProperties
  <2>4. Len(q) = n /\ (m + n) - (m + 1) + 1 = n
    BY <1>4, <2>3
  <2>5. ASSUME NEW i \in 1..n PROVE q[i] = rel[i]
    <3>1. (m + 1) + i - 1 = m + i /\ m + i \in 1..(m + n) /\ ~(m + i <= m) /\ (m + i) - m = i
      BY <1>4
    <3>2. q[i] = key[m + i]
      BY <2>3, <2>4, <3>1
    <3> QED
      BY <1>6, <3>1, <3>2
  <2> QED
    BY <1>1, <1>3, <2>1, <2>3, <2>4, <2>5, SeqEqual
<1>10. Seqs!IsPrefix(p, key)
  <2>1. SubSeq(p, 1, Len(p)) = p
    BY SubSeqFull
  <2>2. Len(p) <= Len(key)
    BY <1>2, <1>4, <1>6
  <2> QED
    BY <1>2, <1>8, <2>1, <2>2 DEF Seqs!IsPrefix
<1>11. ASSUME NEW other \in Rels, p \o rel = p \o other PROVE rel = other
  <2>1. other \in Seq(Symbols)
    BY RelsAreSequences
  <2>2. \A S : \A s, t, v \in Seq(S) : s \o t = s \o v => t = v
    BY ConcatSimplifications
  <2> QED
    BY <1>1, <1>11, <2>1, <2>2, Zenon
<1> QED
  BY <1>2, <1>5, <1>6, <1>9, <1>10, <1>11

\* What differs from a prefix within it is not below it.
LEMMA KeysAreApart ==
    ASSUME NEW p, p \in Seq(Symbols), NEW q, q \in Seq(Symbols),
           NEW i \in 1..Len(p), i <= Len(q), p[i] # q[i], NEW rel \in Rels
    PROVE  ~Seqs!IsPrefix(q, p \o rel)
<1>1. rel \in Seq(Symbols)
  BY RelsAreSequences
<1>2. PICK m : m = Len(p)
  OBVIOUS
<1>3. PICK n : n = Len(rel)
  OBVIOUS
<1>4. m \in Nat /\ n \in Nat /\ Len(q) \in Nat /\ i \in 1..m
  BY <1>1, <1>2, <1>3, LenProperties
<1>5. PICK key : key = p \o rel
  OBVIOUS
<1>6. /\ key \in Seq(Symbols) /\ Len(key) = m + n
      /\ \A j \in 1..(m + n) : key[j] = IF j <= m THEN p[j] ELSE rel[j - m]
  <2>1. /\ key \in Seq(Symbols) /\ Len(key) = Len(p) + Len(rel)
        /\ \A j \in 1..(Len(p) + Len(rel)) :
              key[j] = IF j <= Len(p) THEN p[j] ELSE rel[j - Len(p)]
    BY <1>1, <1>5, JoinedBehind
  <2> QED
    BY <1>2, <1>3, <2>1, Zenon
<1>7. key[i] = p[i]
  BY <1>4, <1>6
<1>8. SUFFICES ASSUME Seqs!IsPrefix(q, key) PROVE FALSE
  BY <1>5
<1>9. Len(q) <= Len(key) /\ SubSeq(q, 1, Len(q)) = SubSeq(key, 1, Len(q))
  BY <1>8 DEF Seqs!IsPrefix
<1>10. SubSeq(q, 1, Len(q)) = q
  BY SubSeqFull
<1>11. SubSeq(key, 1, Len(q))[i] = key[i]
  <2>1. PICK l : l = Len(q)
    OBVIOUS
  <2>2. 1 \in Int /\ l \in Int
    BY <1>4, <2>1
  <2>3. \A j \in 1..l : key[j] \in Symbols
    BY <1>4, <1>6, <1>9, <2>1, ElementOfSeq
  <2>4. \A j \in 1..(l - 1 + 1) : SubSeq(key, 1, l)[j] = key[1 + j - 1]
    BY <2>2, <2>3, SubSeqProperties
  <2>5. i \in 1..(l - 1 + 1) /\ 1 + i - 1 = i
    BY <1>4, <2>1
  <2> QED
    BY <2>1, <2>4, <2>5
<1> QED
  BY <1>7, <1>9, <1>10, <1>11

-----------------------------------------------------------------------------
(* Layout: the inductive invariant *)

Run    == RunPrefix(entry.alias)
Parsed == ParsedKey(Run)
Marker == Object(MarkerKey(Parsed), HoldOrigin)

EntryRecord == [pc : EntryPCs, alias : Aliases, paths : PathsSet, held : BOOLEAN,
                restored : SUBSET [rel : Rels, from : Origins]]

LayoutInv ==
    /\ LayoutTypeOK
    /\ entry \in EntryRecord
    /\ entry.pc \notin {"called", "rejected"} => SafeAlias(entry.alias)
    /\ entry.pc \in {"called", "rejected", "planning", "refused"} => stored = {} /\ ~entry.held
    /\ \A o \in stored : \/ \E f \in Files : o = Object(KeyOf(f), f)
                         \/ entry.held /\ o = Marker
    /\ entry.pc \in {"logged", "downloaded", "raised"} =>
          /\ entry.held => Marker \in stored
          /\ \A f \in Files : \/ Object(KeyOf(f), f) \in stored
                              \/ entry.held /\ ~Broken(entry.alias) /\ f.rel = <<MarkerName>>
    /\ ReferencesReach

\* How the run's prefix and the one in the URI lie to each other.
Placed ==
    /\ Parses(Run)
    /\ OwnKeys(Run) /\ OwnKeys(Parsed)
    /\ MarkerKey(Parsed) = Parsed \o <<MarkerName>>
    /\ StrippedRight(Run) \o <<"slash", MarkerName>> = Run \o <<MarkerName>>
    /\ ~Broken(entry.alias) => Parsed = Run
    /\ Broken(entry.alias) => \A rel \in Rels : ~Seqs!IsPrefix(Parsed, Run \o rel)

\* The prefix that a reader has from the URI of an accepted alias is known.
LEMMA AcceptedIsPlaced ==
    ASSUME entry \in EntryRecord, SafeAlias(entry.alias)
    PROVE  Placed
<1>1. entry.alias \in Aliases
  BY DEF EntryRecord
<1>2. PICK run : run = Run
  OBVIOUS
<1>3. PICK parsed : parsed = Parsed
  OBVIOUS
<1>4. /\ Parses(run)
      /\ PrefixLike(run) /\ PrefixLike(parsed)
      /\ ~Broken(entry.alias) => parsed = run
      /\ Broken(entry.alias) => \E i \in 1..Len(run) :
                                   i <= Len(parsed) /\ run[i] # parsed[i]
  BY <1>1, <1>2, <1>3, ParsedShape DEF Run, Parsed
<1>5. run \in Seq(Symbols) /\ parsed \in Seq(Symbols)
  BY <1>4 DEF PrefixLike
<1>6. OwnKeys(run) /\ OwnKeys(parsed)
  BY <1>5, KeysAreOwn
<1>7. /\ MarkerKey(parsed) = parsed \o <<MarkerName>>
      /\ StrippedRight(run) \o <<"slash", MarkerName>> = run \o <<MarkerName>>
  BY <1>4, MarkerIsBelow DEF MarkerKey
<1>8. Broken(entry.alias) => \A rel \in Rels : ~Seqs!IsPrefix(parsed, run \o rel)
  BY <1>4, <1>5, KeysAreApart
<1> QED
  BY <1>2, <1>3, <1>4, <1>6, <1>7, <1>8 DEF Placed

\* The files of the call and the marker's have a path of their own.
LEMMA FilesHaveRels ==
    /\ \A f \in Files : f \in Origins /\ f.rel \in Rels /\ KeyOf(f) = Run \o f.rel
    /\ HoldOrigin \in Origins /\ <<MarkerName>> \in Rels
<1>1. <<MarkerName>> \in Rels
  BY LayoutAssumption DEF Rels
<1>2. HoldOrigin \in Origins
  BY <1>1, LayoutAssumption DEF HoldOrigin, Origins
<1>3. ASSUME NEW f \in Files PROVE f \in Origins /\ f.rel \in Rels /\ KeyOf(f) = Run \o f.rel
  BY DEF Files, Origins, KeyOf, Run
<1> QED
  BY <1>1, <1>2, <1>3

\* What the call was given stays what it is.
Given == entry'.alias = entry.alias /\ entry'.paths = entry.paths

\* While alias and artifacts stay, so do the files, their keys and the marker's.
LEMMA GivenStays ==
    ASSUME Given
    PROVE  /\ Files' = Files
           /\ Marker' = Marker
           /\ \A f : KeyOf(f)' = KeyOf(f)
<1>1. Files' = Files
  BY DEF Given, Files
<1>2. Parsed' = Parsed
  BY DEF Given, Parsed, Run
<1>3. Marker' = Marker
  BY <1>2 DEF Marker
<1>4. \A f : KeyOf(f)' = KeyOf(f)
  BY DEF Given, KeyOf
<1> QED
  BY <1>1, <1>3, <1>4

\* Before the call there is nothing in the bucket.
LEMMA LayoutInitially == LayoutInit => LayoutInv
<1> SUFFICES ASSUME LayoutInit PROVE LayoutInv
  OBVIOUS
<1>1. PICK alias \in Aliases, paths \in PathsSet :
         entry = [pc |-> "called", alias |-> alias, paths |-> paths, held |-> FALSE,
                  restored |-> {}]
  BY DEF LayoutInit
<1>2. stored = {}
  BY DEF LayoutInit
<1>3. entry \in EntryRecord
  BY <1>1 DEF EntryRecord, EntryPCs
<1>4. entry.pc = "called" /\ ~entry.held /\ entry.restored = {}
  BY <1>1
<1>5. LayoutTypeOK
  BY <1>2, <1>3, <1>4 DEF LayoutTypeOK, EntryRecord
<1>6. ReferencesReach
  BY <1>4 DEF ReferencesReach
<1> QED
  BY <1>2, <1>3, <1>4, <1>5, <1>6 DEF LayoutInv

\* Checking the alias keeps the invariant.
LEMMA ValidateKeeps == LayoutInv /\ Validate => LayoutInv'
<1> SUFFICES ASSUME LayoutInv, Validate PROVE LayoutInv'
  OBVIOUS
<1>1. entry \in EntryRecord /\ stored = {} /\ ~entry.held
  BY DEF LayoutInv, Validate
<1>2. /\ entry' \in EntryRecord
      /\ entry'.pc \in {"planning", "rejected"}
      /\ entry'.pc = "planning" => SafeAlias(entry.alias)
      /\ entry'.held = entry.held /\ entry'.restored = entry.restored
      /\ Given
  BY <1>1 DEF Validate, EntryRecord, EntryPCs, Given
<1>3. stored' = {}
  BY <1>1 DEF Validate
<1>4. LayoutTypeOK'
  BY <1>2, <1>3 DEF LayoutTypeOK, EntryRecord
<1>5. ReferencesReach'
  BY <1>2 DEF ReferencesReach
<1>6. entry'.alias = entry.alias
  BY <1>2 DEF Given
<1> QED
  BY <1>1, <1>2, <1>3, <1>4, <1>5, <1>6 DEF LayoutInv

\* After the upload the bucket has an object for every file, and nothing else.
LEMMA UploadKeeps == LayoutInv /\ UploadArtifacts => LayoutInv'
<1> SUFFICES ASSUME LayoutInv, UploadArtifacts PROVE LayoutInv'
  OBVIOUS
<1>1. /\ entry \in EntryRecord /\ stored = {} /\ ~entry.held
      /\ SafeAlias(entry.alias)
  BY DEF LayoutInv, UploadArtifacts
<1>2. CASE entry' = [entry EXCEPT !.pc = "refused"] /\ stored' = stored
  <2>1. /\ entry' \in EntryRecord /\ entry'.pc = "refused"
        /\ entry'.held = entry.held /\ Given
    BY <1>1, <1>2 DEF EntryRecord, EntryPCs, Given
  <2>2. LayoutTypeOK'
    BY <1>1, <1>2, <2>1 DEF LayoutTypeOK, EntryRecord
  <2>3. ReferencesReach'
    BY <2>1 DEF ReferencesReach
  <2>4. entry'.alias = entry.alias
    BY <2>1 DEF Given
  <2> QED
    BY <1>1, <1>2, <2>1, <2>2, <2>3, <2>4 DEF LayoutInv
<1>3. CASE /\ ~Collides
           /\ entry' = [entry EXCEPT !.pc = "logged"]
           /\ stored' = {Object(KeyOf(f), f) : f \in
                           {g \in Files : \A h \in Files : KeyOf(h) = KeyOf(g) => h.path <= g.path}}
  <2>1. /\ entry' \in EntryRecord /\ entry'.pc = "logged"
        /\ entry'.held = entry.held /\ Given
    BY <1>1, <1>3 DEF EntryRecord, EntryPCs, Given
  <2>2. Files' = Files /\ \A f : KeyOf(f)' = KeyOf(f)
    BY <2>1, GivenStays
  <2>3. ASSUME NEW f \in Files PROVE Object(KeyOf(f), f) \in stored'
    <3>1. \A h \in Files : KeyOf(h) = KeyOf(f) => h = f
      BY <1>3 DEF Collides
    <3>2. f.path <= f.path
      BY FilesHaveRels, LayoutAssumption DEF Origins
    <3> QED
      BY <1>3, <3>1, <3>2
  <2>4. ASSUME NEW o \in stored' PROVE \E f \in Files : o = Object(KeyOf(f), f)
    BY <1>3
  <2>5. ASSUME NEW o \in stored' PROVE o.from \in Origins
    BY <2>4, FilesHaveRels DEF Object
  <2>6. LayoutTypeOK'
    BY <1>1, <2>1, <2>5 DEF LayoutTypeOK, EntryRecord
  <2>7. ReferencesReach'
    BY <2>1 DEF ReferencesReach
  <2>8. entry'.alias = entry.alias
    BY <2>1 DEF Given
  <2>9. \A o \in stored' : \E f \in Files' : o = Object(KeyOf(f)', f)
    BY <2>2, <2>4
  <2>10. \A f \in Files' : Object(KeyOf(f)', f) \in stored'
    BY <2>2, <2>3
  <2> QED
    BY <1>1, <2>1, <2>6, <2>7, <2>8, <2>9, <2>10 DEF LayoutInv, Object
<1> QED
  BY <1>2, <1>3, Zenon DEF UploadArtifacts

\* A hold adds its marker and overwrites an artifact only where the keys are equal.
LEMMA HoldKeeps == LayoutInv /\ Hold => LayoutInv'
<1> SUFFICES ASSUME LayoutInv, Hold PROVE LayoutInv'
  OBVIOUS
<1>1. /\ entry \in EntryRecord /\ entry.pc = "logged" /\ ~entry.held
      /\ SafeAlias(entry.alias)
      /\ LayoutTypeOK
  BY DEF LayoutInv, Hold
<1>2. Placed
  BY <1>1, AcceptedIsPlaced
<1>3. /\ entry' \in EntryRecord /\ entry'.pc = "logged" /\ entry'.held
      /\ entry'.restored = entry.restored /\ Given
  BY <1>1 DEF Hold, EntryRecord, Given
<1>4. Files' = Files /\ Marker' = Marker /\ \A f : KeyOf(f)' = KeyOf(f)
  BY <1>3, GivenStays
<1>5. stored' = {o \in stored : o.key # Marker.key} \cup {Marker}
  BY DEF Hold, Marker, Object, Parsed, Run
<1>6. Marker.key = Parsed \o <<MarkerName>> /\ Marker.from = HoldOrigin
  BY <1>2 DEF Marker, Object, Placed
<1>7. ASSUME NEW f \in Files
      PROVE  \/ Object(KeyOf(f), f) \in stored'
             \/ ~Broken(entry.alias) /\ f.rel = <<MarkerName>>
  <2>1. Object(KeyOf(f), f) \in stored
    BY <1>1 DEF LayoutInv
  <2>2. CASE KeyOf(f) # Marker.key
    BY <1>5, <2>1, <2>2 DEF Object
  <2>3. CASE KeyOf(f) = Marker.key
    <3>1. Run \o f.rel = Parsed \o <<MarkerName>> /\ f.rel \in Rels /\ <<MarkerName>> \in Rels
      BY <1>6, <2>3, FilesHaveRels
    <3>2. ~Broken(entry.alias)
      <4>1. Seqs!IsPrefix(Parsed, Parsed \o <<MarkerName>>)
        BY <1>2, <3>1 DEF Placed, OwnKeys
      <4> QED
        BY <1>2, <3>1, <4>1, Zenon DEF Placed
    <3>3. Parsed = Run
      BY <1>2, <3>2 DEF Placed
    <3>4. f.rel = <<MarkerName>>
      BY <1>2, <3>1, <3>3 DEF Placed, OwnKeys
    <3> QED
      BY <3>2, <3>4
  <2> QED
    BY <2>2, <2>3
<1>8. \A o \in stored' : \/ \E f \in Files' : o = Object(KeyOf(f)', f)
                         \/ o = Marker'
  BY <1>1, <1>4, <1>5 DEF LayoutInv
<1>9. Marker' \in stored'
  BY <1>4, <1>5
<1>10. LayoutTypeOK'
  <2>1. \A o \in stored' : o.from \in Origins
    BY <1>1, <1>5, <1>6, FilesHaveRels DEF LayoutTypeOK
  <2> QED
    BY <1>3, <2>1 DEF LayoutTypeOK, EntryRecord
<1>11. ReferencesReach'
  BY <1>3 DEF ReferencesReach
<1>12. SafeAlias(entry'.alias) /\ entry'.alias = entry.alias
  BY <1>1, <1>3 DEF Given
<1>13. \A f \in Files' : \/ Object(KeyOf(f)', f) \in stored'
                         \/ ~Broken(entry'.alias) /\ f.rel = <<MarkerName>>
  BY <1>4, <1>7, <1>12
<1> QED
  BY <1>3, <1>8, <1>9, <1>10, <1>11, <1>12, <1>13 DEF LayoutInv, Object

\* What a reader of the URI finds: all there is, unless the alias is broken, and everything under
\* its own path.
Found(o) == o \in stored /\ o.key \in Listed

\* What a listing by the URI finds is the run's, and is all of it unless the alias is broken.
LEMMA FoundIsOwn ==
    ASSUME LayoutInv, Placed
    PROVE  /\ ~Broken(entry.alias) => \A o \in stored : Found(o)
           /\ \A o : Found(o) =>
                 \/ \E f \in Files :
                       /\ o = Object(KeyOf(f), f)
                       /\ ~Broken(entry.alias)
                       /\ SubSeq(o.key, Len(Parsed) + 1, Len(o.key)) = f.rel
                 \/ /\ entry.held
                    /\ o = Marker
                    /\ SubSeq(o.key, Len(Parsed) + 1, Len(o.key)) = <<MarkerName>>
<1>1. \A o \in stored : \/ \E f \in Files : o = Object(KeyOf(f), f)
                        \/ entry.held /\ o = Marker
  BY DEF LayoutInv
<1>2. \A o \in stored : Found(o) <=> Seqs!IsPrefix(Parsed, o.key)
  BY DEF Found, Listed, Parsed, Run
<1>3. Marker.key = Parsed \o <<MarkerName>> /\ <<MarkerName>> \in Rels
  BY FilesHaveRels DEF Marker, Object, Placed
<1>4. /\ Seqs!IsPrefix(Parsed, Marker.key)
      /\ SubSeq(Marker.key, Len(Parsed) + 1, Len(Marker.key)) = <<MarkerName>>
  BY <1>3 DEF Placed, OwnKeys
<1>5. ASSUME NEW f \in Files, NEW o, o = Object(KeyOf(f), f)
      PROVE  /\ ~Broken(entry.alias) =>
                  /\ Seqs!IsPrefix(Parsed, o.key)
                  /\ SubSeq(o.key, Len(Parsed) + 1, Len(o.key)) = f.rel
             /\ Broken(entry.alias) => ~Seqs!IsPrefix(Parsed, o.key)
  <2>1. o.key = Run \o f.rel /\ f.rel \in Rels
    BY <1>5, FilesHaveRels DEF Object
  <2>2. CASE ~Broken(entry.alias)
    <3>1. Parsed = Run
      BY <2>2 DEF Placed
    <3>2. /\ Seqs!IsPrefix(Run, Run \o f.rel)
          /\ SubSeq(Run \o f.rel, Len(Run) + 1, Len(Run \o f.rel)) = f.rel
      BY <2>1 DEF Placed, OwnKeys
    <3> QED
      BY <2>1, <2>2, <3>1, <3>2
  <2>3. CASE Broken(entry.alias)
    BY <2>1, <2>3 DEF Placed
  <2> QED
    BY <2>2, <2>3
<1>6. ASSUME ~Broken(entry.alias), NEW o \in stored PROVE Found(o)
  BY <1>1, <1>2, <1>4, <1>5, <1>6
<1>7. ASSUME NEW o, Found(o)
      PROVE  \/ \E f \in Files :
                       /\ o = Object(KeyOf(f), f)
                       /\ ~Broken(entry.alias)
                       /\ SubSeq(o.key, Len(Parsed) + 1, Len(o.key)) = f.rel
             \/ /\ entry.held
                /\ o = Marker
                /\ SubSeq(o.key, Len(Parsed) + 1, Len(o.key)) = <<MarkerName>>
  <2>1. o \in stored /\ Seqs!IsPrefix(Parsed, o.key)
    BY <1>2, <1>7 DEF Found
  <2> QED
    BY <1>1, <1>4, <1>5, <2>1
<1> QED
  BY <1>6, <1>7

\* A purge takes what a listing by the URI finds.
LEMMA PurgeKeeps == LayoutInv /\ Purge => LayoutInv'
<1> SUFFICES ASSUME LayoutInv, Purge PROVE LayoutInv'
  OBVIOUS
<1>1. /\ entry \in EntryRecord /\ entry.pc = "logged"
      /\ SafeAlias(entry.alias)
      /\ LayoutTypeOK
  BY DEF LayoutInv, Purge
<1>2. Placed
  BY <1>1, AcceptedIsPlaced
<1>3. /\ entry' = [entry EXCEPT !.pc = "purged"]
      /\ stored' = {o \in stored : o.key \notin Listed}
  BY <1>2 DEF Purge, Placed, Run
<1>4. /\ entry' \in EntryRecord /\ entry'.pc = "purged" /\ entry'.held = entry.held
      /\ entry'.restored = entry.restored /\ Given
  BY <1>1, <1>3 DEF EntryRecord, EntryPCs, Given
<1>5. Files' = Files /\ Marker' = Marker /\ \A f : KeyOf(f)' = KeyOf(f)
  BY <1>4, GivenStays
<1>6. entry'.alias = entry.alias
  BY <1>4 DEF Given
<1>7. ~Broken(entry.alias) => stored' = {}
  <2>1. ~Broken(entry.alias) => \A o \in stored : o.key \in Listed
    BY <1>2, FoundIsOwn DEF Found
  <2> QED
    BY <1>3, <2>1
<1>8. ReferencesReach'
  BY <1>4, <1>6, <1>7 DEF ReferencesReach
<1>9. LayoutTypeOK'
  BY <1>1, <1>3, <1>4 DEF LayoutTypeOK, EntryRecord
<1>10. \A o \in stored' : \/ \E f \in Files' : o = Object(KeyOf(f)', f)
                          \/ entry'.held /\ o = Marker'
  BY <1>3, <1>4, <1>5 DEF LayoutInv
<1> QED
  BY <1>1, <1>4, <1>6, <1>8, <1>9, <1>10 DEF LayoutInv, Object

\* The path that download_prefix gives an object.
RelOf(o) == SubSeq(o.key, Len(Parsed) + 1, Len(o.key))

\* More paths obstruct no less.
LEMMA MoreObstructs ==
    ASSUME NEW rels, NEW more, rels \subseteq more, Obstructed(rels)
    PROVE  Obstructed(more)
BY DEF Obstructed

\* A download restores what a listing by the URI finds, each file under its own path.
LEMMA DownloadKeeps == LayoutInv /\ Download => LayoutInv'
<1> SUFFICES ASSUME LayoutInv, Download PROVE LayoutInv'
  OBVIOUS
<1>1. /\ entry \in EntryRecord /\ entry.pc = "logged"
      /\ SafeAlias(entry.alias)
      /\ LayoutTypeOK
  BY DEF LayoutInv, Download
<1>2. Placed
  BY <1>1, AcceptedIsPlaced
<1>3. PICK got : got = {o \in stored : o.key \in Listed}
  OBVIOUS
<1>4. \A o : o \in got <=> Found(o)
  BY <1>3 DEF Found
<1>5. \A o \in got : \/ \E f \in Files : /\ o = Object(KeyOf(f), f)
                                         /\ ~Broken(entry.alias)
                                         /\ RelOf(o) = f.rel
                     \/ entry.held /\ o = Marker /\ RelOf(o) = <<MarkerName>>
  BY <1>2, <1>4, FoundIsOwn DEF RelOf
<1>6. stored' = stored
  BY DEF Download
<1>7. CASE /\ entry' = [entry EXCEPT !.pc = "raised"]
           /\ Obstructed({RelOf(o) : o \in got})
  <2>1. /\ entry' \in EntryRecord /\ entry'.pc = "raised" /\ entry'.held = entry.held
        /\ entry'.restored = entry.restored /\ Given
    BY <1>1, <1>7 DEF EntryRecord, EntryPCs, Given
  <2>2. Files' = Files /\ Marker' = Marker /\ \A f : KeyOf(f)' = KeyOf(f)
    BY <2>1, GivenStays
  <2>3. entry'.alias = entry.alias
    BY <2>1 DEF Given
  <2>4. PICK all : all = {f.rel : f \in Files}
                           \cup (IF entry.held THEN {<<MarkerName>>} ELSE {})
    OBVIOUS
  <2>5. \A o \in got : RelOf(o) \in all
    BY <1>5, <2>4
  <2>6. {RelOf(o) : o \in got} \subseteq all
    BY <2>5
  <2>7. Obstructed(all)
    BY <1>7, <2>6, MoreObstructs
  <2>8. Obstructed(all)'
    BY <2>7 DEF Obstructed, Above
  <2>9. all = {f.rel : f \in Files'} \cup (IF entry'.held THEN {<<MarkerName>>} ELSE {})
    BY <2>1, <2>2, <2>4
  <2>10. ReferencesReach'
    BY <2>1, <2>7, <2>9 DEF ReferencesReach
  <2>11. LayoutTypeOK'
    BY <1>1, <1>6, <2>1 DEF LayoutTypeOK, EntryRecord
  <2>12. /\ \A o \in stored' : \/ \E f \in Files' : o = Object(KeyOf(f)', f)
                               \/ entry'.held /\ o = Marker'
         /\ entry'.held => Marker' \in stored'
         /\ \A f \in Files' : \/ Object(KeyOf(f)', f) \in stored'
                              \/ entry'.held /\ ~Broken(entry'.alias) /\ f.rel = <<MarkerName>>
    BY <1>1, <1>6, <2>1, <2>2, <2>3 DEF LayoutInv
  <2> QED
    BY <1>1, <2>1, <2>3, <2>10, <2>11, <2>12 DEF LayoutInv, Object
<1>8. CASE entry' = [entry EXCEPT !.pc = "downloaded",
                                  !.restored = {[rel |-> RelOf(o), from |-> o.from] : o \in got}]
  <2>1. entry'.restored = {[rel |-> RelOf(o), from |-> o.from] : o \in got}
    BY <1>1, <1>8 DEF EntryRecord
  <2>2. ASSUME NEW o \in got PROVE RelOf(o) \in Rels /\ o.from \in Origins
    <3>1. RelOf(o) \in Rels
      BY <1>5, FilesHaveRels
    <3>2. o.from \in Origins
      BY <1>1, <1>3 DEF LayoutTypeOK
    <3> QED
      BY <3>1, <3>2
  <2>3. entry'.restored \in SUBSET [rel : Rels, from : Origins]
    BY <2>1, <2>2
  <2>4. /\ entry' \in EntryRecord /\ entry'.pc = "downloaded" /\ entry'.held = entry.held
        /\ Given
    <3>1. /\ entry'.pc = "downloaded" /\ entry'.held = entry.held
          /\ entry'.alias = entry.alias /\ entry'.paths = entry.paths
          /\ entry' = [pc |-> entry'.pc, alias |-> entry'.alias, paths |-> entry'.paths,
                       held |-> entry'.held, restored |-> entry'.restored]
      BY <1>1, <1>8 DEF EntryRecord
    <3> QED
      BY <1>1, <2>3, <3>1 DEF EntryRecord, EntryPCs, Given
  <2>5. Files' = Files /\ Marker' = Marker /\ \A f : KeyOf(f)' = KeyOf(f)
    BY <2>4, GivenStays
  <2>6. entry'.alias = entry.alias
    BY <2>4 DEF Given
  <2>7. /\ \A o \in stored' : \/ \E f \in Files' : o = Object(KeyOf(f)', f)
                              \/ entry'.held /\ o = Marker'
        /\ entry'.held => Marker' \in stored'
        /\ \A f \in Files' : \/ Object(KeyOf(f)', f) \in stored'
                             \/ entry'.held /\ ~Broken(entry'.alias) /\ f.rel = <<MarkerName>>
    BY <1>1, <1>6, <2>4, <2>5, <2>6 DEF LayoutInv
  <2>8. ASSUME ~Broken(entry.alias), NEW f \in Files, Object(KeyOf(f), f) \in stored
        PROVE  [rel |-> f.rel, from |-> f] \in entry'.restored
    <3>1. PICK o : o = Object(KeyOf(f), f)
      OBVIOUS
    <3>2. o \in got
      BY <1>2, <1>4, <2>8, <3>1, FoundIsOwn
    <3>3. o.key = Run \o f.rel /\ o.from = f /\ f.rel \in Rels
      BY <3>1, FilesHaveRels DEF Object
    <3>4. RelOf(o) = f.rel
      BY <1>2, <2>8, <3>3 DEF RelOf, Placed, OwnKeys
    <3> QED
      BY <2>1, <3>2, <3>3, <3>4
  <2>9. ~Broken(entry.alias) =>
           \A f \in Files : \/ [rel |-> f.rel, from |-> f] \in entry'.restored
                            \/ entry.held /\ f.rel = <<MarkerName>>
    BY <1>1, <2>8 DEF LayoutInv
  <2>10. ReferencesReach'
    BY <2>4, <2>5, <2>6, <2>9 DEF ReferencesReach
  <2>11. LayoutTypeOK'
    <3>1. \A f \in entry'.restored : f.rel \in Rels /\ f.from \in Origins
      BY <2>3
    <3> QED
      BY <1>1, <1>6, <2>4, <3>1 DEF LayoutTypeOK, EntryRecord
  <2> QED
    BY <1>1, <2>4, <2>6, <2>7, <2>10, <2>11 DEF LayoutInv, Object
<1> QED
  BY <1>2, <1>3, <1>7, <1>8 DEF Download, RelOf, Parsed, Run, Placed

\* Every step of a run's way into the bucket and back keeps the invariant.
LEMMA LayoutKeeps == LayoutInv /\ [LayoutNext]_layoutVars => LayoutInv'
<1> SUFFICES ASSUME LayoutInv, [LayoutNext]_layoutVars PROVE LayoutInv'
  OBVIOUS
<1>1. CASE UNCHANGED layoutVars
  <2>1. entry' = entry /\ stored' = stored
    BY <1>1 DEF layoutVars
  <2>2. /\ Given
        /\ LayoutTypeOK' /\ ReferencesReach'
    BY <2>1 DEF Given, LayoutInv, LayoutTypeOK, ReferencesReach, Files
  <2>3. Files' = Files /\ Marker' = Marker /\ \A f : KeyOf(f)' = KeyOf(f)
    BY <2>2, GivenStays
  <2> QED
    BY <2>1, <2>2, <2>3 DEF LayoutInv, Object
<1>2. CASE Validate
  BY <1>2, ValidateKeeps
<1>3. CASE UploadArtifacts
  BY <1>3, UploadKeeps
<1>4. CASE Hold
  BY <1>4, HoldKeeps
<1>5. CASE Download
  BY <1>5, DownloadKeeps
<1>6. CASE Purge
  BY <1>6, PurgeKeeps
<1> QED
  BY <1>1, <1>2, <1>3, <1>4, <1>5, <1>6 DEF LayoutNext

\* Whatever the alias, the files of the call and whoever holds, purges or downloads.
THEOREM LayoutInductive == LayoutSpec => []LayoutInv
  BY LayoutInitially, LayoutKeeps, PTL DEF LayoutSpec

\* "A silent overwrite would report success while losing a file": no call that succeeds lost one.
THEOREM FilesStay == LayoutSpec => []FilesAreKept
<1>1. LayoutInv => FilesAreKept
  BY DEF LayoutInv, FilesAreKept
<1> QED
  BY <1>1, LayoutInductive, PTL

\* The marker is where the sweep looks, unless the alias is one that loses the hold, and no file of
\* the call is there that has another name.
LEMMA HoldsShown == LayoutInv => HoldsAreSeen
<1> SUFFICES ASSUME LayoutInv, entry.pc = "logged"
             PROVE  SweepSeesMarker <=> \/ entry.held /\ ~Broken(entry.alias)
                                        \/ \E f \in Files : f.rel = <<MarkerName>>
  BY DEF HoldsAreSeen
<1>1. Placed
  BY AcceptedIsPlaced DEF LayoutInv
<1>2. SweepSeesMarker <=> \E o \in stored : o.key = Run \o <<MarkerName>>
  BY <1>1 DEF SweepSeesMarker, Placed, Run
<1>3. Marker.key = Parsed \o <<MarkerName>> /\ <<MarkerName>> \in Rels
  BY <1>1, FilesHaveRels DEF Placed, Marker, Object
<1>4. Broken(entry.alias) => Marker.key # Run \o <<MarkerName>>
  <2>1. Seqs!IsPrefix(Parsed, Marker.key)
    BY <1>1, <1>3 DEF Placed, OwnKeys
  <2> QED
    BY <1>1, <1>3, <2>1 DEF Placed
<1>5. ~Broken(entry.alias) => Marker.key = Run \o <<MarkerName>>
  BY <1>1, <1>3 DEF Placed
<1>6. ASSUME NEW f \in Files
      PROVE  /\ Object(KeyOf(f), f).key = Run \o f.rel
             /\ Run \o f.rel = Run \o <<MarkerName>> => f.rel = <<MarkerName>>
  BY <1>1, <1>3, FilesHaveRels DEF Object, Placed, OwnKeys
<1>7. /\ \A o \in stored : \/ \E f \in Files : o = Object(KeyOf(f), f)
                           \/ entry.held /\ o = Marker
      /\ entry.held => Marker \in stored
      /\ \A f \in Files : \/ Object(KeyOf(f), f) \in stored
                          \/ entry.held /\ ~Broken(entry.alias) /\ f.rel = <<MarkerName>>
  BY DEF LayoutInv
<1>8. ASSUME NEW o \in stored, o.key = Run \o <<MarkerName>>
      PROVE  \/ entry.held /\ ~Broken(entry.alias)
             \/ \E f \in Files : f.rel = <<MarkerName>>
  BY <1>4, <1>6, <1>7, <1>8
<1>9. ASSUME \/ entry.held /\ ~Broken(entry.alias)
             \/ \E f \in Files : f.rel = <<MarkerName>>
      PROVE  \E o \in stored : o.key = Run \o <<MarkerName>>
  BY <1>5, <1>6, <1>7, <1>9
<1> QED
  BY <1>2, <1>8, <1>9

\* The sweep takes for a hold what holds the run, and nothing but a hold or an artifact that has
\* the marker's name.
THEOREM HoldsShow == LayoutSpec => []HoldsAreSeen
  BY HoldsShown, LayoutInductive, PTL

\* What is read, held or purged through the URI is all the run has.
THEOREM ReferencesAreWhole == LayoutSpec => []ReferencesReach
<1>1. LayoutInv => ReferencesReach
  BY DEF LayoutInv
<1> QED
  BY <1>1, LayoutInductive, PTL

-----------------------------------------------------------------------------
USE TransferAssumption

-----------------------------------------------------------------------------
(* UploadVerified: contents are sequences of blocks *)

\* A content is a sequence of at most MaxBlocks blocks.
LEMMA ContentsAreSequences ==
    \A s : s \in Contents <=> s \in Seq(Blocks) /\ Len(s) <= MaxBlocks
<1>1. ASSUME NEW s \in Contents PROVE s \in Seq(Blocks) /\ Len(s) <= MaxBlocks
  <2>1. PICK n \in 0..MaxBlocks : s \in [1..n -> Blocks]
    BY DEF Contents
  <2> QED
    BY <2>1
<1>2. ASSUME NEW s \in Seq(Blocks), Len(s) <= MaxBlocks PROVE s \in Contents
  <2>1. s \in [1..Len(s) -> Blocks] /\ Len(s) \in 0..MaxBlocks
    BY <1>2
  <2> QED
    BY <2>1 DEF Contents
<1> QED
  BY <1>1, <1>2

\* What is being sent is a sequence of blocks that are read or not read yet.
LEMMA PartialsAreSequences ==
    \A s : s \in Partial <=> s \in Seq(Blocks \cup {Unread}) /\ Len(s) <= MaxBlocks
<1>1. ASSUME NEW s \in Partial
      PROVE s \in Seq(Blocks \cup {Unread}) /\ Len(s) <= MaxBlocks
  <2>1. PICK n \in 0..MaxBlocks : s \in [1..n -> Blocks \cup {Unread}]
    BY DEF Partial
  <2> QED
    BY <2>1
<1>2. ASSUME NEW s \in Seq(Blocks \cup {Unread}), Len(s) <= MaxBlocks PROVE s \in Partial
  <2>1. s \in [1..Len(s) -> Blocks \cup {Unread}] /\ Len(s) \in 0..MaxBlocks
    BY <1>2
  <2> QED
    BY <2>1 DEF Partial
<1> QED
  BY <1>1, <1>2

\* An attempt begins with nothing read.
LEMMA NothingIsRead == <<>> \in Partial /\ <<>> \in Contents
<1>1. /\ <<>> \in Seq(Blocks) /\ <<>> \in Seq(Blocks \cup {Unread})
      /\ Len(<<>>) <= MaxBlocks
  OBVIOUS
<1> QED
  BY <1>1, PartialsAreSequences, ContentsAreSequences

-----------------------------------------------------------------------------
(* UploadVerified: the inductive invariant *)

Digested == up.pc \notin {"digesting", "refused"}
Measured == up.pc \notin {"digesting", "sizing", "refused"}

\* As long as nobody edits the file, all that was read of it is what is in it.
FileIsRead ==
    edits = 0 =>
        /\ Len(up.digest) <= Len(file)
        /\ \A i \in 1..Len(up.digest) : up.digest[i] = file[i]
        /\ Digested => Len(up.digest) = Len(file)
        /\ Measured => up.size = Len(file)
        /\ up.pc = "sending" =>
              /\ Len(up.sent) = Len(file)
              /\ \A i \in 1..Len(up.sent) : up.sent[i] \in {Unread, file[i]}
        /\ object.there => object.sent = file

\* What is confirmed is there, and what is returned was confirmed.
ReturnsConfirmed ==
    /\ up.pc \in {"confirming", "returned", "mismatch"} => object.there
    /\ up.pc = "returned" => Confirmed

TransferInv == TransferTypeOK /\ FileIsRead /\ ReturnsConfirmed /\ AlarmIsDeserved

\* The invariant implies the property: with the file unchanged, digest and object are the file.
LEMMA ReturnedByInvariant == TransferInv => ReturnedIsDigested
<1> SUFFICES ASSUME TransferInv, up.pc = "returned"
             PROVE /\ object.there
                   /\ \/ object.sent = up.digest
                      \/ /\ edits > 0
                         /\ Len(object.sent) = up.size
                         /\ ~up.checksum \/ Len(object.sent) > SinglePart
  BY DEF ReturnedIsDigested
<1>1. object.there /\ Confirmed
  BY DEF TransferInv, ReturnsConfirmed
<1>2. CASE edits = 0
  <2>1. up.digest \in Seq(Blocks) /\ file \in Seq(Blocks)
    BY ContentsAreSequences DEF TransferInv, TransferTypeOK, UpRecord
  <2>2. Len(up.digest) = Len(file) /\ \A i \in 1..Len(file) : up.digest[i] = file[i]
    BY <1>2 DEF TransferInv, FileIsRead, Digested
  <2>3. up.digest = file
    BY <2>1, <2>2
  <2> QED
    BY <1>1, <1>2, <2>3 DEF TransferInv, FileIsRead
<1>3. CASE edits # 0
  <2>1. edits > 0 /\ Len(object.sent) \in Nat
    BY <1>3, ContentsAreSequences DEF TransferInv, TransferTypeOK
  <2> QED
    BY <1>1, <2>1 DEF Confirmed
<1> QED
  BY <1>2, <1>3

\* The invariant holds when the call begins.
LEMMA TransferInitially == TransferInit => TransferInv
<1> SUFFICES ASSUME TransferInit PROVE TransferInv
  OBVIOUS
<1>1. PICK n \in FirstBlocks : file = [i \in 1..n |-> 0]
  BY DEF TransferInit
<1>2. PICK c \in Checksums :
        up = [pc |-> "digesting", attempt |-> 1, digest |-> <<>>, size |-> 0, sent |-> <<>>,
              checksum |-> c]
  BY DEF TransferInit
<1>3. file \in Seq(Blocks) /\ Len(file) = n /\ n <= MaxBlocks
  BY <1>1 DEF Blocks
<1>4. file \in Contents /\ <<>> \in Contents /\ <<>> \in Partial
  BY <1>3, ContentsAreSequences, NothingIsRead
<1>5. TransferTypeOK
  BY <1>2, <1>4 DEF TransferInit, TransferTypeOK, UpRecord, TransferPCs, NoObject
<1> QED
  BY <1>2, <1>3, <1>5 DEF TransferInit, TransferInv, FileIsRead, ReturnsConfirmed, AlarmIsDeserved,
     Digested, Measured, NoObject

-----------------------------------------------------------------------------
(* Every step keeps it. *)

\* An edit is counted, and after it nothing is claimed of the file any more.
LEMMA EditKeeps == TransferInv /\ Edit => TransferInv'
<1> SUFFICES ASSUME TransferInv, Edit PROVE TransferInv'
  OBVIOUS
<1>1. file \in Seq(Blocks) /\ Len(file) <= MaxBlocks /\ edits \in 0..MaxEdits
  BY ContentsAreSequences DEF TransferInv, TransferTypeOK
<1>2. PICK content \in Contents : Edited(content)
  <2>1. CASE \E i \in 1..MaxBlocks : Overwrite(i)
    <3>1. PICK i \in 1..MaxBlocks : Overwrite(i)
      BY <2>1
    <3>2. edits + 1 \in Blocks
      BY <1>1, <3>1 DEF Overwrite, Edited, Blocks
    <3>3. [file EXCEPT ![i] = edits + 1] \in Seq(Blocks)
      BY <1>1, <3>1, <3>2 DEF Overwrite
    <3>4. Len([file EXCEPT ![i] = edits + 1]) = Len(file)
      BY <1>1
    <3> QED
      BY <1>1, <3>1, <3>3, <3>4, ContentsAreSequences DEF Overwrite
  <2>2. CASE Extend
    <3>1. edits + 1 \in Blocks
      BY <1>1, <2>2 DEF Extend, Edited, Blocks
    <3>2. Append(file, edits + 1) \in Seq(Blocks) /\ Len(Append(file, edits + 1)) <= MaxBlocks
      BY <1>1, <2>2, <3>1 DEF Extend
    <3> QED
      BY <2>2, <3>2, ContentsAreSequences DEF Extend
  <2>3. CASE Truncate
    <3>1. Len(file) > 0
      BY <1>1, <2>3 DEF Truncate
    <3>2. /\ SubSeq(file, 1, Len(file) - 1) \in Seq(Blocks)
          /\ Len(SubSeq(file, 1, Len(file) - 1)) <= MaxBlocks
      BY <1>1, <3>1
    <3> QED
      BY <2>3, <3>2, ContentsAreSequences DEF Truncate
  <2> QED
    BY <2>1, <2>2, <2>3 DEF Edit
<1>3. edits' \in 1..MaxEdits /\ file' \in Contents /\ UNCHANGED <<up, object>>
  BY <1>1, <1>2 DEF Edited
<1>4. TransferTypeOK' /\ FileIsRead' /\ AlarmIsDeserved'
  BY <1>3 DEF TransferInv, TransferTypeOK, FileIsRead, AlarmIsDeserved
<1>5. ReturnsConfirmed'
  BY <1>3 DEF TransferInv, ReturnsConfirmed, Confirmed
<1> QED
  BY <1>4, <1>5 DEF TransferInv

\* Reading the file for the digest and asking for its size.
LEMMA ReadKeeps == TransferInv /\ (Digest \/ Size \/ ReadFails) => TransferInv'
<1> SUFFICES ASSUME TransferInv, Digest \/ Size \/ ReadFails PROVE TransferInv'
  OBVIOUS
<1>1. /\ file \in Seq(Blocks) /\ Len(file) <= MaxBlocks
      /\ up.digest \in Seq(Blocks) /\ Len(up.digest) <= MaxBlocks
      /\ up \in UpRecord
  BY ContentsAreSequences DEF TransferInv, TransferTypeOK, UpRecord
<1>2. CASE Digest /\ Len(up.digest) < Len(file)
  <2> DEFINE read == Append(up.digest, file[Len(up.digest) + 1])
  <2>1. /\ up' = [up EXCEPT !.digest = read]
        /\ up.pc = "digesting" /\ UNCHANGED <<file, edits, object>>
    BY <1>2 DEF Digest
  <2>2. read \in Seq(Blocks) /\ Len(read) = Len(up.digest) + 1
    BY <1>1, <1>2
  <2>3. read \in Contents
    <3>1. Len(read) <= MaxBlocks
      BY <1>1, <1>2, <2>2
    <3> HIDE DEF read
    <3> QED
      BY <2>2, <3>1, ContentsAreSequences
  <2>4. up' \in UpRecord /\ up'.pc = "digesting" /\ up'.digest = read
    BY <1>1, <2>1, <2>3 DEF UpRecord
  <2>5. TransferTypeOK'
    BY <2>1, <2>4 DEF TransferInv, TransferTypeOK
  <2>6. edits = 0 => \A i \in 1..Len(read) : read[i] = file[i]
    BY <1>1, <1>2, <2>2 DEF TransferInv, FileIsRead
  <2>7. FileIsRead'
    BY <1>1, <1>2, <2>1, <2>2, <2>4, <2>6 DEF TransferInv, FileIsRead, Digested, Measured
  <2> QED
    BY <2>4, <2>5, <2>7 DEF TransferInv, ReturnsConfirmed, AlarmIsDeserved
<1>3. CASE Digest /\ ~(Len(up.digest) < Len(file))
  <2>1. /\ up' = [up EXCEPT !.pc = "sizing"]
        /\ up.pc = "digesting" /\ UNCHANGED <<file, edits, object>>
    BY <1>3 DEF Digest
  <2>2. up' \in UpRecord /\ up'.pc = "sizing" /\ up'.digest = up.digest
    BY <1>1, <2>1 DEF UpRecord, TransferPCs
  <2>3. TransferTypeOK' /\ FileIsRead'
    BY <1>1, <1>3, <2>1, <2>2 DEF TransferInv, TransferTypeOK, FileIsRead, Measured
  <2> QED
    BY <2>2, <2>3 DEF TransferInv, ReturnsConfirmed, AlarmIsDeserved
<1>4. CASE Size
  <2>1. /\ up' = [up EXCEPT !.pc = "opening", !.size = Len(file)]
        /\ up.pc = "sizing" /\ UNCHANGED <<file, edits, object>>
    BY <1>4 DEF Size
  <2>2. /\ up' \in UpRecord /\ up'.pc = "opening" /\ up'.size = Len(file)
        /\ up'.digest = up.digest
    <3>1. Len(file) \in 0..MaxBlocks
      BY <1>1
    <3> QED
      BY <1>1, <2>1, <3>1 DEF UpRecord, TransferPCs
  <2>3. TransferTypeOK' /\ FileIsRead'
    BY <2>1, <2>2 DEF TransferInv, TransferTypeOK, FileIsRead, Digested
  <2> QED
    BY <2>2, <2>3 DEF TransferInv, ReturnsConfirmed, AlarmIsDeserved
<1>5. CASE ReadFails
  <2>1. /\ up' = [up EXCEPT !.pc = "refused"]
        /\ up.pc \in {"digesting", "sizing"} /\ UNCHANGED <<file, edits, object>>
    BY <1>5 DEF ReadFails
  <2>2. object' = object /\ edits' = edits /\ file' = file
    BY <2>1
  <2>3. up' \in UpRecord /\ up'.pc = "refused" /\ up'.digest = up.digest
    BY <1>1, <2>1 DEF UpRecord, TransferPCs, TransferEnds
  <2>4. TransferTypeOK' /\ FileIsRead'
    BY <2>2, <2>3 DEF TransferInv, TransferTypeOK, FileIsRead, Digested, Measured
  <2> QED
    BY <2>3, <2>4 DEF TransferInv, ReturnsConfirmed, AlarmIsDeserved
<1> QED
  BY <1>2, <1>3, <1>4, <1>5

\* An attempt that fails, with the object as it was or as it was just sent.
LEMMA FailureKeeps ==
    ASSUME TransferInv, up.pc \in {"sending", "confirming"},
           NEW retryable \in BOOLEAN, AttemptFails(retryable),
           UNCHANGED <<file, edits>>,
           object' \in [sent : Contents, there : BOOLEAN],
           edits = 0 => (object'.there => object'.sent = file)
    PROVE  TransferInv'
<1>1. up \in UpRecord /\ <<>> \in Partial
  BY NothingIsRead DEF TransferInv, TransferTypeOK
<1>2. /\ up' \in UpRecord
      /\ up'.pc \in {"refused", "gaveup", "opening"}
      /\ up'.digest = up.digest /\ up'.size = up.size
  <2>1. CASE ~retryable
    BY <1>1, <2>1 DEF AttemptFails, UpRecord, TransferPCs, TransferEnds
  <2>2. CASE retryable /\ up.attempt = MaxAttempts
    BY <1>1, <2>2 DEF AttemptFails, UpRecord, TransferPCs, TransferEnds
  <2>3. CASE retryable /\ up.attempt # MaxAttempts
    <3>1. up.attempt + 1 \in 1..MaxAttempts
      BY <1>1, <2>3 DEF UpRecord
    <3> QED
      BY <1>1, <2>3, <3>1 DEF AttemptFails, UpRecord, TransferPCs, TransferEnds
  <2> QED
    BY <2>1, <2>2, <2>3
<1>3. TransferTypeOK' /\ FileIsRead'
  BY <1>2 DEF TransferInv, TransferTypeOK, FileIsRead, Digested, Measured
<1> QED
  BY <1>2, <1>3 DEF TransferInv, ReturnsConfirmed, AlarmIsDeserved

\* Opening the file for an attempt and reading a block of it.
LEMMA SendKeeps ==
    ASSUME TransferInv, Open \/ \E i \in 1..MaxBlocks : SendBlock(i)
    PROVE  TransferInv'
<1>1. /\ file \in Seq(Blocks) /\ Len(file) <= MaxBlocks
      /\ up.sent \in Seq(Blocks \cup {Unread}) /\ Len(up.sent) <= MaxBlocks
      /\ up \in UpRecord
  BY ContentsAreSequences, PartialsAreSequences DEF TransferInv, TransferTypeOK, UpRecord
<1>2. CASE Open
  <2> DEFINE unread == [i \in 1..Len(file) |-> Unread]
  <2>1. /\ up' = [up EXCEPT !.pc = "sending", !.sent = unread]
        /\ up.pc = "opening" /\ UNCHANGED <<file, edits, object>>
    BY <1>2 DEF Open
  <2>2. unread \in Seq(Blocks \cup {Unread}) /\ Len(unread) = Len(file)
    BY <1>1
  <2>3. unread \in Partial
    BY <1>1, <2>2, PartialsAreSequences
  <2>4. /\ up' \in UpRecord /\ up'.pc = "sending" /\ up'.sent = unread
        /\ up'.digest = up.digest /\ up'.size = up.size
    BY <1>1, <2>1, <2>3 DEF UpRecord, TransferPCs
  <2>5. TransferTypeOK' /\ FileIsRead'
    BY <2>1, <2>2, <2>4 DEF TransferInv, TransferTypeOK, FileIsRead, Digested, Measured
  <2> QED
    BY <2>4, <2>5 DEF TransferInv, ReturnsConfirmed, AlarmIsDeserved
<1>3. CASE \E i \in 1..MaxBlocks : SendBlock(i)
  <2>1. PICK i \in 1..MaxBlocks : SendBlock(i)
    BY <1>3
  <2> DEFINE sent == [up.sent EXCEPT ![i] = file[i]]
  <2>2. /\ up' = [up EXCEPT !.sent = sent]
        /\ up.pc = "sending" /\ UNCHANGED <<file, edits, object>>
        /\ i \in 1..Len(up.sent) /\ i \in 1..Len(file)
    BY <1>1, <2>1 DEF SendBlock
  <2>3. file[i] \in Blocks
    BY <1>1, <2>2
  <2>4. sent \in Seq(Blocks \cup {Unread}) /\ Len(sent) = Len(up.sent)
    BY <1>1, <2>2, <2>3
  <2>5. sent \in Partial
    BY <1>1, <2>4, PartialsAreSequences
  <2>6. /\ up' \in UpRecord /\ up'.pc = "sending" /\ up'.sent = sent
        /\ up'.digest = up.digest /\ up'.size = up.size
    BY <1>1, <2>2, <2>5 DEF UpRecord
  <2>7. edits = 0 => \A j \in 1..Len(sent) : sent[j] \in {Unread, file[j]}
    BY <1>1, <2>2, <2>4 DEF TransferInv, FileIsRead
  <2>8. TransferTypeOK' /\ FileIsRead'
    BY <2>2, <2>4, <2>6, <2>7 DEF TransferInv, TransferTypeOK, FileIsRead, Digested, Measured
  <2> QED
    BY <2>6, <2>8 DEF TransferInv, ReturnsConfirmed, AlarmIsDeserved
<1> QED
  BY <1>2, <1>3

\* The object appears as it was read.
LEMMA ArrivalKeeps ==
    ASSUME TransferInv, NEW answered \in BOOLEAN, NEW retryable \in BOOLEAN,
           SendDone(answered, retryable)
    PROVE  TransferInv'
<1>1. /\ file \in Seq(Blocks)
      /\ up.sent \in Seq(Blocks \cup {Unread}) /\ Len(up.sent) <= MaxBlocks
      /\ up \in UpRecord
  BY ContentsAreSequences, PartialsAreSequences DEF TransferInv, TransferTypeOK, UpRecord
<1>2. /\ up.pc = "sending"
      /\ \A i \in 1..Len(up.sent) : up.sent[i] # Unread
      /\ object' = [sent |-> up.sent, there |-> TRUE]
      /\ UNCHANGED <<file, edits>>
  BY DEF SendDone
<1>3. up.sent \in Seq(Blocks)
  BY <1>1, <1>2
<1>4. object' \in [sent : Contents, there : BOOLEAN]
  BY <1>1, <1>2, <1>3, ContentsAreSequences
<1>5. edits = 0 => object'.sent = file
  <2> SUFFICES ASSUME edits = 0 PROVE up.sent = file
    BY <1>2
  <2>1. Len(up.sent) = Len(file) /\ \A i \in 1..Len(up.sent) : up.sent[i] = file[i]
    BY <1>2 DEF TransferInv, FileIsRead
  <2> QED
    BY <1>1, <1>3, <2>1
<1>6. CASE answered
  <2>1. up' = [up EXCEPT !.pc = "confirming"]
    BY <1>6 DEF SendDone
  <2>2. /\ up' \in UpRecord /\ up'.pc = "confirming"
        /\ up'.digest = up.digest /\ up'.size = up.size
    BY <1>1, <2>1 DEF UpRecord, TransferPCs
  <2>3. TransferTypeOK' /\ FileIsRead'
    BY <1>2, <1>4, <1>5, <2>2 DEF TransferInv, TransferTypeOK, FileIsRead, Digested, Measured
  <2> QED
    BY <1>2, <2>2, <2>3 DEF TransferInv, ReturnsConfirmed, AlarmIsDeserved
<1>7. CASE ~answered
  <2>1. AttemptFails(retryable)
    BY <1>7 DEF SendDone
  <2> QED
    BY <1>2, <1>4, <1>5, <2>1, FailureKeeps
<1> QED
  BY <1>6, <1>7

\* The confirmation of an unchanged file succeeds, whichever way it is made.
LEMMA ConfirmKeeps == TransferInv /\ Confirm => TransferInv'
<1> SUFFICES ASSUME TransferInv, Confirm PROVE TransferInv'
  OBVIOUS
<1>1. /\ up.pc = "confirming" /\ UNCHANGED <<file, edits, object>>
      /\ up' = [up EXCEPT !.pc = IF Confirmed THEN "returned" ELSE "mismatch"]
      /\ up \in UpRecord /\ object.there
      /\ file \in Seq(Blocks) /\ up.digest \in Seq(Blocks)
  BY ContentsAreSequences
     DEF Confirm, TransferInv, TransferTypeOK, UpRecord, ReturnsConfirmed
<1>2. edits = 0 => Confirmed
  <2> SUFFICES ASSUME edits = 0 PROVE Confirmed
    OBVIOUS
  <2>1. /\ Len(up.digest) = Len(file) /\ \A i \in 1..Len(up.digest) : up.digest[i] = file[i]
        /\ object.sent = file /\ up.size = Len(file)
    BY <1>1 DEF TransferInv, FileIsRead, Digested, Measured
  <2>2. up.digest = file
    BY <1>1, <2>1, SMTT(30)
  <2> QED
    BY <2>1, <2>2 DEF Confirmed
<1>3. /\ up' \in UpRecord
      /\ up'.pc = IF Confirmed THEN "returned" ELSE "mismatch"
      /\ up'.digest = up.digest /\ up'.size = up.size /\ up'.checksum = up.checksum
  BY <1>1 DEF UpRecord, TransferPCs, TransferEnds
<1>4. TransferTypeOK' /\ FileIsRead'
  BY <1>1, <1>3 DEF TransferInv, TransferTypeOK, FileIsRead, Digested, Measured
<1>5. Confirmed' <=> Confirmed
  BY <1>1, <1>3 DEF Confirmed
<1>6. AlarmIsDeserved'
  BY <1>1, <1>2, <1>3 DEF AlarmIsDeserved, TransferInv, TransferTypeOK
<1>7. ReturnsConfirmed'
  BY <1>1, <1>3, <1>5 DEF ReturnsConfirmed
<1> QED
  BY <1>4, <1>6, <1>7 DEF TransferInv

-----------------------------------------------------------------------------
(* Theorems *)

\* Every step of the call and of the file's writer keeps the invariant.
LEMMA TransferKeeps == TransferInv /\ [TransferNext]_transferVars => TransferInv'
<1> SUFFICES ASSUME TransferInv, [TransferNext]_transferVars PROVE TransferInv'
  OBVIOUS
<1>1. CASE Edit
  BY <1>1, EditKeeps
<1>2. CASE Digest \/ Size \/ ReadFails
  BY <1>2, ReadKeeps
<1>3. CASE Open \/ \E i \in 1..MaxBlocks : SendBlock(i)
  BY <1>3, SendKeeps
<1>4. CASE \E answered, retryable \in BOOLEAN : SendDone(answered, retryable)
  BY <1>4, ArrivalKeeps
<1>5. ASSUME NEW retryable \in BOOLEAN, SendFails(retryable) \/ ConfirmFails(retryable)
      PROVE  TransferInv'
  <2>1. /\ up.pc \in {"sending", "confirming"} /\ AttemptFails(retryable)
        /\ UNCHANGED <<file, edits, object>>
    BY <1>5 DEF SendFails, ConfirmFails
  <2>2. /\ object' \in [sent : Contents, there : BOOLEAN]
        /\ edits = 0 => (object'.there => object'.sent = file)
    BY <2>1 DEF TransferInv, TransferTypeOK, FileIsRead
  <2> QED
    BY <2>1, <2>2, FailureKeeps
<1>6. CASE Confirm
  BY <1>6, ConfirmKeeps
<1>7. CASE UNCHANGED transferVars
  BY <1>7 DEF transferVars, TransferInv, TransferTypeOK, FileIsRead, ReturnsConfirmed,
     AlarmIsDeserved, Digested, Measured, Confirmed
<1> QED
  BY <1>1, <1>2, <1>3, <1>4, <1>5, <1>6, <1>7 DEF TransferNext, CallStep

\* Every step of the call and of the process that edits keeps the invariant.
THEOREM TransferInductive == TransferSpec => []TransferInv
  BY TransferInitially, TransferKeeps, PTL DEF TransferSpec

\* A transfer that returns has the digested file in the bucket, up to the stated exception of a
\* file in many parts that changed during the call.
THEOREM TransfersAreDigested == TransferSpec => []ReturnedIsDigested
  BY TransferInductive, ReturnedByInvariant, PTL

\* A file that nobody edits never fails its verification.
THEOREM AlarmsAreDeserved == TransferSpec => []AlarmIsDeserved
<1>1. TransferInv => AlarmIsDeserved
  BY DEF TransferInv
<1> QED
  BY <1>1, TransferInductive, PTL

-----------------------------------------------------------------------------
(* UploadVerified: the steps of a call run out *)

\* What is left of a call, by where it is.
LEMMA StepsByPlace ==
    ASSUME NEW call
    PROVE  /\ call.pc = "digesting" =>
                 StepsLeft(call) = Retries(call) + AttemptSteps + 2 + MaxBlocks - Len(call.digest)
           /\ call.pc = "sizing"     => StepsLeft(call) = Retries(call) + AttemptSteps + 1
           /\ call.pc = "opening"    => StepsLeft(call) = Retries(call) + AttemptSteps
           /\ call.pc = "sending"    => StepsLeft(call) = Retries(call) + 2 + Unsent(call)
           /\ call.pc = "confirming" => StepsLeft(call) = Retries(call) + 1
           /\ call.pc \in TransferEnds => StepsLeft(call) = 0
<1>1. PICK s1, s2, s3, s4, s5 :
         /\ s1 = Retries(call) + AttemptSteps + 2 + MaxBlocks - Len(call.digest)
         /\ s2 = Retries(call) + AttemptSteps + 1
         /\ s3 = Retries(call) + AttemptSteps
         /\ s4 = Retries(call) + 2 + Unsent(call)
         /\ s5 = Retries(call) + 1
  OBVIOUS
<1>2. StepsLeft(call) = CASE call.pc = "digesting"  -> s1
                          [] call.pc = "sizing"     -> s2
                          [] call.pc = "opening"    -> s3
                          [] call.pc = "sending"    -> s4
                          [] call.pc = "confirming" -> s5
                          [] OTHER                  -> 0
  BY <1>1, Zenon DEF StepsLeft
<1>3. /\ call.pc = "digesting"  => StepsLeft(call) = s1
      /\ call.pc = "sizing"     => StepsLeft(call) = s2
      /\ call.pc = "opening"    => StepsLeft(call) = s3
      /\ call.pc = "sending"    => StepsLeft(call) = s4
      /\ call.pc = "confirming" => StepsLeft(call) = s5
      /\ call.pc \in TransferEnds => StepsLeft(call) = 0
  BY <1>2 DEF TransferEnds
<1> QED
  BY <1>1, <1>3, Zenon

\* What is left of a call is a number, whatever the call.
LEMMA StepsAreCounted ==
    ASSUME NEW call \in UpRecord
    PROVE  /\ AttemptSteps \in Nat /\ AttemptSteps = MaxBlocks + 3
           /\ Retries(call) \in Nat
           /\ Unsent(call) \in 0..MaxBlocks
           /\ Len(call.digest) \in 0..MaxBlocks
           /\ StepsLeft(call) \in Nat
<1>1. AttemptSteps \in Nat /\ AttemptSteps = MaxBlocks + 3
  BY DEF AttemptSteps
<1>2. Retries(call) \in Nat
  <2>1. PICK left \in Nat : left = MaxAttempts - call.attempt
    BY DEF UpRecord
  <2>2. left * AttemptSteps \in Nat
    BY <1>1, <2>1
  <2> QED
    BY <2>1, <2>2 DEF Retries
<1>3. Len(call.sent) \in 0..MaxBlocks /\ Len(call.digest) \in 0..MaxBlocks
  BY PartialsAreSequences, ContentsAreSequences DEF UpRecord
<1>4. Unsent(call) \in 0..MaxBlocks
  <2>1. PICK n \in 0..MaxBlocks : n = Len(call.sent)
    BY <1>3
  <2>2. IsFiniteSet(1..n) /\ Cardinality(1..n) = n
    BY FS_Interval
  <2>3. {i \in 1..n : call.sent[i] = Unread} \in SUBSET (1..n)
    OBVIOUS
  <2>4. /\ Cardinality({i \in 1..n : call.sent[i] = Unread}) \in Nat
        /\ Cardinality({i \in 1..n : call.sent[i] = Unread}) <= n
    BY <2>2, <2>3, FS_Subset, FS_CardinalityType
  <2> QED
    BY <2>1, <2>4 DEF Unsent
<1>5. StepsLeft(call) \in Nat
  <2>1. call.pc \in {"digesting", "sizing", "opening", "sending", "confirming"} \cup TransferEnds
    BY DEF UpRecord, TransferPCs
  <2>2. /\ Retries(call) + AttemptSteps + 2 + MaxBlocks - Len(call.digest) \in Nat
        /\ Retries(call) + AttemptSteps + 1 \in Nat
        /\ Retries(call) + AttemptSteps \in Nat
        /\ Retries(call) + 2 + Unsent(call) \in Nat
        /\ Retries(call) + 1 \in Nat /\ 0 \in Nat
    <3>1. PICK r \in Nat, u \in 0..MaxBlocks, d \in 0..MaxBlocks :
             r = Retries(call) /\ u = Unsent(call) /\ d = Len(call.digest)
      BY <1>2, <1>3, <1>4
    <3>2. /\ r + AttemptSteps + 2 + MaxBlocks - d \in Nat
          /\ r + AttemptSteps + 1 \in Nat /\ r + AttemptSteps \in Nat
          /\ r + 2 + u \in Nat /\ r + 1 \in Nat /\ 0 \in Nat
      BY <1>1
    <3> QED
      BY <3>1, <3>2
  <2> QED
    BY <2>1, <2>2, StepsByPlace, Zenon
<1> QED
  BY <1>1, <1>2, <1>3, <1>4, <1>5

\* A failed attempt costs at least the attempt that the next one is.
LEMMA FailureCosts ==
    ASSUME TransferTypeOK, up.pc \in {"sending", "confirming"},
           NEW retryable \in BOOLEAN, AttemptFails(retryable)
    PROVE  StepsLeft(up') < StepsLeft(up)
<1>1. up \in UpRecord
  BY DEF TransferTypeOK
<1>2. StepsLeft(up) >= Retries(up) + 1 /\ Retries(up) \in Nat /\ StepsLeft(up) \in Nat
  BY <1>1, StepsAreCounted, StepsByPlace
<1>3. CASE up'.pc \in {"refused", "gaveup"}
  <2>1. StepsLeft(up') = 0
    BY <1>3, StepsByPlace DEF TransferEnds
  <2> QED
    BY <1>2, <2>1
<1>4. CASE up' = [up EXCEPT !.pc = "opening", !.attempt = @ + 1, !.sent = <<>>]
  <2>1. up'.pc = "opening" /\ up'.attempt = up.attempt + 1
    BY <1>1, <1>4 DEF UpRecord
  <2>2. PICK left \in Int : left = MaxAttempts - up.attempt
    BY <1>1 DEF UpRecord
  <2>3. MaxAttempts - up'.attempt = left - 1
    BY <1>1, <2>1, <2>2 DEF UpRecord
  <2>4. AttemptSteps \in Nat
    BY <1>1, StepsAreCounted
  <2>5. (left - 1) * AttemptSteps = left * AttemptSteps - AttemptSteps
    BY <2>4
  <2>6. StepsLeft(up') = AttemptSteps + Retries(up')
    <3>1. StepsLeft(up') = Retries(up') + AttemptSteps
      BY <2>1, StepsByPlace
    <3>2. Retries(up') = (left - 1) * AttemptSteps
      BY <2>3 DEF Retries
    <3>3. (left - 1) * AttemptSteps \in Int
      BY <2>4
    <3> QED
      BY <2>4, <3>1, <3>2, <3>3
  <2>7. Retries(up') = Retries(up) - AttemptSteps
    BY <2>2, <2>3, <2>5 DEF Retries
  <2> QED
    BY <1>2, <2>4, <2>6, <2>7
<1> QED
  BY <1>1, <1>3, <1>4 DEF AttemptFails, UpRecord

\* A block that is read is one less to read.
LEMMA BlockCosts ==
    ASSUME TransferInv, NEW i \in 1..MaxBlocks, SendBlock(i)
    PROVE  StepsLeft(up') < StepsLeft(up)
<1>1. /\ up.pc = "sending" /\ i \in 1..Len(up.sent) /\ up.sent[i] = Unread
      /\ i \in 1..Len(file)
      /\ up' = [up EXCEPT !.sent[i] = file[i]]
  BY ContentsAreSequences DEF SendBlock, TransferInv, TransferTypeOK
<1>2. up \in UpRecord /\ up.sent \in Seq(Blocks \cup {Unread}) /\ file \in Seq(Blocks)
  BY PartialsAreSequences, ContentsAreSequences DEF TransferInv, TransferTypeOK, UpRecord
<1>3. PICK n \in Nat : n = Len(up.sent)
  BY <1>2
<1>4. file[i] # Unread
  <2>1. file[i] \in Blocks
    BY <1>1, <1>2
  <2> QED
    BY <2>1 DEF Blocks, Unread
<1>5. /\ up'.pc = "sending" /\ up'.attempt = up.attempt
      /\ up'.sent = [up.sent EXCEPT ![i] = file[i]]
  BY <1>1, <1>2 DEF UpRecord
<1>6. Len(up'.sent) = n /\ \A j \in 1..n : up'.sent[j] = IF j = i THEN file[i] ELSE up.sent[j]
  BY <1>1, <1>2, <1>3, <1>5
<1>7. PICK U : U = {j \in 1..n : up.sent[j] = Unread}
  OBVIOUS
<1>8. i \in U /\ {j \in 1..n : up'.sent[j] = Unread} = U \ {i}
  BY <1>1, <1>3, <1>4, <1>6, <1>7
<1>9. Cardinality(U \ {i}) = Cardinality(U) - 1 /\ Cardinality(U) \in Nat
  <2>1. IsFiniteSet(1..n)
    BY FS_Interval
  <2>2. IsFiniteSet(U)
    BY <1>7, <2>1, FS_Subset
  <2> QED
    BY <1>8, <2>2, FS_RemoveElement, FS_CardinalityType
<1>10. Unsent(up) = Cardinality(U) /\ Unsent(up') = Cardinality(U \ {i})
  BY <1>3, <1>6, <1>7, <1>8 DEF Unsent
<1>11. Retries(up') = Retries(up) /\ Retries(up) \in Nat
  BY <1>2, <1>5, StepsAreCounted DEF Retries
<1>12. /\ StepsLeft(up) = Retries(up) + 2 + Unsent(up)
       /\ StepsLeft(up') = Retries(up') + 2 + Unsent(up')
  BY <1>1, <1>5, StepsByPlace
<1> QED
  BY <1>9, <1>10, <1>11, <1>12

\* Every step of the call takes it nearer to its end.
LEMMA CallStepCosts ==
    ASSUME TransferInv, TransferInv', CallStep
    PROVE  StepsLeft(up') < StepsLeft(up)
<1>1. up \in UpRecord /\ up' \in UpRecord /\ TransferTypeOK
  BY DEF TransferInv, TransferTypeOK
<1>2. PICK w \in Nat, r \in Nat, u \in 0..MaxBlocks, d \in 0..MaxBlocks :
         /\ w = AttemptSteps /\ w = MaxBlocks + 3
         /\ r = Retries(up) /\ u = Unsent(up) /\ d = Len(up.digest)
  BY <1>1, StepsAreCounted
<1>3. PICK u1 \in 0..MaxBlocks, d1 \in 0..MaxBlocks :
         u1 = Unsent(up') /\ d1 = Len(up'.digest)
  BY <1>1, StepsAreCounted
<1>4. up'.attempt = up.attempt => Retries(up') = r
  BY <1>2 DEF Retries
<1>5. CASE Digest
  <2>1. up.pc = "digesting" /\ StepsLeft(up) = r + w + 2 + MaxBlocks - d
    BY <1>2, <1>5, StepsByPlace DEF Digest
  <2>2. CASE Len(up.digest) < Len(file)
    <3>1. /\ up'.pc = "digesting" /\ up'.attempt = up.attempt
          /\ up'.digest = Append(up.digest, file[Len(up.digest) + 1])
      BY <1>1, <1>5, <2>2 DEF Digest, UpRecord
    <3>2. d1 = d + 1
      <4>1. up.digest \in Seq(Blocks)
        BY <1>1, ContentsAreSequences DEF UpRecord
      <4> QED
        BY <1>2, <1>3, <3>1, <4>1
    <3>3. StepsLeft(up') = r + w + 2 + MaxBlocks - d1
      BY <1>2, <1>3, <1>4, <3>1, StepsByPlace
    <3> QED
      BY <2>1, <3>2, <3>3
  <2>3. CASE ~(Len(up.digest) < Len(file))
    <3>1. up'.pc = "sizing" /\ up'.attempt = up.attempt
      BY <1>1, <1>5, <2>3 DEF Digest, UpRecord
    <3>2. StepsLeft(up') = r + w + 1
      BY <1>2, <1>4, <3>1, StepsByPlace
    <3> QED
      BY <2>1, <3>2
  <2> QED
    BY <2>2, <2>3
<1>6. CASE Size
  <2>1. up.pc = "sizing" /\ up'.pc = "opening" /\ up'.attempt = up.attempt
    BY <1>1, <1>6 DEF Size, UpRecord
  <2>2. StepsLeft(up) = r + w + 1 /\ StepsLeft(up') = r + w
    BY <1>2, <1>4, <2>1, StepsByPlace
  <2> QED
    BY <2>2
<1>7. CASE ReadFails
  <2>1. up.pc \in {"digesting", "sizing"} /\ up'.pc = "refused"
    BY <1>1, <1>7 DEF ReadFails, UpRecord
  <2>2. StepsLeft(up) \in {r + w + 2 + MaxBlocks - d, r + w + 1} /\ StepsLeft(up') = 0
    BY <1>2, <2>1, StepsByPlace DEF TransferEnds
  <2>3. r + w + 2 + MaxBlocks - d > 0 /\ r + w + 1 > 0
    OBVIOUS
  <2> QED
    BY <2>2, <2>3
<1>8. CASE Open
  <2>1. up.pc = "opening" /\ up'.pc = "sending" /\ up'.attempt = up.attempt
    BY <1>1, <1>8 DEF Open, UpRecord
  <2>2. StepsLeft(up) = r + w /\ StepsLeft(up') = r + 2 + u1
    BY <1>2, <1>3, <1>4, <2>1, StepsByPlace
  <2>3. w = MaxBlocks + 3
    BY <1>2
  <2> QED
    BY <2>2, <2>3
<1>9. CASE \E i \in 1..MaxBlocks : SendBlock(i)
  BY <1>9, BlockCosts
<1>10. ASSUME NEW answered \in BOOLEAN, NEW retryable \in BOOLEAN, SendDone(answered, retryable)
       PROVE  StepsLeft(up') < StepsLeft(up)
  <2>1. CASE answered
    <3>1. up.pc = "sending" /\ up'.pc = "confirming" /\ up'.attempt = up.attempt
      BY <1>1, <1>10, <2>1 DEF SendDone, UpRecord
    <3>2. StepsLeft(up) = r + 2 + u /\ StepsLeft(up') = r + 1
      BY <1>2, <1>4, <3>1, StepsByPlace
    <3> QED
      BY <3>2
  <2>2. CASE ~answered
    BY <1>1, <1>10, <2>2, FailureCosts DEF SendDone
  <2> QED
    BY <2>1, <2>2
<1>11. ASSUME NEW retryable \in BOOLEAN, SendFails(retryable) \/ ConfirmFails(retryable)
       PROVE  StepsLeft(up') < StepsLeft(up)
  BY <1>1, <1>11, FailureCosts DEF SendFails, ConfirmFails
<1>12. CASE Confirm
  <2>1. up.pc = "confirming" /\ up'.pc \in {"returned", "mismatch"}
    BY <1>1, <1>12 DEF Confirm, UpRecord
  <2>2. StepsLeft(up) = r + 1 /\ StepsLeft(up') = 0
    BY <1>2, <2>1, StepsByPlace DEF TransferEnds
  <2> QED
    BY <2>2
<1> QED
  BY <1>5, <1>6, <1>7, <1>8, <1>9, <1>10, <1>11, <1>12 DEF CallStep

\* A call takes no more than StepsLeft steps from wherever it is (TransferRunsOut), whatever the
\* number of attempts and whoever edits: that it takes them is the fairness of its process.
THEOREM TransfersRunOut == TransferSpec => TransferRunsOut
<1>1. TransferInv /\ TransferInv' /\ [TransferNext]_transferVars
         => [StepsLeft(up) >= 0 /\ (up' # up => StepsLeft(up') < StepsLeft(up))]_transferVars
  <2> SUFFICES ASSUME TransferInv, TransferInv', [TransferNext]_transferVars
               PROVE  StepsLeft(up) >= 0 /\ (up' # up => StepsLeft(up') < StepsLeft(up))
    OBVIOUS
  <2>1. StepsLeft(up) >= 0
    <3>1. StepsLeft(up) \in Nat
      BY StepsAreCounted DEF TransferInv, TransferTypeOK
    <3> QED
      BY <3>1
  <2>2. CASE CallStep
    BY <2>1, <2>2, CallStepCosts
  <2>3. CASE Edit \/ UNCHANGED transferVars
    <3>1. up' = up
      BY <2>3 DEF Edit, Overwrite, Extend, Truncate, Edited, transferVars
    <3> QED
      BY <2>1, <3>1
  <2> QED
    BY <2>2, <2>3 DEF TransferNext
<1> QED
  BY <1>1, TransferInductive, PTL DEF TransferSpec, TransferRunsOut

-----------------------------------------------------------------------------
(* UploadVerified implements Transfer *)

\* What Transfer sees of the object and of the call.
BlobNow ==
    IF ~object.there THEN "absent" ELSE IF object.sent = up.digest THEN "whole" ELSE "torn"
AnswerNow == IF up.pc = "returned" THEN "ok" ELSE IF TransferEnded THEN "raised" ELSE "none"

\* Nothing is written before there is a digest.
NothingYet == up.pc \in {"digesting", "sizing"} => ~object.there

\* As long as the digest is not complete there is no object to compare with it.
LEMMA NothingYetKeeps == TransferInv /\ NothingYet /\ [TransferNext]_transferVars => NothingYet'
<1> SUFFICES ASSUME TransferInv, NothingYet, [TransferNext]_transferVars PROVE NothingYet'
  OBVIOUS
<1>1. up \in UpRecord
  BY DEF TransferInv, TransferTypeOK
<1>2. ASSUME NEW retryable \in BOOLEAN, AttemptFails(retryable)
      PROVE  up'.pc \in {"refused", "gaveup", "opening"}
  BY <1>1, <1>2 DEF AttemptFails, UpRecord
<1>3. CASE Edit \/ UNCHANGED transferVars
  BY <1>3 DEF Edit, Overwrite, Extend, Truncate, Edited, transferVars, NothingYet
<1>4. CASE Digest \/ Size \/ ReadFails
  BY <1>1, <1>4 DEF Digest, Size, ReadFails, NothingYet, UpRecord
<1>5. CASE Open \/ \E i \in 1..MaxBlocks : SendBlock(i)
  <2>1. up'.pc = "sending"
    BY <1>1, <1>5 DEF Open, SendBlock, UpRecord
  <2> QED
    BY <2>1 DEF NothingYet
<1>6. CASE \E answered, retryable \in BOOLEAN : SendDone(answered, retryable)
  BY <1>1, <1>2, <1>6 DEF SendDone, NothingYet, UpRecord
<1>7. CASE \E retryable \in BOOLEAN : SendFails(retryable) \/ ConfirmFails(retryable)
  BY <1>2, <1>7 DEF SendFails, ConfirmFails, NothingYet
<1>8. CASE Confirm
  BY <1>1, <1>8 DEF Confirm, NothingYet, UpRecord
<1> QED
  BY <1>3, <1>4, <1>5, <1>6, <1>7, <1>8 DEF TransferNext, CallStep

\* With the file left alone, what is digested is what is sent.
LEMMA SteadyIsWhole ==
    ASSUME TransferInv, up.pc \in {"sending", "confirming"}, edits = 0, object.there
    PROVE  BlobNow = "whole"
<1>1. file \in Seq(Blocks) /\ up.digest \in Seq(Blocks)
  BY ContentsAreSequences DEF TransferInv, TransferTypeOK, UpRecord
<1>2. /\ Len(up.digest) = Len(file) /\ \A i \in 1..Len(up.digest) : up.digest[i] = file[i]
      /\ object.sent = file
  BY DEF TransferInv, FileIsRead, Digested
<1>3. up.digest = file
  BY <1>1, <1>2, SMTT(30)
<1> QED
  BY <1>2, <1>3 DEF BlobNow

\* Sending writes a whole object, or one of a file that was edited.
LEMMA WholeAppears ==
    ASSUME TransferInv, TransferInv', NEW answered \in BOOLEAN, NEW retryable \in BOOLEAN,
           SendDone(answered, retryable)
    PROVE  BlobNow' = "whole" \/ (edits # 0 /\ BlobNow' = "torn")
<1>1. /\ up \in UpRecord /\ up.pc = "sending" /\ object' = [sent |-> up.sent, there |-> TRUE]
      /\ file' = file /\ edits' = edits
  BY DEF SendDone, TransferInv, TransferTypeOK
<1>2. up'.digest = up.digest
  BY <1>1 DEF SendDone, AttemptFails, UpRecord
<1>3. object'.there /\ BlobNow' = IF object'.sent = up.digest THEN "whole" ELSE "torn"
  BY <1>1, <1>2 DEF BlobNow
<1>4. ASSUME edits = 0 PROVE object'.sent = up.digest
  <2>1. object'.sent = file
    BY <1>1, <1>3, <1>4 DEF TransferInv, FileIsRead
  <2>2. file \in Seq(Blocks) /\ up.digest \in Seq(Blocks)
    BY ContentsAreSequences DEF TransferInv, TransferTypeOK, UpRecord
  <2>3. Len(up.digest) = Len(file) /\ \A i \in 1..Len(up.digest) : up.digest[i] = file[i]
    BY <1>1, <1>4 DEF TransferInv, FileIsRead, Digested
  <2>4. up.digest = file
    BY <2>2, <2>3, SMTT(30)
  <2> QED
    BY <2>1, <2>4
<1> QED
  BY <1>3, <1>4

\* Every step is one of Transfer's, or none that it sees.
LEMMA StepsKeepPromise ==
    ASSUME TransferInv, TransferInv', NothingYet, NothingYet', [TransferNext]_transferVars
    PROVE  [Promised!Next]_(Promised!promiseVars)
<1>1. SUFFICES \/ edits' # 0 /\ BlobNow' = BlobNow /\ AnswerNow' = AnswerNow
               \/ /\ edits' = edits
                  /\ \/ BlobNow' = BlobNow /\ AnswerNow' = AnswerNow
                     \/ /\ AnswerNow = "none" /\ AnswerNow' = "none"
                        /\ BlobNow' = "whole" \/ (edits # 0 /\ BlobNow' = "torn")
                     \/ /\ AnswerNow = "none" /\ AnswerNow' = "ok" /\ BlobNow' = BlobNow
                        /\ BlobNow = "whole" \/ (edits # 0 /\ BlobNow = "torn")
                     \/ /\ AnswerNow = "none" /\ AnswerNow' = "raised"
                        /\ \/ BlobNow' = BlobNow
                           \/ BlobNow' = "whole" \/ (edits # 0 /\ BlobNow' = "torn")
  BY DEF Promised!Next, Promised!Edit, Promised!Put, Promised!Succeed, Promised!Raise,
         Promised!Appears, Promised!promiseVars, BlobNow, AnswerNow
<1>2. up \in UpRecord /\ up' \in UpRecord
  BY DEF TransferInv, TransferTypeOK
<1>3. \A retryable \in BOOLEAN :
         AttemptFails(retryable) => /\ up'.digest = up.digest
                                    /\ up'.pc \in {"refused", "gaveup", "opening"}
  BY <1>2 DEF AttemptFails, UpRecord
<1>4. CASE Edit
  <2>1. up' = up /\ object' = object /\ edits' = edits + 1 /\ edits \in Nat
    BY <1>4 DEF Edit, Overwrite, Extend, Truncate, Edited, TransferInv, TransferTypeOK
  <2>2. edits' # 0
    BY <2>1
  <2> QED
    BY <2>1, <2>2 DEF BlobNow, AnswerNow, TransferEnded
<1>5. CASE UNCHANGED transferVars
  BY <1>5 DEF transferVars, BlobNow, AnswerNow, TransferEnded
<1>6. CASE Digest \/ Size \/ ReadFails
  <2>1. /\ object' = object /\ edits' = edits
        /\ up.pc \in {"digesting", "sizing"}
        /\ up'.pc \in {"digesting", "sizing", "opening", "refused"}
    BY <1>2, <1>6 DEF Digest, Size, ReadFails, UpRecord
  <2>2. BlobNow = "absent" /\ BlobNow' = "absent"
    BY <2>1 DEF NothingYet, BlobNow
  <2>3. AnswerNow = "none" /\ AnswerNow' \in {"none", "raised"}
    BY <2>1 DEF AnswerNow, TransferEnded, TransferEnds
  <2> QED
    BY <2>1, <2>2, <2>3
<1>7. CASE Open \/ \E i \in 1..MaxBlocks : SendBlock(i)
  <2>1. /\ object' = object /\ edits' = edits /\ up'.digest = up.digest
        /\ up.pc \in {"opening", "sending"} /\ up'.pc = "sending"
    BY <1>2, <1>7 DEF Open, SendBlock, UpRecord
  <2>2. BlobNow' = BlobNow
    BY <2>1 DEF BlobNow
  <2>3. AnswerNow = "none" /\ AnswerNow' = "none"
    BY <2>1 DEF AnswerNow, TransferEnded, TransferEnds
  <2> QED
    BY <2>1, <2>2, <2>3
<1>8. ASSUME NEW answered \in BOOLEAN, NEW retryable \in BOOLEAN, SendDone(answered, retryable)
      PROVE  /\ edits' = edits /\ AnswerNow = "none" /\ AnswerNow' \in {"none", "raised"}
             /\ BlobNow' = "whole" \/ (edits # 0 /\ BlobNow' = "torn")
  <2>1. /\ edits' = edits /\ up.pc = "sending"
        /\ up'.pc \in {"confirming", "refused", "gaveup", "opening"}
    BY <1>2, <1>3, <1>8 DEF SendDone, UpRecord
  <2>2. AnswerNow = "none" /\ AnswerNow' \in {"none", "raised"}
    BY <2>1 DEF AnswerNow, TransferEnded, TransferEnds
  <2> QED
    BY <1>8, <2>1, <2>2, WholeAppears
<1>9. ASSUME NEW retryable \in BOOLEAN, SendFails(retryable) \/ ConfirmFails(retryable)
      PROVE  /\ edits' = edits /\ AnswerNow = "none" /\ AnswerNow' \in {"none", "raised"}
             /\ BlobNow' = BlobNow
  <2>1. /\ object' = object /\ edits' = edits /\ up'.digest = up.digest
        /\ up.pc \in {"sending", "confirming"}
        /\ up'.pc \in {"refused", "gaveup", "opening"}
    BY <1>3, <1>9 DEF SendFails, ConfirmFails
  <2>2. BlobNow' = BlobNow
    BY <2>1 DEF BlobNow
  <2>3. AnswerNow = "none" /\ AnswerNow' \in {"none", "raised"}
    BY <2>1 DEF AnswerNow, TransferEnded, TransferEnds
  <2> QED
    BY <2>1, <2>2, <2>3
<1>10. CASE Confirm
  <2>1. /\ object' = object /\ edits' = edits /\ up'.digest = up.digest
        /\ up.pc = "confirming" /\ up'.pc \in {"returned", "mismatch"}
    BY <1>2, <1>10 DEF Confirm, UpRecord
  <2>2. BlobNow' = BlobNow
    BY <2>1 DEF BlobNow
  <2>3. object.there
    BY <2>1 DEF TransferInv, ReturnsConfirmed
  <2>4. BlobNow = "whole" \/ (edits # 0 /\ BlobNow = "torn")
    BY <2>1, <2>3, SteadyIsWhole DEF BlobNow
  <2>5. AnswerNow = "none" /\ AnswerNow' \in {"ok", "raised"}
    BY <2>1 DEF AnswerNow, TransferEnded, TransferEnds
  <2> QED
    BY <2>1, <2>2, <2>4, <2>5
<1> QED
  BY <1>4, <1>5, <1>6, <1>7, <1>8, <1>9, <1>10 DEF TransferNext, CallStep

\* upload_verified, with its digest, attempts, blocks and confirmations, is the transfer that the
\* rest of the store relies on (ImplementsTransfer).
THEOREM TransfersKeepPromise == TransferSpec => ImplementsTransfer
<1>1. TransferInit => NothingYet /\ Promised!Init
  BY DEF TransferInit, NoObject, NothingYet, Promised!Init, TransferEnded, TransferEnds
<1>2. TransferInv /\ NothingYet /\ [TransferNext]_transferVars => NothingYet'
  BY NothingYetKeeps
<1>3. /\ TransferInv /\ TransferInv' /\ NothingYet /\ NothingYet' /\ [TransferNext]_transferVars
      => [Promised!Next]_(Promised!promiseVars)
  BY StepsKeepPromise
<1> QED
  BY <1>1, <1>2, <1>3, TransferInductive, PTL DEF TransferSpec, ImplementsTransfer, Promised!Spec
=============================================================================
